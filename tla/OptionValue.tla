------------------------------ MODULE OptionValue ------------------------------
(***************************************************************************)
(* GetOptionValue of dn_common.c, which reads one option out of a string   *)
(* such as "Key=value,Other=(a,b)": the options of ServiceStart and of the *)
(* connections.  A string is a sequence of characters; the outermost       *)
(* brackets of a run of characters are dropped from it, and hide the       *)
(* separators in them.                                                     *)
(***************************************************************************)
EXTENDS Naturals, Sequences, SequencesExt

CONSTANTS
    Options,    \* the options that lists are made of: [title, value]
    Key         \* the titles that _wcsicmp takes for the one asked for

VARIABLES
    list,       \* the options of the string
    bstrSrc,    \* the string, which may be cut short
    pvarDest    \* what was read out of it: a failure, nothing, TRUE, or a text

vars == <<list, bstrSrc, pvarDest>>

Nul == "NUL"
Pairs == {<<"(", ")">>, <<"[", "]">>, <<"{", "}">>, <<"<", ">">>}
NoPair == <<"none", "none">>

NoSpaces(s) ==
    LET first == {i \in DOMAIN s : s[i] # " "}
    IN IF first = {} THEN <<>>
       ELSE SubSeq(s, CHOOSE i \in first : \A j \in first : i <= j,
                      CHOOSE i \in first : \A j \in first : i >= j)

(* The loop over the characters.  a is its state: the nesting level and the *)
(* brackets that count, the option so far, and the answer once it has one.  *)
Begin == [level |-> 0, pair |-> NoPair, title |-> <<>>, value |-> <<>>, named |-> FALSE,
          answer |-> "none"]

\* The brackets are chosen by the last one met outside of any.
Bracket(a, c) ==
    IF a.level = 0 /\ \E p \in Pairs : c \in {p[1], p[2]}
      THEN [a EXCEPT !.pair = CHOOSE p \in Pairs : c \in {p[1], p[2]}]
      ELSE a

Keep(a, c) == IF a.named THEN [a EXCEPT !.value = Append(@, c)] ELSE [a EXCEPT !.title = Append(@, c)]

\* A title is what stands before a "="; without one there is no title at all.
EndOption(a, c) ==
    IF a.named /\ NoSpaces(a.title) \in Key THEN
           [a EXCEPT !.answer = IF a.value = <<>> THEN "empty" ELSE "found"]
    ELSE IF c = Nul THEN [a EXCEPT !.answer = "not found"]
    ELSE [Begin EXCEPT !.pair = a.pair]

Separator(a, c) ==
    IF c = "=" /\ a.named THEN [a EXCEPT !.answer = "E_FAIL"]
    ELSE IF c = "=" THEN [a EXCEPT !.named = TRUE]
    ELSE IF c \in {",", Nul} THEN EndOption(a, c)
    ELSE Keep(a, c)

\* Slip: a separator counts inside brackets too.
ScanEveryLevel(a, c) ==
    LET b == Bracket(a, c)
    IN IF a.answer # "none" THEN a
       ELSE IF c = b.pair[1] THEN
         IF b.level = 0 THEN [b EXCEPT !.level = 1] ELSE Keep([b EXCEPT !.level = @ + 1], c)
       ELSE IF c = b.pair[2] THEN
         IF b.level = 0 THEN [b EXCEPT !.answer = "E_FAIL"]
         ELSE IF b.level = 1 THEN [b EXCEPT !.level = 0] ELSE Keep([b EXCEPT !.level = @ - 1], c)
       ELSE Separator(b, c)

Scan(a, c) ==
    LET b == Bracket(a, c)
    IN IF a.answer # "none" THEN a
       ELSE IF c = b.pair[1] THEN
         IF b.level = 0 THEN [b EXCEPT !.level = 1] ELSE Keep([b EXCEPT !.level = @ + 1], c)
       ELSE IF c = b.pair[2] THEN
         IF b.level = 0 THEN [b EXCEPT !.answer = "E_FAIL"]
         ELSE IF b.level = 1 THEN [b EXCEPT !.level = 0] ELSE Keep([b EXCEPT !.level = @ - 1], c)
       ELSE IF b.level = 0 THEN Separator(b, c)
       ELSE Keep(b, c)

\* The end of the string is a character like the others; inside brackets it ends
\* the loop without an answer.  VariantChangeType then converts the text.
GetOptionValue(src, vt) ==
    LET a == FoldLeft(Scan, Begin, Append(src, Nul))
    IN CASE a.answer \in {"E_FAIL", "none"} -> <<"E_FAIL">>
         [] a.answer = "found" -> <<"text", NoSpaces(a.value)>>
         [] a.answer = "empty" /\ vt = "BOOL" -> <<"TRUE">>
         [] OTHER -> <<"VT_EMPTY">>

Written(o) == o.title \o <<"=">> \o o.value
String(options) ==
    FlattenSeq([i \in DOMAIN options |->
                  IF i = 1 THEN Written(options[i]) ELSE <<",">> \o Written(options[i])])

Init ==
    /\ list \in {<<>>} \cup {<<o>> : o \in Options} \cup {<<o, p>> : o \in Options, p \in Options}
    /\ \E n \in 0..Len(String(list)) : bstrSrc = SubSeq(String(list), 1, n)
    /\ pvarDest = <<"not asked">>

Get == \E vt \in {"BSTR", "BOOL"} :
    /\ pvarDest' = GetOptionValue(bstrSrc, vt)
    /\ UNCHANGED <<list, bstrSrc>>

Next == Get

Spec == Init /\ [][Next]_vars
-----------------------------------------------------------------------------
(* Properties *)

TypeOK ==
    pvarDest[1] \in {"not asked", "E_FAIL", "VT_EMPTY", "TRUE", "text"}

\* A value without its outermost brackets, if it is one pair of them.
Bare(value) ==
    LET v == NoSpaces(value)
    IN IF v # <<>> /\ \E p \in Pairs : v[1] = p[1] /\ Last(v) = p[2]
         THEN NoSpaces(SubSeq(v, 2, Len(v) - 1)) ELSE v

\* A second "=" outside brackets.
Bad(o) == Bare(o.value) = NoSpaces(o.value) /\ "=" \in ToSet(o.value)
Is(o) == NoSpaces(SelectSeq(o.title, LAMBDA c : c \notin {"(", ")"})) \in Key

\* What the options say: the value of the first one with the key, whatever
\* follows it, unless a malformed one comes first.
Says(options) ==
    LET at == {i \in DOMAIN options : Is(options[i]) \/ Bad(options[i])}
        first == options[CHOOSE i \in at : \A j \in at : i <= j]
    IN IF at = {} THEN {<<"VT_EMPTY">>}
       ELSE IF Bad(first) THEN {<<"E_FAIL">>}
       ELSE IF Bare(first.value) = <<>> THEN {<<"VT_EMPTY">>, <<"TRUE">>}
       ELSE {<<"text", Bare(first.value)>>}

\* The option asked for is read out of the list, never out of the value of
\* another; a string that ends inside brackets gives it only if it came before.
OptionFound ==
    pvarDest # <<"not asked">> =>
      \/ bstrSrc = String(list) /\ pvarDest \in Says(list)
      \/ /\ bstrSrc # String(list)
         /\ \/ pvarDest \in {<<"E_FAIL">>, <<"VT_EMPTY">>, <<"TRUE">>}
            \/ \E o \in ToSet(list), n \in 1..Len(String(list)) :
                 Is(o) /\ n <= Len(o.value) /\ pvarDest = <<"text", Bare(SubSeq(o.value, 1, n))>>
=============================================================================
