------------------------------- MODULE Variants -------------------------------
(***************************************************************************)
(* The VARIANTs of bcap_core (dn_common.c) and their RAC strings           *)
(* (rac_string.c), in which bcap_service takes arguments and answers:      *)
(* conversions between types, copies, and who owns the strings.            *)
(*                                                                         *)
(* Integers have their width, scaled down, and a long is as wide as 64-bit *)
(* integers (LP64).  Reals are whole here: a cast drops the rest.  A text  *)
(* is <<>>, <<"num", n, tail>> (what strtol reads, and what follows it),   *)
(* <<"date", t>>, or <<c>> for any other; an RAC string is a sequence of   *)
(* texts, separators <<"(">>, <<")">>, <<",">> and <<"type", vt, array>>.  *)
(***************************************************************************)
EXTENDS Integers, Sequences, SequencesExt

CONSTANTS
    Width,      \* the integer types and "long" -> bits
    RealMax,    \* the real types -> greatest magnitude
    Zone,       \* what mktime adds: it reads as local what gmtime wrote
    Sources,    \* the VARIANTs that come from outside
    Wild        \* what a cast out of range may give, before it is cut

VARIABLES
    x,          \* a VARIANT
    y,          \* another, what x is converted or copied to
    strings     \* how many BSTRs are allocated

vars == <<x, y, strings>>

Signed == {"I2", "I4", "I8", "CY", "DATE", "BOOL"}
Unsigned == {"UI1", "UI2", "UI4", "UI8"}
Whole == Signed \cup Unsigned
Real == {"R4", "R8"}
Numeric == Whole \cup Real
Types == Numeric \cup {"EMPTY", "NULL", "ERROR", "BSTR"}

V(vt, v) == [vt |-> vt, array |-> FALSE, val |-> v]
Empty == V("EMPTY", "none")
Done(v) == [hr |-> "S_OK", v |-> v]
Failed(hr) == [hr |-> hr, v |-> Empty]

\* What the build makes of undefined behaviour: a negative 32-bit integer that
\* "%ld" prints with the wrong upper half, and a real cast out of range.
Builds == [upper : BOOLEAN, wild : Wild]
-----------------------------------------------------------------------------
(* Integers of C *)

Lowest(vt) == IF vt \in Signed THEN -(2 ^ (Width[vt] - 1)) ELSE 0
Highest(vt) == IF vt \in Signed THEN 2 ^ (Width[vt] - 1) - 1 ELSE 2 ^ Width[vt] - 1
InRange(n, vt) == Lowest(vt) <= n /\ n <= Highest(vt)
Fit(n, vt) ==
    LET m == n % 2 ^ Width[vt]
    IN IF m > Highest(vt) THEN m - 2 ^ Width[vt] ELSE m

\* (vt)(n), n of type from.
Cast(n, from, vt, b) ==
    IF vt \in Real THEN n
    ELSE IF from \in Real /\ ~InRange(n, vt) THEN Fit(b.wild, vt) ELSE Fit(n, vt)

(* SubChangeType: the limits are those of limits.h for another type than   *)
(* the target's in some cases, and are cast to the type of the source.     *)
LimitOf == [I2 |-> "I2", I4 |-> "I8", I8 |-> "I8", CY |-> "I8",
            UI1 |-> "UI2", UI2 |-> "UI2", UI4 |-> "UI8", UI8 |-> "UI8"]

\* The greatest 64-bit integers round up when they become reals.
Limit(n, vt, from) ==
    IF from \in Real THEN IF n > 0 /\ Width[LimitOf[vt]] = Width["I8"] THEN n + 1 ELSE n
    ELSE Fit(n, from)

\* Slip: a target as wide as the source counts as wide enough for a real too.
CheckOverflowOfWidth(from, vt) == from \notin Real /\ Width[vt] < Width[from]

CheckOverflow(from, vt) == from \in Real \/ Width[vt] < Width[from]

TooSmall(n, from, vt) ==
    IF vt \in Unsigned
      THEN n < 0 /\ <<from, vt>> \notin {<<"I2", "UI2">>, <<"I4", "UI4">>, <<"I8", "UI8">>}
      ELSE /\ CheckOverflow(from, vt) /\ from \notin Unsigned
           /\ n < Limit(Lowest(LimitOf[vt]), vt, from)
TooBig(n, from, vt) ==
    CheckOverflow(from, vt) /\ n > Limit(Highest(LimitOf[vt]), vt, from)

\* A BOOL is never checked, and nothing is checked for a BOOL, a DATE or an R8.
OutOfRange(n, from, vt) ==
    IF from = "BOOL" THEN FALSE
    ELSE IF vt = "R4" THEN from = "R8" /\ (n > RealMax[vt] \/ n < -RealMax[vt])
    ELSE vt \in DOMAIN LimitOf /\ (TooSmall(n, from, vt) \/ TooBig(n, from, vt))

Variant2Bstr(n, from, b) ==
    IF from = "DATE" THEN <<"date", n>>
    ELSE <<"num", IF from = "I4" /\ b.upper THEN Fit(n, "UI4") ELSE n, "">>

\* From a number to another type.
SubChangeType(n, from, vt, b) ==
    CASE vt \in {"EMPTY", "NULL"} -> Done(V(vt, "none"))
      [] vt = "ERROR" -> Failed("TYPEMISMATCH")
      [] vt = "BSTR" -> Done(V(vt, Variant2Bstr(n, from, b)))
      [] vt = "BOOL" -> Done(V(vt, IF n # 0 THEN -1 ELSE 0))
      [] OTHER -> IF OutOfRange(n, from, vt) THEN Failed("OVERFLOW")
                  ELSE Done(V(vt, Cast(n, from, vt, b)))

(* Bstr2Variant: strtol, strtoul or their long long forms read a text, a    *)
(* type as narrow as 32 bits takes the low half, and narrower ones go on    *)
(* from there.                                                             *)
Number(t) == t # <<>> /\ t[1] = "num"
Bstr2Integer(t, vt, b) ==
    IF ~Number(t) \/ t[3] \notin {"", "."} THEN Failed("TYPEMISMATCH")
    ELSE IF vt \in Unsigned
      THEN LET n == Fit(t[2], "UI4")
           IN IF t[2] > Highest("UI8") \/ t[2] < -Highest("UI8") THEN Failed("OVERFLOW")
              ELSE IF vt \in {"UI1", "UI2"} THEN SubChangeType(n, "UI4", vt, b)
              ELSE IF t[2] < 0 THEN Failed("OVERFLOW")
              ELSE Done(V(vt, Fit(t[2], vt)))
      ELSE LET n == Fit(t[2], "I4")
           IN IF ~InRange(t[2], "I8") THEN Failed("OVERFLOW")
              ELSE IF vt \in {"I2", "BOOL"} THEN SubChangeType(n, "I4", vt, b)
              ELSE Done(V(vt, Fit(t[2], vt)))

Bstr2Variant(t, vt, b) ==
    IF t = <<>> THEN Failed("TYPEMISMATCH")
    ELSE IF vt \in {"EMPTY", "NULL"} THEN Done(V(vt, "none"))
    ELSE IF vt = "ERROR" THEN Failed("TYPEMISMATCH")
    ELSE IF vt = "DATE" THEN
      IF t[1] = "date" THEN Done(V(vt, Fit(t[2] + Zone, vt))) ELSE Failed("TYPEMISMATCH")
    ELSE IF vt \in Real THEN
      IF ~Number(t) \/ t[3] \notin {"", "."} THEN Failed("TYPEMISMATCH")
      ELSE IF t[2] > RealMax[vt] \/ t[2] < -RealMax[vt] THEN Failed("OVERFLOW")
      ELSE Done(V(vt, t[2]))
    ELSE Bstr2Integer(t, vt, b)

VariantChangeType(src, vt, b) ==
    IF ~src.array /\ vt = src.vt THEN Done(src)
    ELSE IF src.array THEN Failed("BADVARTYPE")
    ELSE IF src.vt = "EMPTY" THEN
      IF vt = "ERROR" THEN Failed("TYPEMISMATCH")
      ELSE Done(V(vt, IF vt = "BSTR" THEN <<>> ELSE IF vt = "NULL" THEN "none" ELSE 0))
    ELSE IF src.vt \in {"NULL", "ERROR"} THEN Failed("TYPEMISMATCH")
    ELSE IF src.vt = "BSTR" THEN Bstr2Variant(src.val, vt, b)
    ELSE SubChangeType(src.val, src.vt, vt, b)
-----------------------------------------------------------------------------
(* Ownership of strings *)

\* Elements that SafeArrayCreateVector and VariantCopy know.
Elements == Numeric \cup {"BSTR", "VARIANT"}

\* The strings that VariantClear and SafeArrayDestroy free, and VariantCopy
\* allocates for its copy.
RECURSIVE Held(_)
Held(v) ==
    IF v.vt = "BSTR" THEN IF v.array THEN Len(v.val) ELSE 1
    ELSE IF v.array /\ v.vt = "VARIANT"
      THEN FoldLeft(+, 0, [i \in DOMAIN v.val |-> Held(v.val[i])])
    ELSE 0

Init ==
    /\ x \in Sources /\ y = Empty
    /\ strings = Held(x)

VariantClear ==
    /\ y # Empty
    /\ y' = Empty /\ strings' = strings - Held(y)
    /\ UNCHANGED x

\* The destination is cleared first.
VariantCopy ==
    /\ y = Empty
    /\ y' = x /\ strings' = strings + Held(x)
    /\ UNCHANGED x

\* A conversion to another VARIANT leaves the source alone.
ChangeInto(vt, b) ==
    /\ y = Empty
    /\ LET r == VariantChangeType(x, vt, b)
       IN y' = r.v /\ strings' = strings + Held(r.v)
    /\ UNCHANGED x

\* Slip: the text a number was read from is not freed.
ChangeInPlaceKeepsText(vt, b) ==
    /\ y = Empty
    /\ LET r == VariantChangeType(x, vt, b)
       IN /\ r.hr = "S_OK"
          /\ x' = r.v
          /\ strings' = IF x.vt # "BSTR" /\ vt = "BSTR" THEN strings + 1 ELSE strings
    /\ UNCHANGED y

\* One in place frees the text it read a number from (Bstr2Variant); one that
\* fails changes nothing.
ChangeInPlace(vt, b) ==
    /\ y = Empty
    /\ LET r == VariantChangeType(x, vt, b)
       IN /\ r.hr = "S_OK"
          /\ x' = r.v
          /\ strings' = IF x.vt = "BSTR" /\ vt # "BSTR" THEN strings - 1
                        ELSE IF x.vt # "BSTR" /\ vt = "BSTR" THEN strings + 1
                        ELSE strings
    /\ UNCHANGED y
-----------------------------------------------------------------------------
(* RAC strings *)

Open == <<"(">>
Close == <<")">>
Comma == <<",">>

Joined(parts) ==
    FlattenSeq([i \in DOMAIN parts |-> IF i = 1 THEN parts[i] ELSE <<Comma>> \o parts[i]])

\* ConvertVariant2RacStr.  An empty array leaves no string at all (chDest is
\* NULL), and inside an array strlen is called on that.
RECURSIVE Variant2Rac(_, _)
Variant2Rac(v, b) ==
    LET Ok(s) == [hr |-> "S_OK", s |-> s]
        texts == [i \in DOMAIN v.val |->
                    IF v.vt = "BSTR" THEN Done(V("BSTR", v.val[i]))
                    ELSE VariantChangeType(V(v.vt, v.val[i]), "BSTR", b)]
        inner == [i \in DOMAIN v.val |-> Variant2Rac(v.val[i], b)]
        bad == {i \in DOMAIN v.val : inner[i].hr # "S_OK"}
        first == CHOOSE i \in bad : \A j \in bad : i <= j
        one == VariantChangeType(v, "BSTR", b)
        Text(t) == IF t = <<>> THEN <<>> ELSE <<t>>
    IN IF ~v.array THEN IF one.hr = "S_OK" THEN Ok(Text(one.v.val)) ELSE [hr |-> one.hr, s |-> <<>>]
       ELSE IF v.val = <<>> THEN [hr |-> "no string", s |-> <<>>]
       ELSE IF v.vt # "VARIANT" THEN Ok(Joined([i \in DOMAIN texts |-> Text(texts[i].v.val)]))
       ELSE IF bad = {} THEN Ok(Joined([i \in DOMAIN inner |->
                <<Open, <<"type", v.val[i].vt, v.val[i].array>>, Comma>> \o inner[i].s \o <<Close>>]))
       ELSE IF inner[first].hr = "no string" THEN [hr |-> "crash", s |-> <<>>]
       ELSE [hr |-> inner[first].hr, s |-> <<>>]

\* The brackets open after the first i tokens of s.
Depth(s, i) ==
    FoldLeft(LAMBDA d, t : IF t = Open THEN d + 1 ELSE IF t = Close THEN d - 1 ELSE d,
             0, SubSeq(s, 1, i))

\* SplitRacStr: at the commas outside brackets; no part when those do not match.
SplitRacStr(s) ==
    LET cuts == SetToSortSeq({0, Len(s) + 1}
                    \cup {i \in DOMAIN s : s[i] = Comma /\ Depth(s, i) = 0}, <)
    IN IF Depth(s, Len(s)) # 0 \/ \E i \in DOMAIN s : Depth(s, i) < 0 THEN <<>>
       ELSE [i \in 1..Len(cuts) - 1 |-> SubSeq(s, cuts[i] + 1, cuts[i + 1] - 1)]

\* A part of an RAC string as one text; what is no number has no other meaning.
TextOf(s) == IF s = <<>> THEN <<>> ELSE IF Len(s) = 1 THEN s[1] ELSE <<"...">>

\* ConvertRacStr2Variant.
RECURSIVE Rac2Variant(_, _, _, _)
Rac2Variant(vt, array, s, b) ==
    LET parts == IF ~array /\ vt = "BSTR" THEN <<s>> ELSE SplitRacStr(s)
        \* "(type,value)" and nothing else
        Typed(p) == /\ Len(p) >= 4 /\ p[1] = Open /\ Last(p) = Close
                    /\ Len(p[2]) = 3 /\ p[2][1] = "type" /\ p[3] = Comma
        Item(p) == IF vt = "VARIANT"
                     THEN IF Typed(p) THEN Rac2Variant(p[2][2], p[2][3], SubSeq(p, 4, Len(p) - 1), b)
                          ELSE Failed("INVALIDARG")
                   ELSE VariantChangeType(V("BSTR", TextOf(p)), vt, b)
        items == [i \in DOMAIN parts |-> Item(parts[i])]
    IN IF parts = <<>> THEN Failed("INVALIDARG")
       ELSE IF array
         THEN IF \E i \in DOMAIN items : items[i].hr # "S_OK"
                THEN Failed(SelectSeq(items, LAMBDA r : r.hr # "S_OK")[1].hr)
                ELSE Done([vt |-> vt, array |-> TRUE,
                           val |-> [i \in DOMAIN items |->
                                      IF vt = "VARIANT" THEN items[i].v ELSE items[i].v.val]])
       ELSE IF Len(parts) > 1 THEN Failed("INVALIDARG")
       ELSE items[1]

\* CallFunction of bcap_service passes an argument on to the controller (y), as
\* the RAC string of x says it; without a string nothing can be passed.
PassOn(b) ==
    /\ y = Empty
    /\ LET r == Variant2Rac(x, b)
           v == IF r.hr = "S_OK" THEN Rac2Variant(x.vt, x.array, r.s, b).v ELSE Empty
       IN y' = v /\ strings' = strings + Held(v)
    /\ UNCHANGED x

Next ==
    \/ VariantClear \/ VariantCopy
    \/ \E b \in Builds : PassOn(b) \/ \E vt \in Types : ChangeInto(vt, b) \/ ChangeInPlace(vt, b)

Spec == Init /\ [][Next]_vars
-----------------------------------------------------------------------------
(* Properties *)

RECURSIVE WellTyped(_)
WellTyped(v) ==
    IF v.array THEN v.vt \in Elements /\
         \A i \in DOMAIN v.val : WellTyped(IF v.vt = "VARIANT" THEN v.val[i] ELSE V(v.vt, v.val[i]))
    ELSE /\ v.vt \in Types
         /\ v.vt \in Whole => InRange(v.val, v.vt)
         /\ v.vt \in Real => -RealMax[v.vt] <= v.val /\ v.val <= RealMax[v.vt]

\* With it: every string that is allocated is in one VARIANT, none is lost by a
\* conversion and none is freed while a VARIANT still has it.
TypeOK == WellTyped(x) /\ WellTyped(y) /\ strings = Held(x) + Held(y)

\* The number a number or a text stands for.
Denoted == IF x.vt = "BSTR" THEN x.val[2] ELSE x.val
Denotes == ~x.array /\ (x.vt \in Numeric \/ (x.vt = "BSTR" /\ Number(x.val)))
Wide == {"I8", "UI8", "CY", "DATE", "BSTR"} \cup Real
Checked == Numeric \ {"BOOL", "DATE"}

\* The conversions whose result is another number.
OtherNumber(n, vt, v) ==
    \* as many bits, or the bits of a BOOL, with another sign
    \/ x.vt \in Whole /\ vt \in Whole /\ v = Fit(n, vt)
          /\ (Width[x.vt] = Width[vt] \/ x.vt = "BOOL")
    \* 32 bits from something wider: the limits are those of 64 bits
    \/ x.vt \in Wide /\ vt \in {"I4", "UI4"} /\ ~InRange(n, vt) /\ (x.vt \in Real \/ v = Fit(n, vt))
    \/ x.vt = "BSTR" /\ vt \in {"I2", "UI1", "UI2"} /\ v = Fit(n, vt) /\ ~InRange(n, "I4")
    \* a byte: the limit is that of 16 bits
    \/ vt = "UI1" /\ InRange(n, "UI2") /\ ~InRange(n, "UI1") /\ (x.vt \in Real \/ v = Fit(n, vt))
    \* the limit of 64 bits is one more as a real
    \/ x.vt \in Real /\ vt \in Whole /\ n = 1 + Highest(LimitOf[vt])

\* The conversions that never succeed: the limit is -1 in the type they are from.
NeverTaken == {<<"I2", "UI1">>, <<"I8", "UI4">>, <<"CY", "UI4">>, <<"DATE", "UI4">>}

NumbersKept ==
    Denotes =>
      \A vt \in Checked \ {x.vt}, b \in Builds :
        LET r == VariantChangeType(x, vt, b)
            n == Denoted
        IN /\ r.hr = "S_OK" => r.v.val = n \/ OtherNumber(n, vt, r.v.val)
           /\ r.hr = "OVERFLOW" => \/ <<x.vt, vt>> \in NeverTaken
                                   \/ vt \in Whole /\ ~InRange(n, vt)
                                   \/ vt \in Real /\ (n > RealMax[vt] \/ n < -RealMax[vt])

\* What an RAC string can say: no VT_EMPTY, no other TRUE than VARIANT_TRUE, no
\* date (but in UTC), no brackets, and no comma that would split an array.
RECURSIVE Sayable(_, _)
Sayable(v, inside) ==
    IF v.array THEN \A i \in DOMAIN v.val :
         IF v.vt = "VARIANT" THEN Sayable(v.val[i], TRUE)
         ELSE Sayable(V(v.vt, v.val[i]), TRUE) /\ (v.vt = "BSTR" => v.val[i] # Comma)
    ELSE /\ v.vt # "EMPTY" /\ (v.vt = "BOOL" => v.val \in {0, -1})
         /\ v.vt = "DATE" => Zone = 0
         /\ v.vt = "BSTR" /\ inside => v.val \notin {Open, Close}

StringsSayTheSame ==
    Sayable(x, FALSE) =>
      \A b \in Builds :
        LET r == Variant2Rac(x, b)
        IN r.hr = "S_OK" => Rac2Variant(x.vt, x.array, r.s, b) = Done(x)

\* A conversion that succeeds gives the number it was given and one that reports
\* an overflow could not, apart from the exceptions named above; and what
\* bcap_service writes as an RAC string it would read as the same VARIANT.
ValuesKept == NumbersKept /\ StringsSayTheSame
=============================================================================
