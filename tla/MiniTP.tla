-------------------------------- MODULE MiniTP --------------------------------
(***************************************************************************)
(* The calls of TPComm (dn_tpcomm.c) that draw, beep and light on a mini   *)
(* pendant, up to the packet they give to send_receive, and the callbacks  *)
(* of a received one.  Drawing takes its commands out of VARIANTs with     *)
(* ChangeVarType of dn_common.c.  TpLink has the connection itself.        *)
(***************************************************************************)
EXTENDS Integers, Sequences

CONSTANTS
    Room,       \* the bytes of data[248], a packet's greatest length
    Lists,      \* the lists of commands that applications draw
    Texts,      \* the strings they draw, as sequences of characters
    ByteArgs    \* the colours and places they give

VARIABLES
    by,         \* the drawing call that runs
    asked,      \* its commands
    todo,       \* those not packed yet
    data,       \* the packet so far
    result,     \* the call's hr, "unset" before anything assigned it
    packed      \* the packet it gave to send_receive: its command and data

vars == <<by, asked, todo, data, result, packed>>

None == [command |-> "none", data |-> <<>>]

(* VARIANTs: a number of one byte, a text, or an array with elements of one *)
(* or of sizeof(VARIANT) bytes.                                             *)
Byte(b) == [vt |-> "", val |-> b]
Bstr(s) == [vt |-> "BSTR", val |-> s]
Array(vt, items) == [vt |-> vt, val |-> items]
IsArray(v) == v.vt \in {"UI1", "VARIANT"}
Empty == [vt |-> "EMPTY", val |-> 0]
Garbled == [vt |-> "0x1111", val |-> 0]

\* A text or an array has a sequence, and so have the VARIANTs in an array.
IsSequence(s) == Len(s) \in Nat /\ s = [i \in 1..Len(s) |-> s[i]]
Whole(v) == v.vt \in {"UI1", "VARIANT", "BSTR"} => IsSequence(v.val)
WholeArray(v) == Whole(v) /\ (IsArray(v) => \A i \in DOMAIN v.val : Whole(v.val[i]))

\* A command that can be given.  Its argument may be an array, and the points of
\* lines and rectangles are one of bytes: others are not modelled.
Command(c) ==
    /\ WholeArray(c)
    /\ IsArray(c) => \A i \in DOMAIN c.val : WholeArray(c.val[i])
    /\ c.vt = "VARIANT" /\ Len(c.val) > 1 /\ c.val[1].val \in {"DRAW_LINE", "DRAW_RECT"}
         => c.val[2].vt # "VARIANT"

Drawing ==
    /\ \A list \in Lists : IsSequence(list) /\ \A i \in DOMAIN list : Command(list[i])
    /\ \A text \in Texts : IsSequence(text)

Init ==
    /\ by = "none" /\ asked = <<>> /\ todo = <<>> /\ data = <<>>
    /\ result = "unset" /\ packed = None
-----------------------------------------------------------------------------
(* ChangeVarType *)

\* As many VARIANTs as max, taken out of v.  The place they are written to
\* advances by the size of an element of the SOURCE, so those taken out of an
\* array of bytes overlap: the type of the first is spoilt, the others are not
\* where the caller looks.
Variants(v, max) ==
    LET n == IF Len(v.val) < max THEN Len(v.val) ELSE max
    IN IF ~IsArray(v) THEN <<v>>
       ELSE IF v.vt = "UI1" /\ n > 1
         THEN [i \in 1..n |-> IF i = 1 THEN Garbled ELSE Empty]
       ELSE SubSeq(v.val, 1, n)

\* The bytes out of v, an array of bytes or a single VARIANT.
BytesOf(v, max) ==
    IF ~IsArray(v) THEN IF v.vt = "" THEN <<v>> ELSE <<>>
    ELSE SubSeq(v.val, 1, IF Len(v.val) < max THEN Len(v.val) ELSE max)

\* The hr of VariantChangeType to VT_UI1 and to VT_BSTR (numbers as texts are
\* left out of Lists).
ToByte(v) ==
    CASE v.vt = "" -> "S_OK"
      [] v.vt = "EMPTY" -> "S_OK"
      [] v.vt = "BSTR" -> "TYPEMISMATCH"
      [] OTHER -> "BADVARTYPE"
ToText(v) == IF v.vt = "BSTR" THEN "S_OK" ELSE "BADVARTYPE"

(* TPComm_DrawMiniTP: one command of the list *)

Rejected(hr) == [hr |-> hr, bytes |-> <<>>]

\* Slip: a string is given the length of its text alone.
StringLengthOfText(n) == n + 5

StringLength(n) == 2 * n + 5

\* COLOR_FG, COLOR_BG and COLOR_FILL look for room before they look at the colour.
Color(code, arg) ==
    IF Room < Len(data) + 3 THEN Rejected("OUTOFMEMORY")
    ELSE IF ToByte(arg) # "S_OK" THEN Rejected(ToByte(arg))
    ELSE [hr |-> "S_OK", bytes |-> <<code, 1, arg.val>>]

String(code, arg) ==
    LET sub == Variants(arg, 5)
        hrs == [i \in DOMAIN sub |-> IF i = 1 THEN ToText(sub[i]) ELSE ToByte(sub[i])]
        bad == {i \in 1..5 : hrs[i] # "S_OK"}
        text == sub[1].val
        n == Len(text)
    IN IF Len(sub) < 5 THEN Rejected("INVALIDARG")
       ELSE IF bad # {} THEN Rejected(hrs[CHOOSE i \in bad : \A j \in bad : i <= j])
       ELSE IF Room < Len(data) + StringLength(n) + 2 THEN Rejected("OUTOFMEMORY")
       ELSE [hr |-> "S_OK",
             bytes |-> <<code, StringLength(n), sub[2].val, sub[3].val, sub[4].val, n>>
                       \o text \o <<0>> \o [i \in 1..n |-> sub[5].val]]

Shape(code, arg) ==
    LET sub == BytesOf(arg, 4)
    IN IF Len(sub) < 4 THEN Rejected("INVALIDARG")
       ELSE IF Room < Len(data) + 6 THEN Rejected("OUTOFMEMORY")
       ELSE [hr |-> "S_OK", bytes |-> <<code, 4>> \o [i \in 1..4 |-> sub[i].val]]

Packed(c) ==
    LET par == Variants(c, 2)
    IN IF ~IsArray(c) \/ Len(par) < 2 THEN Rejected("INVALIDARG")
       ELSE IF ToByte(par[1]) # "S_OK" THEN Rejected(ToByte(par[1]))
       ELSE CASE par[1].val \in {"COLOR_FG", "COLOR_BG", "COLOR_FILL"} -> Color(par[1].val, par[2])
              [] par[1].val = "DRAW_STRING" -> String(par[1].val, par[2])
              [] par[1].val \in {"DRAW_LINE", "DRAW_RECT"} -> Shape(par[1].val, par[2])
              [] OTHER -> Rejected("INVALIDARG")

(* The calls *)

Call(caller, commands) ==
    /\ by = "none"
    /\ by' = caller /\ asked' = commands /\ todo' = commands
    /\ data' = <<>> /\ result' = "unset" /\ packed' = None

TPComm_DrawMiniTP == \E list \in Lists : Call("DrawMiniTP", list)

Colored(code, b) == Array("UI1", <<Byte(code), Byte(b)>>)
Drawn(code, arg) == Array("VARIANT", <<Byte(code), arg>>)

TPComm_DrawString ==
    \E s \in Texts, x \in ByteArgs, y \in ByteArgs, size \in ByteArgs, attr \in ByteArgs,
       fg \in ByteArgs, bg \in ByteArgs :
      Call("DrawString",
           <<Colored("COLOR_FG", fg), Colored("COLOR_BG", bg),
             Drawn("DRAW_STRING",
                   Array("VARIANT", <<Bstr(s), Byte(x), Byte(y), Byte(size), Byte(attr)>>))>>)

Corners == {Array("UI1", <<Byte(x), Byte(y), Byte(v), Byte(w)>>) :
               x \in ByteArgs, y \in ByteArgs, v \in ByteArgs, w \in ByteArgs}

TPComm_DrawLine ==
    \E ends \in Corners, fg \in ByteArgs :
      Call("DrawLine", <<Colored("COLOR_FG", fg), Drawn("DRAW_LINE", ends)>>)

TPComm_DrawRectangle ==
    \E corners \in Corners, fg \in ByteArgs, bg \in ByteArgs :
      Call("DrawRectangle", <<Colored("COLOR_FG", fg), Colored("COLOR_BG", bg),
                              Drawn("DRAW_RECT", corners)>>)

\* One turn of the loop; a command that cannot be packed ends the call.
PackCommand ==
    /\ by # "none" /\ todo # <<>>
    /\ LET r == Packed(Head(todo))
       IN /\ result' = r.hr
          /\ IF r.hr = "S_OK"
               THEN todo' = Tail(todo) /\ data' = data \o r.bytes /\ UNCHANGED by
               ELSE by' = "none" /\ UNCHANGED <<todo, data>>
    /\ UNCHANGED <<asked, packed>>

\* Without any command hr was never assigned: it may look like a success or not.
SendDrawing ==
    /\ by # "none" /\ todo = <<>>
    /\ \/ packed' = [command |-> "MTP_DRAW", data |-> data]
       \/ result = "unset" /\ UNCHANGED packed
    /\ by' = "none"
    /\ UNCHANGED <<asked, todo, data, result>>

Sends(command, bytes) ==
    /\ by = "none"
    /\ packed' = [command |-> command, data |-> bytes]
    /\ UNCHANGED <<by, asked, todo, data, result>>

TPComm_BEEP == \E time \in ByteArgs : Sends("BEEP", <<0, time>>)
TPComm_LCD == \E contrast \in ByteArgs : Sends("LCD", <<0, contrast>>)

\* Another state than these three sends nothing.
TPComm_LED ==
    \E number \in ByteArgs, state \in {"LED_OFF", "LED_ON", "LED_FLASH"} : Sends(state, <<0, number>>)

Next ==
    \/ TPComm_DrawMiniTP \/ TPComm_DrawString \/ TPComm_DrawLine \/ TPComm_DrawRectangle
    \/ PackCommand \/ SendDrawing \/ TPComm_BEEP \/ TPComm_LCD \/ TPComm_LED

Spec == Init /\ [][Next]_vars
-----------------------------------------------------------------------------
(* Properties *)

TypeOK ==
    /\ by \in {"none", "DrawMiniTP", "DrawString", "DrawLine", "DrawRectangle"}
    /\ \E n \in 0..Len(asked) : todo = SubSeq(asked, n + 1, Len(asked))
    /\ Len(data) <= Room /\ Len(packed.data) <= Room
    /\ result \in {"unset", "S_OK", "INVALIDARG", "OUTOFMEMORY", "TYPEMISMATCH", "BADVARTYPE"}

\* A packet as the pendant takes it apart, a code, a length, as many bytes: where
\* its first n commands end.
Ends(bytes, n) ==
    LET end[i \in 0..n] == IF i = 0 THEN 0
                           ELSE IF Len(bytes) < end[i - 1] + 2 THEN Len(bytes) + 1
                           ELSE end[i - 1] + 2 + bytes[end[i - 1] + 2]
    IN end

\* What a command asks for.
Meaning(c) ==
    LET arg == c.val[2]
        at(i) == arg.val[i].val
    IN [code |-> c.val[1].val,
        bytes |-> IF ~IsArray(arg) THEN <<arg.val>>
                  ELSE IF arg.vt = "UI1" THEN <<at(1), at(2), at(3), at(4)>>
                  ELSE <<at(2), at(3), at(4), Len(at(1))>> \o at(1) \o <<0>>
                       \o [i \in DOMAIN at(1) |-> at(5)]]

\* What is sent is all the commands of the call, each with its own length, so
\* the pendant splits the packet where they were joined.
DrawnAsAsked ==
    by = "none" /\ todo = <<>> /\ asked # <<>> /\ packed.command = "MTP_DRAW"
      => LET bytes == packed.data
             end == Ends(bytes, Len(asked))
         IN /\ end[Len(asked)] = Len(bytes)
            /\ \A i \in DOMAIN asked :
                 Meaning(asked[i]) = [code |-> bytes[end[i - 1] + 1],
                                      bytes |-> SubSeq(bytes, end[i - 1] + 3, end[i])]

\* "Draws a string to Mini TP." (dn_tpcomm.h:413; 429 and 443 for a line and a
\* rectangle): such a call, of a text that has room in a packet, sends one.
DrawsToMiniTP ==
    [][(by \in {"DrawString", "DrawLine", "DrawRectangle"} /\ by' = "none")
         => packed' = [command |-> "MTP_DRAW", data |-> data]]_vars
=============================================================================
