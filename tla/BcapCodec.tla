------------------------------ MODULE BcapCodec ------------------------------
(***************************************************************************)
(* Coding of b-CAP packets (bcap_common.c): the size of a packet is        *)
(* computed first, by one walk over its arguments, the buffer is filled by *)
(* another, and the other end reads it by a third.  The three agree only   *)
(* by their tables of types.                                               *)
(*                                                                         *)
(* A buffer is the sequence of the fields written to it, each with its     *)
(* size; reading a field of another size than was written is reading       *)
(* garbage.  A VARIANT is its type vt, whether it is an array, its values  *)
(* val, one unless it is an array, and sub, the VARIANTs in it if it is an *)
(* array of these.  A value is a sequence of numbers: of one, or of the    *)
(* characters of a string.                                                 *)
(***************************************************************************)
EXTENDS Integers, Sequences

CONSTANTS
    Deepest,    \* bound: how deep there are VARIANTs in VARIANTs
    Level,      \* Level[d]: the VARIANTs that have others in them d deep or less
    ArgLists,   \* the arguments of the packets sent
    Rooms,      \* how many arguments the receiver has room for
    Second(_)   \* what n seconds are once they were written as days, a double

VARIABLES
    sent,       \* the arguments to send
    room,       \* argc of the packet to fill, 65535 for any
    pc,         \* "size", "encode", "decode" or "done"
    len,        \* len_send, from bcap_calc_size_packet
    buf,        \* the arguments' part of buf_send
    args,       \* the received packet's arguments
    hr          \* "S_OK", or "FAILED" for any error

vars == <<sent, room, pc, len, buf, args, hr>>

\* The bytes of a datum of each type, and of an element of an array.
Size1 == {"UI1"}
Size2 == {"I2", "UI2", "BOOL"}
Size4 == {"I4", "UI4", "R4"}
Size8 == {"I8", "UI8", "R8", "CY", "DATE"}
SizeOf(vt) == CASE vt \in Size1 -> 1 [] vt \in Size2 -> 2
                [] vt \in Size4 -> 4 [] vt \in Size8 -> 8 [] OTHER -> 0
ScalarSizeOf(vt) == IF vt = "ERROR" THEN 4 ELSE SizeOf(vt)
ElementSize(vt, array) == IF array THEN SizeOf(vt) ELSE ScalarSizeOf(vt)

SizeMin == 16       \* BCAP_SIZE_MIN
SizeDataLen == 4    \* BCAP_SIZE_DATA_LEN
SizeType == 2       \* BCAP_SIZE_VARIANT_TYPE
SizeNum == 4        \* BCAP_SIZE_VARIANT_NUM
SizeBstrLen == 4    \* BCAP_SIZE_BSTR_LEN
SizeChar == 2       \* BCAP_SIZE_BSTR_BUFFER

\* The days that stand for a second are rounded up or down: with 53 bits, true of
\* any date before 2^50.
Rounded(v) == v[1] > 0 => Second(v[1]) \in {v[1] - 1, v[1]}

\* What the VARIANTs of C can be: those of a type have the values of that type.
Coding ==
    /\ Deepest \in Nat /\ Rooms \subseteq Nat /\ ArgLists \subseteq Seq(Level[Deepest])
    /\ \A d \in 0..Deepest : \A x \in Level[d] :
         /\ x = [vt |-> x.vt, array |-> x.array, val |-> x.val, sub |-> x.sub]
         /\ x.array \in BOOLEAN /\ x.val \in Seq(Seq(Int))
         /\ x.vt # "BSTR" => \A i \in DOMAIN x.val : Len(x.val[i]) = 1
         /\ x.vt = "DATE" => \A i \in DOMAIN x.val : Rounded(x.val[i])
         /\ x.vt = "VARIANT" => x.val = <<>>
         /\ x.sub \in Seq(IF d = 0 THEN {} ELSE Level[d - 1])
         /\ x.sub # <<>> => x.vt = "VARIANT" /\ x.array
         /\ ~x.array => Len(x.val) = IF x.vt = "BSTR" \/ ScalarSizeOf(x.vt) > 0 THEN 1 ELSE 0

SumOf(ns) ==
    LET sum[i \in 0..Len(ns)] == IF i = 0 THEN 0 ELSE sum[i - 1] + ns[i]
    IN sum[Len(ns)]

Joined(ss) ==
    LET joined[i \in 0..Len(ss)] == IF i = 0 THEN <<>> ELSE joined[i - 1] \o ss[i]
    IN joined[Len(ss)]
-----------------------------------------------------------------------------
(* The size: bcap_calc_size_variant and bcap_calc_size_packet *)

\* Slip: the length of a string is counted in characters.
CalcBstrChars(s) == SizeBstrLen + Len(s)

CalcBstr(s) == SizeBstrLen + SizeChar * Len(s)

\* The bytes of the value alone, with the type and number of each VARIANT in it.
CalcValue(x, calc) ==
    CASE x.vt = "BSTR" -> SumOf([i \in DOMAIN x.val |-> CalcBstr(x.val[i])])
      [] x.vt = "VARIANT" ->
           SumOf([i \in DOMAIN x.sub |-> SizeType + SizeNum + calc[x.sub[i]]])
      [] OTHER -> ElementSize(x.vt, x.array) * Len(x.val)

CalcVariant[d \in 0..Deepest] == [x \in Level[d] |-> CalcValue(x, CalcVariant[d - 1])]

CalcPacket(xs) ==
    SizeMin + SumOf([i \in DOMAIN xs |->
                       SizeDataLen + SizeType + SizeNum + CalcVariant[Deepest][xs[i]]])
-----------------------------------------------------------------------------
(* Writing: bcap_vnt2bytary, bcap_vntary2bytary, bcap_packet2bytary *)

Field(n, v) == <<[size |-> n, val |-> v]>>
Width(fields) == SumOf([i \in DOMAIN fields |-> fields[i].size])

\* bcap_vntdate2bytary and bcap_bytary2vntdate: days since 1899, or none of them.
Days(v) == IF v[1] > 0 THEN v ELSE <<0>>
Date(v) == IF v[1] > 0 THEN <<Second(v[1])>> ELSE <<0>>

PutBstr(s) ==
    Field(SizeBstrLen, SizeChar * Len(s)) \o [i \in DOMAIN s |-> [size |-> SizeChar, val |-> s[i]]]

\* A type no table has is written with no value.
PutValue(vt, array, v) ==
    CASE vt = "BSTR" -> PutBstr(v)
      [] vt = "DATE" -> Field(SizeOf(vt), Days(v))
      [] ElementSize(vt, array) > 0 /\ vt # "DATE" -> Field(ElementSize(vt, array), v)
      [] OTHER -> <<>>

PutFields(x, put) ==
    Field(SizeType, <<x.vt, x.array>>)
      \o Field(SizeNum, IF x.array THEN Len(x.val) + Len(x.sub) ELSE 1)
      \o Joined(IF x.vt = "VARIANT" THEN [i \in DOMAIN x.sub |-> put[x.sub[i]]]
                ELSE [i \in DOMAIN x.val |-> PutValue(x.vt, x.array, x.val[i])])

PutVariant[d \in 0..Deepest] == [x \in Level[d] |-> PutFields(x, PutVariant[d - 1])]

\* An argument of the packet itself has its length before it.
PutArgument(x) ==
    Field(SizeDataLen, Width(PutVariant[Deepest][x])) \o PutVariant[Deepest][x]

PutPacket(xs) == Joined([i \in DOMAIN xs |-> PutArgument(xs[i])])
-----------------------------------------------------------------------------
(* Reading: bcap_bytary2vnt, bcap_bytary2vntary, bcap_bytary2packet *)

Offsets == 0..Len(buf)

\* The value read at an offset, and the offset behind it; without enough bytes or
\* with fields of another size the read is bad.
Read(v, next) == [ok |-> TRUE, val |-> v, next |-> next]
Bad == [ok |-> FALSE, val |-> <<>>, next |-> 0]
Get(p, n) == IF p < Len(buf) /\ buf[p + 1].size = n THEN Read(buf[p + 1].val, p + 1) ELSE Bad

\* n reads, one after the other.
AlsoRead(got, g) ==
    IF got.ok /\ g.ok THEN Read(Append(got.val, g.val), g.next) ELSE Bad
GetN(get, n, p) ==
    LET got[i \in 0..n] ==
          IF i = 0 THEN Read(<<>>, p) ELSE AlsoRead(got[i - 1], get[got[i - 1].next])
    IN got[n]

GetBstr(p) ==
    LET n == Get(p, SizeBstrLen)
    IN IF n.ok THEN GetN([q \in Offsets |-> Get(q, SizeChar)], n.val \div SizeChar, n.next)
       ELSE Bad

GetValue(vt, array, p) ==
    LET g == Get(p, ElementSize(vt, array))
    IN CASE vt = "BSTR" -> GetBstr(p)
         [] vt = "DATE" -> IF g.ok THEN Read(Date(g.val), g.next) ELSE Bad
         [] OTHER -> g

\* SafeArrayCreateVector: an array of a type no table has cannot be created,
\* unless it is empty.
Creatable(vt, n) == n = 0 \/ SizeOf(vt) > 0 \/ vt \in {"BSTR", "VARIANT"}

\* What follows the type and the number n.
GetBody(vt, array, n, p, get) ==
    CASE array /\ ~Creatable(vt, n) -> Bad
      [] array /\ vt = "VARIANT" -> GetN(get, n, p)
      [] array /\ Creatable(vt, n) /\ vt # "VARIANT" ->
           GetN([q \in Offsets |-> GetValue(vt, TRUE, q)], n, p)
      [] ~array -> GetN([q \in Offsets |-> GetValue(vt, FALSE, q)],
                        IF vt = "BSTR" \/ ScalarSizeOf(vt) > 0 THEN 1 ELSE 0, p)

GetFields(p, get) ==
    LET t == Get(p, SizeType)
        n == Get(t.next, SizeNum)
        vt == t.val[1]
        array == t.val[2]
        body == GetBody(vt, array, n.val, n.next, get)
    IN IF ~t.ok \/ ~n.ok \/ ~body.ok THEN Bad
       ELSE Read([vt |-> vt, array |-> array,
                  val |-> IF vt = "VARIANT" THEN <<>> ELSE body.val,
                  sub |-> IF vt = "VARIANT" THEN body.val ELSE <<>>], body.next)

\* No VARIANT that is sent has others in it deeper than Deepest.
GetVariant[d \in 0..Deepest] ==
    [p \in Offsets |->
       GetFields(p, IF d = 0 THEN [q \in Offsets |-> Bad] ELSE GetVariant[d - 1])]

GetArgument(p) ==
    LET l == Get(p, SizeDataLen) IN IF l.ok THEN GetVariant[Deepest][l.next] ELSE Bad
-----------------------------------------------------------------------------
(* The two ends *)

Init ==
    /\ sent \in ArgLists /\ room \in Rooms
    /\ pc = "size" /\ len = 0 /\ buf = <<>> /\ args = <<>> /\ hr = "S_OK"

Size ==
    /\ pc = "size"
    /\ pc' = "encode" /\ len' = CalcPacket(sent)
    /\ UNCHANGED <<sent, room, buf, args, hr>>

\* The buffer is the computed size, the last byte is the terminator's.
Encode ==
    /\ pc = "encode"
    /\ IF SizeMin - 1 + Width(PutPacket(sent)) > len - 1
         THEN hr' = "FAILED" /\ pc' = "done" /\ UNCHANGED buf
         ELSE buf' = PutPacket(sent) /\ pc' = "decode" /\ UNCHANGED hr
    /\ UNCHANGED <<sent, room, len, args>>

Decode ==
    /\ pc = "decode"
    /\ pc' = "done"
    /\ LET got == GetN([p \in Offsets |-> GetArgument(p)], Len(sent), 0)
       IN \/ /\ Len(sent) > room
             /\ hr' = "FAILED" /\ UNCHANGED args
          \/ /\ Len(sent) <= room /\ got.ok
             /\ args' = got.val /\ UNCHANGED hr
          \/ /\ Len(sent) <= room /\ ~got.ok
             /\ hr' = "FAILED" /\ UNCHANGED args
    /\ UNCHANGED <<sent, room, len, buf>>

Next == Size \/ Encode \/ Decode

Spec == Init /\ [][Next]_vars
-----------------------------------------------------------------------------
TypeOK ==
    /\ room \in Rooms
    /\ pc \in {"size", "encode", "decode", "done"}
    /\ len \in Nat /\ hr \in {"S_OK", "FAILED"}
    /\ pc = "done" /\ hr = "S_OK" => Len(args) = Len(sent)

\* The packets whose types all tables know: no array of VT_ERROR or of VT_EMPTY.
KnownType(x, known) ==
    /\ x.array => Creatable(x.vt, Len(x.val))
    /\ \A i \in DOMAIN x.sub : known[x.sub[i]]

Known[d \in 0..Deepest] == [x \in Level[d] |-> KnownType(x, Known[d - 1])]

\* What the other end has to have: the same, but for dates.  Days are a double, so
\* the last second of a date may be lost; dates up to 1970 all become 0.
Received(x, received) ==
    [vt |-> x.vt, array |-> x.array,
     val |-> [i \in DOMAIN x.val |-> IF x.vt = "DATE" THEN Date(Days(x.val[i])) ELSE x.val[i]],
     sub |-> [i \in DOMAIN x.sub |-> received[x.sub[i]]]]

Same[d \in 0..Deepest] == [x \in Level[d] |-> Received(x, Same[d - 1])]

\* The computed size always holds the packet, and a receiver with room for its
\* arguments reads exactly the arguments that were sent, but for the last second
\* of dates; without room none are.
SameArguments ==
    pc = "done" /\ (\A i \in DOMAIN sent : Known[Deepest][sent[i]]) =>
      IF Len(sent) <= room THEN hr = "S_OK" /\ args = [i \in DOMAIN sent |-> Same[Deepest][sent[i]]]
      ELSE hr = "FAILED" /\ args = <<>>
=============================================================================
