------------------------------ MODULE BcapStream ------------------------------
(***************************************************************************)
(* bcap_recv (bcap_common.c) on the transports that are streams of bytes:  *)
(* it looks for a header, takes the length behind it, and reads that many  *)
(* bytes.  A packet may arrive in any pieces, the receive may time out     *)
(* between any two of them, and a serial line adds noise and spoils bytes, *)
(* so each call of bcap_recv has to find the next packet by itself.        *)
(*                                                                         *)
(* On TCP the search looks at the bytes (MSG_PEEK) and takes from the      *)
(* socket what it skips; on COM it takes them at once.  A byte is a        *)
(* number, header, length, check sum and terminator are a byte each, and a *)
(* packet has as many arguments as its body has bytes.  b-CAP on COM is    *)
(* one packet at a time: what came with a packet and belongs to the next   *)
(* one would be dropped.                                                   *)
(***************************************************************************)
EXTENDS Naturals, Sequences, FiniteSets

CONSTANTS
    Bodies,     \* what packets carry
    Crc(_),     \* bcap_calc_crc, the check sum of a packet on COM
    Noise,      \* what a serial line may add between packets, without a header
    LenMax,     \* UDP_MAX_PACKET, the greatest length on COM
    SentMax     \* bound: packets sent

VARIABLES
    type,       \* of the device: "TCP" or "COM"
    sent,       \* the bodies sent
    line,       \* the bytes sent and not yet taken from the device
    arrived,    \* how many of them have arrived
    pc,         \* "call", "search", "length" or "body"
    buf_tmp,    \* the bytes the search has before it
    buf_recv,   \* the bytes of the packet being read
    len_recv,   \* its length
    argc,       \* on COM, how many arguments packet_recv has room for
    got,        \* the packets bcap_recv has returned
    lost        \* the numbers of the packets that were cut, spoilt or refused

vars == <<type, sent, line, arrived, pc, buf_tmp, buf_recv, len_recv, argc, got, lost>>

Header == 1         \* BCAP_HEADER
Terminator == 4     \* BCAP_TERMINATOR
HeaderAndLength == 2

\* Bodies and noise are bytes, the noise has no header, and what bodies add up
\* to on COM, where the length is that of the body and 4 more, is a number.
ASSUME Streams ==
    /\ Bodies \subseteq Seq(Nat) /\ LenMax \in Nat
    /\ \A n \in Noise : n \in Seq(Nat) /\ \A i \in DOMAIN n : n[i] # Header
    /\ \A body \in Bodies : Crc(<<Len(body) + 4>> \o body) \in Nat

LenMin == IF type = "COM" THEN 4 ELSE 3     \* BCAP_SIZE_MIN and BCAP_SIZE_CRC

\* A check sum that does not fit.
Spoilt(sum) == sum + 1

\* The last bytes of a packet, the check sum before the terminator.
Packet(body, ending) == <<Header, Len(body) + LenMin>> \o body \o ending
Sum(body) == Crc(<<Len(body) + LenMin>> \o body)
Ending(body) == IF type = "COM" THEN <<Sum(body), Terminator>> ELSE <<Terminator>>

Current == Len(got) + Cardinality(lost) + 1
-----------------------------------------------------------------------------
Init ==
    /\ type \in {"TCP", "COM"}
    /\ sent = <<>> /\ line = <<>> /\ arrived = 0
    /\ pc = "call" /\ buf_tmp = <<>> /\ buf_recv = <<>> /\ len_recv = 0 /\ argc = LenMax
    /\ got = <<>> /\ lost = {}

\* The other end, bcap_send.  On COM a packet has a greatest length, the answer to
\* it is awaited before the next one, and the line may spoil its last bytes.
bcap_send(body) ==
    /\ Len(sent) < SentMax
    /\ sent' = Append(sent, body)
    /\ \/ type = "TCP" /\ line' = line \o Packet(body, Ending(body))
       \/ /\ type = "COM" /\ Current > Len(sent) /\ Len(body) + LenMin <= LenMax
          /\ \E n \in Noise, ending \in {Ending(body), <<Spoilt(Sum(body)), Terminator>>,
                                         <<Sum(body), 0>>} :
               line' = line \o n \o Packet(body, ending)
    /\ UNCHANGED <<type, arrived, pc, buf_tmp, buf_recv, len_recv, argc, got, lost>>

Arrive ==
    /\ arrived < Len(line)
    /\ \E n \in arrived + 1 .. Len(line) : arrived' = n
    /\ UNCHANGED <<type, sent, line, pc, buf_tmp, buf_recv, len_recv, argc, got, lost>>

Take(n) ==
    /\ line' = SubSeq(line, n + 1, Len(line))
    /\ arrived' = arrived - n
-----------------------------------------------------------------------------
(* bcap_recv *)

Call ==
    /\ pc = "call"
    /\ pc' = "search" /\ buf_tmp' = <<>> /\ buf_recv' = <<>> /\ argc' = LenMax
    /\ UNCHANGED <<type, sent, line, arrived, len_recv, got, lost>>

\* memchr: the first header is behind k bytes, or there is none.
FirstHeader(k, bytes) ==
    /\ \A i \in 1..k : bytes[i] # Header
    /\ k < Len(bytes) => bytes[k + 1] = Header

\* Slip: on TCP the bytes before the header stay in the socket.
SearchPeeksOnly ==
    /\ pc = "search" /\ arrived > 0
    /\ LET bytes == (IF type = "TCP" THEN <<>> ELSE buf_tmp) \o SubSeq(line, 1, arrived)
       IN \E k \in 0..Len(bytes) :
            /\ FirstHeader(k, bytes)
            /\ buf_tmp' = SubSeq(bytes, k + 1, Len(bytes))
            /\ IF type = "TCP" THEN UNCHANGED <<line, arrived>> ELSE Take(arrived)
    /\ pc' = IF Len(buf_tmp') >= HeaderAndLength THEN "length" ELSE "search"
    /\ UNCHANGED <<type, sent, buf_recv, len_recv, argc, got, lost>>

\* A receive of the search, and what is skipped of it: TCP peeks at all that
\* has arrived and then takes what is before the header, COM takes all and
\* keeps what is from the header on.
Search ==
    /\ pc = "search" /\ arrived > 0
    /\ LET bytes == (IF type = "TCP" THEN <<>> ELSE buf_tmp) \o SubSeq(line, 1, arrived)
       IN \E k \in 0..Len(bytes) :
            /\ FirstHeader(k, bytes)
            /\ buf_tmp' = SubSeq(bytes, k + 1, Len(bytes))
            /\ Take(IF type = "TCP" THEN k ELSE arrived)
    /\ pc' = IF Len(buf_tmp') >= HeaderAndLength THEN "length" ELSE "search"
    /\ UNCHANGED <<type, sent, buf_recv, len_recv, argc, got, lost>>

\* Slip: a length that is too small for any packet is not seen.
LengthFitsUpTo(n) == type = "COM" => n <= LenMax

\* On TCP there is no greatest length.
LengthFits(n) == LenMin <= n /\ (type = "COM" => n <= LenMax)

\* With a length no packet has, the header is skipped and the search begins
\* again, on COM with nothing of what was read.
SkipHeader ==
    /\ pc = "length"
    /\ ~LengthFits(buf_tmp[2])
    /\ pc' = "search" /\ buf_tmp' = <<>>
    /\ IF type = "TCP" THEN Take(1) ELSE UNCHANGED <<line, arrived>>
    /\ UNCHANGED <<type, sent, buf_recv, len_recv, argc, got, lost>>

Smaller(m, n) == IF m < n THEN m ELSE n

Length ==
    /\ pc = "length"
    /\ LengthFits(buf_tmp[2])
    /\ pc' = "body" /\ len_recv' = buf_tmp[2]
    /\ LET bytes == IF type = "TCP" THEN SubSeq(line, 1, arrived) ELSE buf_tmp
           n == Smaller(buf_tmp[2], Len(bytes))
       IN /\ buf_recv' = SubSeq(bytes, 1, n)
          /\ IF type = "TCP" THEN Take(n) ELSE UNCHANGED <<line, arrived>>
    /\ UNCHANGED <<type, sent, buf_tmp, argc, got, lost>>

\* Never more than the packet still needs.
Body ==
    /\ pc = "body" /\ Len(buf_recv) < len_recv /\ arrived > 0
    /\ LET n == Smaller(len_recv - Len(buf_recv), arrived)
       IN buf_recv' = buf_recv \o SubSeq(line, 1, n) /\ Take(n)
    /\ UNCHANGED <<type, sent, pc, buf_tmp, len_recv, argc, got, lost>>

\* bcap_bytary2packet: the packet ends where its length says, and has no more
\* arguments than there is room for.
BodyOf(bytes) == SubSeq(bytes, 3, Len(bytes) - (LenMin - 2))
WellFormed(bytes) ==
    /\ bytes[Len(bytes)] = Terminator
    /\ type = "COM" => Len(BodyOf(bytes)) <= argc
CrcFits(bytes) ==
    type = "COM" => bytes[Len(bytes) - 1] = Crc(SubSeq(bytes, 2, Len(bytes) - 2))

\* A packet whose check sum does not fit is passed over, but has left its number
\* of arguments in packet_recv, as the room there is for the next one.
Decoded ==
    /\ pc = "body" /\ Len(buf_recv) = len_recv /\ WellFormed(buf_recv)
    /\ IF CrcFits(buf_recv)
         THEN /\ pc' = "call" /\ got' = Append(got, BodyOf(buf_recv))
              /\ UNCHANGED <<argc, lost>>
         ELSE /\ pc' = "search" /\ lost' = lost \union {Current}
              /\ argc' = Len(BodyOf(buf_recv)) /\ UNCHANGED got
    /\ buf_tmp' = <<>> /\ buf_recv' = <<>>
    /\ UNCHANGED <<type, sent, line, arrived, len_recv>>

NotDecoded ==
    /\ pc = "body" /\ Len(buf_recv) = len_recv /\ ~WellFormed(buf_recv)
    /\ pc' = "call" /\ buf_tmp' = <<>> /\ buf_recv' = <<>>
    /\ lost' = lost \union {Current}
    /\ UNCHANGED <<type, sent, line, arrived, len_recv, argc, got>>

\* Nothing has arrived for device->timeout: the call ends, and what it has taken
\* of a packet is lost.
Timeout ==
    /\ pc \in {"search", "body"} /\ arrived = 0
    /\ pc = "body" => Len(buf_recv) < len_recv
    /\ pc' = "call" /\ buf_tmp' = <<>> /\ buf_recv' = <<>>
    /\ lost' = IF pc = "body" \/ (type = "COM" /\ buf_tmp # <<>>)
                 THEN lost \union {Current} ELSE lost
    /\ UNCHANGED <<type, sent, line, arrived, len_recv, argc, got>>

Next ==
    \/ \E body \in Bodies : bcap_send(body)
    \/ Arrive \/ Call \/ Search \/ SkipHeader \/ Length \/ Body
    \/ Decoded \/ NotDecoded \/ Timeout

Spec == Init /\ [][Next]_vars
-----------------------------------------------------------------------------
TypeOK ==
    /\ type \in {"TCP", "COM"}
    /\ sent \in Seq(Bodies) /\ got \in Seq(Seq(Nat))
    /\ line \in Seq(Nat) /\ arrived \in 0..Len(line)
    /\ pc \in {"call", "search", "length", "body"}
    /\ buf_tmp \in Seq(Nat) /\ buf_recv \in Seq(Nat) /\ len_recv \in Nat /\ argc \in Nat
    /\ lost \subseteq Nat /\ IsFiniteSet(lost)

\* No byte of the packet but its first looks like a header, on TCP with a length
\* behind it: in what is left of a cut packet it would be taken for one.
Plain(body) ==
    LET p == Packet(body, Ending(body))
    IN IF type = "TCP" THEN \A i \in 2..Len(p) - 1 : p[i] = Header => p[i + 1] < LenMin
       ELSE (\A i \in 2..Len(p) : p[i] # Header) /\ Spoilt(Sum(body)) # Header

\* What is left of a cut packet cannot be taken for a packet.
Safe == lost = {} \/ \A n \in DOMAIN sent : Plain(sent[n])

\* What bcap_recv returns is, in order, what was sent, without the packets that
\* a timeout cut, the line spoilt, or that were refused because of a spoilt one:
\* packet n comes after those before it that were not lost.  The rest of a cut
\* packet, noise, and a packet that arrives in pieces cost and change no other
\* one (exception: packets that are not Plain, once one was cut).
OthersIntact ==
    Safe =>
      /\ Current <= Len(sent) + 1
      /\ \A n \in 1..Current - 1 :
           n \notin lost => got[n - Cardinality({m \in lost : m < n})] = sent[n]

Channel == INSTANCE PacketChannel
             WITH Packets <- Bodies, misleading <- {b \in Bodies : ~Plain(b)}

\* bcap_send and bcap_recv are a channel that keeps the order: every step of
\* theirs sends a packet, or delivers or loses the next one, or none of these.
ImplementsChannel == Channel!Spec
=============================================================================
