---------------------------- MODULE PacketChannel ----------------------------
(***************************************************************************)
(* What a user of bcap_send and bcap_recv may rely on where they run over  *)
(* a stream of bytes: packets come in the order in which they were sent,   *)
(* each as it was sent, and some may be lost.  Nothing is promised once a  *)
(* packet was lost if what is left of one on the line can be taken for the *)
(* beginning of another (misleading).                                      *)
(***************************************************************************)
EXTENDS Naturals, Sequences, FiniteSets

CONSTANT Packets

VARIABLES
    sent,           \* the packets sent
    got,            \* the packets received
    lost,           \* the numbers of those that never will be
    misleading      \* the packets whose rest may be taken for a packet

vars == <<sent, got, lost, misleading>>

\* The number of the packet that comes next, once it was sent.
Coming == Len(got) + Cardinality(lost) + 1

Init ==
    /\ sent = <<>> /\ got = <<>> /\ lost = {}
    /\ misleading \subseteq Packets

Send(packet) ==
    /\ sent' = Append(sent, packet)
    /\ UNCHANGED <<got, lost, misleading>>

Deliver ==
    /\ Coming <= Len(sent)
    /\ got' = Append(got, sent[Coming])
    /\ UNCHANGED <<sent, lost, misleading>>

Lose ==
    /\ Coming <= Len(sent)
    /\ lost' = lost \cup {Coming}
    /\ UNCHANGED <<sent, got, misleading>>

\* The receiver has lost its place in the stream, and may find it again or not.
Misled ==
    /\ lost # {}
    /\ \E n \in DOMAIN sent : sent[n] \in misleading
    /\ lost \subseteq lost'
    /\ UNCHANGED <<sent, misleading>>

Next ==
    \/ \E packet \in Packets : Send(packet)
    \/ Deliver \/ Lose \/ Misled

Spec == Init /\ [][Next]_vars
=============================================================================
