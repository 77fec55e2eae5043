----------------------------- MODULE RtkReceive -----------------------------
(***************************************************************************)
(* Receiving one ROBOTalk packet over UDP: tp_recv of TPComm/dn_tpcomm.c   *)
(* and below it rtk_recv of dn_robotalk.c, which counts attempts, asks for *)
(* a broken packet again with a NAK and, on a server, takes the address of *)
(* the first datagram for the one all its answers go to.                   *)
(*                                                                         *)
(* A datagram is the host it came from and what it holds: a packet that is *)
(* whole, one whose sum is wrong, one whose length byte is too large, or   *)
(* less than a header.  Bytes and lengths are abstracted to that.          *)
(***************************************************************************)
EXTENDS Naturals

CONSTANTS
    Hosts,      \* who may send
    NoHost,     \* not in Hosts: an address nobody has, as an unset
                \* opt_udp.addr may be
    RetryNak    \* TP_RETRY_NAK, a natural number

VARIABLES
    client,     \* flags.client
    pc,         \* "idle", "recv" (in rtk_recv) or "done"
    peer,       \* *device->arg, the address packets are sent to
    addrSet,    \* rtk_recv: flag_init
    retry,      \* rtk_recv: retry_cnt
    naks,       \* tp_recv: retry_cnt
    parts,      \* rtk_recv: who sent what buf_tmp holds
    packet,     \* tp_recv: who sent the packet in packet, NoHost if nobody
    hr          \* what rtk_recv and tp_recv return

vars == <<client, pc, peer, addrSet, retry, naks, parts, packet, hr>>

Contents == {"whole", "NAK", "sum wrong", "too long", "short"}

Init ==
    /\ client \in BOOLEAN /\ peer \in Hosts
    /\ pc = "idle" /\ addrSet = FALSE
    /\ retry = 0 /\ naks = 0
    /\ parts = {} /\ packet = NoHost /\ hr = "S_OK"

Return(result) == pc' = "done" /\ hr' = result

\* tp_recv is called again, by receive_execute or send_receive.
tp_recv ==
    /\ pc \in {"idle", "done"}
    /\ pc' = "recv"
    /\ addrSet' = FALSE /\ retry' = 0 /\ naks' = 0
    /\ parts' = {} /\ packet' = NoHost /\ hr' = "S_OK"
    /\ UNCHANGED <<client, peer>>

\* One more attempt of rtk_recv, with an empty buffer, or the last result.
Again(result) ==
    /\ IF retry = RetryNak
         THEN Return(result) /\ UNCHANGED <<retry, parts>>
         ELSE retry' = retry + 1 /\ parts' = {} /\ UNCHANGED <<pc, hr>>
    /\ UNCHANGED <<naks, packet>>

\* tp_recv answers a NAK with the last packet sent, which may fail, and receives
\* once more.
Nak ==
    /\ UNCHANGED packet
    /\ \/ /\ naks < RetryNak
          /\ naks' = naks + 1
          /\ addrSet' = FALSE /\ retry' = 0 /\ parts' = {}
          /\ UNCHANGED <<pc, hr>>
       \/ /\ Return("E_FAIL") \/ (naks = RetryNak /\ Return("E_INVALIDPACKET"))
          /\ UNCHANGED <<addrSet, retry, naks, parts>>

\* rtk_recv has a whole packet from who.
Received(who) ==
    /\ packet' = who
    /\ Return("S_OK")
    /\ UNCHANGED <<addrSet, retry, naks, parts>>

\* tp_recv has a result it takes for a NAK: one, or, when the last attempt met a
\* length that is too large and rtk_recv succeeded with no packet, a packet that
\* nothing has written and that may look like one.
LooksLikeNak(what) == what = "NAK" \/ (what = "too long" /\ retry = RetryNak)

\* What is done with the bytes of a datagram, after its address.
Take(who, what) ==
    \/ /\ what = "short"
       /\ parts' = parts \cup {who}
       /\ UNCHANGED <<pc, hr, retry, naks, packet>>
    \/ /\ what = "too long"
       /\ Again("S_OK")
    \/ /\ what = "sum wrong"
       /\ \/ Again("E_INVALIDPACKET")
          \/ Return("E_FAIL") /\ UNCHANGED <<retry, naks, parts, packet>>

\* Slip: the address of every datagram is taken, not that of the first.
ReceiveFromAny ==
    /\ pc = "recv"
    /\ \E who \in Hosts, what \in Contents :
          IF client /\ who # peer
            THEN /\ Return("E_ACCESSDENIED")
                 /\ UNCHANGED <<peer, addrSet, retry, naks, parts, packet>>
            ELSE /\ peer' = IF client THEN peer ELSE who
                 /\ \/ what = "whole" /\ Received(who)
                    \/ LooksLikeNak(what) /\ Nak
                    \/ Take(who, what) /\ addrSet' = TRUE
    /\ UNCHANGED client

\* dn_recv gives a datagram.  A client, and a server after the first datagram,
\* refuses a stranger's.
Receive ==
    /\ pc = "recv"
    /\ \E who \in Hosts, what \in Contents :
          IF (client \/ addrSet) /\ who # peer
            THEN /\ Return("E_ACCESSDENIED")
                 /\ UNCHANGED <<peer, addrSet, retry, naks, parts, packet>>
            ELSE /\ peer' = IF client THEN peer ELSE who
                 /\ \/ what = "whole" /\ Received(who)
                    \/ LooksLikeNak(what) /\ Nak
                    \/ Take(who, what) /\ addrSet' = ~client
    /\ UNCHANGED client

\* dn_recv fails.  A server that has no datagram yet takes the address all the
\* same, which nothing has set.
ReceiveFails ==
    /\ pc = "recv"
    /\ peer' \in IF client \/ addrSet THEN {peer} ELSE Hosts \cup {NoHost}
    /\ \E e \in {"E_TIMEOUT", "E_FAIL"} : Return(e)
    /\ UNCHANGED <<client, addrSet, retry, naks, parts, packet>>

Next == tp_recv \/ Receive \/ ReceiveFails

Spec == Init /\ [][Next]_vars
-----------------------------------------------------------------------------
(* Properties *)

TypeOK ==
    /\ client \in BOOLEAN /\ addrSet \in BOOLEAN
    /\ pc \in {"idle", "recv", "done"}
    /\ peer \in Hosts \cup {NoHost} /\ packet \in Hosts \cup {NoHost}
    /\ parts \subseteq Hosts
    /\ retry \in 0..RetryNak /\ naks \in 0..RetryNak
    /\ hr \in {"S_OK", "E_TIMEOUT", "E_FAIL", "E_ACCESSDENIED", "E_INVALIDPACKET"}

\* A packet tp_recv returns is from the host its answer and every later packet
\* will be sent to, and from nobody else: no datagram of another host is mixed
\* into it, whichever hosts send in whatever order (udp_check_sockaddr).
OnePeer ==
    pc = "done" /\ packet # NoHost => packet = peer /\ parts \subseteq {peer}
=============================================================================
