----------------------------- MODULE Libraries -----------------------------
(***************************************************************************)
(* Components that share no state, side by side: the state says which of   *)
(* them (part) it is a state of, and their correctness properties are here *)
(* in one form for all of them.  A variable that several declare is shared.*)
(* MCLibraries adds the components that are checked on bounded data only.  *)
(***************************************************************************)
EXTENDS Integers, Sequences

CONSTANT RetryTimeout                           \* of TpLink
CONSTANTS Hosts, NoHost, RetryNak               \* of RtkReceive
CONSTANT RequestMax                             \* of Handoff
CONSTANTS Opening, Handles, ObjectsMax          \* of BcapCalls
CONSTANTS Joints, type_, Places                 \* of ControlCycle
CONSTANTS Tree, Root, Below, Robots, Variables  \* of ServiceTree
CONSTANTS Messages, Numbers, PoseLen, SendFormats   \* of SlaveIO
CONSTANTS Deepest, Level, ArgLists, Rooms, Second(_) \* of BcapCodec
CONSTANTS Room, Lists, Texts, ByteArgs          \* of MiniTP

\* ExecFunction takes handle 0 for none: the handles of controllers are others.
ASSUME HandlesAssumption == Handles \subseteq Nat \ {0}

VARIABLE part
\* TpLink
VARIABLES main, flags, seen, evt, next, tpc, tries, told, undone
\* RtkReceive
VARIABLES client, peer, addrSet, retry, naks, parts, packet
\* Handoff
VARIABLES signal, requests, last, epc, running, waiter, flagAll, first, answered
\* BcapCalls
VARIABLES m_fd, m_vecKH, unsure, garbled
\* ControlCycle
VARIABLES phase, m_mode, recv_format, joint_, m_joint, pos_, cmd_interface, at, known,
          held, entered, malformed
\* ServiceTree
VARIABLES objects, stage, m_serving, topics, slave, changing, order, halfway, crossed,
          writing, path
\* SlaveIO
VARIABLES sendfmt, miniio, handio, offset, size, value, recv, msg, putting, creating,
          raced
\* BcapCodec
VARIABLES room, len, buf
\* MiniTP
VARIABLES by, asked, todo, data, result, packed
\* declared by several of them, or of MCLibraries
VARIABLES pc, mutex, rpc, hr, sent, live, args

TP == INSTANCE TpLink
RK == INSTANCE RtkReceive
HO == INSTANCE Handoff
CA == INSTANCE BcapCalls
CC == INSTANCE ControlCycle
TR == INSTANCE ServiceTree
IO == INSTANCE SlaveIO
CD == INSTANCE BcapCodec
MT == INSTANCE MiniTP
-----------------------------------------------------------------------------
(* Properties *)

\* While TPComm's connection is open, the news the application got last is
\* TP_CONNECT exactly when the state is (receive_execute, tp_callfunc).
ReportedState == part = "pendant" => TP!ReportedState

\* A ROBOTalk packet tp_recv returns is whole from the one host that answers go
\* to, whoever else sends (udp_check_sockaddr, rtk_recv).
OnePeer == part = "robotalk" => RK!OnePeer

\* A request is never overwritten while bcap_callfunc reads it, also after
\* recv_thread has given up waiting, and what is answered is what came last.
RequestKept == part = "handoff" => HO!RequestKept

\* bcap_service will release every object it was told of and nothing else: its
\* list and the controller differ only by calls that had no clear answer.
ObjectsListed == part = "calls" => CA!ObjectsListed

\* read never converts joints that are not there, whatever recv_format is.
JointsThere == part = "cycle" => CC!JointsThere

ofMoves == <<CC!vars, IO!vars>>

\* Entering a slave mode does not make the robot jump: its first slvMove is
\* where it stands, if it has stood still since write last copied the position
\* (exception: the service chose a pose that is not joints).  And the user I/O
\* a slvMove carries is that of one message, whole, unless a message was being
\* stored by another thread meanwhile (put_SendUserIO takes no lock).
SlaveMovesAsMeant ==
    [][/\ part = "cycle" => CC!FirstCommandHolds
       /\ part = "slaveio" => IO!UserIOWhole]_ofMoves

\* A variable is polled only while it serves and its publisher exists (exception:
\* a publisher that Stop and another change of mode made and reset at once).
PolledInService == part = "services" => TR!PolledInService

\* The size computed for a packet always holds it, and the receiver reads the
\* arguments that were sent, but for the last second of dates, if it has room for
\* them (BcapCodec).
SameArguments == part = "codec" => CD!SameArguments

\* The packet a pendant gets is all the commands of the call, each with its own
\* length, so it is split where it was joined (TPComm_DrawMiniTP).
DrawnAsAsked == part = "minitp" => MT!DrawnAsAsked
=============================================================================
