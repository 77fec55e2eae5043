--------------------------- MODULE LibrariesProof ---------------------------
(***************************************************************************)
(* The connection to a teach pendant: the application knows its state, for *)
(* any number of retries (TpLink), and a packet comes from one peer, for   *)
(* any hosts and any number of retries (RtkReceive).  The server: no       *)
(* request is overwritten while it is executed, for any number of requests *)
(* (Handoff).  The objects of a controller: variables are polled in        *)
(* service only, for any tree of objects (ServiceTree), and bcap_service   *)
(* will release what it was told of, for any functions that open objects   *)
(* (BcapCalls).  A mini pendant: what it is sent is what was asked for, for*)
(* any commands and any room in a packet (MiniTP).                         *)
(***************************************************************************)
EXTENDS Libraries, WellFoundedInduction, TLAPS
-----------------------------------------------------------------------------
(* The application knows the state of the connection *)

Threads == {"main", "recv", "timer"}

Types ==
    /\ flags \in TP!Bytes
    /\ seen \in [Threads -> TP!Bytes]
    /\ tries \in Nat
    /\ next \in TP!States \cup {"kept"}

\* Each thread works on the flags inside the mutex.
MutexHeld ==
    /\ rpc \in {"recv", "store"} => mutex = "recv"
    /\ tpc = "event" => mutex = "timer"
    /\ tries > 0 => mutex = "app"

\* Until recv_thread begins, the connection is down and nobody has heard of it;
\* timer_thread has ended when recv_thread is told to.
NotBegun ==
    /\ main = "closed" => rpc = "ended"
    /\ main \in {"closed", "close recv", "join recv"} => tpc = "ended"
    /\ main \in {"timer begun", "opening"} =>
         /\ rpc = "ended"
         /\ flags.state = "TP_TPLESS" /\ told = "TP_DISCONNECT"
    /\ main = "opening" => seen["main"].state = "TP_TPLESS"

\* The byte timer_event will write holds the present state, since nobody else
\* writes one while the connection is open; the state receive_execute will write
\* is the one it has told.
StoresAgree ==
    main \in {"timer begun", "opening", "open"} =>
        /\ tpc = "event" => seen["timer"].state = flags.state
        /\ rpc = "store" =>
             (IF next = "kept" THEN flags.state = "TP_CONNECT" ELSE next = "TP_CONNECT")
                <=> told = "TP_CONNECT"

ReportInv == Types /\ MutexHeld /\ NotBegun /\ StoresAgree /\ TP!ReportedState

\* What the byte is after a store to another field than the state.
LEMMA StoreBit ==
    ASSUME seen \in [Threads -> TP!Bytes], NEW t \in Threads, NEW bit \in BOOLEAN,
           TP!Opened(FALSE) \in TP!Bytes,
           TP!Store(t, "init", bit) \/ TP!Store(t, "timer", bit) \/ TP!Store(t, "recv", bit)
    PROVE  /\ flags' \in TP!Bytes /\ flags'.state = seen[t].state
           /\ seen' \in [Threads -> TP!Bytes]
           /\ \A u \in Threads \ {t} : seen'[u] = seen[u]
<1> DEFINE byte == seen[t]
<1>1. /\ [byte EXCEPT !["init"] = bit] \in TP!Bytes
      /\ [byte EXCEPT !["init"] = bit].state = byte.state
  BY DEF TP!Bytes
<1>2. /\ [byte EXCEPT !["timer"] = bit] \in TP!Bytes
      /\ [byte EXCEPT !["timer"] = bit].state = byte.state
  BY DEF TP!Bytes
<1>3. /\ [byte EXCEPT !["recv"] = bit] \in TP!Bytes
      /\ [byte EXCEPT !["recv"] = bit].state = byte.state
  BY DEF TP!Bytes
<1> QED
  BY <1>1, <1>2, <1>3 DEF TP!Store

\* What it is after a store to the state.
LEMMA StoreState ==
    ASSUME seen \in [Threads -> TP!Bytes], NEW t \in Threads, NEW state \in TP!States,
           TP!Opened(FALSE) \in TP!Bytes, TP!Store(t, "state", state)
    PROVE  /\ flags' \in TP!Bytes /\ flags'.state = state
           /\ seen' \in [Threads -> TP!Bytes]
<1> DEFINE byte == seen[t]
<1>1. /\ [byte EXCEPT !["state"] = state] \in TP!Bytes
      /\ [byte EXCEPT !["state"] = state].state = state
  BY DEF TP!Bytes
<1> QED
  BY <1>1 DEF TP!Store

\* What a byte is at first.
LEMMA AtFirst ==
    ASSUME NEW c \in BOOLEAN
    PROVE  TP!Opened(c) \in TP!Bytes /\ TP!Opened(c).state = "TP_TPLESS"
BY DEF TP!Opened, TP!Bytes, TP!States

LEMMA ReportInvariant == ASSUME RetryTimeout \in Nat PROVE TP!Spec => []ReportInv
<1> SUFFICES ASSUME RetryTimeout \in Nat PROVE TP!Spec => []ReportInv
  OBVIOUS
<1>1. TP!Init => ReportInv
  <2> TP!Opened(FALSE) \in TP!Bytes /\ TP!Opened(FALSE).state = "TP_TPLESS"
    BY AtFirst
  <2> SUFFICES ASSUME TP!Init PROVE ReportInv
    OBVIOUS
  <2>1. Types /\ NotBegun
    BY DEF TP!Init, Types, NotBegun, Threads
  <2>2. MutexHeld /\ StoresAgree /\ TP!ReportedState
    BY DEF TP!Init, MutexHeld, StoresAgree, TP!ReportedState
  <2> QED
    BY <2>1, <2>2 DEF ReportInv
<1>2. ReportInv /\ [TP!Next]_(TP!vars) => ReportInv'
  <2> SUFFICES ASSUME ReportInv, [TP!Next]_(TP!vars) PROVE ReportInv'
    OBVIOUS
  <2> flags \in TP!Bytes /\ seen \in [Threads -> TP!Bytes]
    BY DEF ReportInv, Types
  <2> tries \in Nat
    BY DEF ReportInv, Types
  <2> TP!Opened(FALSE) \in TP!Bytes /\ TP!Opened(FALSE).state = "TP_TPLESS"
    BY AtFirst
  <2>1. ASSUME TP!OpenRecv
        PROVE  /\ flags' \in TP!Bytes /\ flags'.state = seen["main"].state
               /\ seen' \in [Threads -> TP!Bytes] /\ seen'["timer"] = seen["timer"]
    BY <2>1, StoreBit DEF TP!OpenRecv, Threads
  <2>2. ASSUME TP!CloseTimer \/ TP!CloseRecv
        PROVE  flags' \in TP!Bytes /\ seen' \in [Threads -> TP!Bytes]
    BY <2>2, StoreBit DEF TP!CloseTimer, TP!CloseRecv, Threads
  <2>3. ASSUME NEW t \in Threads, TP!Load(t)
        PROVE  /\ seen' \in [Threads -> TP!Bytes] /\ seen'[t] = flags
               /\ \A u \in Threads \ {t} : seen'[u] = seen[u]
    BY <2>3 DEF TP!Load
  <2>4. ASSUME TP!RecvUnlock
        PROVE  \/ UNCHANGED <<flags, seen>> /\ next = "kept"
               \/ /\ next # "kept" /\ flags' \in TP!Bytes /\ flags'.state = next
                  /\ seen' \in [Threads -> TP!Bytes]
    <3> next \in TP!States \cup {"kept"}
      BY DEF ReportInv, Types
    <3> QED
      BY <2>4, StoreState DEF TP!RecvUnlock, Threads
  <2>5. ASSUME TP!TimerEvent
        PROVE  \/ UNCHANGED <<flags, seen>>
               \/ /\ flags' \in TP!Bytes /\ flags'.state = seen["timer"].state
                  /\ seen' \in [Threads -> TP!Bytes] /\ seen'["main"] = seen["main"]
    BY <2>5, StoreBit DEF TP!TimerEvent, Threads
  <2>6. ASSUME TP!AppRetry \/ TP!AppDone
        PROVE  tries' \in Nat /\ tries > 0
    BY <2>6 DEF TP!AppRetry, TP!AppDone
  <2>7. ASSUME TP!AppDone
        PROVE  rpc \notin {"recv", "store"} /\ tpc # "event" /\ tries' = 0 /\ ~(tries' > 0)
    BY <2>7 DEF TP!AppDone, ReportInv, MutexHeld
  <2>8. ASSUME TP!RecvExecute
        PROVE  /\ next' \in TP!States \cup {"kept"}
               /\ IF next' = "kept"
                    THEN told' = told
                    ELSE next' = "TP_CONNECT" <=> told' = "TP_CONNECT"
    <3>1. ASSUME NEW r \in TP!Packets \cup TP!Failures, NEW due \in BOOLEAN,
                 TP!Report(TP!TmpState(r), due)
          PROVE  /\ next' \in TP!States \cup {"kept"}
                 /\ IF next' = "kept"
                      THEN told' = told
                      ELSE next' = "TP_CONNECT" <=> told' = "TP_CONNECT"
      <4>1. TP!TmpState(r) \in TP!States
        BY DEF TP!TmpState, TP!States, TP!Bytes
      <4> QED
        BY <3>1, <4>1 DEF TP!Report, TP!States
    <3> QED
      BY <2>8, <3>1 DEF TP!RecvExecute
  <2> USE DEF ReportInv, Types, MutexHeld, NotBegun, StoresAgree, TP!ReportedState, TP!recvVars
  <2>9. CASE TP!TPComm_Open
    BY <2>9, AtFirst DEF TP!TPComm_Open
  <2>10. CASE TP!TPComm_Close \/ TP!OpenRecvLoad
    BY <2>3, <2>10 DEF TP!TPComm_Close, TP!OpenRecvLoad, Threads
  <2>11. CASE TP!OpenRecv
    BY <2>1, <2>11 DEF TP!OpenRecv
  <2>12. CASE TP!CloseTimer \/ TP!CloseRecv
    BY <2>2, <2>12 DEF TP!CloseTimer, TP!CloseRecv
  <2>13. CASE TP!JoinTimer \/ TP!JoinRecv
    BY <2>3, <2>13 DEF TP!JoinTimer, TP!JoinRecv, Threads
  <2>14. CASE TP!RecvLock \/ TP!RecvEnd \/ TP!RecvSignal
    BY <2>14 DEF TP!RecvLock, TP!RecvEnd, TP!RecvSignal
  <2>15. CASE TP!RecvExecute
    BY <2>3, <2>8, <2>15 DEF TP!RecvExecute, Threads
  <2>16. CASE TP!RecvUnlock
    BY <2>4, <2>16 DEF TP!RecvUnlock
  <2>17. CASE TP!TimerLock \/ TP!TimerEnd
    BY <2>3, <2>17 DEF TP!TimerLock, TP!TimerEnd, Threads
  <2>18. CASE TP!TimerEvent
    BY <2>5, <2>18 DEF TP!TimerEvent
  <2>19. CASE TP!TimerReset \/ TP!TimerWoken
    BY <2>19 DEF TP!TimerReset, TP!TimerWoken
  <2>20. CASE TP!AppLock
    BY <2>20 DEF TP!AppLock
  <2>21. CASE TP!AppRetry \/ TP!AppDone
    <3>1. CASE TP!AppRetry
      BY <2>6, <3>1 DEF TP!AppRetry
    <3>2. CASE TP!AppDone
      BY <2>7, <3>2 DEF TP!AppDone
    <3> QED
      BY <2>21, <3>1, <3>2
  <2>22. CASE UNCHANGED TP!vars
    BY <2>22 DEF TP!vars
  <2> QED
    BY <2>9, <2>10, <2>11, <2>12, <2>13, <2>14, <2>15, <2>16, <2>17, <2>18, <2>19, <2>20,
       <2>21, <2>22
    DEF TP!Next, TP!Main, TP!RecvThread, TP!TimerThread, TP!App
<1> QED
  BY <1>1, <1>2, PTL DEF TP!Spec

(***************************************************************************)
(* What the application was last told is TP_CONNECT exactly while the      *)
(* connection is, whatever the line and the threads do: the bit-fields that*)
(* recv_thread and timer_thread write into one byte do not undo each other,*)
(* since both write inside the mutex (receive_execute, timer_event).       *)
(***************************************************************************)
THEOREM StateIsReported == ASSUME RetryTimeout \in Nat PROVE TP!Spec => []ReportedState
<1>1. ReportInv => ReportedState
  BY DEF ReportInv, ReportedState
<1> QED
  BY ReportInvariant, <1>1, PTL
-----------------------------------------------------------------------------
(* A packet comes from one peer *)

\* While rtk_recv works it has no packet yet, and what its buffer holds is the
\* peer's, which is then the host that datagrams are compared with.
Buffer ==
    /\ pc \in {"idle", "recv", "done"}
    /\ pc # "done" => packet = NoHost
    /\ pc = "recv" => parts \subseteq {peer}
    /\ pc = "recv" /\ parts # {} => client \/ addrSet

OnePeerInv == Buffer /\ RK!OnePeer

LEMMA PeerInvariant == ASSUME NoHost \notin Hosts PROVE RK!Spec => []OnePeerInv
<1> SUFFICES ASSUME NoHost \notin Hosts PROVE RK!Spec => []OnePeerInv
  OBVIOUS
<1>1. RK!Init => OnePeerInv
  BY DEF RK!Init, OnePeerInv, Buffer, RK!OnePeer
<1>2. OnePeerInv /\ [RK!Next]_(RK!vars) => OnePeerInv'
  <2> SUFFICES ASSUME OnePeerInv, [RK!Next]_(RK!vars) PROVE OnePeerInv'
    OBVIOUS
  <2> USE DEF OnePeerInv, Buffer, RK!OnePeer
  <2>1. CASE RK!tp_recv
    BY <2>1 DEF RK!tp_recv
  <2>2. CASE RK!Receive
    <3>1. PICK who \in Hosts, what \in RK!Contents :
            IF (client \/ addrSet) /\ who # peer
              THEN /\ RK!Return("E_ACCESSDENIED")
                   /\ UNCHANGED <<peer, addrSet, retry, naks, parts, packet>>
              ELSE /\ peer' = IF client THEN peer ELSE who
                   /\ \/ what = "whole" /\ RK!Received(who)
                      \/ RK!LooksLikeNak(what) /\ RK!Nak
                      \/ RK!Take(who, what) /\ addrSet' = ~client
      BY <2>2 DEF RK!Receive
    <3> pc = "recv" /\ client' = client
      BY <2>2 DEF RK!Receive
    <3>2. CASE (client \/ addrSet) /\ who # peer
      BY <3>1, <3>2 DEF RK!Return
    <3>3. CASE ~((client \/ addrSet) /\ who # peer)
      <4>1. peer' = who /\ parts \subseteq {who}
        BY <3>1, <3>3
      <4>2. CASE RK!Received(who)
        BY <4>1, <4>2 DEF RK!Received, RK!Return
      <4>3. CASE RK!Nak
        BY <4>1, <4>3 DEF RK!Nak, RK!Return
      <4>4. CASE RK!Take(who, what) /\ addrSet' = ~client
        BY <4>1, <4>4 DEF RK!Take, RK!Again, RK!Return
      <4> QED
        BY <3>1, <3>3, <4>2, <4>3, <4>4
    <3> QED
      BY <3>2, <3>3
  <2>3. CASE RK!ReceiveFails
    BY <2>3 DEF RK!ReceiveFails, RK!Return
  <2>4. CASE UNCHANGED RK!vars
    BY <2>4 DEF RK!vars
  <2> QED
    BY <2>1, <2>2, <2>3, <2>4 DEF RK!Next
<1> QED
  BY <1>1, <1>2, PTL DEF RK!Spec

(***************************************************************************)
(* A packet that tp_recv returns is from the host its answer goes to, and  *)
(* no datagram of another host is in it, whoever sends what in which order *)
(* (rtk_recv, udp_check_sockaddr).                                         *)
(***************************************************************************)
THEOREM PeerIsOne == ASSUME NoHost \notin Hosts PROVE RK!Spec => []OnePeer
<1>1. OnePeerInv => OnePeer
  BY DEF OnePeerInv, OnePeer
<1> QED
  BY PeerInvariant, <1>1, PTL
-----------------------------------------------------------------------------
(* No request is overwritten while it is executed *)

\* The signal of exec_evt has been taken and is about to be returned.
Taken == epc = "wait" /\ waiter["exec_evt"] \in {"got", "hit"}
Busy == epc \in {"call", "done"}

Waiters ==
    /\ waiter \in [HO!Waited -> {"poll", "got", "hit", "out"}]
    /\ \A e \in HO!Waited : waiter[e] \in {"poll", "got"} => epc = "wait"

\* A request is on its way in one place: between recv_thread's copy and its
\* signal, in the signal, in the hands of wait_event_multi or in bcap_callfunc.
\* comp_evt is not signalled in any of them but the first.
OnePlace ==
    /\ "comp_evt" \in signal => ~Busy /\ ~Taken /\ "exec_evt" \notin signal
    /\ rpc \in {"reset", "set"} => ~Busy /\ ~Taken /\ "exec_evt" \notin signal
    /\ Busy \/ Taken => "exec_evt" \notin signal
    /\ rpc = "set" => "comp_evt" \notin signal

HandoffInv == Waiters /\ OnePlace /\ HO!RequestKept /\ (epc = "done" => answered = last)

LEMMA HandoffInvariant == HO!Spec => []HandoffInv
<1> USE DEF HO!Waited
<1>1. HO!Init => HandoffInv
  BY DEF HO!Init, HandoffInv, Waiters, OnePlace, HO!RequestKept, Taken, Busy
<1>2. HandoffInv /\ [HO!Next]_(HO!vars) => HandoffInv'
  <2> SUFFICES ASSUME HandoffInv, [HO!Next]_(HO!vars) PROVE HandoffInv'
    OBVIOUS
  <2> USE DEF HandoffInv, Waiters, OnePlace, HO!RequestKept, Taken, Busy
  <2>1. CASE HO!Receive
    BY <2>1 DEF HO!Receive, HO!execVars, HO!multiVars
  <2>2. CASE HO!ResetComp
    BY <2>2 DEF HO!ResetComp, HO!reset_event, HO!execVars, HO!multiVars
  <2>3. CASE HO!SetExec
    BY <2>3 DEF HO!SetExec, HO!set_event, HO!execVars, HO!multiVars
  <2>4. CASE HO!Completed \/ HO!Abandon
    BY <2>4 DEF HO!Completed, HO!Abandon, HO!execVars, HO!multiVars
  <2>5. CASE HO!Terminate \/ HO!Join
    BY <2>5 DEF HO!Terminate, HO!Join, HO!set_event, HO!execVars, HO!multiVars
  <2>6. CASE HO!BeginWait
    BY <2>6 DEF HO!BeginWait, HO!recvVars
  <2>7. ASSUME NEW e \in HO!Waited, HO!Got(e) PROVE HandoffInv'
    BY <2>7 DEF HO!Got, HO!reset_event, HO!recvVars, HO!execVars
  <2>8. ASSUME NEW e \in HO!Waited, HO!Stamp(e) \/ HO!GiveUp(e) PROVE HandoffInv'
    BY <2>8 DEF HO!Stamp, HO!GiveUp, HO!recvVars, HO!execVars
  <2>9. CASE HO!CallBegin \/ HO!CallEnd
    BY <2>9 DEF HO!CallBegin, HO!CallEnd, HO!Returned, HO!recvVars, HO!multiVars
  <2>10. CASE HO!SetComp \/ HO!ExecEnd
    BY <2>10 DEF HO!SetComp, HO!ExecEnd, HO!Returned, HO!set_event, HO!recvVars, HO!multiVars
  <2>11. CASE UNCHANGED HO!vars
    BY <2>11 DEF HO!vars, HO!recvVars, HO!execVars, HO!multiVars
  <2> QED
    BY <2>1, <2>2, <2>3, <2>4, <2>5, <2>6, <2>7, <2>8, <2>9, <2>10, <2>11
    DEF HO!Next, HO!RecvThread, HO!Waiter, HO!ExecThread
<1> QED
  BY <1>1, <1>2, PTL DEF HO!Spec

(***************************************************************************)
(* last_recv is not overwritten while bcap_callfunc reads it, also when    *)
(* recv_thread has given up waiting, and the answer that is sent is that   *)
(* of the request received last: receive_execute admits a request only     *)
(* while comp_evt is signalled, and that says that none is on its way.     *)
(***************************************************************************)
THEOREM RequestsKept == HO!Spec => []RequestKept
<1>1. HandoffInv => RequestKept
  BY DEF HandoffInv, RequestKept
<1> QED
  BY HandoffInvariant, <1>1, PTL
-----------------------------------------------------------------------------
(* Variables are polled in service *)

\* The objects whose Update is in a path.
Held(calls) == {calls[i][1] : i \in DOMAIN calls}

IsSeq(s) == \E S : s \in Seq(S)

\* StopService waits for m_mtxSrv of what is updated, and the topics of a
\* variable are there as long as it serves, unless it is crossed; so it is when
\* both changers are halfway in it.
Polled ==
    /\ IsSeq(path)
    /\ Held(path) \subseteq m_serving
    /\ m_serving \cap Variables \subseteq topics \cup crossed

Changes ==
    /\ changing \in [TR!Changers -> {"none", "stop", "start", "quit"}]
    /\ order = [c \in TR!Changers |-> order[c]]
    /\ \A c \in TR!Changers : changing[c] = "none" => order[c] = <<>>
    /\ stage = "building" => \A c \in TR!Changers : changing[c] = "none"
    /\ halfway \subseteq TR!Changers

Between ==
    \A c \in halfway :
      /\ order[c] # <<>> /\ Head(order[c]) \in Variables
      /\ Head(order[c]) \notin crossed =>
           IF changing[c] = "start" THEN Head(order[c]) \in topics
           ELSE Head(order[c]) \notin m_serving
      /\ \A d \in halfway : Head(order[d]) = Head(order[c]) => d = c \/ Head(order[c]) \in crossed

Serving == Polled /\ Changes /\ Between

LEMMA CallHolds ==
    ASSUME NEW o, NEW outer, IsSeq(outer), Held(outer) \subseteq m_serving, TR!Call(o, outer)
    PROVE  IsSeq(path') /\ Held(path') \subseteq m_serving
<1>1. CASE o \notin m_serving
  BY <1>1 DEF TR!Call
<1>2. CASE o \in m_serving
  <2> DEFINE call == <<o, TR!Made(Below[o])>>
  <2> call[1] = o
    OBVIOUS
  <2> HIDE DEF call
  <2>1. path' = Append(outer, call)
    BY <1>2 DEF TR!Call, call
  <2>2. PICK S : outer \in Seq(S)
    BY DEF IsSeq
  <2>3. outer \in Seq(S \cup {call}) /\ Append(outer, call) \in Seq(S \cup {call})
    BY <2>2
  <2>4. \A i \in DOMAIN path' : path'[i] = call \/ (i \in DOMAIN outer /\ path'[i] = outer[i])
    BY <2>1, <2>3
  <2> QED
    BY <1>2, <2>1, <2>3, <2>4 DEF Held, IsSeq
<1> QED
  BY <1>1, <1>2

LEMMA FrontHolds ==
    ASSUME NEW s, IsSeq(s), s # <<>>
    PROVE  /\ IsSeq(TR!Front(s)) /\ Held(TR!Front(s)) \subseteq Held(s)
           /\ TR!Last(s)[1] \in Held(s)
<1>1. PICK S : s \in Seq(S)
  BY DEF IsSeq
<1>2. Len(s) \in Nat \ {0}
  BY <1>1
<1>3. TR!Front(s) \in Seq(S)
  BY <1>1, <1>2 DEF TR!Front
<1>4. \A i \in DOMAIN TR!Front(s) : i \in DOMAIN s /\ TR!Front(s)[i] = s[i]
  BY <1>1, <1>2 DEF TR!Front
<1>5. Len(s) \in DOMAIN s /\ TR!Last(s) = s[Len(s)]
  BY <1>1, <1>2 DEF TR!Last
<1> QED
  BY <1>3, <1>4, <1>5 DEF Held, IsSeq

\* A changer that enters a variable crosses whoever is halfway in it.
LEMMA EnterBetween ==
    ASSUME Changes, Between, NEW c \in TR!Changers, NEW o \in Variables,
           c \notin halfway, order[c] # <<>>, o = Head(order[c]), TR!Enter(c, o),
           UNCHANGED <<order, changing>>,
           \/ changing[c] = "start" /\ topics' = topics \cup {o} /\ m_serving' = m_serving
           \/ changing[c] # "start" /\ topics' = topics /\ m_serving' = m_serving \ {o}
    PROVE  Between'
<1>1. halfway' = halfway \cup {c}
  BY DEF TR!Enter
<1>2. \A d \in halfway : Head(order[d]) = o => o \in crossed'
  BY DEF TR!Enter
<1>3. \A v : v # o => (v \in crossed' <=> v \in crossed)
  BY DEF TR!Enter
<1> QED
  BY <1>1, <1>2, <1>3 DEF Between

\* One that is done with an object disturbs nobody who is halfway.
LEMMA AdvanceBetween ==
    ASSUME Changes, Between, NEW c \in TR!Changers, NEW o,
           order[c] # <<>>, o = Head(order[c]), TR!Advance(c), halfway' = halfway \ {c},
           UNCHANGED <<stage, changing, crossed>>, changing[c] # "none",
           \/ topics' = topics /\ m_serving' \subseteq m_serving
           \/ c \in halfway /\ (topics' = topics \ {o} /\ m_serving' = m_serving)
           \/ (o \in Variables => c \in halfway) /\ topics' = topics /\ m_serving' = m_serving \cup {o}
    PROVE  Changes' /\ Between'
<1>1. Changes'
  BY DEF TR!Advance, Changes
<1>2. \A d \in halfway' : order'[d] = order[d] /\ d \in halfway /\ d # c
  BY DEF TR!Advance, Changes
<1> QED
  BY <1>1, <1>2 DEF Between

LEMMA ServingInvariant == TR!Spec => []Serving
<1>1. TR!Init => Serving
  <2>1. <<>> \in Seq({}) /\ Held(<<>>) = {}
    BY DEF Held
  <2> QED
    BY <2>1 DEF TR!Init, Serving, Polled, Changes, Between, IsSeq
<1>2. Serving /\ [TR!Next]_(TR!vars) => Serving'
  <2> SUFFICES ASSUME Serving, [TR!Next]_(TR!vars) PROVE Serving'
    OBVIOUS
  <2> USE DEF Serving
  <2>1. CASE TR!AddController \/ \E o \in Tree : TR!AddRobot(o) \/ TR!AddTask(o) \/ TR!AddVariable(o)
    <3>1. PICK o : TR!AddObject(o)
      BY <2>1 DEF TR!AddController, TR!AddRobot, TR!AddTask, TR!AddVariable
    <3>2. stage' # "building" \/ stage' = stage
      BY <3>1 DEF TR!AddObject
    <3> QED
      BY <3>1, <3>2 DEF TR!AddObject, TR!changeVars, Polled, Changes, Between, Held
  <2>2. CASE TR!Built \/ UNCHANGED TR!vars
    <3>1. CASE UNCHANGED <<m_serving, topics, TR!changeVars, path>> /\ stage' \in {stage, "running"}
      BY <3>1 DEF TR!changeVars, Polled, Changes, Between, Held
    <3>2. CASE /\ stage = "building"
               /\ changing' = [changing EXCEPT !["mode"] = "start"]
               /\ order' = [order EXCEPT !["mode"] = TR!Up]
               /\ stage' = "running" /\ UNCHANGED <<m_serving, topics, halfway, crossed, path>>
      <4>1. halfway' = {}
        BY <3>2 DEF Changes, Between
      <4>2. Changes'
        <5> HIDE DEF Serving
        <5>1. Changes
          BY DEF Serving
        <5> QED
          BY <3>2, <4>1, <5>1 DEF Changes
      <4> QED
        BY <3>2, <4>1, <4>2 DEF Polled, Between, Held
    <3> QED
      BY <2>2, <3>1, <3>2 DEF TR!Built, TR!vars, TR!changeVars
  <2>3. ASSUME NEW c \in TR!Changers, TR!Begin(c) \/ TR!ChangeMode(c) PROVE Serving'
    <3>1. c \notin halfway
      BY <2>3 DEF TR!Begin, TR!ChangeMode, Between
    <3>2. PICK what, seq :
            /\ TR!Go(c, what, seq) /\ stage # "building"
            /\ what \in {"none", "stop", "start", "quit"}
            /\ what = "none" => seq = <<>>
      BY <2>3 DEF TR!Begin, TR!ChangeMode, Changes
    <3>3. Polled'
      BY <3>2 DEF TR!Go, Polled, Held
    <3>4. Changes'
      BY <3>2 DEF TR!Go, Changes
    <3>5. \A d \in halfway : order'[d] = order[d] /\ changing'[d] = changing[d]
      BY <3>1, <3>2 DEF TR!Go, Changes
    <3> QED
      BY <3>2, <3>3, <3>4, <3>5 DEF TR!Go, Between
  <2>4. ASSUME NEW c \in TR!Changers, NEW o \in Tree, TR!StopService(c, o) PROVE Serving'
    <3>1. TR!Locked = Held(path) /\ changing[c] # "start" /\ order[c] # <<>> /\ o = Head(order[c])
          /\ UNCHANGED <<stage, changing, path>> /\ changing[c] # "none"
      BY <2>4 DEF TR!Locked, Held, TR!StopService, TR!AtNext
    <3>2. CASE /\ c \notin halfway /\ o \notin Held(path) /\ m_serving' = m_serving \ {o}
               /\ o \in Variables /\ TR!Enter(c, o) /\ UNCHANGED <<topics, order>>
      <4>1. Polled'
        BY <3>1, <3>2 DEF TR!Enter, Polled, Held
      <4>2. Changes'
        BY <3>1, <3>2 DEF TR!Enter, Changes
      <4> QED
        BY <3>1, <3>2, <4>1, <4>2, EnterBetween
    <3>3. CASE /\ c \notin halfway /\ o \notin Held(path) /\ m_serving' = m_serving \ {o}
               /\ TR!Advance(c) /\ UNCHANGED <<topics, halfway, crossed>>
      <4>1. Polled'
        BY <3>1, <3>3 DEF Polled, Held
      <4> QED
        BY <3>1, <3>3, <4>1, AdvanceBetween
    <3>4. CASE /\ c \in halfway /\ topics' = topics \ {o} /\ halfway' = halfway \ {c}
               /\ TR!Advance(c) /\ UNCHANGED <<m_serving, crossed>>
      <4>1. Polled'
        BY <3>1, <3>4 DEF Polled, Between, Held
      <4> QED
        BY <3>1, <3>4, <4>1, AdvanceBetween
    <3> QED
      BY <2>4, <3>1, <3>2, <3>3, <3>4 DEF TR!StopService
  <2>5. ASSUME NEW c \in TR!Changers, NEW o \in Tree, TR!StartService(c, o) PROVE Serving'
    <3>1. changing[c] = "start" /\ order[c] # <<>> /\ o = Head(order[c])
          /\ UNCHANGED <<stage, changing, path>>
      BY <2>5 DEF TR!StartService, TR!AtNext
    <3>2. CASE /\ c \notin halfway /\ topics' = topics \cup {o} /\ o \in Variables
               /\ TR!Enter(c, o) /\ UNCHANGED <<m_serving, order>>
      <4>1. Polled'
        BY <3>1, <3>2 DEF TR!Enter, Polled, Held
      <4>2. Changes'
        BY <3>1, <3>2 DEF TR!Enter, Changes
      <4> QED
        BY <3>1, <3>2, <4>1, <4>2, EnterBetween
    <3>3. CASE /\ c \notin halfway /\ TR!Advance(c)
               /\ UNCHANGED <<m_serving, topics, halfway, crossed>>
      <4>1. Polled'
        BY <3>1, <3>3 DEF Polled, Held
      <4> QED
        BY <3>1, <3>3, <4>1, AdvanceBetween
    <3>4. CASE /\ o \in Variables => c \in halfway
               /\ m_serving' = m_serving \cup {o} /\ halfway' = halfway \ {c} /\ TR!Advance(c)
               /\ UNCHANGED <<topics, crossed>>
      <4>1. Polled'
        BY <3>1, <3>4 DEF Polled, Between, Held
      <4> QED
        BY <3>1, <3>4, <4>1, AdvanceBetween
    <3> QED
      BY <2>5, <3>1, <3>2, <3>3, <3>4 DEF TR!StartService
  <2>6. CASE TR!SpinThread
    <3> SUFFICES IsSeq(path') /\ Held(path') \subseteq m_serving
      BY <2>6 DEF TR!SpinThread, TR!changeVars, Polled, Changes, Between, Held
    <3> IsSeq(path) /\ Held(path) \subseteq m_serving
      BY DEF Polled
    <3>1. IsSeq(<<>>) /\ Held(<<>>) = {}
      <4>1. <<>> \in Seq({})
        OBVIOUS
      <4> QED
        BY <4>1 DEF Held, IsSeq
    <3>2. CASE TR!Update
      BY <3>1, <3>2, CallHolds DEF TR!Update
    <3>3. CASE TR!UpdateNext
      <4> DEFINE o == TR!Last(path)[1]
                 left == TR!Last(path)[2]
      <4>1. path # <<>> /\ IsSeq(TR!Front(path)) /\ Held(TR!Front(path)) \subseteq m_serving
            /\ o \in m_serving
        BY <3>3, FrontHolds DEF TR!UpdateNext
      <4>2. CASE left = <<>>
        BY <3>3, <4>1, <4>2 DEF TR!UpdateNext
      <4>3. CASE left # <<>>
        <5> DEFINE call == <<o, Tail(left)>>
                   outer == Append(TR!Front(path), call)
        <5>1. TR!Call(Head(left), outer)
          BY <3>3, <4>3 DEF TR!UpdateNext
        <5>2. call[1] = o
          OBVIOUS
        <5> HIDE DEF call
        <5>3. IsSeq(outer) /\ Held(outer) \subseteq m_serving
          <6>1. PICK S : TR!Front(path) \in Seq(S)
            BY <4>1 DEF IsSeq
          <6>2. TR!Front(path) \in Seq(S \cup {call}) /\ outer \in Seq(S \cup {call})
            BY <6>1
          <6>3. \A i \in DOMAIN outer : outer[i] = call
                   \/ (i \in DOMAIN TR!Front(path) /\ outer[i] = TR!Front(path)[i])
            BY <6>2
          <6> HIDE DEF outer, o
          <6> QED
            BY <4>1, <5>2, <6>2, <6>3 DEF Held, IsSeq
        <5> HIDE DEF outer
        <5> QED
          BY <5>1, <5>3, CallHolds
      <4> QED
        BY <4>2, <4>3
    <3>4. ASSUME NEW v \in Variables, TR!Callback(v) \/ TR!ExecPutValue(v)
          PROVE  IsSeq(path') /\ Held(path') \subseteq m_serving
      BY <3>1, <3>4, CallHolds DEF TR!Callback, TR!ExecPutValue
    <3> QED
      BY <2>6, <3>2, <3>3, <3>4 DEF TR!SpinThread
  <2> QED
    BY <2>1, <2>2, <2>3, <2>4, <2>5, <2>6 DEF TR!Next
<1> QED
  BY <1>1, <1>2, PTL DEF TR!Spec

(***************************************************************************)
(* A variable is read and published only while it serves, and only while   *)
(* its publisher exists, from the spinning loop or from a callback, though *)
(* Stop changes the mode beside another change of it: StopService waits for*)
(* m_mtxSrv, and only where both were in the same variable at once may the *)
(* publisher be gone.                                                      *)
(***************************************************************************)
THEOREM VariablesPolledInService == TR!Spec => []PolledInService
<1>1. Serving => PolledInService
  BY DEF Serving, Polled, PolledInService, TR!PolledInService, TR!Locked, Held
<1> QED
  BY ServingInvariant, <1>1, PTL
-----------------------------------------------------------------------------
(* The objects to release are listed *)

\* A set of numbers has a least.
LEMMA Least ==
    ASSUME NEW T \in SUBSET Nat, T # {}
    PROVE  \E x \in T : \A y \in T : x <= y
<1>1. IsWellFoundedOn(OpToRel(<, Nat), Nat)
  BY NatLessThanWellFounded
<1>2. PICK x \in T : \A y \in T : <<y, x>> \notin OpToRel(<, Nat)
  BY <1>1, WFMin
<1>3. OpToRel(<, Nat) = {ss \in Nat \X Nat : ss[1] < ss[2]}
  BY Zenon DEF OpToRel
<1>4. \A y \in T : <<y, x>> \notin {ss \in Nat \X Nat : ss[1] < ss[2]}
  BY <1>2, <1>3, Zenon
<1>5. ASSUME NEW y \in T PROVE x <= y
  <2>1. x \in Nat /\ y \in Nat
    OBVIOUS
  <2>2. <<y, x>> \in Nat \X Nat /\ ~(<<y, x>>[1] < <<y, x>>[2])
    BY <1>4, <2>1
  <2> QED
    BY <2>1, <2>2
<1> QED
  BY <1>5

\* The list without an element is the list with one index k left out.
LEMMA RemoveFirstIs ==
    ASSUME NEW S, NEW s \in Seq(S), NEW e, NEW i0 \in DOMAIN s, s[i0] = e
    PROVE  \E k \in DOMAIN s :
             /\ s[k] = e
             /\ CA!RemoveFirst(s, e) = SubSeq(s, 1, k - 1) \o SubSeq(s, k + 1, Len(s))
<1> DEFINE I == {i \in 1..Len(s) : s[i] = e}
           k == CA!Min(I)
<1>1. k \in I
  <2>1. I # {} /\ I \subseteq Nat
    OBVIOUS
  <2> HIDE DEF I
  <2>2. PICK m \in I : \A y \in I : m <= y
    BY <2>1, Least
  <2> QED
    BY <2>2 DEF CA!Min
<1>2. CA!RemoveFirst(s, e) = CA!RemoveAt(s, k)
  <2>1. I # {}
    OBVIOUS
  <2>2. CA!RemoveFirst(s, e) = CA!RemoveAt(s, IF I # {} THEN k ELSE 0)
    BY DEF CA!RemoveFirst, CA!SelectInSeq
  <2> HIDE DEF I
  <2> QED
    BY <2>1, <2>2, Zenon
<1> HIDE DEF k
<1>3. k \in DOMAIN s /\ s[k] = e
  BY <1>1
<1> HIDE DEF I
<1> QED
  BY <1>2, <1>3, Zenon DEF CA!RemoveAt

\* What is left of it: every other element, and one of two that are equal.
LEMMA RemoveFirstKeeps ==
    ASSUME NEW S, NEW s \in Seq(S), NEW e, NEW r, r = CA!RemoveFirst(s, e)
    PROVE  /\ r \in Seq(S)
           /\ CA!Range(r) \subseteq CA!Range(s) /\ CA!Range(s) \ {e} \subseteq CA!Range(r)
           /\ \A i, j \in DOMAIN r : i # j /\ r[i] = r[j] =>
                 \E l, m \in DOMAIN s : l # m /\ s[l] = s[m] /\ s[l] = r[i]
           /\ e \in CA!Range(r) =>
                 \E l, m \in DOMAIN s : l # m /\ s[l] = s[m] /\ s[l] = e
<1> USE DEF CA!Range
<1>1. CASE \E i \in DOMAIN s : s[i] = e
  <2>1. PICK k \in DOMAIN s :
          s[k] = e /\ r = SubSeq(s, 1, k - 1) \o SubSeq(s, k + 1, Len(s))
    BY <1>1, RemoveFirstIs
  <2> DEFINE from(i) == IF i < k THEN i ELSE i + 1
  <2>2. k \in 1..Len(s) /\ Len(s) \in Nat
    BY <2>1
  <2>3. /\ r \in Seq(S) /\ Len(r) = Len(s) - 1
        /\ \A i \in 1..Len(s) - 1 : r[i] = s[from(i)]
    <3> DEFINE a == SubSeq(s, 1, k - 1)
               b == SubSeq(s, k + 1, Len(s))
    <3>1. /\ a \in Seq(S) /\ Len(a) = k - 1
          /\ \A i \in 1..k - 1 : a[i] = s[i]
      BY <2>2
    <3>2. /\ b \in Seq(S) /\ Len(b) = Len(s) - k
          /\ \A i \in 1..Len(s) - k : b[i] = s[k + i]
      BY <2>2
    <3>3. r = a \o b
      BY <2>1
    <3> HIDE DEF a, b
    <3>4. r \in Seq(S) /\ Len(r) = Len(s) - 1
      BY <2>2, <3>1, <3>2, <3>3
    <3>5. ASSUME NEW i \in 1..Len(s) - 1 PROVE r[i] = s[from(i)]
      <4>1. CASE i < k
        BY <2>2, <3>1, <3>2, <3>3, <4>1
      <4>2. CASE i >= k
        <5>1. r[i] = b[i - (k - 1)]
          BY <2>2, <3>1, <3>2, <3>3, <4>2
        <5>2. i - (k - 1) \in 1..Len(s) - k /\ k + (i - (k - 1)) = i + 1
          BY <2>2, <4>2
        <5> QED
          BY <2>2, <3>2, <4>2, <5>1, <5>2
      <4> QED
        BY <2>2, <4>1, <4>2
    <3> QED
      BY <3>4, <3>5
  <2>4. DOMAIN r = 1..Len(s) - 1 /\ DOMAIN s = 1..Len(s)
    BY <2>2, <2>3
  <2>5. \A i \in DOMAIN r : from(i) \in DOMAIN s /\ from(i) # k
    BY <2>2, <2>4
  <2>6. \A i, j \in DOMAIN r : i # j => from(i) # from(j)
    BY <2>2, <2>4
  <2>7. \A l \in DOMAIN s : l # k => \E i \in DOMAIN r : from(i) = l
    <3> SUFFICES ASSUME NEW l \in DOMAIN s, l # k PROVE \E i \in DOMAIN r : from(i) = l
      OBVIOUS
    <3>1. CASE l < k
      <4>1. l \in DOMAIN r /\ from(l) = l
        BY <2>2, <2>4, <3>1
      <4> QED
        BY <4>1
    <3>2. CASE l > k
      <4>1. l - 1 \in DOMAIN r /\ from(l - 1) = l
        BY <2>2, <2>4, <3>2
      <4> QED
        BY <4>1
    <3> QED
      BY <2>2, <2>4, <3>1, <3>2
  <2>8. \A i \in DOMAIN r : r[i] = s[from(i)]
    BY <2>3, <2>4
  <2> HIDE DEF from
  <2>9. CA!Range(r) \subseteq CA!Range(s) /\ CA!Range(s) \ {e} \subseteq CA!Range(r)
    <3>1. ASSUME NEW i \in DOMAIN r PROVE r[i] \in CA!Range(s)
      BY <2>5, <2>8
    <3>2. ASSUME NEW l \in DOMAIN s, s[l] # e PROVE s[l] \in CA!Range(r)
      <4>1. PICK i \in DOMAIN r : from(i) = l
        BY <2>1, <2>7, <3>2
      <4> QED
        BY <2>8, <4>1
    <3> QED
      BY <3>1, <3>2
  <2>10. ASSUME NEW i \in DOMAIN r, NEW j \in DOMAIN r, i # j, r[i] = r[j]
         PROVE  \E l, m \in DOMAIN s : l # m /\ s[l] = s[m] /\ s[l] = r[i]
    BY <2>5, <2>6, <2>8, <2>10
  <2>11. ASSUME e \in CA!Range(r)
         PROVE  \E l, m \in DOMAIN s : l # m /\ s[l] = s[m] /\ s[l] = e
    <3>1. PICK i \in DOMAIN r : r[i] = e
      BY <2>11
    <3> QED
      BY <2>1, <2>5, <2>8, <3>1
  <2>12. r \in Seq(S)
    BY <2>3
  <2> HIDE DEF CA!Range
  <2> QED
    BY <2>9, <2>10, <2>11, <2>12, Zenon
<1>2. CASE ~\E i \in DOMAIN s : s[i] = e
  <2>1. r = s
    BY <1>2 DEF CA!RemoveFirst
  <2>2. e \notin CA!Range(s)
    BY <1>2
  <2> HIDE DEF CA!Range
  <2> QED
    BY <2>1, <2>2
<1> QED
  BY <1>1, <1>2, Zenon

\* An object is released as what it is.
LEMMA ReleasedAsMade ==
    ASSUME NEW f, NEW made \in {m[2] : m \in {x \in CA!Made : x[1] = f}}
    PROVE  CA!Opens[f] = made
BY DEF CA!Made, CA!Opens

\* ObjectsListed, from the beginning.
Listed ==
    /\ \E S : m_vecKH \in Seq(S)
    /\ pc \in {"start", "serve"} =>
         /\ live \ unsure \subseteq CA!Range(m_vecKH)
         /\ CA!Range(m_vecKH) \ live \subseteq unsure
         /\ \A i, j \in DOMAIN m_vecKH :
              i # j /\ m_vecKH[i] = m_vecKH[j] => m_vecKH[i] \in unsure

LEMMA ListedInvariant == CA!Spec => []Listed
<1>1. CA!Init => Listed
  <2>1. <<>> \in Seq({}) /\ CA!Range(<<>>) = {} /\ DOMAIN <<>> = {}
    BY DEF CA!Range
  <2> QED
    BY <2>1 DEF CA!Init, Listed
<1>2. Listed /\ [CA!Next]_(CA!vars) => Listed'
  <2> SUFFICES ASSUME Listed, [CA!Next]_(CA!vars) PROVE Listed'
    OBVIOUS
  <2>1. PICK S : m_vecKH \in Seq(S)
    BY DEF Listed
  <2>2. CASE CA!Connect \/ CA!StopService \/ UNCHANGED CA!vars
    BY <2>2 DEF CA!Connect, CA!StopService, CA!vars, Listed, CA!Range
  <2>3. CASE CA!Disconnect
    <3>1. <<>> \in Seq(S)
      OBVIOUS
    <3> QED
      BY <2>1, <2>3, <3>1 DEF CA!Disconnect, Listed
  <2>4. ASSUME NEW class, CA!CallPlain(class) PROVE Listed'
    BY <2>4 DEF CA!CallPlain, Listed, CA!Range
  <2>5. ASSUME NEW class, NEW f, CA!CallOpen(class, f) PROVE Listed'
    <3>1. PICK h \in Handles, made \in {m[2] : m \in {x \in CA!Made : x[1] = f}} :
            /\ <<made, h>> \notin live
            /\ live' = live \union {<<made, h>>}
            /\ \/ m_vecKH' = Append(m_vecKH, <<CA!Opens[f], h>>) /\ UNCHANGED unsure
               \/ unsure' = unsure \union {<<made, h>>} /\ UNCHANGED m_vecKH
      BY <2>5 DEF CA!CallOpen
    <3> DEFINE object == <<made, h>>
    <3>2. <<CA!Opens[f], h>> = object
      BY ReleasedAsMade
    <3>3. pc = "serve" /\ pc' = pc
      BY <2>5 DEF CA!CallOpen
    <3> HIDE DEF object
    <3>4. CASE m_vecKH' = Append(m_vecKH, object) /\ unsure' = unsure
      <4>1. /\ m_vecKH' \in Seq(S \cup {object})
            /\ DOMAIN m_vecKH' = DOMAIN m_vecKH \cup {Len(m_vecKH) + 1}
            /\ Len(m_vecKH) + 1 \notin DOMAIN m_vecKH
            /\ m_vecKH'[Len(m_vecKH) + 1] = object
            /\ \A i \in DOMAIN m_vecKH : m_vecKH'[i] = m_vecKH[i]
        BY <2>1, <3>4
      <4>2. CA!Range(m_vecKH') = CA!Range(m_vecKH) \cup {object}
        BY <4>1 DEF CA!Range
      <4>3. live' = live \cup {object} /\ object \notin live
        BY <3>1 DEF object
      <4>4. object \in CA!Range(m_vecKH) => object \in unsure
        BY <3>3, <4>3 DEF Listed
      <4>5. \A i \in DOMAIN m_vecKH : m_vecKH[i] \in CA!Range(m_vecKH)
        BY DEF CA!Range
      <4>6. \A i, j \in DOMAIN m_vecKH' :
              i # j /\ m_vecKH'[i] = m_vecKH'[j] => m_vecKH'[i] \in unsure
        BY <3>3, <4>1, <4>4, <4>5 DEF Listed
      <4> QED
        BY <3>3, <3>4, <4>1, <4>2, <4>3, <4>6 DEF Listed
    <3>5. CASE unsure' = unsure \union {object} /\ m_vecKH' = m_vecKH
      <4>1. live' = live \cup {object}
        BY <3>1 DEF object
      <4> QED
        BY <3>3, <3>5, <4>1 DEF Listed, CA!Range
    <3> QED
      BY <3>1, <3>2, <3>4, <3>5 DEF object
  <2>6. ASSUME NEW class, NEW f, CA!CallRelease(class, f) PROVE Listed'
    <3>1. PICK h \in Handles :
            /\ live' = live \ {<<class, h>>}
            /\ \/ m_vecKH' = CA!RemoveFirst(m_vecKH, <<class, h>>) /\ UNCHANGED unsure
               \/ unsure' = unsure \union {<<class, h>>} /\ UNCHANGED m_vecKH
      BY <2>6, HandlesAssumption DEF CA!CallRelease
    <3> DEFINE object == <<class, h>>
    <3>2. pc = "serve" /\ pc' = pc
      BY <2>6 DEF CA!CallRelease
    <3>3. live' = live \ {object}
      BY <3>1
    <3>4. \/ m_vecKH' = CA!RemoveFirst(m_vecKH, object) /\ unsure' = unsure
          \/ unsure' = unsure \union {object} /\ m_vecKH' = m_vecKH
      BY <3>1
    <3> HIDE DEF object
    <3>5. CASE m_vecKH' = CA!RemoveFirst(m_vecKH, object) /\ unsure' = unsure
      <4>1. /\ m_vecKH' \in Seq(S)
            /\ CA!Range(m_vecKH') \subseteq CA!Range(m_vecKH)
            /\ CA!Range(m_vecKH) \ {object} \subseteq CA!Range(m_vecKH')
            /\ \A i, j \in DOMAIN m_vecKH' : i # j /\ m_vecKH'[i] = m_vecKH'[j] =>
                  \E l, m \in DOMAIN m_vecKH :
                     l # m /\ m_vecKH[l] = m_vecKH[m] /\ m_vecKH[l] = m_vecKH'[i]
            /\ object \in CA!Range(m_vecKH') =>
                  \E l, m \in DOMAIN m_vecKH :
                     l # m /\ m_vecKH[l] = m_vecKH[m] /\ m_vecKH[l] = object
        BY <2>1, <3>5, RemoveFirstKeeps
      <4>2. object \in CA!Range(m_vecKH') => object \in unsure
        BY <3>2, <4>1 DEF Listed
      <4>3. \A i, j \in DOMAIN m_vecKH' :
              i # j /\ m_vecKH'[i] = m_vecKH'[j] => m_vecKH'[i] \in unsure
        BY <3>2, <4>1 DEF Listed
      <4> QED
        BY <3>2, <3>3, <3>5, <4>1, <4>2, <4>3 DEF Listed
    <3>6. CASE unsure' = unsure \union {object} /\ m_vecKH' = m_vecKH
      BY <3>2, <3>3, <3>6 DEF Listed, CA!Range
    <3> QED
      BY <3>4, <3>5, <3>6
  <2> QED
    BY <2>2, <2>3, <2>4, <2>5, <2>6 DEF CA!Next
<1> QED
  BY <1>1, <1>2, PTL DEF CA!Spec

(***************************************************************************)
(* While bcap_service serves, its list of objects to release and what the  *)
(* controller has differ only by calls without a clear answer, for any     *)
(* functions that open, in any order of calls (ExecFunction, Disconnect).  *)
(***************************************************************************)
THEOREM ObjectsAreListed == CA!Spec => []ObjectsListed
<1>1. Listed => ObjectsListed
  BY DEF Listed, ObjectsListed, CA!ObjectsListed
<1> QED
  BY ListedInvariant, <1>1, PTL
-----------------------------------------------------------------------------
(* Drawing: a packet is the commands packed so far *)

\* Sequences, for which SMT wants a set of elements.
LEMMA InSeq ==
    ASSUME NEW s, MT!IsSequence(s)
    PROVE  s \in Seq({s[i] : i \in 1..Len(s)})
BY DEF MT!IsSequence

LEMMA SeqIs ==
    ASSUME NEW X, NEW s \in Seq(X)
    PROVE  MT!IsSequence(s)
BY DEF MT!IsSequence

LEMMA SeqLarger ==
    ASSUME NEW X, NEW Y, NEW s \in Seq(X), X \subseteq Y
    PROVE  s \in Seq(Y)
OBVIOUS

\* Joined sequences: the elements of one, then those of the other.
LEMMA Join ==
    ASSUME NEW s, NEW t, MT!IsSequence(s), MT!IsSequence(t)
    PROVE  /\ MT!IsSequence(s \o t) /\ Len(s \o t) = Len(s) + Len(t)
           /\ \A i \in 1..Len(s) : (s \o t)[i] = s[i]
           /\ \A i \in 1..Len(t) : (s \o t)[Len(s) + i] = t[i]
<1> DEFINE X == {s[i] : i \in 1..Len(s)}
           Y == {t[i] : i \in 1..Len(t)}
<1>1. s \in Seq(X) /\ t \in Seq(Y)
  BY InSeq
<1>2. X \subseteq X \cup Y /\ Y \subseteq X \cup Y
  OBVIOUS
<1> HIDE DEF X, Y
<1>3. s \in Seq(X \cup Y) /\ t \in Seq(X \cup Y)
  BY <1>1, <1>2, SeqLarger
<1> DEFINE Z == X \cup Y
<1>4. s \in Seq(Z) /\ t \in Seq(Z)
  BY <1>3
<1> HIDE DEF Z
<1>5. /\ s \o t \in Seq(Z) /\ Len(s \o t) = Len(s) + Len(t)
      /\ \A i \in 1..Len(s) : (s \o t)[i] = s[i]
      /\ \A i \in 1..Len(t) : (s \o t)[Len(s) + i] = t[i]
  BY <1>4
<1>6. MT!IsSequence(s \o t)
  BY <1>5, SeqIs
<1> QED
  BY <1>5, <1>6

\* A part of a sequence.
LEMMA Part ==
    ASSUME NEW s, MT!IsSequence(s), NEW a \in Nat \ {0}, NEW b \in Nat, b <= Len(s)
    PROVE  /\ MT!IsSequence(SubSeq(s, a, b))
           /\ Len(SubSeq(s, a, b)) = IF a <= b THEN b + 1 - a ELSE 0
           /\ \A i \in 1..(b + 1 - a) : SubSeq(s, a, b)[i] = s[a + i - 1]
<1> DEFINE X == {s[i] : i \in 1..Len(s)}
<1>1. s \in Seq(X)
  BY InSeq
<1> HIDE DEF X
<1>2. SubSeq(s, a, b) \in Seq(X)
  BY <1>1
<1>3. MT!IsSequence(SubSeq(s, a, b))
  BY <1>2, SeqIs
<1>4. Len(SubSeq(s, a, b)) = IF a <= b THEN b + 1 - a ELSE 0
  BY <1>1
<1>5. \A i \in 1..(b + 1 - a) : SubSeq(s, a, b)[i] = s[a + i - 1]
  BY <1>1
<1> QED
  BY <1>3, <1>4, <1>5

\* Sequences are equal if their elements are.
LEMMA SameSequence ==
    ASSUME NEW s, NEW t, MT!IsSequence(s), MT!IsSequence(t), Len(s) = Len(t),
           \A i \in 1..Len(s) : s[i] = t[i]
    PROVE  s = t
BY DEF MT!IsSequence


LEMMA JoinAssoc ==
    ASSUME NEW s, NEW t, NEW u, MT!IsSequence(s), MT!IsSequence(t), MT!IsSequence(u)
    PROVE  (s \o t) \o u = s \o (t \o u)
<1>1. /\ MT!IsSequence(s \o t) /\ Len(s \o t) = Len(s) + Len(t)
      /\ MT!IsSequence(t \o u) /\ Len(t \o u) = Len(t) + Len(u)
      /\ Len(s) \in Nat /\ Len(t) \in Nat /\ Len(u) \in Nat
  BY Join DEF MT!IsSequence
<1> DEFINE a == (s \o t) \o u
           b == s \o (t \o u)
<1>2. MT!IsSequence(a) /\ MT!IsSequence(b) /\ Len(a) = Len(b) /\ Len(a) = Len(s) + Len(t) + Len(u)
  BY <1>1, Join
<1>3. ASSUME NEW i \in 1..Len(a) PROVE a[i] = b[i]
  <2>1. CASE i \in 1..Len(s)
    <3>1. a[i] = (s \o t)[i] /\ (s \o t)[i] = s[i] /\ b[i] = s[i]
      BY <1>1, <2>1, Join
    <3> QED
      BY <3>1
  <2>2. CASE i \in Len(s) + 1..Len(s) + Len(t)
    <3> DEFINE j == i - Len(s)
    <3>1. j \in 1..Len(t) /\ i \in 1..Len(s \o t) /\ j \in 1..Len(t \o u) /\ i = Len(s) + j
      BY <1>1, <2>2
    <3> HIDE DEF j
    <3>2. a[i] = (s \o t)[i]
      BY <1>1, <3>1, Join
    <3>3. (s \o t)[i] = t[j]
      BY <3>1, Join
    <3>4. b[i] = (t \o u)[j]
      BY <1>1, <3>1, Join
    <3>5. (t \o u)[j] = t[j]
      BY <3>1, Join
    <3> QED
      BY <3>2, <3>3, <3>4, <3>5
  <2>3. CASE i \in Len(s) + Len(t) + 1..Len(a)
    <3> DEFINE j == i - Len(s) - Len(t)
    <3>1. /\ j \in 1..Len(u) /\ i = Len(s \o t) + j
          /\ Len(t) + j \in 1..Len(t \o u) /\ i = Len(s) + (Len(t) + j)
      BY <1>1, <1>2, <2>3
    <3> HIDE DEF j
    <3>2. a[i] = u[j]
      BY <1>1, <3>1, Join
    <3>3. b[i] = (t \o u)[Len(t) + j]
      BY <1>1, <3>1, Join
    <3>4. (t \o u)[Len(t) + j] = u[j]
      BY <3>1, Join
    <3> QED
      BY <3>2, <3>3, <3>4
  <2> QED
    BY <1>1, <1>2, <2>1, <2>2, <2>3
<1> HIDE DEF a, b
<1>4. a = b
  BY <1>2, <1>3, SameSequence
<1> QED
  BY <1>4 DEF a, b

\* A part that two sequences have in common.
LEMMA SamePart ==
    ASSUME NEW s, NEW t, MT!IsSequence(s), MT!IsSequence(t), NEW a \in Nat \ {0}, NEW b \in Nat,
           b <= Len(s), b <= Len(t), \A i \in a..b : s[i] = t[i]
    PROVE  SubSeq(s, a, b) = SubSeq(t, a, b)
<1> DEFINE u == SubSeq(s, a, b)
           v == SubSeq(t, a, b)
<1>1. /\ MT!IsSequence(u) /\ Len(u) = IF a <= b THEN b + 1 - a ELSE 0
      /\ \A i \in 1..(b + 1 - a) : u[i] = s[a + i - 1]
  BY Part
<1>2. /\ MT!IsSequence(v) /\ Len(v) = IF a <= b THEN b + 1 - a ELSE 0
      /\ \A i \in 1..(b + 1 - a) : v[i] = t[a + i - 1]
  BY Part
<1> HIDE DEF u, v
<1>3. ASSUME NEW i \in 1..Len(u) PROVE u[i] = v[i]
  <2>1. i \in 1..(b + 1 - a) /\ a + i - 1 \in a..b
    BY <1>1
  <2> QED
    BY <1>1, <1>2, <2>1
<1>4. u = v
  BY <1>1, <1>2, <1>3, SameSequence
<1> QED
  BY <1>4 DEF u, v

\* What is packed for a command is its code, the number of bytes it asks for, and
\* these.
Means(c) ==
    LET m == MT!Meaning(c)
    IN MT!IsSequence(m.bytes) /\ MT!Packed(c).bytes = <<m.code, Len(m.bytes)>> \o m.bytes

\* The bytes of a colour, a line or a rectangle, and a text are what Meaning says.
LEMMA ColorMeans ==
    ASSUME NEW code, NEW arg, MT!Color(code, arg).hr = "S_OK"
    PROVE  ~MT!IsArray(arg) /\ MT!Color(code, arg).bytes = <<code, 1>> \o <<arg.val>>
<1>1. MT!ToByte(arg) = "S_OK" /\ MT!Color(code, arg).bytes = <<code, 1, arg.val>>
  BY DEF MT!Color, MT!Rejected
<1>2. ~MT!IsArray(arg)
  BY <1>1 DEF MT!ToByte, MT!IsArray
<1> QED
  BY <1>1, <1>2

LEMMA ShapeMeans ==
    ASSUME NEW code, NEW arg, MT!Shape(code, arg).hr = "S_OK", MT!WholeArray(arg),
           arg.vt # "VARIANT"
    PROVE  /\ arg.vt = "UI1"
           /\ MT!Shape(code, arg).bytes =
                <<code, 4>> \o <<arg.val[1].val, arg.val[2].val, arg.val[3].val, arg.val[4].val>>
<1> DEFINE sub == MT!BytesOf(arg, 4)
<1>1. ~(Len(sub) < 4) /\ MT!Shape(code, arg).bytes = <<code, 4>> \o [i \in 1..4 |-> sub[i].val]
  BY DEF MT!Shape, MT!Rejected
<1>2. arg.vt = "UI1"
  <2> SUFFICES ASSUME arg.vt # "UI1" PROVE FALSE
    OBVIOUS
  <2>1. sub = <<arg>> \/ sub = <<>>
    BY DEF MT!IsArray, MT!BytesOf
  <2> QED
    BY <1>1, <2>1
<1>3. MT!IsSequence(arg.val)
  BY <1>2 DEF MT!WholeArray, MT!Whole
<1>4. Len(arg.val) \in Nat
  BY <1>3 DEF MT!IsSequence
<1>5. sub = SubSeq(arg.val, 1, IF Len(arg.val) < 4 THEN Len(arg.val) ELSE 4)
  BY <1>2 DEF MT!BytesOf, MT!IsArray
<1>6. ~(Len(arg.val) < 4)
  BY <1>1, <1>3, <1>4, <1>5, Part
<1>7. sub = SubSeq(arg.val, 1, 4)
  BY <1>5, <1>6
<1>8. \A i \in 1..4 : sub[i] = arg.val[i]
  BY <1>3, <1>4, <1>6, <1>7, Part
<1>9. [i \in 1..4 |-> sub[i].val] = [i \in 1..4 |-> arg.val[i].val]
  BY <1>8
<1>10. [i \in 1..4 |-> arg.val[i].val]
         = <<arg.val[1].val, arg.val[2].val, arg.val[3].val, arg.val[4].val>>
  OBVIOUS
<1> QED
  BY <1>1, <1>2, <1>9, <1>10

StringBytes(items) ==
    LET text == items[1].val
    IN <<items[2].val, items[3].val, items[4].val, Len(text)>> \o text \o <<0>>
         \o [i \in DOMAIN text |-> items[5].val]

LEMMA StringMeans ==
    ASSUME NEW code, NEW arg, MT!String(code, arg).hr = "S_OK", MT!WholeArray(arg)
    PROVE  /\ arg.vt = "VARIANT" /\ MT!IsSequence(StringBytes(arg.val))
           /\ MT!String(code, arg).bytes
                = <<code, Len(StringBytes(arg.val))>> \o StringBytes(arg.val)
<1> DEFINE sub == MT!Variants(arg, 5)
           hrs == [i \in DOMAIN sub |-> IF i = 1 THEN MT!ToText(sub[i]) ELSE MT!ToByte(sub[i])]
           text == sub[1].val
           n == Len(text)
           attrs == [i \in 1..n |-> sub[5].val]
<1>1. /\ ~(Len(sub) < 5) /\ \A i \in 1..5 : hrs[i] = "S_OK"
      /\ MT!String(code, arg).bytes =
           <<code, MT!StringLength(n), sub[2].val, sub[3].val, sub[4].val, n>>
             \o text \o <<0>> \o attrs
  <2> DEFINE bad == {i \in 1..5 : hrs[i] # "S_OK"}
             long == <<code, MT!StringLength(n), sub[2].val, sub[3].val, sub[4].val, n>>
                       \o text \o <<0>> \o attrs
  <2>1. MT!String(code, arg) =
          IF Len(sub) < 5 THEN MT!Rejected("INVALIDARG")
          ELSE IF bad # {} THEN MT!Rejected(hrs[CHOOSE i \in bad : \A j \in bad : i <= j])
          ELSE IF Room < Len(data) + MT!StringLength(n) + 2 THEN MT!Rejected("OUTOFMEMORY")
          ELSE [hr |-> "S_OK", bytes |-> long]
    BY DEF MT!String
  <2> DEFINE h == hrs[CHOOSE i \in bad : \A j \in bad : i <= j]
  <2> HIDE DEF sub, hrs, text, n
  <2>2. bad # {} => h # "S_OK"
    <3> SUFFICES ASSUME bad # {} PROVE h # "S_OK"
      OBVIOUS
    <3>1. bad \in SUBSET Nat /\ \A i \in bad : hrs[i] # "S_OK"
      OBVIOUS
    <3> HIDE DEF bad
    <3>2. \E i \in bad : \A j \in bad : i <= j
      BY <3>1, Least
    <3> QED
      BY <3>1, <3>2
  <2>3. bad = {} => \A i \in 1..5 : hrs[i] = "S_OK"
    OBVIOUS
  <2> HIDE DEF bad, h, long
  <2>4. MT!Rejected("INVALIDARG").hr # "S_OK" /\ MT!Rejected("OUTOFMEMORY").hr # "S_OK"
        /\ MT!Rejected(h).hr = h
    BY DEF MT!Rejected
  <2>5. ~(Len(sub) < 5) /\ bad = {} /\ MT!String(code, arg) = [hr |-> "S_OK", bytes |-> long]
    BY <2>1, <2>2, <2>4 DEF h
  <2>6. MT!String(code, arg).bytes = long
    BY <2>5
  <2> QED
    BY <2>3, <2>5, <2>6, Zenon DEF long
<1>2. arg.vt = "VARIANT"
  <2> SUFFICES ASSUME arg.vt # "VARIANT" PROVE FALSE
    OBVIOUS
  <2>1. CASE arg.vt = "UI1"
    <3>1. MT!IsSequence(arg.val) /\ Len(arg.val) \in Nat
      BY <2>1 DEF MT!WholeArray, MT!Whole, MT!IsSequence
    <3> DEFINE k == IF Len(arg.val) < 5 THEN Len(arg.val) ELSE 5
    <3>2. CASE k > 1
      <4>1. sub = [i \in 1..k |-> IF i = 1 THEN MT!Garbled ELSE MT!Empty]
        BY <2>1, <3>2 DEF MT!Variants, MT!IsArray
      <4>2. hrs[1] = MT!ToText(MT!Garbled) /\ 1 \in DOMAIN sub
        BY <3>1, <3>2, <4>1
      <4> QED
        BY <1>1, <4>2 DEF MT!ToText, MT!Garbled
    <3>3. CASE ~(k > 1)
      <4>1. sub = SubSeq(arg.val, 1, k)
        BY <2>1, <3>3 DEF MT!Variants, MT!IsArray
      <4>2. Len(sub) <= 1
        BY <3>1, <3>3, <4>1, Part
      <4> QED
        BY <1>1, <4>2
    <3> QED
      BY <3>2, <3>3
  <2>2. CASE arg.vt # "UI1"
    <3>1. sub = <<arg>>
      BY <2>2 DEF MT!Variants, MT!IsArray
    <3> QED
      BY <1>1, <3>1
  <2> QED
    BY <2>1, <2>2
<1>3. /\ MT!IsSequence(arg.val) /\ Len(arg.val) \in Nat
      /\ \A i \in DOMAIN arg.val : MT!Whole(arg.val[i])
  BY <1>2 DEF MT!WholeArray, MT!Whole, MT!IsSequence, MT!IsArray
<1>4. sub = SubSeq(arg.val, 1, IF Len(arg.val) < 5 THEN Len(arg.val) ELSE 5)
  BY <1>2 DEF MT!Variants, MT!IsArray
<1> HIDE DEF sub
<1>5. Len(arg.val) >= 5
  BY <1>1, <1>3, <1>4, Part
<1>6. sub = SubSeq(arg.val, 1, 5)
  BY <1>4, <1>5, <1>3
<1>7. /\ MT!IsSequence(sub) /\ Len(sub) = 5
      /\ \A i \in 1..5 : sub[i] = arg.val[i]
  BY <1>3, <1>5, <1>6, Part
<1>8. DOMAIN sub = 1..5 /\ DOMAIN arg.val = 1..Len(arg.val)
  BY <1>3, <1>7 DEF MT!IsSequence
<1>9. sub[1].vt = "BSTR"
  <2>1. hrs[1] = "S_OK" /\ hrs[1] = MT!ToText(sub[1])
    BY <1>1, <1>8
  <2> QED
    BY <2>1 DEF MT!ToText
<1>10. MT!IsSequence(text) /\ n \in Nat /\ Len(text) = n /\ DOMAIN text = 1..n
  <2>1. MT!Whole(arg.val[1]) /\ sub[1] = arg.val[1]
    BY <1>3, <1>5, <1>7, <1>8
  <2> QED
    BY <1>9, <2>1 DEF MT!Whole, MT!IsSequence
<1> DEFINE head == <<sub[2].val, sub[3].val, sub[4].val, n>>
           rest == head \o text \o <<0>> \o attrs
<1>11. rest = StringBytes(arg.val)
  <2>1. text = arg.val[1].val /\ head = <<arg.val[2].val, arg.val[3].val, arg.val[4].val, n>>
    BY <1>7
  <2>2. attrs = [i \in DOMAIN text |-> arg.val[5].val]
    BY <1>7, <1>10
  <2> HIDE DEF head, attrs, text
  <2> QED
    BY <2>1, <2>2 DEF StringBytes
<1> HIDE DEF hrs
<1>12. MT!IsSequence(head) /\ Len(head) = 4 /\ MT!IsSequence(<<0>>) /\ Len(<<0>>) = 1
  BY DEF MT!IsSequence
<1>13. MT!IsSequence(attrs) /\ Len(attrs) = n
  BY <1>10 DEF MT!IsSequence
<1> DEFINE top == <<code, MT!StringLength(n)>>
           long == <<code, MT!StringLength(n), sub[2].val, sub[3].val, sub[4].val, n>>
<1>14. long = top \o head /\ MT!IsSequence(top)
  BY DEF MT!IsSequence
<1> HIDE DEF head, long, attrs, text, n
<1>15. MT!IsSequence(head \o text) /\ Len(head \o text) = 4 + n
  <2>1. MT!IsSequence(head \o text) /\ Len(head \o text) = Len(head) + Len(text)
    BY <1>10, <1>12, Join, Zenon
  <2> QED
    BY <1>10, <1>12, <2>1
<1>16. MT!IsSequence(head \o text \o <<0>>) /\ Len(head \o text \o <<0>>) = 5 + n
  BY <1>12, <1>15, <1>10, Join
<1>17. MT!IsSequence(rest) /\ Len(rest) = 5 + n + n
  BY <1>13, <1>16, <1>10, Join
<1>18. (top \o head) \o text \o <<0>> \o attrs = top \o rest
  <2>1. (top \o head) \o text = top \o (head \o text)
    BY <1>10, <1>12, <1>14, JoinAssoc
  <2>2. (top \o (head \o text)) \o <<0>> = top \o (head \o text \o <<0>>)
    BY <1>12, <1>14, <1>15, JoinAssoc
  <2>3. (top \o (head \o text \o <<0>>)) \o attrs = top \o rest
    BY <1>13, <1>14, <1>16, JoinAssoc
  <2> QED
    BY <2>1, <2>2, <2>3
<1>19. MT!StringLength(n) = Len(rest)
  BY <1>10, <1>17 DEF MT!StringLength
<1>20. MT!String(code, arg).bytes = top \o rest
  BY <1>1, <1>14, <1>18, Zenon DEF long
<1> HIDE DEF rest
<1> QED
  BY <1>2, <1>11, <1>17, <1>19, <1>20

LEMMA PackedMeans ==
    ASSUME NEW c, MT!Command(c), MT!Packed(c).hr = "S_OK"
    PROVE  Means(c)
<1> DEFINE par == MT!Variants(c, 2)
           k == IF Len(c.val) < 2 THEN Len(c.val) ELSE 2
<1>1. /\ MT!IsArray(c) /\ ~(Len(par) < 2) /\ MT!ToByte(par[1]) = "S_OK"
      /\ \/ /\ par[1].val \in {"COLOR_FG", "COLOR_BG", "COLOR_FILL"}
            /\ MT!Packed(c) = MT!Color(par[1].val, par[2])
         \/ /\ par[1].val = "DRAW_STRING"
            /\ MT!Packed(c) = MT!String(par[1].val, par[2])
         \/ /\ par[1].val \in {"DRAW_LINE", "DRAW_RECT"}
            /\ MT!Packed(c) = MT!Shape(par[1].val, par[2])
  <2> HIDE DEF par
  <2> QED
    BY DEF MT!Packed, MT!Rejected, par
<1>2. /\ MT!IsSequence(c.val) /\ Len(c.val) \in Nat
      /\ \A i \in 1..Len(c.val) : MT!WholeArray(c.val[i])
  <2>1. MT!IsSequence(c.val)
    BY <1>1 DEF MT!Command, MT!WholeArray, MT!Whole, MT!IsArray
  <2>2. Len(c.val) \in Nat /\ DOMAIN c.val = 1..Len(c.val)
    BY <2>1 DEF MT!IsSequence
  <2> QED
    BY <1>1, <2>1, <2>2 DEF MT!Command
<1>3. ~(c.vt = "UI1" /\ k > 1)
  <2> SUFFICES ASSUME c.vt = "UI1", k > 1 PROVE FALSE
    OBVIOUS
  <2>1. par = [i \in 1..k |-> IF i = 1 THEN MT!Garbled ELSE MT!Empty]
    BY <1>1 DEF MT!Variants
  <2>2. par[1] = MT!Garbled
    BY <1>2, <2>1
  <2>3. MT!ToByte(MT!Garbled) # "S_OK"
    BY DEF MT!ToByte, MT!Garbled
  <2> HIDE DEF par
  <2> QED
    BY <1>1, <2>2, <2>3
<1>4. par = SubSeq(c.val, 1, k)
  BY <1>1, <1>3 DEF MT!Variants
<1> HIDE DEF par
<1>5. Len(par) = k
  BY <1>2, <1>4, Part
<1>6. k = 2 /\ Len(c.val) >= 2 /\ c.vt = "VARIANT"
  BY <1>1, <1>2, <1>3, <1>5 DEF MT!IsArray
<1>7. par[1] = c.val[1] /\ par[2] = c.val[2] /\ MT!WholeArray(c.val[2])
  BY <1>2, <1>4, <1>6, Part
<1> DEFINE code == c.val[1].val
           arg == c.val[2]
<1> HIDE DEF code, arg
<1>8. CASE MT!Packed(c) = MT!Color(code, arg)
  <2>1. ~MT!IsArray(arg) /\ MT!Packed(c).bytes = <<code, 1>> \o <<arg.val>>
    BY <1>8, ColorMeans
  <2>2. MT!Meaning(c) = [code |-> code, bytes |-> <<arg.val>>]
    BY <2>1 DEF MT!Meaning, code, arg
  <2>3. MT!IsSequence(<<arg.val>>) /\ Len(<<arg.val>>) = 1
    BY DEF MT!IsSequence
  <2>4. MT!Meaning(c).code = code /\ MT!Meaning(c).bytes = <<arg.val>>
    BY <2>2
  <2> QED
    BY <2>1, <2>3, <2>4, Zenon DEF Means
<1>9. CASE MT!Packed(c) = MT!String(code, arg)
  <2>1. MT!String(code, arg).hr = "S_OK" /\ MT!WholeArray(arg)
    BY <1>7, <1>9 DEF arg
  <2>2. /\ arg.vt = "VARIANT" /\ MT!IsSequence(StringBytes(arg.val))
        /\ MT!Packed(c).bytes = <<code, Len(StringBytes(arg.val))>> \o StringBytes(arg.val)
    BY <1>9, <2>1, StringMeans
  <2>3. MT!Meaning(c) = [code |-> code, bytes |-> StringBytes(arg.val)]
    BY <2>2 DEF MT!Meaning, MT!IsArray, StringBytes, code, arg
  <2>4. MT!Meaning(c).code = code /\ MT!Meaning(c).bytes = StringBytes(arg.val)
    BY <2>3
  <2> QED
    BY <2>2, <2>4, Zenon DEF Means
<1>10. CASE code \in {"DRAW_LINE", "DRAW_RECT"} /\ MT!Packed(c) = MT!Shape(code, arg)
  <2> DEFINE bytes == <<arg.val[1].val, arg.val[2].val, arg.val[3].val, arg.val[4].val>>
  <2>1. arg.vt # "VARIANT"
    BY <1>6, <1>10, <1>2 DEF MT!Command, code, arg
  <2>2. arg.vt = "UI1" /\ MT!Packed(c).bytes = <<code, 4>> \o bytes
    <3>1. MT!Shape(code, arg).hr = "S_OK" /\ MT!WholeArray(arg)
      BY <1>7, <1>10 DEF arg
    <3> QED
      BY <1>10, <2>1, <3>1, ShapeMeans
  <2>3. MT!Meaning(c) = [code |-> code, bytes |-> bytes]
    BY <2>2 DEF MT!Meaning, MT!IsArray, code, arg
  <2>4. MT!IsSequence(bytes) /\ Len(bytes) = 4
    BY DEF MT!IsSequence
  <2> HIDE DEF bytes
  <2>5. MT!Meaning(c).code = code /\ MT!Meaning(c).bytes = bytes
    BY <2>3
  <2> QED
    BY <2>2, <2>4, <2>5, Zenon DEF Means
<1> QED
  BY <1>1, <1>7, <1>8, <1>9, <1>10 DEF code, arg
-----------------------------------------------------------------------------
\* A packet is the first n of the commands, and they end where end says.
Fits(bytes, commands, end, n) ==
    /\ end \in [0..n -> Nat] /\ end[0] = 0 /\ end[n] = Len(bytes)
    /\ \A i \in 1..n :
         /\ end[i - 1] + 2 <= end[i] /\ end[i] <= Len(bytes)
         /\ bytes[end[i - 1] + 2] = end[i] - end[i - 1] - 2
         /\ MT!Meaning(commands[i]) = [code |-> bytes[end[i - 1] + 1],
                                       bytes |-> SubSeq(bytes, end[i - 1] + 3, end[i])]

\* One more command behind a packet that fits.
LEMMA OneMoreFits ==
    ASSUME NEW n \in Nat, NEW commands, NEW end, NEW old, MT!IsSequence(old),
           Fits(old, commands, end, n), NEW code, NEW body, MT!IsSequence(body),
           MT!Meaning(commands[n + 1]) = [code |-> code, bytes |-> body]
    PROVE  LET new == old \o (<<code, Len(body)>> \o body)
           IN MT!IsSequence(new) /\ \E to : Fits(new, commands, to, n + 1)
<1> DEFINE m == Len(body)
           k == Len(old)
           top == <<code, m>>
           more == top \o body
           new == old \o more
           to == [i \in 0..n + 1 |-> IF i = n + 1 THEN k + 2 + m ELSE end[i]]
<1>1. MT!IsSequence(top) /\ Len(top) = 2 /\ top[1] = code /\ top[2] = m
  BY DEF MT!IsSequence
<1>2. m \in Nat /\ k \in Nat /\ Len(body) = m /\ Len(old) = k
  BY DEF MT!IsSequence
<1> HIDE DEF top, m, k
<1>3. /\ MT!IsSequence(more) /\ Len(more) = 2 + m /\ more[1] = code /\ more[2] = m
      /\ \A i \in 1..m : more[2 + i] = body[i]
  <2>1. /\ MT!IsSequence(more) /\ Len(more) = Len(top) + Len(body)
        /\ \A i \in 1..Len(top) : more[i] = top[i]
        /\ \A i \in 1..Len(body) : more[Len(top) + i] = body[i]
    <3>1. MT!IsSequence(top)
      BY <1>1
    <3> QED
      BY <3>1, Join
  <2> QED
    BY <1>1, <1>2, <2>1
<1> HIDE DEF more
<1>4. /\ MT!IsSequence(new) /\ Len(new) = k + Len(more)
      /\ \A i \in 1..k : new[i] = old[i]
      /\ \A i \in 1..Len(more) : new[k + i] = more[i]
  <2>1. MT!IsSequence(more)
    BY <1>3
  <2>2. /\ MT!IsSequence(new) /\ Len(new) = Len(old) + Len(more)
        /\ \A i \in 1..Len(old) : new[i] = old[i]
        /\ \A i \in 1..Len(more) : new[Len(old) + i] = more[i]
    BY <2>1, Join
  <2> HIDE DEF new
  <2> QED
    BY <1>2, <2>2
<1> HIDE DEF new
<1>5. Len(new) = k + 2 + m /\ new[k + 1] = code /\ new[k + 2] = m
  BY <1>2, <1>3, <1>4
<1>6. SubSeq(new, k + 3, k + 2 + m) = body
  <2> DEFINE a == k + 3
             b == k + 2 + m
             sub == SubSeq(new, a, b)
  <2>1. a \in Nat \ {0} /\ b \in Nat /\ b <= Len(new) /\ a = k + 3 /\ b = k + 2 + m
    BY <1>2, <1>5
  <2> HIDE DEF a, b
  <2>2. /\ MT!IsSequence(sub) /\ Len(sub) = IF a <= b THEN b + 1 - a ELSE 0
        /\ \A i \in 1..(b + 1 - a) : sub[i] = new[a + i - 1]
    <3>1. MT!IsSequence(new) /\ a \in Nat \ {0} /\ b \in Nat /\ b <= Len(new)
      BY <1>4, <2>1
    <3> QED
      BY <3>1, Part
  <2> HIDE DEF sub
  <2>3. Len(sub) = m /\ b + 1 - a = m
    BY <1>2, <2>1, <2>2
  <2>4. ASSUME NEW i \in 1..m PROVE sub[i] = body[i]
    <3>1. sub[i] = new[a + i - 1] /\ a + i - 1 = k + (2 + i) /\ 2 + i \in 1..Len(more)
      BY <1>2, <1>3, <2>1, <2>2, <2>3
    <3>2. new[k + (2 + i)] = more[2 + i] /\ more[2 + i] = body[i]
      BY <1>3, <1>4, <3>1
    <3> QED
      BY <3>1, <3>2
  <2>5. sub = body
    BY <1>2, <2>2, <2>3, <2>4, SameSequence
  <2> QED
    BY <2>5 DEF sub, a, b
<1>7. /\ to \in [0..n + 1 -> Nat] /\ to[0] = 0 /\ to[n + 1] = Len(new)
      /\ \A i \in 0..n : to[i] = end[i]
      /\ end[n] = k /\ end \in [0..n -> Nat]
  BY <1>2, <1>5 DEF Fits
<1> HIDE DEF to
<1>8. ASSUME NEW i \in 1..n + 1
      PROVE  /\ to[i - 1] + 2 <= to[i] /\ to[i] <= Len(new)
             /\ new[to[i - 1] + 2] = to[i] - to[i - 1] - 2
             /\ MT!Meaning(commands[i]) = [code |-> new[to[i - 1] + 1],
                                           bytes |-> SubSeq(new, to[i - 1] + 3, to[i])]
  <2>1. CASE i = n + 1
    <3>1. to[i - 1] = k /\ to[i] = k + 2 + m
      BY <1>5, <1>7, <2>1
    <3>2. MT!Meaning(commands[i]) = [code |-> new[k + 1], bytes |-> SubSeq(new, k + 3, k + 2 + m)]
      BY <1>5, <1>6, <2>1, Zenon
    <3>3. k + 2 <= k + 2 + m /\ m = (k + 2 + m) - k - 2 /\ k + 2 + m <= Len(new)
      BY <1>2, <1>5
    <3> QED
      BY <1>5, <3>1, <3>2, <3>3
  <2>2. CASE i \in 1..n
    <3> DEFINE a == end[i - 1]
               b == end[i]
    <3>1. a + 2 <= b /\ b <= k /\ old[a + 2] = b - a - 2 /\ a \in Nat /\ b \in Nat
      <4>1. i \in 0..n /\ i - 1 \in 0..n
        BY <2>2
      <4>2. a \in Nat /\ b \in Nat
        BY <1>7, <4>1
      <4> QED
        BY <1>2, <2>2, <4>2 DEF Fits
    <3>2. MT!Meaning(commands[i]) = [code |-> old[a + 1], bytes |-> SubSeq(old, a + 3, b)]
      BY <2>2, Zenon DEF Fits
    <3>3. to[i - 1] = a /\ to[i] = b
      BY <1>7, <2>2
    <3> HIDE DEF a, b
    <3>4. new[a + 1] = old[a + 1] /\ new[a + 2] = old[a + 2]
      BY <1>2, <1>4, <3>1
    <3>5. SubSeq(new, a + 3, b) = SubSeq(old, a + 3, b)
      <4>1. a + 3 \in Nat \ {0} /\ b <= Len(new) /\ b <= Len(old)
            /\ \A j \in a + 3..b : new[j] = old[j]
        BY <1>2, <1>4, <1>5, <3>1
      <4> QED
        BY <1>4, <3>1, <4>1, SamePart
    <3>6. MT!Meaning(commands[i]) = [code |-> new[a + 1], bytes |-> SubSeq(new, a + 3, b)]
      BY <3>2, <3>4, <3>5, Zenon
    <3> QED
      BY <1>2, <1>5, <3>1, <3>3, <3>4, <3>6
  <2> QED
    BY <2>1, <2>2
<1>9. Fits(new, commands, to, n + 1)
  BY <1>7, <1>8, Zenon DEF Fits
<1>10. new = old \o (<<code, Len(body)>> \o body)
  BY DEF new, more, top, m
<1> QED
  BY <1>4, <1>9, <1>10, Zenon

\* What the lengths in such a packet say is where the commands end.
LEMMA EndsAre ==
    ASSUME NEW n \in Nat, NEW bytes, NEW commands, NEW end, MT!IsSequence(bytes),
           Fits(bytes, commands, end, n)
    PROVE  \A i \in 0..n : MT!Ends(bytes, n)[i] = end[i]
<1> DEFINE F(e) == [i \in 0..n |-> IF i = 0 THEN 0
                                   ELSE IF Len(bytes) < e[i - 1] + 2 THEN Len(bytes) + 1
                                   ELSE e[i - 1] + 2 + bytes[e[i - 1] + 2]]
           ends == MT!Ends(bytes, n)
<1>1. Len(bytes) \in Nat
  BY DEF MT!IsSequence
<1>2. ASSUME NEW i \in 1..n
      PROVE  ~(Len(bytes) < end[i - 1] + 2) /\ end[i] = end[i - 1] + 2 + bytes[end[i - 1] + 2]
  <2>1. i \in 0..n /\ i - 1 \in 0..n
    OBVIOUS
  <2>2. end[i] \in Nat /\ end[i - 1] \in Nat
    BY <2>1 DEF Fits
  <2>3. /\ end[i - 1] + 2 <= end[i] /\ end[i] <= Len(bytes)
        /\ bytes[end[i - 1] + 2] = end[i] - end[i - 1] - 2
    BY DEF Fits
  <2> QED
    BY <1>1, <2>2, <2>3
<1>3. end = F(end)
  <2>1. end \in [0..n -> Nat] /\ end[0] = 0
    BY DEF Fits
  <2>2. \A i \in 0..n : end[i] = F(end)[i]
    BY <1>2, <2>1
  <2> QED
    BY <2>1, <2>2
<1>4. ends = CHOOSE e : e = F(e)
  BY DEF MT!Ends
<1> HIDE DEF F, ends
<1>5. ends = F(ends)
  BY <1>3, <1>4
<1>6. ends[0] = 0 /\ \A i \in 1..n : ends[i - 1] = end[i - 1] => ends[i] = end[i]
  <2>1. \A i \in 0..n : ends[i] = F(ends)[i]
    BY <1>5
  <2>2. \A i \in 0..n : F(ends)[i] = IF i = 0 THEN 0
                                     ELSE IF Len(bytes) < ends[i - 1] + 2 THEN Len(bytes) + 1
                                     ELSE ends[i - 1] + 2 + bytes[ends[i - 1] + 2]
    BY DEF F
  <2>3. ends[0] = 0
    BY <2>1, <2>2
  <2>4. ASSUME NEW i \in 1..n, ends[i - 1] = end[i - 1] PROVE ends[i] = end[i]
    <3>1. ends[i] = IF Len(bytes) < end[i - 1] + 2 THEN Len(bytes) + 1
                    ELSE end[i - 1] + 2 + bytes[end[i - 1] + 2]
      BY <2>1, <2>2, <2>4
    <3> QED
      BY <1>2, <3>1
  <2> QED
    BY <2>3, <2>4
<1> DEFINE T == {i \in 0..n : ends[i] # end[i]}
<1> SUFFICES ASSUME T # {} PROVE FALSE
  BY DEF ends
<1>7. PICK k \in T : \A j \in T : k <= j
  BY Least, T \in SUBSET Nat
<1>8. k \in 1..n
  BY <1>6, <1>7 DEF Fits
<1>9. k - 1 \in 0..n /\ k - 1 \notin T
  BY <1>7, <1>8
<1> QED
  BY <1>6, <1>7, <1>8, <1>9

\* n of the commands are packed.
Filled(n) ==
    /\ n \in 0..Len(asked) /\ Len(todo) = Len(asked) - n
    /\ \A i \in 1..Len(todo) : todo[i] = asked[n + i]
    /\ \E end : Fits(data, asked, end, n)

Packing ==
    /\ MT!IsSequence(asked) /\ MT!IsSequence(todo) /\ MT!IsSequence(data)
    /\ \A i \in 1..Len(asked) : MT!Command(asked[i])
    /\ \E n \in Nat : Filled(n)
    /\ packed.command = "MTP_DRAW" => by = "none" /\ packed.data = data

\* Only the empty sequence has no elements.
LEMMA EmptySequence ==
    /\ MT!IsSequence(<<>>) /\ Len(<<>>) = 0
    /\ \A s : MT!IsSequence(s) /\ s # <<>> => Len(s) > 0
<1>1. MT!IsSequence(<<>>) /\ Len(<<>>) = 0
  BY DEF MT!IsSequence
<1>2. ASSUME NEW s, MT!IsSequence(s), ~(Len(s) > 0) PROVE s = <<>>
  <2>1. Len(s) = 0 /\ 1..0 = {}
    BY <1>2 DEF MT!IsSequence
  <2> QED
    BY <1>1, <1>2, <2>1, SameSequence
<1> QED
  BY <1>1, <1>2

\* An empty packet is none of the commands.
LEMMA NoneFilled ==
    ASSUME NEW commands
    PROVE  \E end : Fits(<<>>, commands, end, 0)
<1> DEFINE end == [i \in 0..0 |-> 0]
<1>1. end \in [0..0 -> Nat] /\ end[0] = 0 /\ 1..0 = {}
  OBVIOUS
<1> HIDE DEF end
<1>2. Fits(<<>>, commands, end, 0)
  BY <1>1, EmptySequence DEF Fits
<1> QED
  BY <1>2

\* A call begins with an empty packet.
LEMMA Called ==
    ASSUME NEW caller, NEW commands, MT!Call(caller, commands), MT!IsSequence(commands),
           \A i \in 1..Len(commands) : MT!Command(commands[i])
    PROVE  Packing'
<1>1. /\ asked' = commands /\ todo' = commands /\ data' = <<>> /\ packed'.command # "MTP_DRAW"
  BY DEF MT!Call, MT!None
<1>2. Len(commands) \in Nat
  BY DEF MT!IsSequence
<1>3. \E end : Fits(data', asked', end, 0)
  BY <1>1, NoneFilled
<1>4. Filled(0)'
  BY <1>1, <1>2, <1>3 DEF Filled
<1> QED
  BY <1>1, <1>4, EmptySequence DEF Packing

\* A turn of the loop packs the next command or ends the call.
LEMMA PackedCommand ==
    ASSUME Packing, MT!PackCommand
    PROVE  Packing'
<1>1. PICK n \in Nat : Filled(n)
  BY DEF Packing
<1>2. PICK c : c = Head(todo)
  OBVIOUS
<1>3. Len(todo) > 0 /\ Len(todo) \in Nat /\ Len(asked) \in Nat
  BY EmptySequence DEF MT!PackCommand, Packing, MT!IsSequence
<1>4. c = todo[1]
  <2>1. todo \in Seq({todo[i] : i \in 1..Len(todo)})
    BY InSeq DEF Packing
  <2> QED
    BY <1>2, <1>3, <2>1
<1>5. n + 1 \in 1..Len(asked) /\ c = asked[n + 1] /\ MT!Command(c)
  BY <1>1, <1>3, <1>4 DEF Filled, Packing
<1>6. UNCHANGED <<asked, packed>> /\ by # "none" /\ packed.command # "MTP_DRAW"
  BY DEF MT!PackCommand, Packing
<1>7. CASE MT!Packed(c).hr # "S_OK"
  <2>1. UNCHANGED <<todo, data>>
    BY <1>2, <1>7 DEF MT!PackCommand
  <2>2. Filled(n)'
    BY <1>1, <1>6, <2>1 DEF Filled
  <2> QED
    BY <1>6, <2>1, <2>2 DEF Packing
<1>8. CASE MT!Packed(c).hr = "S_OK"
  <2> DEFINE code == MT!Meaning(c).code
             body == MT!Meaning(c).bytes
             more == <<code, Len(body)>> \o body
  <2>1. todo' = Tail(todo) /\ data' = data \o MT!Packed(c).bytes
    BY <1>2, <1>8 DEF MT!PackCommand
  <2>2. MT!IsSequence(body) /\ MT!Packed(c).bytes = more
    BY <1>5, <1>8, PackedMeans DEF Means
  <2>3. MT!Meaning(c) = [code |-> code, bytes |-> body]
    BY DEF MT!Meaning
  <2> HIDE DEF code, body
  <2>4. PICK end : Fits(data, asked, end, n)
    BY <1>1 DEF Filled
  <2>5. MT!IsSequence(data \o more) /\ \E to : Fits(data \o more, asked, to, n + 1)
    <3>1. MT!IsSequence(data) /\ MT!Meaning(asked[n + 1]) = [code |-> code, bytes |-> body]
      BY <1>5, <2>3 DEF Packing
    <3> QED
      BY <2>2, <2>4, <3>1, OneMoreFits
  <2>6. data' = data \o more
    BY <2>1, <2>2
  <2> HIDE DEF more
  <2>7. /\ MT!IsSequence(todo') /\ Len(todo') = Len(todo) - 1
        /\ \A i \in 1..Len(todo) - 1 : todo'[i] = todo[i + 1]
    <3> DEFINE S == {todo[i] : i \in 1..Len(todo)}
    <3>1. todo \in Seq(S)
      BY InSeq DEF Packing
    <3> HIDE DEF S
    <3>2. /\ Tail(todo) \in Seq(S) /\ Len(Tail(todo)) = Len(todo) - 1
          /\ \A i \in 1..Len(todo) - 1 : Tail(todo)[i] = todo[i + 1]
      BY <1>3, <3>1
    <3>3. MT!IsSequence(Tail(todo))
      BY <3>2, SeqIs
    <3> QED
      BY <2>1, <3>2, <3>3
  <2>8. MT!IsSequence(data') /\ \E to : Fits(data', asked', to, n + 1)
    BY <1>6, <2>5, <2>6
  <2>9. ASSUME NEW i \in 1..Len(todo') PROVE todo'[i] = asked'[(n + 1) + i]
    <3>1. i + 1 \in 1..Len(todo) /\ todo'[i] = todo[i + 1] /\ n + (i + 1) = (n + 1) + i
      BY <1>3, <2>7
    <3> QED
      BY <1>1, <1>6, <3>1 DEF Filled
  <2>10. n + 1 \in 0..Len(asked') /\ Len(todo') = Len(asked') - (n + 1)
    BY <1>1, <1>3, <1>5, <1>6, <2>7 DEF Filled
  <2>11. Filled(n + 1)'
    BY <2>8, <2>9, <2>10 DEF Filled
  <2> QED
    BY <1>6, <2>7, <2>8, <2>11 DEF Packing
<1> QED
  BY <1>7, <1>8

\* What DrawString, DrawLine and DrawRectangle make are commands.
LEMMA ColoredIs ==
    ASSUME NEW code, NEW b
    PROVE  MT!Command(MT!Colored(code, b))
<1> DEFINE c == MT!Colored(code, b)
           items == <<MT!Byte(code), MT!Byte(b)>>
<1>1. \A n : MT!Whole(MT!Byte(n)) /\ MT!WholeArray(MT!Byte(n))
  BY DEF MT!WholeArray, MT!Whole, MT!Byte, MT!IsArray
<1>2. MT!IsSequence(items) /\ DOMAIN items = 1..2 /\ \A i \in 1..2 : \E n : items[i] = MT!Byte(n)
  BY DEF MT!IsSequence
<1>3. c.vt = "UI1" /\ c.val = items
  BY DEF MT!Colored, MT!Array
<1> HIDE DEF c, items
<1>4. MT!WholeArray(c) /\ \A i \in DOMAIN c.val : MT!WholeArray(c.val[i])
  BY <1>1, <1>2, <1>3 DEF MT!WholeArray, MT!Whole
<1>5. MT!Command(c)
  BY <1>3, <1>4 DEF MT!Command
<1> QED
  BY <1>5 DEF c

LEMMA DrawnIs ==
    ASSUME NEW code, NEW arg, MT!WholeArray(arg),
           code \in {"DRAW_LINE", "DRAW_RECT"} => arg.vt # "VARIANT"
    PROVE  MT!Command(MT!Drawn(code, arg))
<1> DEFINE c == MT!Drawn(code, arg)
<1>1. /\ c.vt = "VARIANT" /\ c.val = <<MT!Byte(code), arg>>
      /\ MT!Byte(code).vt = "" /\ MT!Byte(code).val = code
  BY DEF MT!Drawn, MT!Array, MT!Byte
<1> HIDE DEF c
<1>2. /\ MT!IsSequence(c.val) /\ Len(c.val) = 2 /\ DOMAIN c.val = {1, 2}
      /\ c.val[1] = MT!Byte(code) /\ c.val[2] = arg
  <2> DEFINE items == <<MT!Byte(code), arg>>
  <2>1. /\ MT!IsSequence(items) /\ Len(items) = 2 /\ DOMAIN items = {1, 2}
        /\ items[1] = MT!Byte(code) /\ items[2] = arg
    BY DEF MT!IsSequence
  <2>2. c.val = items
    BY <1>1
  <2> QED
    BY <2>1, <2>2, Zenon
<1>3. MT!WholeArray(MT!Byte(code)) /\ MT!Whole(arg) /\ MT!Whole(MT!Byte(code))
  BY <1>1 DEF MT!WholeArray, MT!Whole, MT!IsArray
<1>4. MT!WholeArray(c)
  BY <1>1, <1>2, <1>3 DEF MT!WholeArray, MT!Whole
<1>5. MT!Command(c)
  BY <1>1, <1>2, <1>3, <1>4 DEF MT!Command
<1> QED
  BY <1>5 DEF c

LEMMA CornersAre ==
    ASSUME NEW arg \in MT!Corners
    PROVE  MT!WholeArray(arg) /\ arg.vt # "VARIANT"
<1>1. PICK x \in ByteArgs, y \in ByteArgs, v \in ByteArgs, w \in ByteArgs :
        arg = MT!Array("UI1", <<MT!Byte(x), MT!Byte(y), MT!Byte(v), MT!Byte(w)>>)
  BY DEF MT!Corners
<1> DEFINE items == <<MT!Byte(x), MT!Byte(y), MT!Byte(v), MT!Byte(w)>>
<1>2. \A b : MT!Whole(MT!Byte(b))
  BY DEF MT!Whole, MT!Byte
<1>3. MT!IsSequence(items) /\ DOMAIN items = 1..4 /\ \A i \in DOMAIN items : MT!Whole(items[i])
  BY <1>2 DEF MT!IsSequence
<1>4. arg.vt = "UI1" /\ arg.val = items
  BY <1>1 DEF MT!Array
<1> HIDE DEF items
<1> QED
  BY <1>3, <1>4 DEF MT!WholeArray, MT!Whole

LEMMA CalledTwo ==
    ASSUME NEW caller, NEW c, NEW d, MT!Call(caller, <<c, d>>), MT!Command(c), MT!Command(d)
    PROVE  Packing'
<1>1. MT!IsSequence(<<c, d>>) /\ \A i \in 1..Len(<<c, d>>) : MT!Command(<<c, d>>[i])
  BY DEF MT!IsSequence
<1> QED
  BY <1>1, Called

LEMMA CalledThree ==
    ASSUME NEW caller, NEW c, NEW d, NEW e, MT!Call(caller, <<c, d, e>>),
           MT!Command(c), MT!Command(d), MT!Command(e)
    PROVE  Packing'
<1>1. MT!IsSequence(<<c, d, e>>) /\ \A i \in 1..Len(<<c, d, e>>) : MT!Command(<<c, d, e>>[i])
  BY DEF MT!IsSequence
<1> QED
  BY <1>1, Called

LEMMA DrawingInvariant == ASSUME MT!Drawing PROVE MT!Spec => []Packing
<1>1. MT!Init => Packing
  <2> SUFFICES ASSUME MT!Init PROVE Packing
    OBVIOUS
  <2>1. asked = <<>> /\ todo = <<>> /\ data = <<>> /\ packed.command # "MTP_DRAW"
    BY DEF MT!Init, MT!None
  <2>2. \E end : Fits(data, asked, end, 0)
    BY <2>1, NoneFilled
  <2>3. Filled(0)
    BY <2>1, <2>2, EmptySequence DEF Filled
  <2> QED
    BY <2>1, <2>3, EmptySequence DEF Packing
<1>2. ASSUME Packing, [MT!Next]_(MT!vars) PROVE Packing'
  <2>1. CASE MT!TPComm_DrawMiniTP
    <3>1. PICK drawn \in Lists : MT!Call("DrawMiniTP", drawn)
      BY <2>1 DEF MT!TPComm_DrawMiniTP
    <3>2. MT!IsSequence(drawn) /\ \A i \in 1..Len(drawn) : MT!Command(drawn[i])
      BY DEF MT!Drawing, MT!IsSequence
    <3> QED
      BY <3>1, <3>2, Called
  <2>2. CASE MT!TPComm_DrawString
    <3>1. PICK s \in Texts, x \in ByteArgs, y \in ByteArgs, dots \in ByteArgs, attr \in ByteArgs,
               fg \in ByteArgs, bg \in ByteArgs :
            MT!Call("DrawString",
              <<MT!Colored("COLOR_FG", fg), MT!Colored("COLOR_BG", bg),
                MT!Drawn("DRAW_STRING",
                  MT!Array("VARIANT", <<MT!Bstr(s), MT!Byte(x), MT!Byte(y), MT!Byte(dots),
                                        MT!Byte(attr)>>))>>)
      BY <2>2 DEF MT!TPComm_DrawString
    <3> DEFINE items == <<MT!Bstr(s), MT!Byte(x), MT!Byte(y), MT!Byte(dots), MT!Byte(attr)>>
               arg == MT!Array("VARIANT", items)
    <3>2. MT!Whole(MT!Bstr(s)) /\ \A b : MT!Whole(MT!Byte(b))
      BY DEF MT!Drawing, MT!Whole, MT!Bstr, MT!Byte
    <3>3. MT!IsSequence(items) /\ DOMAIN items = 1..5 /\ \A i \in DOMAIN items : MT!Whole(items[i])
      BY <3>2 DEF MT!IsSequence
    <3> HIDE DEF items
    <3>4. MT!WholeArray(arg)
      BY <3>3 DEF MT!WholeArray, MT!Whole, MT!Array
    <3> HIDE DEF arg
    <3> DEFINE c == MT!Colored("COLOR_FG", fg)
               d == MT!Colored("COLOR_BG", bg)
               e == MT!Drawn("DRAW_STRING", arg)
    <3>5. MT!Command(c) /\ MT!Command(d) /\ MT!Command(e)
      BY <3>4, ColoredIs, DrawnIs
    <3>6. MT!Call("DrawString", <<c, d, e>>)
      BY <3>1 DEF arg, items
    <3> HIDE DEF c, d, e
    <3> QED
      BY <3>5, <3>6, CalledThree
  <2>3. CASE MT!TPComm_DrawLine
    <3>1. PICK ends \in MT!Corners, fg \in ByteArgs :
            MT!Call("DrawLine", <<MT!Colored("COLOR_FG", fg), MT!Drawn("DRAW_LINE", ends)>>)
      BY <2>3 DEF MT!TPComm_DrawLine
    <3> DEFINE c == MT!Colored("COLOR_FG", fg)
               d == MT!Drawn("DRAW_LINE", ends)
    <3>2. MT!Command(c) /\ MT!Command(d)
      BY ColoredIs, CornersAre, DrawnIs
    <3>3. MT!Call("DrawLine", <<c, d>>)
      BY <3>1
    <3> HIDE DEF c, d
    <3> QED
      BY <3>2, <3>3, CalledTwo
  <2>4. CASE MT!TPComm_DrawRectangle
    <3>1. PICK corners \in MT!Corners, fg \in ByteArgs, bg \in ByteArgs :
            MT!Call("DrawRectangle", <<MT!Colored("COLOR_FG", fg), MT!Colored("COLOR_BG", bg),
                                       MT!Drawn("DRAW_RECT", corners)>>)
      BY <2>4 DEF MT!TPComm_DrawRectangle
    <3> DEFINE c == MT!Colored("COLOR_FG", fg)
               d == MT!Colored("COLOR_BG", bg)
               e == MT!Drawn("DRAW_RECT", corners)
    <3>2. MT!Command(c) /\ MT!Command(d) /\ MT!Command(e)
      BY ColoredIs, CornersAre, DrawnIs
    <3>3. MT!Call("DrawRectangle", <<c, d, e>>)
      BY <3>1
    <3> HIDE DEF c, d, e
    <3> QED
      BY <3>2, <3>3, CalledThree
  <2>5. CASE MT!PackCommand
    BY <1>2, <2>5, PackedCommand
  <2>6. CASE MT!SendDrawing
    <3>1. /\ UNCHANGED <<asked, todo, data>> /\ by' = "none"
          /\ packed'.command = "MTP_DRAW" => packed'.data = data
      BY <1>2, <2>6 DEF MT!SendDrawing, Packing
    <3>2. ASSUME NEW n, Filled(n) PROVE Filled(n)'
      BY <3>1, <3>2 DEF Filled
    <3> QED
      BY <1>2, <3>1, <3>2 DEF Packing
  <2>7. CASE MT!TPComm_BEEP \/ MT!TPComm_LCD \/ MT!TPComm_LED
    <3>1. /\ UNCHANGED <<asked, todo, data>> /\ packed'.command # "MTP_DRAW"
      BY <2>7 DEF MT!TPComm_BEEP, MT!TPComm_LCD, MT!TPComm_LED, MT!Sends
    <3>2. ASSUME NEW n, Filled(n) PROVE Filled(n)'
      BY <3>1, <3>2 DEF Filled
    <3> QED
      BY <1>2, <3>1, <3>2 DEF Packing
  <2>8. CASE UNCHANGED MT!vars
    <3>1. UNCHANGED <<by, asked, todo, data, packed>>
      BY <2>8 DEF MT!vars
    <3>2. ASSUME NEW n, Filled(n) PROVE Filled(n)'
      BY <3>1, <3>2 DEF Filled
    <3> QED
      BY <1>2, <3>1, <3>2 DEF Packing
  <2> QED
    BY <1>2, <2>1, <2>2, <2>3, <2>4, <2>5, <2>6, <2>7, <2>8 DEF MT!Next
<1> QED
  BY <1>1, <1>2, PTL DEF MT!Spec

(***************************************************************************)
(* A packet that draws is all the commands of its call in their order, each*)
(* with its own length, for any commands and any room: the length that     *)
(* TPComm_DrawMiniTP writes before it knows what is behind it fits what it *)
(* packs there.                                                            *)
(***************************************************************************)
THEOREM PacketsDrawAsAsked == ASSUME MT!Drawing PROVE MT!Spec => []DrawnAsAsked
<1>1. Packing => DrawnAsAsked
  <2> SUFFICES ASSUME Packing, by = "none", todo = <<>>, packed.command = "MTP_DRAW"
               PROVE  MT!DrawnAsAsked
    BY DEF DrawnAsAsked, MT!DrawnAsAsked
  <2>1. PICK n \in Nat : Filled(n)
    BY DEF Packing
  <2>2. n = Len(asked) /\ DOMAIN asked = 1..n /\ packed.data = data /\ MT!IsSequence(data)
    BY <2>1, EmptySequence DEF Filled, Packing, MT!IsSequence
  <2>3. PICK end : Fits(data, asked, end, n)
    BY <2>1 DEF Filled
  <2> DEFINE ends == MT!Ends(data, n)
  <2>4. \A i \in 0..n : ends[i] = end[i]
    BY <2>2, <2>3, EndsAre
  <2> HIDE DEF ends
  <2>5. ends[n] = Len(data)
    BY <2>3, <2>4 DEF Fits
  <2>6. ASSUME NEW i \in 1..n
        PROVE  MT!Meaning(asked[i]) = [code |-> data[ends[i - 1] + 1],
                                       bytes |-> SubSeq(data, ends[i - 1] + 3, ends[i])]
    <3>1. i \in 0..n /\ i - 1 \in 0..n
      OBVIOUS
    <3>2. ends[i] = end[i] /\ ends[i - 1] = end[i - 1]
      BY <2>4, <3>1
    <3>3. MT!Meaning(asked[i]) = [code |-> data[end[i - 1] + 1],
                                  bytes |-> SubSeq(data, end[i - 1] + 3, end[i])]
      BY <2>3, Zenon DEF Fits
    <3> QED
      BY <3>2, <3>3, Zenon
  <2> QED
    BY <2>2, <2>5, <2>6, Zenon DEF MT!DrawnAsAsked, ends
<1> QED
  BY <1>1, DrawingInvariant, PTL
=============================================================================
