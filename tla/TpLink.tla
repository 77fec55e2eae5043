------------------------------- MODULE TpLink -------------------------------
(***************************************************************************)
(* One end of the ROBOTalk connection to a teach pendant                   *)
(* (TPComm/dn_tpcomm.c): the receiving thread, which keeps the state of the*)
(* connection and reports it to the application, the timer thread, which   *)
(* polls the other end and then waits for the receiving thread, the        *)
(* application's commands, and TPComm_Close, which ends both threads.  All *)
(* of them share one mutex, one auto-reset event and one byte of flags.    *)
(*                                                                         *)
(* The other end and the line are the environment: any packet, a timeout or*)
(* an error may come.  Time is abstracted to due (an interval is over).    *)
(* told is history: what the application was last told of the connection.  *)
(***************************************************************************)
EXTENDS Naturals

CONSTANT RetryTimeout   \* TP_RETRY_TIMEOUT, attempts after a timeout, a natural number

VARIABLES
    main,          \* TPComm_Open and TPComm_Close
    flags,         \* TP_FLAGS, bit-fields of one byte
    seen,          \* per thread, the byte it is about to change
    mutex,         \* who holds mutex: "none", "recv", "timer", "app"
    evt,           \* evt is signalled
    rpc,           \* recv_thread
    next,          \* recv_thread: the state receive_execute assigns, or "kept"
    tpc,           \* timer_thread
    tries,         \* the application in send_receive: retry_cnt
    told,          \* history: the last news the application got
    undone         \* history: a store has undone another thread's

recvVars == <<rpc, next, told>>
vars == <<main, flags, seen, mutex, evt, recvVars, tpc, tries, undone>>

States == {"TP_CONNECT", "TP_TPLESS", "TP_TPERROR"}

\* What tp_recv may come to.
Packets == {"ACK", "REJ", "REQ_ID", "OTHER"}
Failures == {"E_TIMEOUT", "E_ACCESSDENIED", "E_INVALIDPACKET"}

Bytes == [client : BOOLEAN, init : BOOLEAN, state : States, timer : BOOLEAN,
          recv : BOOLEAN]
Opened(c) == [client |-> c, init |-> FALSE, state |-> "TP_TPLESS",
              timer |-> TRUE, recv |-> FALSE]

Init ==
    /\ main = "closed"
    /\ flags = Opened(FALSE)
    /\ seen = [t \in {"main", "recv", "timer"} |-> Opened(FALSE)]
    /\ mutex = "none" /\ evt = FALSE
    /\ rpc = "ended" /\ next = "kept" /\ tpc = "ended"
    /\ tries = 0
    /\ told = "TP_DISCONNECT" /\ undone = FALSE

\* Assigning a bit-field reads the whole byte and later writes all of it: what
\* another thread has assigned in between is undone.
Load(t) == seen' = [seen EXCEPT ![t] = flags]
Store(t, field, value) ==
    /\ flags' = [seen[t] EXCEPT ![field] = value]
    /\ undone' = (undone \/ flags # seen[t])
    /\ seen' = [seen EXCEPT ![t] = Opened(FALSE)]
-----------------------------------------------------------------------------
(* The connection: TPComm_Open and TPComm_Close *)

\* The device opens, the flags are set, timer_thread begins.
TPComm_Open ==
    /\ main = "closed" /\ tries = 0
    /\ main' = "timer begun"
    /\ flags' \in {Opened(c) : c \in BOOLEAN}
    /\ evt' = FALSE
    /\ tpc' = "top" /\ rpc' = "ended" /\ next' = "kept"
    /\ told' = "TP_DISCONNECT" /\ undone' = FALSE
    /\ UNCHANGED <<seen, mutex, tries>>

\* recv_flag is assigned and recv_thread begins.
OpenRecvLoad ==
    /\ main = "timer begun"
    /\ main' = "opening"
    /\ Load("main")
    /\ UNCHANGED <<flags, mutex, evt, recvVars, tpc, tries, undone>>

OpenRecv ==
    /\ main = "opening"
    /\ main' = "open"
    /\ Store("main", "recv", TRUE)
    /\ rpc' = "top"
    /\ UNCHANGED <<next, told, mutex, evt, tpc, tries>>

\* Slip: both flags are cleared before the threads are joined.
CloseBoth ==
    /\ main = "close timer"
    /\ main' = "join timer"
    /\ flags' = [seen["main"] EXCEPT !.timer = FALSE, !.recv = FALSE]
    /\ undone' = (undone \/ flags # seen["main"])
    /\ UNCHANGED <<seen, mutex, evt, recvVars, tpc, tries>>

\* "Ends timer thread first", then the receiving thread: its flag is cleared
\* and it is joined.
TPComm_Close ==
    /\ main = "open" /\ tries = 0
    /\ main' = "close timer"
    /\ Load("main")
    /\ UNCHANGED <<flags, mutex, evt, recvVars, tpc, tries, undone>>

CloseTimer ==
    /\ main = "close timer"
    /\ main' = "join timer"
    /\ Store("main", "timer", FALSE)
    /\ UNCHANGED <<mutex, evt, recvVars, tpc, tries>>

JoinTimer ==
    /\ main = "join timer" /\ tpc = "ended"
    /\ main' = "close recv"
    /\ Load("main")
    /\ UNCHANGED <<flags, mutex, evt, recvVars, tpc, tries, undone>>

CloseRecv ==
    /\ main = "close recv"
    /\ main' = "join recv"
    /\ Store("main", "recv", FALSE)
    /\ UNCHANGED <<mutex, evt, recvVars, tpc, tries>>

\* The event is destroyed and the block is cleared.
JoinRecv ==
    /\ main = "join recv" /\ rpc = "ended"
    /\ main' = "closed"
    /\ flags' = Opened(FALSE) /\ evt' = FALSE
    /\ next' = "kept" /\ told' = "TP_DISCONNECT" /\ undone' = FALSE
    /\ UNCHANGED <<seen, mutex, rpc, tpc, tries>>
-----------------------------------------------------------------------------
(* recv_thread *)

RecvLock ==
    /\ rpc = "top" /\ flags.recv /\ mutex = "none"
    /\ rpc' = "recv" /\ mutex' = "recv"
    /\ UNCHANGED <<main, flags, seen, next, told, evt, tpc, tries, undone>>

\* The last thing recv_thread does is to signal evt.
RecvEnd ==
    /\ rpc = "top" /\ ~flags.recv
    /\ rpc' = "ended" /\ evt' = TRUE
    /\ UNCHANGED <<main, flags, seen, mutex, next, told, tpc, tries, undone>>

\* What receive_execute takes the connection for after tp_recv: a failure of
\* the line, or any packet but the request of an ID, changes it.
TmpState(r) ==
    CASE r = "E_ACCESSDENIED" -> "TP_TPLESS"
      [] r \in Failures \ {"E_ACCESSDENIED"} -> "TP_TPERROR"
      [] r = "REQ_ID" -> flags.state
      [] OTHER -> "TP_CONNECT"

\* Slip: a line that is gone is no news until the interval is over.
ReportLate(tmp, due) ==
    IF tmp = "TP_CONNECT"
      THEN next' = tmp /\ told' = "TP_CONNECT"
    ELSE IF flags.state = "TP_CONNECT" /\ (due \/ tmp = "TP_TPLESS")
      THEN next' = tmp /\ (IF due THEN told' = "TP_DISCONNECT"
                           ELSE UNCHANGED told)
    ELSE IF flags.state # "TP_CONNECT" /\ due
      THEN next' = tmp /\ told' = tmp
    ELSE next' = "kept" /\ UNCHANGED told

\* "Updates TP state": where the connection goes and what the application is
\* told of it.  It ends at once without a line, and after _TPERROR_TIMEOUT (due)
\* of errors; without one, news come every _TPLESS_INTERVAL (due).
Report(tmp, due) ==
    IF tmp = "TP_CONNECT"
      THEN next' = tmp /\ told' = "TP_CONNECT"
    ELSE IF flags.state = "TP_CONNECT" /\ (due \/ tmp = "TP_TPLESS")
      THEN next' = tmp /\ told' = "TP_DISCONNECT"
    ELSE IF flags.state # "TP_CONNECT" /\ due
      THEN next' = tmp /\ told' = tmp
    ELSE next' = "kept" /\ UNCHANGED told

\* receive_execute: one packet or failure, the callback, the answer to a packet
\* that is none, and the state.  Without the answer sent the state stays.
RecvExecute ==
    /\ rpc = "recv"
    /\ rpc' = "store"
    /\ \/ \E r \in Packets \cup Failures, due \in BOOLEAN : Report(TmpState(r), due)
       \/ next' = "kept" /\ UNCHANGED told
    /\ IF next' = "kept" THEN UNCHANGED seen ELSE Load("recv")
    /\ UNCHANGED <<main, flags, mutex, evt, tpc, tries, undone>>

RecvUnlock ==
    /\ rpc = "store"
    /\ rpc' = "signal"
    /\ \/ next # "kept" /\ Store("recv", "state", next)
       \/ next = "kept" /\ UNCHANGED <<flags, seen, undone>>
    /\ mutex' = "none"
    /\ UNCHANGED <<main, next, told, evt, tpc, tries>>

RecvSignal ==
    /\ rpc = "signal"
    /\ rpc' = "top"
    /\ evt' = TRUE /\ next' = "kept"
    /\ UNCHANGED <<main, flags, seen, mutex, told, tpc, tries, undone>>
-----------------------------------------------------------------------------
(* timer_thread *)

TimerLock ==
    /\ tpc = "top" /\ flags.timer /\ mutex = "none"
    /\ tpc' = "event" /\ mutex' = "timer"
    /\ Load("timer")
    /\ UNCHANGED <<main, flags, evt, recvVars, tries, undone>>

TimerEnd ==
    /\ tpc = "top" /\ ~flags.timer
    /\ tpc' = "ended"
    /\ UNCHANGED <<main, flags, seen, mutex, evt, recvVars, tries, undone>>

\* The packets timer_event sends and then waits for recv_thread: the request of
\* an ID of a client that is not connected, the ping of a server that is past
\* its initialisation and has a line.
Polls == IF flags.client THEN flags.state # "TP_CONNECT"
         ELSE flags.init /\ flags.state # "TP_TPLESS"

\* timer_event.  Nothing is sent before the interval is over, and nobody is
\* waited for when sending failed.  A client assigns init every time, a server
\* when it connects or its initialisation takes too long.
TimerEvent ==
    /\ tpc = "event"
    /\ mutex' = "none"
    /\ \/ ~flags.client /\ UNCHANGED <<flags, seen, undone>>
       \/ (flags.client \/ ~flags.init) /\ Store("timer", "init", TRUE)
    /\ \/ Polls /\ tpc' = "reset"
       \/ tpc' = "top"
    /\ UNCHANGED <<main, evt, recvVars, tries>>

TimerReset ==
    /\ tpc = "reset"
    /\ tpc' = "wait"
    /\ evt' = FALSE
    /\ UNCHANGED <<main, flags, seen, mutex, recvVars, tries, undone>>

\* wait_event without a limit; evt resets itself.
TimerWoken ==
    /\ tpc = "wait" /\ evt
    /\ tpc' = "top"
    /\ evt' = FALSE
    /\ UNCHANGED <<main, flags, seen, mutex, recvVars, tries, undone>>
-----------------------------------------------------------------------------
(* A command of the application: send_receive, tries - 1 is retry_cnt *)

AppLock ==
    /\ tries = 0 /\ main = "open"
    /\ flags.state # "TP_TPLESS" /\ mutex = "none"
    /\ tries' = 1 /\ mutex' = "app"
    /\ UNCHANGED <<main, flags, seen, evt, recvVars, tpc, undone>>

\* After a timeout the command is sent again, RetryTimeout times.
AppRetry ==
    /\ tries \in 1..RetryTimeout
    /\ tries' = tries + 1
    /\ UNCHANGED <<main, flags, seen, mutex, evt, recvVars, tpc, undone>>

\* A packet, an error, or the last timeout; or the command was not sent.
AppDone ==
    /\ tries > 0
    /\ tries' = 0 /\ mutex' = "none"
    /\ UNCHANGED <<main, flags, seen, evt, recvVars, tpc, undone>>
-----------------------------------------------------------------------------
RecvThread == RecvLock \/ RecvEnd \/ RecvExecute \/ RecvUnlock \/ RecvSignal
TimerThread == TimerLock \/ TimerEnd \/ TimerEvent \/ TimerReset \/ TimerWoken
Main == OpenRecvLoad \/ OpenRecv \/ CloseTimer \/ JoinTimer \/ CloseRecv \/ JoinRecv
App == AppLock \/ AppRetry \/ AppDone

Next == TPComm_Open \/ TPComm_Close \/ Main \/ RecvThread \/ TimerThread \/ App

\* Receiving ends by its timeout, so every thread goes on.  The threads sleep
\* between two uses of the mutex: one that keeps waiting for it gets it.
Fairness ==
    /\ WF_vars(Main) /\ WF_vars(RecvThread) /\ WF_vars(TimerThread)
    /\ WF_vars(AppDone)
    /\ SF_vars(RecvLock) /\ SF_vars(TimerLock)

Spec == Init /\ [][Next]_vars /\ Fairness
-----------------------------------------------------------------------------
(* Properties *)

TypeOK ==
    /\ main \in {"closed", "timer begun", "opening", "open", "close timer",
                 "join timer", "close recv", "join recv"}
    /\ flags \in Bytes /\ seen \in [{"main", "recv", "timer"} -> Bytes]
    /\ mutex \in {"none", "recv", "timer", "app"}
    /\ evt \in BOOLEAN /\ undone \in BOOLEAN
    /\ rpc \in {"top", "recv", "store", "signal", "ended"}
    /\ tpc \in {"top", "event", "reset", "wait", "ended"}
    /\ tries \in 0..(RetryTimeout + 1)
    /\ next \in States \cup {"kept"} /\ told \in States \cup {"TP_DISCONNECT"}

\* While the connection is open and whatever comes over the line, the news the
\* application got last is TP_CONNECT exactly when the state is: it is never
\* left believing in a connection that is gone, nor without news of one that is
\* back (receive_execute, tp_callfunc).
ReportedState ==
    main = "open" /\ rpc # "store"
      => (flags.state = "TP_CONNECT" <=> told = "TP_CONNECT")
=============================================================================
