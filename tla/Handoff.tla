------------------------------- MODULE Handoff -------------------------------
(***************************************************************************)
(* How recv_thread of the b-CAP server hands a request to exec_thread and  *)
(* waits for it: receive_execute and exec_thread of bcap_server.c over the *)
(* events of dn_thread.c.  exec_evt resets itself, comp_evt and            *)
(* term_sub_evt do not; wait_event_multi waits for exec_evt and            *)
(* term_sub_evt in two threads of its own and takes the earlier of them.   *)
(*                                                                         *)
(* Requests are numbers in the order they come.  What is executed is       *)
(* bcap_callfunc, abstracted to the request it reads.  Waking up without a *)
(* signal, which POSIX allows, is left out.                                *)
(***************************************************************************)
EXTENDS Naturals

CONSTANT RequestMax     \* bound on the requests received, a natural number

VARIABLES
    signal,     \* which events are signalled
    rpc,        \* recv_thread: "idle", "reset", "set" and "wait" in
                \* receive_execute, "join" and "ended" after it
    requests,   \* requests received so far
    last,       \* last_recv, the request to execute
    epc,        \* exec_thread: "begin", "wait" (in wait_event_multi), "call",
                \* "done" or "ended"
    running,    \* the request bcap_callfunc began with
    waiter,     \* wait_event_multi: its threads, "poll", "got", "hit", "out"
    flagAll,    \* wait_event_multi: flag_all
    first,      \* wait_event_multi: the event with the earliest stamp
    answered    \* the request whose answer is in last_send

recvVars == <<rpc, requests, last>>
multiVars == <<waiter, flagAll, first>>
execVars == <<epc, running, answered>>
vars == <<signal, recvVars, execVars, multiVars>>

Events == {"exec_evt", "comp_evt", "term_sub_evt"}
Waited == {"exec_evt", "term_sub_evt"}

Init ==
    /\ signal = {"comp_evt"}
    /\ rpc = "idle" /\ requests = 0 /\ last = 0
    /\ epc = "begin" /\ running = 0 /\ answered = 0
    /\ waiter = [e \in Waited |-> "out"] /\ flagAll = FALSE /\ first = "none"

set_event(e) == signal' = signal \cup {e}
reset_event(e) == signal' = signal \ {e}
-----------------------------------------------------------------------------
(* recv_thread *)

\* Slip: the next request is taken while one is executed.
ReceiveBusy ==
    /\ rpc = "idle" /\ requests < RequestMax
    /\ requests' = requests + 1
    /\ last' = requests' /\ rpc' = "reset"
    /\ UNCHANGED <<signal, execVars, multiVars>>

\* A request is refused with E_BUSY_PROC while another is executed, and is
\* otherwise copied to last_recv.
Receive ==
    /\ rpc = "idle" /\ requests < RequestMax
    /\ requests' = requests + 1
    /\ IF "comp_evt" \in signal
         THEN last' = requests' /\ rpc' = "reset"
         ELSE UNCHANGED <<last, rpc>>
    /\ UNCHANGED <<signal, execVars, multiVars>>

ResetComp ==
    /\ rpc = "reset"
    /\ rpc' = "set"
    /\ reset_event("comp_evt")
    /\ UNCHANGED <<requests, last, execVars, multiVars>>

SetExec ==
    /\ rpc = "set"
    /\ rpc' = "wait"
    /\ set_event("exec_evt")
    /\ UNCHANGED <<requests, last, execVars, multiVars>>

\* The answer in last_send is sent.
Completed ==
    /\ rpc = "wait" /\ "comp_evt" \in signal
    /\ rpc' = "idle"
    /\ UNCHANGED <<signal, requests, last, execVars, multiVars>>

\* An S_EXECUTING could not be sent or InvokeTimeout is over: nobody waits for
\* the answer any more.
Abandon ==
    /\ rpc = "wait" /\ "comp_evt" \notin signal
    /\ rpc' = "idle"
    /\ UNCHANGED <<signal, requests, last, execVars, multiVars>>

\* term_main_evt, or an error of the line.
Terminate ==
    /\ rpc = "idle"
    /\ rpc' = "join"
    /\ set_event("term_sub_evt")
    /\ UNCHANGED <<requests, last, execVars, multiVars>>

Join ==
    /\ rpc = "join" /\ epc = "ended"
    /\ rpc' = "ended"
    /\ UNCHANGED <<signal, requests, last, execVars, multiVars>>
-----------------------------------------------------------------------------
(* exec_thread and wait_event_multi *)

\* Slip: exec_evt is reset before it is waited for.
BeginWaitReset ==
    /\ epc = "begin"
    /\ epc' = "wait"
    /\ waiter' = [e \in Waited |-> "poll"] /\ flagAll' = TRUE /\ first' = "none"
    /\ reset_event("exec_evt")
    /\ UNCHANGED <<recvVars, running, answered>>

BeginWait ==
    /\ epc = "begin"
    /\ epc' = "wait"
    /\ waiter' = [e \in Waited |-> "poll"] /\ flagAll' = TRUE /\ first' = "none"
    /\ UNCHANGED <<signal, recvVars, running, answered>>

\* wait_event of one millisecond succeeds, maybe after flag_all was cleared.
\* exec_evt is consumed whether or not wait_event_multi then returns it.
Got(e) ==
    /\ waiter[e] = "poll" /\ e \in signal
    /\ waiter' = [waiter EXCEPT ![e] = "got"]
    /\ IF e = "exec_evt" THEN reset_event(e) ELSE UNCHANGED signal
    /\ UNCHANGED <<recvVars, execVars, flagAll, first>>

\* The thread notes the time and ends the polling of the other.
Stamp(e) ==
    /\ waiter[e] = "got"
    /\ waiter' = [waiter EXCEPT ![e] = "hit"]
    /\ first' = IF first = "none" THEN e ELSE first
    /\ flagAll' = FALSE
    /\ UNCHANGED <<signal, recvVars, execVars>>

\* A thread that finds flag_all cleared ends without its event.
GiveUp(e) ==
    /\ waiter[e] = "poll" /\ ~flagAll
    /\ waiter' = [waiter EXCEPT ![e] = "out"]
    /\ UNCHANGED <<signal, recvVars, execVars, flagAll, first>>

\* wait_event_multi returns the event with the earliest stamp, and the first of
\* the list, exec_evt, when the milliseconds are the same.
Returned(e) ==
    /\ epc = "wait"
    /\ \A w \in Waited : waiter[w] \in {"hit", "out"}
    /\ waiter[e] = "hit"
    /\ first = e \/ e = "exec_evt"

CallBegin ==
    /\ Returned("exec_evt")
    /\ epc' = "call" /\ running' = last
    /\ UNCHANGED <<signal, recvVars, answered, multiVars>>

CallEnd ==
    /\ epc = "call"
    /\ epc' = "done" /\ answered' = last
    /\ UNCHANGED <<signal, recvVars, running, multiVars>>

SetComp ==
    /\ epc = "done"
    /\ epc' = "begin"
    /\ set_event("comp_evt")
    /\ UNCHANGED <<recvVars, running, answered, multiVars>>

ExecEnd ==
    /\ Returned("term_sub_evt")
    /\ epc' = "ended"
    /\ UNCHANGED <<signal, recvVars, running, answered, multiVars>>
-----------------------------------------------------------------------------
RecvThread == ResetComp \/ SetExec \/ Completed \/ Join
Waiter(e) == Got(e) \/ Stamp(e) \/ GiveUp(e)
ExecThread == BeginWait \/ CallBegin \/ CallEnd \/ SetComp \/ ExecEnd

Next ==
    \/ Receive \/ Abandon \/ Terminate \/ RecvThread
    \/ \E e \in Waited : Waiter(e)
    \/ ExecThread

\* No thread waits for a lock or for another one's decision: every one goes on.
Fairness ==
    /\ WF_vars(RecvThread) /\ WF_vars(ExecThread)
    /\ \A e \in Waited : WF_vars(Waiter(e))

Spec == Init /\ [][Next]_vars /\ Fairness
-----------------------------------------------------------------------------
(* Properties *)

TypeOK ==
    /\ signal \subseteq Events
    /\ rpc \in {"idle", "reset", "set", "wait", "join", "ended"}
    /\ requests \in 0..RequestMax
    /\ {last, running, answered} \subseteq 0..requests
    /\ epc \in {"begin", "wait", "call", "done", "ended"}
    /\ waiter \in [Waited -> {"poll", "got", "hit", "out"}]
    /\ flagAll \in BOOLEAN /\ first \in Waited \cup {"none"}

\* bcap_callfunc reads one request from its beginning to its end: last_recv is
\* never overwritten under it, also after recv_thread has stopped waiting for
\* it, and what is answered is what was received last.
RequestKept ==
    /\ epc = "call" => running = last
    /\ rpc = "wait" /\ "comp_evt" \in signal => answered = last
=============================================================================
