------------------------------ MODULE BcapRpc -------------------------------
(***************************************************************************)
(* One remote procedure call of b-CAP over UDP, from both ends:            *)
(*                                                                         *)
(*   client  send_receive (bCAPClient/bcap_client.c): numbers the datagrams *)
(*           of a session with a serial that wraps, sends a request again   *)
(*           after each receive timeout, and accepts only the answer to the *)
(*           latest attempt;                                               *)
(*   server  receive_execute and exec_thread (bCAPServer/bcap_server.c): one*)
(*           receiving thread for all clients, which hands a request to one *)
(*           executing thread, says S_EXECUTING while it waits, gives up    *)
(*           after the execution timeout, and keeps the last answer of each *)
(*           client so that a retry is answered and not executed again;     *)
(*   network datagrams in flight, which the faults named in Faults lose,    *)
(*           reorder or duplicate.                                         *)
(*                                                                         *)
(* A call is known by the number of its first attempt.  The fields cl, att *)
(* and call of a datagram and the variables att, callId, begun, performed, *)
(* repeated and answered are history: the program does not have them and   *)
(* no guard of the program reads them.                                     *)
(***************************************************************************)
EXTENDS Integers, FiniteSets

CONSTANTS
    Clients,     \* the addresses calls come from
    Retry,       \* attempts of a call (bCap_SetRetry, 1..7)
    SerialMax,   \* the largest serial, 65535 in the code
    MaxClients,  \* children a UDP server keeps, BCAP_CLIENT_MAX
    MaxObjects,  \* objects a server keeps, BCAP_OBJECT_MAX
    Kinds,       \* functions called, see AllKinds
    Answers,     \* what the callbacks of the functions may return
    Faults,      \* what the environment may do, see AllFaults
    MaxCalls,    \* bound: calls of one client
    MaxWdt       \* S_EXECUTING messages of one execution: exec_timeout/wdt

Results == {"S_OK", "E_FUNC"}    \* a callback succeeds or fails
AllFaults == {"loseRequest", "loseReply", "reorder", "duplicate",
              "expire", "slow", "sendFails", "recvFails"}

\* ServiceStart, whose options may hold a time that is too small or one that
\* GetOptionValue cannot read, ServiceStop, and any other function.
AllKinds == {"start", "badOption", "unreadOption", "stop", "call"}

ASSUME RpcAssumption ==
    /\ Clients # {}
    /\ Retry \in Nat \ {0}
    /\ SerialMax \in Nat /\ Retry <= SerialMax
    /\ MaxClients \in Nat \ {0}
    /\ MaxObjects \in Nat
    /\ MaxCalls \in Nat
    /\ MaxWdt \in Nat \ {0}
    /\ Kinds \subseteq AllKinds
    /\ Answers \subseteq Results
    /\ Faults \subseteq AllFaults

VARIABLES
    cpc,        \* client: "idle", "send" (next attempt), "recv" (waiting)
    serial,     \* client: bcap_param->serial, the next serial to use
    sent,       \* client: packet_send->serial of the latest attempt
    reserv,     \* client: packet_send->reserv, first serial of the call
    tries,      \* client: attempts made in this call, retry_cnt
    kind,       \* client: the function called
    result,     \* client: what the last call returned, [id, call]
    reqs,       \* network: requests in flight
    reps,       \* network: replies in flight
    spc,        \* server: recv_thread in bcap_recv ("recv"), waiting for
                \* comp_evt ("wait"), leaving its loop ("ending") or "ended"
    comp,       \* server: comp_evt is signalled, the exec thread is free
    lastRecv,   \* server: bcap_param->last_recv
    lastSend,   \* server: bcap_param->last_send
    child,      \* server: the clients that have a child node
    rec,        \* server: last_send of the child of each client
    objs,       \* server: num_object, the created objects
    wdt,        \* server: S_EXECUTING sent for this execution
    att, callId, begun, performed, repeated, answered    \* history

clientVars == <<cpc, serial, sent, reserv, tries, kind, result, att, callId,
                begun>>
serverVars == <<spc, comp, lastRecv, lastSend, child, rec, objs, wdt,
                performed, repeated, answered>>
vars == <<clientVars, reqs, reps, serverVars>>

Refusals == {"E_BUSY_PROC", "E_MAX_CONNECT", "E_MAX_OBJECT", "E_INVALIDARG"}
Errors == {"E_TIMEOUT", "E_SEND"}    \* made up by the client itself
Blank == [serial |-> 0, id |-> "S_OK", att |-> 0, call |-> 0]
NoResult == [id |-> "none", call |-> 0]

Init ==
    /\ cpc = [c \in Clients |-> "idle"]
    /\ serial = [c \in Clients |-> 1]
    /\ sent = [c \in Clients |-> 0]
    /\ reserv = [c \in Clients |-> 0]
    /\ tries = [c \in Clients |-> 0]
    /\ kind = [c \in Clients |-> "call"]
    /\ result = [c \in Clients |-> NoResult]
    /\ reqs = {} /\ reps = {}
    /\ spc = "recv" /\ comp = TRUE
    /\ lastRecv = [cl |-> CHOOSE c \in Clients : TRUE, serial |-> 0,
                   reserv |-> 0, kind |-> "call", att |-> 0, call |-> 0]
    /\ lastSend = Blank
    /\ child = {}
    /\ rec = [c \in Clients |-> Blank]
    /\ objs = 0
    /\ wdt = 0
    /\ att = [c \in Clients |-> 0]
    /\ callId = [c \in Clients |-> 0]
    /\ begun = [c \in Clients |-> {}]
    /\ performed = {} /\ repeated = {} /\ answered = {}
-----------------------------------------------------------------------------
(* The client: send_receive *)

\* A thread enters send_receive with the mutex of the connection: one call of
\* a client at a time.
ClientCall(c) ==
    /\ cpc[c] = "idle"
    /\ Cardinality(begun[c]) < MaxCalls
    /\ \E k \in Kinds : kind' = [kind EXCEPT ![c] = k]
    /\ cpc' = [cpc EXCEPT ![c] = "send"]
    /\ tries' = [tries EXCEPT ![c] = 0]
    /\ reserv' = [reserv EXCEPT ![c] = serial[c]]
    /\ result' = [result EXCEPT ![c] = NoResult]
    /\ callId' = [callId EXCEPT ![c] = att[c] + 1]
    /\ begun' = [begun EXCEPT ![c] = @ \cup {att[c] + 1}]
    /\ UNCHANGED <<serial, sent, att, reqs, reps, serverVars>>

\* Slip: the wrap is left to the 16 bit counter, which passes through 0.
NextSerialZero(s) == (s + 1) % (SerialMax + 1)

\* bcap_param->serial++, skipping 0.
NextSerial(s) == IF s = SerialMax THEN 1 ELSE s + 1

\* Attempt b of a client is less than a cycle of serials before attempt a.
InCycle(a, b) == a - b < SerialMax

\* What the server still holds of client c and may match a serial against.
\* Bound: the client does not make a whole cycle of attempts none of which
\* reaches the server (65535 attempts in the code).
ServerInCycle(c) ==
    /\ rec[c] = Blank \/ InCycle(att[c] + 1, rec[c].call)
    /\ spc = "wait" /\ lastRecv.cl = c => InCycle(att[c] + 1, lastRecv.call)

\* Bound: a datagram does not outlive the cycle of serials its call began in.
Alive(msgs, c) == {m \in msgs : m.cl = c => InCycle(att[c] + 1, m.call)}

\* bcap_param->serial++ at the head of an attempt.
TakeSerial(c) ==
    /\ cpc[c] = "send"
    /\ ServerInCycle(c)
    /\ tries' = [tries EXCEPT ![c] = @ + 1]
    /\ sent' = [sent EXCEPT ![c] = serial[c]]
    /\ serial' = [serial EXCEPT ![c] = NextSerial(@)]
    /\ att' = [att EXCEPT ![c] = @ + 1]
    /\ reps' = Alive(reps, c)
    /\ UNCHANGED <<reserv, kind, callId, begun, serverVars>>

ClientSend(c) ==
    /\ TakeSerial(c)
    /\ reqs' = Alive(reqs, c) \cup
                 {[cl |-> c, serial |-> serial[c], reserv |-> reserv[c],
                   kind |-> kind[c], att |-> att[c] + 1, call |-> callId[c]]}
    /\ cpc' = [cpc EXCEPT ![c] = "recv"]
    /\ UNCHANGED result

\* A failed bcap_send ends the call, whatever tries are left.
ClientSendFails(c) ==
    /\ "sendFails" \in Faults
    /\ TakeSerial(c)
    /\ reqs' = Alive(reqs, c)
    /\ cpc' = [cpc EXCEPT ![c] = "idle"]
    /\ result' = [result EXCEPT ![c] = [id |-> "E_SEND", call |-> callId[c]]]

\* Slip: any final answer ends the call.
AcceptsFinal(c, r) == r.id # "S_EXECUTING"

\* The answers the loop leaves it with: the latest serial, and final.
Accepts(c, r) == r.serial = sent[c] /\ r.id # "S_EXECUTING"

\* A datagram taken from the network, of which a copy may be left behind.
Left(msgs, m) == {msgs \ {m}} \cup IF "duplicate" \in Faults THEN {msgs} ELSE {}

ClientAccept(c) ==
    /\ cpc[c] = "recv"
    /\ \E r \in reps :
          /\ r.cl = c
          /\ Accepts(c, r)
          /\ reps' \in Left(reps, r)
          /\ result' = [result EXCEPT ![c] = [id |-> r.id, call |-> r.call]]
    /\ cpc' = [cpc EXCEPT ![c] = "idle"]
    /\ UNCHANGED <<serial, sent, reserv, tries, kind, att, callId, begun, reqs,
                   serverVars>>

\* S_EXECUTING and answers to earlier attempts: the loop receives on.
ClientSkip(c) ==
    /\ cpc[c] = "recv"
    /\ \E r \in reps :
          /\ r.cl = c
          /\ ~Accepts(c, r)
          /\ reps' = reps \ {r}
    /\ UNCHANGED <<clientVars, reqs, serverVars>>

\* Slip: after the last attempt the loop goes on receiving.
ClientTimeoutLoops(c) ==
    /\ cpc[c] = "recv" /\ tries[c] < Retry
    /\ cpc' = [cpc EXCEPT ![c] = "send"]
    /\ UNCHANGED <<serial, sent, reserv, tries, kind, att, callId, begun, reqs,
                   reps, result, serverVars>>

\* No datagram within the receive timeout: the next attempt, or, after the
\* last one, the error of bcap_recv.
ClientTimeout(c) ==
    /\ cpc[c] = "recv"
    /\ IF tries[c] < Retry
       THEN /\ cpc' = [cpc EXCEPT ![c] = "send"]
            /\ UNCHANGED result
       ELSE /\ cpc' = [cpc EXCEPT ![c] = "idle"]
            /\ result' = [result EXCEPT ![c] =
                             [id |-> "E_TIMEOUT", call |-> callId[c]]]
    /\ UNCHANGED <<serial, sent, reserv, tries, kind, att, callId, begun, reqs,
                   reps, serverVars>>
-----------------------------------------------------------------------------
(* The network *)

LoseRequest ==
    /\ "loseRequest" \in Faults
    /\ \E m \in reqs : reqs' = reqs \ {m}
    /\ UNCHANGED <<clientVars, reps, serverVars>>

LoseReply ==
    /\ "loseReply" \in Faults
    /\ \E r \in reps : reps' = reps \ {r}
    /\ UNCHANGED <<clientVars, reqs, serverVars>>

\* Without reordering, the datagrams of one client arrive in sending order.
Deliverable(m) ==
    "reorder" \in Faults \/ \A n \in reqs : n.cl = m.cl => m.att <= n.att
-----------------------------------------------------------------------------
(* The server: receive_execute in the receiving thread *)

\* search_node, else check_lifelimit and ADD_CHILD: the sets of children the
\* server may hold once it has accepted client c.
Admissions(c) ==
    IF c \in child THEN {child}
    ELSE {(child \ E) \cup {c} :
             E \in {E \in SUBSET child :
                       /\ Cardinality(child \ E) < MaxClients
                       /\ E = {} \/ /\ "expire" \in Faults
                                    /\ Cardinality(child) >= MaxClients}}

\* A child node is created blank and lost with its node.
RecordsOf(ch) == [c \in Clients |-> IF c \in ch \cap child THEN rec[c] ELSE Blank]

\* Slip: a retry is looked up by its own serial.
FirstSerialOwn(m) == m.serial

\* The serial a retry is recognised by.
FirstSerial(m) == IF m.reserv = 0 THEN m.serial ELSE m.reserv

Respond(m, id, call) ==
    reps' = reps \cup {[cl |-> m.cl, serial |-> m.serial, id |-> id,
                        att |-> m.att, call |-> call]}

\* A send whose result receive_execute does not look at.
Tell(m, id, call) ==
    \/ Respond(m, id, call)
    \/ "sendFails" \in Faults /\ UNCHANGED reps

\* bcap_recv fails, other than by a timeout: recv_thread leaves its loop.
RecvFails ==
    /\ "recvFails" \in Faults
    /\ spc = "recv"
    /\ spc' = "ending"
    /\ UNCHANGED <<clientVars, reqs, reps, comp, lastRecv, lastSend, child, rec,
                   objs, wdt, performed, repeated, answered>>

Receive(m) ==
    /\ spc = "recv"
    /\ m \in reqs
    /\ Deliverable(m)
    /\ reqs' \in Left(reqs, m)
    /\ UNCHANGED clientVars

\* All children are taken and too few of them have expired.
SrvRefuseClient(m) ==
    /\ Receive(m)
    /\ m.cl \notin child
    /\ Cardinality(child) >= MaxClients
    /\ Tell(m, "E_MAX_CONNECT", m.call)
    /\ UNCHANGED serverVars

\* Slip: whatever the child answered last is taken for the answer.
SrvResendLast(m) ==
    /\ Receive(m)
    /\ m.cl \in child
    /\ rec[m.cl].serial # 0
    /\ Tell(m, rec[m.cl].id, rec[m.cl].call)
    /\ UNCHANGED serverVars

\* The child answered the first attempt of this call: its answer again, under
\* the serial of the new attempt.
SrvResend(m) ==
    /\ Receive(m)
    /\ m.cl \in child
    /\ rec[m.cl].serial = FirstSerial(m)
    /\ Tell(m, rec[m.cl].id, rec[m.cl].call)
    /\ UNCHANGED serverVars

\* The common part of the requests that are not answered from the record.
NotAnswered(m) ==
    /\ Receive(m)
    /\ child' \in Admissions(m.cl)
    /\ rec' = RecordsOf(child')
    /\ rec'[m.cl].serial # FirstSerial(m)

\* The exec thread still runs a function the server has given up on.
SrvBusy(m) ==
    /\ NotAnswered(m)
    /\ ~comp
    /\ Tell(m, "E_BUSY_PROC", m.call)
    /\ UNCHANGED <<spc, comp, lastRecv, lastSend, objs, wdt, performed,
                   repeated, answered>>

SrvMaxObject(m) ==
    /\ NotAnswered(m)
    /\ comp
    /\ m.kind \in {"start", "badOption", "unreadOption"} /\ objs >= MaxObjects
    /\ Tell(m, "E_MAX_OBJECT", m.call)
    /\ UNCHANGED <<spc, comp, lastRecv, lastSend, objs, wdt, performed,
                   repeated, answered>>

\* The options are no text, or WDT or InvokeTimeout is below MIN_WDT_INTERVAL.
SrvBadOption(m) ==
    /\ NotAnswered(m)
    /\ comp
    /\ m.kind = "badOption" /\ objs < MaxObjects
    /\ Tell(m, "E_INVALIDARG", m.call)
    /\ UNCHANGED <<spc, comp, lastRecv, lastSend, objs, wdt, performed,
                   repeated, answered>>

\* Hands the request to the exec thread: reset comp_evt, set exec_evt.
HandOver(m) ==
    /\ NotAnswered(m)
    /\ comp
    /\ lastRecv' = m
    /\ comp' = FALSE
    /\ wdt' = 0
    /\ UNCHANGED <<reps, lastSend, objs, performed, repeated, answered>>

SrvExecute(m) ==
    /\ HandOver(m)
    /\ m.kind \in {"start", "stop", "call"}
    /\ m.kind = "start" => objs < MaxObjects
    /\ spc' = "wait"

\* The error of GetOptionValue is still in hr: the request is handed over and
\* not waited for, and the error ends recv_thread.
SrvStartUnread(m) ==
    /\ HandOver(m)
    /\ m.kind = "unreadOption" /\ objs < MaxObjects
    /\ spc' = "ending"

\* comp_evt not set within the watchdog interval: S_EXECUTING to the client.
SrvExecuting ==
    /\ spc = "wait" /\ ~comp
    /\ wdt + 1 < MaxWdt
    /\ wdt' = wdt + 1
    /\ Respond(lastRecv, "S_EXECUTING", lastRecv.call)
    /\ UNCHANGED <<clientVars, reqs, spc, comp, lastRecv, lastSend, child, rec,
                   objs, performed, repeated, answered>>


\* The last S_EXECUTING before exec_timeout: the server receives again and
\* never answers this request, the exec thread runs on.
SrvExecTimeout ==
    /\ "slow" \in Faults
    /\ spc = "wait" /\ ~comp
    /\ wdt + 1 = MaxWdt
    /\ wdt' = 0
    /\ spc' = "recv"
    /\ Respond(lastRecv, "S_EXECUTING", lastRecv.call)
    /\ UNCHANGED <<clientVars, reqs, comp, lastRecv, lastSend, child, rec, objs,
                   performed, repeated, answered>>

\* S_EXECUTING cannot be sent: the error ends recv_thread, for every client.
SrvExecutingFails ==
    /\ "sendFails" \in Faults
    /\ spc = "wait" /\ ~comp
    /\ spc' = "ending"
    /\ UNCHANGED <<clientVars, reqs, reps, comp, lastRecv, lastSend, child, rec,
                   objs, wdt, performed, repeated, answered>>

\* What the server keeps of the objects once comp_evt is set.  A successful
\* ServiceStop destroys the child.
Done(k) == lastSend.id = "S_OK" /\ lastRecv.kind = k
MaintainObjects ==
    /\ objs' = CASE Done("start") /\ objs < MaxObjects -> objs + 1
                 [] Done("stop") /\ objs > 0 -> objs - 1
                 [] OTHER -> objs
    /\ child' = IF Done("stop") THEN child \ {lastRecv.cl} ELSE child

\* Maintains the objects, answers, and keeps the answer, unless a ServiceStop
\* destroyed the child to keep it in.
SrvReply ==
    LET c == lastRecv.cl
    IN  /\ spc = "wait" /\ comp
        /\ MaintainObjects
        /\ rec' = [rec EXCEPT ![c] = IF Done("stop") THEN Blank ELSE lastSend]
        /\ Respond(lastRecv, lastSend.id, lastSend.call)
        /\ spc' = "recv"
        /\ wdt' = 0
        /\ answered' = answered \cup {<<c, lastRecv.call>>}
        /\ UNCHANGED <<clientVars, reqs, comp, lastRecv, lastSend, performed,
                       repeated>>

\* The answer cannot be sent: it is not kept, and the error ends recv_thread.
SrvReplyFails ==
    LET c == lastRecv.cl
    IN  /\ "sendFails" \in Faults
        /\ spc = "wait" /\ comp
        /\ MaintainObjects
        /\ rec' = [rec EXCEPT ![c] = IF Done("stop") THEN Blank ELSE @]
        /\ spc' = "ending"
        /\ UNCHANGED <<clientVars, reqs, reps, comp, lastRecv, lastSend, wdt,
                       performed, repeated, answered>>

\* The end of recv_thread: it tells exec_thread to end and joins it, releases the
\* objects that are left and removes the children.  A request that exec_thread
\* has not begun (~comp) is dropped.
RecvThreadEnds ==
    /\ spc = "ending"
    /\ spc' = "ended"
    /\ objs' = 0
    /\ child' = {}
    /\ rec' = [c \in Clients |-> Blank]
    /\ UNCHANGED <<clientVars, reqs, reps, comp, lastRecv, lastSend, wdt,
                   performed, repeated, answered>>
-----------------------------------------------------------------------------
(* The server: exec_thread, which runs bcap_callfunc *)

ExecThread ==
    LET op == <<lastRecv.cl, lastRecv.call>>
    IN  /\ ~comp /\ spc # "ended"
        /\ comp' = TRUE
        /\ \E id \in Answers :
              lastSend' = [serial |-> lastRecv.serial, id |-> id,
                           att |-> lastRecv.att, call |-> lastRecv.call]
        /\ performed' = performed \cup {op}
        /\ repeated' = IF op \in performed
                       THEN repeated \cup {<<lastRecv.cl, lastRecv.call, lastRecv.kind>>}
                       ELSE repeated
        /\ UNCHANGED <<clientVars, reqs, reps, spc, lastRecv, child, rec, objs,
                       wdt, answered>>
-----------------------------------------------------------------------------
ClientNext(c) ==
    \/ ClientCall(c)
    \/ ClientSend(c)
    \/ ClientSendFails(c)
    \/ ClientAccept(c)
    \/ ClientSkip(c)
    \/ ClientTimeout(c)

SrvReceive ==
    \E m \in reqs :
        \/ SrvRefuseClient(m)
        \/ SrvResend(m)
        \/ SrvBusy(m)
        \/ SrvMaxObject(m)
        \/ SrvBadOption(m)
        \/ SrvExecute(m)
        \/ SrvStartUnread(m)

\* Every client is stopped by a bound: it has made its MaxCalls calls, or the
\* next attempt would leave the cycle of serials.
BoundsReached ==
    /\ \A c \in Clients :
          \/ cpc[c] = "idle" /\ Cardinality(begun[c]) = MaxCalls
          \/ cpc[c] = "send" /\ ~ServerInCycle(c)
    /\ UNCHANGED vars

Next ==
    \/ \E c \in Clients : ClientNext(c)
    \/ LoseRequest
    \/ LoseReply
    \/ SrvReceive
    \/ SrvExecuting
    \/ SrvExecTimeout
    \/ SrvExecutingFails
    \/ SrvReply
    \/ SrvReplyFails
    \/ RecvFails
    \/ RecvThreadEnds
    \/ ExecThread
    \/ BoundsReached

Spec == Init /\ [][Next]_vars
-----------------------------------------------------------------------------
Request == [cl : Clients, serial : 1..SerialMax, reserv : 0..SerialMax,
            kind : AllKinds, att : Nat, call : Nat]
Reply == [cl : Clients, serial : 0..SerialMax, att : Nat, call : Nat,
          id : Results \cup Refusals \cup {"S_EXECUTING"}]
Record == [serial : 0..SerialMax, id : Results, att : Nat, call : Nat]

\* The type of every variable.
TypeOK ==
    /\ cpc \in [Clients -> {"idle", "send", "recv"}]
    /\ serial \in [Clients -> 1..SerialMax]
    /\ sent \in [Clients -> 0..SerialMax]
    /\ reserv \in [Clients -> 0..SerialMax]
    /\ tries \in [Clients -> 0..Retry]
    /\ kind \in [Clients -> AllKinds]
    /\ result \in [Clients -> [id : Results \cup Refusals \cup Errors \cup {"none"},
                               call : Nat]]
    /\ reqs \subseteq Request
    /\ reps \subseteq Reply
    /\ spc \in {"recv", "wait", "ending", "ended"}
    /\ comp \in BOOLEAN
    /\ lastRecv \in [cl : Clients, serial : 0..SerialMax, reserv : 0..SerialMax,
                     kind : AllKinds, att : Nat, call : Nat]
    /\ lastSend \in Record
    /\ child \subseteq Clients
    /\ rec \in [Clients -> Record]
    /\ objs \in 0..MaxObjects
    /\ wdt \in 0..MaxWdt
    /\ att \in [Clients -> Nat]
    /\ callId \in [Clients -> Nat]
    /\ begun \in [Clients -> SUBSET Nat]
    /\ performed \subseteq Clients \X Nat
    /\ repeated \subseteq Clients \X Nat \X AllKinds
    /\ answered \subseteq Clients \X Nat

\* Whatever the network and the server do, a call returns what this very call
\* produced: send_receive never takes the answer of an earlier call, not even
\* when the serials wrap, and the record the server keeps never answers a
\* request it was not made for.  An answer of the remote function also means
\* that the server has performed the call.
ResultIsOfThisCall ==
    \A c \in Clients :
        cpc[c] = "idle" /\ result[c].id # "none" =>
            /\ result[c].call = callId[c]
            /\ result[c].id \in Answers => <<c, callId[c]>> \in performed

\* Lost or late replies and the retries they cause never make the server
\* perform a call again, other than a ServiceStop, whose record goes with the
\* child it destroys.  (Requests must arrive, in order, and in time.)
AtMostOnce ==
    \A op \in repeated : op[3] = "stop"

\* bcap_server.c: "If already responded, then does not execute".
RespondedNotExecuted ==
    [][spc = "recv" /\ spc' = "wait" =>
          <<lastRecv'.cl, lastRecv'.call>> \notin answered]_vars

\* Every call returns, within its attempts, even if the function called never
\* does or the server's thread has ended: the watchdog bounds an execution and
\* Retry bounds the attempts.
CallReturns ==
    \A c \in Clients : cpc[c] # "idle" ~> cpc[c] = "idle"


\* What the client library promises to its caller.
Promise == INSTANCE RpcPromise WITH
    current <- callId,
    waiting <- {c \in Clients : cpc[c] # "idle"},
    outcome <- [c \in Clients |->
                   IF result[c].id = "none" THEN "none"
                   ELSE IF result[c].id \in Answers THEN "answer" ELSE "error"]

\* send_receive, the network and the server together implement the promise.
ImplementsPromise == Promise!Spec
-----------------------------------------------------------------------------
\* The receive timeout of the client starts again with each datagram: it is
\* sure to run out only when nothing is under way.
Quiet(c) == ~\E r \in reps : r.cl = c

\* Threads that can take a step take one; the network need not deliver, and
\* the function called need not return.
FairSpec ==
    /\ Spec
    /\ \A c \in Clients :
          /\ WF_vars(ClientSend(c))
          /\ WF_vars(ClientAccept(c))
          /\ WF_vars(ClientSkip(c))
          /\ WF_vars(Quiet(c) /\ ClientTimeout(c))
    /\ WF_vars(SrvReceive)
    /\ WF_vars(SrvExecuting)
    /\ WF_vars(SrvExecTimeout)
    /\ WF_vars(SrvReply)
=============================================================================
