---------------------------- MODULE BcapRpcProof ----------------------------
(***************************************************************************)
(* The theorems about BcapRpc, for every number of clients, attempts,      *)
(* serials and calls and for every set of faults; those about retries that  *)
(* are executed again ask for an environment that is Orderly.              *)
(*                                                                         *)
(* The argument: within a cycle of serials a serial names one attempt      *)
(* (SerialAt, SerialNamesAttempt), and an attempt belongs to one call      *)
(* (OfCall, AttemptNamesCall).  Every datagram, the request being executed *)
(* and the records of the server carry serials, attempts and calls that    *)
(* agree in this sense (IInv); hence an equal serial means the same call,  *)
(* at the client that accepts an answer and at the server that repeats one.*)
(***************************************************************************)
EXTENDS BcapRpc, FiniteSetTheorems, TLAPS

\* Attempt a of client c, less than a cycle ago, was numbered s.
SerialAt(c, a, s) ==
    /\ a <= att[c] /\ att[c] - a < SerialMax
    /\ \/ serial[c] - s = att[c] + 1 - a
       \/ serial[c] - s + SerialMax = att[c] + 1 - a

\* Attempt a of client c was made by call k: no call began in between.
OfCall(c, k, a) ==
    /\ k \in begun[c]
    /\ k <= a /\ a <= att[c]
    /\ \A b \in begun[c] : b <= k \/ a < b

ClientInv(c) ==
    /\ \A b \in begun[c] : 0 < b /\ b <= callId[c]
    /\ callId[c] # 0 => callId[c] \in begun[c]
    /\ cpc[c] = "idle" => callId[c] <= att[c]
    /\ cpc[c] # "idle" =>
          /\ callId[c] + tries[c] = att[c] + 1
          /\ callId[c] # 0
          /\ 0 < reserv[c]
          /\ \/ serial[c] - reserv[c] = tries[c]
             \/ serial[c] - reserv[c] + SerialMax = tries[c]
    /\ cpc[c] = "send" => tries[c] < Retry
    /\ cpc[c] = "recv" => 0 < tries[c] /\ SerialAt(c, att[c], sent[c])

RequestInv(m) ==
    /\ OfCall(m.cl, m.call, m.att)
    /\ SerialAt(m.cl, m.att, m.serial)
    /\ SerialAt(m.cl, m.call, m.reserv)
    /\ 0 < m.reserv

ReplyInv(r) ==
    /\ OfCall(r.cl, r.call, r.att)
    /\ SerialAt(r.cl, r.att, r.serial)
    /\ r.id \in Answers => <<r.cl, r.call>> \in performed

RecordInv(c) ==
    \/ rec[c] = Blank
    \/ /\ rec[c].id \in Answers
       /\ OfCall(c, rec[c].call, rec[c].att)
       /\ SerialAt(c, rec[c].att, rec[c].serial)
       /\ <<c, rec[c].call>> \in performed

\* While receive_execute waits, last_recv is a live request and, once the exec
\* thread has finished, last_send is the answer to it.
ExecInv ==
    /\ ~comp => lastRecv.call \in begun[lastRecv.cl]
    /\ spc = "wait" => RequestInv(lastRecv)
    /\ spc = "wait" /\ comp =>
          /\ lastSend.id \in Answers
          /\ lastSend.serial = lastRecv.serial
          /\ lastSend.att = lastRecv.att
          /\ lastSend.call = lastRecv.call
          /\ <<lastRecv.cl, lastRecv.call>> \in performed

IInv ==
    /\ TypeOK
    /\ \A c \in Clients : ClientInv(c)
    /\ \A m \in reqs : RequestInv(m)
    /\ \A r \in reps : ReplyInv(r)
    /\ \A c \in Clients : RecordInv(c)
    /\ ExecInv
    /\ ResultIsOfThisCall
-----------------------------------------------------------------------------
\* A serial names one attempt of the current cycle.
LEMMA SerialNamesAttempt ==
    ASSUME TypeOK, NEW c \in Clients, NEW a \in Nat, NEW b \in Nat,
           NEW s \in 0..SerialMax, SerialAt(c, a, s), SerialAt(c, b, s)
    PROVE  a = b
BY RpcAssumption DEF TypeOK, SerialAt

\* An attempt names the call it was made by.
LEMMA AttemptNamesCall ==
    ASSUME TypeOK, NEW c \in Clients, NEW a \in Nat, NEW j \in Nat, NEW k \in Nat,
           OfCall(c, j, a), OfCall(c, k, a)
    PROVE  j = k
BY DEF TypeOK, OfCall

\* Steps that number no attempt and begin no call keep what was said of the
\* attempts made so far.
LEMMA StampFrame ==
    ASSUME UNCHANGED <<att, serial, begun>>, NEW c, NEW a, NEW k, NEW s
    PROVE  /\ SerialAt(c, a, s) <=> SerialAt(c, a, s)'
           /\ OfCall(c, k, a) <=> OfCall(c, k, a)'
BY DEF SerialAt, OfCall

\* A new attempt moves an attempt of the same cycle one further back.
LEMMA StampNext ==
    ASSUME TypeOK, NEW c \in Clients, TakeSerial(c), NEW d \in Clients,
           NEW a \in Nat, NEW s \in 0..SerialMax, SerialAt(d, a, s),
           c = d => InCycle(att[c] + 1, a)
    PROVE  SerialAt(d, a, s)'
<1>1. CASE c = d
  <2>1. /\ att[c] \in Nat /\ att'[c] = att[c] + 1
        /\ serial[c] \in 1..SerialMax
        /\ serial'[c] = IF serial[c] = SerialMax THEN 1 ELSE serial[c] + 1
    BY DEF TypeOK, TakeSerial, NextSerial
  <2>2. SerialMax \in Nat
    BY RpcAssumption
  <2>3. (att[c] + 1) - a < SerialMax
    BY <1>1 DEF InCycle
  <2> QED BY <1>1, <2>1, <2>2, <2>3 DEF SerialAt
<1>2. CASE c # d
  BY <1>2 DEF TypeOK, TakeSerial, SerialAt
<1> QED BY <1>1, <1>2

LEMMA OfCallNext ==
    ASSUME TypeOK, NEW c \in Clients, TakeSerial(c), NEW d \in Clients,
           NEW a \in Nat, NEW k \in Nat, OfCall(d, k, a)
    PROVE  OfCall(d, k, a)'
BY DEF TypeOK, TakeSerial, OfCall
-----------------------------------------------------------------------------
LEMMA InitIInv == Init => IInv
<1> SUFFICES ASSUME Init PROVE IInv OBVIOUS
<1>1. TypeOK
  BY RpcAssumption DEF Init, TypeOK, Blank, NoResult, Record, Results, AllKinds
<1>2. \A c \in Clients : ClientInv(c)
  BY RpcAssumption DEF Init, ClientInv
<1>3. \A c \in Clients : RecordInv(c)
  BY DEF Init, RecordInv
<1>4. ExecInv
  BY DEF Init, ExecInv
<1>5. ResultIsOfThisCall
  BY DEF Init, ResultIsOfThisCall, NoResult
<1> QED BY <1>1, <1>2, <1>3, <1>4, <1>5 DEF Init, IInv
-----------------------------------------------------------------------------
(* Type correctness, one step per action *)

LEMMA ReplyType ==
    ASSUME TypeOK, NEW m \in Request, NEW k \in Nat,
           NEW id \in Results \cup Refusals \cup {"S_EXECUTING"},
           Tell(m, id, k)
    PROVE  reps' \subseteq Reply
BY DEF TypeOK, Tell, Respond, Reply, Request

LEMMA NextSerialType ==
    ASSUME NEW s \in 1..SerialMax
    PROVE  NextSerial(s) \in 1..SerialMax
BY RpcAssumption DEF NextSerial

LEMMA TypeClient ==
    ASSUME IInv, NEW c \in Clients, ClientNext(c)
    PROVE  TypeOK'
<1> USE RpcAssumption DEF IInv, TypeOK
<1>1. CASE ClientCall(c)
  BY <1>1 DEF ClientCall, serverVars, NoResult
<1>2. ASSUME TakeSerial(c), reqs' \subseteq Request,
             cpc' \in [Clients -> {"idle", "send", "recv"}],
             result' \in [Clients -> [id : Results \cup Refusals \cup Errors
                                            \cup {"none"}, call : Nat]]
      PROVE  TypeOK'
  <2>1. tries[c] < Retry
    BY <1>2 DEF TakeSerial, ClientInv
  <2>2. tries[c] + 1 \in 0..Retry /\ tries' \in [Clients -> 0..Retry]
    BY <1>2, <2>1 DEF TakeSerial
  <2>3. NextSerial(serial[c]) \in 1..SerialMax
    BY NextSerialType
  <2>4. /\ serial' \in [Clients -> 1..SerialMax]
        /\ sent' \in [Clients -> 0..SerialMax]
        /\ att' \in [Clients -> Nat]
    BY <1>2, <2>3 DEF TakeSerial
  <2>5. reps' \subseteq Reply
    BY <1>2 DEF TakeSerial, Alive
  <2> QED BY <1>2, <2>2, <2>4, <2>5 DEF TakeSerial, serverVars
<1>3. CASE ClientSend(c)
  <2>1. [cl |-> c, serial |-> serial[c], reserv |-> reserv[c],
         kind |-> kind[c], att |-> att[c] + 1, call |-> callId[c]] \in Request
    BY DEF Request
  <2>2. reqs' \subseteq Request
    BY <1>3, <2>1 DEF ClientSend, Alive
  <2> QED BY <1>2, <1>3, <2>2 DEF ClientSend
<1>4. CASE ClientSendFails(c)
  <2>1. reqs' \subseteq Request
    BY <1>4 DEF ClientSendFails, Alive
  <2> QED BY <1>2, <1>4, <2>1 DEF ClientSendFails, Errors
<1>5. CASE ClientAccept(c)
  <2>1. PICK r \in reps : /\ Accepts(c, r)
                          /\ reps' \in Left(reps, r)
                          /\ result' = [result EXCEPT ![c] = [id |-> r.id, call |-> r.call]]
    BY <1>5 DEF ClientAccept
  <2>2. reps' \subseteq Reply
    BY <2>1 DEF Left
  <2>3. r \in Reply /\ r.id # "S_EXECUTING"
    BY <2>1 DEF Accepts
  <2>4. r.call \in Nat /\ r.id \in Results \cup Refusals
    BY <2>3 DEF Reply
  <2>5. [id |-> r.id, call |-> r.call]
           \in [id : Results \cup Refusals \cup Errors \cup {"none"}, call : Nat]
    BY <2>4
  <2> QED BY <1>5, <2>1, <2>2, <2>5 DEF ClientAccept, serverVars
<1>6. CASE ClientSkip(c)
  BY <1>6 DEF ClientSkip, clientVars, serverVars
<1>7. CASE ClientTimeout(c)
  <2>1. [id |-> "E_TIMEOUT", call |-> callId[c]]
           \in [id : Results \cup Refusals \cup Errors \cup {"none"}, call : Nat]
    BY DEF Errors
  <2>2. CASE tries[c] < Retry
    BY <1>7, <2>2 DEF ClientTimeout, serverVars
  <2>3. CASE ~(tries[c] < Retry)
    <3>1. /\ cpc' = [cpc EXCEPT ![c] = "idle"]
          /\ result' = [result EXCEPT ![c] = [id |-> "E_TIMEOUT", call |-> callId[c]]]
      BY <1>7, <2>3 DEF ClientTimeout
    <3>2. /\ cpc' \in [Clients -> {"idle", "send", "recv"}]
          /\ result' \in [Clients -> [id : Results \cup Refusals \cup Errors
                                            \cup {"none"}, call : Nat]]
      BY <2>1, <3>1
    <3> QED BY <1>7, <3>2 DEF ClientTimeout, serverVars
  <2> QED BY <2>2, <2>3
<1> QED BY <1>1, <1>3, <1>4, <1>5, <1>6, <1>7 DEF ClientNext

LEMMA TypeReceive ==
    ASSUME IInv, NEW m \in reqs, Receive(m)
    PROVE  /\ m \in Request
           /\ reqs' \subseteq Request
BY DEF IInv, TypeOK, Receive, Left

LEMMA TypeNotAnswered ==
    ASSUME IInv, NEW m \in reqs, NotAnswered(m)
    PROVE  /\ child' \subseteq Clients
           /\ rec' \in [Clients -> Record]
<1>1. m.cl \in Clients
  BY TypeReceive DEF NotAnswered, Request
<1>2. child' \subseteq Clients
  <2>1. child \subseteq Clients /\ child' \in Admissions(m.cl)
    BY DEF IInv, TypeOK, NotAnswered
  <2>2. CASE m.cl \in child
    BY <2>1, <2>2 DEF Admissions
  <2>3. CASE m.cl \notin child
    <3>1. PICK E \in SUBSET child : child' = (child \ E) \cup {m.cl}
      BY <2>1, <2>3 DEF Admissions
    <3> QED BY <1>1, <2>1, <3>1
  <2> QED BY <2>2, <2>3
<1>3. Blank \in Record
  BY RpcAssumption DEF Blank, Record, Results
<1> QED BY <1>2, <1>3 DEF IInv, TypeOK, NotAnswered, RecordsOf

LEMMA TypeSrvReceive ==
    ASSUME IInv, SrvReceive
    PROVE  TypeOK'
<1>1. PICK m \in reqs : \/ SrvRefuseClient(m) \/ SrvResend(m) \/ SrvBusy(m)
                        \/ SrvMaxObject(m) \/ SrvBadOption(m)
                        \/ SrvExecute(m) \/ SrvStartUnread(m)
  BY DEF SrvReceive
<1>2. Receive(m)
  BY <1>1 DEF SrvRefuseClient, SrvResend, SrvBusy, SrvMaxObject, SrvBadOption,
              SrvExecute, SrvStartUnread, HandOver, NotAnswered
<1>3. m \in Request /\ reqs' \subseteq Request /\ m.call \in Nat /\ m.cl \in Clients
  BY <1>2, TypeReceive DEF Request
<1>4. CASE SrvRefuseClient(m)
  <2>1. reps' \subseteq Reply
    BY <1>3, <1>4, ReplyType DEF SrvRefuseClient, Refusals, IInv
  <2> QED BY <1>3, <1>4, <2>1
          DEF SrvRefuseClient, Receive, serverVars, clientVars, IInv, TypeOK
<1>5. CASE SrvResend(m)
  <2>1. /\ rec[m.cl].id \in Results \cup Refusals \cup {"S_EXECUTING"}
        /\ rec[m.cl].call \in Nat
    BY <1>3 DEF IInv, TypeOK, Record
  <2>2. reps' \subseteq Reply
    BY <1>3, <1>5, <2>1, ReplyType DEF SrvResend, IInv
  <2> QED BY <1>3, <1>5, <2>2
          DEF SrvResend, Receive, serverVars, clientVars, IInv, TypeOK
<1>6. CASE SrvBusy(m) \/ SrvMaxObject(m) \/ SrvBadOption(m)
  <2>1. reps' \subseteq Reply
    BY <1>3, <1>6, ReplyType DEF SrvBusy, SrvMaxObject, SrvBadOption, Refusals, IInv
  <2>2. /\ NotAnswered(m)
        /\ UNCHANGED <<spc, comp, lastRecv, lastSend, objs, wdt, performed,
                       repeated, answered>>
    BY <1>6 DEF SrvBusy, SrvMaxObject, SrvBadOption
  <2> QED BY <1>3, <2>1, <2>2, TypeNotAnswered
          DEF NotAnswered, Receive, clientVars, IInv, TypeOK
<1>7. CASE SrvExecute(m) \/ SrvStartUnread(m)
  <2>1. NotAnswered(m) /\ HandOver(m)
    BY <1>7 DEF SrvExecute, SrvStartUnread, HandOver
  <2>2. lastRecv' \in [cl : Clients, serial : 0..SerialMax, reserv : 0..SerialMax,
                       kind : AllKinds, att : Nat, call : Nat]
    BY <1>3, <2>1, RpcAssumption DEF HandOver, Request
  <2>3. child' \subseteq Clients /\ rec' \in [Clients -> Record]
    BY <2>1, TypeNotAnswered
  <2>4. /\ spc' \in {"wait", "ending"} /\ comp' = FALSE
        /\ wdt' = 0 /\ wdt' \in 0..MaxWdt
    BY <1>7, <2>1, RpcAssumption DEF SrvExecute, SrvStartUnread, HandOver
  <2> QED BY <1>2, <1>3, <2>1, <2>2, <2>3, <2>4
          DEF HandOver, Receive, clientVars, IInv, TypeOK
<1> QED BY <1>1, <1>4, <1>5, <1>6, <1>7

\* The steps by which recv_thread leaves its loop and ends.
ThreadEnding == SrvExecutingFails \/ SrvReplyFails \/ RecvFails \/ RecvThreadEnds

\* What they leave of the records, and that they leave the rest.
LEMMA EndingFrame ==
    ASSUME TypeOK, ThreadEnding
    PROVE  /\ UNCHANGED <<clientVars, reqs, reps, comp, lastRecv, lastSend, wdt,
                          performed, repeated, answered>>
           /\ spc' \in {"ending", "ended"}
           /\ objs' \in 0..MaxObjects
           /\ child' \subseteq child
           /\ rec' \in [Clients -> Record]
           /\ \A c \in Clients : rec'[c] = rec[c] \/ rec'[c] = Blank
<1>1. Blank \in Record
  BY RpcAssumption DEF Blank, Record, Results
<1>2. CASE SrvExecutingFails \/ RecvFails
  BY <1>2 DEF SrvExecutingFails, RecvFails, TypeOK
<1>3. CASE SrvReplyFails
  <2>1. /\ UNCHANGED <<clientVars, reqs, reps, comp, lastRecv, lastSend, wdt,
                       performed, repeated, answered>>
        /\ spc' = "ending"
        /\ child' \subseteq child
    BY <1>3 DEF SrvReplyFails, MaintainObjects
  <2>2. objs' \in 0..MaxObjects
    BY <1>3, RpcAssumption DEF SrvReplyFails, MaintainObjects, TypeOK
  <2>3. \/ rec' = [rec EXCEPT ![lastRecv.cl] = Blank]
        \/ rec' = [rec EXCEPT ![lastRecv.cl] = rec[lastRecv.cl]]
    BY <1>3 DEF SrvReplyFails
  <2>4. /\ rec' \in [Clients -> Record]
        /\ \A c \in Clients : rec'[c] = rec[c] \/ rec'[c] = Blank
    BY <1>1, <2>3 DEF TypeOK
  <2> QED BY <2>1, <2>2, <2>4
<1>4. CASE RecvThreadEnds
  BY <1>1, <1>4, RpcAssumption DEF RecvThreadEnds, TypeOK
<1> QED BY <1>2, <1>3, <1>4 DEF ThreadEnding

LEMMA TypeServer ==
    ASSUME IInv, \/ LoseRequest \/ LoseReply \/ SrvExecuting \/ SrvExecTimeout
                 \/ SrvReply \/ ExecThread \/ ThreadEnding
    PROVE  TypeOK'
<1> USE DEF IInv, TypeOK
<1>1. CASE LoseRequest
  BY <1>1 DEF LoseRequest, clientVars, serverVars
<1>2. CASE LoseReply
  BY <1>2 DEF LoseReply, clientVars, serverVars
<1>3. CASE SrvExecuting \/ SrvExecTimeout
  <2>1. reps' \subseteq Reply
    BY <1>3 DEF SrvExecuting, SrvExecTimeout, Respond, Reply
  <2>2. wdt' \in 0..MaxWdt
    BY <1>3, RpcAssumption DEF SrvExecuting, SrvExecTimeout
  <2> QED BY <1>3, <2>1, <2>2 DEF SrvExecuting, SrvExecTimeout, clientVars
<1>4. CASE SrvReply
  <2>1. reps' \subseteq Reply
    BY <1>4 DEF SrvReply, Respond, Reply, Record
  <2>2. objs' \in 0..MaxObjects
    BY <1>4, RpcAssumption DEF SrvReply, MaintainObjects
  <2>3. child' \subseteq Clients
    BY <1>4 DEF SrvReply, MaintainObjects
  <2>4. Blank \in Record
    BY RpcAssumption DEF Blank, Record, Results
  <2>5. rec' \in [Clients -> Record]
    BY <1>4, <2>4 DEF SrvReply
  <2>6. answered' \subseteq Clients \X Nat
    BY <1>4 DEF SrvReply
  <2>7. spc' = "recv" /\ wdt' = 0 /\ wdt' \in 0..MaxWdt
    BY <1>4, RpcAssumption DEF SrvReply
  <2> QED BY <1>4, <2>1, <2>2, <2>3, <2>5, <2>6, <2>7 DEF SrvReply, clientVars
<1>5. CASE ExecThread
  <2>1. lastSend' \in Record
    BY <1>5, RpcAssumption DEF ExecThread, Record
  <2>2. /\ performed' \subseteq Clients \X Nat
        /\ repeated' \subseteq Clients \X Nat \X AllKinds
    BY <1>5 DEF ExecThread
  <2> QED BY <1>5, <2>1, <2>2 DEF ExecThread, clientVars
<1>6. CASE ThreadEnding
  BY <1>6, EndingFrame DEF clientVars
<1> QED BY <1>1, <1>2, <1>3, <1>4, <1>5, <1>6

LEMMA TypeStep ==
    ASSUME IInv, [Next]_vars
    PROVE  TypeOK'
<1>1. CASE UNCHANGED vars
  BY <1>1 DEF IInv, TypeOK, vars, clientVars, serverVars
<1>2. CASE BoundsReached
  BY <1>1, <1>2 DEF BoundsReached
<1> QED BY <1>1, <1>2, TypeClient, TypeSrvReceive, TypeServer DEF Next, ThreadEnding
-----------------------------------------------------------------------------
(* Steps of the network and of the server *)

\* What a step that leaves the client alone keeps.
LEMMA ServerFrame ==
    ASSUME IInv, UNCHANGED clientVars, performed \subseteq performed'
    PROVE  /\ \A c \in Clients : ClientInv(c)'
           /\ ResultIsOfThisCall'
           /\ \A m : RequestInv(m) => RequestInv(m)'
           /\ \A r : ReplyInv(r) => ReplyInv(r)'
<1> USE DEF clientVars
<1>1. \A c, a, k, s : /\ SerialAt(c, a, s) <=> SerialAt(c, a, s)'
                      /\ OfCall(c, k, a) <=> OfCall(c, k, a)'
  BY StampFrame
<1>2. \A c \in Clients : ClientInv(c)'
  <2> SUFFICES ASSUME NEW c \in Clients PROVE ClientInv(c)'
    OBVIOUS
  <2>1. ClientInv(c)
    BY DEF IInv
  <2>2. SerialAt(c, att[c], sent[c]) <=> SerialAt(c, att[c], sent[c])'
    BY StampFrame
  <2> QED BY <2>1, <2>2 DEF ClientInv, SerialAt
<1>3. ResultIsOfThisCall'
  BY DEF IInv, ResultIsOfThisCall
<1>4. \A m : RequestInv(m) => RequestInv(m)'
  BY <1>1 DEF RequestInv
<1>5. \A r : ReplyInv(r) => ReplyInv(r)'
  BY <1>1 DEF ReplyInv
<1> QED BY <1>2, <1>3, <1>4, <1>5

LEMMA RecordFrame ==
    ASSUME UNCHANGED clientVars, performed \subseteq performed', NEW c,
           RecordInv(c), rec'[c] = rec[c] \/ rec'[c] = Blank
    PROVE  RecordInv(c)'
<1> USE DEF clientVars
<1>1. Blank' = Blank
  BY DEF Blank
<1>2. CASE rec'[c] = Blank
  BY <1>1, <1>2 DEF RecordInv
<1>3. CASE rec'[c] = rec[c]
  BY <1>1, <1>3, StampFrame DEF RecordInv
<1> QED BY <1>2, <1>3

\* A reply to a live request, carrying its call.
LEMMA RespondInv ==
    ASSUME IInv, UNCHANGED clientVars, performed \subseteq performed',
           NEW m, RequestInv(m), NEW id, Respond(m, id, m.call),
           id \in Answers => <<m.cl, m.call>> \in performed'
    PROVE  \A r \in reps' : ReplyInv(r)'
<1> SUFFICES ASSUME NEW r \in reps' PROVE ReplyInv(r)'
  OBVIOUS
<1>1. CASE r \in reps
  BY <1>1, ServerFrame DEF IInv
<1>2. CASE r \notin reps
  <2>1. r = [cl |-> m.cl, serial |-> m.serial, id |-> id, att |-> m.att,
             call |-> m.call]
    BY <1>2 DEF Respond
  <2>2. RequestInv(m)'
    BY ServerFrame
  <2> QED BY <2>1, <2>2 DEF RequestInv, ReplyInv
<1> QED BY <1>1, <1>2

LEMMA TellInv ==
    ASSUME IInv, UNCHANGED clientVars, performed \subseteq performed',
           NEW m, RequestInv(m), NEW id, Tell(m, id, m.call),
           id \in Answers => <<m.cl, m.call>> \in performed'
    PROVE  \A r \in reps' : ReplyInv(r)'
<1>1. CASE Respond(m, id, m.call)
  BY <1>1, RespondInv
<1>2. CASE UNCHANGED reps
  BY <1>2, ServerFrame DEF IInv
<1> QED BY <1>1, <1>2 DEF Tell

\* An answer repeated from the record belongs to the call it is repeated for.
LEMMA RecordNamesCall ==
    ASSUME IInv, NEW m \in reqs, m.cl \in child, rec[m.cl].serial = FirstSerial(m)
    PROVE  /\ rec[m.cl].call = m.call
           /\ <<m.cl, m.call>> \in performed
<1>1. m \in Request /\ RequestInv(m)
  BY DEF IInv, TypeOK
<1>2. /\ m.cl \in Clients /\ m.call \in Nat /\ m.att \in Nat
      /\ m.reserv \in 0..SerialMax
      /\ rec[m.cl] \in Record
  BY <1>1 DEF Request, IInv, TypeOK
<1>3. FirstSerial(m) = m.reserv /\ 0 < m.reserv
  BY <1>1, <1>2 DEF FirstSerial, RequestInv
<1>4. rec[m.cl] # Blank
  BY <1>3 DEF Blank
<1>5. /\ OfCall(m.cl, rec[m.cl].call, rec[m.cl].att)
      /\ SerialAt(m.cl, rec[m.cl].att, m.reserv)
      /\ <<m.cl, rec[m.cl].call>> \in performed
  BY <1>2, <1>3, <1>4 DEF IInv, RecordInv
<1>6. rec[m.cl].att \in Nat /\ rec[m.cl].call \in Nat
  BY <1>2 DEF Record
<1>7. SerialAt(m.cl, m.call, m.reserv) /\ OfCall(m.cl, m.call, m.att)
  BY <1>1 DEF RequestInv
<1>8. TypeOK
  BY DEF IInv
<1>9. rec[m.cl].att = m.call
  BY <1>2, <1>5, <1>6, <1>7, <1>8, SerialNamesAttempt
<1>10. rec[m.cl].call = m.call
  BY <1>2, <1>5, <1>6, <1>7, <1>9 DEF OfCall
<1> QED BY <1>5, <1>10

LEMMA StepSrvReceive ==
    ASSUME IInv, SrvReceive
    PROVE  IInv'
<1>1. PICK m \in reqs : \/ SrvRefuseClient(m) \/ SrvResend(m) \/ SrvBusy(m)
                        \/ SrvMaxObject(m) \/ SrvBadOption(m)
                        \/ SrvExecute(m) \/ SrvStartUnread(m)
  BY DEF SrvReceive
<1>2. Receive(m)
  BY <1>1 DEF SrvRefuseClient, SrvResend, SrvBusy, SrvMaxObject, SrvBadOption,
              SrvExecute, SrvStartUnread, HandOver, NotAnswered
<1>3. /\ UNCHANGED clientVars
      /\ reqs' \subseteq reqs
      /\ UNCHANGED <<performed, lastSend>>
      /\ m \in Request
      /\ RequestInv(m)
  BY <1>1, <1>2, TypeReceive
     DEF Receive, Left, IInv, SrvRefuseClient, SrvResend, SrvBusy, SrvMaxObject,
         SrvBadOption, SrvExecute, SrvStartUnread, HandOver, serverVars
<1>4. TypeOK'
  BY TypeSrvReceive
<1>5. \A n \in reqs' : RequestInv(n)'
  BY <1>3, ServerFrame DEF IInv
<1>6. \A c \in Clients : RecordInv(c)'
  <2> SUFFICES ASSUME NEW c \in Clients PROVE RecordInv(c)'
    OBVIOUS
  <2>1. rec'[c] = rec[c] \/ rec'[c] = Blank
    BY <1>1 DEF SrvRefuseClient, SrvResend, SrvBusy, SrvMaxObject, SrvBadOption,
                SrvExecute, SrvStartUnread, HandOver, NotAnswered, RecordsOf, serverVars
  <2> QED BY <1>3, <2>1, RecordFrame DEF IInv
<1>7. \A r \in reps' : ReplyInv(r)'
  <2>1. CASE \E id \in Refusals : Tell(m, id, m.call)
    <3>1. PICK id \in Refusals : Tell(m, id, m.call)
      BY <2>1
    <3>2. id \notin Answers
      BY RpcAssumption DEF Refusals, Results
    <3> QED BY <1>3, <3>1, <3>2, TellInv
  <2>2. CASE SrvResend(m)
    <3>1. Tell(m, rec[m.cl].id, m.call) /\ <<m.cl, m.call>> \in performed
      BY <2>2, RecordNamesCall DEF SrvResend
    <3> QED BY <1>3, <3>1, TellInv
  <2>3. CASE HandOver(m)
    BY <1>3, <2>3, ServerFrame DEF HandOver, IInv
  <2> QED BY <1>1, <2>1, <2>2, <2>3
          DEF SrvRefuseClient, SrvBusy, SrvMaxObject, SrvBadOption, SrvExecute,
              SrvStartUnread, Refusals
<1>8. ExecInv'
  <2>1. CASE HandOver(m)
    <3>1. lastRecv' = m /\ comp' = FALSE
      BY <2>1 DEF HandOver
    <3>2. RequestInv(m)' /\ m.call \in begun[m.cl]
      BY <1>3, ServerFrame DEF RequestInv, OfCall
    <3> QED BY <1>3, <3>1, <3>2 DEF ExecInv, clientVars, RequestInv, SerialAt, OfCall
  <2>2. CASE UNCHANGED <<spc, comp, lastRecv>>
    <3>1. spc = "recv"
      BY <1>2 DEF Receive
    <3> QED BY <1>3, <2>2, <3>1 DEF ExecInv, IInv, clientVars
  <2> QED BY <1>1, <2>1, <2>2
          DEF SrvRefuseClient, SrvResend, SrvBusy, SrvMaxObject, SrvBadOption,
              SrvExecute, SrvStartUnread, serverVars
<1> QED BY <1>3, <1>4, <1>5, <1>6, <1>7, <1>8, ServerFrame DEF IInv

LEMMA StepServer ==
    ASSUME IInv, \/ LoseRequest \/ LoseReply \/ SrvExecuting \/ SrvExecTimeout
                 \/ SrvReply \/ ExecThread \/ ThreadEnding
    PROVE  IInv'
<1>1. TypeOK'
  BY TypeServer
<1>2. /\ UNCHANGED clientVars
      /\ reqs' \subseteq reqs
      /\ performed \subseteq performed'
  BY DEF LoseRequest, LoseReply, SrvExecuting, SrvExecTimeout, SrvReply,
         ExecThread, ThreadEnding, SrvExecutingFails, SrvReplyFails, RecvFails,
         RecvThreadEnds, serverVars
<1>3. \A m \in reqs' : RequestInv(m)'
  BY <1>2, ServerFrame DEF IInv
<1>4. ASSUME UNCHANGED rec
      PROVE  \A c \in Clients : RecordInv(c)'
  BY <1>2, <1>4, RecordFrame DEF IInv
<1>5. CASE LoseRequest \/ LoseReply
  <2>1. /\ UNCHANGED serverVars
        /\ reps' \subseteq reps
    BY <1>5 DEF LoseRequest, LoseReply
  <2>2. ExecInv'
    BY <1>2, <2>1, ServerFrame DEF ExecInv, IInv, serverVars, clientVars
  <2>3. \A r \in reps' : ReplyInv(r)'
    BY <1>2, <2>1, ServerFrame DEF IInv
  <2> QED BY <1>1, <1>2, <1>3, <1>4, <2>1, <2>2, <2>3, ServerFrame
          DEF IInv, serverVars
<1>6. CASE SrvExecuting \/ SrvExecTimeout
  <2>1. /\ spc = "wait" /\ ~comp
        /\ Respond(lastRecv, "S_EXECUTING", lastRecv.call)
        /\ UNCHANGED <<comp, lastRecv, rec>>
    BY <1>6 DEF SrvExecuting, SrvExecTimeout
  <2>2. RequestInv(lastRecv)
    BY <2>1 DEF IInv, ExecInv
  <2>3. \A r \in reps' : ReplyInv(r)'
    BY <1>2, <2>1, <2>2, RespondInv, RpcAssumption DEF Results
  <2>4. RequestInv(lastRecv)'
    BY <1>2, <2>1, <2>2, ServerFrame DEF RequestInv, SerialAt, OfCall, clientVars
  <2>5. ExecInv'
    BY <1>2, <2>1, <2>4 DEF ExecInv, IInv, clientVars
  <2> QED BY <1>1, <1>2, <1>3, <1>4, <2>1, <2>3, <2>5, ServerFrame DEF IInv
<1>7. CASE SrvReply
  <2>1. /\ spc = "wait" /\ comp /\ spc' = "recv" /\ comp'
        /\ UNCHANGED <<lastRecv, lastSend>>
        /\ Respond(lastRecv, lastSend.id, lastSend.call)
    BY <1>7 DEF SrvReply
  <2>2. /\ RequestInv(lastRecv)
        /\ lastSend.id \in Answers
        /\ lastSend.serial = lastRecv.serial
        /\ lastSend.att = lastRecv.att
        /\ lastSend.call = lastRecv.call
        /\ <<lastRecv.cl, lastRecv.call>> \in performed
    BY <2>1 DEF IInv, ExecInv
  <2>3. \A r \in reps' : ReplyInv(r)'
    BY <1>2, <2>1, <2>2, RespondInv
  <2>4. ExecInv'
    BY <2>1 DEF ExecInv
  <2>5. \A c \in Clients : RecordInv(c)'
    <3> SUFFICES ASSUME NEW c \in Clients PROVE RecordInv(c)'
      OBVIOUS
    <3>1. CASE rec'[c] = rec[c] \/ rec'[c] = Blank
      BY <1>2, <3>1, RecordFrame DEF IInv
    <3>2. CASE c = lastRecv.cl /\ rec'[c] = lastSend
      <4>1. /\ OfCall(c, lastSend.call, lastSend.att)
            /\ SerialAt(c, lastSend.att, lastSend.serial)
        BY <2>2, <3>2 DEF RequestInv
      <4>2. UNCHANGED <<att, serial, begun, lastSend>>
        BY <1>2, <2>1 DEF clientVars
      <4>3. /\ OfCall(c, lastSend.call, lastSend.att)'
            /\ SerialAt(c, lastSend.att, lastSend.serial)'
        BY <4>1, <4>2 DEF OfCall, SerialAt
      <4> QED BY <1>2, <2>1, <2>2, <3>2, <4>3
              DEF RecordInv, OfCall, SerialAt
    <3>3. c = lastRecv.cl => rec'[c] = Blank \/ rec'[c] = lastSend
      BY <1>7 DEF SrvReply, IInv, TypeOK
    <3>4. c # lastRecv.cl => rec'[c] = rec[c]
      BY <1>7 DEF SrvReply, IInv, TypeOK
    <3> QED BY <3>1, <3>2, <3>3, <3>4
  <2> QED BY <1>1, <1>2, <1>3, <2>3, <2>4, <2>5, ServerFrame DEF IInv
<1>8. CASE ExecThread
  <2>1. /\ comp' /\ UNCHANGED <<spc, lastRecv, rec, reps>>
        /\ \E id \in Answers :
              lastSend' = [serial |-> lastRecv.serial, id |-> id,
                           att |-> lastRecv.att, call |-> lastRecv.call]
        /\ <<lastRecv.cl, lastRecv.call>> \in performed'
    BY <1>8 DEF ExecThread
  <2>2. \A r \in reps' : ReplyInv(r)'
    BY <1>2, <2>1, ServerFrame DEF IInv
  <2>3. spc = "wait" => RequestInv(lastRecv)'
    BY <1>2, <2>1, ServerFrame
       DEF IInv, ExecInv, RequestInv, SerialAt, OfCall, clientVars
  <2>4. ExecInv'
    BY <2>1, <2>3 DEF ExecInv
  <2> QED BY <1>1, <1>2, <1>3, <1>4, <2>1, <2>2, <2>4, ServerFrame DEF IInv
<1>9. CASE ThreadEnding
  <2>1. /\ UNCHANGED <<reqs, reps, comp, lastRecv, lastSend, performed>>
        /\ spc' # "wait"
        /\ \A c \in Clients : rec'[c] = rec[c] \/ rec'[c] = Blank
    BY <1>9, EndingFrame DEF IInv
  <2>2. ExecInv'
    BY <1>2, <2>1 DEF IInv, ExecInv, clientVars
  <2>3. \A r \in reps' : ReplyInv(r)'
    BY <1>2, <2>1, ServerFrame DEF IInv
  <2>4. \A c \in Clients : RecordInv(c)'
    BY <1>2, <2>1, RecordFrame DEF IInv
  <2> QED BY <1>1, <1>2, <1>3, <2>2, <2>3, <2>4, ServerFrame DEF IInv
<1> QED BY <1>5, <1>6, <1>7, <1>8, <1>9
-----------------------------------------------------------------------------
(* Steps of the client *)

\* Beginning a call leaves the attempts made so far with their calls.
LEMMA StepClientCall ==
    ASSUME IInv, NEW c \in Clients, ClientCall(c)
    PROVE  IInv'
<1>1. TypeOK'
  BY TypeClient DEF ClientNext
<1>2. /\ UNCHANGED <<att, serial, sent, reqs, reps, spc, comp, lastRecv, lastSend,
                     rec, performed>>
      /\ begun' = [begun EXCEPT ![c] = @ \cup {att[c] + 1}]
      /\ begun \in [Clients -> SUBSET Nat] /\ att \in [Clients -> Nat]
  BY DEF ClientCall, serverVars, IInv, TypeOK
<1>3. ASSUME NEW d \in Clients, NEW k, NEW a \in Nat, OfCall(d, k, a)
      PROVE  OfCall(d, k, a)'
  <2>1. CASE d = c
    <3>1. a <= att[c] /\ att[c] \in Nat /\ begun'[c] = begun[c] \cup {att[c] + 1}
      BY <1>2, <1>3, <2>1 DEF OfCall
    <3> QED BY <1>2, <1>3, <2>1, <3>1 DEF OfCall
  <2>2. CASE d # c
    BY <1>2, <1>3, <2>2 DEF OfCall
  <2> QED BY <2>1, <2>2
<1>4. \A d, a, s : SerialAt(d, a, s) => SerialAt(d, a, s)'
  BY <1>2 DEF SerialAt
<1>5. ASSUME NEW m, m.cl \in Clients, m.att \in Nat, RequestInv(m)
      PROVE  RequestInv(m)'
  BY <1>3, <1>4, <1>5 DEF RequestInv
<1>6. \A m \in reqs' : RequestInv(m)'
  BY <1>2, <1>5 DEF IInv, TypeOK, Request
<1>7. \A r \in reps' : ReplyInv(r)'
  <2> SUFFICES ASSUME NEW r \in reps PROVE ReplyInv(r)'
    BY <1>2
  <2>1. r.cl \in Clients /\ r.att \in Nat /\ ReplyInv(r)
    BY DEF IInv, TypeOK, Reply
  <2> QED BY <1>2, <1>3, <1>4, <2>1 DEF ReplyInv
<1>8. \A d \in Clients : RecordInv(d)'
  <2> SUFFICES ASSUME NEW d \in Clients PROVE RecordInv(d)'
    OBVIOUS
  <2>1. RecordInv(d) /\ rec[d].att \in Nat /\ rec'[d] = rec[d]
    BY <1>2 DEF IInv, TypeOK, Record
  <2>2. Blank' = Blank
    BY DEF Blank
  <2> QED BY <1>2, <1>3, <1>4, <2>1, <2>2 DEF RecordInv
<1>9. ExecInv'
  <2>1. /\ lastRecv' = lastRecv /\ lastRecv.cl \in Clients /\ lastRecv.att \in Nat
        /\ ExecInv
    BY <1>2 DEF IInv, TypeOK
  <2>2. ~comp' => (lastRecv.call \in begun[lastRecv.cl])'
    BY <1>2, <2>1 DEF ExecInv
  <2>3. spc = "wait" => RequestInv(lastRecv)'
    <3> SUFFICES ASSUME spc = "wait" PROVE RequestInv(lastRecv)'
      OBVIOUS
    <3>1. RequestInv(lastRecv)
      BY <2>1 DEF ExecInv
    <3> DEFINE m == lastRecv
    <3>2. OfCall(m.cl, m.call, m.att)'
      <4>1. OfCall(m.cl, m.call, m.att)
        BY <3>1 DEF RequestInv
      <4>2. CASE m.cl = c
        <5>1. m.att <= att[c] /\ att[c] \in Nat
              /\ begun'[c] = begun[c] \cup {att[c] + 1}
          BY <1>2, <4>1, <4>2 DEF OfCall
        <5> QED BY <1>2, <2>1, <4>1, <4>2, <5>1 DEF OfCall
      <4>3. CASE m.cl # c
        BY <1>2, <2>1, <4>1, <4>3 DEF OfCall
      <4> QED BY <4>2, <4>3
    <3>3. /\ SerialAt(m.cl, m.att, m.serial)'
          /\ SerialAt(m.cl, m.call, m.reserv)'
      BY <1>2, <2>1, <3>1 DEF RequestInv, SerialAt
    <3> QED BY <2>1, <3>1, <3>2, <3>3 DEF RequestInv
  <2> QED BY <1>2, <2>1, <2>2, <2>3 DEF ExecInv
<1>10. \A d \in Clients : ClientInv(d)'
  <2> SUFFICES ASSUME NEW d \in Clients PROVE ClientInv(d)'
    OBVIOUS
  <2>1. ClientInv(d) /\ ClientInv(c)
    BY DEF IInv
  <2>2. CASE d = c
    <3>1. /\ cpc[c] = "idle" /\ cpc'[c] = "send" /\ tries'[c] = 0
          /\ callId'[c] = att[c] + 1
          /\ reserv'[c] = serial[c] /\ serial[c] \in 1..SerialMax
          /\ begun'[c] = begun[c] \cup {att[c] + 1}
          /\ att[c] \in Nat /\ callId[c] \in Nat /\ begun[c] \subseteq Nat
      BY <1>2 DEF ClientCall, IInv, TypeOK
    <3>2. serial'[c] - reserv'[c] = tries'[c] /\ 0 < reserv'[c] /\ 0 < Retry
      BY <1>2, <3>1, RpcAssumption
    <3>3. /\ \A b \in begun'[c] : 0 < b /\ b <= callId'[c]
          /\ callId'[c] \in begun'[c] /\ callId'[c] # 0
          /\ callId'[c] + tries'[c] = att'[c] + 1
      BY <1>2, <2>1, <3>1 DEF ClientInv
    <3> QED BY <2>2, <3>1, <3>2, <3>3 DEF ClientInv
  <2>3. CASE d # c
    BY <1>2, <2>1, <2>3 DEF ClientCall, ClientInv, SerialAt, IInv, TypeOK
  <2> QED BY <2>2, <2>3
<1>11. ResultIsOfThisCall'
  BY <1>2 DEF ClientCall, IInv, TypeOK, ResultIsOfThisCall, NoResult
<1> QED BY <1>1, <1>6, <1>7, <1>8, <1>9, <1>10, <1>11 DEF IInv

\* What a new attempt keeps of the datagrams and of the server.
LEMMA StepTakeSerial ==
    ASSUME IInv, NEW c \in Clients, TakeSerial(c)
    PROVE  /\ \A m \in Alive(reqs, c) : RequestInv(m)'
           /\ \A r \in reps' : ReplyInv(r)'
           /\ \A d \in Clients : RecordInv(d)'
           /\ ExecInv'
<1>1. /\ UNCHANGED <<reserv, kind, callId, begun, spc, comp, lastRecv, lastSend,
                     rec, performed>>
      /\ reps' = Alive(reps, c)
      /\ ServerInCycle(c)
      /\ TypeOK
  BY DEF TakeSerial, serverVars, IInv
<1>2. ASSUME NEW d \in Clients, NEW k \in Nat, NEW a \in Nat, OfCall(d, k, a),
             c = d => InCycle(att[c] + 1, k)
      PROVE  /\ OfCall(d, k, a)'
             /\ c = d => InCycle(att[c] + 1, a)
  <2>1. OfCall(d, k, a)'
    BY <1>1, <1>2, OfCallNext
  <2>2. k <= a /\ att[c] \in Nat /\ SerialMax \in Nat
    BY <1>1, <1>2, RpcAssumption DEF OfCall, TypeOK
  <2> QED BY <1>2, <2>1, <2>2 DEF InCycle
<1>3. \A m \in Alive(reqs, c) : RequestInv(m)'
  <2> SUFFICES ASSUME NEW m \in Alive(reqs, c) PROVE RequestInv(m)'
    OBVIOUS
  <2>1. /\ m \in Request /\ RequestInv(m)
        /\ m.cl = c => InCycle(att[c] + 1, m.call)
    BY DEF IInv, TypeOK, Alive
  <2>2. /\ m.cl \in Clients /\ m.call \in Nat /\ m.att \in Nat
        /\ m.serial \in 0..SerialMax /\ m.reserv \in 0..SerialMax
    BY <2>1, RpcAssumption DEF Request
  <2>3. /\ OfCall(m.cl, m.call, m.att)'
        /\ c = m.cl => InCycle(att[c] + 1, m.att)
    BY <1>2, <2>1, <2>2 DEF RequestInv
  <2>4. SerialAt(m.cl, m.att, m.serial)'
    BY <1>1, <2>1, <2>2, <2>3, StampNext DEF RequestInv
  <2>5. SerialAt(m.cl, m.call, m.reserv)'
    BY <1>1, <2>1, <2>2, StampNext DEF RequestInv
  <2> QED BY <2>1, <2>3, <2>4, <2>5 DEF RequestInv
<1>4. \A r \in reps' : ReplyInv(r)'
  <2> SUFFICES ASSUME NEW r \in Alive(reps, c) PROVE ReplyInv(r)'
    BY <1>1
  <2>1. /\ r \in Reply /\ ReplyInv(r)
        /\ r.cl = c => InCycle(att[c] + 1, r.call)
    BY DEF IInv, TypeOK, Alive
  <2>2. /\ r.cl \in Clients /\ r.call \in Nat /\ r.att \in Nat
        /\ r.serial \in 0..SerialMax
    BY <2>1 DEF Reply
  <2>3. /\ OfCall(r.cl, r.call, r.att)'
        /\ c = r.cl => InCycle(att[c] + 1, r.att)
    BY <1>2, <2>1, <2>2 DEF ReplyInv
  <2>4. SerialAt(r.cl, r.att, r.serial)'
    BY <1>1, <2>1, <2>2, <2>3, StampNext DEF ReplyInv
  <2> QED BY <1>1, <2>1, <2>3, <2>4 DEF ReplyInv
<1>5. \A d \in Clients : RecordInv(d)'
  <2> SUFFICES ASSUME NEW d \in Clients, rec[d] # Blank PROVE RecordInv(d)'
    BY <1>1 DEF RecordInv, Blank
  <2> DEFINE e == rec[d]
  <2>1. /\ e \in Record
        /\ e.id \in Answers
        /\ OfCall(d, e.call, e.att)
        /\ SerialAt(d, e.att, e.serial)
        /\ <<d, e.call>> \in performed
        /\ c = d => InCycle(att[c] + 1, e.call)
    BY <1>1 DEF IInv, TypeOK, RecordInv, ServerInCycle
  <2>2. e.call \in Nat /\ e.att \in Nat /\ e.serial \in 0..SerialMax
    BY <2>1 DEF Record
  <2> HIDE DEF e
  <2>3. \A x \in Record : x = e =>
           OfCall(d, x.call, x.att)' /\ SerialAt(d, x.att, x.serial)'
    <3> SUFFICES ASSUME NEW x \in Record, x = e
                 PROVE  OfCall(d, x.call, x.att)' /\ SerialAt(d, x.att, x.serial)'
      OBVIOUS
    <3>1. /\ OfCall(d, x.call, x.att)'
          /\ c = d => InCycle(att[c] + 1, x.att)
      BY <1>2, <2>1, <2>2
    <3>2. SerialAt(d, x.att, x.serial)'
      BY <1>1, <2>1, <2>2, <3>1, StampNext
    <3> QED BY <3>1, <3>2
  <2>4. e' = e
    BY <1>1 DEF e
  <2>5. PICK x \in Record : x = e
    BY <2>1
  <2>6. x = rec'[d]
    BY <2>4, <2>5 DEF e
  <2>7. /\ x.id \in Answers
        /\ OfCall(d, x.call, x.att)'
        /\ SerialAt(d, x.att, x.serial)'
        /\ <<d, x.call>> \in performed'
    BY <1>1, <2>1, <2>3, <2>5
  <2> QED BY <2>6, <2>7 DEF RecordInv, OfCall, SerialAt
<1>6. ExecInv'
  <2>1. ASSUME spc = "wait"
        PROVE  RequestInv(lastRecv)'
    <3>1. PICK m : m = lastRecv
      OBVIOUS
    <3>2. /\ m.cl \in Clients /\ m.call \in Nat /\ m.att \in Nat
          /\ m.serial \in 0..SerialMax /\ m.reserv \in 0..SerialMax
          /\ RequestInv(m)
          /\ m.cl = c => InCycle(att[c] + 1, m.call)
      BY <1>1, <2>1, <3>1 DEF TypeOK, IInv, ExecInv, ServerInCycle
    <3>3. /\ OfCall(m.cl, m.call, m.att)'
          /\ c = m.cl => InCycle(att[c] + 1, m.att)
      BY <1>2, <3>2 DEF RequestInv
    <3>4. SerialAt(m.cl, m.att, m.serial)'
      BY <1>1, <3>2, <3>3, StampNext DEF RequestInv
    <3>5. SerialAt(m.cl, m.call, m.reserv)'
      BY <1>1, <3>2, StampNext DEF RequestInv
    <3>6. m = lastRecv'
      BY <1>1, <3>1
    <3> QED BY <3>2, <3>3, <3>4, <3>5, <3>6 DEF RequestInv, OfCall, SerialAt
  <2> QED BY <1>1, <2>1 DEF IInv, ExecInv
<1> QED BY <1>3, <1>4, <1>5, <1>6

LEMMA OtherClientFrame ==
    ASSUME IInv, NEW c \in Clients, TakeSerial(c), NEW d \in Clients, d # c,
           cpc'[d] = cpc[d]
    PROVE  ClientInv(d)'
<1>1. ClientInv(d)
  BY DEF IInv
<1>2. UNCHANGED <<serial[d], sent[d], att[d], tries[d], reserv, callId, begun>>
  BY DEF TakeSerial, IInv, TypeOK
<1> QED BY <1>1, <1>2 DEF ClientInv, SerialAt

LEMMA StepClientSend ==
    ASSUME IInv, NEW c \in Clients, ClientSend(c)
    PROVE  IInv'
<1>1. TypeOK' /\ TypeOK /\ ClientInv(c)
  BY TypeClient DEF ClientNext, IInv
<1>2. /\ TakeSerial(c)
      /\ cpc[c] = "send" /\ cpc' = [cpc EXCEPT ![c] = "recv"]
      /\ result' = result /\ performed' = performed
      /\ UNCHANGED <<reserv, callId, begun>>
  BY DEF ClientSend, TakeSerial, serverVars
<1>3. /\ att[c] \in Nat /\ att'[c] = att[c] + 1
      /\ callId[c] \in Nat
      /\ tries[c] \in 0..Retry /\ tries'[c] = tries[c] + 1
      /\ serial[c] \in 1..SerialMax /\ reserv[c] \in 0..SerialMax
      /\ serial'[c] = IF serial[c] = SerialMax THEN 1 ELSE serial[c] + 1
      /\ sent'[c] = serial[c]
  BY <1>1, <1>2 DEF TakeSerial, TypeOK, NextSerial
<1>4. /\ callId[c] + tries[c] = att[c] + 1
      /\ tries[c] < Retry
      /\ callId[c] # 0 /\ 0 < reserv[c]
      /\ callId[c] \in begun[c]
      /\ \A b \in begun[c] : 0 < b /\ b <= callId[c]
      /\ \/ serial[c] - reserv[c] = tries[c]
         \/ serial[c] - reserv[c] + SerialMax = tries[c]
  BY <1>1, <1>2 DEF ClientInv
<1>5. SerialMax \in Nat /\ Retry \in Nat /\ Retry <= SerialMax
  BY RpcAssumption
<1>6. PICK a \in Nat, k \in Nat, s \in 1..SerialMax, v \in 0..SerialMax :
         a = att[c] + 1 /\ k = callId[c] /\ s = serial[c] /\ v = reserv[c]
  BY <1>3
\* The attempt is numbered with the serial taken, the call with its first one.
<1>7. SerialAt(c, a, s)'
  <2>1. a <= att'[c] /\ att'[c] - a < SerialMax
    BY <1>3, <1>4, <1>5, <1>6
  <2>2. \/ serial'[c] - s = att'[c] + 1 - a
        \/ serial'[c] - s + SerialMax = att'[c] + 1 - a
    <3>1. att'[c] = a /\ a \in Nat /\ s \in Nat
      BY <1>3, <1>6
    <3>2. att'[c] + 1 - a = 1
      BY <3>1
    <3>3. (serial'[c] = 1 /\ s = SerialMax) \/ serial'[c] = s + 1
      BY <1>3, <1>6
    <3> QED BY <1>5, <3>1, <3>2, <3>3
  <2> QED BY <2>1, <2>2 DEF SerialAt
<1>8. SerialAt(c, k, v)'
  <2>1. k <= att'[c] /\ att'[c] - k = tries[c] /\ att'[c] - k < SerialMax
    BY <1>3, <1>4, <1>5, <1>6
  <2>2. \/ serial'[c] - v = att'[c] + 1 - k
        \/ serial'[c] - v + SerialMax = att'[c] + 1 - k
    BY <1>3, <1>4, <1>5, <1>6
  <2> QED BY <2>1, <2>2 DEF SerialAt
<1>9. OfCall(c, k, a)'
  BY <1>2, <1>3, <1>4, <1>6 DEF OfCall
<1>10. \A m \in reqs' : RequestInv(m)'
  <2> SUFFICES ASSUME NEW m \in reqs' PROVE RequestInv(m)'
    OBVIOUS
  <2>1. CASE m \in Alive(reqs, c)
    BY <1>2, <2>1, StepTakeSerial
  <2>2. CASE m = [cl |-> c, serial |-> s, reserv |-> v, kind |-> kind[c],
                  att |-> a, call |-> k]
    <3>1. m.cl = c /\ m.serial = s /\ m.reserv = v /\ m.att = a /\ m.call = k
      BY <2>2
    <3> QED BY <1>4, <1>6, <1>7, <1>8, <1>9, <3>1 DEF RequestInv
  <2> QED BY <1>6, <2>1, <2>2 DEF ClientSend
<1>11. ClientInv(c)'
  <2>1. cpc'[c] = "recv"
    BY <1>1, <1>2 DEF TypeOK
  <2>2. SerialAt(c, att[c], sent[c])'
    BY <1>3, <1>6, <1>7 DEF SerialAt
  <2>3. \/ serial'[c] - reserv'[c] = tries'[c]
        \/ serial'[c] - reserv'[c] + SerialMax = tries'[c]
    BY <1>2, <1>3, <1>4, <1>5
  <2> QED BY <1>2, <1>3, <1>4, <2>1, <2>2, <2>3 DEF ClientInv
<1>12. \A d \in Clients : ClientInv(d)'
  BY <1>1, <1>2, <1>11, OtherClientFrame DEF TypeOK
<1>13. ResultIsOfThisCall'
  BY <1>1, <1>2 DEF IInv, TypeOK, ResultIsOfThisCall
<1> QED BY <1>1, <1>2, <1>10, <1>12, <1>13, StepTakeSerial DEF IInv

LEMMA StepClientSendFails ==
    ASSUME IInv, NEW c \in Clients, ClientSendFails(c)
    PROVE  IInv'
<1>1. TypeOK' /\ TypeOK /\ ClientInv(c)
  BY TypeClient DEF ClientNext, IInv
<1>2. /\ TakeSerial(c) /\ reqs' = Alive(reqs, c)
      /\ cpc[c] = "send" /\ cpc' = [cpc EXCEPT ![c] = "idle"]
      /\ result' = [result EXCEPT ![c] = [id |-> "E_SEND", call |-> callId[c]]]
      /\ UNCHANGED <<reserv, callId, begun, performed>>
      /\ att'[c] = att[c] + 1 /\ att[c] \in Nat
      /\ callId[c] \in Nat /\ tries[c] \in Nat
  BY <1>1 DEF ClientSendFails, TakeSerial, serverVars, TypeOK
<1>3. ClientInv(c)'
  BY <1>1, <1>2 DEF ClientInv, TypeOK
<1>4. \A d \in Clients : ClientInv(d)'
  BY <1>1, <1>2, <1>3, OtherClientFrame DEF TypeOK
<1>5. ResultIsOfThisCall'
  BY <1>1, <1>2, RpcAssumption DEF IInv, TypeOK, ResultIsOfThisCall, Results
<1> QED BY <1>1, <1>2, <1>4, <1>5, StepTakeSerial DEF IInv

\* Steps of the receive loop: only the control state and the result change.
LEMMA ReceiveFrame ==
    ASSUME IInv, NEW c \in Clients, TypeOK', reps' \subseteq reps,
           UNCHANGED <<serial, sent, reserv, tries, kind, att, callId, begun,
                       reqs, serverVars>>
    PROVE  /\ \A m \in reqs' : RequestInv(m)'
           /\ \A r \in reps' : ReplyInv(r)'
           /\ \A d \in Clients : RecordInv(d)'
           /\ ExecInv'
<1> USE DEF serverVars
<1>1. \A x, a, k, s : /\ SerialAt(x, a, s) <=> SerialAt(x, a, s)'
                      /\ OfCall(x, k, a) <=> OfCall(x, k, a)'
  BY StampFrame
<1>2. \A m \in reqs' : RequestInv(m)'
  BY <1>1 DEF IInv, RequestInv
<1>3. \A r \in reps' : ReplyInv(r)'
  BY <1>1 DEF IInv, ReplyInv
<1>4. \A d \in Clients : RecordInv(d)'
  BY <1>1 DEF IInv, RecordInv, Blank, OfCall, SerialAt
<1>5. ExecInv'
  BY DEF IInv, ExecInv, RequestInv, OfCall, SerialAt
<1> QED BY <1>2, <1>3, <1>4, <1>5

\* The answer send_receive accepts is to its latest attempt, hence of its call.
LEMMA StepClientAccept ==
    ASSUME IInv, NEW c \in Clients, ClientAccept(c)
    PROVE  IInv'
<1>1. TypeOK' /\ TypeOK /\ ClientInv(c)
  BY TypeClient DEF ClientNext, IInv
<1>2. PICK r \in reps : /\ r.cl = c /\ Accepts(c, r)
                        /\ reps' \in Left(reps, r)
                        /\ result' = [result EXCEPT ![c] =
                                         [id |-> r.id, call |-> r.call]]
  BY DEF ClientAccept
<1>3. /\ cpc[c] = "recv" /\ cpc' = [cpc EXCEPT ![c] = "idle"]
      /\ reps' \subseteq reps
      /\ UNCHANGED <<serial, sent, reserv, tries, kind, att, callId, begun,
                     reqs, serverVars>>
  BY <1>2 DEF ClientAccept, Left
<1>4. /\ r.att \in Nat /\ r.call \in Nat
      /\ OfCall(c, r.call, r.att) /\ SerialAt(c, r.att, sent[c])
      /\ r.id \in Answers => <<c, r.call>> \in performed
  BY <1>1, <1>2 DEF IInv, TypeOK, Reply, ReplyInv, Accepts
<1>5. /\ SerialAt(c, att[c], sent[c])
      /\ att[c] \in Nat /\ sent[c] \in 0..SerialMax
      /\ callId[c] \in begun[c]
      /\ callId[c] \in Nat /\ callId[c] <= att[c]
      /\ \A b \in begun[c] : b <= callId[c]
  BY <1>1, <1>3 DEF ClientInv, TypeOK
<1>6. r.att = att[c]
  BY <1>1, <1>4, <1>5, SerialNamesAttempt
<1>7. r.call = callId[c]
  BY <1>4, <1>5, <1>6 DEF OfCall
<1>8. ResultIsOfThisCall'
  <2> SUFFICES ASSUME NEW d \in Clients, cpc'[d] = "idle", result'[d].id # "none"
               PROVE  /\ result'[d].call = callId'[d]
                      /\ result'[d].id \in Answers => <<d, callId'[d]>> \in performed'
    BY DEF ResultIsOfThisCall
  <2>1. callId' = callId /\ performed' = performed
    BY <1>3 DEF serverVars
  <2>2. CASE d = c
    <3>1. result'[c] = [id |-> r.id, call |-> r.call]
      BY <1>1, <1>2 DEF TypeOK
    <3> QED BY <1>4, <1>7, <2>1, <2>2, <3>1
  <2>3. CASE d # c
    <3>1. result'[d] = result[d] /\ cpc'[d] = cpc[d]
      BY <1>1, <1>2, <1>3, <2>3 DEF TypeOK
    <3> QED BY <2>1, <2>3, <3>1 DEF IInv, ResultIsOfThisCall
  <2> QED BY <2>2, <2>3
<1>9. \A d \in Clients : ClientInv(d)'
  BY <1>1, <1>3, <1>5 DEF IInv, TypeOK, ClientInv, SerialAt
<1> QED BY <1>1, <1>3, <1>8, <1>9, ReceiveFrame DEF IInv

LEMMA StepClientSkip ==
    ASSUME IInv, NEW c \in Clients, ClientSkip(c)
    PROVE  IInv'
<1>1. TypeOK'
  BY TypeClient DEF ClientNext
<1>2. reps' \subseteq reps /\ UNCHANGED <<clientVars, reqs, serverVars>>
  BY DEF ClientSkip
<1>3. ResultIsOfThisCall' /\ \A d \in Clients : ClientInv(d)'
  BY <1>2, ServerFrame DEF serverVars
<1> QED BY <1>1, <1>2, <1>3, ReceiveFrame DEF IInv, clientVars

LEMMA StepClientTimeout ==
    ASSUME IInv, NEW c \in Clients, ClientTimeout(c)
    PROVE  IInv'
<1>1. TypeOK' /\ TypeOK /\ ClientInv(c)
  BY TypeClient DEF ClientNext, IInv
<1>2. /\ cpc[c] = "recv"
      /\ UNCHANGED <<serial, sent, reserv, tries, kind, att, callId, begun,
                     reqs, reps, serverVars>>
      /\ \/ /\ tries[c] < Retry /\ cpc' = [cpc EXCEPT ![c] = "send"]
            /\ result' = result
         \/ /\ cpc' = [cpc EXCEPT ![c] = "idle"]
            /\ result' = [result EXCEPT ![c] =
                             [id |-> "E_TIMEOUT", call |-> callId[c]]]
  BY DEF ClientTimeout
<1>3. \A d \in Clients : ClientInv(d)'
  BY <1>1, <1>2 DEF IInv, TypeOK, ClientInv, SerialAt
<1>4. ResultIsOfThisCall'
  BY <1>1, <1>2, RpcAssumption
     DEF IInv, TypeOK, ResultIsOfThisCall, Results, serverVars
<1> QED BY <1>1, <1>2, <1>3, <1>4, ReceiveFrame DEF IInv
-----------------------------------------------------------------------------
LEMMA StepIInv == IInv /\ [Next]_vars => IInv'
<1> SUFFICES ASSUME IInv, [Next]_vars PROVE IInv'
  OBVIOUS
<1>1. CASE UNCHANGED vars
  BY <1>1, TypeStep DEF IInv, vars, clientVars, serverVars, ClientInv, RequestInv,
     ReplyInv, RecordInv, ExecInv, ResultIsOfThisCall, OfCall, SerialAt, Blank
<1>2. ASSUME NEW c \in Clients, ClientNext(c) PROVE IInv'
  BY <1>2, StepClientCall, StepClientSend, StepClientSendFails, StepClientAccept,
     StepClientSkip, StepClientTimeout DEF ClientNext
<1> QED BY <1>1, <1>2, StepSrvReceive, StepServer
    DEF Next, BoundsReached, ThreadEnding

\* The inductive invariant holds in every reachable state.
THEOREM Invariance == Spec => []IInv
BY InitIInv, StepIInv, PTL DEF Spec

\* Every variable keeps its type.
THEOREM TypeCorrect == Spec => []TypeOK
<1>1. IInv => TypeOK
  BY DEF IInv
<1> QED BY <1>1, Invariance, PTL

\* send_receive and the answers kept by the server never mix up calls, for
\* every width of the serial, number of attempts and set of faults.
THEOREM ResultsAreOfTheirCalls == Spec => []ResultIsOfThisCall
<1>1. IInv => ResultIsOfThisCall
  BY DEF IInv
<1> QED BY <1>1, Invariance, PTL
-----------------------------------------------------------------------------
(* A retry is never executed again                                         *)
(*                                                                         *)
(* What is asked of the environment: answers may be lost, datagrams may be *)
(* duplicated and sends may fail, but requests arrive, in order, and in    *)
(* time; the children of the server are enough for its clients; and a      *)
(* client that creates objects does not share the server, for another could*)
(* free one between two of its attempts.  Options of ServiceStart are read.*)
Orderly ==
    /\ Faults \subseteq {"loseReply", "duplicate", "sendFails"}
    /\ Kinds \subseteq {"start", "stop", "call"}
    /\ IsFiniteSet(Clients)
    /\ Cardinality(Clients) <= MaxClients
    /\ "start" \in Kinds => \E c : Clients = {c}

\* The first attempt of call k is on its way.
First(c, k) == \E n \in reqs : n.cl = c /\ n.call = k /\ n.att = k

\* The first attempt of call k of function f has been received: nothing older is
\* on its way, and a retry finds the answer, or finds what the first one found.
Covered(c, k, s, f) ==
    /\ \A n \in reqs : n.cl = c => k <= n.call
    /\ spc = "wait" /\ lastRecv.cl = c => lastRecv.call = k
    /\ \/ f = "stop"
       \/ rec[c].serial = s
       \/ spc = "wait" /\ lastRecv.cl = c
       \/ f = "start" /\ objs >= MaxObjects

\* A call of which an attempt is on its way or may still be made.
Pending(c, k, s, f) ==
    \/ \E m \in reqs : m.cl = c /\ m.call = k /\ m.reserv = s /\ m.kind = f
    \/ /\ c \in Clients /\ cpc[c] # "idle" /\ 0 < tries[c]
       /\ k = callId[c] /\ s = reserv[c] /\ f = kind[c]

\* What such a call can count on: if it was performed, its answer is recorded.
Asked(c, k, s, f) ==
    /\ f \in Kinds
    /\ First(c, k) \/ Covered(c, k, s, f)
    /\ f # "stop" /\ <<c, k>> \in performed =>
          \/ rec[c].serial = s
          \/ spc = "wait" /\ comp /\ lastRecv.cl = c /\ lastRecv.call = k
    /\ \A n \in reqs : n.cl = c /\ n.call = k => n.kind = f
    /\ spc = "wait" /\ lastRecv.cl = c /\ lastRecv.call = k => lastRecv.kind = f
    /\ \A p \in performed : p[1] = c => p[2] <= k

\* The request that is executed is the first attempt of its call, of the oldest
\* call its client has on its way, and has not been performed yet.
Executed ==
    /\ lastRecv.cl \in child
    /\ lastRecv.kind # "stop" => lastRecv.serial = lastRecv.reserv
    /\ \A n \in reqs : n.cl = lastRecv.cl => lastRecv.call <= n.call
    /\ \A p \in performed : p[1] = lastRecv.cl => p[2] <= lastRecv.call
    /\ ~comp /\ lastRecv.kind # "stop" => <<lastRecv.cl, lastRecv.call>> \notin performed

OnceInv ==
    /\ \A c, k, s, f : Pending(c, k, s, f) => Asked(c, k, s, f)
    /\ \A c \in Clients : /\ cpc[c] # "idle" => kind[c] \in Kinds
                          /\ c \notin child => rec[c] = Blank
    /\ \A p \in performed : p[2] <= att[p[1]]
    /\ ~comp => spc = "wait"
    /\ spc = "wait" => Executed
    /\ AtMostOnce

\* The first serial of a call is one number, and its call one of the client's.
LEMMA PendingStamp ==
    ASSUME IInv, NEW c, NEW k, NEW s, NEW f, Pending(c, k, s, f)
    PROVE  /\ c \in Clients /\ k \in Nat /\ s \in 1..SerialMax
           /\ k \in begun[c] /\ k <= callId[c] /\ callId[c] \in Nat
           /\ SerialAt(c, k, s)
<1>1. CASE \E m \in reqs : m.cl = c /\ m.call = k /\ m.reserv = s /\ m.kind = f
  <2>1. PICK m \in reqs : m.cl = c /\ m.call = k /\ m.reserv = s
    BY <1>1
  <2>2. m \in Request /\ RequestInv(m)
    BY DEF IInv, TypeOK
  <2>3. c \in Clients /\ k \in Nat /\ s \in 0..SerialMax
    BY <2>1, <2>2 DEF Request
  <2>4. k \in begun[c] /\ SerialAt(c, k, s) /\ 0 < s
    BY <2>1, <2>2 DEF RequestInv, OfCall
  <2> QED BY <2>3, <2>4, RpcAssumption DEF IInv, TypeOK, ClientInv
<1>2. CASE /\ c \in Clients /\ cpc[c] # "idle" /\ 0 < tries[c]
           /\ k = callId[c] /\ s = reserv[c]
  <2>1. /\ ClientInv(c) /\ k \in Nat /\ s \in 0..SerialMax
        /\ tries[c] \in 0..Retry /\ att[c] \in Nat /\ serial[c] \in 1..SerialMax
    BY <1>2 DEF IInv, TypeOK
  <2>2. /\ k + tries[c] = att[c] + 1 /\ 0 < s /\ k # 0 /\ k \in begun[c]
        /\ \/ serial[c] - s = tries[c]
           \/ serial[c] - s + SerialMax = tries[c]
    BY <1>2, <2>1 DEF ClientInv
  <2>3. SerialMax \in Nat /\ Retry \in Nat /\ Retry <= SerialMax
    BY RpcAssumption
  <2>4. SerialAt(c, k, s)
    BY <1>2, <2>1, <2>2, <2>3 DEF SerialAt
  <2> QED BY <1>2, <2>1, <2>2, <2>3, <2>4
<1> QED BY <1>1, <1>2 DEF Pending

LEMMA OneFirstSerial ==
    ASSUME TypeOK, NEW c \in Clients, NEW k \in Nat, NEW s \in 1..SerialMax,
           NEW t \in 1..SerialMax, SerialAt(c, k, s), SerialAt(c, k, t)
    PROVE  s = t
BY RpcAssumption DEF TypeOK, SerialAt

\* A request the server may take is of the oldest call, at its oldest attempt.
LEMMA OldestFirst ==
    ASSUME IInv, Orderly, NEW m \in reqs, Deliverable(m), NEW n \in reqs, n.cl = m.cl
    PROVE  m.att <= n.att /\ m.call <= n.call
<1>1. m \in Request /\ n \in Request /\ RequestInv(m) /\ RequestInv(n)
  BY DEF IInv, TypeOK
<1>2. /\ m.cl \in Clients /\ m.att \in Nat /\ n.att \in Nat
      /\ m.call \in Nat /\ n.call \in Nat
  BY <1>1 DEF Request
<1>3. m.att <= n.att
  BY DEF Deliverable, Orderly
<1>4. OfCall(m.cl, m.call, m.att) /\ OfCall(m.cl, n.call, n.att)
  BY <1>1 DEF RequestInv
<1> QED BY <1>2, <1>3, <1>4 DEF OfCall

\* No call that is pending is older than the one the server has.
LEMMA PendingLater ==
    ASSUME IInv, NEW r, r.cl \in Clients, r.call \in Nat, RequestInv(r),
           \A n \in reqs : n.cl = r.cl => r.call <= n.call,
           NEW k, NEW s, NEW f, Pending(r.cl, k, s, f)
    PROVE  r.call <= k
<1>1. r.call \in begun[r.cl]
  BY DEF RequestInv, OfCall
<1>2. r.call <= callId[r.cl]
  BY <1>1 DEF IInv, ClientInv
<1> QED BY <1>2 DEF Pending

\* All that is pending of a call is of one function.
LEMMA OneKind ==
    ASSUME OnceInv, NEW c, NEW k, NEW s, NEW f, Pending(c, k, s, f),
           NEW m \in reqs, m.cl = c, m.call = k
    PROVE  m.kind = f
<1>1. Asked(c, k, s, f)
  BY DEF OnceInv
<1> QED BY <1>1 DEF Asked

\* Steps that neither take a request nor change what the server keeps.
LEMMA AskedFrame ==
    ASSUME UNCHANGED <<reqs, spc, comp, lastRecv, rec, objs, performed>>,
           NEW c, NEW k, NEW s, NEW f
    PROVE  Asked(c, k, s, f) <=> Asked(c, k, s, f)'
BY DEF Asked, First, Covered

\* A send that fails ends recv_thread, and with it all of this but what exec_thread
\* may still do: take the request it was given, if it has not.
Serving == spc \in {"recv", "wait"}
Over ==
    /\ ~comp /\ lastRecv.kind # "stop" => <<lastRecv.cl, lastRecv.call>> \notin performed
    /\ AtMostOnce
OnceOrOver == IF Serving THEN OnceInv ELSE Over

LEMMA InitOnceInv == Init => OnceOrOver
BY DEF Init, OnceOrOver, Serving, OnceInv, Pending, AtMostOnce

LEMMA OnceClientCall ==
    ASSUME IInv, OnceInv, NEW c \in Clients, ClientCall(c)
    PROVE  OnceInv'
<1>1. /\ UNCHANGED <<reqs, spc, comp, lastRecv, rec, objs, performed, repeated, child, att>>
      /\ tries' = [tries EXCEPT ![c] = 0]
      /\ cpc[c] = "idle" /\ cpc' = [cpc EXCEPT ![c] = "send"]
      /\ \E k \in Kinds : kind' = [kind EXCEPT ![c] = k]
      /\ reserv' = [reserv EXCEPT ![c] = serial[c]]
      /\ callId' = [callId EXCEPT ![c] = att[c] + 1]
  BY DEF ClientCall, serverVars
<1>2. /\ DOMAIN tries = Clients /\ DOMAIN cpc = Clients /\ DOMAIN kind = Clients
      /\ DOMAIN reserv = Clients /\ DOMAIN callId = Clients
  BY DEF IInv, TypeOK
<1>3. ASSUME NEW d, NEW k, NEW s, NEW f, Pending(d, k, s, f)'
      PROVE  Asked(d, k, s, f)'
  <2>1. Pending(d, k, s, f)
    BY <1>1, <1>2, <1>3 DEF Pending
  <2>2. Asked(d, k, s, f)
    BY <2>1 DEF OnceInv
  <2> QED BY <1>1, <2>2, AskedFrame
<1>4. \A d \in Clients : /\ (cpc[d] # "idle")' => kind'[d] \in Kinds
                         /\ d \notin child' => rec'[d] = Blank
  BY <1>1, <1>2 DEF OnceInv
<1>5. AtMostOnce'
  BY <1>1 DEF OnceInv, AtMostOnce
<1>6. /\ \A p \in performed' : p[2] <= att'[p[1]]
      /\ ~comp' => spc' = "wait"
      /\ (spc = "wait")' => Executed'
  BY <1>1 DEF OnceInv, Executed
<1> QED BY <1>1, <1>3, <1>4, <1>5, <1>6 DEF OnceInv, Blank

\* A step of the client that sends nothing and ends no attempt with another.
LEMMA OnceClientQuiet ==
    ASSUME IInv, OnceInv, NEW c \in Clients,
           ClientAccept(c) \/ ClientSkip(c) \/ ClientTimeout(c)
    PROVE  OnceInv'
<1>1. /\ UNCHANGED <<reqs, spc, comp, lastRecv, rec, objs, performed, repeated, child, att>>
      /\ UNCHANGED <<tries, reserv, callId, kind>>
      /\ \A d \in Clients : cpc'[d] # "idle" => cpc[d] # "idle"
  BY DEF ClientAccept, ClientSkip, ClientTimeout, serverVars, clientVars, IInv, TypeOK
<1>2. ASSUME NEW d, NEW k, NEW s, NEW f, Pending(d, k, s, f)'
      PROVE  Asked(d, k, s, f)'
  <2>1. Pending(d, k, s, f)
    BY <1>1, <1>2 DEF Pending
  <2>2. Asked(d, k, s, f)
    BY <2>1 DEF OnceInv
  <2> QED BY <1>1, <2>2, AskedFrame
<1>3. AtMostOnce'
  BY <1>1 DEF OnceInv, AtMostOnce
<1>4. /\ \A p \in performed' : p[2] <= att'[p[1]]
      /\ ~comp' => spc' = "wait"
      /\ (spc = "wait")' => Executed'
  BY <1>1 DEF OnceInv, Executed
<1> QED BY <1>1, <1>2, <1>3, <1>4 DEF OnceInv, Blank

\* A new attempt: the first one, after all the client made so far, or one more
\* of a call that is pending.
LEMMA OnceClientSend ==
    ASSUME IInv, OnceInv, NEW c \in Clients, ClientSend(c) \/ ClientSendFails(c)
    PROVE  OnceInv'
<1> DEFINE new == [cl |-> c, serial |-> serial[c], reserv |-> reserv[c],
                   kind |-> kind[c], att |-> att[c] + 1, call |-> callId[c]]
<1>1. /\ UNCHANGED <<spc, comp, lastRecv, rec, objs, performed, repeated, child>>
      /\ UNCHANGED <<reserv, callId, kind>>
      /\ tries' = [tries EXCEPT ![c] = @ + 1] /\ att' = [att EXCEPT ![c] = @ + 1]
      /\ cpc[c] = "send"
      /\ \/ reqs' = Alive(reqs, c) \cup {new} /\ cpc' = [cpc EXCEPT ![c] = "recv"]
         \/ reqs' = Alive(reqs, c) /\ cpc' = [cpc EXCEPT ![c] = "idle"]
  BY DEF ClientSend, ClientSendFails, TakeSerial, serverVars
<1>2. /\ TypeOK /\ ClientInv(c)
      /\ att[c] \in Nat /\ callId[c] \in Nat /\ tries[c] \in 0..Retry
      /\ DOMAIN tries = Clients /\ DOMAIN cpc = Clients /\ DOMAIN att = Clients
  BY DEF IInv, TypeOK
<1>3. /\ callId[c] + tries[c] = att[c] + 1 /\ tries[c] < Retry
      /\ \A b \in begun[c] : b <= callId[c]
  BY <1>1, <1>2 DEF ClientInv
<1>4. SerialMax \in Nat /\ Retry \in Nat /\ Retry <= SerialMax
  BY RpcAssumption
<1>5. new.cl = c /\ new.call = callId[c] /\ new.kind = kind[c] /\ new.reserv = reserv[c]
      /\ new.att = att[c] + 1
  OBVIOUS
<1> HIDE DEF new
<1>6. InCycle(att[c] + 1, callId[c])
  BY <1>2, <1>3, <1>4 DEF InCycle
<1>7. kind[c] \in Kinds
  BY <1>1 DEF OnceInv
<1>8. \A n \in reqs : n.cl = c => n.call <= att[c] /\ n.call \in Nat /\ n.call <= callId[c]
  <2> SUFFICES ASSUME NEW n \in reqs, n.cl = c
               PROVE  n.call <= att[c] /\ n.call \in Nat /\ n.call <= callId[c]
    OBVIOUS
  <2>1. n \in Request /\ RequestInv(n)
    BY DEF IInv, TypeOK
  <2>2. n.call \in Nat /\ n.att \in Nat /\ OfCall(c, n.call, n.att)
    BY <2>1 DEF Request, RequestInv
  <2> QED BY <1>2, <1>3, <2>2 DEF OfCall
\* A datagram goes with all of its call or stays with it.
<1>9. ASSUME NEW d, NEW k, First(d, k), d = c => InCycle(att[c] + 1, k)
      PROVE  First(d, k)'
  BY <1>1, <1>9 DEF First, Alive
<1>10. ASSUME NEW d, NEW k \in Nat, NEW s, NEW f, Asked(d, k, s, f),
              d = c => InCycle(att[c] + 1, k) /\ k <= callId[c],
              d = c /\ k = callId[c] => f = kind[c]
       PROVE  Asked(d, k, s, f)'
  <2>1. \A n \in reqs' : n \in reqs \/ n = new
    BY <1>1 DEF Alive
  <2>2. First(d, k)' \/ Covered(d, k, s, f)'
    <3>1. CASE First(d, k)
      BY <1>9, <1>10, <3>1
    <3>2. CASE Covered(d, k, s, f)
      BY <1>1, <1>5, <1>10, <2>1, <3>2 DEF Covered
    <3> QED BY <1>10, <3>1, <3>2 DEF Asked
  <2>3. \A n \in reqs' : n.cl = d /\ n.call = k => n.kind = f
    BY <1>5, <1>10, <2>1 DEF Asked
  <2>4. /\ f \in Kinds
        /\ f # "stop" /\ <<d, k>> \in performed' =>
              \/ rec'[d].serial = s
              \/ spc' = "wait" /\ comp' /\ lastRecv'.cl = d /\ lastRecv'.call = k
        /\ spc' = "wait" /\ lastRecv'.cl = d /\ lastRecv'.call = k => lastRecv'.kind = f
        /\ \A p \in performed' : p[1] = d => p[2] <= k
    BY <1>1, <1>10 DEF Asked
  <2> QED BY <2>2, <2>3, <2>4 DEF Asked
<1>11. ASSUME reqs' = Alive(reqs, c) \cup {new}
       PROVE  Asked(c, callId[c], reserv[c], kind[c])'
  <2>1. CASE 0 < tries[c]
    <3>1. Pending(c, callId[c], reserv[c], kind[c])
      BY <1>1, <2>1 DEF Pending
    <3>2. Asked(c, callId[c], reserv[c], kind[c])
      BY <3>1 DEF OnceInv
    <3>3. \A k, s, f : k = callId[c] /\ s = reserv[c] /\ f = kind[c] =>
                          Asked(c, k, s, f)'
      BY <1>2, <1>6, <1>10, <3>2
    <3> QED BY <1>1, <3>3 DEF Asked, First, Covered
  <2>2. CASE tries[c] = 0
    <3>1. callId[c] = att[c] + 1
      BY <1>2, <1>3, <2>2
    <3>2. First(c, callId[c])'
      BY <1>1, <1>5, <1>11, <3>1 DEF First
    <3>3. \A p \in performed : p[1] = c => p[2] <= att[c] /\ p[2] \in Nat
      BY <1>2 DEF OnceInv, TypeOK
    <3>4. <<c, callId[c]>> \notin performed /\ \A p \in performed : p[1] = c => p[2] <= callId[c]
      BY <1>2, <3>1, <3>3
    <3>5. \A n \in reqs' : n.cl = c /\ n.call = callId[c] => n.kind = kind[c]
      BY <1>2, <1>5, <1>8, <1>11, <3>1 DEF Alive
    <3>6. ~(spc = "wait" /\ lastRecv.cl = c /\ lastRecv.call = callId[c])
      <4> SUFFICES ASSUME spc = "wait", lastRecv.cl = c PROVE lastRecv.call # callId[c]
        OBVIOUS
      <4>1. RequestInv(lastRecv) /\ lastRecv.call \in Nat /\ lastRecv.att \in Nat
        BY DEF IInv, ExecInv, TypeOK
      <4>2. lastRecv.call <= att[c]
        BY <1>2, <4>1 DEF RequestInv, OfCall
      <4> QED BY <1>2, <3>1, <4>1, <4>2
    <3> QED BY <1>1, <1>7, <3>2, <3>4, <3>5, <3>6 DEF Asked, First, Covered
  <2> QED BY <1>2, <2>1, <2>2
<1>12. ASSUME NEW d, NEW k, NEW s, NEW f, Pending(d, k, s, f)'
       PROVE  Asked(d, k, s, f)'
  <2>1. CASE d = c /\ k = callId[c] /\ reqs' = Alive(reqs, c) \cup {new}
    <3>1. s = reserv[c] /\ f = kind[c]
      <4>1. CASE \E m \in reqs' : m.cl = d /\ m.call = k /\ m.reserv = s /\ m.kind = f
        <5>1. PICK m \in reqs' : m.cl = d /\ m.call = k /\ m.reserv = s /\ m.kind = f
          BY <4>1
        <5>2. CASE m = new
          BY <1>5, <5>1, <5>2
        <5>3. CASE m \in reqs
          <6>1. Pending(c, k, s, f) /\ k # att[c] + 1
            BY <1>2, <1>8, <2>1, <5>1, <5>3 DEF Pending
          <6>2. 0 < tries[c]
            BY <1>2, <1>3, <2>1, <6>1
          <6>3. Pending(c, k, reserv[c], kind[c])
            BY <1>1, <2>1, <6>2 DEF Pending
          <6>4. s = reserv[c]
            BY <1>2, <6>1, <6>3, PendingStamp, OneFirstSerial
          <6>5. f = kind[c]
            BY <2>1, <5>1, <5>3, <6>3, OneKind
          <6> QED BY <6>4, <6>5
        <5> QED BY <1>1, <2>1, <5>1, <5>2, <5>3 DEF Alive
      <4>2. CASE ~\E m \in reqs' : m.cl = d /\ m.call = k /\ m.reserv = s /\ m.kind = f
        BY <1>1, <1>12, <2>1, <4>2 DEF Pending
      <4> QED BY <4>1, <4>2
    <3> QED BY <1>1, <1>11, <2>1, <3>1 DEF Asked, First, Covered
  <2>2. CASE ~(d = c /\ k = callId[c] /\ reqs' = Alive(reqs, c) \cup {new})
    <3>1. Pending(d, k, s, f) /\ (d = c => InCycle(att[c] + 1, k))
      <4>1. CASE \E m \in reqs' : m.cl = d /\ m.call = k /\ m.reserv = s /\ m.kind = f
        <5>1. PICK m \in reqs' : m.cl = d /\ m.call = k /\ m.reserv = s /\ m.kind = f
          BY <4>1
        <5>2. m \in Alive(reqs, c)
          BY <1>1, <1>5, <2>2, <5>1
        <5> QED BY <5>1, <5>2 DEF Pending, Alive
      <4>2. CASE /\ d \in Clients /\ cpc'[d] # "idle" /\ 0 < tries'[d]
                 /\ k = callId'[d] /\ s = reserv'[d] /\ f = kind'[d]
        <5>1. d # c
          BY <1>1, <1>2, <2>2, <4>2
        <5> QED BY <1>1, <1>2, <4>2, <5>1 DEF Pending
      <4> QED BY <1>12, <4>1, <4>2 DEF Pending
    <3>2. Asked(d, k, s, f) /\ k \in Nat /\ k <= callId[d]
      BY <3>1, PendingStamp DEF OnceInv
    <3>3. d = c /\ k = callId[c] => f = kind[c]
      <4> SUFFICES ASSUME d = c, k = callId[c] PROVE f = kind[c]
        OBVIOUS
      <4>1. CASE 0 < tries[c]
        <5>1. Pending(c, k, reserv[c], kind[c])
          BY <1>1, <4>1 DEF Pending
        <5> QED BY <3>1, <5>1, OneKind DEF Pending
      <4>2. CASE tries[c] = 0
        BY <1>2, <1>3, <1>8, <3>1, <4>2 DEF Pending
      <4> QED BY <1>2, <4>1, <4>2
    <3> QED BY <1>10, <3>1, <3>2, <3>3
  <2> QED BY <2>1, <2>2
<1>13. /\ \A d \in Clients : /\ cpc'[d] # "idle" => kind'[d] \in Kinds
                             /\ d \notin child' => rec'[d] = Blank
       /\ AtMostOnce'
       /\ ~comp' => spc' = "wait"
  BY <1>1, <1>2 DEF OnceInv, AtMostOnce
<1>14. \A p \in performed' : p[2] <= att'[p[1]]
  <2> SUFFICES ASSUME NEW p \in performed PROVE p[2] <= att'[p[1]]
    BY <1>1
  <2>1. p \in Clients \X Nat /\ p[2] <= att[p[1]] /\ att[p[1]] \in Nat
    BY DEF OnceInv, IInv, TypeOK
  <2>2. att'[p[1]] = att[p[1]] \/ att'[p[1]] = att[p[1]] + 1
    BY <1>1, <1>2, <2>1
  <2> QED BY <2>1, <2>2
<1>15. (spc = "wait")' => Executed'
  <2> SUFFICES ASSUME spc = "wait" PROVE Executed'
    BY <1>1
  <2>1. Executed
    BY DEF OnceInv
  <2>2. \A n \in reqs' : n.cl = lastRecv.cl => lastRecv.call <= n.call
    <3>1. lastRecv.cl = c => lastRecv.call <= callId[c]
      BY <1>3 DEF IInv, ExecInv, RequestInv, OfCall
    <3> QED BY <1>1, <1>5, <2>1, <3>1 DEF Executed, Alive
  <2> QED BY <1>1, <2>1, <2>2 DEF Executed
<1> QED BY <1>12, <1>13, <1>14, <1>15 DEF OnceInv, Blank

\* What the server admits and finds for a request it did not answer: with a
\* child for every client, the record of the client is the one it had.
LEMMA AdmittedRecord ==
    ASSUME IInv, OnceInv, Orderly, NEW m \in reqs, NotAnswered(m)
    PROVE  /\ child' = child \cup {m.cl}
           /\ rec' = rec
           /\ rec[m.cl].serial # m.reserv
<1>1. m \in Request /\ RequestInv(m) /\ m.cl \in Clients
  BY DEF IInv, TypeOK, Request
<1>2. child' = child \cup {m.cl}
  BY DEF NotAnswered, Admissions, Orderly
<1>3. \A c \in Clients : c \in child' \cap child <=> c \in child
  BY <1>2
<1>4. rec' = [c \in Clients |-> IF c \in child THEN rec[c] ELSE Blank]
  BY <1>3 DEF NotAnswered, RecordsOf
<1>5. rec' = rec
  BY <1>4 DEF OnceInv, IInv, TypeOK
<1>6. m.reserv # 0
  BY <1>1, RpcAssumption DEF Request, RequestInv
<1>7. rec'[m.cl].serial # m.reserv
  BY <1>6 DEF NotAnswered, FirstSerial
<1> QED BY <1>2, <1>5, <1>7

\* There is a child for every client.
LEMMA NoneRefused ==
    ASSUME IInv, Orderly, NEW m \in reqs
    PROVE  ~SrvRefuseClient(m)
<1> SUFFICES ASSUME m.cl \notin child, Cardinality(child) >= MaxClients PROVE FALSE
  BY DEF SrvRefuseClient
<1>1. m.cl \in Clients /\ child \subseteq Clients \ {m.cl}
  BY DEF IInv, TypeOK, Request
<1>2. /\ IsFiniteSet(Clients \ {m.cl})
      /\ Cardinality(Clients \ {m.cl}) = Cardinality(Clients) - 1
      /\ Cardinality(Clients) \in Nat
  BY <1>1, FS_RemoveElement, FS_CardinalityType DEF Orderly
<1>3. Cardinality(child) <= Cardinality(Clients \ {m.cl}) /\ Cardinality(child) \in Nat
  BY <1>1, <1>2, FS_Subset, FS_CardinalityType
<1> QED BY <1>2, <1>3, RpcAssumption DEF Orderly

\* Nor does it find an option it cannot take.
LEMMA OptionsRead ==
    ASSUME OnceInv, Orderly, NEW m \in reqs
    PROVE  m.kind \in {"start", "stop", "call"} /\ ~SrvBadOption(m) /\ ~SrvStartUnread(m)
<1>1. Pending(m.cl, m.call, m.reserv, m.kind)
  BY DEF Pending
<1>2. Asked(m.cl, m.call, m.reserv, m.kind)
  BY <1>1 DEF OnceInv
<1> QED BY <1>2 DEF Asked, Orderly, SrvBadOption, SrvStartUnread

\* The server takes a request and answers it at once: of its call, it holds the
\* answer, or no object is free for it.
LEMMA OnceAnswered ==
    ASSUME IInv, OnceInv, Orderly, NEW m \in reqs, SrvResend(m) \/ SrvMaxObject(m)
    PROVE  OnceInv'
<1>1. /\ spc = "recv" /\ Deliverable(m) /\ reqs' \in Left(reqs, m) /\ UNCHANGED clientVars
      /\ UNCHANGED <<spc, comp, lastRecv, objs, performed, repeated>>
  BY DEF SrvResend, SrvMaxObject, NotAnswered, Receive, serverVars
<1>2. rec' = rec /\ (child' = child \/ child' = child \cup {m.cl})
  BY AdmittedRecord DEF SrvResend, SrvMaxObject, serverVars
<1>3. reqs' \subseteq reqs /\ \A n \in reqs : n = m \/ n \in reqs'
  BY <1>1 DEF Left
<1>4. m \in Request /\ RequestInv(m)
  BY DEF IInv, TypeOK
<1>5. m.call \in Nat /\ m.cl \in Clients /\ m.reserv \in 1..SerialMax
  BY <1>4, RpcAssumption DEF Request, RequestInv
<1>6. ASSUME NEW c, NEW k, NEW s, NEW f, Pending(c, k, s, f)'
      PROVE  Asked(c, k, s, f)'
  <2>1. Pending(c, k, s, f)
    BY <1>1, <1>3, <1>6 DEF Pending, clientVars
  <2>2. Asked(c, k, s, f)
    BY <2>1 DEF OnceInv
  <2>3. First(c, k)' \/ Covered(c, k, s, f)'
    <3>1. CASE m.cl = c /\ m.call = k
      <4>1. \A n \in reqs' : n.cl = c => k <= n.call
        BY <1>1, <1>3, <3>1, OldestFirst
      <4>2. m.kind = f
        BY <2>1, <3>1, OneKind
      <4>3. m.reserv = s
        BY <1>4, <1>5, <2>1, <3>1, PendingStamp, OneFirstSerial DEF RequestInv, IInv
      <4>4. rec[c].serial = s \/ (f = "start" /\ objs >= MaxObjects)
        BY <1>4, <1>5, <3>1, <4>2, <4>3, OptionsRead
           DEF SrvResend, SrvMaxObject, FirstSerial
      <4> QED BY <1>1, <1>2, <4>1, <4>4 DEF Covered
    <3>2. CASE ~(m.cl = c /\ m.call = k) /\ First(c, k)
      BY <1>3, <3>2 DEF First
    <3>3. CASE Covered(c, k, s, f)
      BY <1>1, <1>2, <1>3, <3>3 DEF Covered
    <3> QED BY <2>2, <3>1, <3>2, <3>3 DEF Asked
  <2> QED BY <1>1, <1>2, <1>3, <2>2, <2>3 DEF Asked
<1>7. \A c \in Clients : /\ cpc'[c] # "idle" => kind'[c] \in Kinds
                         /\ c \notin child' => rec'[c] = Blank
  BY <1>1, <1>2 DEF OnceInv, clientVars
<1> QED BY <1>1, <1>6, <1>7 DEF OnceInv, AtMostOnce, Blank, clientVars

\* The server takes a request to execute it: it is the first attempt of its
\* call, which has not been performed.
LEMMA OnceExecute ==
    ASSUME IInv, OnceInv, Orderly, NEW m \in reqs, SrvExecute(m)
    PROVE  OnceInv'
<1>1. /\ spc = "recv" /\ Deliverable(m) /\ reqs' \in Left(reqs, m) /\ UNCHANGED clientVars
      /\ UNCHANGED <<objs, performed, repeated>>
      /\ lastRecv' = m /\ comp' = FALSE /\ spc' = "wait"
      /\ m.kind = "start" => objs < MaxObjects
  BY DEF SrvExecute, HandOver, NotAnswered, Receive
<1>2. rec' = rec /\ child' = child \cup {m.cl} /\ rec[m.cl].serial # m.reserv
  BY AdmittedRecord DEF SrvExecute, HandOver
<1>3. reqs' \subseteq reqs /\ \A n \in reqs : n = m \/ n \in reqs'
  BY <1>1 DEF Left
<1>4. m \in Request /\ RequestInv(m)
  BY DEF IInv, TypeOK
<1>5. /\ m.call \in Nat /\ m.cl \in Clients /\ m.reserv \in 0..SerialMax
      /\ m.serial \in 0..SerialMax /\ m.att \in Nat
  BY <1>4, RpcAssumption DEF Request
<1>6. Pending(m.cl, m.call, m.reserv, m.kind)
  BY DEF Pending
<1>7. Asked(m.cl, m.call, m.reserv, m.kind)
  BY <1>6 DEF OnceInv
<1>8. \A n \in reqs : n.cl = m.cl => m.att <= n.att /\ m.call <= n.call
  BY <1>1, OldestFirst
<1>9. ASSUME m.kind # "stop"
      PROVE  m.serial = m.reserv /\ <<m.cl, m.call>> \notin performed
  <2>1. First(m.cl, m.call)
    BY <1>1, <1>2, <1>5, <1>7, <1>9, RpcAssumption DEF Asked, Covered, IInv, TypeOK
  <2>2. m.att = m.call
    BY <1>4, <1>5, <1>8, <2>1 DEF First, RequestInv, OfCall
  <2>3. m.serial = m.reserv
    <3>1. SerialAt(m.cl, m.call, m.serial) /\ SerialAt(m.cl, m.call, m.reserv)
      BY <1>4, <2>2 DEF RequestInv
    <3>2. m.serial \in 1..SerialMax /\ m.reserv \in 1..SerialMax
      BY <1>4, <1>5, RpcAssumption DEF Request, RequestInv
    <3> QED BY <1>5, <3>1, <3>2, OneFirstSerial DEF IInv
  <2> QED BY <1>1, <1>2, <1>7, <1>9, <2>3 DEF Asked
<1>10. Executed'
  <2>1. \A p \in performed : p[1] = m.cl => p[2] <= m.call
    BY <1>7 DEF Asked
  <2> QED BY <1>1, <1>2, <1>3, <1>8, <1>9, <2>1 DEF Executed
<1>11. ASSUME NEW c, NEW k, NEW s, NEW f, Pending(c, k, s, f)'
       PROVE  Asked(c, k, s, f)'
  <2>1. Pending(c, k, s, f)
    BY <1>1, <1>3, <1>11 DEF Pending, clientVars
  <2>2. Asked(c, k, s, f) /\ k \in Nat
    BY <2>1, PendingStamp DEF OnceInv
  <2>3. m.cl = c => m.call <= k
    BY <1>4, <1>5, <1>8, <2>1, PendingLater
  <2>4. First(c, k)' \/ Covered(c, k, s, f)'
    <3>1. CASE m.cl = c /\ m.call = k
      BY <1>1, <1>3, <1>8, <3>1 DEF Covered
    <3>2. CASE First(c, k) /\ ~(m.cl = c /\ m.call = k)
      BY <1>3, <3>2 DEF First
    <3>3. CASE Covered(c, k, s, f) /\ m.cl # c
      BY <1>1, <1>2, <1>3, <3>3 DEF Covered
    <3>4. CASE Covered(c, k, s, f) /\ m.cl = c /\ m.call # k
      BY <1>5, <2>2, <2>3, <3>4 DEF Covered
    <3> QED BY <2>2, <3>1, <3>2, <3>3, <3>4 DEF Asked
  <2>5. m.cl = c /\ m.call = k => m.kind = f
    BY <2>1, OneKind
  <2>6. /\ f \in Kinds
        /\ f # "stop" /\ <<c, k>> \in performed => rec[c].serial = s
        /\ \A n \in reqs' : n.cl = c /\ n.call = k => n.kind = f
        /\ \A p \in performed : p[1] = c => p[2] <= k
    BY <1>1, <1>3, <2>2 DEF Asked
  <2> QED BY <1>1, <1>2, <2>4, <2>5, <2>6 DEF Asked
<1>12. \A c \in Clients : /\ cpc'[c] # "idle" => kind'[c] \in Kinds
                          /\ c \notin child' => rec'[c] = Blank
  BY <1>1, <1>2 DEF OnceInv, clientVars
<1> QED BY <1>1, <1>10, <1>11, <1>12 DEF OnceInv, AtMostOnce, Blank, clientVars

\* The answer is recorded under the first serial of its call.
LEMMA OnceReply ==
    ASSUME IInv, OnceInv, Orderly, SrvReply
    PROVE  OnceInv'
<1> DEFINE b == lastRecv.cl
           stopped == lastSend.id = "S_OK" /\ lastRecv.kind = "stop"
<1>1. /\ spc = "wait" /\ comp /\ spc' = "recv" /\ comp'
      /\ UNCHANGED clientVars
      /\ UNCHANGED <<reqs, lastRecv, performed, repeated>>
      /\ child' = IF stopped THEN child \ {b} ELSE child
      /\ rec' = [rec EXCEPT ![b] = IF stopped THEN Blank ELSE lastSend]
  BY DEF SrvReply, MaintainObjects, Done
<1>2. /\ b \in Clients /\ DOMAIN rec = Clients /\ lastRecv.call \in Nat
      /\ lastRecv.reserv \in 0..SerialMax /\ lastSend.serial = lastRecv.serial
      /\ RequestInv(lastRecv) /\ Executed
  BY <1>1 DEF IInv, TypeOK, ExecInv, OnceInv
<1>3. lastRecv.reserv \in 1..SerialMax
  BY <1>2, RpcAssumption DEF RequestInv
<1>4. ASSUME NEW c, NEW k, NEW s, NEW f, Pending(c, k, s, f)'
      PROVE  Asked(c, k, s, f)'
  <2>1. Pending(c, k, s, f)
    BY <1>1, <1>4 DEF Pending, clientVars
  <2>2. Asked(c, k, s, f) /\ k \in Nat /\ c \in Clients
    BY <2>1, PendingStamp DEF OnceInv
  <2>3. CASE c # b
    <3>1. rec'[c] = rec[c]
      BY <1>1, <1>2, <2>2, <2>3
    <3>2. f # "start"
      BY <1>2, <2>2, <2>3 DEF Asked, Orderly
    <3> QED BY <1>1, <2>2, <2>3, <3>1, <3>2 DEF Asked, First, Covered
  <2>4. CASE c = b /\ lastRecv.call # k
    <3>1. lastRecv.call < k
      BY <1>2, <2>1, <2>2, <2>4, PendingLater DEF Executed
    <3>2. First(c, k)
      BY <1>1, <2>2, <2>4 DEF Asked, Covered
    <3>3. <<c, k>> \notin performed
      BY <1>2, <2>2, <2>4, <3>1 DEF Executed
    <3> QED BY <1>1, <2>2, <3>2, <3>3 DEF Asked, First
  <2>5. CASE c = b /\ lastRecv.call = k
    <3>1. f = lastRecv.kind
      BY <1>1, <2>2, <2>5 DEF Asked
    <3>2. s = lastRecv.reserv
      BY <1>2, <1>3, <2>1, <2>2, <2>5, PendingStamp, OneFirstSerial DEF RequestInv, IInv
    <3>3. f # "stop" => rec'[c].serial = s
      BY <1>1, <1>2, <2>2, <2>5, <3>1, <3>2 DEF Executed
    <3>4. Covered(c, k, s, f)'
      BY <1>1, <1>2, <2>5, <3>3 DEF Covered, Executed
    <3> QED BY <1>1, <2>2, <3>3, <3>4 DEF Asked
  <2> QED BY <2>3, <2>4, <2>5
<1>5. \A c \in Clients : /\ cpc'[c] # "idle" => kind'[c] \in Kinds
                         /\ c \notin child' => rec'[c] = Blank
  BY <1>1, <1>2 DEF OnceInv, clientVars, Executed
<1> QED BY <1>1, <1>4, <1>5 DEF OnceInv, AtMostOnce, Blank, clientVars

\* What is performed was not performed before.
LEMMA OncePerform ==
    ASSUME IInv, OnceInv, ExecThread
    PROVE  OnceInv'
<1> DEFINE op == <<lastRecv.cl, lastRecv.call>>
<1>1. /\ ~comp /\ comp' /\ spc = "wait"
      /\ UNCHANGED clientVars
      /\ UNCHANGED <<reqs, spc, lastRecv, child, rec, objs>>
      /\ performed' = performed \cup {op}
      /\ repeated' = IF op \in performed
                     THEN repeated \cup {<<lastRecv.cl, lastRecv.call, lastRecv.kind>>}
                     ELSE repeated
  BY DEF ExecThread, OnceInv
<1>2. /\ lastRecv.cl \in Clients /\ lastRecv.call \in Nat /\ lastRecv.att \in Nat
      /\ RequestInv(lastRecv) /\ Executed
  BY <1>1 DEF IInv, TypeOK, ExecInv, OnceInv
<1>3. AtMostOnce'
  <2>1. op \in performed => lastRecv.kind = "stop"
    BY <1>1, <1>2 DEF Executed
  <2> QED BY <1>1, <2>1 DEF OnceInv, AtMostOnce
<1>4. \A p \in performed' : p[2] <= att'[p[1]]
  <2>1. lastRecv.call <= att[lastRecv.cl]
    BY <1>2 DEF RequestInv, OfCall, IInv, TypeOK
  <2> QED BY <1>1, <2>1 DEF OnceInv, clientVars
<1>5. Executed'
  BY <1>1, <1>2 DEF Executed
<1>6. ASSUME NEW c, NEW k, NEW s, NEW f, Pending(c, k, s, f)'
      PROVE  Asked(c, k, s, f)'
  <2>1. Pending(c, k, s, f)
    BY <1>1, <1>6 DEF Pending, clientVars
  <2>2. Asked(c, k, s, f) /\ k \in Nat
    BY <2>1, PendingStamp DEF OnceInv
  <2>3. lastRecv.cl = c => lastRecv.call <= k
    BY <1>2, <2>1, PendingLater DEF Executed
  <2>4. \A p \in performed' : p[1] = c => p[2] <= k
    BY <1>1, <2>2, <2>3 DEF Asked
  <2>5. f # "stop" /\ <<c, k>> \in performed' =>
           \/ rec'[c].serial = s
           \/ spc' = "wait" /\ comp' /\ lastRecv'.cl = c /\ lastRecv'.call = k
    BY <1>1, <2>2 DEF Asked
  <2> QED BY <1>1, <2>2, <2>4, <2>5 DEF Asked, First, Covered
<1>7. \A c \in Clients : /\ cpc'[c] # "idle" => kind'[c] \in Kinds
                         /\ c \notin child' => rec'[c] = Blank
  BY <1>1 DEF OnceInv, clientVars
<1> QED BY <1>1, <1>3, <1>4, <1>5, <1>6, <1>7 DEF OnceInv, Blank

LEMMA OnceFrame ==
    ASSUME OnceInv, UNCHANGED clientVars,
           UNCHANGED <<reqs, spc, comp, lastRecv, rec, objs, performed, repeated, child>>
    PROVE  OnceInv'
<1>1. ASSUME NEW c, NEW k, NEW s, NEW f, Pending(c, k, s, f)'
      PROVE  Asked(c, k, s, f)'
  <2>1. Pending(c, k, s, f)
    BY <1>1 DEF Pending, clientVars
  <2> QED BY <2>1, AskedFrame DEF OnceInv
<1>2. \A c \in Clients : /\ cpc'[c] # "idle" => kind'[c] \in Kinds
                         /\ c \notin child' => rec'[c] = Blank
  BY DEF OnceInv, clientVars
<1> QED BY <1>1, <1>2 DEF OnceInv, AtMostOnce, Executed, Blank, clientVars

\* The steps of a server that goes on serving.
LEMMA StepServing ==
    ASSUME IInv, OnceInv, Orderly, [Next]_vars, ~ThreadEnding
    PROVE  OnceInv'
<1>1. ASSUME NEW c \in Clients, ClientNext(c) PROVE OnceInv'
  BY <1>1, OnceClientCall, OnceClientQuiet, OnceClientSend DEF ClientNext
<1>2. CASE SrvReceive
  <2>1. PICK m \in reqs : \/ SrvRefuseClient(m) \/ SrvResend(m) \/ SrvBusy(m)
                          \/ SrvMaxObject(m) \/ SrvExecute(m)
    BY <1>2, OptionsRead DEF SrvReceive
  <2>2. ~SrvBusy(m)
    BY DEF SrvBusy, NotAnswered, Receive, OnceInv
  <2> QED BY <2>1, <2>2, NoneRefused, OnceAnswered, OnceExecute
<1>3. CASE LoseReply \/ SrvExecuting \/ BoundsReached \/ UNCHANGED vars
  <2>1. /\ UNCHANGED clientVars
        /\ UNCHANGED <<reqs, spc, comp, lastRecv, rec, objs, performed, repeated, child>>
    BY <1>3 DEF LoseReply, SrvExecuting, BoundsReached, vars, clientVars, serverVars
  <2> QED BY <2>1, OnceFrame
<1>4. ~LoseRequest /\ ~SrvExecTimeout
  BY DEF LoseRequest, SrvExecTimeout, Orderly
<1> QED BY <1>1, <1>2, <1>3, <1>4, OnceReply, OncePerform DEF Next, ThreadEnding

\* A thread that goes on serving or has ended does so after any other step.
LEMMA ServingFrame ==
    ASSUME TypeOK, [Next]_vars, ~ThreadEnding, ~\E m \in reqs : SrvStartUnread(m)
    PROVE  Serving' <=> Serving
<1>1. CASE SrvReceive
  <2>1. PICK m \in reqs : \/ SrvRefuseClient(m) \/ SrvResend(m) \/ SrvBusy(m)
                          \/ SrvMaxObject(m) \/ SrvBadOption(m) \/ SrvExecute(m)
    BY <1>1 DEF SrvReceive
  <2>2. spc = "recv" /\ (spc' = spc \/ spc' = "wait")
    BY <2>1 DEF SrvRefuseClient, SrvResend, SrvBusy, SrvMaxObject, SrvBadOption,
       SrvExecute, HandOver, NotAnswered, Receive, serverVars
  <2> QED BY <2>2 DEF Serving
<1>2. CASE SrvExecTimeout \/ SrvReply
  BY <1>2 DEF SrvExecTimeout, SrvReply, Serving
<1>3. CASE ~SrvReceive /\ ~SrvExecTimeout /\ ~SrvReply
  <2>1. spc' = spc
    BY <1>3 DEF Next, ThreadEnding, ClientNext, ClientCall, ClientSend,
       ClientSendFails, TakeSerial, ClientAccept, ClientSkip, ClientTimeout,
       LoseRequest, LoseReply, SrvExecuting, ExecThread, BoundsReached, vars,
       serverVars
  <2> QED BY <2>1 DEF Serving
<1> QED BY <1>1, <1>2, <1>3

\* Once the thread has left its loop, exec_thread alone does something.
LEMMA StepOver ==
    ASSUME TypeOK, Over, ~Serving, [Next]_vars
    PROVE  Over' /\ ~Serving'
<1>1. ~SrvReceive
  BY DEF SrvReceive, SrvRefuseClient, SrvResend, SrvBusy, SrvMaxObject, SrvBadOption,
     SrvExecute, SrvStartUnread, HandOver, NotAnswered, Receive, Serving
<1>2. ~SrvExecuting /\ ~SrvExecTimeout /\ ~SrvReply
  BY DEF SrvExecuting, SrvExecTimeout, SrvReply, Serving
<1>3. CASE ExecThread
  <2>1. /\ comp' /\ spc' = spc /\ ~comp
        /\ repeated' = IF <<lastRecv.cl, lastRecv.call>> \in performed
                       THEN repeated \cup {<<lastRecv.cl, lastRecv.call, lastRecv.kind>>}
                       ELSE repeated
    BY <1>3 DEF ExecThread
  <2>2. AtMostOnce'
    BY <2>1 DEF Over, AtMostOnce
  <2> QED BY <2>1, <2>2 DEF Over, Serving
<1>4. CASE ~ExecThread
  <2>1. UNCHANGED <<comp, lastRecv, performed, repeated>>
    BY <1>1, <1>2, <1>4 DEF Next, ClientNext, ClientCall, ClientSend,
       ClientSendFails, TakeSerial, ClientAccept, ClientSkip, ClientTimeout,
       LoseRequest, LoseReply, SrvExecutingFails, SrvReplyFails, RecvFails,
       RecvThreadEnds, BoundsReached, vars, serverVars
  <2>2. ~Serving'
    <3>1. CASE ThreadEnding
      BY <3>1, EndingFrame DEF Serving
    <3>2. CASE ~ThreadEnding
      BY <1>1, <3>2, ServingFrame DEF SrvReceive
    <3> QED BY <3>1, <3>2
  <2> QED BY <2>1, <2>2 DEF Over, AtMostOnce
<1> QED BY <1>3, <1>4

LEMMA StepOnceInv ==
    ASSUME IInv, OnceOrOver, Orderly, [Next]_vars
    PROVE  OnceOrOver'
<1>1. CASE ~Serving
  BY <1>1, StepOver DEF OnceOrOver, IInv
<1>2. CASE Serving /\ ThreadEnding
  <2>1. UNCHANGED <<comp, lastRecv, performed, repeated>> /\ ~Serving'
    BY <1>2, EndingFrame DEF IInv, Serving
  <2>2. Over
    BY <1>2 DEF OnceOrOver, OnceInv, Executed, Over
  <2> QED BY <2>1, <2>2 DEF OnceOrOver, Over, AtMostOnce
<1>3. CASE Serving /\ ~ThreadEnding
  <2>1. OnceInv
    BY <1>3 DEF OnceOrOver
  <2>2. Serving'
    BY <1>3, <2>1, OptionsRead, ServingFrame DEF IInv
  <2> QED BY <1>3, <2>1, <2>2, StepServing DEF OnceOrOver
<1> QED BY <1>1, <1>2, <1>3

\* Where requests arrive, in order and in time, lost answers and the retries they
\* cause never make the server perform a call again, other than a ServiceStop.
THEOREM CallsArePerformedOnce ==
    ASSUME Orderly
    PROVE  Spec => []AtMostOnce
<1>1. IInv /\ OnceOrOver /\ [Next]_vars => OnceOrOver'
  BY StepOnceInv
<1>2. OnceOrOver => AtMostOnce
  BY DEF OnceOrOver, OnceInv, Over
<1> QED BY <1>1, <1>2, InitOnceInv, Invariance, PTL DEF Spec

\* What was answered has been performed.
Recorded == answered \subseteq performed

LEMMA AnsweredArePerformed ==
    ASSUME IInv, Recorded, [Next]_vars
    PROVE  Recorded'
<1>1. CASE SrvReply
  <2>1. answered' = answered \cup {<<lastRecv.cl, lastRecv.call>>} /\ performed' = performed
    BY <1>1 DEF SrvReply
  <2>2. <<lastRecv.cl, lastRecv.call>> \in performed
    BY <1>1 DEF SrvReply, IInv, ExecInv
  <2> QED BY <2>1, <2>2 DEF Recorded
<1>2. CASE ~SrvReply
  <2>1. answered' = answered /\ performed \subseteq performed'
    BY <1>2 DEF Next, ClientNext, ClientCall, ClientSend, ClientSendFails, TakeSerial,
       ClientAccept, ClientSkip, ClientTimeout, LoseRequest, LoseReply, SrvReceive,
       SrvRefuseClient, SrvResend, SrvBusy, SrvMaxObject, SrvBadOption, SrvExecute,
       SrvStartUnread, HandOver, NotAnswered, SrvExecuting, SrvExecTimeout,
       SrvExecutingFails, SrvReplyFails, RecvFails, RecvThreadEnds, ExecThread,
       BoundsReached, vars, serverVars
  <2> QED BY <2>1 DEF Recorded
<1> QED BY <1>1, <1>2

LEMMA ExecutedIsNew ==
    ASSUME IInv, OnceOrOver, OnceOrOver', Orderly, "stop" \notin Kinds,
           Recorded, [Next]_vars, spc = "recv", spc' = "wait"
    PROVE  <<lastRecv'.cl, lastRecv'.call>> \notin answered
<1>1. PICK m \in reqs : SrvExecute(m)
  BY DEF Next, ClientNext, ClientCall, ClientSend, ClientSendFails, TakeSerial,
     ClientAccept, ClientSkip, ClientTimeout, LoseRequest, LoseReply, SrvReceive,
     SrvRefuseClient, SrvResend, SrvBusy, SrvMaxObject, SrvBadOption, SrvStartUnread,
     SrvExecuting, SrvExecTimeout, SrvExecutingFails, SrvReply, SrvReplyFails, RecvFails,
     RecvThreadEnds, ExecThread, BoundsReached, vars, serverVars
<1>2. lastRecv' = m /\ comp' = FALSE /\ performed' = performed
  BY <1>1 DEF SrvExecute, HandOver
<1> OnceInv /\ OnceInv'
  BY DEF OnceOrOver, Serving
<1>3. Asked(m.cl, m.call, m.reserv, m.kind)
  <2>1. Pending(m.cl, m.call, m.reserv, m.kind)
    BY DEF Pending
  <2> QED BY <2>1 DEF OnceInv
<1>4. m.kind # "stop"
  BY <1>3 DEF Asked
<1>5. Executed'
  BY DEF OnceInv
<1> QED BY <1>2, <1>4, <1>5 DEF Executed, Recorded

\* There, what the comment of receive_execute says is so: a request that was
\* responded to is not executed (with a ServiceStop, whose record is gone, and in
\* general, the run rpc_retry_executes_again, it is not).
THEOREM RespondedIsNotExecuted ==
    ASSUME Orderly, "stop" \notin Kinds
    PROVE  Spec => RespondedNotExecuted
<1>1. Init => Recorded
  BY DEF Init, Recorded
<1>2. IInv /\ OnceOrOver /\ [Next]_vars => OnceOrOver'
  BY StepOnceInv
<1>3. IInv /\ Recorded /\ [Next]_vars => Recorded'
  BY AnsweredArePerformed
<1>4. IInv /\ OnceOrOver /\ OnceOrOver' /\ Recorded /\ [Next]_vars =>
         [spc = "recv" /\ spc' = "wait" =>
            <<lastRecv'.cl, lastRecv'.call>> \notin answered]_vars
  BY ExecutedIsNew
<1> QED BY <1>1, <1>2, <1>3, <1>4, InitOnceInv, Invariance, PTL
    DEF Spec, RespondedNotExecuted
-----------------------------------------------------------------------------
(* The refinement: every step is a step of the promise or a stutter *)

Waiting == {c \in Clients : cpc[c] # "idle"}
Outcome == [c \in Clients |->
               IF result[c].id = "none" THEN "none"
               ELSE IF result[c].id \in Answers THEN "answer" ELSE "error"]

LEMMA PromiseInit == Init => Promise!Init
BY DEF Init, Promise!Init, NoResult

\* A step that changes neither callId, performed, the idle clients nor the
\* results is a stutter of the promise.
LEMMA PromiseStutter ==
    ASSUME UNCHANGED <<callId, performed, cpc, result>>
    PROVE  UNCHANGED Promise!vars
BY DEF Promise!vars

LEMMA PromisePerform ==
    ASSUME IInv, ExecThread
    PROVE  [Promise!Next]_(Promise!vars)
<1>1. /\ UNCHANGED <<callId, cpc, result>>
      /\ performed' = performed \cup {<<lastRecv.cl, lastRecv.call>>}
      /\ ~comp
  BY DEF ExecThread, clientVars
<1>2. /\ lastRecv.cl \in Clients
      /\ lastRecv.call \in begun[lastRecv.cl]
      /\ lastRecv.call \in Nat
      /\ callId[lastRecv.cl] \in Nat
      /\ ClientInv(lastRecv.cl)
  BY <1>1 DEF IInv, TypeOK, ExecInv
<1>3. lastRecv.call \in 1..callId[lastRecv.cl]
  BY <1>2 DEF ClientInv
<1>4. Promise!Perform(lastRecv.cl)
  BY <1>1, <1>3 DEF Promise!Perform
<1> QED BY <1>2, <1>4 DEF Promise!Next

LEMMA PromiseClient ==
    ASSUME IInv, IInv', NEW c \in Clients, ClientNext(c)
    PROVE  [Promise!Next]_(Promise!vars)
<1>1. CASE ClientCall(c)
  <2>1. /\ cpc[c] = "idle" /\ cpc' = [cpc EXCEPT ![c] = "send"]
        /\ callId' = [callId EXCEPT ![c] = att[c] + 1]
        /\ result' = [result EXCEPT ![c] = NoResult]
        /\ performed' = performed
        /\ callId[c] <= att[c] /\ att[c] \in Nat
        /\ cpc \in [Clients -> {"idle", "send", "recv"}]
        /\ callId \in [Clients -> Nat] /\ DOMAIN result = Clients
    BY <1>1 DEF ClientCall, serverVars, IInv, ClientInv, TypeOK
  <2>2. Waiting' = Waiting \cup {c} /\ c \notin Waiting
    BY <2>1 DEF Waiting
  <2>3. Outcome' = [Outcome EXCEPT ![c] = "none"]
    BY <2>1 DEF Outcome, NoResult
  <2>4. /\ callId' \in [Clients -> Nat]
        /\ \A d \in Clients : IF d = c THEN callId'[d] > callId[d]
                                       ELSE callId'[d] = callId[d]
    BY <2>1
  <2>5. Promise!Invoke(c)
    BY <2>1, <2>2, <2>3, <2>4 DEF Promise!Invoke, Waiting, Outcome
  <2> QED BY <2>5 DEF Promise!Next
<1>2. CASE ClientSend(c) \/ ClientSkip(c)
  <2>1. /\ UNCHANGED <<callId, performed, result>>
        /\ Waiting' = Waiting
    BY <1>2 DEF ClientSend, TakeSerial, ClientSkip, clientVars, serverVars, Waiting,
                IInv, TypeOK
  <2> QED BY <2>1 DEF Promise!vars, Waiting
\* A call ends: with an answer if the result is one, else with an error.
<1>3. ASSUME cpc[c] # "idle", cpc' = [cpc EXCEPT ![c] = "idle"],
             UNCHANGED <<callId, performed>>,
             NEW res, result' = [result EXCEPT ![c] = res], res.id # "none"
      PROVE  [Promise!Next]_(Promise!vars)
  <2>1. /\ cpc \in [Clients -> {"idle", "send", "recv"}]
        /\ DOMAIN result = Clients /\ result'[c] = res
    BY <1>3 DEF IInv, TypeOK
  <2>2. Waiting' = Waiting \ {c} /\ c \in Waiting
    BY <1>3, <2>1 DEF Waiting
  <2>3. CASE res.id \in Answers
    <3>1. Outcome' = [Outcome EXCEPT ![c] = "answer"]
      BY <1>3, <2>1, <2>3 DEF Outcome
    <3>2. <<c, callId[c]>> \in performed
      BY <1>3, <2>1, <2>3 DEF IInv, ResultIsOfThisCall
    <3>3. Promise!Answer(c)
      BY <1>3, <2>2, <3>1, <3>2 DEF Promise!Answer, Waiting, Outcome
    <3> QED BY <3>3 DEF Promise!Next
  <2>4. CASE res.id \notin Answers
    <3>1. Outcome' = [Outcome EXCEPT ![c] = "error"]
      BY <1>3, <2>1, <2>4 DEF Outcome
    <3>2. Promise!GiveUp(c)
      BY <1>3, <2>2, <3>1 DEF Promise!GiveUp, Waiting, Outcome
    <3> QED BY <3>2 DEF Promise!Next
  <2> QED BY <2>3, <2>4
<1>4. CASE ClientSendFails(c)
  <2>1. PICK res : res = [id |-> "E_SEND", call |-> callId[c]]
    OBVIOUS
  <2>2. /\ cpc[c] # "idle" /\ cpc' = [cpc EXCEPT ![c] = "idle"]
        /\ UNCHANGED <<callId, performed>>
        /\ result' = [result EXCEPT ![c] = res]
        /\ res.id # "none"
    BY <1>4, <2>1 DEF ClientSendFails, TakeSerial, serverVars
  <2> QED BY <1>3, <2>2
<1>5. CASE ClientAccept(c)
  <2>1. PICK r \in reps : result' = [result EXCEPT ![c] = [id |-> r.id, call |-> r.call]]
    BY <1>5 DEF ClientAccept
  <2>2. r.id # "none"
    BY RpcAssumption DEF IInv, TypeOK, Reply, Results, Refusals
  <2>3. PICK res : res = [id |-> r.id, call |-> r.call]
    OBVIOUS
  <2>4. /\ cpc[c] # "idle" /\ cpc' = [cpc EXCEPT ![c] = "idle"]
        /\ UNCHANGED <<callId, performed>>
        /\ result' = [result EXCEPT ![c] = res]
        /\ res.id # "none"
    BY <1>5, <2>1, <2>2, <2>3 DEF ClientAccept, serverVars
  <2> QED BY <1>3, <2>4
<1>6. CASE ClientTimeout(c)
  <2>1. CASE tries[c] < Retry
    <3>1. UNCHANGED <<callId, performed, result>> /\ Waiting' = Waiting
      BY <1>6, <2>1 DEF ClientTimeout, serverVars, Waiting, IInv, TypeOK
    <3> QED BY <3>1 DEF Promise!vars, Waiting
  <2>2. CASE ~(tries[c] < Retry)
    <3>1. PICK res : res = [id |-> "E_TIMEOUT", call |-> callId[c]]
      OBVIOUS
    <3>2. /\ cpc[c] # "idle" /\ cpc' = [cpc EXCEPT ![c] = "idle"]
          /\ UNCHANGED <<callId, performed>>
          /\ result' = [result EXCEPT ![c] = res]
          /\ res.id # "none"
      BY <1>6, <2>2, <3>1 DEF ClientTimeout, serverVars
    <3> QED BY <1>3, <3>2
  <2> QED BY <2>1, <2>2
<1> QED BY <1>1, <1>2, <1>4, <1>5, <1>6 DEF ClientNext

LEMMA PromiseStep ==
    ASSUME IInv, IInv', [Next]_vars
    PROVE  [Promise!Next]_(Promise!vars)
<1>1. CASE SrvReceive \/ LoseRequest \/ LoseReply \/ SrvExecuting
           \/ SrvExecTimeout \/ SrvReply \/ ThreadEnding \/ UNCHANGED vars
  <2>1. UNCHANGED <<callId, performed, cpc, result>>
    BY <1>1 DEF SrvReceive, SrvRefuseClient, SrvResend, SrvBusy, SrvMaxObject,
       SrvBadOption, SrvExecute, SrvStartUnread, HandOver, NotAnswered, Receive,
       LoseRequest, LoseReply, SrvExecuting, SrvExecTimeout, SrvReply, ThreadEnding,
       SrvExecutingFails, SrvReplyFails, RecvFails, RecvThreadEnds,
       vars, clientVars, serverVars
  <2> QED BY <2>1, PromiseStutter
<1>2. CASE BoundsReached
  BY <1>1, <1>2 DEF BoundsReached
<1> QED BY <1>1, <1>2, PromisePerform, PromiseClient DEF Next, ThreadEnding

\* Client, network and server implement RpcPromise.
THEOREM Refinement == Spec => ImplementsPromise
BY InitIInv, StepIInv, PromiseInit, PromiseStep, PTL
   DEF Spec, ImplementsPromise, Promise!Spec
=============================================================================
