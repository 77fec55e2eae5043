--------------------------- MODULE ServerSession ----------------------------
(***************************************************************************)
(* The TCP side of the b-CAP server (bCAPServer/bcap_server.c): an accept  *)
(* thread that gives each client connection a child node with a receiving  *)
(* and an executing thread, the list of the children and the list of the   *)
(* children to delete, which threads change under relation_mutex, and the  *)
(* vector of the objects each connection created, which is released when   *)
(* the connection ends.                                                    *)
(*                                                                         *)
(* A node is a block of memory: alloc holds the blocks malloc has given; a *)
(* freed block is as it was at first, and NothingUsedAfterFree says that    *)
(* nobody looks.  The requests of a connection are abstracted to what they *)
(* do to objects.  maker, parent and abandoned are history.                *)
(***************************************************************************)
EXTENDS Naturals, FiniteSets, SequencesExt

CONSTANTS
    Nodes,       \* blocks for struct CONN_BCAP_SERVER of a child
    Objects,     \* handles of objects of the functions behind the server
    Null,        \* the null pointer
    ClientMax,   \* BCAP_CLIENT_MAX
    ObjectMax    \* BCAP_OBJECT_MAX

ASSUME SessionAssumption ==
    /\ IsFiniteSet(Nodes)
    /\ Null \notin Nodes \cup Objects
    /\ {"none", "accept"} \cap Nodes = {}     \* the other values of mutex
    /\ ClientMax \in Nat \ {0} /\ ObjectMax \in Nat

VARIABLES
    server,      \* "closed", "open", "closing": bCap_Close_Server joins
    acc,         \* accept_thread: what it does next
    cursor,      \* the local child of accept_thread, node of change_relation
    mutex,       \* who holds relation_mutex: "none", "accept" or a node
    numChild,    \* num_child of the root
    young,       \* root->node1, the head of the children list
    dead,        \* root->node2, the head of the delete list
    node1, node2,   \* of each child: towards the head, away from it
    alloc,       \* the blocks that are allocated
    pc,          \* recv_thread of each child
    term,        \* term_main_evt of each child
    comp,        \* comp_evt: exec_thread has nothing to do
    request,     \* last_recv: [op, obj]
    answer,      \* last_send: the object created or released, or Null
    stack,       \* the vector of created objects, the latest first
    open,        \* the client's end of the connection is there
    live,        \* objects that exist behind the functions
    maker, parent, abandoned    \* history

listVars == <<cursor, mutex, numChild, young, dead, node1, node2, alloc>>
threadVars == <<pc, term, comp, request, answer, stack, abandoned>>
objectVars == <<live, maker, parent>>
vars == <<server, acc, listVars, threadVars, open, objectVars>>

NoRequest == [op |-> "call", obj |-> Null]
Thread == {"none", "check", "get", "wait", "exit", "release", "destroy",
           "unlock", "ended"}
Accept == {"none", "wait", "accept", "delete", "deleting", "end", "join",
           "last", "deletingLast"}

Init ==
    /\ server = "closed" /\ acc = "none"
    /\ cursor = Null /\ mutex = "none" /\ numChild = 0
    /\ young = Null /\ dead = Null
    /\ node1 = [n \in Nodes |-> Null] /\ node2 = [n \in Nodes |-> Null]
    /\ alloc = {}
    /\ pc = [n \in Nodes |-> "none"]
    /\ term = [n \in Nodes |-> FALSE]
    /\ comp = [n \in Nodes |-> TRUE]
    /\ request = [n \in Nodes |-> NoRequest]
    /\ answer = [n \in Nodes |-> Null]
    /\ stack = [n \in Nodes |-> <<>>]
    /\ abandoned = [n \in Nodes |-> FALSE]
    /\ open = [n \in Nodes |-> FALSE]
    /\ live = {}
    /\ maker = [o \in Objects |-> Null]
    /\ parent = [o \in Objects |-> Null]
-----------------------------------------------------------------------------
(* The vector of created objects *)

\* Slip: as if the vector were a queue.
PushLast(s, o) == IF Len(s) >= ObjectMax THEN s ELSE Append(s, o)

\* push_vector: on top, unless BCAP_OBJECT_MAX objects are there.
Push(s, o) == IF Len(s) >= ObjectMax THEN s ELSE <<o>> \o s

\* Slip: as if pop_vector were always called with index 0.
PopFirst(s, o) == IF o \in ToSet(s) THEN Tail(s) ELSE s

\* search_vector, then pop_vector: the latest entry of the object.
Pop(s, o) ==
    LET found == {i \in DOMAIN s : s[i] = o}
    IN  IF found = {} THEN s ELSE RemoveAt(s, Min(found))
-----------------------------------------------------------------------------
(* The root: bCap_Open_Server, bCap_Close_Server and accept_thread *)

OpenServer ==
    /\ server = "closed"
    /\ server' = "open"
    /\ acc' = "wait"
    /\ UNCHANGED <<listVars, threadVars, open, objectVars>>

\* set_event(term_main_evt), then exit_thread joins.
CloseServer ==
    /\ server = "open"
    /\ server' = "closing"
    /\ UNCHANGED <<acc, listVars, threadVars, open, objectVars>>

ServerClosed ==
    /\ server = "closing" /\ acc = "none"
    /\ server' = "closed"
    /\ UNCHANGED <<acc, listVars, threadVars, open, objectVars>>

\* The wait for the terminal event, 300 ms.
AcceptWait ==
    /\ acc = "wait"
    /\ acc' = IF server = "closing" THEN "end" ELSE "accept"
    /\ UNCHANGED <<server, listVars, threadVars, open, objectVars>>

NoClient ==
    /\ acc = "accept"
    /\ acc' = "delete"
    /\ UNCHANGED <<server, listVars, threadVars, open, objectVars>>

\* tcp_accept, ADD_CHILD and the begin of recv_thread.  (A failure to set the
\* socket's timeout or to create the event is not modelled.)
AddChild(n) ==
    /\ acc = "accept" /\ mutex = "none"
    /\ numChild < ClientMax
    /\ n \notin alloc
    /\ numChild' = numChild + 1
    /\ young' = n
    /\ node2' = [node2 EXCEPT ![n] = young]
    /\ node1' = [m \in Nodes |-> IF m = n THEN Null
                                 ELSE IF m = young THEN n ELSE node1[m]]
    /\ alloc' = alloc \cup {n}
    /\ pc' = [pc EXCEPT ![n] = "check"]
    /\ term' = [term EXCEPT ![n] = FALSE]
    /\ comp' = [comp EXCEPT ![n] = TRUE]
    /\ stack' = [stack EXCEPT ![n] = <<>>]
    /\ abandoned' = [abandoned EXCEPT ![n] = FALSE]
    /\ open' = [open EXCEPT ![n] = TRUE]
    /\ acc' = "delete"
    /\ UNCHANGED <<server, cursor, mutex, dead, request, answer, objectVars>>

\* change_relation, DELETE_CHILD: locked from here until the list is done.
DeleteBegin ==
    /\ acc \in {"delete", "last"} /\ mutex = "none"
    /\ mutex' = "accept"
    /\ cursor' = dead
    /\ acc' = IF acc = "last" THEN "deletingLast" ELSE "deleting"
    /\ UNCHANGED <<server, numChild, young, dead, node1, node2, alloc,
                   threadVars, open, objectVars>>

\* set_event, exit_thread (which joins), dn_close, free and the next node.
DeleteNode ==
    /\ acc \in {"deleting", "deletingLast"}
    /\ cursor # Null /\ pc[cursor] = "ended"
    /\ term' = [term EXCEPT ![cursor] = FALSE]
    /\ pc' = [pc EXCEPT ![cursor] = "none"]
    /\ open' = [open EXCEPT ![cursor] = FALSE]
    /\ node1' = [node1 EXCEPT ![cursor] = Null]
    /\ node2' = [node2 EXCEPT ![cursor] = Null]
    /\ alloc' = alloc \ {cursor}
    /\ cursor' = node2[cursor]
    /\ numChild' = numChild - 1
    /\ UNCHANGED <<server, acc, mutex, young, dead, comp, request, answer,
                   stack, abandoned, objectVars>>

\* After the last deletion accept_thread releases the mutex and ends.
DeleteEnd ==
    /\ acc \in {"deleting", "deletingLast"}
    /\ cursor = Null
    /\ dead' = Null
    /\ mutex' = "none"
    /\ acc' = IF acc = "deletingLast" THEN "none" ELSE "wait"
    /\ UNCHANGED <<server, cursor, numChild, young, node1, node2, alloc,
                   threadVars, open, objectVars>>

\* Slip: as if the children were not told to end.
EndChildUntold ==
    /\ acc = "end"
    /\ cursor' = young
    /\ acc' = IF young = Null THEN "last" ELSE "join"
    /\ UNCHANGED <<server, mutex, numChild, young, dead, node1, node2, alloc,
                   threadVars, open, objectVars>>

\* child = node1, read without the mutex, then set_event.
EndChild ==
    /\ acc = "end"
    /\ cursor' = young
    /\ IF young = Null
         THEN acc' = "last" /\ UNCHANGED term
         ELSE acc' = "join" /\ term' = [term EXCEPT ![young] = TRUE]
    /\ UNCHANGED <<server, mutex, numChild, young, dead, node1, node2, alloc,
                   pc, comp, request, answer, stack, abandoned, open,
                   objectVars>>

\* Slip: as if the child's thread were not joined.
JoinChildNoWait ==
    /\ acc = "join"
    /\ acc' = "last"
    /\ UNCHANGED <<server, listVars, threadVars, open, objectVars>>

JoinChild ==
    /\ acc = "join" /\ pc[cursor] = "ended"
    /\ acc' = "end"
    /\ UNCHANGED <<server, listVars, threadVars, open, objectVars>>
-----------------------------------------------------------------------------
(* A child: recv_thread, exec_thread and receive_execute *)

Goto(n, p) == pc' = [pc EXCEPT ![n] = p]

CheckTerm(n) ==
    /\ pc[n] = "check"
    /\ Goto(n, IF term[n] THEN "exit" ELSE "get")
    /\ UNCHANGED <<server, acc, listVars, term, comp, request, answer, stack,
                   abandoned, open, objectVars>>

\* Nothing arrives, or the request is refused with an error answer: the
\* executing thread is busy, or the vector is full.
GetNothing(n) ==
    /\ pc[n] = "get" /\ open[n]
    /\ Goto(n, "check")
    /\ UNCHANGED <<server, acc, listVars, term, comp, request, answer, stack,
                   abandoned, open, objectVars>>

\* bcap_recv fails for another reason than a timeout: the connection is gone, or
\* what came is no packet.
GetError(n) ==
    /\ pc[n] = "get"
    /\ Goto(n, "exit")
    /\ UNCHANGED <<server, acc, listVars, term, comp, request, answer, stack,
                   abandoned, open, objectVars>>

\* A request is handed to exec_thread.  A client names objects it was told of.
GetRequest(n) ==
    /\ pc[n] = "get" /\ open[n] /\ comp[n]
    /\ \E op \in {"call", "release"}, o \in ToSet(stack[n]) \cup {Null} :
        /\ op = "release" => o # Null
        /\ request' = [request EXCEPT ![n] = [op |-> op, obj |-> o]]
    /\ comp' = [comp EXCEPT ![n] = FALSE]
    /\ Goto(n, "wait")
    /\ UNCHANGED <<server, acc, listVars, term, answer, stack, abandoned,
                   open, objectVars>>

\* Bound: an execution is abandoned only while there are no objects, and none is
\* made while a connection has abandoned one.

\* An option of ServiceStart that cannot be read: the request is handed over all
\* the same, but the failure ends recv_thread, which does not wait for it.
GetBadOption(n) ==
    /\ live = {}
    /\ pc[n] = "get" /\ open[n] /\ comp[n]
    /\ Len(stack[n]) < ObjectMax
    /\ request' = [request EXCEPT ![n] = NoRequest]
    /\ comp' = [comp EXCEPT ![n] = FALSE]
    /\ abandoned' = [abandoned EXCEPT ![n] = TRUE]
    /\ Goto(n, "exit")
    /\ UNCHANGED <<server, acc, listVars, term, answer, stack, open, objectVars>>

\* The function behind the server releases the object o.
Gone(o) ==
    /\ live' = live \ {o}
    /\ maker' = [maker EXCEPT ![o] = Null]
    /\ parent' = [p \in Objects |-> IF p = o \/ parent[p] = o THEN Null
                                    ELSE parent[p]]

\* exec_thread, bcap_callfunc: the function succeeds, or fails without effect.  A
\* function that makes an object is refused when the vector is full.  Nothing
\* reads a request and an answer that are not waited for.
Exec(n) ==
    /\ ~comp[n]
    /\ comp' = [comp EXCEPT ![n] = TRUE]
    /\ \/ /\ answer' = [answer EXCEPT ![n] = Null]
          /\ UNCHANGED objectVars
       \/ /\ request[n].op = "call" /\ Len(stack[n]) < ObjectMax
          /\ \A m \in Nodes : ~abandoned[m]
          /\ \E o \in Objects \ live :
               /\ answer' = [answer EXCEPT ![n] = o]
               /\ live' = live \cup {o}
               /\ maker' = [maker EXCEPT ![o] = n]
               /\ parent' = [parent EXCEPT ![o] = request[n].obj]
       \/ /\ request[n].op = "release" /\ request[n].obj \in live
          /\ answer' = [answer EXCEPT ![n] = request[n].obj]
          /\ Gone(request[n].obj)
    /\ request' = IF pc[n] = "wait" THEN request
                  ELSE [request EXCEPT ![n] = NoRequest]
    /\ UNCHANGED <<server, acc, listVars, pc, term, stack, abandoned, open>>

\* comp_evt came: the vector follows a successful answer, then it is sent.
\* Nothing reads the request and the answer after that.
Answer(n) ==
    /\ pc[n] = "wait" /\ comp[n]
    /\ stack' = [stack EXCEPT ![n] =
         IF answer[n] = Null THEN @
         ELSE IF request[n].op = "call" THEN Push(@, answer[n])
         ELSE Pop(@, answer[n])]
    /\ \/ Goto(n, "check")
       \/ ~open[n] /\ Goto(n, "exit")
    /\ request' = [request EXCEPT ![n] = NoRequest]
    /\ answer' = [answer EXCEPT ![n] = Null]
    /\ UNCHANGED <<server, acc, listVars, term, comp, abandoned, open,
                   objectVars>>

\* The watch dog expires while the function runs: S_EXECUTING cannot be sent,
\* or the execution timeout is over.  The answer is not waited for.
Abandon(n) ==
    /\ live = {}
    /\ pc[n] = "wait" /\ ~comp[n]
    /\ \/ Goto(n, "check")
       \/ ~open[n] /\ Goto(n, "exit")
    /\ abandoned' = [abandoned EXCEPT ![n] = TRUE]
    /\ UNCHANGED <<server, acc, listVars, term, comp, request, answer, stack,
                   open, objectVars>>

\* set_event(term_sub_evt) and the join: exec_thread finishes the function it
\* runs; one it has not begun it leaves.
ExitExec(n) ==
    /\ pc[n] = "exit"
    /\ comp' = [comp EXCEPT ![n] = TRUE]
    /\ request' = [request EXCEPT ![n] = NoRequest]
    /\ answer' = [answer EXCEPT ![n] = Null]
    /\ Goto(n, "release")
    /\ UNCHANGED <<server, acc, listVars, term, stack, abandoned, open,
                   objectVars>>

\* pop_vector at index 0 and the release function of the object.
Release(n) ==
    /\ pc[n] = "release"
    /\ IF stack[n] = <<>>
         THEN Goto(n, "destroy") /\ UNCHANGED <<stack, objectVars>>
         ELSE /\ stack' = [stack EXCEPT ![n] = Tail(@)]
              /\ Gone(Head(stack[n]))
              /\ UNCHANGED pc
    /\ UNCHANGED <<server, acc, listVars, term, comp, request, answer,
                   abandoned, open>>

\* Slip: as if the older neighbour kept its link to the node.
DestroyOneWay(n) ==
    /\ pc[n] = "destroy" /\ mutex = "none"
    /\ mutex' = n
    /\ young' = IF node1[n] = Null THEN node2[n] ELSE young
    /\ dead' = n
    /\ node2' = [m \in Nodes |-> IF m = n THEN dead
                                 ELSE IF m = node1[n] THEN node2[n]
                                 ELSE node2[m]]
    /\ node1' = [m \in Nodes |-> IF m = dead THEN n ELSE node1[m]]
    /\ Goto(n, "unlock")
    /\ UNCHANGED <<server, acc, cursor, numChild, alloc, term, comp, request,
                   answer, stack, abandoned, open, objectVars>>

\* change_relation, DESTROY_SELF: out of the children list, to the head of the
\* delete list.  The former head's node1 is set, own->node1 is left alone.
Destroy(n) ==
    /\ pc[n] = "destroy" /\ mutex = "none"
    /\ mutex' = n
    /\ young' = IF node1[n] = Null THEN node2[n] ELSE young
    /\ dead' = n
    /\ node2' = [m \in Nodes |-> IF m = n THEN dead
                                 ELSE IF m = node1[n] THEN node2[n]
                                 ELSE node2[m]]
    /\ node1' = [m \in Nodes |-> IF m = dead THEN n
                                 ELSE IF m = node2[n] THEN node1[n]
                                 ELSE node1[m]]
    /\ Goto(n, "unlock")
    /\ maker' = [o \in Objects |-> IF maker[o] = n THEN Null ELSE maker[o]]
    /\ abandoned' = [abandoned EXCEPT ![n] = FALSE]
    /\ UNCHANGED <<server, acc, cursor, numChild, alloc, term, comp, request,
                   answer, stack, open, live, parent>>

\* unlock_mutex, and the thread returns.
Unlock(n) ==
    /\ pc[n] = "unlock"
    /\ mutex' = "none"
    /\ Goto(n, "ended")
    /\ UNCHANGED <<server, acc, cursor, numChild, young, dead, node1, node2,
                   alloc, term, comp, request, answer, stack, abandoned, open,
                   objectVars>>

\* The client, or the network, ends the connection.
Disconnect(n) ==
    /\ open[n]
    /\ open' = [open EXCEPT ![n] = FALSE]
    /\ UNCHANGED <<server, acc, listVars, threadVars, objectVars>>
-----------------------------------------------------------------------------
AcceptThread ==
    \/ AcceptWait \/ NoClient \/ (\E n \in Nodes : AddChild(n))
    \/ DeleteBegin \/ DeleteNode \/ DeleteEnd \/ EndChild \/ JoinChild

RecvThread(n) ==
    \/ CheckTerm(n) \/ GetNothing(n) \/ GetError(n) \/ GetRequest(n)
    \/ GetBadOption(n) \/ Answer(n) \/ Abandon(n) \/ ExitExec(n) \/ Release(n) \/ Destroy(n)
    \/ Unlock(n)

Next ==
    \/ OpenServer \/ CloseServer \/ ServerClosed
    \/ AcceptThread
    \/ \E n \in Nodes : RecvThread(n) \/ Exec(n) \/ Disconnect(n)

\* The scheduler runs every thread that can go on, and the functions return.
\* accept_thread sleeps between two uses of relation_mutex, so a child that
\* waits for the mutex gets it.
Fairness ==
    /\ WF_vars(ServerClosed) /\ WF_vars(AcceptThread)
    /\ \A n \in Nodes : /\ WF_vars(RecvThread(n)) /\ WF_vars(Exec(n))
                        /\ SF_vars(Destroy(n))

Spec == Init /\ [][Next]_vars /\ Fairness
-----------------------------------------------------------------------------
(* Properties *)

Handle == Nodes \cup {Null}

\* What the variables hold: state of the root, the lists, the threads of the
\* children and the objects.
TypeOK ==
    /\ server \in {"closed", "open", "closing"} /\ acc \in Accept
    /\ {cursor, young, dead} \subseteq Handle
    /\ mutex \in {"none", "accept"} \cup Nodes
    /\ numChild \in 0..ClientMax
    /\ node1 \in [Nodes -> Handle] /\ node2 \in [Nodes -> Handle]
    /\ alloc \subseteq Nodes
    /\ pc \in [Nodes -> Thread]
    /\ {term, comp, open, abandoned} \subseteq [Nodes -> BOOLEAN]
    /\ request \in [Nodes -> [op : {"call", "release"},
                              obj : Objects \cup {Null}]]
    /\ answer \in [Nodes -> Objects \cup {Null}]
    /\ \A n \in Nodes : stack[n] \in Seq(Objects) /\ Len(stack[n]) <= ObjectMax
    /\ live \subseteq Objects
    /\ maker \in [Objects -> Handle]
    /\ parent \in [Objects -> Objects \cup {Null}]

\* The nodes met from the node h along node2, and whether the way ends.
Walk(h) ==
    LET at[k \in 0..Cardinality(Nodes)] ==
          IF k = 0 THEN h
          ELSE IF at[k - 1] = Null THEN Null ELSE node2[at[k - 1]]
    IN  at
Reach(h) == Range(Walk(h)) \ {Null}
Ends(h) == Walk(h)[Cardinality(Nodes)] = Null

\* Whenever accept_thread is not deleting, every allocated node is in exactly
\* one of the two lists, both lists end, the children are linked both ways,
\* and num_child counts the nodes (change_relation; a node that was lost would
\* keep its slot for ever, one in both lists would be freed twice).
ListsWellFormed ==
    mutex # "accept" =>
      /\ Ends(young) /\ Ends(dead)
      /\ Reach(young) \cap Reach(dead) = {}
      /\ Reach(young) \cup Reach(dead) = alloc
      /\ numChild = Cardinality(alloc)
      /\ young # Null => node1[young] = Null
      /\ \A n \in Reach(young) : node2[n] # Null => node1[node2[n]] = n

\* No thread uses memory or a mutex that is gone: what accept_thread points at
\* is allocated, a node is freed after its thread ended, and when accept_thread
\* ends, and with it the mutex on its stack, no child is left.
NothingUsedAfterFree ==
    /\ cursor # Null /\ acc \in {"join", "deleting", "deletingLast"}
         => cursor \in alloc
    /\ \A n \in Nodes : pc[n] # "none" <=> n \in alloc
    /\ acc = "none" => alloc = {} /\ mutex = "none"

\* The objects a connection made and has not released.
Made(n) == {o \in live : maker[o] = n}

\* The vector holds the created objects of the connection whenever no request
\* is executing, unless an execution was abandoned, and none is left when the
\* connection's thread has released the vector.
ObjectsTracked ==
    \A n \in Nodes :
      ~abandoned[n] /\ pc[n] \in {"check", "get", "release", "destroy"}
        => ToSet(stack[n]) = Made(n)

\* The end of a connection releases an object after the objects made from it:
\* no object that recv_thread has still to release comes from the released one.
ChildrenReleasedFirst ==
    [][\A n \in Nodes :
         pc[n] = "release" /\ stack[n] # <<>> /\ stack'[n] = Tail(stack[n])
           => \A o \in ToSet(stack'[n]) : parent[o] # Head(stack[n])]_vars
=============================================================================
