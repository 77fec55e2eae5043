---------------------------- MODULE ServiceTree -----------------------------
(***************************************************************************)
(* The objects of denso_robot_core and the topics they serve: a controller *)
(* with its robots, tasks and variables, and the variables of robots and   *)
(* tasks.  DensoController, DensoRobot, DensoTask and DensoVariable each   *)
(* have m_serving, m_mtxSrv and the same StartService, StopService and     *)
(* Update, which the controller passes down the tree.                      *)
(*                                                                         *)
(* Three threads meet in it.  Two stop and start the services: the one that*)
(* changes the mode with mtx_mode_ (the control loop, or the service       *)
(* ChangeMode), and the one of Stop, which changes it without that mutex   *)
(* and stops the engine.  The spinning thread calls Update on the          *)
(* controller and, from the callback of a topic a variable is written by,  *)
(* on that variable.                                                       *)
(***************************************************************************)
EXTENDS Naturals, Sequences, SequencesExt

CONSTANTS
    Tree,       \* what the controller may have
    Root,       \* the controller, in Tree
    Below,      \* [Tree -> Seq(Tree)]: m_vecRobot \o m_vecTask \o m_vecVar
    Robots,     \* those that are robots
    Variables   \* those that are variables, with m_bRead and m_bWrite

VARIABLES
    objects,    \* the objects made so far
    stage,      \* "building", "failed" or "running"
    m_serving,  \* the objects whose m_serving is set
    topics,     \* the variables whose publisher and subscriber exist
    slave,      \* m_mode is that of a slave mode
    changing,   \* what each changer is in: "none", "stop", "start" or "quit"
    order,      \* the objects it has still to stop or start
    halfway,    \* the changers between the two steps of a variable
    crossed,    \* the variables two changers were halfway in when last changed
    writing,    \* the variable the spinning thread writes for a topic, or none
    path        \* the Updates the spinning thread is in: <<object, what is left>>

changeVars == <<slave, changing, order, halfway, crossed>>
vars == <<objects, stage, m_serving, topics, changeVars, writing, path>>

\* The holder of mtx_mode_, and Stop.
Changers == {"mode", "stop"}

\* The objects from the controller down, and from the variables up.
Made(seq) == SelectSeq(seq, LAMBDA o : o \in objects)
Down == Made(<<Root>> \o FlattenSeq([i \in DOMAIN Below[Root] |->
                           <<Below[Root][i]>> \o Below[Below[Root][i]]]))
Up == Made(FlattenSeq([i \in DOMAIN Below[Root] |->
                           Append(Below[Below[Root][i]], Below[Root][i])]) \o <<Root>>)

\* The spinning thread holds the m_mtxSrv of every object in path.
Locked == {path[i][1] : i \in DOMAIN path}

Init ==
    /\ objects = {} /\ stage = "building"
    /\ m_serving = {} /\ topics = {}
    /\ slave = FALSE /\ changing = [c \in Changers |-> "none"]
    /\ order = [c \in Changers |-> <<>>] /\ halfway = {} /\ crossed = {}
    /\ writing = {} /\ path = <<>>

-----------------------------------------------------------------------------
(* InitializeBCAP: the controller, its variables, its robots and its tasks *)
(* with theirs; the application adds more by name.  What GetObjectNames    *)
(* and the file of variables name is any choice.                           *)

\* An object needs a handle from each service; the first call that fails ends
\* InitializeBCAP, and no service starts.
AddObject(o) ==
    /\ stage = "building" /\ o \notin objects
    /\ \/ objects' = objects \cup {o} /\ UNCHANGED stage
       \/ stage' = "failed" /\ UNCHANGED objects
    /\ UNCHANGED <<m_serving, topics, changeVars, writing, path>>

\* It also fails when the controller does not tell its version.
AddController == AddObject(Root)

AddRobot(o) == Root \in objects /\ o \in Robots /\ AddObject(o)
AddTask(o) == Root \in objects /\ o \notin Robots \cup Variables \cup {Root} /\ AddObject(o)

AddVariable(o) ==
    /\ o \in Variables
    /\ \E parent \in objects : o \in Range(Below[parent])
    /\ AddObject(o)

\* Changes of mode follow (DensoRobotHW), or Start, after Initialize has changed
\* to slave mode (the program denso_robot_control) or not.
Built ==
    /\ stage = "building" /\ Root \in objects
    /\ stage' = "running"
    /\ \/ UNCHANGED changeVars
       \/ /\ slave' \in BOOLEAN
          /\ changing' = [changing EXCEPT !["mode"] = "start"]
          /\ order' = [order EXCEPT !["mode"] = Up]
          /\ UNCHANGED <<halfway, crossed>>
    /\ UNCHANGED <<objects, m_serving, topics, writing, path>>

-----------------------------------------------------------------------------
(* The changing threads *)

Go(c, what, seq) ==
    /\ changing' = [changing EXCEPT ![c] = what]
    /\ order' = [order EXCEPT ![c] = seq]
    /\ UNCHANGED <<objects, stage, m_serving, topics, halfway, crossed, writing, path>>

\* A mode change stops the services first.  Stop, which comes once, ends with the
\* engine's, which stops them again and is all of it in denso_robot_core.
Begin(c) ==
    /\ stage = "running" /\ order[c] = <<>> /\ UNCHANGED slave
    /\ \/ c = "mode" /\ changing[c] \in {"none", "start"} /\ Go(c, "stop", Down)
       \/ c = "stop" /\ changing[c] = "none" /\ Go(c, "stop", Down)
       \/ c = "stop" /\ changing[c] \in {"none", "start"} /\ Go(c, "quit", Down)

\* The robot's ChangeMode has returned.  A change to slave mode that fails sets
\* m_mode to normal, but only one to normal mode starts the services.
ChangeMode(c) ==
    /\ changing[c] = "stop" /\ order[c] = <<>>
    /\ \/ slave' = FALSE /\ Go(c, "start", Up)
       \/ c = "mode" /\ slave' \in BOOLEAN /\ Go(c, "none", <<>>)

Advance(c) == order' = [order EXCEPT ![c] = Tail(@)]

\* c comes between the two steps of variable o; that the other one is there too
\* is a race on the pointers to its topics.
Enter(c, o) ==
    /\ halfway' = halfway \cup {c}
    /\ crossed' = IF \E d \in halfway \ {c} : Head(order[d]) = o THEN crossed \cup {o}
                  ELSE crossed \ {o}

AtNext(c, o) == order[c] # <<>> /\ o = Head(order[c])

\* Slip: a variable's topics are reset before m_serving is.
StopServiceTopicsFirst(c, o) ==
    /\ changing[c] \in {"stop", "quit"} /\ AtNext(c, o)
    /\ \/ /\ o \in Variables /\ c \notin halfway
          /\ topics' = topics \ {o} /\ Enter(c, o)
          /\ UNCHANGED <<m_serving, order>>
       \/ /\ o \in Variables => c \in halfway
          /\ o \notin Locked
          /\ m_serving' = m_serving \ {o} /\ halfway' = halfway \ {c}
          /\ Advance(c) /\ UNCHANGED <<topics, crossed>>
    /\ UNCHANGED <<objects, stage, slave, changing, writing, path>>

\* StopService: m_serving is cleared under m_mtxSrv, then the topics are reset.
StopService(c, o) ==
    /\ changing[c] \in {"stop", "quit"} /\ AtNext(c, o)
    /\ \/ /\ c \notin halfway /\ o \notin Locked
          /\ m_serving' = m_serving \ {o}
          /\ IF o \in Variables THEN Enter(c, o) /\ UNCHANGED order
             ELSE Advance(c) /\ UNCHANGED <<halfway, crossed>>
          /\ UNCHANGED topics
       \/ /\ c \in halfway
          /\ topics' = topics \ {o} /\ halfway' = halfway \ {c}
          /\ Advance(c) /\ UNCHANGED <<m_serving, crossed>>
    /\ UNCHANGED <<objects, stage, slave, changing, writing, path>>

\* StartService: the topics are made, then m_serving is set, without the lock; a
\* variable does neither when the other changer has entered slave mode.
StartService(c, o) ==
    /\ changing[c] = "start" /\ AtNext(c, o)
    /\ \/ /\ o \in Variables /\ c \notin halfway /\ ~slave
          /\ topics' = topics \cup {o} /\ Enter(c, o)
          /\ UNCHANGED <<m_serving, order>>
       \/ /\ o \in Variables /\ c \notin halfway /\ slave
          /\ Advance(c) /\ UNCHANGED <<m_serving, topics, halfway, crossed>>
       \/ /\ o \in Variables => c \in halfway
          /\ m_serving' = m_serving \cup {o} /\ halfway' = halfway \ {c}
          /\ Advance(c) /\ UNCHANGED <<topics, crossed>>
    /\ UNCHANGED <<objects, stage, slave, changing, writing, path>>

-----------------------------------------------------------------------------
(* The spinning thread *)

\* Update of o is called in the Updates of outer: it returns at once when o is
\* not serving, and holds its m_mtxSrv to the end when it is.
Call(o, outer) ==
    path' = IF o \in m_serving THEN Append(outer, <<o, Made(Below[o])>>) ELSE outer

\* SpinNode calls Update on the controller; it does so from the start.
Update ==
    /\ stage = "running" /\ path = <<>> /\ writing = {}
    /\ Call(Root, <<>>)
    /\ UNCHANGED writing

\* A message for a variable: its callback writes it to the controller.
Callback(v) ==
    /\ path = <<>> /\ writing = {}
    /\ v \in topics
    /\ writing' = {v}
    /\ UNCHANGED path

\* ExecPutValue or ExecPutID has its answer, and calls Update if it succeeded.
ExecPutValue(v) ==
    /\ v \in writing
    /\ writing' = {}
    /\ Call(v, <<>>) \/ UNCHANGED path

\* Update of the innermost object goes on to what is below it, and returns.  A
\* variable is read from the controller and published meanwhile.
UpdateNext ==
    /\ path # <<>>
    /\ LET o == Last(path)[1]
           left == Last(path)[2]
       IN IF left = <<>> THEN path' = Front(path)
          ELSE Call(Head(left), Append(Front(path), <<o, Tail(left)>>))
    /\ UNCHANGED writing

SpinThread ==
    /\ Update \/ UpdateNext \/ \E v \in Variables : Callback(v) \/ ExecPutValue(v)
    /\ UNCHANGED <<objects, stage, m_serving, topics, changeVars>>

Next ==
    \/ \E o \in Tree : AddRobot(o) \/ AddTask(o) \/ AddVariable(o)
    \/ AddController \/ Built \/ SpinThread
    \/ \E c \in Changers : Begin(c) \/ ChangeMode(c)
    \/ \E c \in Changers, o \in Tree : StopService(c, o) \/ StartService(c, o)

Spec == Init /\ [][Next]_vars
-----------------------------------------------------------------------------
(* Properties *)

TypeOK ==
    /\ objects \subseteq Tree /\ topics \subseteq objects \cap Variables
    /\ m_serving \subseteq objects /\ Locked \subseteq objects
    /\ stage \in {"building", "failed", "running"}
    /\ slave \in BOOLEAN /\ changing \in [Changers -> {"none", "stop", "start", "quit"}]
    /\ order \in [Changers -> Seq(objects)] /\ crossed \subseteq Variables
    /\ \A c \in Changers : changing[c] = "none" => order[c] = <<>>
    /\ halfway \subseteq Changers
    /\ \A c \in halfway : order[c] # <<>> /\ Head(order[c]) \in Variables
    /\ writing \subseteq Variables

\* A variable is read and published only while it serves, so never once
\* StopService of the controller has cleared it, and only while its publisher
\* exists, whether Update came from the spinning loop or from the callback of its
\* own topic: the value is not published through a reset pointer.  Exception: the
\* publisher of a variable that Stop and another change of mode were in at once,
\* until it is stopped or started by one of them alone.
PolledInService ==
    \A v \in Locked \cap Variables : v \in m_serving /\ v \in topics \cup crossed
=============================================================================
