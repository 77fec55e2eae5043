-------------------------- MODULE ActionGoalsProof --------------------------
(***************************************************************************)
(* The theorems about ActionGoals, for every number of goals, kinds and    *)
(* disturbances and for every set of faults.                               *)
(*                                                                         *)
(* BusyOnlyInFlight is inductive once the types are known.  ArmFreeWhenIdle*)
(* needs to know who holds the arm (ArmHasHolder), and OneMotion, which is *)
(* promised only until something disturbs, that m_curAct is the kind of the   *)
(* one goal in flight (Alone).                                             *)
(***************************************************************************)
EXTENDS ActionGoals, TLAPS

\* The arm is taken on behalf of a goal or of the executor.
ArmHasHolder ==
    arm => \/ \E g \in Goals : pc[g] \in {"move", "moving", "give"}
           \/ exec \in {"speedExec", "speedGive"}

\* Until something disturbs: the goal in flight, if any, is the current action.
Alone ==
    /\ exec \in {"idle", "feedback"} /\ serving = "yes" /\ m_curAct # "reset"
    /\ \A g \in InFlight : m_curAct = kind[g]
    /\ \A g, h \in InFlight : g = h
    /\ \A g \in Goals : pc[g] \in {"move", "moving", "give"} => arm

IInv ==
    /\ TypeOK
    /\ BusyOnlyInFlight
    /\ ArmHasHolder
    /\ disturbed = 0 => Alone

-----------------------------------------------------------------------------
\* A step of one goal thread changes pc for that goal only.
LEMMA StepMoves ==
    ASSUME TypeOK, NEW g \in Goals, NEW from, NEW to, Step(g, from, to)
    PROVE  pc[g] = from /\ pc'[g] = to /\ \A h \in Goals \ {g} : pc'[h] = pc[h]
BY DEF Step, TypeOK

\* The first answer stands, and answers stay answers.
LEMMA AnswerType ==
    ASSUME TypeOK, NEW g \in Goals, NEW r \in {"succeeded", "aborted", "canceled"},
           Answer(g, r)
    PROVE  /\ result' \in [Goals -> {"none", "succeeded", "aborted", "canceled"}]
           /\ clashes' \subseteq Goals
BY DEF Answer, TypeOK

\* Types hold at the start.
LEMMA InitIInv == Init => IInv
<1> SUFFICES ASSUME Init PROVE IInv
  OBVIOUS
<1>1. TypeOK
  <2>1. disturbed \in 0..MaxDisturb
    BY GoalAssumption DEF Init
  <2>2. pc \in [Goals -> MotionPCs \cup {"new", "accepted", "check", "end", "done"}]
    BY DEF Init
  <2>3. handle \in [Kinds -> Goals \cup {NoGoal}] /\ kind \in [Goals -> Kinds]
    BY DEF Init
  <2> QED BY <2>1, <2>2, <2>3 DEF Init, TypeOK
<1>2. BusyOnlyInFlight /\ ArmHasHolder
  BY GoalAssumption DEF Init, BusyOnlyInFlight, ArmHasHolder
<1>3. Alone
  <2>1. \A g \in Goals : pc[g] = "new"
    BY DEF Init
  <2>2. InFlight = {}
    BY <2>1 DEF InFlight, MotionPCs
  <2> QED BY <2>1, <2>2 DEF Init, Alone
<1> QED BY <1>1, <1>2, <1>3 DEF IInv

LEMMA GoalThreadType ==
    ASSUME TypeOK, NEW g \in Goals, GoalThread(g)
    PROVE  TypeOK'
<1>1. CASE StoreHandle(g)
  BY <1>1 DEF TypeOK, StoreHandle, Step, MotionPCs
<1>6. CASE Claim(g)
  BY <1>6 DEF TypeOK, Claim, Step, MotionPCs
<1>7. CASE StartMotion(g) \/ GiveArm(g)
  BY <1>7 DEF TypeOK, StartMotion, GiveArm, Step, MotionPCs
<1>2. CASE TakeArm(g)
  BY <1>2 DEF TypeOK, TakeArm, Step, MotionPCs
<1>3. CASE EndMotion(g)
  BY <1>3 DEF TypeOK, EndMotion, Step, MotionPCs
<1>4. CASE Refuse(g)
  <2>1. /\ result' \in [Goals -> {"none", "succeeded", "aborted", "canceled"}]
        /\ clashes' \subseteq Goals
    BY <1>4, AnswerType DEF Refuse, TypeOK
  <2> QED BY <1>4, <2>1 DEF TypeOK, Refuse, Step, MotionPCs
<1>5. CASE Finish(g)
  <2>1. /\ result' \in [Goals -> {"none", "succeeded", "aborted", "canceled"}]
        /\ clashes' \subseteq Goals
    BY <1>5, AnswerType DEF Finish, TypeOK
  <2> QED BY <1>5, <2>1 DEF TypeOK, Finish, Step, MotionPCs
<1> QED BY <1>1, <1>2, <1>3, <1>4, <1>5, <1>6, <1>7 DEF GoalThread

\* Every step keeps the types.
LEMMA TypeStep == ASSUME TypeOK, [Next]_vars PROVE TypeOK'
<1> USE GoalAssumption
<1>1. CASE \E g \in Goals : GoalThread(g)
  BY <1>1, GoalThreadType
<1>2. CASE \E g \in Goals : HandleAccepted(g)
  BY <1>2 DEF TypeOK, HandleAccepted, Step, MotionPCs
<1>3. CASE \E g \in Goals : HandleCancel(g)
  BY <1>3 DEF TypeOK, HandleCancel, Disturbance, MotionPCs
<1>4. CASE Canceled
  <2>1. /\ result' \in [Goals -> {"none", "succeeded", "aborted", "canceled"}]
        /\ clashes' \subseteq Goals
    BY <1>4, AnswerType DEF Canceled, TypeOK
  <2> QED BY <1>4, <2>1 DEF TypeOK, Canceled, MotionPCs
<1>5. CASE Feedback \/ FeedbackDone \/ ClearAct \/ SpeedTakeArm \/ SpeedExec
           \/ SpeedGiveArm
  BY <1>5 DEF TypeOK, Feedback, FeedbackDone, ClearAct, SpeedTakeArm, SpeedExec,
     SpeedGiveArm, MotionPCs
<1>6. CASE Callback_Speed
  BY <1>6 DEF TypeOK, Callback_Speed, Disturbance
<1>8. CASE StopService
  <2>1. disturbed' \in 0..MaxDisturb
    BY <1>8 DEF TypeOK, StopService, Disturbance
  <2>2. UNCHANGED <<handle, pc, kind, hr, result, clashes, exec, target, arm, halted>>
        /\ serving' = "no" /\ m_curAct' = "reset"
    BY <1>8 DEF StopService
  <2> QED BY <2>1, <2>2 DEF TypeOK
<1>9. CASE StartService \/ ServiceStarted
  BY <1>9 DEF TypeOK, StartService, ServiceStarted
<1>7. CASE AllDone \/ UNCHANGED vars
  BY <1>7 DEF TypeOK, AllDone, vars, MotionPCs
<1> QED BY <1>1, <1>2, <1>3, <1>4, <1>5, <1>6, <1>7, <1>8, <1>9 DEF Next, Executor

-----------------------------------------------------------------------------
\* A busy robot keeps a goal of that kind in flight.
LEMMA BusyStep == ASSUME TypeOK, BusyOnlyInFlight, [Next]_vars PROVE BusyOnlyInFlight'
<1>1. ASSUME UNCHANGED <<m_curAct, kind>>, InFlight \subseteq InFlight'
      PROVE  BusyOnlyInFlight'
  BY <1>1 DEF BusyOnlyInFlight
<1>2. ASSUME m_curAct' \notin Kinds PROVE BusyOnlyInFlight'
  BY <1>2 DEF BusyOnlyInFlight
<1>3. ASSUME NEW g \in Goals, Claim(g) PROVE BusyOnlyInFlight'
  BY <1>3 DEF BusyOnlyInFlight, Claim, Step, InFlight, MotionPCs, TypeOK
<1>4. ASSUME NEW g \in Goals, Finish(g) PROVE BusyOnlyInFlight'
  <2>1. CASE m_curAct = kind[g]
    BY <1>2, <1>4, <2>1, GoalAssumption DEF Finish
  <2>2. CASE m_curAct # kind[g]
    <3>1. UNCHANGED <<m_curAct, kind>>
      BY <1>4, <2>2 DEF Finish
    <3>2. SUFFICES ASSUME m_curAct \in Kinds PROVE \E h \in InFlight' : kind[h] = m_curAct
      BY <3>1 DEF BusyOnlyInFlight
    <3>3. PICK h \in InFlight : kind[h] = m_curAct
      BY <3>2 DEF BusyOnlyInFlight
    <3>4. h \in InFlight'
      BY <1>4, <2>2, <3>3, StepMoves DEF Finish, InFlight
    <3> QED BY <3>3, <3>4
  <2> QED BY <2>1, <2>2
<1>5. ASSUME NEW g \in Goals,
             \/ HandleAccepted(g) \/ StoreHandle(g) \/ Refuse(g) \/ TakeArm(g)
             \/ StartMotion(g) \/ EndMotion(g) \/ GiveArm(g) \/ HandleCancel(g)
      PROVE  BusyOnlyInFlight'
  <2>1. UNCHANGED <<m_curAct, kind>>
    BY <1>5 DEF HandleAccepted, StoreHandle, Refuse, TakeArm, StartMotion, EndMotion,
       GiveArm, HandleCancel
  <2>2. InFlight \subseteq InFlight'
    BY <1>5 DEF HandleAccepted, StoreHandle, Refuse, TakeArm, StartMotion, EndMotion,
       GiveArm, HandleCancel, Step, InFlight, MotionPCs, TypeOK
  <2> QED BY <1>1, <2>1, <2>2
<1>6. CASE \/ Feedback \/ FeedbackDone \/ Canceled \/ Callback_Speed \/ SpeedTakeArm
           \/ SpeedExec \/ SpeedGiveArm \/ StartService \/ AllDone \/ UNCHANGED vars
  <2>1. UNCHANGED <<m_curAct, kind, pc>>
    BY <1>6 DEF Feedback, FeedbackDone, Canceled, Callback_Speed, SpeedTakeArm,
       SpeedExec, SpeedGiveArm, StartService, AllDone, vars
  <2> QED BY <1>1, <2>1 DEF InFlight
<1>7. CASE ClearAct \/ StopService \/ ServiceStarted
  BY <1>2, <1>7, GoalAssumption DEF ClearAct, StopService, ServiceStarted
<1> QED BY <1>3, <1>4, <1>5, <1>6, <1>7 DEF Next, GoalThread, Executor

\* The arm is taken only while somebody is going to give it back.
LEMMA ArmStep == ASSUME TypeOK, ArmHasHolder, [Next]_vars PROVE ArmHasHolder'
<1>1. ASSUME NEW g \in Goals,
             \/ HandleAccepted(g) \/ StoreHandle(g) \/ Refuse(g) \/ Claim(g)
             \/ StartMotion(g) \/ EndMotion(g) \/ Finish(g)
      PROVE  ArmHasHolder'
  BY <1>1 DEF ArmHasHolder, HandleAccepted, StoreHandle, Refuse, Claim, StartMotion,
     EndMotion, Finish, Step, TypeOK
<1>2. ASSUME NEW g \in Goals, TakeArm(g) PROVE ArmHasHolder'
  BY <1>2 DEF ArmHasHolder, TakeArm, Step, TypeOK
<1>3. ASSUME NEW g \in Goals, GiveArm(g) PROVE ArmHasHolder'
  BY <1>3 DEF ArmHasHolder, GiveArm
<1>4. ASSUME NEW g \in Goals, HandleCancel(g) PROVE ArmHasHolder'
  BY <1>4 DEF ArmHasHolder, HandleCancel
<1>5. CASE \/ Feedback \/ FeedbackDone \/ ClearAct \/ Canceled \/ Callback_Speed
           \/ StopService \/ StartService \/ ServiceStarted \/ AllDone
           \/ UNCHANGED vars
  BY <1>5 DEF ArmHasHolder, Feedback, FeedbackDone, ClearAct, Canceled, Callback_Speed,
     StopService, StartService, ServiceStarted, AllDone, vars
<1>6. CASE SpeedTakeArm \/ SpeedExec \/ SpeedGiveArm
  BY <1>6 DEF ArmHasHolder, SpeedTakeArm, SpeedExec, SpeedGiveArm
<1> QED BY <1>1, <1>2, <1>3, <1>4, <1>5, <1>6 DEF Next, GoalThread, Executor

\* Until something disturbs, the goal in flight stays alone.
LEMMA AloneStep ==
    ASSUME disturbed = 0, TypeOK, Alone, [Next]_vars PROVE disturbed' = 0 => Alone'
<1>1. ASSUME NEW g \in Goals,
             HandleAccepted(g) \/ StoreHandle(g) \/ Refuse(g)
      PROVE  Alone'
  <2>1. UNCHANGED <<exec, serving, m_curAct, kind, arm>>
    BY <1>1 DEF HandleAccepted, StoreHandle, Refuse
  <2>2. \A h \in Goals : pc'[h] = pc[h] \/ /\ pc[h] \notin MotionPCs \cup {"end"}
                                           /\ pc'[h] \notin MotionPCs \cup {"end"}
    BY <1>1, StepMoves DEF HandleAccepted, StoreHandle, Refuse, MotionPCs
  <2>3. InFlight' = InFlight
    BY <2>2 DEF InFlight
  <2> QED BY <2>1, <2>2, <2>3 DEF Alone, MotionPCs
<1>2. ASSUME NEW g \in Goals, Claim(g) PROVE Alone'
  <2>1. InFlight = {}
    BY <1>2, GoalAssumption DEF Alone, Claim, InFlight, TypeOK
  <2>2. InFlight' = {g}
    BY <1>2, <2>1, StepMoves DEF Claim, InFlight, MotionPCs
  <2>3. \A h \in Goals : pc'[h] \notin {"move", "moving", "give"}
    BY <1>2, <2>1, StepMoves DEF Claim, InFlight, MotionPCs
  <2> QED BY <1>2, <2>2, <2>3, GoalAssumption DEF Alone, Claim, TypeOK
<1>3. ASSUME NEW g \in Goals,
             TakeArm(g) \/ StartMotion(g) \/ EndMotion(g)
      PROVE  Alone'
  <2>1. UNCHANGED <<exec, serving, m_curAct, kind>>
    BY <1>3 DEF TakeArm, StartMotion, EndMotion
  <2>2. InFlight' = InFlight
    BY <1>3 DEF TakeArm, StartMotion, EndMotion, Step, InFlight, MotionPCs, TypeOK
  <2>3. \A h \in Goals : pc'[h] \in {"move", "moving", "give"} => arm'
    <3>1. CASE TakeArm(g)
      BY <3>1, StepMoves DEF Alone, TakeArm
    <3>2. CASE StartMotion(g)
      BY <3>2, StepMoves DEF Alone, StartMotion
    <3>3. CASE EndMotion(g)
      BY <3>3, StepMoves DEF Alone, EndMotion
    <3> QED BY <1>3, <3>1, <3>2, <3>3
  <2> QED BY <2>1, <2>2, <2>3 DEF Alone
<1>4. ASSUME NEW g \in Goals, GiveArm(g) PROVE Alone'
  <2>1. \A h \in Goals \ {g} : pc[h] \notin {"move", "moving", "give"}
    BY <1>4 DEF Alone, GiveArm, Step, InFlight, MotionPCs
  <2>2. InFlight' = InFlight
    BY <1>4 DEF GiveArm, Step, InFlight, MotionPCs, TypeOK
  <2>3. \A h \in Goals : pc'[h] \notin {"move", "moving", "give"}
    BY <1>4, <2>1, StepMoves DEF GiveArm
  <2> QED BY <1>4, <2>2, <2>3 DEF Alone, GiveArm
<1>5. ASSUME NEW g \in Goals, Finish(g) PROVE Alone'
  <2>1. InFlight = {g}
    BY <1>5 DEF Alone, Finish, Step, InFlight
  <2>2. InFlight' = {}
    BY <1>5, <2>1, StepMoves DEF Finish, InFlight, MotionPCs
  <2>3. \A h \in Goals : pc'[h] \notin {"move", "moving", "give"}
    BY <2>2 DEF InFlight, MotionPCs
  <2> QED BY <1>5, <2>2, <2>3 DEF Alone, Finish
<1>6. ASSUME NEW g \in Goals, HandleCancel(g) PROVE disturbed' # 0
  BY <1>6 DEF HandleCancel, Disturbance
<1>7. ASSUME Callback_Speed \/ StopService PROVE disturbed' # 0
  BY <1>7 DEF Callback_Speed, StopService, Disturbance
<1>8. CASE \/ ClearAct \/ Canceled \/ SpeedTakeArm \/ SpeedExec \/ SpeedGiveArm
           \/ StartService \/ ServiceStarted
  BY <1>8 DEF Alone, ClearAct, Canceled, SpeedTakeArm, SpeedExec, SpeedGiveArm,
     StartService, ServiceStarted
<1>9. CASE Feedback \/ FeedbackDone \/ AllDone \/ UNCHANGED vars
  <2>1. UNCHANGED <<serving, m_curAct, kind, pc, arm>> /\ exec' \in {"idle", "feedback"}
    BY <1>9 DEF Alone, Feedback, FeedbackDone, AllDone, vars
  <2>2. InFlight' = InFlight
    BY <2>1 DEF InFlight
  <2> QED BY <2>1, <2>2 DEF Alone
<1> QED BY <1>1, <1>2, <1>3, <1>4, <1>5, <1>6, <1>7, <1>8, <1>9
       DEF Next, GoalThread, Executor

-----------------------------------------------------------------------------
\* IInv holds in every state the goal threads, the executor and a mode change
\* reach together.
THEOREM Invariance == Spec => []IInv
<1>1. IInv /\ [Next]_vars => IInv'
  <2>1. ASSUME TypeOK, [Next]_vars, disturbed' = 0 PROVE disturbed = 0
    <3>1. disturbed \in Nat
      BY <2>1, GoalAssumption DEF TypeOK
    <3>2. disturbed' \in {disturbed, disturbed + 1}
      BY <2>1 DEF Next, HandleAccepted, GoalThread, StoreHandle, Refuse, Claim, TakeArm,
         StartMotion, EndMotion, GiveArm, Finish, Feedback, Executor, FeedbackDone,
         ClearAct, Canceled, SpeedTakeArm, SpeedExec, SpeedGiveArm, HandleCancel,
         Callback_Speed, Disturbance, StopService, StartService, ServiceStarted, AllDone,
         vars
    <3> QED BY <2>1, <3>1, <3>2
  <2> QED BY <2>1, TypeStep, BusyStep, ArmStep, AloneStep DEF IInv
<1> QED BY InitIInv, <1>1, PTL DEF Spec

\* Every variable of the action goals keeps its type (DensoRobot's action state).
THEOREM TypeCorrect == Spec => []TypeOK
BY Invariance, PTL DEF IInv

\* m_curAct never names an action that no goal callback is going to reset.
THEOREM NeverStuckBusy == Spec => []BusyOnlyInFlight
BY Invariance, PTL DEF IInv

\* Every TakeArm of ExecMove, ExecDrive, ExecSpeed and ExecChange is followed by
\* its GiveArm: an idle robot has its arm free.
THEOREM ArmGivenBack == Spec => []ArmFreeWhenIdle
<1>1. IInv => ArmFreeWhenIdle
  BY DEF IInv, ArmHasHolder, ArmFreeWhenIdle, InFlight, MotionPCs
<1> QED BY Invariance, <1>1, PTL

\* As long as there was no cancel, restart and topic message, m_curAct lets one goal
\* at a time move the robot, with the arm taken.
THEOREM MotionsExclude == Spec => []OneMotion
<1>1. IInv => OneMotion
  BY DEF IInv, Alone, OneMotion
<1> QED BY Invariance, <1>1, PTL
=============================================================================
