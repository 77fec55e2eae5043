---------------------------- MODULE ActionGoals ----------------------------
(***************************************************************************)
(* The move and drive actions of DensoRobot in normal mode.                *)
(*                                                                         *)
(* A goal is always accepted and runs in a detached thread of its own      *)
(* (Callback_MoveString and its five siblings, which have the same shape): *)
(* it claims m_curAct under m_mtxAct, makes the motion by three b-CAP calls*)
(* on the connection SRV_ACT, and answers if m_curAct is still its kind.   *)
(* The executor thread handles cancel requests, feedback and the Speed,    *)
(* ChangeTool and ChangeWork topics; a cancel writes m_curAct without the  *)
(* lock.  A mode change by another thread stops and starts the service.    *)
(*                                                                         *)
(* send_receive holds the mutex of a connection for the whole call, so     *)
(* nothing else is sent on SRV_ACT while a motion is under way; Halt goes  *)
(* by SRV_WATCH.  External: a goal handle answers once; a second answer is *)
(* recorded in clashes (the action library refuses it).                    *)
(***************************************************************************)
EXTENDS Naturals

CONSTANTS
    Goals,        \* the goals clients send, each once
    Kinds,        \* the kinds of action, ACT_MOVESTRING .. ACT_DRIVEAEXVALUE
    NoGoal,       \* no goal handle
    Faults,       \* calls that may fail: subset of AllFaults
    Disturb,      \* what may come between: subset of AllDisturb
    MaxDisturb    \* bound: cancels, restarts and topic messages together

AllFaults == {"take", "move", "halt"}
AllDisturb == {"cancel", "restart", "speed"}

ASSUME GoalAssumption ==
    /\ NoGoal \notin Goals
    /\ {"reset", "none"} \cap Kinds = {}
    /\ Faults \subseteq AllFaults
    /\ Disturb \subseteq AllDisturb
    /\ MaxDisturb \in Nat

VARIABLES
    serving,    \* the action servers: "no", "starting" (made) or "yes"
    m_curAct,   \* ACT_RESET, ACT_NONE or the kind of the current action
    handle,     \* m_act...GoalHandle, one for each kind
    pc,         \* per goal thread: the next step
    kind,       \* per goal: the kind of action it asks for
    hr,         \* per goal: its motion succeeded
    result,     \* per goal: what its client was told
    clashes,    \* goals answered a second time
    exec,       \* the executor: "idle" or the step it is in
    target,     \* goal whose cancel request the executor handles
    arm,        \* external: the arm is taken
    halted,     \* external: goals whose motion was halted
    disturbed   \* disturbances so far

vars == <<serving, m_curAct, handle, pc, kind, hr, result, clashes, exec,
          target, arm, halted, disturbed>>

Init ==
    /\ serving = "yes"
    /\ m_curAct = "none"
    /\ handle = [k \in Kinds |-> NoGoal]
    /\ pc = [g \in Goals |-> "new"]
    /\ kind \in [Goals -> Kinds]
    /\ hr = [g \in Goals |-> FALSE]
    /\ result = [g \in Goals |-> "none"]
    /\ clashes = {}
    /\ exec = "idle" /\ target = NoGoal
    /\ arm = FALSE
    /\ halted = {}
    /\ disturbed = 0

Step(g, from, to) == pc[g] = from /\ pc' = [pc EXCEPT ![g] = to]

(* Goals that claimed m_curAct and have not ended. *)
MotionPCs == {"take", "move", "moving", "give"}
InFlight == {g \in Goals : pc[g] \in MotionPCs \cup {"end"}}
ActConnectionFree == \A g \in Goals : pc[g] # "moving"
MtxActFree == exec # "feedback"

(* A goal handle tells its client a result, the first time only. *)
Answer(g, r) ==
    IF result[g] = "none"
    THEN result' = [result EXCEPT ![g] = r] /\ UNCHANGED clashes
    ELSE clashes' = clashes \cup {g} /\ UNCHANGED result

-----------------------------------------------------------------------------
(* A goal thread.  HandleGoal and HandleAccepted start it at once, and it  *)
(* stores its handle before it looks at m_curAct.                          *)
HandleAccepted(g) ==
    /\ serving # "no" /\ exec = "idle"
    /\ Step(g, "new", "accepted")
    /\ UNCHANGED <<serving, m_curAct, handle, kind, hr, result, clashes, exec,
                   target, arm, halted, disturbed>>

StoreHandle(g) ==
    /\ Step(g, "accepted", "check")
    /\ handle' = [handle EXCEPT ![kind[g]] = g]
    /\ UNCHANGED <<serving, m_curAct, kind, hr, result, clashes, exec, target,
                   arm, halted, disturbed>>

(* Set current action: a busy robot aborts the goal, a reset one leaves it *)
(* without an answer.                                                      *)
Refuse(g) ==
    /\ Step(g, "check", "done")
    /\ MtxActFree
    /\ m_curAct # "none"
    /\ IF m_curAct # "reset" THEN Answer(g, "aborted")
                             ELSE UNCHANGED <<result, clashes>>
    /\ UNCHANGED <<serving, m_curAct, handle, kind, hr, exec, target, arm,
                   halted, disturbed>>

ClaimUnchecked(g) ==   \* a plausible bug: m_curAct not tested
    /\ Step(g, "check", "take")
    /\ MtxActFree
    /\ m_curAct' = kind[g]
    /\ UNCHANGED <<serving, handle, kind, hr, result, clashes, exec, target,
                   arm, halted, disturbed>>

Claim(g) ==
    /\ Step(g, "check", "take")
    /\ MtxActFree
    /\ m_curAct = "none"
    /\ m_curAct' = kind[g]
    /\ UNCHANGED <<serving, handle, kind, hr, result, clashes, exec, target,
                   arm, halted, disturbed>>

(* ExecMove and ExecDrive: TakeArm, the motion, GiveArm. *)
TakeArm(g) ==
    /\ ActConnectionFree
    /\ \/ Step(g, "take", "move") /\ arm' = TRUE
       \/ "take" \in Faults /\ Step(g, "take", "end") /\ UNCHANGED arm
    /\ UNCHANGED <<serving, m_curAct, handle, kind, hr, result, clashes, exec,
                   target, halted, disturbed>>

StartMotion(g) ==
    /\ ActConnectionFree
    /\ Step(g, "move", "moving")
    /\ UNCHANGED <<serving, m_curAct, handle, kind, hr, result, clashes, exec,
                   target, arm, halted, disturbed>>

EndMotionKeepsArm(g) ==   \* a plausible bug: a failed motion keeps the arm
    /\ \E ok \in BOOLEAN :
          /\ ok => g \notin halted
          /\ ~ok => g \in halted \/ "move" \in Faults
          /\ hr' = [hr EXCEPT ![g] = ok]
          /\ Step(g, "moving", IF ok THEN "give" ELSE "end")
    /\ UNCHANGED <<serving, m_curAct, handle, kind, result, clashes, exec,
                   target, arm, halted, disturbed>>

EndMotion(g) ==
    /\ Step(g, "moving", "give")
    /\ \E ok \in BOOLEAN :
          /\ ok => g \notin halted
          /\ ~ok => g \in halted \/ "move" \in Faults
          /\ hr' = [hr EXCEPT ![g] = ok]
    /\ UNCHANGED <<serving, m_curAct, handle, kind, result, clashes, exec,
                   target, arm, halted, disturbed>>

GiveArm(g) ==
    /\ ActConnectionFree
    /\ Step(g, "give", "end")
    /\ arm' = FALSE
    /\ UNCHANGED <<serving, m_curAct, handle, kind, hr, result, clashes, exec,
                   target, halted, disturbed>>

(* Reset current action: the goal answers only if m_curAct is its kind. *)
FinishOnSuccess(g) ==   \* a plausible bug: m_curAct kept after a failure
    /\ Step(g, "end", "done")
    /\ MtxActFree
    /\ IF m_curAct = kind[g]
       THEN /\ Answer(g, IF hr[g] THEN "succeeded" ELSE "aborted")
            /\ m_curAct' = IF hr[g] THEN "none" ELSE m_curAct
       ELSE UNCHANGED <<result, clashes, m_curAct>>
    /\ UNCHANGED <<serving, handle, kind, hr, exec, target, arm, halted, disturbed>>

FinishSilently(g) ==   \* a plausible bug: a failed motion is not answered
    /\ Step(g, "end", "done")
    /\ MtxActFree
    /\ IF m_curAct = kind[g]
       THEN /\ IF hr[g] THEN Answer(g, "succeeded") ELSE UNCHANGED <<result, clashes>>
            /\ m_curAct' = "none"
       ELSE UNCHANGED <<result, clashes, m_curAct>>
    /\ UNCHANGED <<serving, handle, kind, hr, exec, target, arm, halted, disturbed>>

Finish(g) ==
    /\ Step(g, "end", "done")
    /\ MtxActFree
    /\ IF m_curAct = kind[g]
       THEN /\ Answer(g, IF hr[g] THEN "succeeded" ELSE "aborted")
            /\ m_curAct' = "none"
       ELSE UNCHANGED <<result, clashes, m_curAct>>
    /\ UNCHANGED <<serving, handle, kind, hr, exec, target, arm, halted, disturbed>>

GoalThread(g) ==
    \/ StoreHandle(g) \/ Refuse(g) \/ Claim(g) \/ TakeArm(g) \/ StartMotion(g)
    \/ EndMotion(g) \/ GiveArm(g) \/ Finish(g)

-----------------------------------------------------------------------------
(* Action_Feedback, from Update: m_mtxAct is held while the joints are read *)
(* and published for the current action.                                   *)
Feedback ==
    /\ exec = "idle" /\ serving = "yes"
    /\ m_curAct \in Kinds
    /\ exec' = "feedback"
    /\ UNCHANGED <<serving, m_curAct, handle, pc, kind, hr, result, clashes,
                   target, arm, halted, disturbed>>

FeedbackStuck ==   \* a plausible bug: feedback waits for the motion to end
    /\ exec = "feedback"
    /\ \A g \in Goals : pc[g] \notin MotionPCs \cup {"end"}
    /\ exec' = "idle"
    /\ UNCHANGED <<serving, m_curAct, handle, pc, kind, hr, result, clashes,
                   target, arm, halted, disturbed>>

FeedbackDone ==
    /\ exec = "feedback"
    /\ exec' = "idle"
    /\ UNCHANGED <<serving, m_curAct, handle, pc, kind, hr, result, clashes,
                   target, arm, halted, disturbed>>

Disturbance(d) ==
    /\ d \in Disturb
    /\ disturbed < MaxDisturb
    /\ disturbed' = disturbed + 1

(* HandleCancel of any kind: ExecHalt stops the motion under way, whoever  *)
(* asked for it; then m_curAct is freed without m_mtxAct; then the goal is *)
(* answered.                                                               *)
HandleCancel(g) ==
    /\ Disturbance("cancel")
    /\ exec = "idle" /\ serving # "no"
    /\ pc[g] # "new" /\ result[g] = "none"
    /\ \/ halted' = halted \cup {h \in Goals : pc[h] = "moving"}
       \/ "halt" \in Faults /\ UNCHANGED halted
    /\ exec' = "clear" /\ target' = g
    /\ UNCHANGED <<serving, m_curAct, handle, pc, kind, hr, result, clashes, arm>>

ClearAct ==
    /\ exec = "clear"
    /\ m_curAct' = "none"
    /\ exec' = "cancel"
    /\ UNCHANGED <<serving, handle, pc, kind, hr, result, clashes, target, arm,
                   halted, disturbed>>

Canceled ==
    /\ exec = "cancel"
    /\ Answer(target, "canceled")
    /\ exec' = "idle" /\ target' = NoGoal
    /\ UNCHANGED <<serving, m_curAct, handle, pc, kind, hr, arm, halted, disturbed>>

(* Callback_Speed, _ChangeTool and _ChangeWork call TakeArm, ExtSpeed or   *)
(* Change, GiveArm in the executor, which waits while a motion occupies    *)
(* the connection.                                                         *)
Callback_Speed ==
    /\ Disturbance("speed")
    /\ exec = "idle" /\ serving # "no"
    /\ exec' = "speedTake"
    /\ UNCHANGED <<serving, m_curAct, handle, pc, kind, hr, result, clashes,
                   target, arm, halted>>

SpeedTakeArm ==
    /\ exec = "speedTake" /\ ActConnectionFree
    /\ \/ arm' = TRUE /\ exec' = "speedExec"
       \/ "take" \in Faults /\ exec' = "idle" /\ UNCHANGED arm
    /\ UNCHANGED <<serving, m_curAct, handle, pc, kind, hr, result, clashes,
                   target, halted, disturbed>>

SpeedExec ==
    /\ exec = "speedExec" /\ ActConnectionFree
    /\ exec' = "speedGive"
    /\ UNCHANGED <<serving, m_curAct, handle, pc, kind, hr, result, clashes,
                   target, arm, halted, disturbed>>

SpeedGiveArm ==
    /\ exec = "speedGive" /\ ActConnectionFree
    /\ arm' = FALSE
    /\ exec' = "idle"
    /\ UNCHANGED <<serving, m_curAct, handle, pc, kind, hr, result, clashes,
                   target, halted, disturbed>>

Executor ==
    \/ FeedbackDone \/ ClearAct \/ Canceled
    \/ SpeedTakeArm \/ SpeedExec \/ SpeedGiveArm

(* Another thread changes the mode: StopService waits for an Update in     *)
(* progress (m_mtxSrv).                                                    *)
StopService ==
    /\ Disturbance("restart")
    /\ serving = "yes"
    /\ exec # "feedback"
    /\ serving' = "no"
    /\ m_curAct' = "reset"
    /\ UNCHANGED <<handle, pc, kind, hr, result, clashes, exec, target, arm, halted>>

(* StartService makes the action servers, which accept goals at once, and  *)
(* at its end writes m_curAct without m_mtxAct.                            *)
StartService ==
    /\ serving = "no"
    /\ serving' = "starting"
    /\ UNCHANGED <<m_curAct, handle, pc, kind, hr, result, clashes, exec, target,
                   arm, halted, disturbed>>

ServiceStarted ==
    /\ serving = "starting"
    /\ serving' = "yes"
    /\ m_curAct' = "none"
    /\ UNCHANGED <<handle, pc, kind, hr, result, clashes, exec, target, arm,
                   halted, disturbed>>

AllDone ==
    /\ \A g \in Goals : pc[g] = "done"
    /\ exec = "idle"
    /\ UNCHANGED vars

Next ==
    \/ \E g \in Goals : HandleAccepted(g) \/ GoalThread(g) \/ HandleCancel(g)
    \/ Feedback \/ Callback_Speed \/ Executor
    \/ StopService \/ StartService \/ ServiceStarted \/ AllDone

Spec == Init /\ [][Next]_vars

(* Threads and the executor go on while they can and calls return.  A      *)
(* thread that waits for m_mtxAct or SRV_ACT gets it in the end although   *)
(* feedback and other goals take it in between: Update sleeps between two  *)
(* rounds, and each goal makes three calls.                                *)
FairSpec ==
    /\ Spec
    /\ \A g \in Goals : SF_vars(GoalThread(g))
    /\ SF_vars(Executor)

-----------------------------------------------------------------------------
(* Every variable has its type; the executor handles a cancel request      *)
(* exactly in the two steps of HandleCancel (Callback_...HandleCancel).    *)
TypeOK ==
    /\ serving \in {"no", "starting", "yes"} /\ arm \in BOOLEAN
    /\ m_curAct \in {"reset", "none"} \cup Kinds
    /\ handle \in [Kinds -> Goals \cup {NoGoal}]
    /\ pc \in [Goals -> MotionPCs \cup {"new", "accepted", "check", "end", "done"}]
    /\ kind \in [Goals -> Kinds]
    /\ hr \in [Goals -> BOOLEAN]
    /\ result \in [Goals -> {"none", "succeeded", "aborted", "canceled"}]
    /\ clashes \subseteq Goals /\ halted \subseteq Goals
    /\ exec \in {"idle", "feedback", "clear", "cancel", "speedTake",
                 "speedExec", "speedGive"}
    /\ target \in IF exec \in {"clear", "cancel"} THEN Goals ELSE {NoGoal}
    /\ disturbed \in 0..MaxDisturb

(* The robot never stays busy: when m_curAct says that an action is under  *)
(* way, a goal of that kind is still on its way to free it, whatever       *)
(* cancels, restarts and failures came between (Set / Reset current action *)
(* of the goal callbacks, HandleCancel, StopService, StartService).        *)
BusyOnlyInFlight ==
    m_curAct \in Kinds => \E g \in InFlight : kind[g] = m_curAct

(* The arm is not left taken: once no goal is in flight and the executor   *)
(* has handled its messages, every TakeArm has had its GiveArm (ExecMove,  *)
(* ExecDrive, ExecSpeed, ExecChange).                                      *)
ArmFreeWhenIdle == InFlight = {} /\ exec = "idle" => ~arm

(* As long as there was no cancel, restart or topic message, goals exclude *)
(* each other: m_curAct lets one of them at a time command a motion, and   *)
(* it holds the arm from TakeArm to GiveArm (goal callbacks, ExecMove,     *)
(* ExecDrive).                                                             *)
OneMotion ==
    disturbed = 0 =>
      /\ \A g, h \in InFlight : g = h
      /\ \A g \in Goals : pc[g] \in {"move", "moving", "give"} => arm

(* Unless one of these comes, every goal that is accepted is answered once *)
(* (goal callbacks: abort when busy, succeed or abort at the end).         *)
EveryGoalAnswered ==
    \A g \in Goals :
      pc[g] = "accepted" ~> (result[g] # "none" /\ g \notin clashes) \/ disturbed > 0

(* Whatever comes between, no goal thread and no callback of the executor  *)
(* waits for ever (m_mtxAct, the connection SRV_ACT).                      *)
ThreadsEnd ==
    /\ \A g \in Goals : pc[g] = "accepted" ~> pc[g] = "done"
    /\ exec # "idle" ~> exec = "idle"
=============================================================================
