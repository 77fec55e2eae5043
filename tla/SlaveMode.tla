----------------------------- MODULE SlaveMode -----------------------------
(***************************************************************************)
(* Changing the robot between normal mode and b-CAP slave mode, as         *)
(* DensoRobotControl, DensoRobotCore and DensoRobot do it together.        *)
(*                                                                         *)
(* Three threads change the mode by the same procedure                     *)
(* (ChangeModeWithClearError -> DensoRobotCore::ChangeMode ->              *)
(* DensoRobot::ChangeMode), which waits for a b-CAP answer at each step:   *)
(*                                                                         *)
(*   "loop"  the control loop: read and write, under mtx_mode_; write goes *)
(*           back to normal mode when the controller has an error;         *)
(*   "spin"  the thread of SpinNode: the ChangeMode service, under         *)
(*           mtx_mode_, and Update, under the controller's m_mtxSrv;       *)
(*   "stop"  on_deactivate: Stop, which takes no lock.                     *)
(*                                                                         *)
(* The robot controller at the other end is external: its mode, the owner  *)
(* of the arm and its error are the variables ctlMode, arm and err.        *)
(***************************************************************************)
EXTENDS Naturals

CONSTANTS
    Actors,       \* the threads that run: subset of AllActors
    Faults,       \* how a b-CAP call may fail: subset of AllFaults
    Reenter,      \* clients may ask for a slave mode while in a slave mode
    MaxRequests   \* bound: calls of the ChangeMode service

AllActors == {"loop", "spin", "stop"}
AllFaults == {"refused",  \* not performed, and the caller sees a failure
              "lost",     \* performed, but every answer is lost
              "full"}     \* slvMove answers E_BUF_FULL
SlaveModes == {"sync", "async"}   \* SLVMODE_SYNC_WAIT | ..., SLVMODE_ASYNC | ...
Modes == {"normal"} \cup SlaveModes

ASSUME ModeAssumption ==
    /\ Actors \subseteq AllActors
    /\ Faults \subseteq AllFaults
    /\ Reenter \in BOOLEAN
    /\ MaxRequests \in Nat

VARIABLES
    m_mode,     \* DensoRobotCore::m_mode, read by every object through m_mode
    serving,    \* m_serving: topics, services and actions of normal mode exist
    link,       \* timeout and retry of SRV_ACT: "param" or those of a mode
    memLink,    \* m_memTimeout, m_memRetry
    ioPubs,     \* the I/O publishers of slave mode exist
    mtx_mode,   \* holder of DensoRobotControl::mtx_mode_, or "none"
    pc, want, hr,  \* per thread: next step, mode asked for, result
    requests,   \* ChangeMode requests so far (for the bound)
    ctlMode, arm, err  \* external: the controller's mode, arm owned, in error

driver == <<m_mode, serving, link, memLink, ioPubs>>
controller == <<ctlMode, arm, err>>
vars == <<m_mode, serving, link, memLink, ioPubs, mtx_mode, pc, want, hr,
          requests, ctlMode, arm, err>>

(* The steps of a mode change, in the order of the code. *)
ChangePCs == {"services", "choose", "formats", "takearm", "enter", "exit",
              "givearm", "finish", "start", "clear", "describeClear", "curmode"}
PCs == ChangePCs \cup {"idle", "lock", "update", "write", "publish", "haserror",
                       "errors", "report", "quit", "stopped",
                       "describeWrite"}

(* DensoRobotHW::on_activate has returned: Initialize ended in slave mode. *)
Init ==
    /\ m_mode = "sync" /\ serving = FALSE
    /\ link = "sync" /\ memLink = "param"
    /\ ioPubs = TRUE
    /\ mtx_mode = "none"
    /\ pc = [t \in Actors |-> "idle"]
    /\ want = [t \in Actors |-> "normal"]
    /\ hr = [t \in Actors |-> TRUE]
    /\ requests = 0
    /\ ctlMode = "sync" /\ arm = TRUE /\ err = FALSE

Goto(t, step) == pc' = [pc EXCEPT ![t] = step]

(* The controller's Update is running: it holds m_mtxSrv. *)
Updating == "spin" \in Actors /\ pc["spin"] = "update"

-----------------------------------------------------------------------------
(* What a b-CAP call may come to.  A call that is performed changes the    *)
(* controller whether its answer arrives or not.                           *)
Performed(answer) == answer \in {"ok", "lost"}
Answers == {"ok"} \cup (Faults \cap {"refused", "lost"})

(* The controller enters no slave mode while it has an error; in error it  *)
(* may also refuse to leave.                                               *)
SlvChangeMode(mode, answer) ==
    /\ \/ answer \in Answers /\ (mode = "normal" \/ ~err \/ answer = "refused")
       \/ answer = "refused" /\ err
    /\ ctlMode' = IF Performed(answer) THEN mode ELSE ctlMode

-----------------------------------------------------------------------------
(* DensoRobotCore::ChangeMode, first half: the services of normal mode are *)
(* taken down.  m_serving of the controller is cleared under m_mtxSrv.     *)
StopServiceUnlocked(t) ==   \* a plausible bug: m_mtxSrv not taken
    /\ pc[t] = "services"
    /\ serving' = FALSE
    /\ Goto(t, "choose")
    /\ UNCHANGED <<m_mode, link, memLink, ioPubs, mtx_mode, want, hr, requests,
                   controller>>

StopService(t) ==
    /\ pc[t] = "services"
    /\ ~Updating
    /\ serving' = FALSE
    /\ Goto(t, "choose")
    /\ UNCHANGED <<m_mode, link, memLink, ioPubs, mtx_mode, want, hr, requests,
                   controller>>

(* DensoRobot::ChangeMode branches on the mode it is in.  On the way out   *)
(* of a slave mode it first restores timeout and retry.                    *)
ChooseKeepLink(t) ==   \* a plausible bug: timeout and retry not restored
    /\ pc[t] = "choose"
    /\ hr' = [hr EXCEPT ![t] = TRUE]
    /\ Goto(t, IF m_mode # "normal" THEN "exit"
               ELSE IF want[t] # "normal" THEN "formats" ELSE "finish")
    /\ UNCHANGED <<driver, mtx_mode, want, requests, controller>>

ChooseLinkOfWant(t) ==   \* a plausible bug: timeout of the mode asked for
    /\ pc[t] = "choose"
    /\ hr' = [hr EXCEPT ![t] = TRUE]
    /\ link' = IF m_mode # "normal" THEN want[t] ELSE link
    /\ Goto(t, IF m_mode # "normal" THEN "exit"
               ELSE IF want[t] # "normal" THEN "formats" ELSE "finish")
    /\ UNCHANGED <<m_mode, serving, memLink, ioPubs, mtx_mode, want, requests,
                   controller>>

Choose(t) ==
    /\ pc[t] = "choose"
    /\ hr' = [hr EXCEPT ![t] = TRUE]
    /\ \/ /\ m_mode # "normal"
          /\ link' = memLink
          /\ Goto(t, "exit")
       \/ /\ m_mode = "normal"
          /\ Goto(t, IF want[t] = "normal" THEN "finish" ELSE "formats")
          /\ UNCHANGED link
    /\ UNCHANGED <<m_mode, serving, memLink, ioPubs, mtx_mode, want, requests,
                   controller>>

(* slvSendFormat and slvRecvFormat: each failure returns at once. *)
SetFormatsNoArm(t) ==   \* a plausible bug: slvChangeMode without TakeArm
    /\ pc[t] = "formats"
    /\ \E answer \in Answers :
          /\ hr' = [hr EXCEPT ![t] = answer = "ok"]
          /\ Goto(t, IF answer = "ok" THEN "enter" ELSE "finish")
    /\ UNCHANGED <<driver, mtx_mode, want, requests, controller>>

SetFormats(t) ==
    /\ pc[t] = "formats"
    /\ \E answer \in Answers :
          /\ hr' = [hr EXCEPT ![t] = answer = "ok"]
          /\ Goto(t, IF answer = "ok" THEN "takearm" ELSE "finish")
    /\ UNCHANGED <<driver, mtx_mode, want, requests, controller>>

ExecTakeArm(t) ==
    /\ pc[t] = "takearm"
    /\ \E answer \in Answers :
          /\ arm' = (arm \/ Performed(answer))
          /\ hr' = [hr EXCEPT ![t] = answer = "ok"]
          /\ Goto(t, IF answer = "ok" THEN "enter" ELSE "finish")
    /\ UNCHANGED <<driver, mtx_mode, want, requests, ctlMode, err>>

(* slvChangeMode into a slave mode.  Timeout and retry of normal mode are  *)
(* kept and replaced only when the call succeeded; the arm stays taken     *)
(* when it failed.                                                         *)
EnterSlaveMode(t) ==
    /\ pc[t] = "enter"
    /\ \E answer \in {"ok", "refused", "lost"} :
          /\ SlvChangeMode(want[t], answer)
          /\ hr' = [hr EXCEPT ![t] = answer = "ok"]
          /\ IF answer = "ok" THEN memLink' = link /\ link' = want[t]
                              ELSE UNCHANGED <<memLink, link>>
    /\ Goto(t, "finish")
    /\ UNCHANGED <<m_mode, serving, ioPubs, mtx_mode, want, requests, arm, err>>

(* slvChangeMode out of a slave mode, then GiveArm whatever it answered. *)
ExitSlaveMode(t) ==
    /\ pc[t] = "exit"
    /\ \E answer \in {"ok", "refused", "lost"} :
          /\ SlvChangeMode(want[t], answer)
          /\ hr' = [hr EXCEPT ![t] = answer = "ok"]
    /\ Goto(t, "givearm")
    /\ UNCHANGED <<driver, mtx_mode, want, requests, arm, err>>

ExecGiveArm(t) ==
    /\ pc[t] = "givearm"
    /\ \E answer \in Answers : arm' = (arm /\ ~Performed(answer))
    /\ Goto(t, "finish")
    /\ UNCHANGED <<driver, mtx_mode, want, hr, requests, ctlMode, err>>

(* DensoRobotCore::ChangeMode, second half: any failure counts as normal   *)
(* mode.  The services start again only when normal mode was asked for.    *)
AfterMode(ok) == IF ok THEN "curmode" ELSE "clear"

FinishModeKept(t) ==   \* a plausible bug: m_mode kept after a failure
    /\ pc[t] = "finish"
    /\ m_mode' = IF hr[t] THEN want[t] ELSE m_mode
    /\ Goto(t, IF hr[t] /\ want[t] = "normal" THEN "start" ELSE AfterMode(hr[t]))
    /\ UNCHANGED <<serving, link, memLink, ioPubs, mtx_mode, want, hr, requests,
                   controller>>

FinishAlwaysServing(t) ==   \* a plausible bug: services started in any mode
    /\ pc[t] = "finish"
    /\ m_mode' = IF hr[t] THEN want[t] ELSE "normal"
    /\ Goto(t, "start")
    /\ UNCHANGED <<serving, link, memLink, ioPubs, mtx_mode, want, hr, requests,
                   controller>>

Finish(t) ==
    /\ pc[t] = "finish"
    /\ m_mode' = IF hr[t] THEN want[t] ELSE "normal"
    /\ Goto(t, IF want[t] = "normal" THEN "start" ELSE AfterMode(hr[t]))
    /\ UNCHANGED <<serving, link, memLink, ioPubs, mtx_mode, want, hr, requests,
                   controller>>

StartService(t) ==
    /\ pc[t] = "start"
    /\ serving' = TRUE
    /\ Goto(t, AfterMode(hr[t]))
    /\ UNCHANGED <<m_mode, link, memLink, ioPubs, mtx_mode, want, hr, requests,
                   controller>>

(* ChangeModeWithClearError after a failure: ClearError, and the text of   *)
(* its own error when that fails in normal mode.                           *)
ExecClearError(t) ==
    /\ pc[t] = "clear"
    /\ \E answer \in Answers :
          /\ err' = (err /\ ~Performed(answer))
          /\ Goto(t, IF answer # "ok" /\ m_mode = "normal" THEN "describeClear"
                     ELSE "curmode")
    /\ UNCHANGED <<driver, mtx_mode, want, hr, requests, ctlMode, arm>>

DescribeClear(t) ==
    /\ pc[t] = "describeClear"
    /\ Goto(t, "curmode")
    /\ UNCHANGED <<driver, mtx_mode, want, hr, requests, controller>>

(* The mode is published, and the I/O topics follow it: subscribers and    *)
(* publishers are reset in normal mode and created in a slave mode.        *)
(* "report" is printErrorDescription, which calls the controller only in   *)
(* normal mode; after it the caller goes on.                               *)
AfterCurMode(t) ==
    IF t = "loop" THEN "errors"
    ELSE IF ~hr[t] /\ m_mode = "normal" THEN "report"
    ELSE IF t = "stop" THEN "quit" ELSE "idle"

Unlock(t) == mtx_mode' = IF mtx_mode = t THEN "none" ELSE mtx_mode

CurMode(t) ==
    /\ pc[t] = "curmode"
    /\ ioPubs' = (m_mode # "normal")
    /\ Goto(t, AfterCurMode(t))
    /\ IF AfterCurMode(t) = "idle" THEN Unlock(t) ELSE UNCHANGED mtx_mode
    /\ UNCHANGED <<m_mode, serving, link, memLink, want, hr, requests, controller>>

Report(t) ==
    /\ pc[t] = "report"
    /\ Goto(t, IF t = "stop" THEN "quit" ELSE "idle")
    /\ Unlock(t)
    /\ UNCHANGED <<driver, want, hr, requests, controller>>

Change(t) ==
    \/ StopService(t) \/ Choose(t) \/ SetFormats(t) \/ ExecTakeArm(t)
    \/ EnterSlaveMode(t) \/ ExitSlaveMode(t) \/ ExecGiveArm(t) \/ Finish(t)
    \/ StartService(t) \/ ExecClearError(t) \/ DescribeClear(t) \/ CurMode(t)
    \/ Report(t)

-----------------------------------------------------------------------------
(* The control loop.  write holds mtx_mode_ from its check of the mode to  *)
(* its return; in normal mode it only copies positions.  It is not called  *)
(* once the component is deactivated.                                      *)
Active == "stop" \in Actors => pc["stop"] # "stopped"

WriteUnlocked ==   \* a plausible bug: write does not take mtx_mode_
    /\ pc["loop"] = "idle" /\ Active
    /\ m_mode # "normal"
    /\ Goto("loop", "write")
    /\ UNCHANGED <<driver, mtx_mode, want, hr, requests, controller>>

Write ==
    /\ pc["loop"] = "idle" /\ Active
    /\ mtx_mode = "none"
    /\ m_mode # "normal"
    /\ mtx_mode' = "loop"
    /\ Goto("loop", "write")
    /\ UNCHANGED <<driver, want, hr, requests, controller>>

(* In normal mode write copies the position read into the command. *)
WriteNormal ==
    /\ pc["loop"] = "idle" /\ Active
    /\ mtx_mode = "none"
    /\ m_mode = "normal"
    /\ UNCHANGED vars

(* slvMove succeeds only on a controller in slave mode without error, and  *)
(* CreateSendParameter builds no command in normal mode.  E_BUF_FULL is    *)
(* passed over.                                                            *)
CanMove == ctlMode # "normal" /\ ~err /\ m_mode # "normal"

SlaveMove ==
    /\ pc["loop"] = "write"
    /\ \/ /\ CanMove
          /\ Goto("loop", "publish")
          /\ UNCHANGED mtx_mode
       \/ /\ CanMove /\ "full" \in Faults
          /\ Goto("loop", "idle")
          /\ Unlock("loop")
       \/ /\ ~CanMove \/ Answers # {"ok"}
          /\ Goto("loop", IF m_mode = "normal" THEN "describeWrite" ELSE "haserror")
          /\ UNCHANGED mtx_mode
    /\ UNCHANGED <<driver, want, hr, requests, controller>>

DescribeWrite ==
    /\ pc["loop"] = "describeWrite"
    /\ Goto("loop", "haserror")
    /\ UNCHANGED <<driver, mtx_mode, want, hr, requests, controller>>

PublishIO ==
    /\ pc["loop"] = "publish"
    /\ Goto("loop", "idle")
    /\ Unlock("loop")
    /\ UNCHANGED <<driver, want, hr, requests, controller>>

(* hasError: an error variable that cannot be read counts as an error. *)
HasErrorOptimist ==   \* a plausible bug: a failed read counts as no error
    /\ pc["loop"] = "haserror"
    /\ \E answer \in Answers :
          IF answer = "ok" /\ err
          THEN /\ want' = [want EXCEPT !["loop"] = "normal"]
               /\ Goto("loop", "services")
               /\ UNCHANGED mtx_mode
          ELSE Goto("loop", "idle") /\ Unlock("loop") /\ UNCHANGED want
    /\ UNCHANGED <<driver, hr, requests, controller>>

HasError ==
    /\ pc["loop"] = "haserror"
    /\ \E answer \in Answers :
          IF answer = "ok" /\ ~err
          THEN Goto("loop", "idle") /\ Unlock("loop") /\ UNCHANGED want
          ELSE /\ want' = [want EXCEPT !["loop"] = "normal"]
               /\ Goto("loop", "services")
               /\ UNCHANGED mtx_mode
    /\ UNCHANGED <<driver, hr, requests, controller>>

(* GetCurErrorCount and GetCurErrorInfo, then write returns. *)
ListErrors ==
    /\ pc["loop"] = "errors"
    /\ Goto("loop", "idle")
    /\ Unlock("loop")
    /\ UNCHANGED <<driver, want, hr, requests, controller>>

Loop ==
    /\ "loop" \in Actors
    /\ \/ Write \/ WriteNormal \/ SlaveMove \/ DescribeWrite \/ PublishIO \/ HasError
       \/ ListErrors \/ Change("loop")

-----------------------------------------------------------------------------
(* The spinning thread: a ChangeMode request, or Update.                   *)
RequestMode(mode) ==
    /\ pc["spin"] = "idle"
    /\ requests < MaxRequests
    /\ mode = "normal" \/ m_mode = "normal" \/ Reenter
    /\ requests' = requests + 1
    /\ want' = [want EXCEPT !["spin"] = mode]
    /\ Goto("spin", "lock")
    /\ UNCHANGED <<driver, mtx_mode, hr, controller>>

LockMode ==
    /\ pc["spin"] = "lock"
    /\ mtx_mode = "none"
    /\ mtx_mode' = "spin"
    /\ Goto("spin", "services")
    /\ UNCHANGED <<driver, want, hr, requests, controller>>

Update ==
    /\ pc["spin"] = "idle"
    /\ serving
    /\ Goto("spin", "update")
    /\ UNCHANGED <<driver, mtx_mode, want, hr, requests, controller>>

UpdateTakesMode ==   \* a plausible bug: Update takes mtx_mode_ under m_mtxSrv
    /\ pc["spin"] = "update"
    /\ mtx_mode = "none"
    /\ Goto("spin", "idle")
    /\ UNCHANGED <<driver, mtx_mode, want, hr, requests, controller>>

UpdateDone ==
    /\ pc["spin"] = "update"
    /\ Goto("spin", "idle")
    /\ UNCHANGED <<driver, mtx_mode, want, hr, requests, controller>>

Spin ==
    /\ "spin" \in Actors
    /\ \/ LockMode \/ Update \/ UpdateDone \/ Change("spin")
       \/ \E mode \in Modes : RequestMode(mode)

-----------------------------------------------------------------------------
(* on_deactivate: Stop changes to normal mode without mtx_mode_, then      *)
(* DensoRobotCore::Stop takes the services down.                           *)
Deactivate ==
    /\ pc["stop"] = "idle"
    /\ want' = [want EXCEPT !["stop"] = "normal"]
    /\ Goto("stop", "services")
    /\ UNCHANGED <<driver, mtx_mode, hr, requests, controller>>

Quit ==
    /\ pc["stop"] = "quit"
    /\ ~Updating
    /\ serving' = FALSE
    /\ Goto("stop", "stopped")
    /\ UNCHANGED <<m_mode, link, memLink, ioPubs, mtx_mode, want, hr, requests,
                   controller>>

Stop == "stop" \in Actors /\ (Deactivate \/ Quit \/ Change("stop"))

(* External: an error comes up; the controller may drop out of slave mode. *)
ControllerError ==
    /\ ~err
    /\ err' = TRUE
    /\ ctlMode' \in {ctlMode, "normal"}
    /\ UNCHANGED <<driver, mtx_mode, pc, want, hr, requests, arm>>

Next == Loop \/ Spin \/ Stop \/ ControllerError

Spec == Init /\ [][Next]_vars

(* Every thread goes on while it can: the control loop is periodic, the    *)
(* spinning thread runs at 1 kHz, b-CAP calls return (BcapRpc), a lock that *)
(* stays free is taken.  Strong fairness only where a thread waits for an  *)
(* Update to end, since SpinNode sleeps between two of them.  Nothing makes*)
(* clients ask for a mode, the component stop, or the controller fail.     *)
FairSpec ==
    /\ Spec
    /\ WF_vars(Loop) /\ SF_vars(Loop /\ StopService("loop"))
    /\ "spin" \in Actors => WF_vars(LockMode \/ UpdateDone \/ Change("spin"))
    /\ "stop" \in Actors => /\ WF_vars(Quit \/ Change("stop"))
                            /\ SF_vars(Quit \/ StopService("stop"))

-----------------------------------------------------------------------------
(* Every variable has its type, the lock is held exactly during the steps  *)
(* that lock_mode of write and ChangeModeFunction spans, and timeouts are  *)
(* those of a parameter or a slave mode.                                   *)
Holding(t) == pc[t] \notin {"idle", "lock", "update"}

TypeOK ==
    /\ m_mode \in Modes /\ ctlMode \in Modes
    /\ serving \in BOOLEAN /\ ioPubs \in BOOLEAN
    /\ arm \in BOOLEAN /\ err \in BOOLEAN
    /\ link \in {"param"} \cup SlaveModes
    /\ memLink \in {"param"} \cup SlaveModes
    /\ mtx_mode \in {"none"} \cup Actors
    /\ pc \in [Actors -> PCs]
    /\ want \in [Actors -> Modes]
    /\ hr \in [Actors -> BOOLEAN]
    /\ requests \in 0..MaxRequests
    /\ \A t \in Actors \ {"stop"} : Holding(t) <=> mtx_mode = t

(* No mode change is under way (ChangeModeWithClearError has returned). *)
Settled == \A t \in Actors : pc[t] \notin ChangePCs

(* The driver never streams positions to a controller that left slave mode *)
(* unnoticed: when m_mode says slave mode, the controller is in that mode  *)
(* or in an error, which the next write finds (ChangeMode of               *)
(* DensoRobotCore, write).                                                 *)
ModeAgrees == Settled /\ m_mode # "normal" => ctlMode = m_mode \/ err

(* The arm is the driver's own all the time it streams positions: TakeArm  *)
(* precedes slave mode and GiveArm follows it, whatever calls fail         *)
(* (DensoRobot::ChangeMode).                                               *)
ArmInSlaveMode == Settled /\ m_mode # "normal" => arm

(* Timeout and retry of SRV_ACT are those of the mode the driver is in,    *)
(* and the parameters of the connection come back after any sequence of    *)
(* changes that fail half-way (put_Timeout, put_Retry in ChangeMode).      *)
LinkOfMode == Settled => link = IF m_mode = "normal" THEN "param" ELSE m_mode

(* While the driver is in slave mode no service, action or topic of normal *)
(* mode is served and Update polls nothing (StartService, StopService).    *)
ServedInNormalModeOnly == serving => m_mode = "normal"

(* write publishes I/O through publishers that another thread's change of  *)
(* mode has not reset (pub_hand_io_->publish in write).                    *)
PublishersReady == "loop" \in Actors /\ pc["loop"] = "publish" => ioPubs

(* Update runs only while the services are up: StopService returns no      *)
(* sooner than an Update in progress (m_mtxSrv).                           *)
UpdateOnlyWhenServing == Updating => serving

(* The functions marked "Do NOT call on b-CAP Slave" (ExecClearError,      *)
(* ExecGetCurErrorCount, ExecGetCurErrorInfo, ExecGetErrorDescription) are *)
(* called only while the controller is in normal mode.                     *)
NotOnSlave ==
    \A t \in Actors :
        pc[t] \in {"clear", "describeClear", "describeWrite", "report", "errors"}
            => ctlMode = "normal"

(* An error of the controller in slave mode takes the driver to normal     *)
(* mode, however many calls fail on the way (write).                       *)
LeavesSlaveOnError == m_mode # "normal" /\ err ~> m_mode = "normal"

(* No thread keeps mtx_mode_ for ever: m_mtxSrv is taken under mtx_mode_   *)
(* and never the other way round.                                          *)
LockReleased ==
    \A t \in Actors : mtx_mode = t ~> mtx_mode # t
=============================================================================
