--------------------------- MODULE SlaveModeProof ---------------------------
(***************************************************************************)
(* The theorems about SlaveMode, for every set of faults and every number  *)
(* of requests, as long as nobody calls Stop, which takes no lock.         *)
(*                                                                         *)
(* mtx_mode_ makes the thread in the middle of a mode change the only one  *)
(* (Others), so what holds between two changes (BaseMode, BasePubs, and    *)
(* BaseLink and BaseArm when clients ask for slave modes from normal mode  *)
(* only) is broken by that thread alone, and Midway says for each of its   *)
(* steps what it has established so far.                                   *)
(***************************************************************************)
EXTENDS SlaveMode, TLAPS

\* Between the first call to the controller and curmode, per thread.
Midway(t) ==
    /\ pc[t] \in {"choose", "formats", "takearm", "enter", "exit", "givearm", "finish"}
          => ~serving
    /\ pc[t] \in {"formats", "takearm", "enter"} => m_mode = "normal" /\ want[t] # "normal"
    /\ pc[t] = "exit" => m_mode # "normal"
    /\ pc[t] \in {"start", "clear", "describeClear"} => m_mode = "normal"
    /\ pc[t] = "start" => want[t] = "normal"
    /\ pc[t] \in {"givearm", "finish"} /\ hr[t] /\ want[t] # "normal"
          => ctlMode = want[t] \/ err
    /\ pc[t] \in {"write", "publish"} => m_mode # "normal"

\* The same for timeouts and arm, when slave modes start from normal mode.
MidwayLink(t) ==
    /\ pc[t] \in {"lock", "services", "choose"} /\ want[t] # "normal" => m_mode = "normal"
    /\ pc[t] \in {"exit", "givearm"} => link = "param" /\ want[t] = "normal"
    /\ pc[t] = "enter" => arm
    /\ pc[t] = "finish" =>
          IF hr[t] /\ want[t] # "normal"
          THEN link = want[t] /\ memLink = "param" /\ arm
          ELSE link = "param"

NoneIn(steps) == \A t \in Actors : pc[t] \notin steps

BaseMode ==
    NoneIn({"givearm", "finish"}) /\ m_mode # "normal" => ctlMode = m_mode \/ err

BasePubs ==
    NoneIn({"start", "clear", "describeClear", "curmode"})
        => ioPubs = (m_mode # "normal")

BaseLink ==
    /\ NoneIn({"exit", "givearm", "finish"})
          => link = IF m_mode = "normal" THEN "param" ELSE m_mode
    /\ m_mode # "normal" => memLink = "param"

BaseArm == NoneIn({"finish"}) /\ m_mode # "normal" => arm

IInv ==
    /\ TypeOK
    /\ "loop" \in Actors => want["loop"] = "normal"
    /\ \A t \in Actors : Midway(t)
    /\ BaseMode /\ BasePubs
    /\ ServedInNormalModeOnly
    /\ ~Reenter => /\ \A t \in Actors : MidwayLink(t)
                   /\ BaseLink /\ BaseArm

-----------------------------------------------------------------------------
\* mtx_mode_: while a thread is past the lock, the others are not.
LEMMA Others ==
    ASSUME "stop" \notin Actors, TypeOK, NEW t \in Actors, Holding(t),
           NEW u \in Actors \ {t}
    PROVE  pc[u] \in {"idle", "lock", "update"} /\ mtx_mode = t
BY ModeAssumption DEF TypeOK, Holding, AllActors

LEMMA InitIInv == ASSUME "stop" \notin Actors PROVE Init => IInv
<1> SUFFICES ASSUME Init PROVE IInv
  OBVIOUS
<1>1. TypeOK
  <2>1. pc \in [Actors -> PCs] /\ \A t \in Actors : ~Holding(t) /\ mtx_mode # t
    BY ModeAssumption DEF Init, PCs, Holding, AllActors
  <2>2. requests \in 0..MaxRequests
    BY ModeAssumption DEF Init
  <2> QED BY <2>1, <2>2 DEF Init, TypeOK, Modes, SlaveModes
<1>2. \A t \in Actors : Midway(t) /\ MidwayLink(t)
  BY DEF Init, Midway, MidwayLink
<1> QED BY <1>1, <1>2
        DEF Init, IInv, BaseMode, BasePubs, BaseLink, BaseArm, NoneIn,
            ServedInNormalModeOnly

\* One lemma for each step of a mode change.
LEMMA StopServiceStep ==
    ASSUME "stop" \notin Actors, IInv, NEW t \in Actors, StopService(t)
    PROVE  IInv'
<1> USE ModeAssumption DEF StopService, Goto, driver, controller
<1>1. Holding(t) /\ \A u \in Actors \ {t} : pc[u] \in {"idle", "lock", "update"}
  BY Others DEF Holding, IInv
<1>2. TypeOK'
  BY <1>1, Others DEF IInv, TypeOK, PCs, ChangePCs, Holding
<1>3. \A u \in Actors : Midway(u)'
  BY <1>1 DEF IInv, Midway, TypeOK
<1>4. BaseMode' /\ BasePubs' /\ ServedInNormalModeOnly'
  BY <1>1 DEF IInv, Midway, BaseMode, BasePubs, NoneIn, ServedInNormalModeOnly, TypeOK
<1>5. ~Reenter => (\A u \in Actors : MidwayLink(u)') /\ BaseLink' /\ BaseArm'
  BY <1>1 DEF IInv, Midway, MidwayLink, BaseLink, BaseArm, NoneIn, TypeOK
<1> QED BY <1>1, <1>2, <1>3, <1>4, <1>5 DEF IInv

LEMMA ChooseStep ==
    ASSUME "stop" \notin Actors, IInv, NEW t \in Actors, Choose(t)
    PROVE  IInv'
<1> USE ModeAssumption DEF Choose, Goto, driver, controller
<1>1. Holding(t) /\ \A u \in Actors \ {t} : pc[u] \in {"idle", "lock", "update"}
  BY Others DEF Holding, IInv
<1>2. TypeOK'
  BY <1>1, Others DEF IInv, TypeOK, PCs, ChangePCs, Holding, Modes, SlaveModes
<1>3. \A u \in Actors : Midway(u)'
  BY <1>1 DEF IInv, Midway, TypeOK
<1>4. BaseMode' /\ BasePubs' /\ ServedInNormalModeOnly'
  BY <1>1 DEF IInv, Midway, BaseMode, BasePubs, NoneIn, ServedInNormalModeOnly, TypeOK
<1>5. ~Reenter => (\A u \in Actors : MidwayLink(u)') /\ BaseLink' /\ BaseArm'
  BY <1>1 DEF IInv, Midway, MidwayLink, BaseLink, BaseArm, NoneIn, TypeOK
<1> QED BY <1>1, <1>2, <1>3, <1>4, <1>5 DEF IInv

LEMMA SetFormatsStep ==
    ASSUME "stop" \notin Actors, IInv, NEW t \in Actors, SetFormats(t)
    PROVE  IInv'
<1> USE ModeAssumption DEF SetFormats, Answers, Goto, driver, controller
<1>1. Holding(t) /\ \A u \in Actors \ {t} : pc[u] \in {"idle", "lock", "update"}
  BY Others DEF Holding, IInv
<1>2. TypeOK'
  BY <1>1, Others DEF IInv, TypeOK, PCs, ChangePCs, Holding
<1>3. \A u \in Actors : Midway(u)'
  BY <1>1 DEF IInv, Midway, TypeOK
<1>4. BaseMode' /\ BasePubs' /\ ServedInNormalModeOnly'
  BY <1>1 DEF IInv, Midway, BaseMode, BasePubs, NoneIn, ServedInNormalModeOnly, TypeOK
<1>5. ~Reenter => (\A u \in Actors : MidwayLink(u)') /\ BaseLink' /\ BaseArm'
  BY <1>1 DEF IInv, Midway, MidwayLink, BaseLink, BaseArm, NoneIn, TypeOK
<1> QED BY <1>1, <1>2, <1>3, <1>4, <1>5 DEF IInv

LEMMA ExecTakeArmStep ==
    ASSUME "stop" \notin Actors, IInv, NEW t \in Actors, ExecTakeArm(t)
    PROVE  IInv'
<1> USE ModeAssumption DEF ExecTakeArm, Answers, Goto, driver, controller
<1>1. Holding(t) /\ \A u \in Actors \ {t} : pc[u] \in {"idle", "lock", "update"}
  BY Others DEF Holding, IInv
<1>2. TypeOK'
  BY <1>1, Others DEF IInv, TypeOK, PCs, ChangePCs, Holding
<1>3. \A u \in Actors : Midway(u)'
  BY <1>1 DEF IInv, Midway, TypeOK
<1>4. BaseMode' /\ BasePubs' /\ ServedInNormalModeOnly'
  BY <1>1 DEF IInv, Midway, BaseMode, BasePubs, NoneIn, ServedInNormalModeOnly, TypeOK
<1>5. ~Reenter => (\A u \in Actors : MidwayLink(u)') /\ BaseLink' /\ BaseArm'
  <2> SUFFICES ASSUME ~Reenter
               PROVE  (\A u \in Actors : MidwayLink(u)') /\ BaseLink' /\ BaseArm'
    OBVIOUS
  <2>4. link = "param"
    BY <1>1 DEF IInv, Midway, BaseLink, NoneIn
  <2>5. MidwayLink(t)'
    BY <2>4 DEF Performed, IInv, MidwayLink, TypeOK
  <2>6. \A u \in Actors \ {t} : MidwayLink(u)'
    BY <1>1 DEF IInv, MidwayLink, TypeOK
  <2>1. \A u \in Actors : MidwayLink(u)'
    BY <2>5, <2>6
  <2>2. BaseLink'
    BY <1>1 DEF IInv, Midway, MidwayLink, BaseLink, NoneIn, TypeOK
  <2>3. BaseArm'
    BY <1>1 DEF IInv, Midway, MidwayLink, BaseArm, NoneIn, TypeOK
  <2> QED BY <2>1, <2>2, <2>3
<1> QED BY <1>1, <1>2, <1>3, <1>4, <1>5 DEF IInv

LEMMA EnterSlaveModeStep ==
    ASSUME "stop" \notin Actors, IInv, NEW t \in Actors, EnterSlaveMode(t)
    PROVE  IInv'
<1> USE ModeAssumption DEF EnterSlaveMode, Answers, SlvChangeMode, Performed, Goto, driver, controller
<1>1. Holding(t) /\ \A u \in Actors \ {t} : pc[u] \in {"idle", "lock", "update"}
  BY Others DEF Holding, IInv
<1>2. TypeOK'
  <2>1. want[t] \in SlaveModes
    BY DEF IInv, Midway, TypeOK, Modes
  <2>2. link' \in {"param"} \cup SlaveModes /\ memLink' \in {"param"} \cup SlaveModes
    BY <2>1 DEF IInv, TypeOK
  <2>3. ctlMode' \in Modes
    BY <2>1 DEF IInv, TypeOK, Modes
  <2>4. pc' \in [Actors -> PCs] /\ hr' \in [Actors -> BOOLEAN]
    BY DEF IInv, TypeOK, PCs, ChangePCs
  <2>5. \A u \in Actors \ {"stop"} : Holding(u)' <=> mtx_mode' = u
    BY <1>1 DEF IInv, TypeOK, Holding
  <2> QED BY <2>2, <2>3, <2>4, <2>5 DEF IInv, TypeOK
<1>3. \A u \in Actors : Midway(u)'
  BY <1>1 DEF IInv, Midway, TypeOK
<1>4. BaseMode' /\ BasePubs' /\ ServedInNormalModeOnly'
  BY <1>1 DEF IInv, Midway, BaseMode, BasePubs, NoneIn, ServedInNormalModeOnly, TypeOK
<1>5. ~Reenter => (\A u \in Actors : MidwayLink(u)') /\ BaseLink' /\ BaseArm'
  BY <1>1 DEF IInv, Midway, MidwayLink, BaseLink, BaseArm, NoneIn, TypeOK
<1> QED BY <1>1, <1>2, <1>3, <1>4, <1>5 DEF IInv

LEMMA ExitSlaveModeStep ==
    ASSUME "stop" \notin Actors, IInv, NEW t \in Actors, ExitSlaveMode(t)
    PROVE  IInv'
<1> USE ModeAssumption DEF ExitSlaveMode, Answers, SlvChangeMode, Performed, Goto, driver, controller
<1>1. Holding(t) /\ \A u \in Actors \ {t} : pc[u] \in {"idle", "lock", "update"}
  BY Others DEF Holding, IInv
<1>2. TypeOK'
  BY <1>1, Others DEF IInv, TypeOK, PCs, ChangePCs, Holding, Modes, SlaveModes
<1>3. \A u \in Actors : Midway(u)'
  BY <1>1 DEF IInv, Midway, TypeOK
<1>4. BaseMode' /\ BasePubs' /\ ServedInNormalModeOnly'
  BY <1>1 DEF IInv, Midway, BaseMode, BasePubs, NoneIn, ServedInNormalModeOnly, TypeOK
<1>5. ~Reenter => (\A u \in Actors : MidwayLink(u)') /\ BaseLink' /\ BaseArm'
  BY <1>1 DEF IInv, Midway, MidwayLink, BaseLink, BaseArm, NoneIn, TypeOK
<1> QED BY <1>1, <1>2, <1>3, <1>4, <1>5 DEF IInv

LEMMA ExecGiveArmStep ==
    ASSUME "stop" \notin Actors, IInv, NEW t \in Actors, ExecGiveArm(t)
    PROVE  IInv'
<1> USE ModeAssumption DEF ExecGiveArm, Answers, Goto, driver, controller
<1>1. Holding(t) /\ \A u \in Actors \ {t} : pc[u] \in {"idle", "lock", "update"}
  BY Others DEF Holding, IInv
<1>2. TypeOK'
  BY <1>1, Others DEF IInv, TypeOK, PCs, ChangePCs, Holding
<1>3. \A u \in Actors : Midway(u)'
  BY <1>1 DEF IInv, Midway, TypeOK
<1>4. BaseMode' /\ BasePubs' /\ ServedInNormalModeOnly'
  BY <1>1 DEF IInv, Midway, BaseMode, BasePubs, NoneIn, ServedInNormalModeOnly, TypeOK
<1>5. ~Reenter => (\A u \in Actors : MidwayLink(u)') /\ BaseLink' /\ BaseArm'
  BY <1>1 DEF IInv, Midway, MidwayLink, BaseLink, BaseArm, NoneIn, TypeOK
<1> QED BY <1>1, <1>2, <1>3, <1>4, <1>5 DEF IInv

LEMMA FinishStep ==
    ASSUME "stop" \notin Actors, IInv, NEW t \in Actors, Finish(t)
    PROVE  IInv'
<1> USE ModeAssumption DEF Finish, AfterMode, Goto, driver, controller
<1>1. Holding(t) /\ \A u \in Actors \ {t} : pc[u] \in {"idle", "lock", "update"}
  BY Others DEF Holding, IInv
<1>2. TypeOK'
  BY <1>1, Others DEF IInv, TypeOK, PCs, ChangePCs, Holding, Modes
<1>3. \A u \in Actors : Midway(u)'
  BY <1>1 DEF IInv, Midway, TypeOK
<1>4. BaseMode' /\ BasePubs' /\ ServedInNormalModeOnly'
  BY <1>1 DEF IInv, Midway, BaseMode, BasePubs, NoneIn, ServedInNormalModeOnly, TypeOK
<1>5. ~Reenter => (\A u \in Actors : MidwayLink(u)') /\ BaseLink' /\ BaseArm'
  <2> SUFFICES ASSUME ~Reenter
               PROVE  (\A u \in Actors : MidwayLink(u)') /\ BaseLink' /\ BaseArm'
    OBVIOUS
  <2>1. \A u \in Actors : MidwayLink(u)'
    <3>1. MidwayLink(t)'
      BY DEF IInv, MidwayLink, TypeOK
    <3>2. ASSUME NEW u \in Actors \ {t} PROVE MidwayLink(u)'
      <4>1. t = "loop" \/ u = "loop"
        BY DEF AllActors
      <4>2. pc[u] \in {"idle", "lock", "update"} /\ UNCHANGED <<pc[u], want>>
        BY <1>1, <3>2 DEF IInv, TypeOK
      <4>3. CASE t = "loop"
        BY <4>2, <4>3 DEF IInv, MidwayLink
      <4>4. CASE u = "loop"
        BY <4>2, <4>4 DEF IInv, MidwayLink
      <4> QED BY <4>1, <4>3, <4>4
    <3> QED BY <3>1, <3>2
  <2>2. BaseLink'
    BY <1>1 DEF IInv, Midway, MidwayLink, BaseLink, NoneIn, TypeOK
  <2>3. BaseArm'
    BY <1>1 DEF IInv, Midway, MidwayLink, BaseArm, NoneIn, TypeOK
  <2> QED BY <2>1, <2>2, <2>3
<1> QED BY <1>1, <1>2, <1>3, <1>4, <1>5 DEF IInv

LEMMA StartServiceStep ==
    ASSUME "stop" \notin Actors, IInv, NEW t \in Actors, StartService(t)
    PROVE  IInv'
<1> USE ModeAssumption DEF StartService, AfterMode, Goto, driver, controller
<1>1. Holding(t) /\ \A u \in Actors \ {t} : pc[u] \in {"idle", "lock", "update"}
  BY Others DEF Holding, IInv
<1>2. TypeOK'
  BY <1>1, Others DEF IInv, TypeOK, PCs, ChangePCs, Holding
<1>3. \A u \in Actors : Midway(u)'
  BY <1>1 DEF IInv, Midway, TypeOK
<1>4. BaseMode' /\ BasePubs' /\ ServedInNormalModeOnly'
  BY <1>1 DEF IInv, Midway, BaseMode, BasePubs, NoneIn, ServedInNormalModeOnly, TypeOK
<1>5. ~Reenter => (\A u \in Actors : MidwayLink(u)') /\ BaseLink' /\ BaseArm'
  BY <1>1 DEF IInv, Midway, MidwayLink, BaseLink, BaseArm, NoneIn, TypeOK
<1> QED BY <1>1, <1>2, <1>3, <1>4, <1>5 DEF IInv

LEMMA ExecClearErrorStep ==
    ASSUME "stop" \notin Actors, IInv, NEW t \in Actors, ExecClearError(t)
    PROVE  IInv'
<1> USE ModeAssumption DEF ExecClearError, Answers, Goto, driver, controller
<1>1. Holding(t) /\ \A u \in Actors \ {t} : pc[u] \in {"idle", "lock", "update"}
  BY Others DEF Holding, IInv
<1>2. TypeOK'
  BY <1>1, Others DEF IInv, TypeOK, PCs, ChangePCs, Holding
<1>3. \A u \in Actors : Midway(u)'
  BY <1>1 DEF IInv, Midway, TypeOK
<1>4. BaseMode' /\ BasePubs' /\ ServedInNormalModeOnly'
  BY <1>1 DEF IInv, Midway, BaseMode, BasePubs, NoneIn, ServedInNormalModeOnly, TypeOK
<1>5. ~Reenter => (\A u \in Actors : MidwayLink(u)') /\ BaseLink' /\ BaseArm'
  BY <1>1 DEF IInv, Midway, MidwayLink, BaseLink, BaseArm, NoneIn, TypeOK
<1> QED BY <1>1, <1>2, <1>3, <1>4, <1>5 DEF IInv

LEMMA DescribeClearStep ==
    ASSUME "stop" \notin Actors, IInv, NEW t \in Actors, DescribeClear(t)
    PROVE  IInv'
<1> USE ModeAssumption DEF DescribeClear, Goto, driver, controller
<1>1. Holding(t) /\ \A u \in Actors \ {t} : pc[u] \in {"idle", "lock", "update"}
  BY Others DEF Holding, IInv
<1>2. TypeOK'
  BY <1>1, Others DEF IInv, TypeOK, PCs, ChangePCs, Holding
<1>3. \A u \in Actors : Midway(u)'
  BY <1>1 DEF IInv, Midway, TypeOK
<1>4. BaseMode' /\ BasePubs' /\ ServedInNormalModeOnly'
  BY <1>1 DEF IInv, Midway, BaseMode, BasePubs, NoneIn, ServedInNormalModeOnly, TypeOK
<1>5. ~Reenter => (\A u \in Actors : MidwayLink(u)') /\ BaseLink' /\ BaseArm'
  BY <1>1 DEF IInv, Midway, MidwayLink, BaseLink, BaseArm, NoneIn, TypeOK
<1> QED BY <1>1, <1>2, <1>3, <1>4, <1>5 DEF IInv

LEMMA CurModeStep ==
    ASSUME "stop" \notin Actors, IInv, NEW t \in Actors, CurMode(t)
    PROVE  IInv'
<1> USE ModeAssumption DEF CurMode, AfterCurMode, Unlock, Goto, driver, controller
<1>1. Holding(t) /\ \A u \in Actors \ {t} : pc[u] \in {"idle", "lock", "update"}
  BY Others DEF Holding, IInv
<1>2. TypeOK'
  <2>1. mtx_mode = t /\ t # "none"
    BY <1>1 DEF IInv, TypeOK, AllActors
  <2>2. pc' \in [Actors -> PCs] /\ mtx_mode' \in {"none"} \cup Actors
    BY <2>1 DEF IInv, TypeOK, PCs
  <2>3. \A u \in Actors \ {"stop"} : Holding(u)' <=> mtx_mode' = u
    <3>1. Holding(t)' <=> mtx_mode' = t
      BY <2>1 DEF IInv, TypeOK, Holding, AllActors
    <3>2. ASSUME NEW u \in Actors \ {t} PROVE ~Holding(u)' /\ mtx_mode' # u
      BY <1>1, <2>1, <3>2 DEF IInv, TypeOK, Holding, AllActors
    <3> QED BY <3>1, <3>2
  <2> QED BY <2>2, <2>3 DEF IInv, TypeOK
<1>3. \A u \in Actors : Midway(u)'
  BY <1>1 DEF IInv, Midway, TypeOK
<1>4. BaseMode' /\ BasePubs' /\ ServedInNormalModeOnly'
  BY <1>1 DEF IInv, Midway, BaseMode, BasePubs, NoneIn, ServedInNormalModeOnly, TypeOK
<1>5. ~Reenter => (\A u \in Actors : MidwayLink(u)') /\ BaseLink' /\ BaseArm'
  BY <1>1 DEF IInv, Midway, MidwayLink, BaseLink, BaseArm, NoneIn, TypeOK
<1> QED BY <1>1, <1>2, <1>3, <1>4, <1>5 DEF IInv

LEMMA ReportStep ==
    ASSUME "stop" \notin Actors, IInv, NEW t \in Actors, Report(t)
    PROVE  IInv'
<1> USE ModeAssumption DEF Report, Unlock, Goto, driver, controller
<1>1. Holding(t) /\ \A u \in Actors \ {t} : pc[u] \in {"idle", "lock", "update"}
  BY Others DEF Holding, IInv
<1>2. TypeOK'
  <2>1. mtx_mode = t /\ t # "none"
    BY <1>1 DEF IInv, TypeOK, AllActors
  <2>2. pc' \in [Actors -> PCs] /\ mtx_mode' \in {"none"} \cup Actors
    BY <2>1 DEF IInv, TypeOK, PCs
  <2>3. \A u \in Actors \ {"stop"} : Holding(u)' <=> mtx_mode' = u
    <3>1. Holding(t)' <=> mtx_mode' = t
      BY <2>1 DEF IInv, TypeOK, Holding, AllActors
    <3>2. ASSUME NEW u \in Actors \ {t} PROVE ~Holding(u)' /\ mtx_mode' # u
      BY <1>1, <2>1, <3>2 DEF IInv, TypeOK, Holding, AllActors
    <3> QED BY <3>1, <3>2
  <2> QED BY <2>2, <2>3 DEF IInv, TypeOK
<1>3. \A u \in Actors : Midway(u)'
  BY <1>1 DEF IInv, Midway, TypeOK
<1>4. BaseMode' /\ BasePubs' /\ ServedInNormalModeOnly'
  BY <1>1 DEF IInv, Midway, BaseMode, BasePubs, NoneIn, ServedInNormalModeOnly, TypeOK
<1>5. ~Reenter => (\A u \in Actors : MidwayLink(u)') /\ BaseLink' /\ BaseArm'
  BY <1>1 DEF IInv, Midway, MidwayLink, BaseLink, BaseArm, NoneIn, TypeOK
<1> QED BY <1>1, <1>2, <1>3, <1>4, <1>5 DEF IInv

\* The steps of write outside the mode change.
LEMMA WriteStep ==
    ASSUME "stop" \notin Actors, "loop" \in Actors, IInv,
           \/ Write \/ WriteNormal \/ SlaveMove \/ DescribeWrite \/ PublishIO
           \/ HasError \/ ListErrors
    PROVE  IInv'
<1> USE ModeAssumption DEF Goto, driver, controller, vars
<1>1. CASE Write
  <2>1. \A u \in Actors : ~Holding(u)
    BY <1>1 DEF Write, IInv, TypeOK, AllActors
  <2>2. TypeOK'
    BY <1>1, <2>1 DEF Write, IInv, TypeOK, Holding, PCs
  <2>3. \A u \in Actors : Midway(u)' /\ (~Reenter => MidwayLink(u)')
    BY <1>1 DEF Write, IInv, TypeOK, Midway, MidwayLink
  <2>4. BaseMode' /\ BasePubs' /\ (~Reenter => BaseLink' /\ BaseArm')
    BY <1>1, <2>1 DEF Write, IInv, BaseMode, BasePubs, BaseLink, BaseArm, NoneIn,
       Holding, TypeOK
  <2> QED BY <1>1, <2>2, <2>3, <2>4 DEF Write, IInv, ServedInNormalModeOnly
<1>2. CASE WriteNormal
  BY <1>2 DEF WriteNormal, IInv, TypeOK, Holding, Midway, MidwayLink, BaseMode, BasePubs,
     BaseLink, BaseArm, NoneIn, ServedInNormalModeOnly
<1>3. CASE SlaveMove \/ DescribeWrite \/ PublishIO \/ HasError \/ ListErrors
  <2>1. /\ pc["loop"] \in {"write", "describeWrite", "publish", "haserror", "errors"}
        /\ \/ /\ pc' = [pc EXCEPT !["loop"] = "idle"]
              /\ Unlock("loop")
           \/ \E step \in {"publish", "describeWrite", "haserror", "services"} :
                 /\ pc' = [pc EXCEPT !["loop"] = step]
                 /\ step = "publish" => m_mode # "normal"
                 /\ UNCHANGED mtx_mode
        /\ UNCHANGED <<driver, hr, requests, controller>>
        /\ want' = [want EXCEPT !["loop"] = "normal"]
    <3>1. want = [want EXCEPT !["loop"] = "normal"]
      BY DEF IInv, TypeOK
    <3>2. CASE HasError
      BY <3>1, <3>2 DEF HasError
    <3>3. CASE SlaveMove
      BY <3>1, <3>3 DEF SlaveMove, CanMove
    <3> QED BY <1>3, <3>1, <3>2, <3>3 DEF DescribeWrite, PublishIO, ListErrors
  <2>2. /\ mtx_mode = "loop"
        /\ \A u \in Actors \ {"loop"} : pc[u] \in {"idle", "lock", "update"}
    BY <2>1, Others DEF Holding, IInv, TypeOK
  <2>3. TypeOK'
    <3>1. /\ pc' \in [Actors -> PCs] /\ want' \in [Actors -> Modes]
          /\ mtx_mode' \in {"none"} \cup Actors
      BY <2>1 DEF IInv, TypeOK, PCs, ChangePCs, Modes, Unlock
    <3>2. Holding("loop")' <=> mtx_mode' = "loop"
      BY <2>1, <2>2 DEF IInv, TypeOK, Holding, Unlock
    <3>3. \A u \in Actors \ {"loop"} : ~Holding(u)' /\ mtx_mode' # u
      BY <2>1, <2>2 DEF IInv, TypeOK, Holding, Unlock, AllActors
    <3> QED BY <2>1, <3>1, <3>2, <3>3 DEF IInv, TypeOK
  <2>4. \A u \in Actors : Midway(u)' /\ (~Reenter => MidwayLink(u)')
    <3>1. Midway("loop")' /\ (~Reenter => MidwayLink("loop")')
      BY <2>1 DEF IInv, TypeOK, Midway, MidwayLink
    <3>2. ASSUME NEW u \in Actors \ {"loop"}
          PROVE  Midway(u)' /\ (~Reenter => MidwayLink(u)')
      BY <2>1, <2>2, <3>2 DEF IInv, TypeOK, Midway, MidwayLink
    <3> QED BY <3>1, <3>2
  <2>5. BaseMode' /\ BasePubs' /\ (~Reenter => BaseLink' /\ BaseArm')
    BY <2>1, <2>2 DEF IInv, BaseMode, BasePubs, BaseLink, BaseArm, NoneIn, TypeOK
  <2> QED BY <2>1, <2>3, <2>4, <2>5 DEF IInv, ServedInNormalModeOnly, TypeOK
<1> QED BY <1>1, <1>2, <1>3

\* The steps of the spinning thread outside the mode change.
LEMMA SpinStep ==
    ASSUME "stop" \notin Actors, "spin" \in Actors, IInv,
           \/ LockMode \/ Update \/ UpdateDone
           \/ \E mode \in Modes : RequestMode(mode)
    PROVE  IInv'
<1> USE ModeAssumption DEF Goto, driver, controller
<1>1. CASE LockMode
  <2>1. \A u \in Actors : ~Holding(u)
    BY <1>1 DEF LockMode, IInv, TypeOK, AllActors
  <2>2. TypeOK'
    BY <1>1, <2>1 DEF LockMode, IInv, TypeOK, Holding, PCs, ChangePCs
  <2>3. \A u \in Actors : Midway(u)' /\ (~Reenter => MidwayLink(u)')
    BY <1>1 DEF LockMode, IInv, TypeOK, Midway, MidwayLink
  <2>4. BaseMode' /\ BasePubs' /\ (~Reenter => BaseLink' /\ BaseArm')
    BY <1>1, <2>1 DEF LockMode, IInv, BaseMode, BasePubs, BaseLink, BaseArm, NoneIn,
       Holding, TypeOK
  <2> QED BY <1>1, <2>2, <2>3, <2>4 DEF LockMode, IInv, ServedInNormalModeOnly
<1>2. CASE Update \/ UpdateDone
  <2>2. TypeOK'
    BY <1>2 DEF Update, UpdateDone, IInv, TypeOK, Holding, PCs
  <2>3. \A u \in Actors : Midway(u)' /\ (~Reenter => MidwayLink(u)')
    BY <1>2 DEF Update, UpdateDone, IInv, TypeOK, Midway, MidwayLink
  <2>4. BaseMode' /\ BasePubs' /\ (~Reenter => BaseLink' /\ BaseArm')
    BY <1>2 DEF Update, UpdateDone, IInv, BaseMode, BasePubs, BaseLink, BaseArm,
       NoneIn, TypeOK
  <2> QED BY <1>2, <2>2, <2>3, <2>4
          DEF Update, UpdateDone, IInv, ServedInNormalModeOnly
<1>3. ASSUME NEW mode \in Modes, RequestMode(mode) PROVE IInv'
  <2>2. TypeOK'
    BY <1>3 DEF RequestMode, IInv, TypeOK, Holding, PCs
  <2>3. \A u \in Actors : Midway(u)' /\ (~Reenter => MidwayLink(u)')
    BY <1>3 DEF RequestMode, IInv, TypeOK, Midway, MidwayLink
  <2>4. BaseMode' /\ BasePubs' /\ (~Reenter => BaseLink' /\ BaseArm')
    BY <1>3 DEF RequestMode, IInv, BaseMode, BasePubs, BaseLink, BaseArm, NoneIn, TypeOK
  <2> QED BY <1>3, <2>2, <2>3, <2>4
          DEF RequestMode, IInv, ServedInNormalModeOnly, TypeOK
<1> QED BY <1>1, <1>2, <1>3

LEMMA ErrorStep == ASSUME IInv, ControllerError PROVE IInv'
BY DEF ControllerError, driver, IInv, TypeOK, Modes, Holding, Midway, MidwayLink, BaseMode, BasePubs,
   BaseLink, BaseArm, NoneIn, ServedInNormalModeOnly

-----------------------------------------------------------------------------
\* IInv holds in every state that write, the ChangeMode service and the failures
\* of the controller reach together.
THEOREM Invariance == ASSUME "stop" \notin Actors PROVE Spec => []IInv
<1>1. IInv /\ [Next]_vars => IInv'
  <2> SUFFICES ASSUME IInv, [Next]_vars PROVE IInv'
    OBVIOUS
  <2>1. ASSUME NEW t \in Actors, Change(t) PROVE IInv'
    BY <2>1, StopServiceStep, ChooseStep, SetFormatsStep, ExecTakeArmStep,
       EnterSlaveModeStep, ExitSlaveModeStep, ExecGiveArmStep, FinishStep,
       StartServiceStep, ExecClearErrorStep, DescribeClearStep, CurModeStep,
       ReportStep DEF Change
  <2>2. CASE Loop
    BY <2>1, <2>2, WriteStep DEF Loop
  <2>3. CASE Spin
    BY <2>1, <2>3, SpinStep DEF Spin
  <2>4. CASE UNCHANGED vars
    BY <2>4 DEF vars, IInv, TypeOK, Holding, Midway, MidwayLink, BaseMode, BasePubs,
       BaseLink, BaseArm, NoneIn, ServedInNormalModeOnly
  <2> QED BY <2>2, <2>3, <2>4, ErrorStep DEF Next, Stop
<1> QED BY InitIInv, <1>1, PTL DEF Spec

\* Every variable of the mode change keeps its type, and mtx_mode_ is held from
\* its acquisition to the end of write and ChangeModeFunction.
THEOREM TypeCorrect == ASSUME "stop" \notin Actors PROVE Spec => []TypeOK
BY Invariance, PTL DEF IInv

\* Whatever calls fail, m_mode says slave mode only while the controller is in
\* that mode or has an error that write is going to find.
THEOREM SlaveModeIsReal == ASSUME "stop" \notin Actors PROVE Spec => []ModeAgrees
<1>1. IInv => ModeAgrees
  BY DEF IInv, BaseMode, ModeAgrees, Settled, NoneIn, ChangePCs
<1> QED BY Invariance, <1>1, PTL

\* No topic, service or action of normal mode is served in slave mode.
THEOREM NotServedInSlaveMode ==
    ASSUME "stop" \notin Actors PROVE Spec => []ServedInNormalModeOnly
BY Invariance, PTL DEF IInv

\* write finds the I/O publishers it publishes to.
THEOREM PublishersExist == ASSUME "stop" \notin Actors PROVE Spec => []PublishersReady
<1>1. IInv => PublishersReady
  <2> SUFFICES ASSUME IInv, "loop" \in Actors, pc["loop"] = "publish" PROVE ioPubs
    BY DEF PublishersReady
  <2>1. \A u \in Actors \ {"loop"} : pc[u] \in {"idle", "lock", "update"}
    BY Others DEF IInv, Holding
  <2>2. NoneIn({"start", "clear", "describeClear", "curmode"})
    BY <2>1 DEF NoneIn
  <2> QED BY <2>2 DEF IInv, BasePubs, Midway
<1> QED BY Invariance, <1>1, PTL

\* When clients ask for slave modes from normal mode only, timeout and retry of
\* SRV_ACT are those of the mode, after any sequence of failed changes.
THEOREM LinkFollowsMode ==
    ASSUME "stop" \notin Actors, ~Reenter PROVE Spec => []LinkOfMode
<1>1. IInv => LinkOfMode
  BY DEF IInv, BaseLink, LinkOfMode, Settled, NoneIn, ChangePCs
<1> QED BY Invariance, <1>1, PTL

\* Under the same condition the arm is the driver's whenever it is in slave mode.
THEOREM ArmFollowsMode ==
    ASSUME "stop" \notin Actors, ~Reenter PROVE Spec => []ArmInSlaveMode
<1>1. IInv => ArmInSlaveMode
  BY DEF IInv, BaseArm, ArmInSlaveMode, Settled, NoneIn, ChangePCs
<1> QED BY Invariance, <1>1, PTL

-----------------------------------------------------------------------------
\* With Stop as well: m_mtxSrv alone keeps Update and the services together.
LEMMA UpdateInv == Spec => [](pc \in [Actors -> PCs] /\ UpdateOnlyWhenServing)
<1> DEFINE Inv == pc \in [Actors -> PCs] /\ UpdateOnlyWhenServing
<1> USE DEF PCs, ChangePCs
<1>1. Init => Inv
  BY DEF Init, UpdateOnlyWhenServing, Updating
<1>2. Inv /\ [Next]_vars => Inv'
  <2> SUFFICES ASSUME Inv, [Next]_vars PROVE Inv'
    OBVIOUS
  <2> USE DEF UpdateOnlyWhenServing, Updating, Goto, driver, controller
  <2>1. ASSUME NEW t \in Actors, Change(t) PROVE Inv'
    <3> USE <2>1
    <3>1. CASE StopService(t)
      BY <3>1 DEF StopService
    <3>2. CASE Choose(t) \/ SetFormats(t) \/ ExecTakeArm(t)
      BY <3>2 DEF Choose, SetFormats, ExecTakeArm
    <3>3. CASE EnterSlaveMode(t) \/ ExitSlaveMode(t) \/ ExecGiveArm(t)
      BY <3>3 DEF EnterSlaveMode, ExitSlaveMode, ExecGiveArm
    <3>4. CASE Finish(t) \/ StartService(t) \/ ExecClearError(t)
      BY <3>4 DEF Finish, AfterMode, StartService, ExecClearError
    <3>5. CASE DescribeClear(t) \/ CurMode(t) \/ Report(t)
      BY <3>5 DEF DescribeClear, CurMode, AfterCurMode, Report
    <3> QED
      BY <3>1, <3>2, <3>3, <3>4, <3>5 DEF Change
  <2>2. CASE Loop
    <3> "loop" \in Actors
      BY <2>2 DEF Loop
    <3>1. CASE Write \/ WriteNormal \/ SlaveMove \/ DescribeWrite
      BY <3>1 DEF Write, WriteNormal, vars, SlaveMove, DescribeWrite
    <3>2. CASE PublishIO \/ HasError \/ ListErrors
      BY <3>2 DEF PublishIO, HasError, ListErrors
    <3> QED
      BY <2>1, <2>2, <3>1, <3>2 DEF Loop
  <2>3. CASE Spin
    <3> "spin" \in Actors
      BY <2>3 DEF Spin
    <3>1. CASE LockMode \/ Update \/ UpdateDone \/ \E mode \in Modes : RequestMode(mode)
      BY <3>1 DEF LockMode, Update, UpdateDone, RequestMode
    <3> QED
      BY <2>1, <2>3, <3>1 DEF Spin
  <2>4. CASE Stop
    <3> "stop" \in Actors
      BY <2>4 DEF Stop
    <3>1. CASE Deactivate \/ Quit
      BY <3>1 DEF Deactivate, Quit
    <3> QED
      BY <2>1, <2>4, <3>1 DEF Stop
  <2>5. CASE ControllerError \/ UNCHANGED vars
    BY <2>5 DEF ControllerError, vars
  <2> QED
    BY <2>2, <2>3, <2>4, <2>5 DEF Next
<1> QED
  BY <1>1, <1>2, PTL DEF Spec

\* Update runs only while the services are up, whoever changes the mode and
\* whether mtx_mode_ is taken or not (StopService, Update).
THEOREM UpdatedInService == Spec => []UpdateOnlyWhenServing
BY UpdateInv, PTL
=============================================================================
