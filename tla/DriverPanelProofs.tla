-------------------------- MODULE DriverPanelProofs --------------------------
(***************************************************************************)
(* Proofs about DriverPanel, for every set of processes, packages, faults  *)
(* and uses of unexusctl.  The panel only watches the wizard: each of its  *)
(* steps is a step of the wizard or leaves the wizard alone, so everything *)
(* proved of the wizard holds beneath the panel too.                       *)
(***************************************************************************)
EXTENDS DriverPanel, DriverWizardProofs

PanelSafety == PanelInit /\ [][PanelNext]_allVars

LEMMA PanelStepIsWizardStep == [PanelNext]_allVars => [Next]_vars
<1> SUFFICES ASSUME [PanelNext]_allVars PROVE [Next]_vars
  OBVIOUS
<1>1. CASE OpenSession \/ CloseSession \/ Reboot
  BY <1>1 DEF OpenSession, CloseSession, Reboot, Next, Environment
<1>2. CASE PanelRefresh \/ PanelInstall \/ PanelRefused
  BY <1>2 DEF PanelRefresh, PanelInstall, PanelRefused
<1>3. CASE PanelAuthorized
  BY <1>3 DEF PanelAuthorized, Next, Start
<1>4. ASSUME NEW p \in Processes, Command(p) PROVE [Next]_vars
  BY <1>4 DEF Command, Elsewhere, PanelFinish, Next, Proceed, Apply
<1>5. CASE (\E p \in Commands : Start(p)) \/ GuardWakes \/ GuardTimesOut \/ TimerFires
  BY <1>5 DEF Next, Environment
<1>6. CASE UNCHANGED allVars
  BY <1>6 DEF allVars
<1> QED
  BY <1>1, <1>2, <1>3, <1>4, <1>5, <1>6 DEF PanelNext

(* With the panel over it the wizard still keeps its invariant: a switch   *)
(* begun from First Setup is tracked, guarded and undone like any other.   *)
THEOREM PanelKeepsWizard ==
  PanelSafety => []TypeOK /\ []SwitchIsTracked /\ []FreshSwitchNotConfirmed
                 /\ []BaselineKept /\ []GuardArmed
<1>1. PanelInit => Init
  BY DEF PanelInit
<1>2. PanelSafety => Spec
  BY <1>1, PanelStepIsWizardStep, PTL DEF PanelSafety, Spec
<1> QED
  BY <1>2, TypeCorrect, SwitchTracked, FreshNotConfirmed, KeepsBaseline,
     StagedIsGuarded, PTL

-----------------------------------------------------------------------------
(* The panel's own invariants.                                             *)

(* The panel's job is a command of root, still at work on its apply, in a  *)
(* session that is up.                                                     *)
JobInv ==
  /\ job \in Commands \cup {NoJob, Dialog}
  /\ job # NoJob => session
  /\ PanelWaitsForApply

(* A step that is not of the job, and no boot, leaves the job where it is, *)
(* or takes it one step further.                                           *)
LEMMA JobStays ==
  ASSUME TypeOK, NEW q \in Commands, pc[q] \in ApplySteps,
         \/ \E p \in Commands : Start(p)
         \/ GuardWakes \/ GuardTimesOut \/ TimerFires \/ Login
         \/ \E p \in Processes : Proceed(p) /\ ~(q = p /\ pc[p] = "apply_enable")
  PROVE  pc'[q] \in ApplySteps
<1> USE WizardAssumption DEF TypeOK, Goto, ApplySteps, Processes
<1>1. ASSUME NEW p \in Commands, Start(p) PROVE pc'[q] \in ApplySteps
  BY <1>1 DEF Start, StartApply, StartConfirm, StartRollback
<1>2. CASE GuardWakes \/ TimerFires \/ Login
  BY <1>2 DEF GuardWakes, TimerFires, Login
<1>3. CASE GuardTimesOut
  BY <1>3 DEF GuardTimesOut
<1>4. ASSUME NEW p \in Processes, Proceed(p), ~(q = p /\ pc[p] = "apply_enable")
      PROVE  pc'[q] \in ApplySteps
  <2>1. CASE Apply(p)
    BY <1>4, <2>1 DEF Apply, ApplyRecord, ApplyTarget, ApplyUnconfirm, ApplyPend,
       ApplyLock, ApplyInstall, ApplyInitramfs, ApplyEnable
  <2>2. CASE Confirm(p)
    BY <1>4, <2>2 DEF Confirm, ConfirmCheck, ConfirmMark, ConfirmUnpend, DisableGuard
  <2>3. CASE Rollback(p)
    BY <1>4, <2>3 DEF Rollback, RollbackCheck, RollbackConfirmed, RollbackPlan,
       RollbackLock, RollbackRemove, RollbackInitramfs, RollbackUnpend,
       RollbackUnconfirm
  <2> QED
    BY <1>4, <2>1, <2>2, <2>3 DEF Proceed
<1> QED
  BY <1>1, <1>2, <1>3, <1>4

LEMMA JobStep == TypeOK /\ JobInv /\ [PanelNext]_allVars => JobInv'
<1> SUFFICES ASSUME TypeOK, JobInv, [PanelNext]_allVars PROVE JobInv'
  OBVIOUS
<1> USE WizardAssumption, PanelAssumption DEF JobInv, PanelWaitsForApply
<1>1. CASE CloseSession \/ Reboot
  BY <1>1 DEF CloseSession, Reboot, PanelDown
<1>2. CASE OpenSession
  BY <1>2 DEF OpenSession, Login, Detect
<1>3. CASE PanelRefresh \/ PanelInstall \/ PanelRefused
  BY <1>3 DEF PanelRefresh, PanelInstall, PanelRefused, Detect, vars, machine
<1>4. CASE PanelAuthorized
  <2>1. PICK p \in Commands : StartApply(p) /\ job' = p
    BY <1>4 DEF PanelAuthorized
  <2>2. pc'[p] \in ApplySteps
    BY <2>1 DEF StartApply, Goto, ApplySteps, TypeOK, Processes
  <2> QED
    BY <1>4, <2>1, <2>2 DEF PanelAuthorized, StartApply, machine
<1>5. ASSUME NEW p \in Processes, Command(p) PROVE JobInv'
  <2>1. CASE PanelFinish(p)
    BY <2>1 DEF PanelFinish
  <2>2. CASE Elsewhere(p)
    <3>1. session' = session
      BY <2>2 DEF Elsewhere, Proceed, Apply, ApplyRecord, ApplyTarget, ApplyUnconfirm,
         ApplyPend, ApplyLock, ApplyInstall, ApplyInitramfs, ApplyEnable, Confirm,
         ConfirmCheck, ConfirmMark, ConfirmUnpend, DisableGuard, Rollback,
         RollbackCheck, RollbackConfirmed, RollbackPlan, RollbackLock,
         RollbackRemove, RollbackInitramfs, RollbackUnpend, RollbackUnconfirm, machine
    <3> QED
      BY <2>2, <3>1, JobStays DEF Elsewhere, panelVars
  <2> QED
    BY <1>5, <2>1, <2>2 DEF Command
<1>6. CASE /\ (\E p \in Commands : Start(p)) \/ GuardWakes \/ GuardTimesOut \/ TimerFires
           /\ UNCHANGED panelVars
  <2>1. session' = session
    BY <1>6 DEF Start, StartApply, StartConfirm, StartRollback, GuardWakes,
       GuardTimesOut, TimerFires, machine
  <2> QED
    BY <1>6, <2>1, JobStays DEF panelVars
<1>7. CASE UNCHANGED allVars
  BY <1>7 DEF allVars, vars, machine, panelVars
<1> QED
  BY <1>1, <1>2, <1>3, <1>4, <1>5, <1>6, <1>7 DEF PanelNext

(* Whatever else runs unexusctl, and whatever boots cut short: while the   *)
(* panel shows an install, that install is at work.                        *)
THEOREM InstallIsShown == PanelSafety => []PanelWaitsForApply
<1>1. PanelInit => JobInv
  BY DEF PanelInit, JobInv, PanelWaitsForApply
<1>2. JobInv => PanelWaitsForApply
  BY DEF JobInv
<1> QED
  BY <1>1, <1>2, JobStep, PanelKeepsWizard, PTL DEF PanelSafety

(* No apply has begun since the panel promised one: its switch is staged.  *)
PromiseInv ==
  /\ promised \in Nat /\ promised <= applies
  /\ panelState = "RebootRequired" /\ promised = applies => staged

LEMMA PromiseStep == TypeOK /\ PromiseInv /\ [PanelNext]_allVars => PromiseInv'
<1> SUFFICES ASSUME TypeOK, PromiseInv, [PanelNext]_allVars PROVE PromiseInv'
  OBVIOUS
<1> USE DEF PromiseInv, TypeOK
<1>1. CASE OpenSession \/ CloseSession \/ Reboot
  BY <1>1 DEF OpenSession, CloseSession, Reboot, PanelDown, Detect, Login,
     SessionEnds, Boot, history
<1>2. CASE PanelRefresh \/ PanelInstall \/ PanelRefused
  BY <1>2 DEF PanelRefresh, PanelInstall, PanelRefused, Detect, vars, history
<1>3. CASE PanelAuthorized
  BY <1>3 DEF PanelAuthorized, StartApply
<1>4. ASSUME NEW p \in Processes, Elsewhere(p) PROVE PromiseInv'
  <2>1. applies' = applies /\ (staged => staged')
    BY <1>4 DEF Elsewhere, Proceed, Apply, ApplyRecord, ApplyTarget, ApplyUnconfirm,
       ApplyPend, ApplyLock, ApplyInstall, ApplyInitramfs, ApplyEnable, Confirm,
       ConfirmCheck, ConfirmMark, ConfirmUnpend, DisableGuard, Rollback,
       RollbackCheck, RollbackConfirmed, RollbackPlan, RollbackLock, RollbackRemove,
       RollbackInitramfs, RollbackUnpend, RollbackUnconfirm, history
  <2> QED
    BY <1>4, <2>1 DEF Elsewhere, panelVars
<1>5. ASSUME NEW p \in Processes, PanelFinish(p) PROVE PromiseInv'
  BY <1>5 DEF PanelFinish, ApplyEnable
<1>6. CASE /\ (\E p \in Commands : Start(p)) \/ GuardWakes \/ GuardTimesOut \/ TimerFires
           /\ UNCHANGED panelVars
  BY <1>6 DEF Start, StartApply, StartConfirm, StartRollback, GuardWakes,
     GuardTimesOut, TimerFires, panelVars, history
<1>7. CASE UNCHANGED allVars
  BY <1>7 DEF allVars, vars, panelVars, history
<1> QED
  BY <1>1, <1>2, <1>3, <1>4, <1>5, <1>6, <1>7 DEF PanelNext, Command

(* The reboot the panel asks for is into a guarded switch, one confirmed   *)
(* or one undone.                                                          *)
THEOREM PanelIsHonest == PanelSafety => []PanelHonest
<1>1. PanelInit => PromiseInv
  BY DEF PanelInit, PromiseInv, Init
<1>2. PromiseInv /\ GuardArmed => PanelHonest
  BY DEF PromiseInv, GuardArmed, PanelHonest
<1> QED
  BY <1>1, <1>2, PromiseStep, PanelKeepsWizard, PTL DEF PanelSafety
=============================================================================
