------------------------- MODULE DriverSwitchProofs -------------------------
(***************************************************************************)
(* When commands run one at a time, DriverWizard implements DriverSwitch,  *)
(* for every set of processes, packages and faults.  On top of the wizard's*)
(* invariant: a command that runs is alone (Alone), so what it read of     *)
(* the switch still holds when it acts on it, and what its rollback has    *)
(* left is what the promise says (Current), and what is accepted has its   *)
(* mark on disk (Marked).                                                  *)
(***************************************************************************)
EXTENDS DriverWizardProofs

Alone == \A p, q \in Processes : pc[p] \notin Quiet /\ pc[q] \notin Quiet => p = q

Marked == pending /\ accepted => confirmed

Current ==
  \A p \in Processes :
    /\ pc[p] \in Installing => pending
    /\ pc[p] \in {"rollback_plan", "rollback_lock", "rollback_remove"} =>
         pending /\ ~accepted
    /\ pc[p] = "rollback_confirmed" => pending
    /\ pc[p] \in {"rollback_initramfs", "rollback_unpend"} =>
         pending /\ (accepted \/ installed = baseline \ Extra)

OneAtATime == Alone /\ (clean => Marked /\ Current)

LEMMA AloneInit == Init => OneAtATime
  BY DEF Init, OneAtATime, Alone, Marked, Current, Quiet, Installing

LEMMA AloneStep ==
  ASSUME Exclusive, IInv, Alone, [Next]_vars
  PROVE  Alone'
<1> USE WizardAssumption DEF Alone, MayStart, NoneRunning, Goto, Quiet, Processes, IInv, TypeOK
<1>1. ASSUME NEW p \in Commands, Start(p) PROVE Alone'
  BY <1>1 DEF Start, StartApply, StartConfirm, StartRollback
<1>2. ASSUME NEW p \in Processes, Proceed(p) PROVE Alone'
  <2>1. pc[p] \notin Quiet
    BY <1>2 DEF Proceed, Apply, ApplyRecord, ApplyTarget, ApplyUnconfirm, ApplyPend,
       ApplyLock, ApplyInstall, ApplyInitramfs, ApplyEnable, Confirm, ConfirmCheck,
       ConfirmMark, ConfirmUnpend, DisableGuard, Rollback, RollbackCheck,
       RollbackConfirmed, RollbackPlan, RollbackLock, RollbackRemove,
       RollbackInitramfs, RollbackUnpend, RollbackUnconfirm
  <2>2. \A q \in Processes \ {p} : pc'[q] = pc[q]
    BY <1>2 DEF Proceed, Apply, ApplyRecord, ApplyTarget, ApplyUnconfirm, ApplyPend,
       ApplyLock, ApplyInstall, ApplyInitramfs, ApplyEnable, Confirm, ConfirmCheck,
       ConfirmMark, ConfirmUnpend, DisableGuard, Rollback, RollbackCheck,
       RollbackConfirmed, RollbackPlan, RollbackLock, RollbackRemove,
       RollbackInitramfs, RollbackUnpend, RollbackUnconfirm
  <2> QED
    BY <2>1, <2>2
<1>3. CASE GuardWakes \/ TimerFires
  BY <1>3 DEF GuardWakes, TimerFires
<1>4. CASE GuardTimesOut \/ Login \/ SessionEnds \/ Boot
  BY <1>4 DEF GuardTimesOut, Login, SessionEnds, Boot
<1>5. CASE UNCHANGED vars
  BY <1>5 DEF vars
<1> QED
  BY <1>1, <1>2, <1>3, <1>4, <1>5 DEF Next, Environment

LEMMA CurrentStep ==
  ASSUME Exclusive, IInv, OneAtATime, [Next]_vars, clean'
  PROVE  (Marked /\ Current)'
<1> USE WizardAssumption
    DEF Goto, Quiet, Processes, IInv, TypeOK, OneAtATime, Alone, Marked, Current,
        Installing, Extra, disk, history
<1>1. ASSUME NEW p \in Commands, Start(p) PROVE (Marked /\ Current)'
  <2>1. CASE StartApply(p)
    <3>1. /\ ~pending' /\ \A q \in Processes : pc[q] \in Quiet
          /\ ~accepted' /\ pc' = [pc EXCEPT ![p] = "apply_record"]
      BY <2>1 DEF StartApply, NoneRunning
    <3> QED
      BY <3>1
  <2>2. CASE StartConfirm(p)
    BY <2>2 DEF StartConfirm
  <2>3. CASE StartRollback(p)
    BY <2>3 DEF StartRollback
  <2> QED
    BY <1>1, <2>1, <2>2, <2>3 DEF Start
<1>2. ASSUME NEW p \in Processes, Apply(p) PROVE (Marked /\ Current)'
  <2>1. clean /\ Clean
    BY <1>2 DEF Apply, ApplyRecord, ApplyTarget, ApplyUnconfirm, ApplyPend, ApplyLock,
       ApplyInstall, ApplyInitramfs, ApplyEnable
  <2>2. pc[p] \in {"apply_unconfirm", "apply_pend"} => ~accepted
    BY <2>1 DEF Clean, EarlyAlone, Early
  <2>3. CASE ApplyRecord(p) \/ ApplyTarget(p) \/ ApplyUnconfirm(p)
    BY <2>1, <2>2, <2>3 DEF ApplyRecord, ApplyTarget, ApplyUnconfirm
  <2>4. CASE ApplyPend(p)
    BY <2>1, <2>2, <2>4 DEF ApplyPend
  <2>5. CASE ApplyLock(p) \/ ApplyInstall(p) \/ ApplyInitramfs(p) \/ ApplyEnable(p)
    BY <2>1, <2>5 DEF ApplyLock, ApplyInstall, ApplyInitramfs, ApplyEnable
  <2> QED
    BY <1>2, <2>3, <2>4, <2>5 DEF Apply
<1>3. ASSUME NEW p \in Processes, Confirm(p) PROVE (Marked /\ Current)'
  <2>1. clean
    BY <1>3 DEF Confirm, ConfirmCheck, ConfirmMark, ConfirmUnpend, DisableGuard
  <2>2. CASE ConfirmCheck(p)
    BY <2>1, <2>2 DEF ConfirmCheck
  <2>3. CASE ConfirmMark(p)
    BY <2>1, <2>3 DEF ConfirmMark
  <2>4. CASE ConfirmUnpend(p)
    BY <2>1, <2>4 DEF ConfirmUnpend
  <2>5. CASE DisableGuard(p)
    BY <2>1, <2>5 DEF DisableGuard
  <2> QED
    BY <1>3, <2>2, <2>3, <2>4, <2>5 DEF Confirm
<1>4. ASSUME NEW p \in Processes, Rollback(p) PROVE (Marked /\ Current)'
  <2>1. clean /\ Clean
    BY <1>4 DEF Rollback, RollbackCheck, RollbackConfirmed, RollbackPlan, RollbackLock,
       RollbackRemove, RollbackInitramfs, RollbackUnpend, RollbackUnconfirm
  <2>2. CASE RollbackCheck(p)
    BY <2>1, <2>2 DEF RollbackCheck
  <2>3. CASE RollbackConfirmed(p)
    BY <2>1, <2>3 DEF RollbackConfirmed, Clean, Vouched
  <2>4. CASE RollbackPlan(p) \/ RollbackInitramfs(p)
    BY <2>1, <2>4 DEF RollbackPlan, RollbackInitramfs
  <2>7. CASE RollbackLock(p) \/ RollbackRemove(p)
    <3>1. pc[p] \in {"rollback_lock", "rollback_remove"} /\ pending /\ ~accepted
      BY <2>1, <2>7 DEF RollbackLock, RollbackRemove
    <3>2. remove[p] = Extra /\ before \subseteq baseline
      BY <2>1, <3>1 DEF Clean, Planned, Recorded, SomeActs, Acting
    <3>3. baseline \ Extra \subseteq installed /\ installed \subseteq baseline \cup Recommended
      BY <2>1 DEF Clean, Between
    <3>4. CASE RollbackLock(p)
      BY <2>1, <3>1, <3>2, <3>3, <3>4 DEF RollbackLock
    <3>5. CASE RollbackRemove(p)
      <4>1. Extra \cap installed = {} => installed = baseline \ Extra
        BY <3>2, <3>3
      <4> QED
        BY <2>1, <3>1, <3>2, <3>5, <4>1 DEF RollbackRemove
    <3> QED
      BY <2>7, <3>4, <3>5
  <2>5. CASE RollbackUnpend(p)
    BY <2>1, <2>5 DEF RollbackUnpend
  <2>6. CASE RollbackUnconfirm(p)
    <3>1. ~pending
      BY <2>1, <2>6 DEF RollbackUnconfirm, Clean, Settling
    <3> QED
      BY <2>1, <2>6, <3>1 DEF RollbackUnconfirm
  <2> QED
    BY <1>4, <2>2, <2>3, <2>4, <2>5, <2>6, <2>7 DEF Rollback
<1>5. CASE GuardWakes \/ TimerFires \/ GuardTimesOut \/ Login \/ SessionEnds
  <2>1. CASE GuardWakes
    BY <2>1 DEF GuardWakes
  <2>2. CASE TimerFires
    BY <2>2 DEF TimerFires
  <2>3. CASE GuardTimesOut
    BY <2>3 DEF GuardTimesOut
  <2>4. CASE Login
    BY <2>4 DEF Login
  <2>5. CASE SessionEnds
    BY <2>5 DEF SessionEnds
  <2> QED
    BY <1>5, <2>1, <2>2, <2>3, <2>4, <2>5
<1>6. CASE Boot
  BY <1>6 DEF Boot
<1>7. CASE UNCHANGED vars
  BY <1>7 DEF vars
<1> QED
  BY <1>1, <1>2, <1>3, <1>4, <1>5, <1>6, <1>7 DEF Next, Proceed, Environment

-----------------------------------------------------------------------------
(* Steps of the wizard are steps of the promise.                           *)

Base == IF pending THEN baseline ELSE installed
Kept == IF pending THEN before ELSE installed

LEMMA PromiseStutters ==
  ASSUME UNCHANGED <<installed, pending, accepted, baseline, clean>>,
         pending => UNCHANGED before
  PROVE  UNCHANGED Promise!vars
  BY DEF Promise!vars, SwitchPhase

LEMMA PromiseStep ==
  ASSUME Exclusive, IInv, IInv', OneAtATime, [Next]_vars
  PROVE  [Promise!Next]_(Promise!vars)
<1> USE DEF Promise!Next, Promise!vars
<1>1. CASE ~clean'
  <2>1. /\ SwitchPhase' = "void" /\ installed' \subseteq Packages /\ Base' \subseteq Packages
       /\ Kept' \subseteq Packages
    BY <1>1 DEF SwitchPhase, Base, Kept, IInv, TypeOK
  <2> QED
    BY <2>1 DEF Promise!Void, Base, Kept
<1>2. CASE clean'
  <2> USE <1>2
  <2>1. ASSUME NEW p \in Commands, Start(p) PROVE [Promise!Next]_(Promise!vars)
    <3>1. CASE StartApply(p)
      <4>1. ~pending /\ UNCHANGED <<pending, installed>>
        BY <3>1 DEF StartApply
      <4>2. CASE clean
        BY <4>1, <4>2 DEF SwitchPhase
      <4>3. CASE ~clean
        BY <4>1, <4>3 DEF SwitchPhase, Promise!Restart, Promise!Settle
      <4> QED
        BY <4>2, <4>3
    <3>2. CASE StartConfirm(p) \/ StartRollback(p)
      BY <3>2, PromiseStutters DEF StartConfirm, StartRollback, disk, history
    <3> QED
      BY <2>1, <3>1, <3>2 DEF Start
  <2>2. ASSUME NEW p \in Processes, Apply(p) PROVE [Promise!Next]_(Promise!vars)
    <3>1. clean /\ Clean
      BY <2>2 DEF Apply, ApplyRecord, ApplyTarget, ApplyUnconfirm, ApplyPend, ApplyLock,
         ApplyInstall, ApplyInitramfs, ApplyEnable, IInv, history
    <3>2. CASE \/ ApplyTarget(p) \/ ApplyUnconfirm(p) \/ ApplyLock(p)
               \/ ApplyInitramfs(p) \/ ApplyEnable(p)
      BY <3>2, PromiseStutters DEF ApplyTarget, ApplyUnconfirm, ApplyLock,
         ApplyInitramfs, ApplyEnable, disk, history
    <3>5. CASE ApplyRecord(p)
      <4>1. ~pending
        BY <3>1, <3>5 DEF ApplyRecord, Clean, EarlyAlone, Early
      <4> QED
        BY <3>5, <4>1, PromiseStutters DEF ApplyRecord, history
    <3>3. CASE ApplyPend(p)
      <4>1. ~pending /\ installed = baseline /\ ~accepted
        BY <3>1, <3>3 DEF ApplyPend, Clean, EarlyAlone, Early
      <4>2. before \subseteq baseline
        BY <3>1, <3>3 DEF ApplyPend, Clean, EarlyRecord
      <4> QED
        BY <3>1, <3>3, <4>1, <4>2 DEF ApplyPend, Promise!Stage, SwitchPhase
    <3>4. CASE ApplyInstall(p)
      <4>1. pc[p] = "apply_install" /\ UNCHANGED <<before, pending, accepted, baseline, clean>>
        BY <3>4 DEF ApplyInstall, history
      <4>2. pending
        BY <3>1, <4>1 DEF OneAtATime, Current, Installing
      <4>3. CASE UNCHANGED installed
        BY <4>1, <4>3, PromiseStutters
      <4>4. CASE installed \subseteq installed' /\ installed' \subseteq installed \cup Recommended
        BY <3>1, <4>1, <4>2, <4>4 DEF Promise!Install, SwitchPhase
      <4> QED
        BY <3>4, <4>3, <4>4 DEF ApplyInstall
    <3> QED
      BY <2>2, <3>2, <3>3, <3>4, <3>5 DEF Apply
  <2>3. ASSUME NEW p \in Processes, Confirm(p) PROVE [Promise!Next]_(Promise!vars)
    <3>1. clean /\ Clean
      BY <2>3 DEF Confirm, ConfirmCheck, ConfirmMark, ConfirmUnpend, DisableGuard, IInv,
         history
    <3>2. CASE ConfirmCheck(p) \/ DisableGuard(p)
      BY <3>2, PromiseStutters DEF ConfirmCheck, DisableGuard, disk, history
    <3>3. CASE ConfirmMark(p)
      BY <3>1, <3>3 DEF ConfirmMark, Promise!Confirm, SwitchPhase
    <3>4. CASE ConfirmUnpend(p)
      <4>1. accepted
        BY <3>1, <3>4 DEF ConfirmUnpend, Clean, Settling
      <4> QED
        BY <3>1, <3>4, <4>1 DEF ConfirmUnpend, Promise!Keep, Promise!Settle, SwitchPhase, history
    <3> QED
      BY <2>3, <3>2, <3>3, <3>4 DEF Confirm
  <2>4. ASSUME NEW p \in Processes, Rollback(p) PROVE [Promise!Next]_(Promise!vars)
    <3>1. clean /\ Clean
      BY <2>4 DEF Rollback, RollbackCheck, RollbackConfirmed, RollbackPlan,
         RollbackLock, RollbackRemove, RollbackInitramfs, RollbackUnpend,
         RollbackUnconfirm, IInv, history
    <3>2. CASE \/ RollbackCheck(p) \/ RollbackConfirmed(p) \/ RollbackPlan(p)
               \/ RollbackLock(p) \/ RollbackInitramfs(p) \/ RollbackUnconfirm(p)
      BY <3>2, PromiseStutters DEF RollbackCheck, RollbackConfirmed, RollbackPlan,
         RollbackLock, RollbackInitramfs, RollbackUnconfirm, disk, history
    <3>3. CASE RollbackRemove(p)
      <4>1. pc[p] = "rollback_remove" /\ UNCHANGED <<before, pending, accepted, baseline, clean>>
        BY <3>3 DEF RollbackRemove, history
      <4>2. pending /\ ~accepted
        BY <3>1, <4>1 DEF OneAtATime, Current
      <4>3. remove[p] = Recommended \ before
        BY <3>1, <4>1 DEF Clean, Planned, Extra
      <4>4. CASE UNCHANGED installed
        BY <4>1, <4>4, PromiseStutters
      <4>5. ASSUME NEW pkg \in remove[p], installed' = installed \ {pkg}
            PROVE  [Promise!Next]_(Promise!vars)
        BY <3>1, <4>1, <4>2, <4>3, <4>5 DEF Promise!Remove, SwitchPhase
      <4> QED
        BY <3>3, <4>4, <4>5 DEF RollbackRemove
    <3>4. CASE RollbackUnpend(p)
      <4>1. pending /\ (accepted \/ installed = baseline \ (Recommended \ before))
        BY <3>1, <3>4 DEF RollbackUnpend, OneAtATime, Current, Extra
      <4> QED
        BY <3>1, <3>4, <4>1 DEF RollbackUnpend, Promise!Keep, Promise!RolledBack,
           Promise!Settle, SwitchPhase, history
    <3> QED
      BY <2>4, <3>2, <3>3, <3>4 DEF Rollback
  <2>5. CASE Environment
    BY <2>5, PromiseStutters DEF Environment, GuardWakes, GuardTimesOut, Login,
       SessionEnds, TimerFires, Boot, disk, history
  <2>6. CASE UNCHANGED vars
    BY <2>6, PromiseStutters DEF vars, disk, history
  <2> QED
    BY <2>1, <2>2, <2>3, <2>4, <2>5, <2>6 DEF Next, Proceed
<1> QED
  BY <1>1, <1>2

(* When commands run one at a time, and however they fail or are cut       *)
(* short, a switch is confirmed with what it installed or rolled back to   *)
(* what it recorded of its baseline (all of it, when the query behind the  *)
(* record answered in full), and nothing else happens to the packages.     *)
THEOREM WizardKeepsPromise == Exclusive /\ Spec => KeepsPromise
<1> SUFFICES ASSUME Exclusive PROVE Spec => KeepsPromise
  OBVIOUS
<1>1. Init => Promise!Init
  BY DEF Init, Promise!Init, SwitchPhase
<1>2. IInv /\ OneAtATime /\ [Next]_vars => OneAtATime'
  BY AloneStep, CurrentStep DEF OneAtATime
<1>3. IInv /\ IInv' /\ OneAtATime /\ [Next]_vars =>
        [Promise!Next]_(Promise!vars)
  BY PromiseStep
<1> QED
  BY <1>1, <1>2, <1>3, AloneInit, Inductive, PTL DEF Spec, KeepsPromise, Promise!Spec
=============================================================================
