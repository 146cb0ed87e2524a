------------------------- MODULE DriverWizardProofs -------------------------
(***************************************************************************)
(* Proofs about DriverWizard, for every set of processes, packages and     *)
(* faults.  The argument: an apply that begins in a quiet system is alone  *)
(* until it writes `pending` (EarlyAlone); from then on whoever acts on    *)
(* the switch reads the record of this very switch (Recorded), which lists *)
(* nothing but the baseline, so what a rollback plans holds everything the *)
(* switch adds and nothing the record lists (Planned); pacman's lock and   *)
(* its refusal to remove what is not installed keep a rollback from        *)
(* passing an install that is still to come and adds something             *)
(* (RemoveAfterInstall, Undone).                                           *)
(***************************************************************************)
EXTENDS DriverWizard, TLAPS

\* What the latest switch adds to its baseline, and what a rollback of it removes: the same
\* when its record is whole.
New   == Recommended \ baseline
Extra == Recommended \ before

\* Steps of an apply that has not written `pending` yet, and those that may still install.
Early      == {"apply_record", "apply_target", "apply_unconfirm", "apply_pend"}
Installing == {"apply_lock", "apply_install"}

\* Steps of a confirm or a rollback that has seen `pending`.
Acting == {"confirm_mark", "confirm_unpend", "confirm_disable",
           "rollback_confirmed", "rollback_plan", "rollback_lock", "rollback_remove",
           "rollback_initramfs", "rollback_unpend", "rollback_unconfirm",
           "rollback_disable"}

SomeActs == \E q \in Processes : pc[q] \in Acting

OneApply ==
  \A p, q \in Processes : pc[p] \in ApplySteps /\ pc[q] \in ApplySteps => p = q

EarlyAlone ==
  \A p \in Processes : pc[p] \in Early =>
    ~pending /\ ~SomeActs /\ installed = baseline /\ ~accepted /\ ~staged

EarlyRecord ==
  \A p \in Processes :
    /\ pc[p] \in {"apply_target", "apply_unconfirm", "apply_pend"} => before \subseteq baseline
    /\ pc[p] \in {"apply_unconfirm", "apply_pend"} => target = Recommended
    /\ pc[p] = "apply_pend" => ~confirmed

Recorded == pending \/ SomeActs => before \subseteq baseline /\ target = Recommended

Planned ==
  \A p \in Processes :
    pc[p] \in {"rollback_lock", "rollback_remove"} => remove[p] = Extra

Between == baseline \ Extra \subseteq installed /\ installed \subseteq baseline \cup Recommended

InstallTracked ==
  \A p \in Processes :
    /\ pc[p] \in Installing => pending \/ accepted \/ New = {}
    /\ pc[p] = "apply_lock" => installed \subseteq baseline

Transactions == {"apply_install", "rollback_remove"}

Locked ==
  \A p, q \in Processes : pc[p] \in Transactions /\ pc[q] \in Transactions => p = q /\ dbLock

RemoveAfterInstall ==
  \A p, q \in Processes : pc[p] = "rollback_remove" => New = {} \/ pc[q] \notin Installing

Undone ==
  \A p \in Processes : pc[p] \in {"rollback_initramfs", "rollback_unpend"} =>
    \/ accepted
    \/ /\ New \cap installed = {}
       /\ New = {} \/ \A q \in Processes : pc[q] \notin Installing

Settling ==
  \A p \in Processes :
    /\ pc[p] \in {"confirm_unpend", "confirm_disable"} => accepted
    /\ pc[p] \in {"rollback_unconfirm", "rollback_disable"} => ~pending

Vouched == confirmed /\ (pending \/ SomeActs) => accepted

Tracked == ~pending /\ ~accepted => installed \subseteq baseline

Armed == staged /\ pending /\ ~accepted => guardEnabled

Clean ==
  /\ OneApply /\ EarlyAlone /\ EarlyRecord /\ Recorded /\ Planned /\ Between
  /\ InstallTracked /\ Locked /\ RemoveAfterInstall /\ Undone /\ Settling /\ Vouched
  /\ Tracked /\ Armed

IInv == TypeOK /\ (clean => Clean)

-----------------------------------------------------------------------------

LEMMA InitIInv == Init => IInv
<1> SUFFICES ASSUME Init PROVE IInv
  OBVIOUS
<1> USE WizardAssumption DEF Init
<1>1. TypeOK
  BY DEF TypeOK, Steps, Quiet
<1>2. \A p \in Processes : pc[p] = "idle"
  OBVIOUS
<1>3. Clean
  BY <1>2 DEF Clean, OneApply, EarlyAlone, EarlyRecord, Recorded, Planned, Between,
              InstallTracked, RemoveAfterInstall, Undone, Settling, Vouched, Tracked,
              Armed, SomeActs, New, Extra, Locked, Transactions, Early, Installing, Acting, ApplySteps
<1>4. QED
  BY <1>1, <1>3 DEF IInv

LEMMA TypeStep == TypeOK /\ [Next]_vars => TypeOK'
<1> SUFFICES ASSUME TypeOK, [Next]_vars PROVE TypeOK'
  OBVIOUS
<1> USE WizardAssumption
    DEF TypeOK, Goto, Steps, Quiet, ApplySteps, ConfirmSteps, RollbackSteps, Processes,
        disk, machine, history
<1>1. ASSUME NEW p \in Commands, Start(p) PROVE TypeOK'
  <2>1. CASE StartApply(p)
    <3>1. clean' \in BOOLEAN
      BY <2>1, Zenon DEF StartApply
    <3>2. /\ UNCHANGED <<installed, dbLock, target, pending, confirmed, guardEnabled>>
          /\ UNCHANGED <<remove, machine, thisBoot>>
          /\ before' = {} /\ applies' = applies + 1
          /\ baseline' = baseline \/ baseline' = installed
          /\ pc' = [pc EXCEPT ![p] = "apply_record"]
          /\ accepted' = FALSE /\ staged' = FALSE
      BY <2>1, Zenon DEF StartApply, Goto
    <3>3. /\ installed' \subseteq Packages /\ before' \subseteq Packages
          /\ target' \subseteq Packages /\ running' \subseteq Packages
          /\ baseline' \subseteq Packages
      BY <3>2
    <3>4. /\ dbLock' \in BOOLEAN /\ pending' \in BOOLEAN /\ confirmed' \in BOOLEAN
          /\ guardEnabled' \in BOOLEAN /\ session' \in BOOLEAN /\ accepted' \in BOOLEAN
          /\ staged' \in BOOLEAN /\ thisBoot' \in BOOLEAN
      BY <3>2
    <3>5. pc' \in [Processes -> Steps] /\ remove' \in [Processes -> SUBSET Packages]
      BY <3>2
    <3>6. boot' \in Nat /\ applies' \in Nat
      BY <3>2
    <3>7. QED
      BY <3>1, <3>3, <3>4, <3>5, <3>6, Zenon
  <2>2. CASE StartConfirm(p)
    BY <2>2 DEF StartConfirm
  <2>3. CASE StartRollback(p)
    BY <2>3 DEF StartRollback
  <2>4. QED
    BY <1>1, <2>1, <2>2, <2>3 DEF Start
<1>2. ASSUME NEW p \in Processes, Apply(p) PROVE TypeOK'
  <2>1. CASE ApplyRecord(p)
    BY <2>1 DEF ApplyRecord
  <2>2. CASE ApplyTarget(p)
    BY <2>2 DEF ApplyTarget
  <2>3. CASE ApplyUnconfirm(p)
    BY <2>3 DEF ApplyUnconfirm
  <2>4. CASE ApplyPend(p)
    BY <2>4 DEF ApplyPend
  <2>5. CASE ApplyLock(p)
    BY <2>5 DEF ApplyLock
  <2>6. CASE ApplyInstall(p)
    BY <2>6 DEF ApplyInstall
  <2>7. CASE ApplyInitramfs(p)
    BY <2>7 DEF ApplyInitramfs
  <2>8. CASE ApplyEnable(p)
    BY <2>8 DEF ApplyEnable
  <2>9. QED
    BY <1>2, <2>1, <2>2, <2>3, <2>4, <2>5, <2>6, <2>7, <2>8 DEF Apply
<1>3. ASSUME NEW p \in Processes, Confirm(p) PROVE TypeOK'
  <2>1. CASE ConfirmCheck(p)
    BY <2>1 DEF ConfirmCheck
  <2>2. CASE ConfirmMark(p)
    BY <2>2 DEF ConfirmMark
  <2>3. CASE ConfirmUnpend(p)
    BY <2>3 DEF ConfirmUnpend
  <2>4. CASE DisableGuard(p)
    BY <2>4 DEF DisableGuard
  <2>5. QED
    BY <1>3, <2>1, <2>2, <2>3, <2>4 DEF Confirm
<1>4. ASSUME NEW p \in Processes, Rollback(p) PROVE TypeOK'
  <2>1. CASE RollbackCheck(p)
    BY <2>1 DEF RollbackCheck
  <2>2. CASE RollbackConfirmed(p)
    BY <2>2 DEF RollbackConfirmed
  <2>3. CASE RollbackPlan(p)
    BY <2>3 DEF RollbackPlan
  <2>4. CASE RollbackLock(p)
    BY <2>4 DEF RollbackLock
  <2>5. CASE RollbackRemove(p)
    BY <2>5 DEF RollbackRemove
  <2>6. CASE RollbackInitramfs(p)
    BY <2>6 DEF RollbackInitramfs
  <2>7. CASE RollbackUnpend(p)
    BY <2>7 DEF RollbackUnpend
  <2>8. CASE RollbackUnconfirm(p)
    BY <2>8 DEF RollbackUnconfirm
  <2>9. QED
    BY <1>4, <2>1, <2>2, <2>3, <2>4, <2>5, <2>6, <2>7, <2>8 DEF Rollback
<1>5. CASE Environment
  <2>1. CASE GuardWakes
    BY <2>1 DEF GuardWakes
  <2>2. CASE GuardTimesOut
    BY <2>2 DEF GuardTimesOut
  <2>3. CASE Login
    BY <2>3 DEF Login
  <2>4. CASE SessionEnds
    BY <2>4 DEF SessionEnds
  <2>5. CASE TimerFires
    BY <2>5 DEF TimerFires
  <2>6. CASE Boot
    <3>1. pc' \in [Processes -> Steps]
      BY <2>6 DEF Boot
    <3>2. dbLock' \in BOOLEAN
      BY <2>6, Zenon DEF Boot
    <3>3. remove' \in [Processes -> SUBSET Packages]
      BY <2>6 DEF Boot
    <3>4. /\ UNCHANGED <<installed, before, target, pending, confirmed, guardEnabled>>
          /\ UNCHANGED <<applies, clean, baseline, accepted, staged>>
          /\ boot' = boot + 1 /\ session' = FALSE /\ thisBoot' = FALSE
          /\ running' = installed
      BY <2>6, Zenon DEF Boot
    <3>5. /\ installed' \subseteq Packages /\ before' \subseteq Packages
          /\ target' \subseteq Packages /\ running' \subseteq Packages
          /\ baseline' \subseteq Packages
      BY <3>4
    <3>6. /\ pending' \in BOOLEAN /\ confirmed' \in BOOLEAN /\ guardEnabled' \in BOOLEAN
          /\ clean' \in BOOLEAN /\ accepted' \in BOOLEAN /\ staged' \in BOOLEAN
          /\ session' \in BOOLEAN /\ thisBoot' \in BOOLEAN
      BY <3>4
    <3>7. boot' \in Nat /\ applies' \in Nat
      BY <3>4
    <3>8. QED
      BY <3>1, <3>2, <3>3, <3>5, <3>6, <3>7, Zenon
  <2>7. QED
    BY <1>5, <2>1, <2>2, <2>3, <2>4, <2>5, <2>6 DEF Environment
<1>6. CASE UNCHANGED vars
  BY <1>6 DEF vars
<1>7. QED
  BY <1>1, <1>2, <1>3, <1>4, <1>5, <1>6 DEF Next, Proceed

\* Only an apply changes `clean`: one that begins in a quiet system establishes Clean,
\* whatever went before, and every other step preserves it.
LEMMA CleanStep == TypeOK /\ (clean => Clean) /\ [Next]_vars => (clean => Clean)'
<1> SUFFICES ASSUME TypeOK, clean => Clean, [Next]_vars, clean' PROVE Clean'
  OBVIOUS
<1> USE WizardAssumption
    DEF TypeOK, Goto, Steps, Quiet, ApplySteps, ConfirmSteps, RollbackSteps, Processes,
        disk, machine, history, NoneRunning, Clean, OneApply, EarlyAlone, EarlyRecord,
        Recorded, Planned, Between, InstallTracked, RemoveAfterInstall, Undone, Settling,
        Vouched, Tracked, Armed, SomeActs, New, Extra, Locked, Transactions, Early, Installing, Acting
<1>1. ASSUME NEW p \in Commands, Start(p) PROVE Clean'
  <2>1. CASE StartApply(p)
    BY <2>1 DEF StartApply
  <2>2. CASE StartConfirm(p)
    BY <2>2 DEF StartConfirm
  <2>3. CASE StartRollback(p)
    BY <2>3 DEF StartRollback
  <2>4. QED
    BY <1>1, <2>1, <2>2, <2>3 DEF Start
<1>2. ASSUME NEW p \in Processes, Apply(p) PROVE Clean'
  <2>1. CASE ApplyRecord(p)
    BY <2>1 DEF ApplyRecord
  <2>2. CASE ApplyTarget(p)
    BY <2>2 DEF ApplyTarget
  <2>3. CASE ApplyUnconfirm(p)
    BY <2>3 DEF ApplyUnconfirm
  <2>4. CASE ApplyPend(p)
    BY <2>4 DEF ApplyPend
  <2>5. CASE ApplyLock(p)
    BY <2>5 DEF ApplyLock
  <2>6. CASE ApplyInstall(p)
    BY <2>6 DEF ApplyInstall
  <2>7. CASE ApplyInitramfs(p)
    BY <2>7 DEF ApplyInitramfs
  <2>8. CASE ApplyEnable(p)
    BY <2>8 DEF ApplyEnable
  <2>9. QED
    BY <1>2, <2>1, <2>2, <2>3, <2>4, <2>5, <2>6, <2>7, <2>8 DEF Apply
<1>3. ASSUME NEW p \in Processes, Confirm(p) PROVE Clean'
  <2>1. CASE ConfirmCheck(p)
    BY <2>1 DEF ConfirmCheck
  <2>2. CASE ConfirmMark(p)
    BY <2>2 DEF ConfirmMark
  <2>3. CASE ConfirmUnpend(p)
    BY <2>3 DEF ConfirmUnpend
  <2>4. CASE DisableGuard(p)
    BY <2>4 DEF DisableGuard
  <2>5. QED
    BY <1>3, <2>1, <2>2, <2>3, <2>4 DEF Confirm
<1>4. ASSUME NEW p \in Processes, Rollback(p) PROVE Clean'
  <2>1. CASE RollbackCheck(p)
    BY <2>1 DEF RollbackCheck
  <2>2. CASE RollbackConfirmed(p)
    BY <2>2 DEF RollbackConfirmed
  <2>3. CASE RollbackPlan(p)
    BY <2>3 DEF RollbackPlan
  <2>4. CASE RollbackLock(p)
    BY <2>4 DEF RollbackLock
  <2>5. CASE RollbackRemove(p)
    <3>1. ASSUME NEW pkg \in remove[p] \cap installed,
                 installed' = installed \ {pkg}, UNCHANGED pc, UNCHANGED remove
          PROVE  Clean'
      BY <2>5, <3>1 DEF RollbackRemove
    <3>2. CASE remove[p] \cap installed = {} /\ ~dbLock' /\ UNCHANGED installed
      <4>1. /\ pc[p] = "rollback_remove"
            /\ pc' = [pc EXCEPT ![p] = "rollback_initramfs"]
            /\ remove' = [remove EXCEPT ![p] = {}]
            /\ UNCHANGED <<installed, before, target, pending, confirmed, guardEnabled>>
            /\ UNCHANGED <<applies, clean, baseline, accepted, staged, thisBoot>>
        BY <2>5, <3>2 DEF RollbackRemove
      <4>2. before \subseteq baseline /\ target = Recommended /\ remove[p] = Extra
        BY <4>1
      <4>3. New \cap installed = {} /\ (New = {} \/ \A q \in Processes : pc[q] \notin Installing)
        BY <3>2, <4>1, <4>2
      <4>4. \A q \in Processes : q # p => pc'[q] = pc[q] /\ remove'[q] = remove[q]
        BY <4>1
      <4>5. pc'[p] = "rollback_initramfs"
        BY <4>1
      <4>6. Undone'
        BY <4>1, <4>3, <4>4, <4>5
      <4>7. /\ OneApply' /\ EarlyAlone' /\ EarlyRecord' /\ Recorded' /\ Planned' /\ Between'
        BY <4>1, <4>2, <4>4, <4>5
      <4>8. /\ InstallTracked' /\ Locked' /\ RemoveAfterInstall' /\ Settling' /\ Vouched'
            /\ Tracked' /\ Armed'
        BY <3>2, <4>1, <4>3, <4>4, <4>5
      <4> QED
        BY <4>6, <4>7, <4>8
    <3>3. QED
      BY <2>5, <3>1, <3>2 DEF RollbackRemove
  <2>6. CASE RollbackInitramfs(p)
    BY <2>6 DEF RollbackInitramfs
  <2>7. CASE RollbackUnpend(p)
    BY <2>7 DEF RollbackUnpend
  <2>8. CASE RollbackUnconfirm(p)
    BY <2>8 DEF RollbackUnconfirm
  <2>9. QED
    BY <1>4, <2>1, <2>2, <2>3, <2>4, <2>5, <2>6, <2>7, <2>8 DEF Rollback
<1>5. CASE Environment
  <2>1. CASE GuardWakes
    BY <2>1 DEF GuardWakes
  <2>2. CASE GuardTimesOut
    <3>1. /\ pc[Guard] \in RollbackSteps
          /\ pc' = [pc EXCEPT ![Guard] = "idle"]
          /\ remove' = [remove EXCEPT ![Guard] = {}]
          /\ UNCHANGED <<installed, before, target, pending, confirmed, guardEnabled>>
          /\ UNCHANGED <<applies, clean, baseline, accepted, staged, thisBoot>>
          /\ pc[Guard] # "rollback_remove" => dbLock' = dbLock
      BY <2>2 DEF GuardTimesOut
    <3>2. \A q \in Processes : q # Guard => pc'[q] = pc[q] /\ remove'[q] = remove[q]
      BY <3>1
    <3>3. pc'[Guard] = "idle"
      BY <3>1
    <3>4. /\ OneApply' /\ EarlyAlone' /\ EarlyRecord' /\ Recorded' /\ Planned' /\ Between'
      BY <3>1, <3>2, <3>3
    <3>5. Locked' /\ InstallTracked'
      BY <3>1, <3>2, <3>3
    <3>6. RemoveAfterInstall' /\ Undone' /\ Settling' /\ Vouched' /\ Tracked' /\ Armed'
      BY <3>1, <3>2, <3>3
    <3> QED
      BY <3>4, <3>5, <3>6
  <2>3. CASE Login
    BY <2>3 DEF Login
  <2>4. CASE SessionEnds
    BY <2>4 DEF SessionEnds
  <2>5. CASE TimerFires
    BY <2>5 DEF TimerFires
  <2>6. CASE Boot
    BY <2>6 DEF Boot
  <2>7. QED
    BY <1>5, <2>1, <2>2, <2>3, <2>4, <2>5, <2>6 DEF Environment
<1>6. CASE UNCHANGED vars
  BY <1>6 DEF vars
<1>7. QED
  BY <1>1, <1>2, <1>3, <1>4, <1>5, <1>6 DEF Next, Proceed

-----------------------------------------------------------------------------

\* Every variable keeps its type in every behaviour, whatever is interleaved or cut short.
THEOREM TypeCorrect == Spec => []TypeOK
<1>1. Init => TypeOK
  BY InitIInv DEF IInv
<1>2. QED
  BY <1>1, TypeStep, PTL DEF Spec

\* The inductive invariant behind the theorems below.
THEOREM Inductive == Spec => []IInv
<1>1. IInv /\ [Next]_vars => IInv'
  BY TypeStep, CleanStep DEF IInv
<1>2. QED
  BY InitIInv, <1>1, PTL DEF Spec

\* A switch begun in a quiet system never slips out of the books.
THEOREM SwitchTracked == Spec => []SwitchIsTracked
<1>1. IInv => SwitchIsTracked
  BY DEF IInv, Clean, Tracked, SwitchIsTracked
<1>2. QED
  BY <1>1, Inductive, PTL

\* A stale confirmation never vouches for a new switch.
THEOREM FreshNotConfirmed == Spec => []FreshSwitchNotConfirmed
<1>1. IInv => FreshSwitchNotConfirmed
  BY DEF IInv, Clean, Vouched, FreshSwitchNotConfirmed
<1>2. QED
  BY <1>1, Inductive, PTL

\* No rollback removes a package of the baseline that the switch has recorded, or that it
\* is not about: all of the baseline, when the query behind the record answered in full.
THEOREM KeepsBaseline == Spec => []BaselineKept
<1>1. IInv => BaselineKept
  BY DEF IInv, Clean, Between, Extra, BaselineKept
<1>2. QED
  BY <1>1, Inductive, PTL

\* A staged switch keeps its guard until it is confirmed or undone.
THEOREM StagedIsGuarded == Spec => []GuardArmed
<1>1. IInv => GuardArmed
  BY DEF IInv, Clean, Armed, GuardArmed
<1>2. QED
  BY <1>1, Inductive, PTL
=============================================================================
