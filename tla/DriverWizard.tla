---------------------------- MODULE DriverWizard ----------------------------
(***************************************************************************)
(* The Driver Wizard: `unexusctl driver-apply`, `driver-confirm` and       *)
(* `driver-rollback` (scripts/unexusctl.sh), the systemd guard that runs   *)
(* the rollback 180 s after a boot, and the subshell of unexus-session     *)
(* that confirms a switch 20 s after the shell came up.                    *)
(*                                                                         *)
(* The three commands share a state directory and take no lock, so they    *)
(* are modelled one file operation or one external command per step, by    *)
(* the processes that run them: Commands (shells of root, started from the *)
(* panel, the launcher or a terminal), Guard (the systemd unit) and Timer  *)
(* (the session's subshell, which is not root).  A boot may cut any of     *)
(* them short.  Clocks are left out: the guard's sleep and the session's   *)
(* end whenever they end.                                                  *)
(***************************************************************************)
EXTENDS Naturals, FiniteSets

CONSTANTS
  Commands,        \* processes a user may start as root
  Guard, Timer,    \* the boot guard's and the session timer's processes
  Packages,        \* package names
  Factory,         \* the packages of the freshly installed system
  Recommended,     \* recommended_driver_packages of this machine's GPU
  Broken,          \* packages with which no graphical session comes up
  Uses,            \* the commands users issue, among "apply", "confirm", "rollback"
  Faults,          \* what may go wrong, among AllFaults
  GuardHome,       \* does the service manager give the guard a HOME?
  Exclusive,       \* does a command start only when no other one is running?
  MaxApplies,      \* bound on driver-apply runs
  MaxBoots         \* bound on boots

\* "query", "install" and "remove" are the three uses of pacman (-Qq, -S and -Rns).
AllFaults == {"query", "install", "remove", "mkinitcpio", "systemctl", "crash", "timeout"}

Processes == Commands \cup {Guard, Timer}

ASSUME WizardAssumption ==
  /\ Guard # Timer /\ Guard \notin Commands /\ Timer \notin Commands
  /\ Factory \subseteq Packages
  /\ Recommended \subseteq Packages
  /\ Broken \subseteq Packages
  /\ GuardHome \in BOOLEAN /\ Exclusive \in BOOLEAN
  /\ MaxApplies \in Nat /\ MaxBoots \in Nat

VARIABLES
  installed,       \* pacman's database
  dbLock,          \* pacman's db.lck; a crash may leave it behind
  before,          \* packages-before ({} when missing or truncated)
  target,          \* packages-target
  pending,         \* does the file `pending` exist?
  confirmed,       \* does the file `confirmed` exist?
  guardEnabled,    \* is unexus-driver-rollback.service enabled?
  pc,              \* the step each process is at
  remove,          \* packages_to_remove of each process
  session,         \* is unexus-shell up?
  running,         \* the packages the running system booted with
  boot,            \* number of the running boot
  \* History, read by properties only:
  applies,         \* driver-apply runs so far
  clean,           \* the latest apply began with no switch pending and no command running
  baseline,        \* packages installed when the latest switch began
  accepted,        \* has the latest switch been confirmed?
  staged,          \* has driver-apply reported "Driver switch staged" for it?
  thisBoot         \* did it become pending in the running boot?

disk    == <<installed, dbLock, before, target, pending, confirmed, guardEnabled>>
machine == <<session, running, boot>>
history == <<applies, clean, baseline, accepted, staged, thisBoot>>
vars    == <<disk, pc, remove, machine, history>>

ApplySteps    == {"apply_record", "apply_target", "apply_unconfirm", "apply_pend",
                  "apply_lock", "apply_install", "apply_initramfs", "apply_enable"}
ConfirmSteps  == {"confirm_check", "confirm_mark", "confirm_unpend", "confirm_disable"}
RollbackSteps == {"rollback_check", "rollback_confirmed", "rollback_plan",
                  "rollback_lock", "rollback_remove", "rollback_initramfs",
                  "rollback_unpend", "rollback_unconfirm", "rollback_disable"}
\* A process that has not touched the state directory yet: no unexusctl, or one asleep.
Quiet == {"idle", "guard_sleep", "timer_wait"}
Steps == Quiet \cup ApplySteps \cup ConfirmSteps \cup RollbackSteps

NoneRunning == \A p \in Processes : pc[p] \in Quiet
MayStart    == Exclusive => NoneRunning

Goto(p, step) == pc' = [pc EXCEPT ![p] = step]
MayFail(f)    == f \in Faults

TypeOK ==
  /\ installed \subseteq Packages /\ before \subseteq Packages /\ target \subseteq Packages
  /\ running \subseteq Packages /\ baseline \subseteq Packages
  /\ dbLock \in BOOLEAN /\ pending \in BOOLEAN /\ confirmed \in BOOLEAN
  /\ guardEnabled \in BOOLEAN /\ session \in BOOLEAN
  /\ clean \in BOOLEAN /\ accepted \in BOOLEAN /\ staged \in BOOLEAN /\ thisBoot \in BOOLEAN
  /\ pc \in [Processes -> Steps]
  /\ remove \in [Processes -> SUBSET Packages]
  /\ boot \in Nat /\ applies \in Nat

Init ==
  /\ installed = Factory /\ running = Factory /\ baseline = Factory
  /\ before = {} /\ target = {}
  /\ dbLock = FALSE /\ pending = FALSE /\ confirmed = FALSE /\ guardEnabled = FALSE
  /\ pc = [p \in Processes |-> "idle"]
  /\ remove = [p \in Processes |-> {}]
  /\ session = FALSE /\ boot = 0
  /\ applies = 0 /\ clean = TRUE /\ accepted = FALSE /\ staged = FALSE /\ thisBoot = FALSE

-----------------------------------------------------------------------------
(* driver-apply --yes.  Its early returns (no --yes, no pacman, unmapped   *)
(* GPU) change nothing; what is left begins by truncating packages-before. *)

StartApply(p) ==
  /\ "apply" \in Uses /\ pc[p] = "idle" /\ MayStart
  /\ Recommended # {}
  /\ applies < MaxApplies
  /\ before' = {}
  /\ Goto(p, "apply_record")
  /\ applies' = applies + 1
  /\ clean' = (~pending /\ NoneRunning)
  /\ baseline' = IF pending THEN baseline ELSE installed
  /\ accepted' = FALSE /\ staged' = FALSE
  /\ UNCHANGED <<installed, dbLock, target, pending, confirmed, guardEnabled,
                 remove, machine, thisBoot>>

\* installed_packages hides the errors of pacman -Qq: when the query fails, what it had
\* printed, or nothing, becomes the record, and the apply goes on.
ApplyRecord(p) ==
  /\ pc[p] = "apply_record"
  /\ \/ before' = installed
     \/ MayFail("query") /\ before' \in SUBSET installed
  /\ Goto(p, "apply_target")
  /\ UNCHANGED <<installed, dbLock, target, pending, confirmed, guardEnabled,
                 remove, machine, history>>

\* Fault for TypeOK: the flags of the pacman call end up in the recorded target.
ApplyTargetWithFlags(p) ==
  /\ pc[p] = "apply_target"
  /\ target' = Recommended \cup {"--needed"}
  /\ Goto(p, "apply_unconfirm")
  /\ UNCHANGED <<installed, dbLock, before, pending, confirmed, guardEnabled,
                 remove, machine, history>>

ApplyTarget(p) ==
  /\ pc[p] = "apply_target"
  /\ target' = Recommended
  /\ Goto(p, "apply_unconfirm")
  /\ UNCHANGED <<installed, dbLock, before, pending, confirmed, guardEnabled,
                 remove, machine, history>>

\* Fault for FreshSwitchNotConfirmed: an old `confirmed` is left in place.
ApplyUnconfirmSkipped(p) ==
  /\ pc[p] = "apply_unconfirm"
  /\ Goto(p, "apply_pend")
  /\ UNCHANGED <<disk, remove, machine, history>>

ApplyUnconfirm(p) ==
  /\ pc[p] = "apply_unconfirm"
  /\ confirmed' = FALSE
  /\ Goto(p, "apply_pend")
  /\ UNCHANGED <<installed, dbLock, before, target, pending, guardEnabled,
                 remove, machine, history>>

ApplyPend(p) ==
  /\ pc[p] = "apply_pend"
  /\ pending' = TRUE /\ thisBoot' = TRUE
  /\ Goto(p, "apply_lock")
  /\ UNCHANGED <<installed, dbLock, before, target, confirmed, guardEnabled, remove,
                 machine, applies, clean, baseline, accepted, staged>>

(* The group `{ pacman; mkinitcpio; systemctl enable; } || ...` runs with  *)
(* errexit off: a failing pacman or mkinitcpio does not end it, and only   *)
(* the status of systemctl enable decides what driver-apply reports.       *)
ApplyLock(p) ==
  /\ pc[p] = "apply_lock"
  /\ \/ ~dbLock /\ dbLock' = TRUE /\ Goto(p, "apply_install")
     \/ (dbLock \/ MayFail("install")) /\ Goto(p, "apply_initramfs") /\ UNCHANGED dbLock
  /\ UNCHANGED <<installed, before, target, pending, confirmed, guardEnabled,
                 remove, machine, history>>

\* One package of the transaction at a time: a crash leaves a part of them installed.
ApplyInstall(p) ==
  /\ pc[p] = "apply_install"
  /\ \/ \E pkg \in Recommended \ installed :
          /\ installed' = installed \cup {pkg}
          /\ UNCHANGED <<dbLock, pc>>
     \/ /\ Recommended \subseteq installed
        /\ dbLock' = FALSE
        /\ Goto(p, "apply_initramfs")
        /\ UNCHANGED installed
  /\ UNCHANGED <<before, target, pending, confirmed, guardEnabled, remove,
                 machine, history>>

ApplyInitramfs(p) ==
  /\ pc[p] = "apply_initramfs"
  /\ Goto(p, "apply_enable")
  /\ UNCHANGED <<disk, remove, machine, history>>

\* Fault for GuardArmed: a failing `systemctl enable` is ignored.
ApplyEnableIgnored(p) ==
  /\ pc[p] = "apply_enable"
  /\ Goto(p, "idle")
  /\ staged' = TRUE
  /\ \/ guardEnabled' = TRUE
     \/ MayFail("systemctl") /\ UNCHANGED guardEnabled
  /\ UNCHANGED <<installed, dbLock, before, target, pending, confirmed, remove,
                 machine, applies, clean, baseline, accepted, thisBoot>>

ApplyEnable(p) ==
  /\ pc[p] = "apply_enable"
  /\ Goto(p, "idle")
  /\ \/ guardEnabled' = TRUE /\ staged' = TRUE
     \/ MayFail("systemctl") /\ UNCHANGED <<guardEnabled, staged>>
  /\ UNCHANGED <<installed, dbLock, before, target, pending, confirmed, remove,
                 machine, applies, clean, baseline, accepted, thisBoot>>

-----------------------------------------------------------------------------
(* driver-confirm: manual (as root) or --boot (by the session, not root).  *)

StartConfirm(p) ==
  /\ "confirm" \in Uses /\ pc[p] = "idle" /\ MayStart
  /\ Goto(p, "confirm_check")
  /\ UNCHANGED <<disk, remove, machine, history>>

ConfirmCheck(p) ==
  /\ pc[p] = "confirm_check"
  /\ Goto(p, IF pending THEN "confirm_mark" ELSE "idle")
  /\ UNCHANGED <<disk, remove, machine, history>>

ConfirmMark(p) ==
  /\ pc[p] = "confirm_mark"
  /\ confirmed' = TRUE /\ accepted' = TRUE
  /\ Goto(p, "confirm_unpend")
  /\ UNCHANGED <<installed, dbLock, before, target, pending, guardEnabled, remove,
                 machine, applies, clean, baseline, staged, thisBoot>>

\* The state directory is sticky and `pending` is root's: the session's rm fails, unseen.
ConfirmUnpend(p) ==
  /\ pc[p] = "confirm_unpend"
  /\ IF p = Timer
       THEN Goto(p, "idle") /\ UNCHANGED pending
       ELSE Goto(p, "confirm_disable") /\ pending' = FALSE
  /\ UNCHANGED <<installed, dbLock, before, target, confirmed, guardEnabled, remove,
                 machine, history>>

\* The last step of driver-confirm and of driver-rollback; a failing systemctl is ignored.
DisableGuard(p) ==
  /\ pc[p] \in {"confirm_disable", "rollback_disable"}
  /\ \/ guardEnabled' = FALSE
     \/ MayFail("systemctl") /\ UNCHANGED guardEnabled
  /\ Goto(p, "idle")
  /\ UNCHANGED <<installed, dbLock, before, target, pending, confirmed, remove,
                 machine, history>>

-----------------------------------------------------------------------------
(* driver-rollback: manual, or --boot by the guard.                        *)

StartRollback(p) ==
  /\ "rollback" \in Uses /\ pc[p] = "idle" /\ MayStart
  /\ Goto(p, "rollback_check")
  /\ UNCHANGED <<disk, remove, machine, history>>

RollbackCheck(p) ==
  /\ pc[p] = "rollback_check"
  /\ Goto(p, IF pending THEN "rollback_confirmed" ELSE "idle")
  /\ UNCHANGED <<disk, remove, machine, history>>

RollbackConfirmed(p) ==
  /\ pc[p] = "rollback_confirmed"
  /\ Goto(p, IF confirmed THEN "rollback_unpend" ELSE "rollback_plan")
  /\ UNCHANGED <<disk, remove, machine, history>>

\* Fault for BaselineKept: the record of installed packages is not consulted.
RollbackPlanAll(p) ==
  /\ pc[p] = "rollback_plan"
  /\ remove' = [remove EXCEPT ![p] = target]
  /\ Goto(p, "rollback_lock")
  /\ UNCHANGED <<disk, machine, history>>

\* Fault for KeepsPromise: the plan is made from what is installed now.
RollbackPlanStale(p) ==
  /\ pc[p] = "rollback_plan"
  /\ remove' = [remove EXCEPT ![p] = target \ installed]
  /\ Goto(p, "rollback_lock")
  /\ UNCHANGED <<disk, machine, history>>

RollbackPlan(p) ==
  /\ pc[p] = "rollback_plan"
  /\ remove' = [remove EXCEPT ![p] = target \ before]
  /\ Goto(p, "rollback_lock")
  /\ UNCHANGED <<disk, machine, history>>

\* Fault for SwitchIsTracked: a failing pacman -Rns does not end the rollback.
RollbackLockIgnored(p) ==
  /\ pc[p] = "rollback_lock"
  /\ \/ /\ remove[p] # {} /\ ~dbLock /\ remove[p] \subseteq installed
        /\ dbLock' = TRUE /\ Goto(p, "rollback_remove")
     \/ Goto(p, "rollback_initramfs") /\ UNCHANGED dbLock
  /\ UNCHANGED <<installed, before, target, pending, confirmed, guardEnabled,
                 remove, machine, history>>

\* Here errexit is on: pacman -Rns aborts the rollback when another pacman holds the
\* lock, when a package is not installed, or on a fault of its own.  (The packages that
\* -s takes along because nothing needs them any more are left out, as are those -S pulls
\* in as dependencies.)
RollbackLock(p) ==
  /\ pc[p] = "rollback_lock"
  /\ \/ remove[p] = {} /\ Goto(p, "rollback_initramfs") /\ UNCHANGED <<dbLock, remove>>
     \/ /\ remove[p] # {} /\ ~dbLock /\ remove[p] \subseteq installed
        /\ dbLock' = TRUE
        /\ Goto(p, "rollback_remove")
        /\ UNCHANGED remove
     \/ /\ remove[p] # {}
        /\ dbLock \/ ~(remove[p] \subseteq installed) \/ MayFail("remove")
        /\ Goto(p, "idle")
        /\ remove' = [remove EXCEPT ![p] = {}]
        /\ UNCHANGED dbLock
  /\ UNCHANGED <<installed, before, target, pending, confirmed, guardEnabled,
                 machine, history>>

RollbackRemove(p) ==
  /\ pc[p] = "rollback_remove"
  /\ \/ \E pkg \in remove[p] \cap installed :
          /\ installed' = installed \ {pkg}
          /\ UNCHANGED <<dbLock, pc, remove>>
     \/ /\ remove[p] \cap installed = {}
        /\ dbLock' = FALSE
        /\ Goto(p, "rollback_initramfs")
        /\ remove' = [remove EXCEPT ![p] = {}]
        /\ UNCHANGED installed
  /\ UNCHANGED <<before, target, pending, confirmed, guardEnabled,
                 machine, history>>

RollbackInitramfs(p) ==
  /\ pc[p] = "rollback_initramfs"
  /\ \/ Goto(p, "rollback_unpend")
     \/ MayFail("mkinitcpio") /\ Goto(p, "idle")
  /\ UNCHANGED <<disk, remove, machine, history>>

\* Fault for GuardSettles: `pending` survives a finished rollback.
RollbackUnpendForgotten(p) ==
  /\ pc[p] = "rollback_unpend"
  /\ Goto(p, "rollback_unconfirm")
  /\ UNCHANGED <<disk, remove, machine, history>>

RollbackUnpend(p) ==
  /\ pc[p] = "rollback_unpend"
  /\ pending' = FALSE
  /\ Goto(p, "rollback_unconfirm")
  /\ UNCHANGED <<installed, dbLock, before, target, confirmed, guardEnabled, remove,
                 machine, history>>

RollbackUnconfirm(p) ==
  /\ pc[p] = "rollback_unconfirm"
  /\ confirmed' = FALSE
  /\ Goto(p, "rollback_disable")
  /\ UNCHANGED <<installed, dbLock, before, target, pending, guardEnabled, remove,
                 machine, history>>

-----------------------------------------------------------------------------
(* The boot guard, the session and the machine.                            *)

\* The unit sleeps for 180 s; without a HOME the script stops at its first line.
GuardWakes ==
  /\ pc[Guard] = "guard_sleep" /\ MayStart
  /\ Goto(Guard, IF GuardHome THEN "rollback_check" ELSE "idle")
  /\ UNCHANGED <<disk, remove, machine, history>>

\* TimeoutStartSec: systemd kills the unit; a pacman it kills may keep its lock.
GuardTimesOut ==
  /\ MayFail("timeout") /\ pc[Guard] \in RollbackSteps
  /\ Goto(Guard, "idle")
  /\ remove' = [remove EXCEPT ![Guard] = {}]
  /\ IF pc[Guard] = "rollback_remove" THEN dbLock' \in BOOLEAN ELSE UNCHANGED dbLock
  /\ UNCHANGED <<installed, before, target, pending, confirmed, guardEnabled,
                 machine, history>>

Login ==
  /\ ~session /\ running \cap Broken = {}
  /\ pc[Timer] = "idle"
  /\ session' = TRUE
  /\ Goto(Timer, "timer_wait")
  /\ UNCHANGED <<disk, remove, running, boot, history>>

\* The shell exits or crashes: `kill -0` of the sleeping subshell will find nothing.
SessionEnds ==
  /\ session
  /\ session' = FALSE
  /\ pc' = IF pc[Timer] = "timer_wait" THEN [pc EXCEPT ![Timer] = "idle"] ELSE pc
  /\ UNCHANGED <<disk, remove, running, boot, history>>

TimerFires ==
  /\ pc[Timer] = "timer_wait" /\ MayStart
  /\ Goto(Timer, "confirm_check")
  /\ UNCHANGED <<disk, remove, machine, history>>

\* A reboot or a power loss.  It ends every process; systemd then starts an enabled guard.
Boot ==
  /\ boot < MaxBoots
  /\ MayFail("crash") \/ NoneRunning
  /\ boot' = boot + 1 /\ thisBoot' = FALSE /\ session' = FALSE /\ running' = installed
  /\ pc' = [p \in Processes |->
              IF p = Guard /\ guardEnabled THEN "guard_sleep" ELSE "idle"]
  /\ remove' = [p \in Processes |-> {}]
  /\ IF \E p \in Processes : pc[p] \in {"apply_install", "rollback_remove"}
       THEN dbLock' \in BOOLEAN
       ELSE UNCHANGED dbLock
  /\ UNCHANGED <<installed, before, target, pending, confirmed, guardEnabled,
                 applies, clean, baseline, accepted, staged>>

-----------------------------------------------------------------------------

Apply(p) ==
  \/ ApplyRecord(p) \/ ApplyTarget(p) \/ ApplyUnconfirm(p) \/ ApplyPend(p)
  \/ ApplyLock(p) \/ ApplyInstall(p) \/ ApplyInitramfs(p) \/ ApplyEnable(p)

Confirm(p) == ConfirmCheck(p) \/ ConfirmMark(p) \/ ConfirmUnpend(p) \/ DisableGuard(p)

Rollback(p) ==
  \/ RollbackCheck(p) \/ RollbackConfirmed(p) \/ RollbackPlan(p) \/ RollbackLock(p)
  \/ RollbackRemove(p) \/ RollbackInitramfs(p) \/ RollbackUnpend(p)
  \/ RollbackUnconfirm(p)

Start(p) == StartApply(p) \/ StartConfirm(p) \/ StartRollback(p)

Proceed(p) == Apply(p) \/ Confirm(p) \/ Rollback(p)

Environment == GuardWakes \/ GuardTimesOut \/ Login \/ SessionEnds \/ TimerFires \/ Boot

Next ==
  \/ \E p \in Commands : Start(p)
  \/ \E p \in Processes : Proceed(p)
  \/ Environment

Spec == Init /\ [][Next]_vars

(* A command that runs is scheduled, and so are the sleeps of the guard    *)
(* and of the session.  Users, reboots and faults are not fair.            *)
FairSpec ==
  /\ Spec
  /\ \A p \in Processes : WF_vars(Proceed(p))
  /\ WF_vars(GuardWakes) /\ WF_vars(TimerFires)
-----------------------------------------------------------------------------
(* Properties.  `clean` is the condition of the first four: the latest     *)
(* apply began when no switch was pending and no command was running,      *)
(* whatever went before it.  The guard and the session may still run, and  *)
(* crash, anywhere in it.                                                  *)

\* A switch never slips out of the books: when it is neither pending nor confirmed,
\* nothing it installed is left.  (packages-before and pending are written before
\* pacman runs; a rollback drops pending only after pacman -Rns.)
SwitchIsTracked ==
  clean /\ ~pending /\ ~accepted => installed \subseteq baseline

\* A confirmation left over from an earlier switch never vouches for a new one
\* (driver-apply removes `confirmed` before it writes `pending`).
FreshSwitchNotConfirmed == clean /\ pending /\ confirmed => accepted

\* No rollback, however often it is cut short and repeated, removes a package the switch
\* is not about, or one that packages-before records.  When pacman -Qq answered in full,
\* that is every package of the baseline; what a failed query left out of the record is
\* removed with the rest of the target.
BaselineKept == clean => baseline \ installed \subseteq Recommended \ before

\* A switch reported as staged keeps its guard until it is confirmed or undone.
GuardArmed == clean /\ staged /\ pending /\ ~accepted => guardEnabled

\* A guard that can settle its switch: no stale lock of pacman, and all it is to remove
\* is installed.  (pacman -Rns refuses the rest: after a masked failure of pacman -S, or
\* a removal cut short, the guard fails on every boot until somebody steps in.)
Recoverable == ~dbLock /\ target \ before \subseteq installed

\* A recoverable switch still pending when a boot starts the guard is settled, whatever
\* failed or crashed before, if the machine stays up, nobody begins another and nothing
\* the guard's own run calls fails: the guard undoes it, or finds it confirmed.
GuardSettles ==
  \A b \in 1..MaxBoots :
    (boot = b /\ pc[Guard] = "guard_sleep" /\ staged /\ pending /\ Recoverable)
      ~> (~pending \/ boot # b \/ ~staged)

\* "waits for the next successful uNexus boot to confirm the driver switch": the
\* session never confirms a switch in the boot that staged it.
ConfirmedByLaterBoot ==
  [][pc[Timer] = "confirm_mark" /\ pc'[Timer] = "confirm_unpend" => ~thisBoot]_vars

\* driver-apply reports a staged switch only when the target packages are installed.
StagedMeansInstalled == [][~staged /\ staged' => Recommended \subseteq installed]_vars
(* The refinement: between two switches the baseline is what is installed, *)
(* and all of it is to be kept.                                            *)
SwitchPhase ==
  IF ~clean THEN "void"
  ELSE IF ~pending THEN "settled"
  ELSE IF accepted THEN "confirmed" ELSE "staged"

Promise == INSTANCE DriverSwitch
             WITH phase <- SwitchPhase,
                  base  <- IF pending THEN baseline ELSE installed,
                  kept  <- IF pending THEN before ELSE installed

\* When unexusctl driver-* commands run one at a time, and however they are cut short,
\* the wizard keeps the promise of DriverSwitch.
KeepsPromise == Promise!Spec
=============================================================================
