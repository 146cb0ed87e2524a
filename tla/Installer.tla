------------------------------ MODULE Installer ------------------------------
(***************************************************************************)
(* The graphical installer's backend, InstallerBackend                     *)
(* (packages/unexus-installer/src/installerbackend.cpp), and the script it *)
(* starts to install to a disk, scripts/install-os.sh, which may as well   *)
(* be started by hand on a terminal.                                       *)
(*                                                                         *)
(* The backend runs one action at a time as a QProcess.  Disk actions go   *)
(* through pkexec, which asks for authorization and then becomes the       *)
(* script, with a clean environment and without a terminal.  The script    *)
(* runs under `set -e` from step to step; whatever ends it, its EXIT trap  *)
(* unmounts the target.  The same trap is set for INT and TERM and does    *)
(* not exit: after such a signal the script goes on with its next step, on *)
(* whatever the mount point shows by then.  SIGKILL runs no trap.          *)
(*                                                                         *)
(* Unmounting may fail too.  What it leaves stays under the mounts of the  *)
(* next run, root partition and EFI partition, and a signal in that run    *)
(* uncovers it.  Bounds: one failing cleanup or kill until what it left is *)
(* gone, so that the mount point has two layers at most.                   *)
(*                                                                         *)
(* A tree is the set of things installed into it.  The directory under the *)
(* mount point belongs to the live system: tree[NoDisk].  The runs keep to *)
(* one process at a time, of the panel or of the terminal.                 *)
(***************************************************************************)
EXTENDS Naturals, FiniteSets

CONSTANTS
  Disks,    \* the whole disks of the machine
  NoDisk,   \* no disk: no target chosen, or nothing mounted
  Faults    \* whether commands fail, signals arrive and unmounting fails

ASSUME DisksAssumption == NoDisk \notin Disks

ASSUME FaultsAssumption == Faults \in BOOLEAN

VARIABLES
  (* the panel *)
  busy,         \* m_busy
  action,       \* m_currentAction
  title,        \* m_statusTitle: see Titles
  target,       \* m_diskTarget
  (* the process: pkexec, the script or another action's program *)
  pc,           \* its next step: see Steps
  origin,       \* who started it
  disk,         \* --target
  execute,      \* --execute --confirm ERASE-AND-INSTALL
  ok,           \* its exit code is 0
  (* the machine *)
  layout,       \* layout[d]: what is on the disk, see Layouts
  tree,         \* tree[d]: what is installed on the root partition of d
  loader,       \* the disks with a boot loader on their EFI partition
  mounted,      \* the root partition seen at the mount point
  boot,         \* the EFI partition seen at the mount point's boot
  below,        \* the root partition mounted there before, left by an earlier run
  belowBoot,    \* the EFI partition left mounted with it
  (* history *)
  chosen,       \* disks an install was asked for
  erased,       \* disks that were erased
  altered,      \* disks an install on another disk has written to
  stuck,        \* disks left mounted by a failing unmount or a kill
  exposed       \* a signal took the target away from under the install

panelVars   == <<busy, action, title, target>>
processVars == <<pc, origin, disk, execute, ok>>
treeVars    == <<layout, tree, loader, altered>>
mountVars   == <<mounted, boot, below, belowBoot, stuck>>
vars == <<busy, action, title, target, pc, origin, disk, execute, ok, layout,
          tree, loader, mounted, boot, below, belowBoot, chosen, erased, altered,
          stuck, exposed>>

Actions == {"none", "other", "disk-preview", "disk-install"}

(* What the status line says: all but two of its texts are "other".        *)
Titles == {"running", "install complete", "other"}

(* The steps of install_system, in their order.                            *)
InstallSteps == {"wipe", "partition", "format", "mount root", "mount boot",
                 "pacstrap", "fstab", "copy", "chroot", "password", "unmount"}

Steps == {"idle", "asking", "other", "plan", "exited"} \cup InstallSteps

(* A disk that is wiped stays blank while it is partitioned anew.          *)
Layouts == {"old", "blank", "formatted"}

Items == {"base", "fstab", "sources", "settings", "passwords"}

Places == Disks \cup {NoDisk}

-----------------------------------------------------------------------------
(* The panel.                                                              *)

(* setDiskTarget and the other setters.  The panel disables its fields     *)
(* while busy, the backend itself does not check.                          *)
SetTarget(d) ==
  /\ target # d
  /\ target' = d
  /\ UNCHANGED <<busy, action, title, processVars, treeVars, mountVars, chosen,
                 erased, exposed>>

(* waitForStarted fails: busy and the action are taken back.               *)
NotStarted ==
  /\ Faults
  /\ title' = "other"
  /\ UNCHANGED <<busy, action, processVars>>

(* runAction, once its checks have passed.                                 *)
RunAction(name, first, d, erase) ==
  /\ ~busy
  /\ pc = "idle"
  /\ \/ /\ busy' = TRUE
        /\ action' = name
        /\ title' = "running"
        /\ pc' = first
        /\ origin' = "panel"
        /\ disk' = d
        /\ execute' = erase
        /\ ok' = FALSE
     \/ NotStarted
  /\ UNCHANGED <<target, treeVars, mountVars, erased, exposed>>

(* install, repair, uninstall and diagnose.                                *)
OtherAction ==
  /\ RunAction("other", "other", NoDisk, FALSE)
  /\ UNCHANGED chosen

(* previewDiskInstall and installDisk look at the target before they look  *)
(* at busy.                                                                *)
Unavailable ==
  /\ target = NoDisk
  /\ title' = "other"
  /\ UNCHANGED <<busy, action, target, processVars, treeVars, mountVars, chosen,
                 erased, exposed>>

PreviewDiskInstall ==
  /\ target # NoDisk
  /\ RunAction("disk-preview", "asking", target, FALSE)
  /\ UNCHANGED chosen

InstallDisk ==
  /\ target # NoDisk
  /\ RunAction("disk-install", "asking", target, TRUE)
  /\ chosen' = chosen \cup {target}

Exit(success) ==
  /\ pc' = "exited"
  /\ ok' = success
  /\ UNCHANGED <<origin, disk, execute>>

Goto(step) ==
  /\ pc' = step
  /\ UNCHANGED <<origin, disk, execute, ok>>

(* The process is gone, and with it what belonged to it.                   *)
NoProcess ==
  /\ pc' = "idle"
  /\ origin' = "panel"
  /\ disk' = NoDisk
  /\ execute' = FALSE
  /\ ok' = FALSE
  /\ exposed' = FALSE

\* Fault for ErasedAsAsked: the arguments are made when pkexec has its answer.
AuthorizedLate ==
  /\ pc = "asking"
  /\ target # NoDisk
  /\ pc' = "plan"
  /\ disk' = target
  /\ UNCHANGED <<origin, execute, ok>>
  /\ UNCHANGED <<panelVars, treeVars, mountVars, chosen, erased, exposed>>

(* pkexec: the user gives the password or does not.                        *)
Authorized ==
  /\ pc = "asking"
  /\ Goto("plan")
  /\ UNCHANGED <<panelVars, treeVars, mountVars, chosen, erased, exposed>>

Refused ==
  /\ pc = "asking"
  /\ Exit(FALSE)
  /\ UNCHANGED <<panelVars, treeVars, mountVars, chosen, erased, exposed>>

(* The program of another action ends.                                     *)
OtherEnds ==
  /\ pc = "other"
  /\ \E success \in BOOLEAN : Exit(success)
  /\ UNCHANGED <<panelVars, treeVars, mountVars, chosen, erased, exposed>>

\* Fault for InstallerAnswers: the failing branch returns before setBusy(false).
ProcessFinishedStuck ==
  /\ pc = "exited" /\ origin = "panel"
  /\ NoProcess
  /\ busy' = ~ok
  /\ title' = "other"
  /\ UNCHANGED <<action, target, treeVars, mountVars, chosen, erased>>

ProcessFinished ==
  /\ pc = "exited" /\ origin = "panel"
  /\ NoProcess
  /\ busy' = FALSE
  /\ action' = "none"
  /\ title' = IF ok /\ action = "disk-install" THEN "install complete" ELSE "other"
  /\ UNCHANGED <<target, treeVars, mountVars, chosen, erased>>

-----------------------------------------------------------------------------
(* install-os.sh.                                                          *)

(* `sudo sh install-os.sh --target d --execute --confirm ...` by hand.     *)
StartOnTerminal(d) ==
  /\ pc = "idle"
  /\ pc' = "plan"
  /\ origin' = "terminal"
  /\ disk' = d
  /\ execute' = TRUE
  /\ ok' = FALSE
  /\ chosen' = chosen \cup {d}
  /\ UNCHANGED <<panelVars, treeVars, mountVars, erased, exposed>>

TerminalReturns ==
  /\ pc = "exited" /\ origin = "terminal"
  /\ NoProcess
  /\ UNCHANGED <<panelVars, treeVars, mountVars, chosen, erased>>

(* The checks and the plan; a dry run ends here, and no trap is set yet.   *)
Plan ==
  /\ pc = "plan"
  /\ \/ execute /\ Goto("wipe")
     \/ ~execute /\ Exit(TRUE)
     \/ Faults /\ Exit(FALSE)
  /\ exposed' = FALSE
  /\ UNCHANGED <<panelVars, treeVars, mountVars, chosen, erased>>

(* cleanup_mounts: the layer mounted last is unmounted, boot and root, and *)
(* the one below it shows again.  A failing unmount is ignored: either the *)
(* EFI partition stays, and with it the root partition, or only the root.  *)
CleanupMounts ==
  \/ /\ mounted' = below /\ boot' = belowBoot
     /\ below' = NoDisk /\ belowBoot' = NoDisk
     /\ stuck' = stuck \cap {below, belowBoot}
  \/ /\ Faults /\ stuck = {}
     /\ boot' \in {boot, NoDisk}
     /\ stuck' = {mounted, boot'} \ {NoDisk}
     /\ UNCHANGED <<mounted, below, belowBoot>>

(* What a step of an install writes to at the mount point.                 *)
Touched(places) == altered' = altered \cup (places \ {disk, NoDisk})

\* Fault for NothingLeftMounted: the trap is set for signals only.
AbortUntrapped(places) ==
  /\ Exit(FALSE)
  /\ Touched(places)
  /\ UNCHANGED <<panelVars, layout, tree, loader, mountVars, chosen, erased, exposed>>

\* Fault for KeepsDiskPromise: the trap's own status becomes the script's.
AbortSucceeds(places) ==
  /\ Exit(TRUE)
  /\ CleanupMounts
  /\ Touched(places)
  /\ UNCHANGED <<panelVars, layout, tree, loader, chosen, erased, exposed>>

(* errexit: the EXIT trap, after the step has written to some places.      *)
Abort(places) ==
  /\ Exit(FALSE)
  /\ CleanupMounts
  /\ Touched(places)
  /\ UNCHANGED <<panelVars, layout, tree, loader, chosen, erased, exposed>>

(* A step that is cut short may have written a part of what it writes.     *)
WritingSteps == {"pacstrap", "fstab", "copy", "chroot", "password"}

Partly == IF pc \in WritingSteps THEN SUBSET {mounted, boot} ELSE {{}}

CommandFails ==
  /\ Faults
  /\ pc \in InstallSteps \ {"unmount"}
  /\ \E places \in Partly : Abort(places)

(* TERM: the trap runs after the command in the foreground has ended, and  *)
(* the script goes on, in whatever tree it now finds at the mount point.   *)
(* It can reach its end there if an EFI partition is, or will be, mounted  *)
(* in that tree, or if only the passwords are missing and it takes them.   *)
Terminated ==
  /\ Faults
  /\ pc \in InstallSteps
  /\ CleanupMounts
  /\ exposed' = (\/ exposed
                 \/ /\ mounted' # disk
                    /\ \/ pc = "mount boot"
                       \/ pc \in {"pacstrap", "fstab", "copy", "chroot"} /\ boot' # NoDisk
                       \/ /\ pc = "password"
                          /\ {"base", "settings"} \subseteq tree[mounted'])
  /\ UNCHANGED <<panelVars, processVars, treeVars, chosen, erased>>

(* SIGKILL: no trap runs, and what is mounted stays.                       *)
Killed ==
  /\ Faults
  /\ pc \in InstallSteps
  /\ stuck = {}
  /\ Exit(FALSE)
  /\ \E places \in Partly : Touched(places)
  /\ stuck' = {mounted, boot} \ {NoDisk}
  /\ UNCHANGED <<panelVars, layout, tree, loader, mounted, boot, below, belowBoot,
                 chosen, erased, exposed>>

Wipe ==
  /\ pc = "wipe"
  /\ Goto("partition")
  /\ layout' = [layout EXCEPT ![disk] = "blank"]
  /\ tree' = [tree EXCEPT ![disk] = {}]
  /\ loader' = loader \ {disk}
  /\ erased' = erased \cup {disk}
  /\ altered' = altered \ {disk}
  /\ UNCHANGED <<panelVars, mountVars, chosen, exposed>>

(* sgdisk and partprobe; a disk that is still mounted is busy.             *)
Partition ==
  /\ pc = "partition"
  /\ IF disk \in {mounted, boot, below, belowBoot}
       THEN Abort({})
       ELSE /\ Goto("format")
            /\ UNCHANGED <<panelVars, treeVars, mountVars, chosen, erased, exposed>>

Format ==
  /\ pc = "format"
  /\ Goto("mount root")
  /\ layout' = [layout EXCEPT ![disk] = "formatted"]
  /\ UNCHANGED <<panelVars, tree, loader, altered, mountVars, chosen, erased, exposed>>

(* The new root partition covers what the mount point shows, boot and all. *)
MountRoot ==
  /\ pc = "mount root"
  /\ Goto("mount boot")
  /\ mounted' = disk /\ boot' = NoDisk
  /\ below' = mounted /\ belowBoot' = boot
  /\ UNCHANGED <<panelVars, treeVars, stuck, chosen, erased, exposed>>

MountBoot ==
  /\ pc = "mount boot"
  /\ Goto("pacstrap")
  /\ boot' = disk
  /\ UNCHANGED <<panelVars, treeVars, mounted, below, belowBoot, stuck, chosen,
                 erased, exposed>>

(* A step that installs an item into the tree seen at the mount point, the *)
(* EFI partition under it included, and fails unless that tree has what it *)
(* needs.                                                                  *)
Install(step, item, needs, next) ==
  /\ pc = step
  /\ needs \subseteq tree[mounted]
  /\ Goto(next)
  /\ tree' = [tree EXCEPT ![mounted] = @ \cup {item}]
  /\ Touched({mounted, boot})
  /\ UNCHANGED <<panelVars, layout, mountVars, chosen, erased, exposed>>

Pacstrap ==
  /\ Install("pacstrap", "base", {}, "fstab")
  /\ UNCHANGED loader

Fstab ==
  /\ Install("fstab", "fstab", {"base"}, "copy")
  /\ UNCHANGED loader

CopySources ==
  /\ Install("copy", "sources", {}, "chroot")
  /\ UNCHANGED loader

\* Fault for TypeOK: the boot loader goes wherever the mount point is.
ChrootInstallAnywhere ==
  /\ Install("chroot", "settings", {"base", "sources"}, "password")
  /\ loader' = loader \cup {boot}

(* The chroot script: settings, the user, bootctl install, provisioning.   *)
ChrootInstall ==
  /\ boot # NoDisk
  /\ Install("chroot", "settings", {"base", "sources"}, "password")
  /\ loader' = loader \cup {boot}

(* Without a terminal and without the variables, which pkexec clears,      *)
(* there is no password; on a terminal the user may give one.              *)
PasswordKnown == origin = "terminal"

\* Fault for DoneMeansInstalled: the status of chpasswd is lost in the pipe.
SetPasswordsUnchecked ==
  /\ PasswordKnown
  /\ pc = "password"
  /\ Goto("unmount")
  /\ UNCHANGED <<panelVars, treeVars, mountVars, chosen, erased, exposed>>

SetPasswords ==
  /\ PasswordKnown
  /\ Install("password", "passwords", {"base", "settings"}, "unmount")
  /\ UNCHANGED loader

(* The installation steps that cannot go on, and an empty password.  The   *)
(* chroot script has rewritten locale, hosts, users and sudoers of the     *)
(* tree it runs in by the time bootctl finds no EFI partition.             *)
StepImpossible ==
  \/ pc = "fstab" /\ "base" \notin tree[mounted] /\ Abort({})
  \/ pc = "chroot" /\ ~({"base", "sources"} \subseteq tree[mounted]) /\ Abort({})
  \/ /\ pc = "chroot" /\ {"base", "sources"} \subseteq tree[mounted] /\ boot = NoDisk
     /\ Abort({mounted})
  \/ pc = "password" /\ Abort({})

(* The last cleanup_mounts; then the traps are cleared.                    *)
Unmount ==
  /\ pc = "unmount"
  /\ Exit(TRUE)
  /\ CleanupMounts
  /\ UNCHANGED <<panelVars, treeVars, chosen, erased, exposed>>

-----------------------------------------------------------------------------
Init ==
  /\ busy = FALSE
  /\ action = "none"
  /\ title = "other"
  /\ target = NoDisk
  /\ pc = "idle"
  /\ origin = "panel"
  /\ disk = NoDisk
  /\ execute = FALSE
  /\ ok = FALSE
  /\ layout = [d \in Disks |-> "old"]
  /\ tree = [d \in Places |-> {}]
  /\ loader = {}
  /\ mounted = NoDisk
  /\ boot = NoDisk
  /\ below = NoDisk
  /\ belowBoot = NoDisk
  /\ chosen = {}
  /\ erased = {}
  /\ altered = {}
  /\ stuck = {}
  /\ exposed = FALSE

ScriptStep ==
  \/ Plan
  \/ Wipe
  \/ Partition
  \/ Format
  \/ MountRoot
  \/ MountBoot
  \/ Pacstrap
  \/ Fstab
  \/ CopySources
  \/ ChrootInstall
  \/ SetPasswords
  \/ StepImpossible
  \/ Unmount

UserStep ==
  \/ \E d \in Places : SetTarget(d)
  \/ OtherAction
  \/ Unavailable
  \/ PreviewDiskInstall
  \/ InstallDisk
  \/ \E d \in Disks : StartOnTerminal(d)

Next ==
  \/ UserStep
  \/ Authorized
  \/ Refused
  \/ OtherEnds
  \/ ProcessFinished
  \/ TerminalReturns
  \/ ScriptStep
  \/ CommandFails
  \/ Terminated
  \/ Killed

(* The one process goes on to its end, and the event loop handles it; the  *)
(* user need not act, and need not authorize.                              *)
Fairness == WF_vars(ScriptStep \/ OtherEnds \/ ProcessFinished)

Spec == Init /\ [][Next]_vars /\ Fairness

-----------------------------------------------------------------------------
(* Every variable has its type.                                            *)
TypeOK ==
  /\ busy \in BOOLEAN
  /\ action \in Actions
  /\ title \in Titles
  /\ target \in Places
  /\ pc \in Steps
  /\ origin \in {"panel", "terminal"}
  /\ disk \in Places
  /\ execute \in BOOLEAN
  /\ ok \in BOOLEAN
  /\ layout \in [Disks -> Layouts]
  /\ tree \in [Places -> SUBSET Items]
  /\ loader \subseteq Disks
  /\ mounted \in Places
  /\ boot \in Places
  /\ below \in Places
  /\ belowBoot \in Places
  /\ chosen \subseteq Disks
  /\ erased \subseteq Disks
  /\ altered \subseteq Disks
  /\ stuck \subseteq Disks
  /\ exposed \in BOOLEAN

(* No disk is erased but one an install was asked for, in the panel at the *)
(* moment of the click or on the command line: a preview erases nothing,   *)
(* and a target changed while pkexec asks or the script runs does not      *)
(* matter (diskInstallArguments).                                          *)
ErasedAsAsked == erased \subseteq chosen

(* When install-os.sh exits with success, the disk it was given has the    *)
(* whole system, its passwords and its boot loader, whatever failed in     *)
(* earlier runs, whatever they left mounted and whatever signals came.     *)
(* The only exception is a signal that leaves the script in another tree   *)
(* in which it can reach its end (Terminated, exposed).                    *)
DoneMeansInstalled ==
  pc = "exited" /\ ok /\ disk # NoDisk /\ execute /\ ~exposed =>
    /\ tree[disk] = Items
    /\ disk \in loader

(* By whichever of its steps, failures or INT and TERM signals the script  *)
(* ends, nothing of the target stays mounted when its process is over,     *)
(* unless unmounting failed or an earlier run was killed (cleanup_mounts   *)
(* and its trap).                                                          *)
NothingLeftMounted ==
  pc \in {"idle", "exited"} /\ stuck = {} =>
    {mounted, boot, below, belowBoot} = {NoDisk}

(* The refinement: what the machine shows of a disk, the disk a script has *)
(* begun to install, whether a signal has taken it from the mount point,   *)
(* and the success of a script no signal has exposed.                      *)
DiskState(d) ==
  IF d \in altered THEN "altered"
  ELSE IF layout[d] = "old" /\ tree[d] = {} /\ d \notin loader THEN "untouched"
  ELSE IF tree[d] = Items /\ d \in loader THEN "installed" ELSE "partial"

Current == IF pc \in InstallSteps THEN disk ELSE NoDisk

MountedSteps == {"mount boot", "unmount"} \cup WritingSteps

Astray == pc \in MountedSteps /\ mounted # disk

Told == IF pc = "exited" /\ ok /\ execute /\ ~exposed THEN disk ELSE NoDisk

Promise == INSTANCE DiskInstall
             WITH asked   <- chosen,
                  current <- Current,
                  state   <- [d \in Disks |-> DiskState(d)],
                  left    <- stuck,
                  astray  <- Astray,
                  told    <- Told

(* The backend and the script keep the promise of DiskInstall: a disk      *)
(* nobody asked for is left as it is; an installed one stays whole while   *)
(* installs on other disks fail and are signalled, unless one of them was  *)
(* signalled while an earlier run's unmount had left that disk mounted;    *)
(* and a script that succeeds has installed the disk it was started with.  *)
KeepsDiskPromise == Promise!Spec

(* Once pkexec has its answer, the panel gets its own: it does not stay    *)
(* busy, whatever becomes of the script.                                   *)
InstallerAnswers == (busy /\ pc # "asking") ~> ~busy

(* What docs/building.md:285 promises of the graphical path: an authorized *)
(* `Erase and install` installs the system.                                *)
GraphicalInstallFinishes ==
  (pc = "plan" /\ action = "disk-install" /\ origin = "panel") ~>
    (title = "install complete")

=============================================================================
