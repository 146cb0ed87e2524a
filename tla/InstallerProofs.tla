--------------------------- MODULE InstallerProofs ---------------------------
(***************************************************************************)
(* Proofs about Installer, for any disks, with and without faults.         *)
(***************************************************************************)
EXTENDS Installer, TLAPS

Safety == Init /\ [][Next]_vars

(* Steps of the panel and of processes that are not yet, or no longer, the *)
(* script at work on the disk.                                             *)
PanelStep ==
  \/ \E d \in Places : SetTarget(d)
  \/ OtherAction
  \/ Unavailable
  \/ PreviewDiskInstall
  \/ InstallDisk
  \/ \E d \in Disks : StartOnTerminal(d)
  \/ Authorized
  \/ Refused
  \/ OtherEnds
  \/ ProcessFinished
  \/ TerminalReturns
  \/ UNCHANGED vars

(* The steps that put something into the tree at the mount point.          *)
WritingStep ==
  Pacstrap \/ Fstab \/ CopySources \/ ChrootInstall \/ SetPasswords

LEMMA StepCases ==
  ASSUME [Next]_vars
  PROVE  \/ PanelStep
         \/ Plan \/ Wipe \/ Partition \/ Format \/ MountRoot \/ MountBoot
         \/ WritingStep
         \/ StepImpossible \/ Unmount \/ CommandFails \/ Terminated \/ Killed
  BY DEF Next, UserStep, ScriptStep, PanelStep, WritingStep

(* A step that cannot be done or fails is a cut in one of the install's    *)
(* steps, and what it writes to is at the mount point of a writing step.   *)
LEMMA CutCases ==
  ASSUME \/ StepImpossible \/ CommandFails \/ Killed
         \/ Partition /\ Abort({})
  PROVE  \/ \E places \in SUBSET {mounted, boot} :
              /\ Abort(places)
              /\ pc \in InstallSteps \ {"unmount"}
              /\ pc \notin WritingSteps => places = {}
         \/ Killed
<1>1. CASE StepImpossible
  BY <1>1 DEF StepImpossible, WritingSteps, InstallSteps
<1>2. CASE CommandFails
  BY <1>2 DEF CommandFails, Partly
<1>3. CASE Partition /\ Abort({})
  BY <1>3 DEF Partition, WritingSteps, InstallSteps
<1> QED
  BY <1>1, <1>2, <1>3

-----------------------------------------------------------------------------
(* Types, and the disk that may be erased.                                 *)

(* A process that will erase, or erases, works on a disk that was asked    *)
(* for.                                                                    *)
Asked ==
  (pc \in {"asking", "plan"} /\ execute) \/ pc \in InstallSteps => disk \in chosen

ErasesAsAsked == TypeOK /\ Asked /\ ErasedAsAsked

LEMMA AskedInit == Init => ErasesAsAsked
  BY FaultsAssumption
     DEF Init, ErasesAsAsked, TypeOK, Asked, ErasedAsAsked, Actions, Titles,
         Steps, InstallSteps, Layouts, Items, Places

(* Unmounting leaves the mounts typed, and so does a cut what was altered. *)
LEMMA MountsTyped ==
  ASSUME TypeOK, CleanupMounts
  PROVE  /\ mounted' \in Places /\ boot' \in Places
         /\ below' \in Places /\ belowBoot' \in Places
         /\ stuck' \subseteq Disks
  BY DEF CleanupMounts, TypeOK, Places

LEMMA TouchedTyped ==
  ASSUME TypeOK, NEW places, places \subseteq {mounted, boot}, Touched(places)
  PROVE  altered' \subseteq Disks
  BY DEF Touched, TypeOK, Places

LEMMA CutTyped ==
  ASSUME ErasesAsAsked,
         \/ StepImpossible \/ CommandFails \/ Killed
         \/ Partition /\ Abort({})
  PROVE  ErasesAsAsked'
<1> USE DEF ErasesAsAsked
<1>1. ASSUME NEW places \in SUBSET {mounted, boot}, Abort(places)
      PROVE  ErasesAsAsked'
  <2>1. altered' \subseteq Disks
    BY <1>1, TouchedTyped DEF Abort
  <2> QED
    BY <1>1, <2>1, MountsTyped DEF Abort, Exit, TypeOK, Asked, ErasedAsAsked, Steps,
       InstallSteps, panelVars
<1>2. CASE Killed
  <2>1. PICK places \in SUBSET {mounted, boot} : Touched(places)
    BY <1>2 DEF Killed, Partly
  <2>2. altered' \subseteq Disks
    BY <2>1, TouchedTyped
  <2>3. stuck' \subseteq Disks
    BY <1>2 DEF Killed, TypeOK, Places
  <2> QED
    BY <1>2, <2>2, <2>3 DEF Killed, Exit, TypeOK, Asked, ErasedAsAsked, Steps,
       InstallSteps, panelVars
<1> QED
  BY <1>1, <1>2, CutCases

LEMMA AskedStep == ErasesAsAsked /\ [Next]_vars => ErasesAsAsked'
<1> SUFFICES ASSUME ErasesAsAsked, [Next]_vars PROVE ErasesAsAsked'
  OBVIOUS
<1> USE DEF ErasesAsAsked
<1>1. CASE PanelStep
  <2>1. CASE \E d \in Places : SetTarget(d)
    BY <2>1 DEF SetTarget, TypeOK, Asked, ErasedAsAsked, processVars, treeVars, mountVars
  <2>2. CASE OtherAction
    BY <2>2 DEF OtherAction, RunAction, NotStarted, TypeOK, Asked, ErasedAsAsked,
       Actions, Titles, Steps, InstallSteps, Places, processVars, treeVars, mountVars
  <2>3. CASE Unavailable
    BY <2>3 DEF Unavailable, TypeOK, Asked, ErasedAsAsked, Titles, processVars,
       treeVars, mountVars
  <2>4. CASE PreviewDiskInstall
    BY <2>4 DEF PreviewDiskInstall, RunAction, NotStarted, TypeOK, Asked,
       ErasedAsAsked, Actions, Titles, Steps, InstallSteps, processVars, treeVars,
       mountVars
  <2>5. CASE InstallDisk
    BY <2>5 DEF InstallDisk, RunAction, NotStarted, TypeOK, Asked, ErasedAsAsked,
       Actions, Titles, Steps, InstallSteps, Places, processVars, treeVars, mountVars
  <2>6. CASE \E d \in Disks : StartOnTerminal(d)
    BY <2>6 DEF StartOnTerminal, TypeOK, Asked, ErasedAsAsked, Steps, InstallSteps,
       Places, panelVars, treeVars, mountVars
  <2>7. CASE Authorized
    BY <2>7 DEF Authorized, Goto, TypeOK, Asked, ErasedAsAsked, Steps, InstallSteps,
       panelVars, treeVars, mountVars
  <2>8. CASE Refused
    BY <2>8 DEF Refused, Exit, TypeOK, Asked, ErasedAsAsked, Steps, InstallSteps,
       panelVars, treeVars, mountVars
  <2>9. CASE OtherEnds
    BY <2>9 DEF OtherEnds, Exit, TypeOK, Asked, ErasedAsAsked, Steps, InstallSteps,
       panelVars, treeVars, mountVars
  <2>10. CASE ProcessFinished
    BY <2>10 DEF ProcessFinished, NoProcess, TypeOK, Asked, ErasedAsAsked, Actions,
       Titles, Steps, InstallSteps, Places, treeVars, mountVars
  <2>11. CASE TerminalReturns
    BY <2>11 DEF TerminalReturns, NoProcess, TypeOK, Asked, ErasedAsAsked, Steps,
       InstallSteps, Places, panelVars, treeVars, mountVars
  <2>12. CASE UNCHANGED vars
    BY <2>12 DEF vars, TypeOK, Asked, ErasedAsAsked
  <2> QED
    BY <1>1, <2>1, <2>2, <2>3, <2>4, <2>5, <2>6, <2>7, <2>8, <2>9, <2>10, <2>11,
       <2>12 DEF PanelStep
<1>2. CASE Plan
  BY <1>2 DEF Plan, Goto, Exit, TypeOK, Asked, ErasedAsAsked, Steps, InstallSteps,
     panelVars, treeVars, mountVars
<1>3. CASE Wipe
  <2>1. disk \in Disks
    BY <1>3 DEF Wipe, TypeOK, Asked, InstallSteps
  <2>2. /\ layout' \in [Disks -> Layouts] /\ tree' \in [Places -> SUBSET Items]
        /\ loader' \subseteq Disks /\ altered' \subseteq Disks
    BY <1>3 DEF Wipe, TypeOK, Layouts
  <2> QED
    BY <1>3, <2>1, <2>2 DEF Wipe, Goto, TypeOK, Asked, ErasedAsAsked, Steps,
       InstallSteps, panelVars, mountVars
<1>4. CASE Partition
  <2>1. CASE Abort({})
    BY <1>4, <2>1, CutTyped
  <2>2. CASE ~(disk \in {mounted, boot, below, belowBoot})
    BY <1>4, <2>2 DEF Partition, Goto, TypeOK, Asked, ErasedAsAsked, Steps,
       InstallSteps, panelVars, treeVars, mountVars
  <2> QED
    BY <1>4, <2>1, <2>2 DEF Partition
<1>5. CASE Format
  <2>1. layout' \in [Disks -> Layouts]
    BY <1>5 DEF Format, TypeOK, Layouts
  <2> QED
    BY <1>5, <2>1 DEF Format, Goto, TypeOK, Asked, ErasedAsAsked, Steps,
       InstallSteps, panelVars, mountVars
<1>6. CASE MountRoot
  <2>1. /\ mounted' \in Places /\ boot' \in Places
        /\ below' \in Places /\ belowBoot' \in Places
    BY <1>6 DEF MountRoot, TypeOK, Places
  <2> QED
    BY <1>6, <2>1 DEF MountRoot, Goto, TypeOK, Asked, ErasedAsAsked, Steps,
       InstallSteps, panelVars, treeVars
<1>7. CASE MountBoot
  BY <1>7 DEF MountBoot, Goto, TypeOK, Asked, ErasedAsAsked, Steps, InstallSteps,
     panelVars, treeVars
<1>8. CASE WritingStep
  <2>1. loader' \subseteq Disks
    BY <1>8 DEF WritingStep, Pacstrap, Fstab, CopySources, ChrootInstall,
       SetPasswords, TypeOK, Places
  <2>2. PICK step \in InstallSteps, item \in Items, needs \in SUBSET Items,
             next \in InstallSteps : Install(step, item, needs, next)
    BY <1>8 DEF WritingStep, Pacstrap, Fstab, CopySources, ChrootInstall,
       SetPasswords, Items, InstallSteps
  <2>3. tree' \in [Places -> SUBSET Items] /\ altered' \subseteq Disks
    BY <2>2, TouchedTyped DEF Install, TypeOK
  <2> QED
    BY <2>1, <2>2, <2>3 DEF Install, Goto, TypeOK, Asked, ErasedAsAsked, Steps,
       panelVars, mountVars
<1>9. CASE StepImpossible \/ CommandFails \/ Killed
  BY <1>9, CutTyped
<1>10. CASE Unmount
  BY <1>10, MountsTyped DEF Unmount, Exit, TypeOK, Asked, ErasedAsAsked, Steps,
     InstallSteps, panelVars, treeVars
<1>11. CASE Terminated
  <2>1. exposed' \in BOOLEAN
    BY <1>11 DEF Terminated, TypeOK
  <2> QED
    BY <1>11, <2>1, MountsTyped DEF Terminated, TypeOK, Asked, ErasedAsAsked,
       panelVars, processVars, treeVars
<1> QED
  BY <1>1, <1>2, <1>3, <1>4, <1>5, <1>6, <1>7, <1>8, <1>9, <1>10, <1>11, StepCases

(* The variables of the installer keep their types, for any disks.         *)
THEOREM InstallerTypes == Safety => []TypeOK
<1>1. ErasesAsAsked => TypeOK
  BY DEF ErasesAsAsked
<1> QED
  BY <1>1, AskedInit, AskedStep, PTL DEF Safety

(* Whatever is chosen, previewed, refused or signalled meanwhile, only a   *)
(* disk an install was asked for is erased.                                *)
THEOREM OnlyAskedErased == Safety => []ErasedAsAsked
<1>1. ErasesAsAsked => ErasedAsAsked
  BY DEF ErasesAsAsked
<1> QED
  BY <1>1, AskedInit, AskedStep, PTL DEF Safety

-----------------------------------------------------------------------------
(* Mounts.                                                                 *)

(* What is at the mount point was left there by an earlier run, or belongs *)
(* to the run at work; below it there is only what an earlier run left,    *)
(* and that is never the disk a run has partitioned.  Over the disk at     *)
(* work no other disk's EFI partition is mounted.                          *)
MountInv ==
  /\ {mounted, boot} \subseteq
       {NoDisk} \cup stuck \cup (IF pc \in MountedSteps THEN {disk} ELSE {})
  /\ {below, belowBoot} \subseteq {NoDisk} \cup stuck
  /\ pc \notin MountedSteps => below = NoDisk /\ belowBoot = NoDisk
  /\ pc \in {"format", "mount root"} => disk \notin {mounted, boot}
  /\ pc \in MountedSteps => disk \notin {below, belowBoot}
  /\ pc \in MountedSteps /\ mounted = disk => boot \in {NoDisk, disk}

LEMMA MountInit == Init => MountInv
  BY DEF Init, MountInv, MountedSteps, WritingSteps

(* Unmounting keeps the invariant at whatever step the script then is.     *)
LEMMA CleanupSteps ==
  ASSUME TypeOK, Asked, MountInv, CleanupMounts, pc \in InstallSteps,
         pc' = "exited" \/ (pc' = pc /\ disk' = disk)
  PROVE  MountInv'
<1> USE DEF MountedSteps, WritingSteps
<1>1. disk \in Disks /\ disk # NoDisk
  BY DisksAssumption DEF Asked, TypeOK
<1>2. CASE /\ mounted' = below /\ boot' = belowBoot
           /\ below' = NoDisk /\ belowBoot' = NoDisk
           /\ stuck' = stuck \cap {below, belowBoot}
  BY <1>1, <1>2 DEF MountInv
<1>3. CASE /\ stuck = {}
           /\ boot' \in {boot, NoDisk}
           /\ stuck' = {mounted, boot'} \ {NoDisk}
           /\ UNCHANGED <<mounted, below, belowBoot>>
  BY <1>1, <1>3 DEF MountInv
<1> QED
  BY <1>2, <1>3 DEF CleanupMounts

LEMMA CutMounts ==
  ASSUME TypeOK, Asked, MountInv,
         \/ StepImpossible \/ CommandFails \/ Killed
         \/ Partition /\ Abort({})
  PROVE  MountInv'
<1>1. ASSUME NEW places, Abort(places), pc \in InstallSteps PROVE MountInv'
  BY <1>1, CleanupSteps DEF Abort, Exit
<1>2. CASE Killed
  BY <1>2 DEF Killed, Exit, MountInv, MountedSteps, WritingSteps
<1> QED
  BY <1>1, <1>2, CutCases

LEMMA MountStep == TypeOK /\ Asked /\ MountInv /\ [Next]_vars => MountInv'
<1> SUFFICES ASSUME TypeOK, Asked, MountInv, [Next]_vars PROVE MountInv'
  OBVIOUS
<1> USE DEF MountedSteps, WritingSteps
<1>1. CASE PanelStep
  <2>1. /\ UNCHANGED mountVars
        /\ (pc' = pc /\ disk' = disk) \/ {pc, pc'} \cap InstallSteps = {}
    BY <1>1 DEF PanelStep, SetTarget, OtherAction, Unavailable, PreviewDiskInstall,
       InstallDisk, RunAction, NotStarted, StartOnTerminal, Authorized, Refused,
       OtherEnds, ProcessFinished, TerminalReturns, NoProcess, Goto, Exit,
       processVars, vars, mountVars, InstallSteps
  <2> QED
    BY <2>1 DEF MountInv, mountVars, InstallSteps
<1>2. CASE Plan \/ Wipe
  BY <1>2 DEF Plan, Wipe, Goto, Exit, MountInv, mountVars
<1>3. CASE Partition
  <2>1. CASE Abort({})
    BY <1>3, <2>1, CutMounts
  <2>2. CASE disk \notin {mounted, boot, below, belowBoot}
    BY <1>3, <2>2 DEF Partition, Goto, MountInv, mountVars
  <2> QED
    BY <1>3, <2>1, <2>2 DEF Partition
<1>4. CASE Format
  BY <1>4 DEF Format, Goto, MountInv, mountVars
<1>5. CASE MountRoot
  BY <1>5 DEF MountRoot, Goto, MountInv
<1>6. CASE MountBoot
  BY <1>6 DEF MountBoot, Goto, MountInv
<1>7. CASE WritingStep
  BY <1>7 DEF WritingStep, Pacstrap, Fstab, CopySources, ChrootInstall, SetPasswords,
     Install, Goto, MountInv, mountVars
<1>8. CASE StepImpossible \/ CommandFails \/ Killed
  BY <1>8, CutMounts
<1>9. CASE Unmount \/ Terminated
  BY <1>9, CleanupSteps DEF Unmount, Exit, Terminated, processVars, InstallSteps
<1> QED
  BY <1>1, <1>2, <1>3, <1>4, <1>5, <1>6, <1>7, <1>8, <1>9, StepCases

(* By whatever step, error or trapped signal the script ends, it leaves    *)
(* nothing mounted unless unmounting failed or an earlier run was killed.  *)
THEOREM NothingStaysMounted == Safety => []NothingLeftMounted
<1>1. MountInv => NothingLeftMounted
  BY DEF MountInv, NothingLeftMounted, MountedSteps, WritingSteps
<1>2. ErasesAsAsked => TypeOK /\ Asked
  BY DEF ErasesAsAsked
<1> QED
  BY <1>1, <1>2, AskedInit, AskedStep, MountInit, MountStep, PTL DEF Safety

-----------------------------------------------------------------------------
(* Success.                                                                *)

(* What a step finds in the tree when nothing went wrong before it.        *)
Got(step) ==
  IF step = "fstab" THEN {"base"}
  ELSE IF step = "copy" THEN {"base", "fstab"}
  ELSE IF step = "chroot" THEN {"base", "fstab", "sources"}
  ELSE {}

(* The steps between mounting the EFI partition and the boot loader's.     *)
BootSteps == {"pacstrap", "fstab", "copy", "chroot"}

(* While its own disk is at the mount point, a run has installed there     *)
(* whatever it installed; and it comes to the end of the chroot step only  *)
(* there.  After that step the tree is whole but for the passwords, and    *)
(* another tree at the mount point cannot take them.                       *)
BeforePasswords ==
  /\ Items \ {"passwords"} \subseteq tree[disk]
  /\ disk \in loader
  /\ mounted = disk \/ ~({"base", "settings"} \subseteq tree[mounted])

Whole == tree[disk] = Items /\ disk \in loader

DoneInv ==
  /\ pc = "other" => ~execute
  /\ pc \in BootSteps /\ mounted = disk => Got(pc) \subseteq tree[disk]
  /\ ~exposed =>
       /\ pc = "mount boot" => mounted = disk
       /\ pc \in BootSteps => mounted = disk \/ boot = NoDisk
       /\ pc = "password" => BeforePasswords
       /\ pc = "unmount" => Whole
  /\ DoneMeansInstalled

LEMMA DoneInit == Init => DoneInv
  BY DEF Init, DoneInv, DoneMeansInstalled, BootSteps

LEMMA DoneStep ==
  TypeOK /\ Asked /\ MountInv /\ DoneInv /\ [Next]_vars => DoneInv'
<1> SUFFICES ASSUME TypeOK, Asked, MountInv, DoneInv, [Next]_vars PROVE DoneInv'
  OBVIOUS
<1> USE DEF BootSteps
(* Steps before the first mount, and the panel's, give no success.         *)
<1>1. CASE PanelStep
  <2>1. CASE UNCHANGED <<pc, disk, execute, ok, tree, loader, mounted, boot, exposed>>
    BY <2>1 DEF DoneInv, DoneMeansInstalled, BeforePasswords, Whole, Got
  <2>2. CASE /\ pc' \in {"idle", "asking", "other", "plan", "exited"}
             /\ pc' = "other" => ~execute'
             /\ pc' = "exited" => ~ok' \/ ~execute'
    BY <2>2 DEF DoneInv, DoneMeansInstalled
  <2>3. CASE (\E d \in Places : SetTarget(d)) \/ Unavailable \/ UNCHANGED vars
    BY <2>1, <2>3 DEF SetTarget, Unavailable, processVars, treeVars, mountVars, vars
  <2>4. ASSUME NEW name, NEW first \in {"asking", "other"}, NEW d, NEW erase,
               RunAction(name, first, d, erase), first = "other" => ~erase
        PROVE  DoneInv'
    <3>1. CASE NotStarted
      BY <2>1, <2>4, <3>1 DEF RunAction, NotStarted, processVars, treeVars, mountVars
    <3>2. CASE pc' = first /\ execute' = erase
      BY <2>2, <2>4, <3>2
    <3> QED
      BY <2>4, <3>1, <3>2 DEF RunAction
  <2>5. CASE OtherAction
    BY <2>4, <2>5 DEF OtherAction
  <2>6. CASE PreviewDiskInstall
    BY <2>4, <2>6 DEF PreviewDiskInstall
  <2>7. CASE InstallDisk
    BY <2>4, <2>7 DEF InstallDisk
  <2>8. CASE (\E d \in Disks : StartOnTerminal(d)) \/ Authorized
    BY <2>2, <2>8 DEF StartOnTerminal, Authorized, Goto
  <2>9. CASE Refused
    BY <2>2, <2>9 DEF Refused, Exit
  <2>10. CASE OtherEnds
    BY <2>2, <2>10 DEF OtherEnds, Exit, DoneInv
  <2>11. CASE ProcessFinished \/ TerminalReturns
    BY <2>2, <2>11 DEF ProcessFinished, TerminalReturns, NoProcess
  <2> QED
    BY <1>1, <2>3, <2>5, <2>6, <2>7, <2>8, <2>9, <2>10, <2>11 DEF PanelStep
<1>2. CASE Plan \/ Wipe \/ Format
  <2>1. CASE Plan
    <3>1. CASE pc' = "wipe"
      BY <3>1 DEF DoneInv, DoneMeansInstalled
    <3>2. CASE pc' = "exited" /\ (~ok' \/ ~execute')
      BY <3>2 DEF DoneInv, DoneMeansInstalled
    <3> QED
      BY <2>1, <3>1, <3>2 DEF Plan, Goto, Exit
  <2>2. CASE Wipe
    BY <2>2 DEF Wipe, Goto, DoneInv, DoneMeansInstalled
  <2>3. CASE Format
    BY <2>3 DEF Format, Goto, DoneInv, DoneMeansInstalled
  <2> QED
    BY <1>2, <2>1, <2>2, <2>3
<1>3. ASSUME pc' = "exited", ~ok' PROVE DoneInv'
  BY <1>3 DEF DoneInv, DoneMeansInstalled
<1>4. CASE Partition
  BY <1>4, <1>3 DEF Partition, Abort, Exit, Goto, DoneInv, DoneMeansInstalled
<1>5. CASE MountRoot
  BY <1>5 DEF MountRoot, Goto, DoneInv, DoneMeansInstalled
<1>6. CASE MountBoot
  BY <1>6 DEF MountBoot, Goto, DoneInv, DoneMeansInstalled, Got, treeVars
<1>7. CASE Pacstrap \/ Fstab \/ CopySources
  <2>1. /\ UNCHANGED <<disk, mounted, boot, exposed>>
        /\ pc \in BootSteps /\ pc' \in BootSteps
    BY <1>7 DEF Pacstrap, Fstab, CopySources, Install, Goto, mountVars
  <2>2. ASSUME mounted = disk PROVE Got(pc') \subseteq tree'[disk]
    <3>1. Got(pc) \subseteq tree[disk]
      BY <2>1, <2>2 DEF DoneInv
    <3> QED
      BY <1>7, <2>2, <3>1 DEF Pacstrap, Fstab, CopySources, Install, Goto, Got, TypeOK
  <2> QED
    BY <2>1, <2>2 DEF DoneInv, DoneMeansInstalled
<1>8. CASE ChrootInstall
  <2>1. /\ UNCHANGED <<disk, mounted, boot, exposed>>
        /\ pc = "chroot" /\ pc' = "password" /\ boot # NoDisk
        /\ tree' = [tree EXCEPT ![mounted] = @ \cup {"settings"}]
        /\ loader' = loader \cup {boot}
    BY <1>8 DEF ChrootInstall, Install, Goto, mountVars
  <2>2. ~exposed' => BeforePasswords'
    <3> SUFFICES ASSUME ~exposed PROVE BeforePasswords'
      BY <2>1
    <3>1. mounted = disk /\ boot = disk
      BY <2>1 DEF DoneInv, MountInv, MountedSteps, WritingSteps
    <3>2. {"base", "fstab", "sources"} \subseteq tree[disk]
      BY <2>1, <3>1 DEF DoneInv, Got
    <3> QED
      BY <2>1, <3>1, <3>2 DEF BeforePasswords, Items, TypeOK
  <2> QED
    BY <2>1, <2>2 DEF DoneInv, DoneMeansInstalled
<1>9. CASE SetPasswords
  <2>1. /\ UNCHANGED <<disk, mounted, loader, exposed>>
        /\ pc = "password" /\ pc' = "unmount"
        /\ {"base", "settings"} \subseteq tree[mounted]
        /\ tree' = [tree EXCEPT ![mounted] = @ \cup {"passwords"}]
    BY <1>9 DEF SetPasswords, Install, Goto, mountVars
  <2>2. ~exposed' => Whole'
    BY <2>1 DEF DoneInv, BeforePasswords, Whole, Items, TypeOK
  <2> QED
    BY <2>1, <2>2 DEF DoneInv, DoneMeansInstalled
<1>10. CASE StepImpossible \/ CommandFails \/ Killed
  BY <1>10, <1>3, CutCases DEF Abort, Killed, Exit
<1>11. CASE Unmount
  BY <1>11 DEF Unmount, Exit, DoneInv, DoneMeansInstalled, Whole, treeVars
<1>12. CASE Terminated
  <2>1. /\ UNCHANGED <<pc, disk, execute, ok, tree, loader>>
        /\ pc \in InstallSteps
        /\ ~exposed' => ~exposed
    BY <1>12 DEF Terminated, processVars, treeVars
  <2>2. ~exposed' /\ pc = "mount boot" => mounted' = disk
    BY <1>12 DEF Terminated
  <2>3. ~exposed' /\ pc \in BootSteps => mounted' = disk \/ boot' = NoDisk
    BY <1>12 DEF Terminated
  <2>4. ~exposed' /\ pc = "password" => BeforePasswords'
    BY <1>12, <2>1 DEF Terminated, DoneInv, BeforePasswords
  <2>5. ~exposed' /\ pc = "unmount" => Whole'
    BY <2>1 DEF DoneInv, Whole
  <2>6. pc \in BootSteps /\ mounted' = disk => mounted = disk
    BY <1>12 DEF Terminated, CleanupMounts, MountInv, MountedSteps, WritingSteps
  <2> QED
    BY <2>1, <2>2, <2>3, <2>4, <2>5, <2>6 DEF DoneInv, DoneMeansInstalled, InstallSteps
<1> QED
  BY <1>1, <1>2, <1>4, <1>5, <1>6, <1>7, <1>8, <1>9, <1>10, <1>11, <1>12, StepCases
     DEF WritingStep

(* Success of install-os.sh means a whole system on the disk it was given, *)
(* whatever failed, was killed or stayed mounted before, unless a signal   *)
(* left it in another tree in which it can reach its end.                  *)
THEOREM DoneIsInstalled == Safety => []DoneMeansInstalled
<1>1. DoneInv => DoneMeansInstalled
  BY DEF DoneInv
<1>2. TypeOK /\ Asked /\ MountInv /\ DoneInv /\ [Next]_vars => DoneInv'
  BY DoneStep
<1>3. ErasesAsAsked => TypeOK /\ Asked
  BY DEF ErasesAsAsked
<1> QED
  BY <1>1, <1>2, <1>3, AskedInit, AskedStep, MountInit, MountStep, DoneInit, PTL
     DEF Safety

-----------------------------------------------------------------------------
(* Disks nobody asked for, and the disk at work.                           *)

Old(d) == layout[d] = "old"

(* A disk that was never wiped is as it was, and nothing of it is at the   *)
(* mount point, whatever is mounted and uncovered there.  The disk at work *)
(* has been wiped since another run wrote to it, and it gets its passwords *)
(* last.                                                                   *)
Fresh ==
  /\ \A d \in Disks : Old(d) => tree[d] = {} /\ d \notin loader
  /\ \A d \in Disks : d \in {mounted, boot, below, belowBoot} => ~Old(d)
  /\ pc \in InstallSteps \ {"wipe"} => ~Old(disk) /\ disk \notin altered
  /\ pc \in InstallSteps \ {"wipe", "unmount"} => "passwords" \notin tree[disk]

LEMMA FreshInit == Init => Fresh
  BY DisksAssumption DEF Init, Fresh, InstallSteps, Places

LEMMA CleanupFresh ==
  ASSUME Fresh, CleanupMounts, UNCHANGED <<layout, tree, loader>>,
         pc' = "exited" \/ (pc' = pc /\ disk' = disk /\ altered' = altered)
  PROVE  Fresh'
  BY DisksAssumption DEF Fresh, CleanupMounts, Old, InstallSteps

LEMMA FreshStep == TypeOK /\ Asked /\ Fresh /\ [Next]_vars => Fresh'
<1> SUFFICES ASSUME TypeOK, Asked, Fresh, [Next]_vars PROVE Fresh'
  OBVIOUS
<1> USE DisksAssumption DEF Old, InstallSteps
<1>1. CASE PanelStep
  <2>1. /\ UNCHANGED <<layout, tree, loader, altered, mounted, boot, below, belowBoot>>
        /\ pc' \notin InstallSteps \/ (pc' = pc /\ disk' = disk)
    BY <1>1 DEF PanelStep, SetTarget, OtherAction, Unavailable, PreviewDiskInstall,
       InstallDisk, RunAction, NotStarted, StartOnTerminal, Authorized, Refused,
       OtherEnds, ProcessFinished, TerminalReturns, NoProcess, Goto, Exit,
       processVars, vars, treeVars, mountVars
  <2> QED
    BY <2>1 DEF Fresh
<1>2. CASE Plan
  BY <1>2 DEF Plan, Goto, Exit, Fresh, treeVars, mountVars
<1>3. CASE Wipe
  <2>1. disk \in Disks
    BY <1>3 DEF Wipe, Asked, TypeOK
  <2>2. /\ UNCHANGED <<disk, mounted, boot, below, belowBoot>> /\ pc' = "partition"
        /\ layout' = [layout EXCEPT ![disk] = "blank"]
        /\ tree' = [tree EXCEPT ![disk] = {}] /\ loader' = loader \ {disk}
        /\ altered' = altered \ {disk}
    BY <1>3 DEF Wipe, Goto, mountVars
  <2> QED
    BY <2>1, <2>2 DEF Fresh, TypeOK, Places
<1>4. CASE StepImpossible \/ CommandFails \/ Killed \/ (Partition /\ Abort({}))
  <2>1. ASSUME NEW places, Abort(places) PROVE Fresh'
    BY <2>1, CleanupFresh DEF Abort, Exit
  <2>2. CASE Killed
    BY <2>2 DEF Killed, Exit, Fresh
  <2> QED
    BY <1>4, <2>1, <2>2, CutCases
<1>5. CASE Partition
  <2>1. CASE Abort({})
    BY <1>4, <1>5, <2>1
  <2>2. CASE Goto("format") /\ UNCHANGED <<treeVars, mountVars>>
    BY <1>5, <2>2 DEF Partition, Goto, Fresh, treeVars, mountVars
  <2> QED
    BY <1>5, <2>1, <2>2 DEF Partition
<1>6. CASE Format
  <2>1. disk \in Disks
    BY <1>6 DEF Format, Asked, TypeOK
  <2>2. \A d \in Disks : Old(d)' => Old(d)
    BY <1>6 DEF Format, TypeOK
  <2>3. ~Old(disk)'
    BY <1>6, <2>1 DEF Format, Goto, TypeOK
  <2> QED
    BY <1>6, <2>2, <2>3 DEF Format, Goto, Fresh, mountVars
<1>7. CASE MountRoot \/ MountBoot
  BY <1>7 DEF MountRoot, MountBoot, Goto, Fresh, treeVars
<1>8. CASE WritingStep
  <2>1. /\ UNCHANGED <<layout, disk, mounted, boot, below, belowBoot>>
        /\ pc \in InstallSteps \ {"wipe", "unmount"} /\ pc' \in InstallSteps \ {"wipe"}
        /\ \A d \in Places : d # mounted => tree'[d] = tree[d]
        /\ loader' \subseteq loader \cup {boot}
        /\ altered' = altered \cup ({mounted, boot} \ {disk, NoDisk})
    BY <1>8 DEF WritingStep, Pacstrap, Fstab, CopySources, ChrootInstall,
       SetPasswords, Install, Touched, Goto, mountVars, TypeOK
  <2>2. disk \in Places /\ mounted \in Places
    BY <2>1 DEF Asked, TypeOK, Places
  <2>3. CASE SetPasswords
    BY <2>1, <2>3 DEF SetPasswords, Install, Goto, Fresh, Places
  <2>4. CASE Pacstrap \/ Fstab \/ CopySources \/ ChrootInstall
    <3>1. PICK item \in Items \ {"passwords"} :
                 tree' = [tree EXCEPT ![mounted] = @ \cup {item}]
      BY <2>4 DEF Pacstrap, Fstab, CopySources, ChrootInstall, Install, Items
    <3>2. "passwords" \notin tree'[disk]
      BY <2>1, <2>2, <3>1 DEF Fresh, TypeOK
    <3> QED
      BY <2>1, <3>2 DEF Fresh, Places
  <2> QED
    BY <1>8, <2>3, <2>4 DEF WritingStep
<1>9. CASE Unmount
  BY <1>9, CleanupFresh DEF Unmount, Exit, treeVars
<1>10. CASE Terminated
  BY <1>10, CleanupFresh DEF Terminated, processVars, treeVars
<1> QED
  BY <1>1, <1>2, <1>3, <1>4, <1>5, <1>6, <1>7, <1>8, <1>9, <1>10, StepCases

-----------------------------------------------------------------------------
(* Steps of the installer are steps of the promise.                        *)

States == [d \in Disks |-> DiskState(d)]

PromiseInv == TypeOK /\ Asked /\ MountInv /\ DoneInv /\ Fresh

LEMMA SameStates ==
  ASSUME UNCHANGED <<layout, tree, loader, altered>>
  PROVE  States' = States
  BY DEF DiskState, States

(* What a writing step finds at the mount point besides its own disk was   *)
(* left there, and the run at work has been led astray to it.              *)
LEMMA TouchedLeft ==
  ASSUME PromiseInv, pc \in WritingSteps
  PROVE  {mounted, boot} \ {disk, NoDisk} \subseteq IF Astray THEN stuck \ {disk} ELSE {}
  BY DEF PromiseInv, MountInv, MountedSteps, WritingSteps, Astray

LEMMA PromiseStutters ==
  ASSUME UNCHANGED <<chosen, stuck>>, States' = States,
         Current' = Current, Astray' = Astray, Told' \in {Told, NoDisk}
  PROVE  [Promise!Next]_(Promise!vars)
  BY DEF Promise!Next, Promise!Return, Promise!vars, States

LEMMA StatesStutter ==
  ASSUME \A d \in Disks : DiskState(d)' = DiskState(d)
  PROVE  States' = States
  BY DEF States

(* The disks a step alters, and the one disk whose state it changes.       *)
LEMMA StatesAltered ==
  ASSUME NEW others,
         \A d \in Disks :
           DiskState(d)' = IF d \in others THEN "altered" ELSE DiskState(d)
  PROVE  States' = [d \in Disks |-> IF d \in others THEN "altered" ELSE States[d]]
  BY DEF States

LEMMA StatesChange ==
  ASSUME NEW d \in Disks, NEW new, DiskState(d)' = new,
         \A e \in Disks \ {d} : DiskState(e)' = DiskState(e)
  PROVE  States' = [States EXCEPT ![d] = new]
  BY DEF States

LEMMA PanelKeeps ==
  ASSUME PromiseInv, PanelStep
  PROVE  [Promise!Next]_(Promise!vars)
<1>1. UNCHANGED <<layout, tree, loader, altered, mounted, stuck>>
  BY DEF PanelStep, SetTarget, OtherAction, Unavailable, PreviewDiskInstall,
     InstallDisk, RunAction, NotStarted, StartOnTerminal, Authorized, Refused,
     OtherEnds, ProcessFinished, TerminalReturns, vars, treeVars, mountVars
<1>2. States' = States
  BY <1>1, SameStates
<1>3. /\ Current' = Current /\ Astray' = Astray
      /\ Told' \in {Told, NoDisk}
  <2>1. CASE UNCHANGED <<pc, disk, ok, execute, exposed>>
    BY <1>1, <2>1 DEF Current, Astray, Told
  <2>2. CASE {pc, pc'} \cap InstallSteps = {} /\ (pc' # "exited" \/ ~ok' \/ ~execute')
    BY <2>2 DEF Current, Astray, MountedSteps, WritingSteps, Told, InstallSteps
  <2>3. CASE (\E d \in Places : SetTarget(d)) \/ Unavailable \/ UNCHANGED vars
    BY <2>1, <2>3 DEF SetTarget, Unavailable, processVars, vars
  <2>4. ASSUME NEW name, NEW first \in {"asking", "other"}, NEW d, NEW erase,
               RunAction(name, first, d, erase)
        PROVE  \/ UNCHANGED <<pc, disk, ok, execute, exposed>>
               \/ {pc, pc'} \cap InstallSteps = {} /\ pc' # "exited"
    BY <2>4 DEF RunAction, NotStarted, processVars, InstallSteps
  <2>5. CASE OtherAction \/ PreviewDiskInstall \/ InstallDisk
    BY <2>1, <2>2, <2>4, <2>5 DEF OtherAction, PreviewDiskInstall, InstallDisk
  <2>6. CASE \/ \E d \in Disks : StartOnTerminal(d)
             \/ Authorized \/ Refused \/ OtherEnds
    BY <2>2, <2>6 DEF StartOnTerminal, Authorized, Refused, OtherEnds, Goto, Exit,
       PromiseInv, DoneInv, InstallSteps
  <2>7. CASE ProcessFinished \/ TerminalReturns
    BY <2>2, <2>7 DEF ProcessFinished, TerminalReturns, NoProcess, InstallSteps
  <2> QED
    BY <2>3, <2>5, <2>6, <2>7 DEF PanelStep
<1>4. CASE UNCHANGED chosen
  BY <1>1, <1>2, <1>3, <1>4, PromiseStutters
<1>5. ASSUME NEW d \in Disks, chosen' = chosen \cup {d}, Told' = Told
      PROVE  [Promise!Next]_(Promise!vars)
  BY <1>1, <1>2, <1>3, <1>5 DEF Promise!Next, Promise!Ask, Promise!vars, States
<1>6. CASE InstallDisk
  <2>1. target \in Disks /\ chosen' = chosen \cup {target}
    BY <1>6 DEF InstallDisk, PromiseInv, TypeOK, Places
  <2>2. Told' = Told
    BY <1>6 DEF InstallDisk, RunAction, NotStarted, processVars, Told
  <2> QED
    BY <1>5, <2>1, <2>2
<1>7. CASE \E d \in Disks : StartOnTerminal(d)
  <2> PICK d \in Disks : StartOnTerminal(d)
    BY <1>7
  <2>1. chosen' = chosen \cup {d} /\ Told' = Told
    BY DEF StartOnTerminal, Told
  <2> QED
    BY <1>5, <2>1
<1>8. \/ UNCHANGED chosen \/ InstallDisk \/ \E d \in Disks : StartOnTerminal(d)
  BY DEF PanelStep, SetTarget, OtherAction, Unavailable, PreviewDiskInstall,
     Authorized, Refused, OtherEnds, ProcessFinished, TerminalReturns, vars
<1> QED
  BY <1>4, <1>6, <1>7, <1>8

(* Unmounting leaves at most the disk at work mounted, and what was left.  *)
LEMMA CleanupLeaves ==
  ASSUME MountInv, CleanupMounts, pc \in InstallSteps
  PROVE  stuck' \subseteq stuck \cup {disk}
  BY DEF CleanupMounts, MountInv

(* A script cut short is a failure of the promise.                         *)
LEMMA CutFails ==
  ASSUME PromiseInv,
         \/ StepImpossible \/ CommandFails \/ Killed
         \/ Partition /\ Abort({})
  PROVE  [Promise!Next]_(Promise!vars)
<1> USE DisksAssumption
<1>1. PICK places \in SUBSET {mounted, boot} :
         /\ pc \in InstallSteps /\ (pc \notin WritingSteps => places = {})
         /\ Exit(FALSE) /\ Touched(places)
         /\ UNCHANGED <<layout, tree, loader, chosen>>
         /\ stuck' \subseteq stuck \cup {disk}
  <2>1. CASE Killed
    <3>1. PICK places \in Partly : Touched(places)
      BY <2>1 DEF Killed
    <3>2. stuck' \subseteq stuck \cup {disk}
      BY <2>1 DEF Killed, PromiseInv, MountInv
    <3> QED
      BY <2>1, <3>1, <3>2 DEF Killed, Partly
  <2>2. ASSUME NEW places \in SUBSET {mounted, boot}, Abort(places),
               pc \in InstallSteps \ {"unmount"}, pc \notin WritingSteps => places = {}
        PROVE  /\ Exit(FALSE) /\ Touched(places)
               /\ UNCHANGED <<layout, tree, loader, chosen>>
               /\ stuck' \subseteq stuck \cup {disk}
    BY <2>2, CleanupLeaves DEF Abort, PromiseInv
  <2> QED
    BY <2>1, <2>2, CutCases
<1> DEFINE others == places \ {disk, NoDisk}
<1>2. /\ Current = disk /\ disk \in Disks /\ Current' = NoDisk
      /\ Told = NoDisk /\ Told' = NoDisk /\ Astray' = FALSE
  BY <1>1 DEF Exit, Current, Told, Astray, MountedSteps, WritingSteps, InstallSteps,
     PromiseInv, Asked, TypeOK
<1>3. others \subseteq IF Astray THEN stuck \ {disk} ELSE {}
  BY <1>1, TouchedLeft
<1>4. States' = [d \in Disks |-> IF d \in others THEN "altered" ELSE States[d]]
  BY <1>1 DEF Touched, DiskState, States
<1>5. Promise!Fail
  <2>1. others \in SUBSET stuck /\ others \subseteq Promise!Reached
    BY <1>2, <1>3 DEF Promise!Reached
  <2> QED
    BY <1>1, <1>2, <1>4, <2>1 DEF Promise!Fail, Promise!Unmount, Promise!Alters, States
<1> QED
  BY <1>5 DEF Promise!Next

(* What the writing steps have in common.                                  *)
LEMMA WritingShape ==
  ASSUME PromiseInv, WritingStep
  PROVE  /\ pc \in WritingSteps /\ pc' \in MountedSteps
         /\ UNCHANGED <<layout, chosen, disk, mountVars>>
         /\ Current = disk /\ Current' = disk /\ disk \in Disks /\ mounted \in Places
         /\ Told = NoDisk /\ Told' = NoDisk /\ Astray' = Astray
         /\ Touched({mounted, boot})
         /\ \A d \in Disks : tree[d] \subseteq tree'[d] /\ tree'[d] \subseteq Items
         /\ \A d \in Disks : d # mounted => tree'[d] = tree[d]
         /\ loader \subseteq loader' /\ loader' \subseteq loader \cup {boot}
         /\ loader' # loader => pc = "chroot"
<1>1. /\ pc \in WritingSteps /\ pc' \in MountedSteps
      /\ UNCHANGED <<layout, chosen, disk, mountVars>> /\ Touched({mounted, boot})
      /\ loader \subseteq loader' /\ loader' \subseteq loader \cup {boot}
      /\ loader' # loader => pc = "chroot"
  BY DEF WritingStep, Pacstrap, Fstab, CopySources, ChrootInstall, SetPasswords,
     Install, Goto, WritingSteps, MountedSteps
<1>2. /\ disk \in Disks /\ mounted \in Places
      /\ Current = disk /\ Current' = disk /\ Told = NoDisk /\ Told' = NoDisk
      /\ Astray' = Astray
  BY <1>1 DEF PromiseInv, Asked, TypeOK, Current, Told, Astray, MountedSteps,
     WritingSteps, InstallSteps, mountVars
<1>3. PICK item \in Items : tree' = [tree EXCEPT ![mounted] = @ \cup {item}]
  BY DEF WritingStep, Pacstrap, Fstab, CopySources, ChrootInstall, SetPasswords,
     Install, Items
<1>4. \A d \in Disks : /\ tree[d] \subseteq tree'[d] /\ tree'[d] \subseteq Items
                       /\ d # mounted => tree'[d] = tree[d]
  BY <1>2, <1>3 DEF PromiseInv, TypeOK, Places
<1> QED
  BY <1>1, <1>2, <1>4

(* On its own disk a writing step completes the system, or leaves it       *)
(* unfinished; led astray, it alters what was left mounted, and its own    *)
(* disk, which lacks the passwords, stays unfinished.                      *)
LEMMA WritingKeeps ==
  ASSUME PromiseInv, WritingStep
  PROVE  [Promise!Next]_(Promise!vars)
<1> USE DisksAssumption
<1>1. /\ ~Old(disk) /\ disk \notin altered /\ disk \notin altered'
      /\ DiskState(disk) \in {"partial", "installed"}
      /\ DiskState(disk)' \in {"partial", "installed"}
  BY WritingShape DEF PromiseInv, Fresh, Old, DiskState, Touched, WritingSteps,
     InstallSteps
<1>2. CASE ~Astray
  <2>1. mounted = disk /\ boot \in {NoDisk, disk} /\ altered' = altered
    BY <1>2, WritingShape DEF Astray, PromiseInv, MountInv, MountedSteps,
       WritingSteps, Touched
  <2>2. \A e \in Disks \ {disk} : DiskState(e)' = DiskState(e)
    BY <2>1, WritingShape DEF DiskState
  <2>3. DiskState(disk) = "installed" => DiskState(disk)' = "installed"
    BY <1>1, WritingShape DEF DiskState
  <2>4. CASE DiskState(disk)' = DiskState(disk)
    <3>1. States' = States
      <4>1. ASSUME NEW e \in Disks PROVE DiskState(e)' = DiskState(e)
        <5>1. CASE e = disk
          BY <2>4, <5>1, WritingShape DEF DiskState
        <5> QED
          BY <2>2, <5>1
      <4> QED
        BY <4>1, StatesStutter
    <3> QED
      BY <3>1, WritingShape, PromiseStutters DEF mountVars
  <2>5. CASE DiskState(disk) = "partial" /\ DiskState(disk)' = "installed"
    <3>1. States' = [States EXCEPT ![disk] = "installed"]
      BY <2>2, <2>5, WritingShape, StatesChange
    <3>2. Promise!Complete
      BY <1>2, <2>5, <3>1, WritingShape DEF Promise!Complete, States, mountVars
    <3> QED
      BY <3>2 DEF Promise!Next
  <2> QED
    BY <1>1, <2>3, <2>4, <2>5
<1>3. CASE Astray
  <2> DEFINE others == {mounted, boot} \ {disk, NoDisk}
  <2>1. others \subseteq stuck \ {disk}
    BY <1>3, TouchedLeft, WritingShape
  <2>2. altered' = altered \cup others
    BY WritingShape DEF Touched
  <2>3. DiskState(disk)' = DiskState(disk)
    <3>1. tree'[disk] = tree[disk]
      BY <1>3, WritingShape DEF Astray
    <3>2. loader' # loader => tree[disk] # Items
      BY WritingShape DEF PromiseInv, Fresh, InstallSteps, Items
    <3> QED
      BY <1>1, <3>1, <3>2, WritingShape DEF DiskState, Old
  <2>4. ASSUME NEW e \in Disks, e # disk, e \notin others
        PROVE  DiskState(e)' = DiskState(e)
    <3>1. tree'[e] = tree[e] /\ (e \in loader' <=> e \in loader)
      BY <2>4, WritingShape
    <3> QED
      BY <2>2, <2>4, <3>1, WritingShape DEF DiskState
  <2>5. \A e \in others : DiskState(e)' = "altered"
    BY <2>2 DEF DiskState
  <2>6. States' = [d \in Disks |-> IF d \in others THEN "altered" ELSE States[d]]
    <3>1. \A d \in Disks :
            DiskState(d)' = IF d \in others THEN "altered" ELSE DiskState(d)
      <4>1. ASSUME NEW e \in Disks, e \notin others
            PROVE  DiskState(e)' = DiskState(e)
        <5>1. CASE e = disk
          BY <2>3, <5>1, WritingShape DEF DiskState
        <5> QED
          BY <2>4, <4>1, <5>1
      <4> QED
        BY <2>5, <4>1
    <3> QED
      BY <3>1, StatesAltered
  <2>7. Promise!Alter
    <3>1. others \in SUBSET stuck /\ others \subseteq Promise!Reached
      BY <1>3, <2>1, WritingShape DEF Promise!Reached
    <3> QED
      BY <2>6, <3>1, WritingShape
         DEF Promise!Alter, Promise!Alters, States, mountVars
  <2> QED
    BY <2>7 DEF Promise!Next
<1> QED
  BY <1>2, <1>3

LEMMA PromiseStep ==
  ASSUME PromiseInv, [Next]_vars
  PROVE  [Promise!Next]_(Promise!vars)
<1> USE DisksAssumption
<1>1. CASE PanelStep
  BY <1>1, PanelKeeps
<1>2. CASE StepImpossible \/ CommandFails \/ Killed
  BY <1>2, CutFails
<1>3. ASSUME UNCHANGED <<layout, tree, loader, altered, chosen, disk, stuck>>,
             {pc, pc'} \subseteq InstallSteps, Astray' = Astray
      PROVE  [Promise!Next]_(Promise!vars)
  <2>1. Current' = Current /\ Told' = NoDisk /\ Told = NoDisk
    BY <1>3 DEF Current, Told, InstallSteps
  <2> QED
    BY <1>3, <2>1, SameStates, PromiseStutters
<1>4. CASE Plan
  <2>1. UNCHANGED <<layout, tree, loader, altered, chosen, disk, stuck>> /\ pc = "plan"
    BY <1>4 DEF Plan, Goto, Exit, treeVars, mountVars
  <2>2. /\ States' = States
        /\ Told = NoDisk /\ Current = NoDisk /\ Astray' = Astray
    BY <1>4, <2>1, SameStates DEF Plan, Goto, Exit, Told, Current, Astray, MountedSteps,
       WritingSteps, InstallSteps
  <2>3. CASE execute /\ Goto("wipe")
    <3>1. disk \in Disks /\ disk \in chosen /\ Told' = NoDisk /\ Current' = disk
      BY <2>1, <2>3 DEF Goto, Told, Current, PromiseInv, Asked, TypeOK, InstallSteps
    <3>2. Promise!Begin(disk)
      BY <2>1, <2>2, <3>1 DEF Promise!Begin, States
    <3> QED
      BY <3>1, <3>2 DEF Promise!Next
  <2>4. CASE (~execute /\ Exit(TRUE)) \/ Exit(FALSE)
    <3>1. pc' = "exited" /\ (~execute' \/ ~ok')
      BY <2>4 DEF Exit
    <3>2. Told' = Told /\ Current' = Current
      BY <2>2, <3>1 DEF Told, Current, InstallSteps
    <3> QED
      BY <2>1, <2>2, <3>2, PromiseStutters
  <2> QED
    BY <1>4, <2>3, <2>4 DEF Plan
<1>5. CASE Wipe
  <2>1. /\ disk \in Disks /\ Told = NoDisk /\ Told' = NoDisk
        /\ Current = disk /\ Current' = disk /\ Astray' = Astray
        /\ UNCHANGED <<chosen, disk, stuck>>
    BY <1>5 DEF Wipe, Goto, Told, Current, Astray, MountedSteps, WritingSteps,
       PromiseInv, Asked, TypeOK, InstallSteps, mountVars
  <2>2. DiskState(disk)' = "partial"
    BY <1>5, <2>1 DEF Wipe, Goto, DiskState, PromiseInv, TypeOK, Items, Places
  <2>3. ASSUME NEW e \in Disks, e # disk PROVE DiskState(e)' = DiskState(e)
    BY <1>5, <2>3 DEF Wipe, DiskState, PromiseInv, TypeOK, Places
  <2>4. States' = [States EXCEPT ![disk] = "partial"]
    BY <2>1, <2>2, <2>3, StatesChange
  <2>5. Promise!Erase
    BY <2>1, <2>4 DEF Promise!Erase, States
  <2> QED
    BY <2>5 DEF Promise!Next
<1>6. CASE Partition
  <2>1. CASE Abort({})
    BY <1>6, <2>1, CutFails
  <2>2. CASE Goto("format") /\ UNCHANGED <<panelVars, treeVars, mountVars, chosen>>
    BY <1>3, <1>6, <2>2 DEF Partition, Goto, treeVars, mountVars, Astray, MountedSteps,
       WritingSteps, InstallSteps
  <2> QED
    BY <1>6, <2>1, <2>2 DEF Partition
<1>7. CASE Format
  <2>1. ~Old(disk) /\ disk \in Disks
    BY <1>7 DEF Format, PromiseInv, Fresh, Asked, TypeOK, InstallSteps
  <2>2. ASSUME NEW d \in Disks PROVE DiskState(d)' = DiskState(d)
    <3>1. Old(d)' <=> Old(d)
      BY <1>7, <2>1 DEF Format, Old, PromiseInv, TypeOK
    <3> QED
      BY <1>7, <3>1 DEF Format, Old, DiskState
  <2>3. /\ States' = States /\ UNCHANGED <<chosen, stuck>>
        /\ Told' = NoDisk /\ Current' = Current /\ Astray' = Astray
    BY <1>7, <2>2 DEF Format, Goto, States, Told, Current, Astray, MountedSteps,
       WritingSteps, InstallSteps, mountVars
  <2> QED
    BY <2>3, PromiseStutters
<1>8. CASE MountRoot \/ MountBoot
  BY <1>3, <1>8 DEF MountRoot, MountBoot, Goto, treeVars, Astray, MountedSteps,
     WritingSteps, InstallSteps
<1>9. CASE WritingStep
  BY <1>9, WritingKeeps
<1>10. CASE Unmount
  <2>1. /\ UNCHANGED <<layout, tree, loader, altered, chosen, disk>>
        /\ disk \in Disks /\ Told = NoDisk /\ Told' \in {disk, NoDisk}
        /\ Current = disk /\ Current' = NoDisk /\ Astray' = FALSE
        /\ stuck' \subseteq stuck \cup {disk}
        /\ Told' = disk => Whole /\ ~Old(disk) /\ disk \notin altered
    BY <1>10, CleanupLeaves DEF Unmount, Exit, Told, Current, Astray, MountedSteps,
       WritingSteps, treeVars, PromiseInv, Asked, TypeOK, DoneInv, Fresh, InstallSteps
  <2>2. States' = States
    BY <2>1, SameStates
  <2>3. CASE Told' = NoDisk
    <3>1. States' = [d \in Disks |-> IF d \in {} THEN "altered" ELSE States[d]]
      BY <2>2 DEF States
    <3>2. {} \in SUBSET stuck /\ {} \subseteq Promise!Reached
      OBVIOUS
    <3>3. Promise!Fail
      BY <2>1, <2>3, <3>1, <3>2
         DEF Promise!Fail, Promise!Unmount, Promise!Alters, States
    <3> QED
      BY <3>3 DEF Promise!Next
  <2>4. CASE Told' = disk
    <3>1. States[disk] = "installed"
      BY <2>1, <2>4 DEF States, DiskState, Whole, Old, Items
    <3>2. Promise!Succeed
      BY <2>1, <2>2, <2>4, <3>1 DEF Promise!Succeed, Promise!Unmount, States
    <3> QED
      BY <3>2 DEF Promise!Next
  <2> QED
    BY <2>1, <2>3, <2>4
<1>11. CASE Terminated
  <2>1. /\ UNCHANGED <<layout, tree, loader, altered, chosen, disk, pc>>
        /\ pc \in InstallSteps /\ disk \in Disks
        /\ Current' = Current /\ Current = disk /\ Told' = NoDisk /\ Told = NoDisk
        /\ stuck' \subseteq stuck \cup {disk}
    BY <1>11, CleanupLeaves DEF Terminated, processVars, treeVars, Current, Told,
       InstallSteps, PromiseInv, Asked, TypeOK
  <2>2. Astray => Astray'
    BY <1>11, <2>1 DEF Terminated, CleanupMounts, Astray, PromiseInv, MountInv
  <2>3. States' = States
    BY <2>1, SameStates
  <2>4. Astray' \in BOOLEAN
    BY DEF Astray
  <2>5. Promise!Signal
    BY <2>1, <2>2, <2>3, <2>4 DEF Promise!Signal, Promise!Unmount, States
  <2> QED
    BY <2>5 DEF Promise!Next
<1> QED
  BY <1>1, <1>2, <1>4, <1>5, <1>6, <1>7, <1>8, <1>9, <1>10, <1>11, StepCases

(* The backend and the script implement DiskInstall, for any disks, faults *)
(* and signals: a disk nobody asked for is left as it is, one that is not  *)
(* being installed changes only if an unmount or a kill left it mounted    *)
(* and a signal led the install on another disk into it, and success is    *)
(* told of an installed disk only.                                         *)
THEOREM InstallerKeepsPromise == Safety => KeepsDiskPromise
<1>1. Init => Promise!Init
  BY DEF Init, Promise!Init, DiskState, Told, Current, Astray, MountedSteps,
     WritingSteps, InstallSteps, Places
<1>2. ErasesAsAsked => TypeOK /\ Asked
  BY DEF ErasesAsAsked
<1>3. TypeOK /\ Asked /\ MountInv /\ DoneInv /\ [Next]_vars => DoneInv'
  BY DoneStep
<1>4. TypeOK /\ Asked /\ MountInv /\ DoneInv /\ Fresh /\ [Next]_vars =>
        [Promise!Next]_(Promise!vars)
  BY PromiseStep DEF PromiseInv
<1> QED
  BY <1>1, <1>2, <1>3, <1>4, AskedInit, AskedStep, MountInit, MountStep, DoneInit,
     FreshInit, FreshStep, PTL DEF Safety, KeepsDiskPromise, Promise!Spec

=============================================================================
