---------------------------- MODULE ConfigBackup ----------------------------
(***************************************************************************)
(* `unexusctl backup`, `update`, `rollback` and `reset-settings`           *)
(* (scripts/unexusctl.sh): copies of the settings in directories named by  *)
(* the second they were made in, while the shell and the user go on        *)
(* editing the settings.  The commands take no lock: each is modelled one  *)
(* file operation per step, and may be cut short after any of them.        *)
(*                                                                         *)
(* Settings are numbered in the order they are saved; two things are kept, *)
(* the directory ~/.config/unexus (conf) and the shell's settings file     *)
(* (qt).  `cp -R` of a directory onto one that is there puts the copy      *)
(* inside it, where nothing looks for it: conf stays as it was.            *)
(***************************************************************************)
EXTENDS Naturals

CONSTANTS
  Procs,           \* processes that run unexusctl
  MaxEdits,        \* bound on saved settings
  MaxStamp,        \* bound on the clock
  Aborts,          \* may a command be cut short?
  None,            \* no such file or directory
  Empty,           \* the directory ensure_dirs makes
  Partial          \* a copy that is not finished, or never was

ASSUME BackupAssumption ==
  /\ MaxEdits \in Nat /\ MaxStamp \in Nat \ {0}
  /\ Aborts \in BOOLEAN
  /\ None \notin Nat /\ Empty \notin Nat /\ Partial \notin Nat
  /\ None # Empty /\ None # Partial

Stamps   == 1..MaxStamp
Versions == 0..MaxEdits

DirValues  == Versions \cup {None, Empty, Partial}
FileValues == Versions \cup {None}

VARIABLES
  conf, qt,        \* the settings in place
  made,            \* names of the directories in backup_dir
  backConf, backQt,\* what each holds
  moved,           \* what reset-settings moved to <file>.bak-<stamp>
  now,             \* the clock
  pc, own,         \* step of each process; the backup it writes
  target,          \* the backup it restores, 0 for none
  edits,           \* settings saved so far
  \* History, read by properties only:
  exposed,         \* settings saved while a rollback was running
  crowded,         \* seconds in which more than one backup was begun
  asked,           \* backups made by `backup` or `update`
  alone,           \* nothing else happened since the process began
  goal             \* what the chosen backup held then

places  == <<conf, qt>>
backed  == <<backConf, backQt>>
shelves == <<made, backed, moved>>
history == <<exposed, crowded, asked, alone, goal>>
vars    == <<places, shelves, now, pc, own, target, edits, history>>

NoGoal == [conf |-> None, qt |-> None]

BackupSteps  == {"backup_open", "backup_copy", "backup_qt", "backup_manifest"}
RestoreSteps == {"restore_remove", "restore_open", "restore_copy", "restore_qt"}

RollingBack == \E p \in Procs : pc[p] # "idle" /\ target[p] # 0
Latest(t)   == t \in made /\ \A s \in made : s <= t

TypeOK ==
  /\ conf \in DirValues /\ qt \in FileValues
  /\ made \subseteq Stamps
  /\ backConf \in [Stamps -> DirValues] /\ backQt \in [Stamps -> FileValues]
  /\ moved \in [Stamps -> FileValues]
  /\ now \in Stamps
  /\ pc \in [Procs -> {"idle"} \cup BackupSteps \cup RestoreSteps]
  /\ own \in [Procs -> {0} \cup made] /\ target \in [Procs -> {0} \cup made]
  /\ edits \in Versions
  /\ exposed \subseteq Versions /\ crowded \subseteq made /\ asked \subseteq made
  /\ alone \in [Procs -> BOOLEAN]
  /\ goal \in [Procs -> [conf : DirValues, qt : FileValues]]

Init ==
  /\ conf = Empty /\ qt = 0
  /\ made = {} /\ moved = [s \in Stamps |-> None]
  /\ backConf = [s \in Stamps |-> None] /\ backQt = [s \in Stamps |-> None]
  /\ now = 1
  /\ pc = [p \in Procs |-> "idle"]
  /\ own = [p \in Procs |-> 0] /\ target = [p \in Procs |-> 0]
  /\ edits = 0
  /\ exposed = {} /\ crowded = {} /\ asked = {}
  /\ alone = [p \in Procs |-> FALSE] /\ goal = [p \in Procs |-> NoGoal]

OnlyFor(p) == alone' = [q \in Procs |-> q = p /\ alone[p]]

Goto(p, step) == pc' = [pc EXCEPT ![p] = step] /\ UNCHANGED <<own, target, goal>>

Finish(p) ==
  /\ pc' = [pc EXCEPT ![p] = "idle"]
  /\ own' = [own EXCEPT ![p] = 0] /\ target' = [target EXCEPT ![p] = 0]
  /\ goal' = [goal EXCEPT ![p] = NoGoal]

-----------------------------------------------------------------------------
(* The user and the clock.                                                 *)

\* A setter of UserSettings returns if the shell holds that value already, else it saves it.
SetSetting == qt' = edits' /\ UNCHANGED conf

\* A starting shell writes back what it has loaded, the defaults where there is no file; in
\* what setters have saved it finds nothing to repair.
StartShell == qt = None /\ qt' = edits' /\ UNCHANGED conf

\* An editor saves a file of ~/.config/unexus.
EditConfig == conf # None /\ conf' = edits' /\ UNCHANGED qt

Edit ==
  /\ edits < MaxEdits
  /\ edits' = edits + 1
  /\ SetSetting \/ StartShell \/ EditConfig
  /\ exposed' = IF RollingBack THEN exposed \cup {edits'} ELSE exposed
  /\ alone' = [p \in Procs |-> FALSE]
  /\ UNCHANGED <<shelves, now, pc, own, target, crowded, asked, goal>>

Tick ==
  /\ now < MaxStamp
  /\ now' = now + 1
  /\ UNCHANGED <<places, shelves, pc, own, target, edits, history>>

-----------------------------------------------------------------------------
(* create_backup, which rollback and update call too.                      *)

\* Fault for TypeOK: the directory of the backup is never made.
CreateBackupNowhere(p) ==
  /\ pc[p] = "idle"
  /\ own' = [own EXCEPT ![p] = now]
  /\ pc' = [pc EXCEPT ![p] = "backup_open"]
  /\ alone' = [q \in Procs |-> q = p /\ \A r \in Procs : pc[r] = "idle"]
  /\ UNCHANGED <<places, made, backed, moved, now, edits, exposed, crowded>>

\* ensure_dirs, and `mkdir -p` of the directory named by the clock.
CreateBackup(p) ==
  /\ pc[p] = "idle"
  /\ conf' = IF conf = None THEN Empty ELSE conf
  /\ made' = made \cup {now}
  /\ crowded' = IF now \in made THEN crowded \cup {now} ELSE crowded
  /\ own' = [own EXCEPT ![p] = now]
  /\ pc' = [pc EXCEPT ![p] = "backup_open"]
  /\ alone' = [q \in Procs |-> q = p /\ \A r \in Procs : pc[r] = "idle"]
  /\ UNCHANGED <<qt, backed, moved, now, edits, exposed>>

Backup(p) ==
  /\ CreateBackup(p)
  /\ target' = [target EXCEPT ![p] = 0]
  /\ asked' = asked \cup {now}
  /\ UNCHANGED goal

\* The backup to restore is chosen before the current settings are backed up.
Restore(p, t) ==
  /\ CreateBackup(p)
  /\ target' = [target EXCEPT ![p] = t]
  /\ goal' = [goal EXCEPT ![p] = [conf |-> backConf[t], qt |-> backQt[t]]]
  /\ UNCHANGED asked

RollbackNamed(p) == \E t \in made : Restore(p, t)

\* Fault for RollbackRestores: the latest backup is looked up after create_backup.
RollbackLatestAfter(p) ==
  /\ CreateBackup(p)
  /\ target' = [target EXCEPT ![p] = now]
  /\ \E t \in made :
       Latest(t) /\ goal' = [goal EXCEPT ![p] = [conf |-> backConf[t], qt |-> backQt[t]]]
  /\ UNCHANGED asked

RollbackLatest(p) == \E t \in made : Latest(t) /\ Restore(p, t)

BackupOpen(p) ==
  /\ pc[p] = "backup_open"
  /\ IF conf # None /\ backConf[own[p]] = None
       THEN Goto(p, "backup_copy") /\ backConf' = [backConf EXCEPT ![own[p]] = Partial]
       ELSE Goto(p, "backup_qt") /\ UNCHANGED backConf
  /\ OnlyFor(p)
  /\ UNCHANGED <<places, made, backQt, moved, now, edits, exposed, crowded, asked>>

\* Fault for NothingLost: a failing copy does not end the command.
BackupCopyUnchecked(p) ==
  /\ pc[p] = "backup_copy"
  /\ IF conf = None
       THEN UNCHANGED backConf
       ELSE \/ backConf' = [backConf EXCEPT ![own[p]] = conf]
            \/ UNCHANGED backConf
  /\ Goto(p, "backup_qt")
  /\ OnlyFor(p)
  /\ UNCHANGED <<places, made, backQt, moved, now, edits, exposed, crowded, asked>>

\* cp fails when another rollback has removed what it was copying; errexit ends the command.
BackupCopy(p) ==
  /\ pc[p] = "backup_copy"
  /\ IF conf = None
       THEN Finish(p) /\ UNCHANGED backConf
       ELSE Goto(p, "backup_qt") /\ backConf' = [backConf EXCEPT ![own[p]] = conf]
  /\ OnlyFor(p)
  /\ UNCHANGED <<places, made, backQt, moved, now, edits, exposed, crowded, asked>>

BackupQt(p) ==
  /\ pc[p] = "backup_qt"
  /\ backQt' = IF qt = None THEN backQt ELSE [backQt EXCEPT ![own[p]] = qt]
  /\ Goto(p, "backup_manifest")
  /\ OnlyFor(p)
  /\ UNCHANGED <<places, made, backConf, moved, now, edits, exposed, crowded, asked>>

BackupManifest(p) ==
  /\ pc[p] = "backup_manifest"
  /\ IF target[p] = 0 THEN Finish(p) ELSE Goto(p, "restore_remove")
  /\ OnlyFor(p)
  /\ UNCHANGED <<places, shelves, now, edits, exposed, crowded, asked>>

-----------------------------------------------------------------------------
(* The rest of restore_backup.                                             *)

RestoreRemove(p) ==
  /\ pc[p] = "restore_remove"
  /\ IF backConf[target[p]] # None
       THEN conf' = None /\ Goto(p, "restore_open")
       ELSE UNCHANGED conf /\ Goto(p, "restore_qt")
  /\ OnlyFor(p)
  /\ UNCHANGED <<qt, shelves, now, edits, exposed, crowded, asked>>

RestoreOpen(p) ==
  /\ pc[p] = "restore_open"
  /\ IF conf = None
       THEN conf' = Partial /\ Goto(p, "restore_copy")
       ELSE UNCHANGED conf /\ Goto(p, "restore_qt")
  /\ OnlyFor(p)
  /\ UNCHANGED <<qt, shelves, now, edits, exposed, crowded, asked>>

RestoreCopy(p) ==
  /\ pc[p] = "restore_copy"
  /\ IF conf = None
       THEN UNCHANGED conf /\ Finish(p)
       ELSE conf' = backConf[target[p]] /\ Goto(p, "restore_qt")
  /\ OnlyFor(p)
  /\ UNCHANGED <<qt, shelves, now, edits, exposed, crowded, asked>>

RestoreQt(p) ==
  /\ pc[p] = "restore_qt"
  /\ qt' = IF backQt[target[p]] = None THEN qt ELSE backQt[target[p]]
  /\ Finish(p)
  /\ OnlyFor(p)
  /\ UNCHANGED <<conf, shelves, now, edits, exposed, crowded, asked>>

\* The command is killed, the disk is full, or the machine stops.
Abort(p) ==
  /\ Aborts /\ pc[p] # "idle"
  /\ Finish(p)
  /\ OnlyFor(p)
  /\ UNCHANGED <<places, shelves, now, edits, exposed, crowded, asked>>

-----------------------------------------------------------------------------

\* reset-settings moves each settings file aside; in ~/.config/unexus that is an edit.
ResetSettings(p) ==
  /\ pc[p] = "idle"
  /\ qt' = None
  /\ moved' = IF qt = None THEN moved ELSE [moved EXCEPT ![now] = qt]
  /\ conf' = IF conf = None THEN Empty ELSE conf
  /\ alone' = [q \in Procs |-> FALSE]
  /\ UNCHANGED <<made, backed, now, pc, own, target, edits, exposed, crowded, asked, goal>>

Step(p) ==
  \/ Backup(p) \/ RollbackNamed(p) \/ RollbackLatest(p) \/ ResetSettings(p)
  \/ BackupOpen(p) \/ BackupCopy(p) \/ BackupQt(p) \/ BackupManifest(p)
  \/ RestoreRemove(p) \/ RestoreOpen(p) \/ RestoreCopy(p) \/ RestoreQt(p)
  \/ Abort(p)

Next == Edit \/ Tick \/ \E p \in Procs : Step(p)

Spec == Init /\ [][Next]_vars

-----------------------------------------------------------------------------

\* Is version v in place, in a backup, or moved aside?
Findable(v) ==
  \/ conf = v \/ qt = v
  \/ \E s \in Stamps : v \in {backConf[s], backQt[s], moved[s]}

\* No command, run beside others and cut short anywhere, makes settings disappear, except
\* those saved while a rollback was running: restore_backup backs up before it removes, and
\* a backup that fails stops it.  A command whose backup shares its second with another is
\* excused, and a second reset in one second: names made of seconds promise them nothing.
NothingLost ==
  [][\A p \in Procs :
       /\ Step(p)
       /\ own[p] \notin crowded
       /\ ResetSettings(p) => moved[now] = None
       => \A v \in Versions \ exposed : Findable(v) => Findable(v)']_vars

\* A rollback that runs to its end with nobody interfering puts in place what the chosen
\* backup held when it was chosen; of one made in this very second, which it writes to as
\* well, that is promised of ~/.config/unexus only, which copy_path never replaces.
RollbackRestores ==
  [][\A p \in Procs : alone[p] /\ RestoreQt(p) =>
       /\ goal[p].conf # None => conf' = goal[p].conf
       /\ goal[p].qt # None /\ own[p] # target[p] => qt' = goal[p].qt]_vars

\* docs/building.md: "Rollback restores the latest backup created by `unexusctl backup`
\* or `unexusctl update --yes`."
RestoresUsersBackup ==
  [][\A p \in Procs : RollbackLatest(p) /\ asked # {} =>
       target'[p] \in asked /\ \A s \in asked : s <= target'[p]]_vars
=============================================================================
