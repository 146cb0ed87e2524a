------------------------- MODULE ConfigBackupProofs -------------------------
(***************************************************************************)
(* Proofs about ConfigBackup, for any number of commands, seconds and      *)
(* saved settings, also when backups share a second.  The argument: a      *)
(* backup directory of one second's only backup has one writer             *)
(* (OneWriter), which finds it empty (Blank); and a settings directory     *)
(* once copied into a backup stays there, for whoever shares the backup    *)
(* only nests a second copy (OneCopier).  So from the moment a rollback    *)
(* has copied the settings in place until it is over, whatever lies in     *)
(* place is on a shelf or was saved meanwhile (ConfCaptured, QtCaptured):  *)
(* a writer that shares a backup overwrites the settings file in it, but   *)
(* with the very file that is in place.  A rollback nobody interferes with *)
(* is OnCourse throughout.                                                 *)
(***************************************************************************)
EXTENDS ConfigBackup, TLAPS

Active(p) == pc[p] # "idle"

OneWriter ==
  \A p, q \in Procs :
    Active(p) /\ Active(q) /\ own[p] = own[q] /\ own[p] \notin crowded => p = q

OneCopier ==
  \A p, q \in Procs :
    pc[p] = "backup_copy" /\ pc[q] = "backup_copy" /\ own[p] = own[q] => p = q

Blank ==
  /\ \A s \in Stamps \ made : backConf[s] = None /\ backQt[s] = None
  /\ \A p \in Procs :
       /\ Active(p) => own[p] \in made
       /\ pc[p] \in {"backup_open", "backup_copy", "backup_qt"} /\ own[p] \notin crowded =>
            backQt[own[p]] = None
       /\ pc[p] = "backup_open" /\ own[p] \notin crowded => backConf[own[p]] = None
       /\ pc[p] = "backup_copy" => backConf[own[p]] = Partial
       /\ pc[p] \in RestoreSteps => target[p] \in made

\* Steps after the settings directory, and after the settings file, have been copied.
ConfTaken == {"backup_qt", "backup_manifest", "restore_remove", "restore_open",
              "restore_copy"}
QtTaken   == {"backup_manifest"} \cup RestoreSteps

ConfCaptured ==
  \A p \in Procs :
    /\ pc[p] \in ConfTaken /\ target[p] # 0 /\ own[p] \notin crowded
    /\ conf \in Versions \ exposed
    => \E s \in Stamps : backConf[s] = conf

QtCaptured ==
  \A p \in Procs :
    /\ pc[p] \in QtTaken /\ target[p] # 0 /\ own[p] \notin crowded
    /\ qt \in Versions \ exposed
    => \E s \in Stamps : backQt[s] = qt

Restoring == \A p \in Procs : pc[p] \in RestoreSteps => target[p] # 0

JInv ==
  /\ TypeOK /\ OneWriter /\ OneCopier /\ Blank
  /\ ConfCaptured /\ QtCaptured /\ Restoring
-----------------------------------------------------------------------------

LEMMA InitJ == Init => JInv
<1> SUFFICES ASSUME Init PROVE JInv
  OBVIOUS
<1> USE BackupAssumption DEF Init
<1>1. TypeOK
  BY DEF TypeOK, NoGoal, Stamps, Versions, DirValues, FileValues
<1>2. \A p \in Procs : pc[p] = "idle"
  OBVIOUS
<1>3. OneWriter /\ OneCopier /\ Blank /\ ConfCaptured /\ QtCaptured /\ Restoring
  BY <1>2 DEF OneWriter, OneCopier, Blank, ConfCaptured, QtCaptured, Restoring, Active, ConfTaken,
              QtTaken, RestoreSteps, Stamps
<1>4. QED
  BY <1>1, <1>3 DEF JInv

LEMMA ValueFacts ==
  /\ None \in DirValues /\ Empty \in DirValues /\ Partial \in DirValues
  /\ None \in FileValues /\ NoGoal \in [conf : DirValues, qt : FileValues]
  /\ Versions \subseteq DirValues /\ Versions \subseteq FileValues
  /\ None \notin Versions /\ Empty \notin Versions /\ Partial \notin Versions
  /\ None # Empty /\ None # Partial
  /\ 0 \notin Stamps
  BY BackupAssumption DEF DirValues, FileValues, Versions, Stamps, NoGoal

LEMMA TypeJ == JInv /\ [Next]_vars => TypeOK'
<1> SUFFICES ASSUME JInv, [Next]_vars PROVE TypeOK'
  OBVIOUS
<1> USE ValueFacts
    DEF JInv, TypeOK, Goto, Finish, OnlyFor,
        BackupSteps, RestoreSteps, places, backed, shelves, history
<1>1. CASE Edit
  <2>1. edits' \in Versions /\ edits' \in DirValues /\ edits' \in FileValues
    BY <1>1, BackupAssumption DEF Edit, SetSetting, StartShell, EditConfig, Versions,
         DirValues, FileValues
  <2>2. QED
    BY <1>1, <2>1 DEF Edit, SetSetting, StartShell, EditConfig
<1>2. CASE Tick
  BY <1>2, BackupAssumption DEF Tick, Stamps
<1>3. ASSUME NEW p \in Procs, Step(p) PROVE TypeOK'
  <2>1. CASE Backup(p)
    BY <2>1 DEF Backup, CreateBackup
  <2>2. ASSUME NEW t \in made, Restore(p, t) PROVE TypeOK'
    BY <2>2 DEF Restore, CreateBackup
  <2>3. CASE ResetSettings(p)
    BY <2>3 DEF ResetSettings
  <2>4. CASE BackupOpen(p)
    BY <2>4 DEF BackupOpen
  <2>5. CASE BackupCopy(p)
    <3>1. CASE conf = None
      <4>1. /\ pc[p] \in BackupSteps \cup RestoreSteps /\ Finish(p) /\ OnlyFor(p)
            /\ UNCHANGED <<conf, qt, made, backConf, backQt, moved, now, edits>>
            /\ UNCHANGED <<exposed, crowded, asked>>
        BY <2>5, <3>1 DEF BackupCopy
      <4>2. QED
        BY <4>1
    <3>2. CASE conf # None
      BY <2>5, <3>2 DEF BackupCopy
    <3>3. QED
      BY <3>1, <3>2
  <2>6. CASE BackupQt(p)
    BY <2>6 DEF BackupQt
  <2>7. CASE BackupManifest(p)
    <3>1. CASE target[p] = 0
      <4>1. /\ pc[p] \in BackupSteps \cup RestoreSteps /\ Finish(p) /\ OnlyFor(p)
            /\ UNCHANGED <<conf, qt, made, backConf, backQt, moved, now, edits>>
            /\ UNCHANGED <<exposed, crowded, asked>>
        BY <2>7, <3>1 DEF BackupManifest
      <4>2. QED
        BY <4>1
    <3>2. CASE target[p] # 0
      BY <2>7, <3>2 DEF BackupManifest
    <3>3. QED
      BY <3>1, <3>2
  <2>8. CASE RestoreRemove(p)
    BY <2>8 DEF RestoreRemove
  <2>9. CASE RestoreOpen(p)
    BY <2>9 DEF RestoreOpen
  <2>10. CASE RestoreCopy(p)
    <3>1. CASE conf = None
      <4>1. /\ pc[p] \in BackupSteps \cup RestoreSteps /\ Finish(p) /\ OnlyFor(p)
            /\ UNCHANGED <<conf, qt, made, backConf, backQt, moved, now, edits>>
            /\ UNCHANGED <<exposed, crowded, asked>>
        BY <2>10, <3>1 DEF RestoreCopy
      <4>2. QED
        BY <4>1
    <3>2. CASE conf # None
      BY <2>10, <3>2 DEF RestoreCopy, Blank
    <3>3. QED
      BY <3>1, <3>2
  <2>11. CASE RestoreQt(p)
    BY <2>11 DEF RestoreQt, Blank
  <2>12. CASE Abort(p)
    BY <2>12 DEF Abort
  <2>13. QED
    BY <1>3, <2>1, <2>2, <2>3, <2>4, <2>5, <2>6, <2>7, <2>8, <2>9, <2>10, <2>11, <2>12
       DEF Step, RollbackNamed, RollbackLatest
<1>4. CASE UNCHANGED vars
  BY <1>4 DEF vars
<1>5. QED
  BY <1>1, <1>2, <1>3, <1>4 DEF Next

\* A directory keeps its one writer, who finds it blank.
LEMMA WriterStep == JInv /\ [Next]_vars => (OneWriter /\ OneCopier /\ Blank /\ Restoring)'
<1> SUFFICES ASSUME JInv, [Next]_vars PROVE (OneWriter /\ OneCopier /\ Blank /\ Restoring)'
  OBVIOUS
<1> USE ValueFacts
    DEF JInv, TypeOK, Goto, Finish,
        BackupSteps, RestoreSteps, places, backed, shelves, history,
        OneWriter, OneCopier, Blank, Active, Restoring
<1>1. CASE Edit
  BY <1>1 DEF Edit, SetSetting, StartShell, EditConfig
<1>2. CASE Tick
  BY <1>2 DEF Tick
<1>3. ASSUME NEW p \in Procs, Step(p) PROVE (OneWriter /\ OneCopier /\ Blank /\ Restoring)'
  <2>1. CASE Backup(p)
    BY <2>1 DEF Backup, CreateBackup
  <2>2. ASSUME NEW t \in made, Restore(p, t) PROVE (OneWriter /\ OneCopier /\ Blank /\ Restoring)'
    BY <2>2 DEF Restore, CreateBackup
  <2>3. CASE ResetSettings(p)
    BY <2>3 DEF ResetSettings
  <2>4. CASE BackupOpen(p)
    <3>1. CASE conf # None /\ backConf[own[p]] = None
      <4>1. /\ pc[p] = "backup_open" /\ pc' = [pc EXCEPT ![p] = "backup_copy"]
            /\ backConf' = [backConf EXCEPT ![own[p]] = Partial]
            /\ UNCHANGED <<own, target, made, backQt, crowded>>
        BY <2>4, <3>1 DEF BackupOpen
      <4>2. own[p] \in made /\ own[p] \in Stamps
        BY <4>1
      <4>3. OneWriter' /\ Restoring'
        BY <4>1
      <4>4. \A q \in Procs : pc[q] = "backup_copy" => own[q] # own[p]
        BY <3>1
      <4>5. OneCopier'
        BY <4>1, <4>4
      <4>6. Blank'
        BY <4>1, <4>2
      <4>7. QED
        BY <4>3, <4>5, <4>6
    <3>2. CASE ~(conf # None /\ backConf[own[p]] = None)
      <4>1. /\ pc[p] = "backup_open" /\ pc' = [pc EXCEPT ![p] = "backup_qt"]
            /\ UNCHANGED <<own, target, made, backConf, backQt, crowded>>
        BY <2>4, <3>2 DEF BackupOpen
      <4>2. QED
        BY <4>1
    <3>3. QED
      BY <3>1, <3>2
  <2>5. CASE BackupCopy(p)
    <3>1. CASE conf = None
      <4>1. /\ pc[p] \in BackupSteps \cup RestoreSteps /\ Finish(p) /\ OnlyFor(p)
            /\ UNCHANGED <<conf, qt, made, backConf, backQt, moved, now, edits>>
            /\ UNCHANGED <<exposed, crowded, asked>>
        BY <2>5, <3>1 DEF BackupCopy
      <4>2. QED
        BY <4>1
    <3>2. CASE conf # None
      BY <2>5, <3>2 DEF BackupCopy
    <3>3. QED
      BY <3>1, <3>2
  <2>6. CASE BackupQt(p)
    BY <2>6 DEF BackupQt
  <2>7. CASE BackupManifest(p)
    <3>1. CASE target[p] = 0
      <4>1. /\ pc[p] \in BackupSteps \cup RestoreSteps /\ Finish(p) /\ OnlyFor(p)
            /\ UNCHANGED <<conf, qt, made, backConf, backQt, moved, now, edits>>
            /\ UNCHANGED <<exposed, crowded, asked>>
        BY <2>7, <3>1 DEF BackupManifest
      <4>2. QED
        BY <4>1
    <3>2. CASE target[p] # 0
      BY <2>7, <3>2 DEF BackupManifest
    <3>3. QED
      BY <3>1, <3>2
  <2>8. CASE RestoreRemove(p)
    <3>1. CASE Goto(p, "restore_open")
      BY <2>8, <3>1 DEF RestoreRemove
    <3>2. CASE Goto(p, "restore_qt")
      BY <2>8, <3>2 DEF RestoreRemove
    <3>3. QED
      BY <2>8, <3>1, <3>2 DEF RestoreRemove
  <2>9. CASE RestoreOpen(p)
    <3>1. CASE Goto(p, "restore_copy")
      BY <2>9, <3>1 DEF RestoreOpen
    <3>2. CASE Goto(p, "restore_qt")
      BY <2>9, <3>2 DEF RestoreOpen
    <3>3. QED
      BY <2>9, <3>1, <3>2 DEF RestoreOpen
  <2>10. CASE RestoreCopy(p)
    <3>1. CASE conf = None
      <4>1. /\ pc[p] \in BackupSteps \cup RestoreSteps /\ Finish(p) /\ OnlyFor(p)
            /\ UNCHANGED <<conf, qt, made, backConf, backQt, moved, now, edits>>
            /\ UNCHANGED <<exposed, crowded, asked>>
        BY <2>10, <3>1 DEF RestoreCopy
      <4>2. QED
        BY <4>1
    <3>2. CASE conf # None
      BY <2>10, <3>2 DEF RestoreCopy
    <3>3. QED
      BY <3>1, <3>2
  <2>11. CASE RestoreQt(p)
    BY <2>11 DEF RestoreQt
  <2>12. CASE Abort(p)
    BY <2>12 DEF Abort
  <2>13. QED
    BY <1>3, <2>1, <2>2, <2>3, <2>4, <2>5, <2>6, <2>7, <2>8, <2>9, <2>10, <2>11, <2>12
       DEF Step, RollbackNamed, RollbackLatest
<1>4. CASE UNCHANGED vars
  BY <1>4 DEF vars
<1>5. QED
  BY <1>1, <1>2, <1>3, <1>4 DEF Next

\* What was captured stays captured.
LEMMA CaptureStep == JInv /\ [Next]_vars => (ConfCaptured /\ QtCaptured)'
<1> SUFFICES ASSUME JInv, [Next]_vars PROVE (ConfCaptured /\ QtCaptured)'
  OBVIOUS
<1> USE ValueFacts
    DEF JInv, TypeOK, Goto, Finish,
        BackupSteps, RestoreSteps, places, backed, shelves, history,
        OneWriter, OneCopier, Blank, Active, Restoring, ConfCaptured, QtCaptured, ConfTaken, QtTaken
<1>1. CASE Edit
  BY <1>1 DEF Edit, SetSetting, StartShell, EditConfig, RollingBack
<1>2. CASE Tick
  BY <1>2 DEF Tick
<1>3. ASSUME NEW p \in Procs, Step(p) PROVE (ConfCaptured /\ QtCaptured)'
  <2>1. CASE Backup(p)
    BY <2>1 DEF Backup, CreateBackup
  <2>2. ASSUME NEW t \in made, Restore(p, t) PROVE (ConfCaptured /\ QtCaptured)'
    BY <2>2 DEF Restore, CreateBackup
  <2>3. CASE ResetSettings(p)
    BY <2>3 DEF ResetSettings
  <2>4. CASE BackupOpen(p)
    BY <2>4 DEF BackupOpen
  <2>5. CASE BackupCopy(p)
    <3>1. CASE conf = None
      <4>1. /\ pc[p] \in BackupSteps \cup RestoreSteps /\ Finish(p) /\ OnlyFor(p)
            /\ UNCHANGED <<conf, qt, made, backConf, backQt, moved, now, edits>>
            /\ UNCHANGED <<exposed, crowded, asked>>
        BY <2>5, <3>1 DEF BackupCopy
      <4>2. QED
        BY <4>1
    <3>2. CASE conf # None
      BY <2>5, <3>2 DEF BackupCopy
    <3>3. QED
      BY <3>1, <3>2
  <2>6. CASE BackupQt(p)
    BY <2>6 DEF BackupQt
  <2>7. CASE BackupManifest(p)
    <3>1. CASE target[p] = 0
      <4>1. /\ pc[p] \in BackupSteps \cup RestoreSteps /\ Finish(p) /\ OnlyFor(p)
            /\ UNCHANGED <<conf, qt, made, backConf, backQt, moved, now, edits>>
            /\ UNCHANGED <<exposed, crowded, asked>>
        BY <2>7, <3>1 DEF BackupManifest
      <4>2. QED
        BY <4>1
    <3>2. CASE target[p] # 0
      BY <2>7, <3>2 DEF BackupManifest
    <3>3. QED
      BY <3>1, <3>2
  <2>8. CASE RestoreRemove(p)
    BY <2>8 DEF RestoreRemove
  <2>9. CASE RestoreOpen(p)
    BY <2>9 DEF RestoreOpen
  <2>10. CASE RestoreCopy(p)
    <3>1. CASE conf = None
      <4>1. /\ pc[p] \in BackupSteps \cup RestoreSteps /\ Finish(p) /\ OnlyFor(p)
            /\ UNCHANGED <<conf, qt, made, backConf, backQt, moved, now, edits>>
            /\ UNCHANGED <<exposed, crowded, asked>>
        BY <2>10, <3>1 DEF RestoreCopy
      <4>2. QED
        BY <4>1
    <3>2. CASE conf # None
      BY <2>10, <3>2 DEF RestoreCopy
    <3>3. QED
      BY <3>1, <3>2
  <2>11. CASE RestoreQt(p)
    BY <2>11 DEF RestoreQt
  <2>12. CASE Abort(p)
    BY <2>12 DEF Abort
  <2>13. QED
    BY <1>3, <2>1, <2>2, <2>3, <2>4, <2>5, <2>6, <2>7, <2>8, <2>9, <2>10, <2>11, <2>12
       DEF Step, RollbackNamed, RollbackLatest
<1>4. CASE UNCHANGED vars
  BY <1>4 DEF vars
<1>5. QED
  BY <1>1, <1>2, <1>3, <1>4 DEF Next

\* What a step puts over the settings in place is found elsewhere.
LEMMA StepKeeps ==
  ASSUME JInv, NEW p \in Procs, Step(p), own[p] \notin crowded,
         ResetSettings(p) => moved[now] = None,
         NEW v \in Versions \ exposed, Findable(v)
  PROVE  Findable(v)'
<1> USE ValueFacts
    DEF JInv, TypeOK, Goto, Finish, OnlyFor, BackupSteps, RestoreSteps, places, backed,
        shelves, history, Findable, OneCopier, Active, Blank, ConfCaptured, QtCaptured,
        Restoring, ConfTaken, QtTaken
<1>1. CASE Backup(p)
  BY <1>1 DEF Backup, CreateBackup
<1>2. ASSUME NEW t \in made, Restore(p, t) PROVE Findable(v)'
  BY <1>2 DEF Restore, CreateBackup
<1>3. CASE ResetSettings(p)
  BY <1>3 DEF ResetSettings
<1>4. CASE BackupOpen(p)
  BY <1>4 DEF BackupOpen
<1>5. CASE BackupCopy(p)
  BY <1>5 DEF BackupCopy
<1>6. CASE BackupQt(p)
  BY <1>6 DEF BackupQt
<1>7. CASE BackupManifest(p)
  BY <1>7 DEF BackupManifest
<1>8. CASE RestoreRemove(p)
  BY <1>8 DEF RestoreRemove
<1>9. CASE RestoreOpen(p)
  BY <1>9 DEF RestoreOpen
<1>10. CASE RestoreCopy(p)
  BY <1>10 DEF RestoreCopy
<1>11. CASE RestoreQt(p)
  BY <1>11 DEF RestoreQt
<1>12. CASE Abort(p)
  BY <1>12 DEF Abort
<1>13. QED
  BY <1>1, <1>2, <1>3, <1>4, <1>5, <1>6, <1>7, <1>8, <1>9, <1>10, <1>11, <1>12
     DEF Step, RollbackNamed, RollbackLatest

-----------------------------------------------------------------------------

LEMMA Inductive == Spec => []JInv
<1>1. JInv /\ [Next]_vars => JInv'
  BY TypeJ, WriterStep, CaptureStep DEF JInv
<1>2. QED
  BY InitJ, <1>1, PTL DEF Spec

\* The books of backup, rollback and reset are well formed, with any number of commands.
THEOREM BackupTypeCorrect == Spec => []TypeOK
<1>1. JInv => TypeOK
  BY DEF JInv
<1>2. QED
  BY Inductive, <1>1, PTL

\* No command, however many run at once and wherever they are cut short, makes settings
\* disappear that were saved while no rollback ran, unless it shares its second.
THEOREM SettingsKept == Spec => NothingLost
<1>1. JInv /\ [Next]_vars =>
        [\A p \in Procs :
           /\ Step(p)
           /\ own[p] \notin crowded
           /\ ResetSettings(p) => moved[now] = None
           => \A v \in Versions \ exposed : Findable(v) => Findable(v)']_vars
  BY StepKeeps
<1>2. QED
  BY Inductive, <1>1, PTL DEF Spec, NothingLost

-----------------------------------------------------------------------------
(* A rollback nobody interferes with.  The backup it restores still holds  *)
(* what it held when it was chosen, even if it is the one being written,   *)
(* but for the settings file then; and the directory of settings is out of *)
(* the way when the copy is made.                                          *)

OnCourse(p) ==
  alone[p] /\ Active(p) /\ target[p] # 0 =>
    /\ goal[p].conf # None => goal[p].conf = backConf[target[p]]
    /\ own[p] # target[p] => goal[p].qt = backQt[target[p]]
    /\ pc[p] = "backup_copy" /\ own[p] = target[p] => goal[p].conf = None
    /\ pc[p] = "restore_open" => conf = None
    /\ pc[p] = "restore_copy" => conf # None
    /\ pc[p] = "restore_qt" /\ goal[p].conf # None => conf = goal[p].conf

CourseInv == \A p \in Procs : OnCourse(p)

LEMMA CourseStep ==
  ASSUME JInv, CourseInv, [Next]_vars
  PROVE  CourseInv'
<1>0. /\ pc \in [Procs -> {"idle"} \cup BackupSteps \cup RestoreSteps]
      /\ own \in [Procs -> {0} \cup made] /\ target \in [Procs -> {0} \cup made]
      /\ alone \in [Procs -> BOOLEAN]
      /\ goal \in [Procs -> [conf : DirValues, qt : FileValues]]
      /\ backConf \in [Stamps -> DirValues] /\ backQt \in [Stamps -> FileValues]
      /\ made \subseteq Stamps /\ now \in Stamps
  BY DEF JInv, TypeOK
<1>1. CASE UNCHANGED vars \/ Tick
  BY <1>1 DEF Tick, vars, places, shelves, backed, history, CourseInv, OnCourse, Active
<1>2. CASE Edit
  BY <1>2 DEF Edit, SetSetting, StartShell, EditConfig, CourseInv, OnCourse
<1>3. ASSUME NEW p \in Procs, Step(p) PROVE CourseInv'
  <2>1. ASSUME \A q \in Procs : alone'[q] => q = p, OnCourse(p)' PROVE CourseInv'
    BY <2>1 DEF CourseInv, OnCourse
  <2>2. OnCourse(p)
    BY DEF CourseInv
  <2>3. CASE Backup(p)
    <3>1. target'[p] = 0 /\ \A q \in Procs : alone'[q] => q = p
      BY <1>0, <2>3 DEF Backup, CreateBackup
    <3> QED
      BY <2>1, <3>1 DEF OnCourse
  <2>4. ASSUME NEW t \in made, Restore(p, t) PROVE CourseInv'
    <3>1. /\ own'[p] = now /\ target'[p] = t
          /\ pc'[p] = "backup_open" /\ UNCHANGED <<backConf, backQt>>
          /\ goal'[p] = [conf |-> backConf[t], qt |-> backQt[t]]
          /\ \A q \in Procs : alone'[q] => q = p
      BY <1>0, <2>4 DEF Restore, CreateBackup, backed
    <3> QED
      BY <2>1, <3>1 DEF OnCourse
  <2>5. CASE ResetSettings(p)
    BY <2>5 DEF ResetSettings, CourseInv, OnCourse
  <2>6. ASSUME OnlyFor(p), pc[p] # "idle", pc'[p] = "idle" PROVE CourseInv'
    <3>1. \A q \in Procs : alone'[q] => q = p
      BY <2>6 DEF OnlyFor
    <3> QED
      BY <2>1, <2>6, <3>1 DEF OnCourse, Active
  <2>7. ASSUME OnlyFor(p), NEW st, Goto(p, st), pc[p] # "idle",
               alone[p] /\ target[p] # 0 =>
                 /\ goal[p].conf # None => backConf'[target[p]] = backConf[target[p]]
                 /\ own[p] # target[p] => backQt'[target[p]] = backQt[target[p]]
                 /\ st = "backup_copy" /\ own[p] = target[p] => goal[p].conf = None
                 /\ st = "restore_open" => conf' = None
                 /\ st = "restore_copy" => conf' # None
                 /\ st = "restore_qt" /\ goal[p].conf # None => conf' = goal[p].conf
        PROVE  CourseInv'
    <3>1. /\ \A q \in Procs : alone'[q] => q = p
          /\ alone'[p] => alone[p]
      BY <2>7 DEF OnlyFor
    <3>2. UNCHANGED <<own, target, goal>> /\ pc'[p] = st
      BY <1>0, <2>7 DEF Goto
    <3>3. OnCourse(p)'
      BY <2>2, <2>7, <3>1, <3>2 DEF OnCourse, Active
    <3> QED
      BY <2>1, <3>1, <3>3
  <2>8. ASSUME Finish(p) PROVE pc'[p] = "idle"
    BY <1>0, <2>8 DEF Finish
  <2>9. CASE BackupOpen(p)
    <3>1. /\ OnlyFor(p) /\ pc[p] # "idle"
          /\ \/ /\ backConf[own[p]] = None /\ Goto(p, "backup_copy")
                /\ backConf' = [backConf EXCEPT ![own[p]] = Partial]
             \/ UNCHANGED backConf /\ Goto(p, "backup_qt")
          /\ UNCHANGED backQt
      BY <2>9 DEF BackupOpen
    <3>2. alone[p] /\ target[p] # 0 =>
            /\ goal[p].conf # None => backConf'[target[p]] = backConf[target[p]]
            /\ backConf[own[p]] = None /\ own[p] = target[p] => goal[p].conf = None
      BY <1>0, <2>2, <3>1 DEF OnCourse, Active
    <3> QED
      BY <2>7, <3>1, <3>2
  <2>10. CASE BackupCopy(p)
    <3>1. /\ OnlyFor(p) /\ pc[p] # "idle"
          /\ \/ Finish(p)
             \/ Goto(p, "backup_qt") /\ backConf' = [backConf EXCEPT ![own[p]] = conf]
          /\ UNCHANGED backQt
      BY <2>10 DEF BackupCopy
    <3>2. CASE Finish(p)
      BY <2>6, <2>8, <3>1, <3>2
    <3>3. CASE Goto(p, "backup_qt") /\ backConf' = [backConf EXCEPT ![own[p]] = conf]
      <4>1. alone[p] /\ target[p] # 0 /\ goal[p].conf # None =>
              backConf'[target[p]] = backConf[target[p]]
        BY <1>0, <2>2, <2>10, <3>3 DEF OnCourse, Active, BackupCopy
      <4> QED
        BY <2>7, <3>1, <3>3, <4>1
    <3> QED
      BY <3>1, <3>2, <3>3
  <2>11. CASE BackupQt(p)
    <3>1. /\ OnlyFor(p) /\ pc[p] # "idle" /\ Goto(p, "backup_manifest")
          /\ UNCHANGED backConf
          /\ backQt' = backQt \/ backQt' = [backQt EXCEPT ![own[p]] = qt]
      BY <2>11 DEF BackupQt
    <3>2. own[p] # target[p] => target[p] = 0 \/ backQt'[target[p]] = backQt[target[p]]
      BY <1>0, <3>1
    <3> QED
      BY <2>7, <3>1, <3>2
  <2>12. CASE BackupManifest(p)
    <3>1. /\ OnlyFor(p) /\ pc[p] # "idle" /\ UNCHANGED <<backConf, backQt>>
          /\ Finish(p) \/ Goto(p, "restore_remove")
      BY <2>12 DEF BackupManifest, shelves, backed
    <3> QED
      BY <2>6, <2>7, <2>8, <3>1
  <2>13. CASE RestoreRemove(p)
    <3>1. /\ OnlyFor(p) /\ pc[p] = "restore_remove" /\ UNCHANGED <<backConf, backQt>>
          /\ \/ conf' = None /\ Goto(p, "restore_open")
             \/ backConf[target[p]] = None /\ Goto(p, "restore_qt")
      BY <2>13 DEF RestoreRemove, shelves, backed
    <3>2. alone[p] /\ target[p] # 0 /\ goal[p].conf # None => goal[p].conf = backConf[target[p]]
      BY <2>2, <3>1 DEF OnCourse, Active
    <3> QED
      BY <2>7, <3>1, <3>2
  <2>14. CASE RestoreOpen(p)
    <3>1. /\ OnlyFor(p) /\ pc[p] = "restore_open" /\ UNCHANGED <<backConf, backQt>>
          /\ \/ conf' = Partial /\ Goto(p, "restore_copy")
             \/ conf # None /\ Goto(p, "restore_qt")
      BY <2>14 DEF RestoreOpen, shelves, backed
    <3>2. alone[p] /\ target[p] # 0 => conf = None
      BY <2>2, <3>1 DEF OnCourse, Active
    <3> QED
      BY <2>7, <3>1, <3>2, ValueFacts
  <2>15. CASE RestoreCopy(p)
    <3>1. /\ OnlyFor(p) /\ pc[p] = "restore_copy" /\ UNCHANGED <<backConf, backQt>>
          /\ \/ Finish(p)
             \/ conf' = backConf[target[p]] /\ Goto(p, "restore_qt")
      BY <2>15 DEF RestoreCopy, shelves, backed
    <3>2. alone[p] /\ target[p] # 0 /\ goal[p].conf # None => goal[p].conf = backConf[target[p]]
      BY <2>2, <3>1 DEF OnCourse, Active
    <3> QED
      BY <2>6, <2>7, <2>8, <3>1, <3>2
  <2>16. CASE RestoreQt(p) \/ Abort(p)
    <3>1. OnlyFor(p) /\ pc[p] # "idle" /\ Finish(p)
      BY <2>16 DEF RestoreQt, Abort
    <3> QED
      BY <2>6, <2>8, <3>1
  <2> QED
    BY <1>3, <2>3, <2>4, <2>5, <2>9, <2>10, <2>11, <2>12, <2>13, <2>14, <2>15, <2>16
       DEF Step, RollbackNamed, RollbackLatest
<1> QED
  BY <1>1, <1>2, <1>3 DEF Next

\* A rollback nobody interferes with, however many ran before it and wherever they were
\* cut short, puts in place what its backup held; of one it writes to itself, the directory.
THEOREM RollbackWorks == Spec => RollbackRestores
<1>1. Init => CourseInv
  BY DEF Init, CourseInv, OnCourse, Active
<1>2. JInv /\ CourseInv /\ [Next]_vars => CourseInv'
  BY CourseStep
<1>3. JInv /\ CourseInv =>
        [\A p \in Procs : alone[p] /\ RestoreQt(p) =>
           /\ goal[p].conf # None => conf' = goal[p].conf
           /\ goal[p].qt # None /\ own[p] # target[p] => qt' = goal[p].qt]_vars
  BY DEF CourseInv, OnCourse, JInv, Restoring, RestoreQt, Active, RestoreSteps
<1> QED
  BY Inductive, <1>1, <1>2, <1>3, PTL DEF Spec, RollbackRestores
=============================================================================
