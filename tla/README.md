# uNexus OS: models, checks and proofs

TLA+ modules for the parts of uNexus OS that change state others depend on: driver
switching, settings backups, the disk installer, and in the shell the file operations, the
AI assistant and the global shortcuts. They are model-checked on small instances with TLC
and, where marked, proved for every instance with TLAPS.
Paths below are relative to the repository.

## 1. The system

uNexus OS is a Qt6/QML shell on Hyprland (`packages/unexus-shell`), an installer
(`packages/unexus-installer`), POSIX shell tools (`scripts`), session files
(`packaging/linux`) and ISO profiles (`ISO`). It has no automated tests; its promises are in
`docs/` and in what the tools print.

| Component | State | Operations | Talks to |
|---|---|---|---|
| Driver Wizard (`scripts/unexusctl.sh`) | files in `/var/lib/unexus/driver-wizard`, pacman's database, the guard unit | `driver-apply`, `driver-confirm`, `driver-rollback` | pacman, mkinitcpio, systemctl |
| Boot guard, session timer (`packaging/linux`) | a sleeping process each | rollback after 180 s; confirm 20 s after the shell started | the wizard's files |
| GPU panel (`gpudrivermanager.cpp`) | state, offer, one `QProcess` | refresh, install, reboot | `pkexec unexusctl` |
| Settings backups (`unexusctl.sh`) | `~/.config/unexus`, the shell's settings file, `backups/` | backup, update, rollback, reset-settings | the shell, which saves settings at once |
| File manager (`filemanager.cpp`) | operation queue, search index | copy, move, trash threads; folder operations; search | file system, `gio`, FilesPanel |
| Files panel (`FilesPanel.qml`) | selection, clipboard, paste mode, confirmation token | copy, cut, paste, trash, refresh | FileManager's signals |
| AI assistant, engine | history and its file, busy, `llama-server` | start, stop, send, clear, allow or forbid saving | loopback HTTP, UserSettings |
| Installer (`installerbackend.cpp`, `install-os.sh`) | target, action, busy; the disks and what is mounted | preview, install, repair, diagnose, uninstall | `pkexec sh` |
| Command runner | one `QProcess`, busy, output | run, stop, cd | the user's shell |
| Shortcuts, Main.qml | a command file, two gates | send, read, dispatch | Hyprland binds |
| AppLauncher | none of its own: Hyprland's windows | launch, focus, close, minimize, move | hyprctl, pkill |
| Settings, stats, notifications, panels, scripts, ISO tools | see `PROJECT.json` | | |

What is hard: the wizard and the backup tools are shell scripts without locks, run by root,
by the session and by systemd at once, and every one may be cut short by a reboot; the
shell's backends hand work to processes and threads whose answers come later than the state
they were asked in. `PROJECT.json` lists the hazards line by line, with the properties that
would catch them.

What makes each part correct:

- Driver Wizard: a switch that was staged is either kept whole or undone to what was
  recorded as installed before it; nobody vouches for a switch but the boot that ran it; a
  pending switch is settled.
- Backups: no settings are lost; rollback restores the backup that was chosen.
- File manager: no file is lost or overwritten by operations beside each other; every
  operation is reported; search finds what is there.
- Files panel: a paste empties only the clipboard it pasted.
- AI assistant: an answer belongs to its message; what was wiped stays wiped; nothing is
  saved without permission; what is saved is what is remembered; the send button comes back.
- Installer: nothing is erased but a disk an install was asked for; success means that this
  disk has the whole system; nothing of it stays mounted; the panel gets its answer.
- Shortcuts: an action that was accepted reaches the shell, once, and in order.

## 2. The modules

| Module | Models | Proofs |
|---|---|---|
| `DriverWizard` | the three commands, the guard, the session's timer, boots | `DriverWizardProofs` |
| `DriverSwitch` | the wizard's promise, abstractly | `DriverSwitchProofs`: the wizard implements it |
| `DriverPanel` | `GpuDriverManager`, composed with `DriverWizard` | `DriverPanelProofs` |
| `ConfigBackup` | backup, update, rollback, reset-settings | `ConfigBackupProofs` |
| `FileOperations` | `FileManager`'s threads, queue and index | `FileOperationsProofs` |
| `AiAssistant` | `AIAssistant` and `AIEngine` with history.json and the permission to save | `AiAssistantProofs` |
| `Shortcuts` | `GlobalShortcuts`: the command file and its inotify watch | `ShellProofs` |
| `Shell` | `main.cpp`: assistant and shortcuts in one process behind the login screen | `ShellProofs` |
| `Installer` | `InstallerBackend` and `install-os.sh` | `InstallerProofs` |
| `DiskInstall` | the promise of installing to a disk, abstractly | `InstallerProofs`: the installer implements it |
| `MC...` | constants and symmetry for TLC | |

A definition whose comment begins with "Fault for P" is not part of a specification: it is
the definition after it with a plausible bug, and putting it in that one's place makes the
property P fail.

### DriverWizard

One step per file operation or external command. `pc[p]` is where a process is:
`Commands` are root's shells, `Guard` the systemd unit, `Timer` the session's subshell.
`before`, `target`, `pending`, `confirmed` are the files of the state directory,
`installed` and `dbLock` pacman's database and lock, `remove[p]` the shell variable
`packages_to_remove`, `running` what the machine booted with. `baseline`, `accepted`,
`staged`, `thisBoot`, `clean` and `applies` only serve properties.

- `rm -f pending confirmed` removes in this order, so it is two steps. The write of a record
  and its truncation are two steps for `packages-before` (a whole `pacman -Qq` runs between
  them) and one for the others.
- `installed_packages` ends in `2>/dev/null || true` (`unexusctl.sh:296`): when the query fails,
  nothing or a part of what is installed becomes the record, and the apply goes on
  (`ApplyRecord`, fault `"query"`). A rollback then removes target packages that were there
  before the switch.
- In `driver-apply` errexit is off inside the group before `||`: a failing pacman or
  mkinitcpio goes on to `systemctl enable`, whose status is the group's. In
  `driver-rollback` it is on.
- pacman installs and removes one package per step under its lock. A crash or a kill may
  leave the lock. `pacman -Rns` fails when a package is not installed.
- `Boot` ends every process, clears `session` and starts the guard if it is enabled. It is a
  clean reboot when no command runs and, if `"crash"` is in `Faults`, a power loss anywhere.
- The session is not root and the directory is sticky (mode 1777), so its `rm` of `pending`
  fails silently; it can write `confirmed`.
- Left out: `gpu` and the log, `driver-plan`, the initramfs' content, clocks, and dependencies:
  those `pacman -S` pulls in, and those the `-s` of `pacman -Rns` takes along because nothing
  else needs them. The sleeps end
  at any time, so every order of guard and session is there. systemctl, mkinitcpio and pacman
  are installed.

`DriverSwitch` has the phases `settled`, `staged`, `confirmed` and `void`. The refinement in
`KeepsPromise` maps `pending` and `accepted` to the phase, `baseline` (while a switch is
pending) or `installed` to its `base`, and `before` or `installed` to `kept`, what a rollback
must keep. A rolled back switch ends at `base \ (Recommended \ kept)`, which is the baseline when
the record is whole. The promise is void for a switch begun on top of
a pending one or of a running command: the code overwrites `packages-before` there. It starts
again (`Restart`) with the next switch that is begun when nothing is pending and nothing runs,
whatever was installed by then.

### DriverPanel

`job` is the panel's `QProcess`: nothing, pkexec asking for a password, or the process of
`Commands` it became; the panel's `m_busy` is `job # NoJob`. Actions of the panel are
conjunctions of a step of the wizard and the change of the panel (`PanelFinish`: the last
step of driver-apply and `installFinished`, whose RebootRequired or Error is the exit code
that `systemctl enable` gave). `promised` numbers the apply the panel last asked a reboot for;
it only serves `PanelHonest`. A session that ends takes the panel along, not
the root process. The GPU is an NVIDIA one, the only one for which an install is offered;
`Detect` also covers a missing `lspci`.

### ConfigBackup

Settings are numbered in the order in which they are saved. `conf` is `~/.config/unexus`
as a whole and `qt` the shell's settings file; `Partial` is a directory `cp -R` has begun,
`Empty` the one `ensure_dirs` makes. A backup is named by the second it was made in (`now`).
Copying a directory onto one that is there nests it: nothing changes where the code looks.
Two backups begun in one second write to the same directory; `crowded` is the set of such
seconds. `exposed`, `crowded`, `asked`, `alone` and `goal` only serve properties.

Left out: what `update` does after its backup; the other files of a backup; a clock that
goes back. Copying one file is one step. An `Edit` is a setter of `UserSettings` (`SetSetting`), a
first start of the shell, whose constructor writes its defaults (`StartShell`), or another
program's change of `~/.config/unexus` (`EditConfig`), which is also what `reset-settings` does when
it renames a `settings.json` inside it.

### FileOperations

A path is the sequence of its names, and `Paths` the finite set there may be: whatever would be
outside fails, as a name too long does. A tree is `Sound` if whatever exists is in directories all
the way up. `Workers` are the thread of each operation and the GUI thread (0), which only renames.

A step is one call that changes the file system or that asks whether a name is free, looked up in
what `QFile` does:

- `Take` checks a path and asks `uniqueTargetPath` for a free name; `RenamePath` is the test in
  `QDir::rename`. What follows is another step, so the name may be taken by then.
- `Rename` is `QFile::rename`. Within a device it is `renameat2` without replacement. Where that
  fails, because of two devices or of a file that came to the name, Qt writes the content of a
  file to the new name itself, over what is there, and `Unlink` removes the source, or else what
  it wrote. If all of this fails, a move copies and removes (`CopyRecursively`, `Place`, `Remove`).
- `CopyRecursively` makes a directory and lists it, or finds the name of a file free and reads it
  (the test in `QFile::copy`). `Place` gives the written temporary file its name, by a link or a
  rename that never replaces.
- `Remove` deletes one entry, bottom up, `Trash` runs `gio`, `UpdateOperation` is the posted
  result in the GUI thread.

The queue keeps the newest `QueueSize` operations, so it is a function of `started`. Paths of one
operation are taken in any order, and numbered names ("copy 1") are any free names. `exposed` has
the contents that were put where a running move or rename deletes (`Doomed`) or overwrites
(`Landings`) what it finds; it and `spoiled` only serve properties.

Left out: progress labels, the moments in which one file is half written, symbolic links, permissions (every call that can fail for them
can also fail for reasons that are modelled), the index's limit on entries, the synchronous
`copyPaths`, `movePaths` and `movePathsToTrash`, which no panel calls.

### AiAssistant

Each handler on the shell's thread is one step. `engine` is the `QProcess` (with the moment
between the end of llama-server and Qt's noticing it), `reply[m]` the network reply to the
m-th message, `partial` the ONE buffer every streamed answer is appended to
(`m_currentAssistantResponse`), abstracted to the set of messages whose answers it has tokens
of. `history` and the content `lines` of history.json are sequences of entries, a role and
such a set. `busy` is released by the end of a reply, by a stop and by the end of the engine;
the last two leave the old reply open, so a second message may be sent while the first answer
still arrives. `wipedTo`, `late`, `mixed` and `choiceLost` only serve properties.

- The history is written by truncating the file in place (`aiassistant.cpp:249`), so a crash in
  between leaves a `torn` file (`CrashWhileSaving`), which the next start does not load: the
  saved conversation is lost, but nothing wrong is loaded.
- The permission is a `QSettings` value: in memory at once (`consent`), on disk later
  (`stored`, `SettingsSync`). A crash in between forgets the choice (`choiceLost`).
- Forbidding removes the file; allowing loads it into an empty history or else writes it.
- Left out: `m_sseBuffer`, the one buffer of unfinished events in front of `partial`, which the
  same handlers clear; the prompt and the statistics in it, the choice of model and port (an engine that
  cannot bind its port exits, which is there), the wording of errors. A send without a running
  engine or while busy changes nothing.

### Shortcuts and Shell

A bind runs another process, which replaces the command file by a rename; the watch is on the
old inode, which reports a change and then its removal. `ChangeReported` and `RemovalReported`
are the two ways Qt may hand them over, `WatchAgain` and `ReadCommand` the two halves of
`readCommandFile`, between which another process may replace the file again. A command is its
number, standing for the action with its timestamp. `Shell` conjoins the starts and the crashes
of the two components, and lets the user reach the assistant's panels only past the login
screen (`gate`); its `ShellNext` is the event loop of the process.

### Installer

The panel's variables are those of `InstallerBackend`; `pc` is where the one process is: pkexec
asking, another action's program, or the step of `install_system`. The machine has `layout`,
`tree` and `loader` per disk, and what is seen at the mount point, `mounted` and `boot`, over what
an earlier run has left there, `below` and `belowBoot`. A step of the script installs an item into
the tree it SEES, which is the live system's own directory (`tree[NoDisk]`) once a trap has
unmounted the target. `altered` has the disks that an install on another disk has written to,
whole steps and steps cut short (`Partly`) alike: the settings the chroot script rewrites before
`bootctl` fails among them.

- The script runs under `set -e` (`CommandFails`, `Abort`); its trap is set for EXIT, INT and
  TERM, and for the signals it does not exit (`Terminated`): the script goes on. (`sh` is bash on Arch, whose EXIT trap also runs
  when a HUP ends it, so a hangup is a `CommandFails`.) `Killed` is SIGKILL, for which no trap
  runs: what is mounted stays.
- pkexec clears the environment and gives no terminal, so `PasswordKnown` holds only for a
  script started by hand. (For the same reason the panel's two switches,
  `UNEXUS_INSTALL_GAMING_LAUNCHERS` and `UNEXUS_CONFIGURE_BOOTLOADER`, which `runAction` puts into
  the environment of pkexec, do not reach the scripts of any action.)
- `cleanup_mounts` ignores failures (`install-os.sh:133` and `136`): the unmount of boot may fail,
  and with it the root's, or the root's alone. `stuck` has the disks left so. Bound: one failing
  cleanup or kill until what it left is gone, so the mount point has two layers at most.
- One process runs at a time, of the panel or of a terminal. Two at once would share
  `/mnt/unexus-install` without a lock; nothing is claimed about that.
- Left out: what the pages show. (`progress()` and the last page are about an installed shell,
  which a live ISO is, whatever became of the disk.) A panel closed during an install, which
  takes the script's output pipe away, is not modelled.

`DiskInstall` has, for each disk, one of the states untouched, partial, installed and altered, the
disk whose install is running (`current`), the disks installs have `left` mounted, whether a signal
has led the current install `astray`, and the disk of which success was told. A disk is erased or
completed only as the current one, which must have been asked for; another is written to (altered)
only if it was left mounted and the install is astray; and success is told of the current disk once
it is installed. `KeepsDiskPromise` maps `altered`, layout, tree and boot loader to the state
(untouched: the old layout, nothing in its tree and no loader; installed: every item and the
loader), the steps of `install_system` to `current`, `stuck` to `left`, a mount point that shows
another tree to `astray`, and the script's exit status, outside the window of `exposed`, to what was
told.

## 3. Runs

| Run | Bounds | Shows |
|---|---|---|
| `driver_wizard` | 2 root shells, guard, session; 2 packages, one of them already there; 2 applies, 2 boots; all faults (12.4 million states) | types; `SwitchIsTracked`, `FreshSwitchNotConfirmed`, `BaselineKept`, `GuardArmed` |
| `driver_promise` | 1 shell, guard and session, one at a time; 3 applies, 2 boots; all faults | `KeepsPromise`: refinement of `DriverSwitch` |
| `driver_panel` | panel, 2 root processes, guard, session; 2 applies, 2 boots; systemctl may fail, crashes | `PanelHonest`, `PanelWaitsForApply`, and under fairness `PanelAnswers`, `GuardSettles` |
| `config_backup` | 2 processes, 1 edit, 3 seconds, of which two backups may share the second; aborts anywhere | types, `NothingLost`, `RollbackRestores` |
| `file_operations` | 2 operations of 1 path, 2 devices with 8 paths, 3 contents, 1 rename, new folder or save by others, a queue of 1 | types, `FilesKept`, `NeverOverwrites`, `IndexComplete`, `EveryOperationReported` |
| `shell` | 2 messages, 2 shortcut commands, any number of crashes and restarts | types; `SavedOnlyWithConsent`, `WipedStaysWiped`, `RepliesBelong`, `SavedIsPrefix`, `ShortcutsOnceInOrder`, `NoShortcutMissed`, `BusyWithLatest`, and under fairness `AnswersEnd`, `LatestShortcutArrives` |
| `installer` | 2 disks, all faults, any number of previews, installs and retries | types; `ErasedAsAsked`, `DoneMeansInstalled`, `NothingLeftMounted`, `KeepsDiskPromise` (refinement of `DiskInstall`), and under fairness `InstallerAnswers` |
| `driver_no_home` | as packaged, no faults | violates `GuardSettles` |
| `driver_early_confirm` | one apply, no faults | violates `ConfirmedByLaterBoot` |
| `driver_masked` | one apply, pacman may fail | violates `StagedMeansInstalled` |
| `config_latest` | one user, no aborts | violates `RestoresUsersBackup` |
| `installer_graphical` | 2 disks, no faults | violates `GraphicalInstallFinishes` |

Why these bounds are enough to be interesting. Two packages tell a baseline from a switch, and a
half-done transaction from a whole one. Two applies and two boots allow a switch, its rollback or
confirmation, and another one with the files the first left behind; three applies in
`driver_promise` allow one on top of that. `driver_panel`, whose liveness needs the whole state
graph, leaves out the faults of pacman, mkinitcpio and timeouts; what they leave behind either
falsifies `Recoverable`, as the stale lock of a crash does here, or, when they hit the guard's own
run, ends the boot's chance to settle. Two shells beside guard and session already give four
processes on the same files. `CONSTRAINT WhileClean` in `driver_wizard` does not explore what
follows an apply that begins on top of another switch or command. (The theorems do, and
`driver_promise` has no such constraint: an apply there may follow one whose promise was void.)
Three seconds allow a backup, a rollback of it and a rollback of that. `CONSTRAINT FewShared` lets
only the second of them be shared, and makes it the last then: sharing more multiplies the states,
and the theorems are about any sharing. In `file_operations` the first device has a folder with a
file and a place for one more, so a file can be put into a folder on its way to the second device,
and two workers can be given one name (0.85 million states); a queue of one is overrun by two
operations as the code's five are by six. In `shell` two messages
are what it takes for one answer to get into another's place, before and after a wipe, a restart
or a change of the permission, and two commands for a replacement to fall between a removed watch
and the next one (558 thousand states). In `installer` the second disk is the one an earlier run
has left mounted, or half installed, when the next begins; the state has no counter, so every
sequence of runs is there (1.4 million states). `MaxApplies`, `MaxBoots`, `MaxEdits`, `MaxStamp`,
`MaxOps`, `MaxSources`, `MaxMessages`, `MaxCommands`, `Searched` and `Paths` are the only bounds,
all constants. Symmetry is used for `Commands` and `Procs` in runs without liveness. The runs of
the installer check for deadlock: a user can always start again. The others have CHECK_DEADLOCK
FALSE: with the bounds used up and everything idle there is nothing left to do.

Fairness. Weak fairness of `Proceed(p)`, `GuardWakes`, `TimerFires` (and their counterparts in
`DriverPanel`) says that the machine runs the processes it has started and that `sleep` ends; of
`Worker(i)`, that threads run and the GUI thread ends its renames and handles what is posted to it; of
`EngineFinished`, `ReplyFinished(m)` and `ShellHandlesCommand`, that the shell's event loop
handles what has arrived, and that llama-server, whose context is bounded, ends every answer; of
`ScriptStep \/ OtherEnds \/ ProcessFinished`, that the installer's one process ends and its end is
noticed. Users, passwords, tokens, signals, reboots, crashes and faults are not fair: a
property that needed them to happen would not hold.

Conditions in properties, and why they are not loopholes:

- `clean`: the wizard has no lock and overwrites its records when a switch is begun on top of
  another; what it promises is about a switch begun when none is pending and no command runs, and
  `clean` is about the latest apply only: whatever happened before, the next one in good order is
  promised everything again. Guard, session, crashes, repeated rollbacks and commands that begin
  after the apply stay free.
- The record in `BaselineKept` and `DriverSwitch`: a rollback goes by `packages-before`. What a failed
  query left out of it is removed with the rest of the target, which is what the code does; that
  nothing else is, and nothing the record has, is the promise.
- `Recoverable` in `GuardSettles`: pacman is not locked, and all that is to be removed is
  installed. After a masked failure of `pacman -S`, or a rollback cut short after `pacman -Rns`, the
  repeated rollback fails at its first missing package on every boot (`unexusctl.sh:434`, under
  `set -e`), and nothing in the code ends that. The property also says nothing of a boot in
  which a program that the guard itself calls fails.
- `exposed` in `NothingLost`: what is saved while a rollback replaces the settings is in no
  backup.
- `exposed` in `FilesKept` and `NeverOverwrites`: what is put into a folder (or in the place of a
  file) after a move of it fell back on copying, and what comes to the name a move or a rename has
  found free. The second is the race of two threads that `uniqueTargetPath` gives one name: two
  copies never replace each other's file, but `QFile::rename`'s own copy does. Without the condition
  TLC shows both losses, so it marks exactly the windows the code leaves open; every other file,
  in every interleaving, is covered.
- `crowded` in `NothingLost`: two backups in one second share a directory, where the settings
  file of the second replaces that of the first, so a command whose own backup is in a shared
  second is promised nothing, and so is a second `reset-settings` in one second, which renames onto
  the first one's `.bak-` file. Every other command is, also beside those.
- `own[p] # target[p]` in `RollbackRestores`: a rollback in the very second in which its backup was
  made writes into it, and replaces the settings file there. (The directory stays: `copy_path`
  nests a second copy.)
- `applies = promised` in `PanelHonest`: the panel's request is about its own switch, not about
  one begun after it by another shell.
- `late` in `WipedStaysWiped`: neither wipe button waits for, or aborts, an answer that is
  arriving. It is appended to the new history and, if saving is allowed, history.json is
  there again after the wipe that removed it (`docs/architecture.md:375`,
  `docs/ai-assistant.md:59`). The condition excuses exactly the answers under way at the wipe,
  and nothing a user said.
- `mixed` in `RepliesBelong`: after a stop and a new start, a message may be sent while an old
  answer still arrives; both go through the one buffer.
- `choiceLost` in `SavedOnlyWithConsent`: the shell died before QSettings wrote the choice.
- `stuck` in `NothingLeftMounted`: an unmount has failed, or a run was killed, and what it left is
  still mounted.
- `exposed` in `DoneMeansInstalled` and in what `DiskInstall` is told: a signal has taken the target
  away and left the script in a tree in which it can reach its end: just before the EFI partition
  is mounted (into the directory below); before the chroot, when another run's EFI partition lies
  below; or just before the passwords are set, in an older installed tree. At every other step
  the script cannot reach its end after a signal.
- `altered` in `KeepsDiskPromise`: what such a script writes to a disk that was left mounted. The
  abstract state keeps it apart from every other, so no step can hide it, and allows it only with
  `astray` and `left`.
- `spoiled` in `IndexComplete`: a failed operation, one dropped from the queue and any other
  program change files without clearing the index.

### What the violations say

1. `driver_no_home`: the guard is a system service without `User=` or `HOME`; `unexusctl`
   is `set -u` and expands `$HOME` in line 4, so the guard never rolls anything back. With
   `GuardHome = TRUE` the same property holds (`driver_panel`).
2. `driver_early_confirm`: the session confirms 20 s after the shell started, also in the
   boot that staged the switch; the docs say the next boot confirms.
3. `driver_masked`: a failing pacman or mkinitcpio is reported as a staged switch.
4. `config_latest`: after one `rollback` the latest backup is the one rollback made, so the
   next `rollback` restores the settings the user had left; the docs name user backups only.
5. `installer_graphical`: the panel has no field for a password and the script it starts cannot
   get one, so it stops at `set_passwords`, after the disk was erased and the system
   installed; `Erase and install` of `docs/building.md` never ends in "Disk install complete".

Not a run, but met on the way: `Super+B` sends `bugReport` (`unexus-session:116`, and
`docs/architecture.md:210` documents it), and `Main.qml` handles it, but `isKnownAction`
(`globalshortcuts.cpp:20`) does not have it, so the command is refused before it is sent.

## 4. Proofs

Safety needs no fairness: most theorems are about `Init /\ [][Next]_vars`, named `Safety` in the
module of the proof, which `Spec` implies. They hold for every value of the constants under the
named assumptions on them. Each module proves its type invariant first, by one step per action,
and the others from it.

`DriverWizardProofs` (assumption `WizardAssumption`):

- `TypeCorrect`, `Inductive`: `IInv`, the strengthening of the invariants. The four are not
  inductive by themselves: that a rollback removes nothing that was recorded depends on `before`
  staying as it is while `pending` exists; that depends on where an apply is; and a crash may end
  it there. `IInv` therefore says, for each process, what its step implies about the files, what
  `remove[p]` may contain, and what holds of the files when `pending` is there and nobody
  applies.
- `SwitchTracked`, `FreshNotConfirmed`, `KeepsBaseline` (of what was recorded, with failing queries
  among the faults), `StagedIsGuarded` follow.

`DriverSwitchProofs`: `WizardKeepsPromise`, `Exclusive /\ Spec => KeepsPromise`: with one command
at a time, the wizard refines `DriverSwitch`, through any number of void switches. On top of
`IInv` it needs that a command is alone (`Alone`), that what it has read of the switch is
therefore still so when it acts (`Current`), and that an accepted switch has its mark on disk
(`Marked`). Each step of the wizard is a step of the promise or a stutter (`PromiseStep`).

`DriverPanelProofs`: every step of the panel is a step of the wizard or leaves it alone, so
`PanelSafety` implies the wizard's `Spec` and its theorems (`PanelKeepsWizard`). `InstallIsShown`
(`JobInv`: the job is a root process still in its apply) and `PanelIsHonest` (`PromiseInv`: the
apply the panel promised is staged; the wizard's `GuardArmed` does the rest).

`ConfigBackupProofs` (assumption `BackupAssumption`): `BackupTypeCorrect`, and `SettingsKept`:
`Spec => NothingLost`. Its invariant `JInv` says that in a second that is not crowded one process
at most writes (`OneWriter`) and the places it has not come to are still blank (`Blank`), that in
any second at most one is inside a copy (`OneCopier`), and that a rollback past its backup has
saved every unexposed setting of the two places in it (`ConfCaptured`, `QtCaptured`). What a
crowded second holds is left open, which is why a command beside it needs nothing of it.
`CaptureStep` and `WriterStep` are the two kinds of steps that matter. `RollbackWorks` is
`RollbackRestores`: as long as nobody interferes with a rollback (`alone`), the backup it
restores holds what it did when it was chosen, its directory even if it is the one the rollback
writes, and the settings directory is out of the way when the copy is made (`OnCourse`).

`AiAssistantProofs`: `AssistantTypes`; `ConsentKept` and `SavedAgrees`, inductive as they stand;
`WipeIsFinal`, where `WipeInv` adds that whatever may still become an entry (what is under way
or in the buffer) survives the last wipe too; `AnswersBelong`, where `ReplyInv` adds that either
nothing is under way, or one answer is and its message is the last entry (`Alone`), or
everything under way is already excused; and `NeverStuck`, `BusyWithLatest`: a busy assistant has
its latest message under way. It is the safety half of `AnswersEnd`: fairness adds only that what is
under way ends.

`ShellProofs`: `ShellSpec` implies the assistant's `Safety`, so `ShellKeepsPromises`; and
`ShortcutsOnce`, whose `ShortcutInv` says that a command that was acted on and is still in the
file is the one read last, or nothing makes the shell read it. `NoneMissed` is `NoShortcutMissed`,
the safety half of `LatestShortcutArrives`: `WatchInv` says what is watched when nothing is
reported and nothing is being read, `MissInv` that a command sent at the desktop and not acted on
is then impossible: the watch is taken up again before the file is read, so a replacement in
between is either read or reported.

`InstallerProofs`: `InstallerTypes` with `OnlyAskedErased` (`Asked`: a process that erases has a
disk that was asked for, fixed when it was started); `NothingStaysMounted` (`MountInv`: what is at
the mount point belongs to the run at work or to `stuck`, and what lies below to `stuck`);
`DoneIsInstalled` (`DoneInv`: outside `exposed`, up to the chroot the script's own disk is mounted or
there is no EFI partition, and after it no other tree at the mount point can take the passwords);
and `InstallerKeepsPromise`, that every step is a step of `DiskInstall` or a stutter
(`PromiseStep`). For it `Fresh` adds that a disk with its old layout is blank and nowhere at the
mount point, which keeps steps after a signal from writing into it, that the disk at work has been
wiped since another run wrote to it, and that it gets its passwords last.

`FileOperationsProofs`: `FileTypes`, which includes that the tree stays a tree through every
copy, move, removal and rename (`AddEntry`, `MakePath`, `DropEntry`, `DropAll`, `RenameEntry`, on
lemmas about the order of path prefixes); `TargetsLanded`, that a name found free for a rename holds
no file but an exposed one, from which `NothingOverwritten` follows; `IndexStaysComplete`; and
`NoFileIsLost`, which is `FilesKept`. `FilesKept` is about one step, and says nothing of the
removal that comes many steps after a copy; `GoodInv` does. A place of a file is `Free` if every
move that fell back on copying, when the place lies below its source, still has to copy it. But a
rename that wrote its file anew may still remove the new place again, so two renames may undo each
other's work. `Ranked` therefore gives an unexposed file a set of free places with a rank: each
rename that removes one of them has written another of higher rank, and there is a root that no
rename may take back. So no step removes the last place of such a file. `Opened` says that what a
move has read of a file is what is still there, and `MoveSteps` that only moves remove.

Checked by TLC only: liveness, that is `PanelAnswers`, `GuardSettles`,
`EveryOperationReported`, `AnswersEnd`, `LatestShortcutArrives` and `InstallerAnswers`. The prover
has no rule for fairness and cannot expand ENABLED. Of three of them the safety half is proved: what
still has to happen is never lost (`BusyWithLatest`, `NoShortcutMissed`), and the panel does not
stop waiting for an install before its end (`PanelWaitsForApply`).

## 5. Done and left

Done, in the order of the first plan: the wizard with its panel, backups, file operations; then
the assistant, the shortcuts and the shell they share; the installer; and the proofs of each.

Left, the most valuable first:

1. `FilesPanel` over `FileOperations`: clipboard, paste mode, trash token, refresh. What
   operations it begins is covered (`FileOperations` lets any selection begin any of them at
   any time); its own hazard, that the end of one move empties a clipboard filled since
   (`FilesPanel.qml:639`), is listed and not modelled. The product with the threads of
   `FileOperations` is some ten times the present state space.
2. The command runner in `Shell`, and the rest of `run_update` in `ConfigBackup`.
3. Two installer processes at once; a panel closed while its script runs.

## 6. Not modelled

- Files panel, command runner: see above. The runner has one process at a time behind a busy
  flag whose end is handled as the installer backend's.
- AppLauncher: no state of its own. Each call asks Hyprland for its windows and sends a
  dispatch; what Hyprland does with it is not in this repository, so a model of it would be made up.
- System statistics, system info, Game Mode: they read `/proc`, `/sys` and tools and show the last
  value.
- Panels, notifications, layout, translation and wording in QML; listing, previews and
  thumbnails: they keep no state another part relies on.
- Setup, provisioning, uninstall, doctor and model setup scripts, ISO building and packaging:
  straight lines of commands, or read-only.

`PROJECT.json` gives the reason for each component.
