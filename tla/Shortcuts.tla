------------------------------ MODULE Shortcuts ------------------------------
(***************************************************************************)
(* Global shortcuts (packages/unexus-shell/src/globalshortcuts.cpp).  A    *)
(* Hyprland bind runs `unexus-shell --shortcut <action>`, which replaces a *)
(* one-line file; the running shell watches that file and acts on it.      *)
(*                                                                         *)
(* The file is replaced by a rename (QSaveFile), so that each command is a *)
(* new inode, and a watch is on an inode: after a replacement the watched  *)
(* inode reports a change (its link is gone) and then its removal, which   *)
(* takes the path out of QFileSystemWatcher.  Qt may read the two reports  *)
(* together or one by one.  A command is its number, which stands for the  *)
(* action and the time written with it.                                    *)
(***************************************************************************)
EXTENDS Naturals, Sequences

CONSTANT MaxCommands    \* bound on the commands sent

VARIABLES
  up,           \* the shell is running
  gate,         \* what the user sees: "login" or "desktop"
  current,      \* the command in the file, 0 for an empty file
  watched,      \* the inode the watch is on, by its command; see Unwatched
  report,       \* what inotify has to say about it: see Reports
  pc,           \* where readCommandFile is: "idle", "watch", "read"
  last,         \* m_lastCommand, 0 for none
  acted,        \* history: the commands acted on, in order
  heardOpen     \* history: the commands sent to this desktop, since its start

Commands  == 1 .. MaxCommands
Unwatched == MaxCommands + 1

(* "replaced": a change and a removal are queued; "removed": the removal   *)
(* is.                                                                     *)
Reports == {"none", "replaced", "removed"}

-----------------------------------------------------------------------------
(* `unexus-shell --shortcut`, another process: the shell need not run.     *)
Send ==
  /\ current < MaxCommands
  /\ current' = current + 1
  /\ report' = IF watched = current THEN "replaced" ELSE report
  /\ heardOpen' = IF up /\ gate = "desktop" THEN heardOpen \cup {current'}
                                            ELSE heardOpen
  /\ UNCHANGED <<up, gate, watched, pc, last, acted>>

(* The change is read alone: the path is still watched, as far as          *)
(* QFileSystemWatcher knows, and readCommandFile goes on to read.          *)
ChangeReported ==
  /\ up /\ pc = "idle"
  /\ report = "replaced"
  /\ report' = "removed"
  /\ pc' = "read"
  /\ UNCHANGED <<up, gate, current, watched, last, acted, heardOpen>>

(* The removal is read, with the change or after it: the watch is gone,    *)
(* and readCommandFile first takes it up again.                            *)
RemovalReported ==
  /\ up /\ pc = "idle"
  /\ report # "none"
  /\ report' = "none"
  /\ watched' = Unwatched
  /\ pc' = "watch"
  /\ UNCHANGED <<up, gate, current, last, acted, heardOpen>>

\* Fault for LatestShortcutArrives: addPath, then an early return.
WatchAgainOnly ==
  /\ up /\ pc = "watch"
  /\ watched' = current
  /\ pc' = "idle"
  /\ UNCHANGED <<up, gate, current, report, last, acted, heardOpen>>

WatchAgain ==
  /\ up /\ pc = "watch"
  /\ watched' = current
  /\ pc' = "read"
  /\ UNCHANGED <<up, gate, current, report, last, acted, heardOpen>>

\* Fault for ShortcutsOnceInOrder: m_lastCommand is not compared.
ReadCommandAgain ==
  /\ up /\ pc = "read"
  /\ pc' = "idle"
  /\ last' = current
  /\ acted' = IF current # 0 /\ gate = "desktop"
                THEN Append(acted, current) ELSE acted
  /\ UNCHANGED <<up, gate, current, watched, report, heardOpen>>

(* The rest of readCommandFile, and handleGlobalShortcut: a command that   *)
(* was read before is ignored, one read at the login screen is dropped.    *)
ReadCommand ==
  /\ up /\ pc = "read"
  /\ pc' = "idle"
  /\ last' = current
  /\ acted' = IF current \notin {0, last} /\ gate = "desktop"
                THEN Append(acted, current) ELSE acted
  /\ UNCHANGED <<up, gate, current, watched, report, heardOpen>>

(* The login animation ends.                                               *)
LogIn ==
  /\ up /\ gate = "login"
  /\ gate' = "desktop"
  /\ UNCHANGED <<up, current, watched, report, pc, last, acted, heardOpen>>

(* GlobalShortcuts::start: the file is made if it is missing, watched, and *)
(* not read.                                                               *)
StartWatching ==
  /\ watched' = current
  /\ gate' = "login"
  /\ UNCHANGED <<current, report, pc, last, acted, heardOpen>>

StopWatching ==
  /\ watched' = Unwatched
  /\ gate' = "login"
  /\ report' = "none"
  /\ pc' = "idle"
  /\ last' = 0
  /\ heardOpen' = {}
  /\ UNCHANGED <<current, acted>>

ShortcutsInit ==
  /\ gate = "login"
  /\ current = 0
  /\ watched = Unwatched
  /\ report = "none"
  /\ pc = "idle"
  /\ last = 0
  /\ acted = <<>>
  /\ heardOpen = {}

ShellHandlesCommand ==
  ChangeReported \/ RemovalReported \/ WatchAgain \/ ReadCommand

ShortcutsStep == Send \/ ShellHandlesCommand \/ LogIn

-----------------------------------------------------------------------------
(* A command is acted on at most once and never after a later one, however *)
(* often its replacement is reported: the actions are toggles, and a       *)
(* second one would undo the first.                                        *)
ShortcutsOnceInOrder ==
  \A i, j \in 1 .. Len(acted) : i < j => acted[i] < acted[j]

(* The safety half of LatestShortcutArrives, that no wakeup is lost: while *)
(* the newest command, sent to this desktop, has not been acted on, inotify*)
(* still has something to say or readCommandFile has yet to read the file. *)
NoShortcutMissed ==
  up /\ current \in heardOpen =>
    \/ \E i \in 1 .. Len(acted) : acted[i] = current
    \/ report # "none" \/ pc # "idle"

(* A command sent while the desktop is shown is acted on, unless the next  *)
(* one has taken its place in the file or the shell dies: no replacement   *)
(* falls between the watch that ended and the watch that replaces it.      *)
LatestShortcutArrives ==
  \A c \in Commands :
    (up /\ current = c /\ c \in heardOpen) ~>
      (~up \/ current # c \/ \E i \in 1 .. Len(acted) : acted[i] = c)

=============================================================================
