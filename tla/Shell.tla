-------------------------------- MODULE Shell --------------------------------
(***************************************************************************)
(* The shell process as main.cpp assembles it: the AI assistant and the    *)
(* global shortcuts on one event loop.  They start and die together, and   *)
(* the login screen stands before both: the assistant's panels cannot be   *)
(* reached and shortcuts are dropped until it has closed.                  *)
(***************************************************************************)
EXTENDS AiAssistant

CONSTANT MaxCommands    \* bound on the shortcut commands sent

ASSUME MaxCommandsAssumption == MaxCommands \in Nat

VARIABLES gate, current, watched, report, pc, last, acted, heardOpen

Keys == INSTANCE Shortcuts

shortcutVars == <<gate, current, watched, report, pc, last, acted, heardOpen>>
shellVars == <<vars, shortcutVars>>

(* main(): the objects are built, AIAssistant among them, and              *)
(* globalShortcuts.start() comes last.                                     *)
StartShell == Start /\ Keys!StartWatching

CrashShell == (Crash \/ CrashWhileSaving) /\ Keys!StopWatching

UsePanels == gate = "desktop" /\ UserStep /\ UNCHANGED shortcutVars

AssistantEvent == BackgroundStep /\ UNCHANGED shortcutVars

ShortcutEvent ==
  Keys!ShortcutsStep /\ UNCHANGED vars

ShellInit == Init /\ Keys!ShortcutsInit

ShellNext ==
  \/ StartShell
  \/ CrashShell
  \/ UsePanels
  \/ AssistantEvent
  \/ ShortcutEvent

(* Qt's event loop goes on handling what arrives; the login, the user, the *)
(* commands and crashes come when they come.                               *)
ShellFairness ==
  /\ WF_shellVars(EngineFinished /\ UNCHANGED shortcutVars)
  /\ \A m \in Messages :
       WF_shellVars(ReplyFinished(m) /\ UNCHANGED shortcutVars)
  /\ WF_shellVars(Keys!ShellHandlesCommand /\ UNCHANGED vars)

ShellSpec == ShellInit /\ [][ShellNext]_shellVars /\ ShellFairness

(* A shortcut is acted on at most once, and in the order of the keys: see  *)
(* readCommandFile and m_lastCommand, through restarts of the shell.       *)
ShortcutsOnceInOrder == Keys!ShortcutsOnceInOrder

(* The shell never goes to sleep over a shortcut pressed at the desktop:   *)
(* readCommandFile takes the watch up again before it reads the file.      *)
NoShortcutMissed == Keys!NoShortcutMissed

(* The last shortcut pressed at the desktop is acted on while the shell    *)
(* lives: see the order of addPath and open in readCommandFile.            *)
LatestShortcutArrives == Keys!LatestShortcutArrives

=============================================================================
