----------------------------- MODULE ShellProofs -----------------------------
(***************************************************************************)
(* Proofs about the whole shell, for any number of messages and commands:  *)
(* what AiAssistantProofs shows of the assistant holds beside the global   *)
(* shortcuts, and the shortcuts keep their own promise across restarts.    *)
(***************************************************************************)
EXTENDS Shell, AiAssistantProofs

-----------------------------------------------------------------------------
(* The assistant inside the shell.                                         *)

LEMMA ShellIsAssistant == ShellSpec => Safety
<1>1. ShellInit => Init
  BY DEF ShellInit
<1>2. [ShellNext]_shellVars => [Next]_vars
  BY DEF ShellNext, shellVars, StartShell, CrashShell, UsePanels,
         AssistantEvent, ShortcutEvent, Next
<1> QED
  BY <1>1, <1>2, PTL DEF ShellSpec, Safety

(* What the runs check of the assistant holds of every shell: its types,   *)
(* the four promises about what is said and what is saved, and that it is  *)
(* busy only with an answer under way.                                     *)
THEOREM ShellKeepsPromises ==
  ShellSpec => [](/\ TypeOK /\ SavedOnlyWithConsent /\ WipedStaysWiped
                  /\ RepliesBelong /\ SavedIsPrefix /\ BusyWithLatest)
  BY ShellIsAssistant, AssistantTypes, ConsentKept, WipeIsFinal, AnswersBelong,
     SavedAgrees, NeverStuck, PTL

-----------------------------------------------------------------------------
(* The shortcuts.  Commands are numbered in the order in which they are    *)
(* sent, and the file holds the newest.  A command that was acted on and   *)
(* is still in the file is either the one read last, or one read before a  *)
(* restart, which nothing has made the shell read again.                   *)

NothingToRead == report = "none" /\ pc = "idle"

ShortcutInv ==
  /\ current \in Nat
  /\ acted \in Seq(Nat)
  /\ \A i \in 1 .. Len(acted) : acted[i] <= current
  /\ (\E i \in 1 .. Len(acted) : acted[i] = current) =>
       current = last \/ NothingToRead
  /\ ShortcutsOnceInOrder

LEMMA ShortcutInit == ShellInit => ShortcutInv
<1> SUFFICES ASSUME ShellInit PROVE ShortcutInv
  OBVIOUS
<1>1. acted = <<>> /\ current = 0
  BY DEF ShellInit, Keys!ShortcutsInit
<1> QED
  BY <1>1 DEF ShortcutInv, ShortcutsOnceInOrder, Keys!ShortcutsOnceInOrder

(* Nothing is acted on, and nothing that was not to be read becomes so.    *)
LEMMA ShortcutQuiet ==
  ASSUME ShortcutInv, UNCHANGED <<current, acted>>,
         NothingToRead' \/ (last' = last /\ ~NothingToRead)
  PROVE  ShortcutInv'
<1>1. ShortcutsOnceInOrder'
  BY DEF ShortcutInv, ShortcutsOnceInOrder, Keys!ShortcutsOnceInOrder
<1> QED
  BY <1>1 DEF ShortcutInv

LEMMA ShortcutStep == ShortcutInv /\ [ShellNext]_shellVars => ShortcutInv'
<1> SUFFICES ASSUME ShortcutInv, [ShellNext]_shellVars PROVE ShortcutInv'
  OBVIOUS
<1> USE DEF NothingToRead
<1>1. CASE UNCHANGED shortcutVars
  BY <1>1 DEF shortcutVars, ShortcutInv, ShortcutsOnceInOrder,
              Keys!ShortcutsOnceInOrder
<1>2. CASE StartShell
  BY <1>2 DEF StartShell, Keys!StartWatching, ShortcutInv,
              ShortcutsOnceInOrder, Keys!ShortcutsOnceInOrder
<1>3. CASE CrashShell
  BY <1>3, ShortcutQuiet DEF CrashShell, Keys!StopWatching
<1>4. CASE Keys!Send
  <2>1. current' = current + 1 /\ acted' = acted
    BY <1>4 DEF Keys!Send
  <2> QED
    BY <2>1 DEF ShortcutInv, ShortcutsOnceInOrder, Keys!ShortcutsOnceInOrder
<1>5. CASE Keys!ChangeReported \/ Keys!RemovalReported \/ Keys!WatchAgain
  BY <1>5, ShortcutQuiet DEF Keys!ChangeReported, Keys!RemovalReported,
                             Keys!WatchAgain
<1>6. CASE Keys!LogIn
  BY <1>6 DEF Keys!LogIn, ShortcutInv, ShortcutsOnceInOrder,
              Keys!ShortcutsOnceInOrder
<1>7. CASE Keys!ReadCommand
  <2>1. pc = "read" /\ current' = current /\ last' = current
    BY <1>7 DEF Keys!ReadCommand
  <2>2. CASE acted' = acted
    BY <2>1, <2>2 DEF ShortcutInv, ShortcutsOnceInOrder,
                      Keys!ShortcutsOnceInOrder
  <2>3. CASE current # last /\ acted' = Append(acted, current)
    <3>1. \A i \in 1 .. Len(acted) : acted[i] < current
      BY <2>1, <2>3 DEF ShortcutInv
    <3>2. /\ Len(acted') = Len(acted) + 1 /\ acted'[Len(acted) + 1] = current
          /\ \A i \in 1 .. Len(acted) : acted'[i] = acted[i]
      BY <2>3 DEF ShortcutInv
    <3>3. ShortcutsOnceInOrder'
      BY <3>1, <3>2 DEF ShortcutInv, ShortcutsOnceInOrder,
                        Keys!ShortcutsOnceInOrder
    <3>4. acted' \in Seq(Nat) /\ \A i \in 1 .. Len(acted') : acted'[i] <= current'
      BY <2>1, <2>3, <3>1, <3>2 DEF ShortcutInv
    <3> QED
      BY <2>1, <3>3, <3>4 DEF ShortcutInv
  <2> QED
    BY <1>7, <2>2, <2>3 DEF Keys!ReadCommand
<1>8. CASE UsePanels \/ AssistantEvent \/ UNCHANGED shellVars
  BY <1>8, <1>1 DEF UsePanels, AssistantEvent, shellVars
<1>9. CASE ShortcutEvent
  BY <1>9, <1>4, <1>5, <1>6, <1>7
     DEF ShortcutEvent, Keys!ShortcutsStep, Keys!ShellHandlesCommand
<1> QED
  BY <1>2, <1>3, <1>8, <1>9 DEF ShellNext

(* No shortcut is acted on twice or after a later one, through any number  *)
(* of replacements of the file, reports of it, logins and restarts.        *)
THEOREM ShortcutsOnce == ShellSpec => []ShortcutsOnceInOrder
<1>1. ShortcutInv => ShortcutsOnceInOrder
  BY DEF ShortcutInv
<1> QED
  BY <1>1, ShortcutInit, ShortcutStep, PTL DEF ShellSpec

-----------------------------------------------------------------------------
(* No wakeup is lost.  While the shell sleeps, the watch is on the command *)
(* in the file unless inotify has something to say; while the watch is     *)
(* gone, the shell is about to take it up again and then to read.  What is *)
(* sent while the desktop is shown and read there has been acted on.       *)

Done(c) == \E i \in 1 .. Len(acted) : acted[i] = c

WatchInv ==
  /\ current \in 0 .. MaxCommands /\ last \in 0 .. current
  /\ acted \in Seq(Nat)
  /\ heardOpen \subseteq 1 .. current
  /\ heardOpen # {} => gate = "desktop"
  /\ last \in heardOpen => Done(last)
  /\ pc \in {"idle", "watch", "read"}
  /\ IF up THEN pc # "watch" /\ report = "none" => watched = current
           ELSE /\ report = "none" /\ pc = "idle"
                /\ watched = MaxCommands + 1 /\ heardOpen = {}

MissInv == WatchInv /\ NoShortcutMissed

LEMMA MissInit == ShellInit => MissInv
<1> SUFFICES ASSUME ShellInit PROVE MissInv
  OBVIOUS
<1>1. /\ current = 0 /\ last = 0 /\ heardOpen = {} /\ acted = <<>> /\ ~up
      /\ report = "none" /\ pc = "idle" /\ watched = MaxCommands + 1
  BY DEF ShellInit, Init, Keys!ShortcutsInit, Keys!Unwatched
<1> QED
  BY <1>1, MaxCommandsAssumption
     DEF MissInv, WatchInv, NoShortcutMissed, Keys!NoShortcutMissed

LEMMA AppendKeeps ==
  ASSUME acted \in Seq(Nat), NEW c \in Nat, acted' = Append(acted, c)
  PROVE  /\ acted' \in Seq(Nat) /\ Done(c)'
         /\ \A d \in Nat : Done(d) => Done(d)'
<1>1. /\ Len(acted') = Len(acted) + 1 /\ acted'[Len(acted) + 1] = c
      /\ \A i \in 1 .. Len(acted) : acted'[i] = acted[i]
      /\ acted' \in Seq(Nat) /\ Len(acted) \in Nat
  OBVIOUS
<1>2. \E i \in 1 .. Len(acted') : acted'[i] = c
  BY <1>1
<1>3. ASSUME NEW d \in Nat, Done(d) PROVE \E i \in 1 .. Len(acted') : acted'[i] = d
  <2> PICK i \in 1 .. Len(acted) : acted[i] = d
    BY <1>3 DEF Done
  <2>1. i \in 1 .. Len(acted') /\ acted'[i] = d
    BY <1>1
  <2> QED
    BY <2>1
<1> QED
  BY <1>1, <1>2, <1>3 DEF Done

LEMMA MissStep == MissInv /\ [ShellNext]_shellVars => MissInv'
<1> SUFFICES ASSUME MissInv, [ShellNext]_shellVars PROVE MissInv'
  OBVIOUS
<1> USE MaxCommandsAssumption
    DEF MissInv, WatchInv, NoShortcutMissed, Keys!NoShortcutMissed, Done
<1>1. CASE UNCHANGED shortcutVars /\ UNCHANGED up
  BY <1>1 DEF shortcutVars
<1>2. CASE UsePanels \/ AssistantEvent \/ UNCHANGED shellVars
  <2>1. UNCHANGED shortcutVars /\ UNCHANGED up
    BY <1>2 DEF UsePanels, AssistantEvent, shellVars, vars, UserStep, BackgroundStep,
       StartEngine, StopEngine, SendMessage, ClearHistory, AllowSaving, ForbidSaving,
       EngineExits, EngineFinished, Token, ReplyFinished, SettingsSync
  <2> QED
    BY <1>1, <2>1
<1>3. CASE StartShell
  BY <1>3 DEF StartShell, Start, Keys!StartWatching
<1>4. CASE CrashShell
  <2>1. /\ ~up' /\ report' = "none" /\ pc' = "idle" /\ watched' = MaxCommands + 1
        /\ last' = 0 /\ heardOpen' = {} /\ UNCHANGED <<current, acted>>
    BY <1>4 DEF CrashShell, Crash, CrashWhileSaving, LoseMemory, Keys!StopWatching,
       Keys!Unwatched
  <2> QED
    BY <2>1
<1>5. CASE ShortcutEvent
  <2>1. UNCHANGED up
    BY <1>5 DEF ShortcutEvent, vars
  <2>2. CASE Keys!Send
    <3>1. /\ current' = current + 1 /\ current' \in 0 .. MaxCommands
          /\ report' = IF watched = current THEN "replaced" ELSE report
          /\ heardOpen' \subseteq heardOpen \cup {current'}
          /\ heardOpen' # {} => gate = "desktop"
          /\ ~up => heardOpen' = heardOpen
          /\ UNCHANGED <<gate, watched, pc, last, acted>>
      BY <2>2 DEF Keys!Send
    <3>2. last' \in heardOpen' => last \in heardOpen
      BY <3>1
    <3> QED
      BY <2>1, <3>1, <3>2
  <2>3. CASE Keys!ChangeReported \/ Keys!RemovalReported \/ Keys!WatchAgain
    BY <2>1, <2>3 DEF Keys!ChangeReported, Keys!RemovalReported, Keys!WatchAgain
  <2>4. CASE Keys!ReadCommand
    <3>1. /\ up /\ pc = "read" /\ pc' = "idle" /\ last' = current
          /\ UNCHANGED <<gate, current, watched, report, heardOpen>>
          /\ \/ acted' = acted /\ (current \in {0, last} \/ gate # "desktop")
             \/ acted' = Append(acted, current)
      BY <2>4 DEF Keys!ReadCommand
    <3>2. acted' \in Seq(Nat) /\ (current \in heardOpen => Done(current)')
      <4>1. CASE acted' = acted /\ (current \in {0, last} \/ gate # "desktop")
        BY <3>1, <4>1
      <4>2. CASE acted' = Append(acted, current)
        BY <3>1, <4>2, AppendKeeps
      <4> QED
        BY <3>1, <4>1, <4>2
    <3> QED
      BY <2>1, <3>1, <3>2
  <2>5. CASE Keys!LogIn
    BY <2>1, <2>5 DEF Keys!LogIn
  <2> QED
    BY <1>5, <2>2, <2>3, <2>4, <2>5
       DEF ShortcutEvent, Keys!ShortcutsStep, Keys!ShellHandlesCommand
<1> QED
  BY <1>2, <1>3, <1>4, <1>5 DEF ShellNext

(* The newest shortcut pressed at the desktop has been acted on or will    *)
(* still be read, whenever the file is replaced and however its            *)
(* replacement is reported.                                                *)
THEOREM NoneMissed == ShellSpec => []NoShortcutMissed
<1>1. MissInv => NoShortcutMissed
  BY DEF MissInv
<1> QED
  BY <1>1, MissInit, MissStep, PTL DEF ShellSpec

=============================================================================
