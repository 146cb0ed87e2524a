----------------------------- MODULE AiAssistant -----------------------------
(***************************************************************************)
(* The local AI assistant of the shell: AIAssistant with its AIEngine      *)
(* (packages/unexus-shell/src/aiassistant.cpp and aiengine.cpp).           *)
(*                                                                         *)
(* AIEngine runs one llama-server as a QProcess; AIAssistant posts each    *)
(* message to it and reads the streamed answer.  All handlers run on the   *)
(* shell's one thread, so each is one step here, but between them the      *)
(* answers of several messages may be on their way at once: stopping the   *)
(* engine, or its exit, releases the busy flag before the old answer has   *)
(* ended, and clearing the history does not touch an answer at all.  What  *)
(* has been received is kept in ONE buffer (m_currentAssistantResponse).   *)
(*                                                                         *)
(* The conversation is saved, when the user allows it, in history.json.    *)
(* The file is truncated and written in place: a crash in between leaves a *)
(* torn file.  The permission is a QSettings value, which reaches the disk *)
(* some time after it was set.                                             *)
(*                                                                         *)
(* A message is its number, an answer's text is the set of messages whose  *)
(* answers contributed tokens to it.                                       *)
(***************************************************************************)
EXTENDS Naturals, Sequences

CONSTANT MaxMessages    \* bound on the messages the user sends

ASSUME MaxMessagesAssumption == MaxMessages \in Nat

VARIABLES
  up,           \* the shell is running
  engine,       \* the llama-server process: see Engines
  ready,        \* m_ready
  busy,         \* m_busy
  sent,         \* messages sent so far, numbered from 1
  reply,        \* reply[m]: the network reply to message m, see Replies
  partial,      \* m_currentAssistantResponse: the answers it has tokens of
  history,      \* m_history
  file,         \* history.json: see Files
  lines,        \* what a whole history.json holds
  consent,      \* aiHistoryPersistenceEnabled in memory
  stored,       \* the same setting on disk
  wipedTo,      \* history: the last message sent before the last wipe
  late,         \* history: messages whose answer was under way at a wipe
  mixed,        \* history: messages whose answer was under way at a send
  choiceLost    \* history: a crash lost the user's last choice of consent

engineVars  == <<engine, ready>>
fileVars    == <<file, lines>>
ghostVars   == <<wipedTo, late, mixed, choiceLost>>
vars == <<up, engine, ready, busy, sent, reply, partial, history, file, lines,
          consent, stored, wipedTo, late, mixed, choiceLost>>

Messages == 1 .. MaxMessages

(* "exited": the process has ended and QProcess has not noticed yet, so     *)
(* that isRunning() still holds.                                           *)
Engines == {"none", "running", "exited"}

(* "cut": the server behind an open reply is gone; what was received is    *)
(* still delivered, then the reply finishes with an error.                 *)
Replies == {"unsent", "open", "cut", "ended"}

Files == {"absent", "torn", "whole"}

Entries == [role : {"user", "assistant"}, of : SUBSET Messages]

User(m)          == [role |-> "user", of |-> {m}]
Assistant(texts) == [role |-> "assistant", of |-> texts]

UnderWay == {m \in Messages : reply[m] \in {"open", "cut"}}

-----------------------------------------------------------------------------
(* Saving, forgetting and loading the conversation.                        *)

RemovePersistedHistory ==
  /\ file' = "absent"
  /\ lines' = <<>>

\* Fault for SavedOnlyWithConsent: every answer is saved.
PersistHistoryAlways(entries) ==
  file' = "whole" /\ lines' = entries

PersistHistoryIfEnabled(entries) ==
  IF consent THEN file' = "whole" /\ lines' = entries
             ELSE UNCHANGED fileVars

(* What loadHistoryIfEnabled leaves in m_history: a file that is missing   *)
(* or does not parse changes nothing.                                      *)
Loaded(allowed) ==
  IF allowed /\ file = "whole" THEN lines ELSE history

-----------------------------------------------------------------------------
(* The engine.                                                             *)

(* AIEngine::start is called while no process is running.  (With one       *)
(* running it returns at once, and a start that fails changes nothing.)    *)
StartEngine ==
  /\ up
  /\ engine = "none"
  /\ engine' = "running"
  /\ ready' = TRUE
  /\ UNCHANGED <<up, busy, sent, reply, partial, history, fileVars, consent,
                 stored, ghostVars>>

\* Fault for TypeOK: the replies are thrown away with the engine.
CutRepliesForgotten ==
  reply' = [m \in {n \in Messages : reply[n] # "open"} |-> reply[m]]

CutReplies ==
  reply' = [m \in Messages |-> IF reply[m] = "open" THEN "cut" ELSE reply[m]]

(* AIEngine::stop, and engineStopped as AIAssistant handles it.            *)
StopEngine ==
  /\ up
  /\ engine # "none"
  /\ engine' = "none"
  /\ ready' = FALSE
  /\ busy' = FALSE
  /\ CutReplies
  /\ UNCHANGED <<up, sent, partial, history, fileVars, consent, stored,
                 ghostVars>>

(* llama-server ends by itself; its sockets are closed with it.            *)
EngineExits ==
  /\ up
  /\ engine = "running"
  /\ engine' = "exited"
  /\ CutReplies
  /\ UNCHANGED <<up, ready, busy, sent, partial, history, fileVars, consent,
                 stored, ghostVars>>

(* QProcess::finished of the engine.                                       *)
EngineFinished ==
  /\ up
  /\ engine = "exited"
  /\ engine' = "none"
  /\ ready' = FALSE
  /\ busy' = FALSE
  /\ UNCHANGED <<up, sent, reply, partial, history, fileVars, consent, stored,
                 ghostVars>>

-----------------------------------------------------------------------------
(* Messages and answers.                                                   *)

\* Fault for RepliesBelong: what came last is not cleared at a send.
SendMessageOnto ==
  /\ up
  /\ ~busy
  /\ engine # "none"
  /\ sent < MaxMessages
  /\ sent' = sent + 1
  /\ history' = Append(history, User(sent + 1))
  /\ reply' = [reply EXCEPT ![sent + 1] = IF engine = "running" THEN "open"
                                                                ELSE "cut"]
  /\ mixed' = IF UnderWay = {} THEN mixed
                               ELSE mixed \cup UnderWay \cup {sent + 1}
  /\ busy' = TRUE
  /\ UNCHANGED <<up, engineVars, partial, fileVars, consent, stored, wipedTo,
                 late, choiceLost>>

SendMessage ==
  /\ up
  /\ ~busy
  /\ engine # "none"
  /\ sent < MaxMessages
  /\ LET m == sent + 1 IN
       /\ sent' = m
       /\ history' = Append(history, User(m))
       /\ reply' = [reply EXCEPT ![m] = IF engine = "running" THEN "open"
                                                              ELSE "cut"]
       /\ mixed' = IF UnderWay = {} THEN mixed
                                    ELSE mixed \cup UnderWay \cup {m}
  /\ partial' = {}
  /\ busy' = TRUE
  /\ UNCHANGED <<up, engineVars, fileVars, consent, stored, wipedTo, late,
                 choiceLost>>

(* readyRead: processSseChunk appends the tokens it finds.                 *)
Token(m) ==
  /\ up
  /\ m \in UnderWay
  /\ partial' = partial \cup {m}
  /\ UNCHANGED <<up, engineVars, busy, sent, reply, history, fileVars, consent,
                 stored, ghostVars>>

\* Fault for AnswersEnd: an empty answer returns before setBusy(false).
ReplyFinishedStuck(m) ==
  /\ up
  /\ m \in UnderWay
  /\ reply' = [reply EXCEPT ![m] = "ended"]
  /\ IF partial = {}
       THEN UNCHANGED <<history, fileVars, busy>>
       ELSE /\ history' = Append(history, Assistant(partial))
            /\ PersistHistoryIfEnabled(history')
            /\ busy' = FALSE
  /\ UNCHANGED <<up, engineVars, sent, partial, consent, stored, ghostVars>>

(* QNetworkReply::finished, of a complete answer or of an error.           *)
ReplyFinished(m) ==
  /\ up
  /\ m \in UnderWay
  /\ reply' = [reply EXCEPT ![m] = "ended"]
  /\ IF partial = {}
       THEN UNCHANGED <<history, fileVars>>
       ELSE /\ history' = Append(history, Assistant(partial))
            /\ PersistHistoryIfEnabled(history')
  /\ busy' = FALSE
  /\ UNCHANGED <<up, engineVars, sent, partial, consent, stored, ghostVars>>

\* Fault for WipedStaysWiped: the file is left to the next save.
ClearHistoryInMemory ==
  /\ up
  /\ history' = <<>>
  /\ partial' = {}
  /\ wipedTo' = sent
  /\ late' = late \cup UnderWay
  /\ UNCHANGED <<up, engineVars, busy, sent, reply, fileVars, consent, stored,
                 mixed, choiceLost>>

(* clearHistory, from the assistant's panel or the settings' "Wipe AI      *)
(* history now"; neither button waits for an answer.                       *)
ClearHistory ==
  /\ up
  /\ history' = <<>>
  /\ partial' = {}
  /\ RemovePersistedHistory
  /\ wipedTo' = sent
  /\ late' = late \cup UnderWay
  /\ UNCHANGED <<up, engineVars, busy, sent, reply, consent, stored, mixed,
                 choiceLost>>

-----------------------------------------------------------------------------
(* The permission to save.                                                 *)

\* Fault for SavedIsPrefix: an old file is not loaded into an empty history.
AllowSavingUnloaded ==
  /\ up
  /\ ~consent
  /\ consent' = TRUE
  /\ choiceLost' = FALSE
  /\ IF history = <<>>
       THEN UNCHANGED fileVars
       ELSE /\ file' = "whole"
            /\ lines' = history
  /\ UNCHANGED <<up, engineVars, busy, sent, reply, partial, history, stored,
                 wipedTo, late, mixed>>

(* setAiHistoryPersistenceEnabled(true) and its change signal.             *)
AllowSaving ==
  /\ up
  /\ ~consent
  /\ consent' = TRUE
  /\ choiceLost' = FALSE
  /\ IF history = <<>>
       THEN /\ history' = Loaded(TRUE)
            /\ UNCHANGED fileVars
       ELSE /\ file' = "whole"
            /\ lines' = history
            /\ UNCHANGED history
  /\ UNCHANGED <<up, engineVars, busy, sent, reply, partial, stored, wipedTo,
                 late, mixed>>

(* setAiHistoryPersistenceEnabled(false) and its change signal.            *)
ForbidSaving ==
  /\ up
  /\ consent
  /\ consent' = FALSE
  /\ choiceLost' = FALSE
  /\ RemovePersistedHistory
  /\ UNCHANGED <<up, engineVars, busy, sent, reply, partial, history, stored,
                 wipedTo, late, mixed>>

(* QSettings writes what was set, from the event loop.                     *)
SettingsSync ==
  /\ up
  /\ stored # consent
  /\ stored' = consent
  /\ UNCHANGED <<up, engineVars, busy, sent, reply, partial, history, fileVars,
                 consent, ghostVars>>

-----------------------------------------------------------------------------
(* The end of the shell, at any point, and its next start.                 *)

(* `choice` is the permission as the user last gave it.                    *)
LoseMemory(choice) ==
  /\ up' = FALSE
  /\ engine' = "none"
  /\ ready' = FALSE
  /\ busy' = FALSE
  /\ reply' = [m \in Messages |->
                 IF m \in UnderWay THEN "ended" ELSE reply[m]]
  /\ partial' = {}
  /\ history' = <<>>
  /\ consent' = stored
  /\ choiceLost' = (choiceLost \/ stored # choice)
  /\ UNCHANGED <<sent, stored, wipedTo, late, mixed>>

Crash ==
  /\ up
  /\ LoseMemory(consent)
  /\ UNCHANGED fileVars

(* A crash after persistHistoryIfEnabled has truncated the file: at the    *)
(* end of an answer, or when saving is being allowed.                      *)
CrashWhileSaving ==
  /\ up
  /\ \/ consent /\ UnderWay # {} /\ partial # {}
     \/ ~consent /\ history # <<>>
  /\ LoseMemory(TRUE)
  /\ file' = "torn"
  /\ lines' = <<>>

(* The constructor: QSettings gives the permission that reached the disk.  *)
Start ==
  /\ ~up
  /\ up' = TRUE
  /\ history' = Loaded(consent)
  /\ UNCHANGED <<engineVars, busy, sent, reply, partial, fileVars, consent,
                 stored, ghostVars>>

-----------------------------------------------------------------------------
(* A first start: saving is off until the user allows it.                  *)
Init ==
  /\ up = FALSE
  /\ engine = "none"
  /\ ready = FALSE
  /\ busy = FALSE
  /\ sent = 0
  /\ reply = [m \in Messages |-> "unsent"]
  /\ partial = {}
  /\ history = <<>>
  /\ file = "absent"
  /\ lines = <<>>
  /\ consent = FALSE
  /\ stored = FALSE
  /\ wipedTo = 0
  /\ late = {}
  /\ mixed = {}
  /\ choiceLost = FALSE

(* What the user does in the shell's panels.                               *)
UserStep ==
  \/ StartEngine
  \/ StopEngine
  \/ SendMessage
  \/ ClearHistory
  \/ AllowSaving
  \/ ForbidSaving

(* What comes by itself while the shell runs.                              *)
BackgroundStep ==
  \/ EngineExits
  \/ EngineFinished
  \/ \E m \in Messages : Token(m) \/ ReplyFinished(m)
  \/ SettingsSync

Next ==
  \/ UserStep
  \/ BackgroundStep
  \/ Crash
  \/ CrashWhileSaving
  \/ Start

(* The event loop handles the end of a process and of a reply, and         *)
(* llama-server ends every answer (its context is limited to 4096 tokens). *)
(* Nothing makes the user, a crash or a token happen.                      *)
Fairness ==
  /\ WF_vars(EngineFinished)
  /\ \A m \in Messages : WF_vars(ReplyFinished(m))

Spec == Init /\ [][Next]_vars /\ Fairness

-----------------------------------------------------------------------------
(* Every variable has its type.  m_ready agrees with the engine: it is not *)
(* a variable of its own in any state.                                     *)
TypeOK ==
  /\ up \in BOOLEAN
  /\ engine \in Engines
  /\ ready \in BOOLEAN
  /\ busy \in BOOLEAN
  /\ sent \in 0 .. MaxMessages
  /\ reply \in [Messages -> Replies]
  /\ partial \subseteq Messages
  /\ history \in Seq(Entries)
  /\ file \in Files
  /\ lines \in Seq(Entries)
  /\ consent \in BOOLEAN
  /\ stored \in BOOLEAN
  /\ wipedTo \in 0 .. MaxMessages
  /\ late \subseteq Messages
  /\ mixed \subseteq Messages
  /\ choiceLost \in BOOLEAN

(* The conversation is on disk only while the user allows it, whenever     *)
(* answers end, however the permission is switched and wherever the shell  *)
(* dies; the one exception is a choice that a crash lost before QSettings  *)
(* wrote it.                                                               *)
SavedOnlyWithConsent ==
  file # "absent" => consent \/ choiceLost

(* A wipe is final (docs/architecture.md:375): nothing said before it is   *)
(* in memory or on disk again, after a restart or a change of the          *)
(* permission either.  Only an answer that was under way at the wipe may   *)
(* still be appended.                                                      *)
SurvivesWipe(entry) ==
  \A m \in entry.of : \/ m > wipedTo
                      \/ entry.role = "assistant" /\ m \in late

WipedStaysWiped ==
  /\ \A i \in 1 .. Len(history) : SurvivesWipe(history[i])
  /\ \A i \in 1 .. Len(lines) : SurvivesWipe(lines[i])

(* An answer in the conversation is the answer of one message and follows  *)
(* that message, though every answer goes through one buffer.  Only        *)
(* answers whose time overlapped with another message or with a wipe, and  *)
(* so an engine stopped or a history cleared in between, may be mixed.     *)
Belongs(entries, i) ==
  \/ entries[i].role = "user"
  \/ entries[i].of \cap (late \cup mixed) # {}
  \/ /\ i > 1
     /\ entries[i - 1].role = "user"
     /\ entries[i - 1].of = entries[i].of

RepliesBelong ==
  /\ \A i \in 1 .. Len(history) : Belongs(history, i)
  /\ \A i \in 1 .. Len(lines) : Belongs(lines, i)

(* What is on disk is the beginning of what the assistant remembers, so    *)
(* that a restart forgets at most messages without an answer and brings    *)
(* back nothing else.                                                      *)
SavedIsPrefix ==
  up /\ consent /\ file = "whole" =>
    /\ Len(lines) <= Len(history)
    /\ \A i \in 1 .. Len(lines) : lines[i] = history[i]

(* The safety half of AnswersEnd: the send button is withheld only for the *)
(* latest message, and only while its answer is under way, though answers  *)
(* of earlier messages end at any time and every end releases the button.  *)
BusyWithLatest == busy => sent \in UnderWay

(* Every message is answered, refused or given up in the end: the panel's  *)
(* send button comes back, whether the engine answers, exits or is         *)
(* stopped.                                                                *)
AnswersEnd == busy ~> ~busy

=============================================================================
