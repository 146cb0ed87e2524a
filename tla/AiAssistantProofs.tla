-------------------------- MODULE AiAssistantProofs --------------------------
(***************************************************************************)
(* Proofs about AiAssistant, for any number of messages.  Safety is its    *)
(* specification without the fairness, which no invariant needs; Shell's   *)
(* specification implies it (ShellProofs).                                 *)
(***************************************************************************)
EXTENDS AiAssistant, TLAPS

Safety == Init /\ [][Next]_vars

(* One name for what the user may do and what may come by itself.          *)
LEMMA StepCases ==
  ASSUME [Next]_vars
  PROVE  \/ StartEngine \/ StopEngine \/ SendMessage \/ ClearHistory
         \/ AllowSaving \/ ForbidSaving \/ EngineExits \/ EngineFinished
         \/ (\E m \in Messages : Token(m))
         \/ (\E m \in Messages : ReplyFinished(m))
         \/ SettingsSync \/ Crash \/ CrashWhileSaving \/ Start
         \/ UNCHANGED vars
  BY DEF Next, UserStep, BackgroundStep

-----------------------------------------------------------------------------
(* Types.                                                                  *)

LEMMA EntriesTyped ==
  /\ \A m \in Messages : User(m) \in Entries
  /\ \A texts \in SUBSET Messages : Assistant(texts) \in Entries
  /\ <<>> \in Seq(Entries)
  BY DEF User, Assistant, Entries

LEMMA TypeInit == Init => TypeOK
<1> SUFFICES ASSUME Init PROVE TypeOK
  OBVIOUS
<1>1. reply \in [Messages -> Replies]
  BY DEF Init, Replies
<1>2. history \in Seq(Entries) /\ lines \in Seq(Entries)
  BY EntriesTyped DEF Init
<1>3. sent \in 0 .. MaxMessages /\ wipedTo \in 0 .. MaxMessages
  BY MaxMessagesAssumption DEF Init
<1> QED
  BY <1>1, <1>2, <1>3 DEF Init, TypeOK, Engines, Files

LEMMA TypeStep == TypeOK /\ [Next]_vars => TypeOK'
<1> SUFFICES ASSUME TypeOK, [Next]_vars PROVE TypeOK'
  OBVIOUS
<1> USE MaxMessagesAssumption
<1>1. CASE StartEngine
  BY <1>1 DEF StartEngine, TypeOK, Engines, fileVars, ghostVars
<1>2. CASE StopEngine
  BY <1>2 DEF StopEngine, CutReplies, TypeOK, Engines, Replies, fileVars, ghostVars
<1>3. CASE SendMessage
  <2>1. sent + 1 \in Messages
    BY <1>3 DEF SendMessage, TypeOK, Messages
  <2>2. history' \in Seq(Entries)
    BY <1>3, <2>1, EntriesTyped DEF SendMessage, TypeOK
  <2>3. reply' \in [Messages -> Replies]
    BY <1>3, <2>1 DEF SendMessage, TypeOK, Replies
  <2>4. mixed' \subseteq Messages
    BY <1>3, <2>1 DEF SendMessage, TypeOK, UnderWay
  <2>5. sent' \in 0 .. MaxMessages
    BY <1>3 DEF SendMessage, TypeOK
  <2> QED
    BY <1>3, <2>2, <2>3, <2>4, <2>5
       DEF SendMessage, TypeOK, engineVars, fileVars
<1>4. CASE ClearHistory
  BY <1>4 DEF ClearHistory, RemovePersistedHistory, TypeOK, Files, UnderWay,
              engineVars
<1>5. CASE AllowSaving
  BY <1>5 DEF AllowSaving, Loaded, TypeOK, Files, engineVars, fileVars
<1>6. CASE ForbidSaving
  BY <1>6, EntriesTyped DEF ForbidSaving, RemovePersistedHistory, TypeOK, Files, engineVars
<1>7. CASE EngineExits
  BY <1>7 DEF EngineExits, CutReplies, TypeOK, Engines, Replies, fileVars, ghostVars
<1>8. CASE EngineFinished
  BY <1>8 DEF EngineFinished, TypeOK, Engines, fileVars, ghostVars
<1>9. CASE \E m \in Messages : Token(m)
  BY <1>9 DEF Token, UnderWay, TypeOK, engineVars, fileVars, ghostVars
<1>10. CASE \E m \in Messages : ReplyFinished(m)
  <2> PICK m \in Messages : ReplyFinished(m)
    BY <1>10
  <2>1. reply' \in [Messages -> Replies]
    BY DEF ReplyFinished, TypeOK, Replies
  <2>2. history' \in Seq(Entries)
    BY EntriesTyped DEF ReplyFinished, TypeOK
  <2>3. file' \in Files /\ lines' \in Seq(Entries)
    BY <2>2 DEF ReplyFinished, PersistHistoryIfEnabled, TypeOK, Files, fileVars
  <2> QED
    BY <2>1, <2>2, <2>3 DEF ReplyFinished, TypeOK, engineVars, ghostVars
<1>11. CASE SettingsSync
  BY <1>11 DEF SettingsSync, TypeOK, engineVars, fileVars, ghostVars
<1>12. CASE Crash
  BY <1>12, EntriesTyped DEF Crash, LoseMemory, TypeOK, Engines, Replies, fileVars
<1>13. CASE CrashWhileSaving
  BY <1>13, EntriesTyped DEF CrashWhileSaving, LoseMemory, TypeOK, Engines, Replies, Files
<1>14. CASE Start
  BY <1>14 DEF Start, Loaded, TypeOK, engineVars, fileVars, ghostVars
<1>15. CASE UNCHANGED vars
  BY <1>15 DEF vars, TypeOK
<1> QED
  BY <1>1, <1>2, <1>3, <1>4, <1>5, <1>6, <1>7, <1>8, <1>9, <1>10, <1>11, <1>12,
     <1>13, <1>14, <1>15, StepCases

(* The variables of the assistant keep their types, for any number of      *)
(* messages, answers under way and crashes.                                *)
THEOREM AssistantTypes == Safety => []TypeOK
  BY TypeInit, TypeStep, PTL DEF Safety

-----------------------------------------------------------------------------
(* The permission to save.  No other fact about the state is needed.       *)

LEMMA ConsentStep ==
  TypeOK /\ SavedOnlyWithConsent /\ [Next]_vars => SavedOnlyWithConsent'
<1> SUFFICES ASSUME TypeOK, SavedOnlyWithConsent, [Next]_vars
             PROVE  SavedOnlyWithConsent'
  OBVIOUS
<1> USE DEF SavedOnlyWithConsent
<1>1. CASE UNCHANGED <<file, consent, choiceLost>>
  BY <1>1
<1>2. CASE ClearHistory \/ ForbidSaving
  BY <1>2 DEF ClearHistory, ForbidSaving, RemovePersistedHistory
<1>3. CASE AllowSaving
  BY <1>3 DEF AllowSaving
<1>4. CASE \E m \in Messages : ReplyFinished(m)
  BY <1>4 DEF ReplyFinished, PersistHistoryIfEnabled, fileVars, ghostVars
<1>5. CASE Crash
  BY <1>5 DEF Crash, LoseMemory, fileVars, TypeOK
<1>6. CASE CrashWhileSaving
  BY <1>6 DEF CrashWhileSaving, LoseMemory, TypeOK
<1>7. CASE \/ StartEngine \/ StopEngine \/ SendMessage \/ EngineExits
           \/ EngineFinished \/ (\E m \in Messages : Token(m)) \/ SettingsSync
           \/ Start \/ UNCHANGED vars
  BY <1>7, <1>1 DEF StartEngine, StopEngine, SendMessage, EngineExits,
     EngineFinished, Token, SettingsSync, Start, vars, fileVars, ghostVars
<1> QED
  BY <1>2, <1>3, <1>4, <1>5, <1>6, <1>7, StepCases

(* The conversation is on disk only while it may be, whatever answers,     *)
(* switches of the permission and crashes come when.                       *)
THEOREM ConsentKept == Safety => []SavedOnlyWithConsent
<1>1. Init => SavedOnlyWithConsent
  BY DEF Init, SavedOnlyWithConsent
<1> QED
  BY <1>1, ConsentStep, AssistantTypes, PTL DEF Safety

-----------------------------------------------------------------------------
(* Which answers are under way changes only when a message is sent, an     *)
(* answer ends or the shell dies.                                          *)

LEMMA UnderWayKept ==
  ASSUME TypeOK,
         \/ StartEngine \/ StopEngine \/ EngineExits \/ EngineFinished
         \/ SettingsSync \/ ClearHistory \/ AllowSaving \/ ForbidSaving \/ Start
         \/ (\E m \in Messages : Token(m)) \/ UNCHANGED vars
  PROVE  UnderWay' = UnderWay
<1>1. CASE StopEngine \/ EngineExits
  BY <1>1 DEF StopEngine, EngineExits, CutReplies, UnderWay, TypeOK
<1>2. CASE UNCHANGED reply
  BY <1>2 DEF UnderWay
<1>3. CASE \/ StartEngine \/ EngineFinished \/ SettingsSync \/ ClearHistory
           \/ AllowSaving \/ ForbidSaving \/ Start
           \/ (\E m \in Messages : Token(m)) \/ UNCHANGED vars
  BY <1>3, <1>2 DEF StartEngine, EngineFinished, SettingsSync, ClearHistory,
     AllowSaving, ForbidSaving, Start, Token, vars
<1> QED
  BY <1>1, <1>3

LEMMA UnderWayAfterSend ==
  ASSUME TypeOK, SendMessage
  PROVE  /\ sent + 1 \in Messages
         /\ UnderWay' = UnderWay \cup {sent + 1}
  BY MaxMessagesAssumption DEF SendMessage, UnderWay, TypeOK, Messages

LEMMA UnderWayAfterReply ==
  ASSUME TypeOK, NEW m \in Messages, ReplyFinished(m)
  PROVE  UnderWay' = UnderWay \ {m}
  BY DEF ReplyFinished, UnderWay, TypeOK

LEMMA UnderWayAfterCrash ==
  ASSUME TypeOK, Crash \/ CrashWhileSaving
  PROVE  UnderWay' = {}
  BY DEF Crash, CrashWhileSaving, LoseMemory, UnderWay, TypeOK

-----------------------------------------------------------------------------
(* Wiping.                                                                 *)

(* What may still become an entry survives the last wipe too.              *)
WipeInv ==
  /\ WipedStaysWiped
  /\ wipedTo <= sent
  /\ \A m \in UnderWay \cup partial : m > wipedTo \/ m \in late

LEMMA WipeInit == Init => WipeInv
  BY DEF Init, WipeInv, WipedStaysWiped, UnderWay

(* Neither a wipe nor a new entry.                                         *)
LEMMA WipeQuiet ==
  ASSUME WipeInv, UNCHANGED <<sent, wipedTo, late>>,
         history' \in {history, lines, <<>>}, lines' \in {history, lines, <<>>},
         UnderWay' \cup partial' \subseteq UnderWay \cup partial
  PROVE  WipeInv'
<1>1. ASSUME NEW m \in (UnderWay \cup partial)'
      PROVE  (m > wipedTo \/ m \in late)'
  BY <1>1 DEF WipeInv
<1>2. WipedStaysWiped'
  BY DEF WipeInv, WipedStaysWiped, SurvivesWipe
<1> QED
  BY <1>1, <1>2 DEF WipeInv

LEMMA WipeStep == TypeOK /\ WipeInv /\ [Next]_vars => WipeInv'
<1> SUFFICES ASSUME TypeOK, WipeInv, [Next]_vars PROVE WipeInv'
  OBVIOUS
<1>1. CASE \/ StartEngine \/ StopEngine \/ EngineExits \/ EngineFinished
           \/ SettingsSync \/ UNCHANGED vars
  BY <1>1, WipeQuiet, UnderWayKept DEF StartEngine, StopEngine, EngineExits,
     EngineFinished, SettingsSync, fileVars, ghostVars, vars
<1>2. CASE \E m \in Messages : Token(m)
  BY <1>2, WipeQuiet, UnderWayKept DEF Token, fileVars, ghostVars
<1>3. CASE AllowSaving
  BY <1>3, WipeQuiet, UnderWayKept DEF AllowSaving, Loaded, fileVars
<1>4. CASE ForbidSaving
  BY <1>4, WipeQuiet, UnderWayKept DEF ForbidSaving, RemovePersistedHistory
<1>5. CASE Start
  BY <1>5, WipeQuiet, UnderWayKept DEF Start, Loaded, fileVars, ghostVars
<1>6. CASE Crash \/ CrashWhileSaving
  <2>1. UnderWay' = {} /\ partial' = {}
    BY <1>6, UnderWayAfterCrash DEF Crash, CrashWhileSaving, LoseMemory
  <2> QED
    BY <1>6, <2>1, WipeQuiet DEF Crash, CrashWhileSaving, LoseMemory, fileVars
<1>7. CASE ClearHistory
  <2>1. UnderWay' = UnderWay
    BY <1>7, UnderWayKept
  <2> QED
    BY <1>7, <2>1 DEF ClearHistory, RemovePersistedHistory, WipeInv,
       WipedStaysWiped, TypeOK
<1>8. CASE SendMessage
  <2>1. /\ UnderWay' = UnderWay \cup {sent + 1}
        /\ sent' = sent + 1 /\ partial' = {}
        /\ UNCHANGED <<lines, wipedTo, late>>
    BY <1>8, UnderWayAfterSend DEF SendMessage, fileVars
  <2>2. sent + 1 > wipedTo /\ wipedTo <= sent'
    BY <2>1 DEF WipeInv, TypeOK
  <2>3. SurvivesWipe(User(sent + 1))
    BY <2>2 DEF SurvivesWipe, User
  <2>4. \A i \in 1 .. Len(history') : SurvivesWipe(history'[i])
    BY <1>8, <2>3, EntriesTyped, UnderWayAfterSend
       DEF SendMessage, WipeInv, WipedStaysWiped, TypeOK
  <2>5. WipedStaysWiped'
    BY <2>1, <2>4 DEF WipeInv, WipedStaysWiped, SurvivesWipe
  <2> QED
    BY <2>1, <2>2, <2>5 DEF WipeInv
<1>9. CASE \E m \in Messages : ReplyFinished(m)
  <2> PICK m \in Messages : ReplyFinished(m)
    BY <1>9
  <2>1. /\ UnderWay' \subseteq UnderWay /\ partial' = partial
        /\ UNCHANGED <<sent, wipedTo, late>>
    BY UnderWayAfterReply DEF ReplyFinished, ghostVars
  <2>2. SurvivesWipe(Assistant(partial))
    BY DEF WipeInv, SurvivesWipe, Assistant
  <2>3. \A i \in 1 .. Len(history') : SurvivesWipe(history'[i])
    BY <2>2, EntriesTyped DEF ReplyFinished, WipeInv, WipedStaysWiped, TypeOK
  <2>4. lines' \in {lines, history'}
    BY DEF ReplyFinished, PersistHistoryIfEnabled, fileVars
  <2>5. \A i \in 1 .. Len(lines') : SurvivesWipe(lines'[i])
    BY <2>3, <2>4 DEF WipeInv, WipedStaysWiped
  <2>6. WipedStaysWiped'
    BY <2>1, <2>3, <2>5 DEF WipedStaysWiped, SurvivesWipe
  <2> QED
    BY <2>1, <2>6 DEF WipeInv
<1> QED
  BY <1>1, <1>2, <1>3, <1>4, <1>5, <1>6, <1>7, <1>8, <1>9, StepCases

(* A wipe is final for everything but the answers under way at it: neither *)
(* the file, nor a restart, nor a change of the permission brings it back. *)
THEOREM WipeIsFinal == Safety => []WipedStaysWiped
<1>1. WipeInv => WipedStaysWiped
  BY DEF WipeInv
<1> QED
  BY <1>1, WipeInit, WipeStep, AssistantTypes, PTL DEF Safety

-----------------------------------------------------------------------------
(* The saved conversation.                                                 *)

LEMMA PrefixStep == TypeOK /\ SavedIsPrefix /\ [Next]_vars => SavedIsPrefix'
<1> SUFFICES ASSUME TypeOK, SavedIsPrefix, [Next]_vars PROVE SavedIsPrefix'
  OBVIOUS
<1> USE DEF SavedIsPrefix
<1>1. CASE \/ StartEngine \/ StopEngine \/ EngineExits \/ EngineFinished
           \/ SettingsSync \/ (\E m \in Messages : Token(m)) \/ UNCHANGED vars
  BY <1>1 DEF StartEngine, StopEngine, EngineExits, EngineFinished,
     SettingsSync, Token, fileVars, vars
<1>2. CASE Crash \/ CrashWhileSaving
  BY <1>2 DEF Crash, CrashWhileSaving, LoseMemory
<1>3. CASE ClearHistory \/ ForbidSaving
  BY <1>3 DEF ClearHistory, ForbidSaving, RemovePersistedHistory
<1>4. CASE AllowSaving
  BY <1>4 DEF AllowSaving, Loaded, TypeOK, fileVars
<1>5. CASE Start
  BY <1>5 DEF Start, Loaded, TypeOK, fileVars
<1>6. CASE SendMessage
  BY <1>6, EntriesTyped, UnderWayAfterSend DEF SendMessage, TypeOK, fileVars
<1>7. CASE \E m \in Messages : ReplyFinished(m)
  BY <1>7 DEF ReplyFinished, PersistHistoryIfEnabled, TypeOK, fileVars
<1> QED
  BY <1>1, <1>2, <1>3, <1>4, <1>5, <1>6, <1>7, StepCases

(* While it may be saved, a whole history.json is a beginning of what the  *)
(* assistant remembers, also after crashes and changes of the permission.  *)
THEOREM SavedAgrees == Safety => []SavedIsPrefix
<1>1. Init => SavedIsPrefix
  BY DEF Init, SavedIsPrefix
<1> QED
  BY <1>1, PrefixStep, AssistantTypes, PTL DEF Safety

-----------------------------------------------------------------------------
(* Whose answer it is.                                                     *)

(* The answer to the last message is the only one under way.               *)
Alone(m) ==
  /\ UnderWay = {m}
  /\ partial \subseteq {m}
  /\ history # <<>>
  /\ history[Len(history)] = User(m)

(* What is under way is alone, or all of it was there when a message was   *)
(* sent or the history wiped.                                              *)
ReplyInv ==
  /\ RepliesBelong
  /\ up \/ UnderWay = {}
  /\ \/ UnderWay = {}
     \/ UnderWay \cup partial \subseteq late \cup mixed
     \/ \E m \in Messages : Alone(m)

LEMMA ReplyInit == Init => ReplyInv
  BY DEF Init, ReplyInv, RepliesBelong, UnderWay

(* An entry goes on belonging while the conversation grows.                *)
LEMMA BelongsGrows ==
  ASSUME NEW s \in Seq(Entries), NEW e \in Entries,
         \A i \in 1 .. Len(s) : Belongs(s, i),
         Belongs(Append(s, e), Len(s) + 1)
  PROVE  \A i \in 1 .. Len(Append(s, e)) : Belongs(Append(s, e), i)
<1> SUFFICES ASSUME NEW i \in 1 .. Len(Append(s, e))
             PROVE  Belongs(Append(s, e), i)
  OBVIOUS
<1>1. CASE i = Len(s) + 1
  BY <1>1
<1>2. CASE i # Len(s) + 1
  <2>1. i \in 1 .. Len(s) /\ Append(s, e)[i] = s[i]
    BY <1>2
  <2>2. i > 1 => Append(s, e)[i - 1] = s[i - 1]
    BY <2>1
  <2> QED
    BY <2>1, <2>2 DEF Belongs
<1> QED
  BY <1>1, <1>2

LEMMA BelongsLater ==
  ASSUME RepliesBelong,
         history' \in {history, lines, <<>>}, lines' \in {history, lines, <<>>},
         late \subseteq late', mixed \subseteq mixed'
  PROVE  RepliesBelong'
<1>1. ASSUME NEW s, NEW i \in 1 .. Len(s), Belongs(s, i)
      PROVE  \/ s[i].role = "user"
             \/ s[i].of \cap (late' \cup mixed') # {}
             \/ /\ i > 1
                /\ s[i - 1].role = "user"
                /\ s[i - 1].of = s[i].of
  BY <1>1 DEF Belongs
<1>2. ASSUME NEW s \in {history, lines, <<>>}, NEW i \in 1 .. Len(s)
      PROVE  \/ s[i].role = "user"
             \/ s[i].of \cap (late' \cup mixed') # {}
             \/ /\ i > 1
                /\ s[i - 1].role = "user"
                /\ s[i - 1].of = s[i].of
  <2>1. Belongs(s, i)
    BY <1>2 DEF RepliesBelong
  <2> QED
    BY <1>1, <2>1
<1> QED
  BY <1>2 DEF RepliesBelong, Belongs

LEMMA ReplyStep == TypeOK /\ ReplyInv /\ [Next]_vars => ReplyInv'
<1> SUFFICES ASSUME TypeOK, ReplyInv, [Next]_vars PROVE ReplyInv'
  OBVIOUS
<1>1. CASE \/ StartEngine \/ StopEngine \/ EngineExits \/ EngineFinished
           \/ SettingsSync \/ (\E m \in Messages : Token(m)) \/ UNCHANGED vars
  <2>1. /\ UnderWay' = UnderWay
        /\ UNCHANGED <<up, history, lines, late, mixed>>
        /\ partial' \subseteq partial \cup UnderWay
    BY <1>1, UnderWayKept DEF StartEngine, StopEngine, EngineExits,
       EngineFinished, SettingsSync, Token, fileVars, ghostVars, vars
  <2>2. RepliesBelong'
    BY <2>1, BelongsLater DEF ReplyInv
  <2> QED
    BY <2>1, <2>2 DEF ReplyInv, Alone
<1>2. CASE Crash \/ CrashWhileSaving
  <2>1. /\ UnderWay' = {}
        /\ history' = <<>> /\ lines' \in {lines, <<>>}
        /\ UNCHANGED <<late, mixed>>
    BY <1>2, UnderWayAfterCrash DEF Crash, CrashWhileSaving, LoseMemory, fileVars
  <2> QED
    BY <2>1, BelongsLater DEF ReplyInv
<1>3. CASE ClearHistory
  <2>1. /\ UnderWay' = UnderWay /\ partial' = {}
        /\ history' = <<>> /\ lines' = <<>>
        /\ late' = late \cup UnderWay /\ mixed' = mixed /\ up' = up
    BY <1>3, UnderWayKept DEF ClearHistory, RemovePersistedHistory
  <2> QED
    BY <2>1, BelongsLater DEF ReplyInv
<1>4. CASE AllowSaving \/ ForbidSaving
  <2>1. /\ UnderWay' = UnderWay
        /\ UNCHANGED <<up, partial, late, mixed>>
        /\ history # <<>> => history' = history
        /\ history' \in {history, lines} /\ lines' \in {history, lines, <<>>}
    BY <1>4, UnderWayKept DEF AllowSaving, ForbidSaving, Loaded,
       RemovePersistedHistory, fileVars
  <2>2. RepliesBelong'
    BY <2>1, BelongsLater DEF ReplyInv
  <2> QED
    BY <2>1, <2>2 DEF ReplyInv, Alone
<1>5. CASE Start
  <2>1. /\ UnderWay' = {} /\ up'
        /\ history' \in {history, lines}
        /\ UNCHANGED <<lines, late, mixed>>
    BY <1>5, UnderWayKept DEF Start, Loaded, ReplyInv, fileVars, ghostVars
  <2> QED
    BY <2>1, BelongsLater DEF ReplyInv
<1>6. CASE SendMessage
  <2>1. /\ sent + 1 \in Messages
        /\ UnderWay' = UnderWay \cup {sent + 1} /\ partial' = {}
        /\ history' = Append(history, User(sent + 1))
        /\ lines' = lines /\ late' = late /\ up'
        /\ mixed' = IF UnderWay = {} THEN mixed
                                     ELSE mixed \cup UnderWay \cup {sent + 1}
    BY <1>6, UnderWayAfterSend DEF SendMessage, fileVars
  <2> DEFINE e == User(sent + 1)
  <2>2. e \in Entries /\ e.role = "user"
    BY <2>1, EntriesTyped DEF User
  <2>3. Append(history, e)[Len(history) + 1] = e
    BY <2>2 DEF TypeOK
  <2>4. \A i \in 1 .. Len(history') : Belongs(history', i)
    BY <2>1, <2>2, <2>3, BelongsGrows DEF ReplyInv, RepliesBelong, Belongs, TypeOK
  <2>5. RepliesBelong'
    BY <2>1, <2>4 DEF ReplyInv, RepliesBelong, Belongs
  <2>6. CASE UnderWay = {}
    <3>1. UnderWay' = {sent + 1}
      BY <2>1, <2>6
    <3>2. history' # <<>> /\ history'[Len(history')] = e
      BY <2>1, <2>2, <2>3 DEF TypeOK
    <3>3. \E m \in Messages : Alone(m)'
      <4> PICK m \in Messages : m = sent + 1
        BY <2>1
      <4>1. Alone(m)'
        BY <2>1, <3>1, <3>2 DEF Alone, User
      <4> QED
        BY <4>1
    <3> QED
      BY <2>1, <2>5, <3>3 DEF ReplyInv
  <2>7. CASE UnderWay # {}
    BY <2>1, <2>5, <2>7 DEF ReplyInv
  <2> QED
    BY <2>6, <2>7
<1>7. CASE \E m \in Messages : ReplyFinished(m)
  <2> PICK m \in Messages : ReplyFinished(m)
    BY <1>7
  <2>1. /\ m \in UnderWay
        /\ UnderWay' = UnderWay \ {m} /\ partial' = partial
        /\ UNCHANGED <<up, late, mixed>>
        /\ lines' \in {lines, history'}
        /\ \/ history' = history
           \/ partial # {} /\ history' = Append(history, Assistant(partial))
    BY UnderWayAfterReply DEF ReplyFinished, PersistHistoryIfEnabled, fileVars,
                              ghostVars
  <2> DEFINE e == Assistant(partial)
  <2>2. e \in Entries /\ e.of = partial
    BY EntriesTyped DEF Assistant, TypeOK
  <2>3. Append(history, e)[Len(history) + 1] = e
    BY <2>2 DEF TypeOK
  <2>4. ASSUME partial # {} PROVE Belongs(Append(history, e), Len(history) + 1)
    <3>1. CASE UnderWay \cup partial \subseteq late \cup mixed
      BY <3>1, <2>2, <2>3, <2>4 DEF Belongs
    <3>2. CASE \E n \in Messages : Alone(n)
      <4>1. /\ UnderWay = {m} /\ partial = {m}
            /\ Len(history) > 0 /\ history[Len(history)] = User(m)
        BY <3>2, <2>1, <2>4 DEF Alone, TypeOK
      <4>2. /\ Len(history) + 1 > 1
            /\ Append(history, e)[Len(history) + 1 - 1] = User(m)
        BY <4>1, <2>2 DEF TypeOK
      <4>3. User(m).role = "user" /\ User(m).of = {m}
        BY DEF User
      <4>4. e.of = {m}
        BY <4>1, <2>2
      <4> DEFINE t == Append(history, e)
                 k == Len(history) + 1
      <4>5. k > 1 /\ t[k].of = {m} /\ t[k - 1].role = "user" /\ t[k - 1].of = {m}
        BY <4>2, <4>3, <4>4, <2>3
      <4> HIDE DEF t, k
      <4>6. Belongs(t, k)
        BY <4>5 DEF Belongs
      <4> QED
        BY <4>6 DEF t, k
    <3> QED
      BY <2>1, <3>1, <3>2 DEF ReplyInv
  <2>5. \A i \in 1 .. Len(history') : Belongs(history', i)
    BY <2>1, <2>2, <2>4, BelongsGrows DEF ReplyInv, RepliesBelong, TypeOK
  <2>6. RepliesBelong'
    BY <2>1, <2>5 DEF ReplyInv, RepliesBelong, Belongs
  <2>7. UnderWay' = {} \/ (UnderWay \cup partial \subseteq late \cup mixed)'
    BY <2>1 DEF ReplyInv, Alone
  <2> QED
    BY <2>1, <2>6, <2>7 DEF ReplyInv
<1> QED
  BY <1>1, <1>2, <1>3, <1>4, <1>5, <1>6, <1>7, StepCases

(* An answer whose time overlapped with no other message and no wipe is in *)
(* the conversation right after its message, no other text mixed into it.  *)
THEOREM AnswersBelong == Safety => []RepliesBelong
<1>1. ReplyInv => RepliesBelong
  BY DEF ReplyInv
<1> QED
  BY <1>1, ReplyInit, ReplyStep, AssistantTypes, PTL DEF Safety

-----------------------------------------------------------------------------
(* Busy.  No other fact about the state is needed: an answer ends only     *)
(* with the flag, whichever answer it is.                                  *)

LEMMA BusyStep == TypeOK /\ BusyWithLatest /\ [Next]_vars => BusyWithLatest'
<1> SUFFICES ASSUME TypeOK, BusyWithLatest, [Next]_vars PROVE BusyWithLatest'
  OBVIOUS
<1> USE DEF BusyWithLatest, UnderWay
<1>1. CASE UNCHANGED <<busy, sent, reply>>
  BY <1>1
<1>2. CASE StopEngine \/ EngineFinished
  BY <1>2 DEF StopEngine, EngineFinished
<1>3. CASE EngineExits
  BY <1>3 DEF EngineExits, CutReplies
<1>4. CASE SendMessage
  BY <1>4, MaxMessagesAssumption DEF SendMessage, TypeOK, Messages
<1>5. CASE \E m \in Messages : ReplyFinished(m)
  BY <1>5 DEF ReplyFinished
<1>6. CASE Crash \/ CrashWhileSaving
  BY <1>6 DEF Crash, CrashWhileSaving, LoseMemory
<1>7. CASE \/ StartEngine \/ ClearHistory \/ AllowSaving \/ ForbidSaving
           \/ (\E m \in Messages : Token(m)) \/ SettingsSync \/ Start \/ UNCHANGED vars
  BY <1>7, <1>1 DEF StartEngine, ClearHistory, AllowSaving, ForbidSaving, Token,
     SettingsSync, Start, vars
<1> QED
  BY <1>2, <1>3, <1>4, <1>5, <1>6, <1>7, StepCases

(* The assistant is busy only while the answer to the latest message is    *)
(* under way, whatever answers of earlier messages, stops and exits of the *)
(* engine come between.                                                    *)
THEOREM NeverStuck == Safety => []BusyWithLatest
<1>1. Init => BusyWithLatest
  BY DEF Init, BusyWithLatest
<1> QED
  BY <1>1, TypeInit, TypeStep, BusyStep, PTL DEF Safety

=============================================================================
