--------------------------- MODULE SettingsProofs ---------------------------
(***************************************************************************)
(* The settings file and the connection panel agree with what is live, the *)
(* bots that are being destroyed or were replaced and the handlers that    *)
(* wait included, for any servers and any number of captured options.      *)
(***************************************************************************)
EXTENDS Settings, TLAPS

(* What an accepted connect() leaves behind for its options: the panel, the*)
(* settings in memory and, if it was written, the file name their server.  *)
Matches(o) ==
  /\ shown = o
  /\ current.target = o.target
  /\ written => file \in Records /\ file.target = o.target

(* Without `current', the target that saved preferences write to the file  *)
(* would be unknown.                                                       *)
SettingsInv ==
  /\ TypeOK
  /\ ~up => Live = {}
  /\ up /\ orderly => \A o \in Live : Matches(o)

-----------------------------------------------------------------------------
(* Lemmas *)

LEMMA DefaultIsRecord == DefaultSettings \in Records
BY SettingsAssumption DEF DefaultSettings, Records

(* update() keeps the settings well-formed, and what it wrote is what it   *)
(* was given.                                                              *)
LEMMA UpdateEffect ==
  ASSUME TypeOK, NEW s \in Records, Update(s)
  PROVE  /\ current' = s
         /\ file' \in Records \cup {None, Torn}
         /\ written' \in BOOLEAN
         /\ written' => file' = s
BY DEF Update, TypeOK

(* A step that captures no new options and touches neither the settings nor*)
(* the panel keeps the agreement.                                          *)
LEMMA NothingNew ==
  ASSUME SettingsInv, Live' \subseteq Live, UNCHANGED <<up, configVars, shown, orderly>>
  PROVE  (~up => Live = {})' /\ (up /\ orderly => \A o \in Live : Matches(o))'
<1>1. up' = up /\ orderly' = orderly
  OBVIOUS
<1>2. \A o : Matches(o)' = Matches(o)
  BY DEF Matches, configVars
<1> QED BY <1>1, <1>2 DEF SettingsInv

(* scheduleReconnect() only captures the options it is given. *)
LEMMA ScheduleEffect ==
  ASSUME TypeOK, NEW o \in Records, Schedule(o)
  PROVE  /\ timers' \subseteq timers \cup {o}
         /\ timers' \subseteq Records
         /\ timer' \in timers' \cup {None}
BY DEF Schedule, TypeOK

(* What is left of handleDisconnect() after its wait captures no more than *)
(* the options it has.                                                     *)
LEMMA LossEffect ==
  ASSUME TypeOK, NEW o \in Records, LossHandled(o)
  PROVE  /\ timers' \subseteq timers \cup {o}
         /\ timers' \subseteq Records
         /\ timer' \in timers' \cup {None}
<1>1. CASE UNCHANGED <<timers, timer>>
  BY <1>1 DEF TypeOK
<1>2. CASE Schedule(o)
  BY <1>2, ScheduleEffect
<1> QED BY <1>1, <1>2 DEF LossHandled

(* connect() with a record keeps the invariant. *)
LEMMA ConnectKeeps ==
  ASSUME SettingsInv, up, NEW o \in Records, ConnectWith(o), UNCHANGED <<up, form>>
  PROVE  SettingsInv'
<1>1. CASE bot # None
  <2>1. UNCHANGED <<vars>>
    BY <1>1 DEF ConnectWith, vars, configVars, retryVars
  <2>2. Live' = Live /\ TypeOK'
    BY <2>1 DEF SettingsInv, TypeOK, Live, Pending, Listening, vars, configVars, retryVars
  <2>3. UNCHANGED <<up, configVars, shown, orderly>>
    BY <2>1 DEF vars
  <2> QED BY <2>2, <2>3, NothingNew DEF SettingsInv
<1>2. CASE bot = None
  <2>1. /\ stopped' = FALSE /\ shown' = o /\ Update(o)
        /\ attempts' = attempts \cup {o}
        /\ orderly' = (orderly /\ Pending = {})
        /\ UNCHANGED <<bot, closing, replaced, timers, timer>>
    BY <1>2 DEF ConnectWith
  <2>2. /\ current' = o /\ file' \in Records \cup {None, Torn} /\ written' \in BOOLEAN
        /\ written' => file' = o
    BY <2>1, UpdateEffect DEF SettingsInv
  <2>3. TypeOK'
    BY <2>1, <2>2 DEF SettingsInv, TypeOK
  <2>4. ASSUME orderly' PROVE Live' = {o}
    <3>1. Pending = {}
      BY <2>1, <2>4
    <3> QED BY <1>2, <2>1, <3>1 DEF Live, Pending, Listening
  <2>5. Matches(o)'
    BY <2>1, <2>2 DEF Matches
  <2> QED BY <2>3, <2>4, <2>5 DEF SettingsInv
<1> QED BY <1>1, <1>2

-----------------------------------------------------------------------------
LEMMA InitInv == Init => SettingsInv
<1> SUFFICES ASSUME Init PROVE SettingsInv
  OBVIOUS
<1>1. [target |-> DefaultTarget, auto |-> TRUE] \in [target : Targets, auto : BOOLEAN]
  BY SettingsAssumption
<1>2. TypeOK
  BY <1>1, DefaultIsRecord DEF Init, TypeOK
<1>3. ~up /\ Live = {}
  BY DEF Init, Live, Pending, Listening
<1> QED BY <1>2, <1>3 DEF SettingsInv

LEMMA StepInv == SettingsInv /\ [Next]_vars => SettingsInv'
<1> SUFFICES ASSUME SettingsInv, [Next]_vars PROVE SettingsInv'
  OBVIOUS
<1> USE DEF SettingsInv
<1>1. CASE ConnectButton
  BY <1>1, ConnectKeeps DEF ConnectButton, TypeOK
<1>2. CASE Reconnect
  BY <1>2, ConnectKeeps DEF Reconnect, TypeOK
<1>3. CASE SavePreferences
  <2> DEFINE s == [current EXCEPT !.auto = form.auto]
  <2>1. form \in Records /\ current \in Records
    BY <1>3 DEF SavePreferences, TypeOK
  <2>2. s \in Records /\ s.target = current.target
    BY <2>1 DEF Records
  <2>3. /\ current' = s /\ file' \in Records \cup {None, Torn} /\ written' \in BOOLEAN
        /\ written' => file' = s
    BY <1>3, <2>2, UpdateEffect DEF SavePreferences
  <2>4. UNCHANGED <<up, shown, bot, retryVars, form, orderly>>
    BY <1>3 DEF SavePreferences
  <2>5. TypeOK'
    BY <2>2, <2>3, <2>4 DEF TypeOK, retryVars
  <2>6. Live' = Live
    BY <2>4 DEF Live, Pending, Listening, retryVars
  <2>7. ASSUME NEW o, Matches(o) PROVE Matches(o)'
    BY <2>2, <2>3, <2>4, <2>7 DEF Matches
  <2> QED BY <2>4, <2>5, <2>6, <2>7
<1>4. CASE OpenSettings \/ EditForm \/ LeaveSettings
  <2>1. UNCHANGED <<up, configVars, shown, bot, retryVars, orderly>>
    BY <1>4 DEF OpenSettings, EditForm, LeaveSettings
  <2>2. form' \in Records \cup {None}
    <3>1. CASE OpenSettings
      <4>1. shown.target \in Targets
        BY DEF TypeOK, Records
      <4>2. PICK t \in {shown.target, DefaultTarget} :
              form' = [target |-> t, auto |-> TRUE]
        BY <3>1 DEF OpenSettings
      <4> QED BY <4>1, <4>2, SettingsAssumption DEF Records
    <3>2. CASE EditForm \/ LeaveSettings
      BY <3>2 DEF EditForm, LeaveSettings
    <3> QED BY <1>4, <3>1, <3>2
  <2>3. TypeOK'
    BY <2>1, <2>2 DEF TypeOK, configVars, retryVars
  <2>4. Live' = Live
    BY <2>1 DEF Live, Pending, Listening, retryVars
  <2> QED BY <2>1, <2>3, <2>4, NothingNew
<1>5. ASSUME NEW o \in Records, AttemptCreates(o) PROVE SettingsInv'
  <2>1. TypeOK'
    BY <1>5 DEF AttemptCreates, TypeOK, configVars
  <2>2. Live' \subseteq Live
    BY <1>5 DEF AttemptCreates, Live, Pending, Listening
  <2> QED BY <1>5, <2>1, <2>2, NothingNew DEF AttemptCreates
<1>6. ASSUME NEW o \in Records, AttemptFails(o) PROVE SettingsInv'
  <2>1. Schedule(o) /\ o \in attempts /\ attempts' = attempts \ {o}
    BY <1>6 DEF AttemptFails
  <2>2. TypeOK'
    BY <1>6, <2>1, ScheduleEffect DEF AttemptFails, TypeOK, configVars
  <2>3. Live' \subseteq Live
    BY <1>6, <2>1, ScheduleEffect DEF AttemptFails, Live, Pending, Listening
  <2> QED BY <1>6, <2>2, <2>3, NothingNew DEF AttemptFails
<1>7. ASSUME NEW c \in closing, Destroyed(c) PROVE SettingsInv'
  <2>1. c \in ClosingBots /\ closing' = closing \ {c}
    BY <1>7 DEF Destroyed, TypeOK
  <2>2. /\ timers' \subseteq timers \cup ({c.then} \ {None})
        /\ timers' \subseteq Records
        /\ timer' \in timers' \cup {None}
    <3>1. CASE c.then = None
      BY <1>7, <3>1 DEF Destroyed, TypeOK
    <3>2. CASE c.then # None
      <4>1. c.then \in Records /\ LossHandled(c.then)
        BY <1>7, <2>1, <3>2 DEF Destroyed, ClosingBots
      <4> QED BY <3>2, <4>1, LossEffect
    <3> QED BY <3>1, <3>2
  <2>3. TypeOK'
    BY <1>7, <2>1, <2>2 DEF Destroyed, TypeOK, configVars
  <2>4. UNCHANGED <<bot, replaced, attempts>>
    BY <1>7 DEF Destroyed
  <2>5. Live' \subseteq Live
    BY <2>1, <2>2, <2>4 DEF Live, Pending, Listening
  <2> QED BY <1>7, <2>3, <2>5, NothingNew DEF Destroyed
<1>8. ASSUME NEW o \in Records, TimerFires(o) PROVE SettingsInv'
  <2>1. TypeOK'
    BY <1>8 DEF TimerFires, TypeOK, configVars
  <2>2. Live' \subseteq Live
    BY <1>8 DEF TimerFires, Live, Pending, Listening
  <2> QED BY <1>8, <2>1, <2>2, NothingNew DEF TimerFires
<1>9. ASSUME NEW o \in Records, Lose(o) PROVE SettingsInv'
  <2>1. /\ o \in Live
        /\ replaced' \subseteq replaced
        /\ UNCHANGED <<up, configVars, shown, attempts, stopped, form, orderly>>
    BY <1>9 DEF Lose, Live, Pending
  <2>2. CASE bot # None
    <3> DEFINE c == [own |-> bot, then |-> o]
    <3>1. /\ bot' = None /\ closing' = closing \cup {c}
          /\ UNCHANGED <<timers, timer>>
      BY <1>9, <2>2 DEF Lose
    <3>2. c \in ClosingBots /\ c.own = bot /\ c.then = o
      BY <2>2 DEF TypeOK, ClosingBots
    <3>3. TypeOK'
      BY <2>1, <3>1, <3>2 DEF TypeOK, configVars
    <3>4. Listening' \subseteq Listening \cup {bot}
      BY <2>1, <3>1, <3>2 DEF Listening
    <3>5. Live' \subseteq Live
      BY <2>1, <2>2, <3>1, <3>2, <3>4 DEF Live, Pending
    <3> QED BY <2>1, <3>3, <3>5, NothingNew
  <2>3. CASE bot = None
    <3>1. LossHandled(o) /\ UNCHANGED <<bot, closing>>
      BY <1>9, <2>3 DEF Lose
    <3>2. /\ timers' \subseteq timers \cup {o} /\ timers' \subseteq Records
          /\ timer' \in timers' \cup {None}
      BY <3>1, LossEffect
    <3>3. TypeOK'
      BY <2>1, <3>1, <3>2 DEF TypeOK, configVars
    <3>4. Live' \subseteq Live
      BY <2>1, <2>3, <3>1, <3>2 DEF Live, Pending, Listening
    <3> QED BY <2>1, <3>3, <3>4, NothingNew
  <2> QED BY <2>2, <2>3
<1>10. CASE Disconnect
  <2>1. \A c \in closing' : \/ c \in closing
                            \/ bot # None /\ c = [own |-> bot, then |-> None]
    BY <1>10 DEF Disconnect
  <2>2. closing' \subseteq ClosingBots
    BY <2>1 DEF TypeOK, ClosingBots
  <2>3. TypeOK'
    BY <1>10, <2>2 DEF Disconnect, TypeOK, configVars
  <2>4. Listening' \subseteq Live
    BY <1>10, <2>1 DEF Disconnect, Listening, Live, Pending
  <2>5. {c.then : c \in closing'} \ {None} \subseteq {c.then : c \in closing}
    BY <2>1
  <2>6. Live' \subseteq Live
    BY <1>10, <2>4, <2>5 DEF Disconnect, Live, Pending
  <2> QED BY <1>10, <2>3, <2>6, NothingNew DEF Disconnect
<1>11. CASE Crash
  <2>1. TypeOK'
    BY <1>11 DEF Crash, TypeOK, configVars
  <2>2. ~up' /\ Live' = {}
    BY <1>11 DEF Crash, Live, Pending, Listening
  <2> QED BY <2>1, <2>2
<1>12. CASE Boot
  <2>1. Live = {} /\ up' /\ orderly' = TRUE
    BY <1>12 DEF Boot
  <2>2. Load \in Records
    BY DefaultIsRecord DEF Load
  <2>3. CASE /\ current' = Load /\ shown' = DefaultSettings /\ stopped' = FALSE
             /\ UNCHANGED <<file, written, attempts>>
    <3>1. TypeOK'
      BY <1>12, <2>1, <2>2, <2>3, DefaultIsRecord DEF Boot, TypeOK
    <3>2. Live' = {}
      BY <1>12, <2>1, <2>3 DEF Boot, Live, Pending, Listening
    <3> QED BY <2>1, <3>1, <3>2
  <2>4. CASE /\ Update(Load) /\ shown' = Load /\ stopped' = FALSE
             /\ attempts' = {Load}
    <3>1. PICK s \in Records : s = Load
      BY <2>2
    <3>2. /\ current' = s /\ file' \in Records \cup {None, Torn} /\ written' \in BOOLEAN
          /\ written' => file' = s
      BY <2>4, <3>1, UpdateEffect
    <3>3. TypeOK'
      BY <1>12, <2>1, <2>4, <3>1, <3>2 DEF Boot, TypeOK
    <3>4. Live' = {s}
      BY <1>12, <2>1, <2>4, <3>1 DEF Boot, Live, Pending, Listening
    <3>5. Matches(s)'
      BY <2>4, <3>1, <3>2 DEF Matches
    <3> QED BY <2>1, <3>3, <3>4, <3>5
  <2> QED BY <1>12, <2>3, <2>4 DEF Boot
<1>13. CASE UNCHANGED vars
  <2>1. TypeOK' /\ Live' = Live
    BY <1>13 DEF vars, TypeOK, configVars, retryVars, Live, Pending, Listening
  <2> QED BY <1>13, <2>1, NothingNew DEF vars
<1> QED BY <1>1, <1>2, <1>3, <1>4, <1>5, <1>6, <1>7, <1>8, <1>9, <1>10, <1>11, <1>12, <1>13
        DEF Next

-----------------------------------------------------------------------------
(* The inductive invariant of the settings: types, and the agreement of    *)
(* file, memory and panel with whatever is live.                           *)
THEOREM SettingsInvariant == Spec => []SettingsInv
BY InitInv, StepInv, PTL DEF Spec

(* The settings and every captured copy are well-formed. *)
THEOREM TypeCorrect == Spec => []TypeOK
<1>1. SettingsInv => TypeOK
  BY DEF SettingsInv
<1> QED BY <1>1, SettingsInvariant, PTL

(* A restart finds the server the bot is on, unless the last write failed  *)
(* (connect, update, main).                                                *)
THEOREM RestartServer == Spec => []RestartFindsServer
<1>1. SettingsInv => RestartFindsServer
  BY DEF SettingsInv, Matches, RestartFindsServer
<1> QED BY <1>1, SettingsInvariant, PTL

(* The connection panel names the server and the auto-reconnect choice of  *)
(* whatever is live (patchConnection, resetRuntime).                       *)
THEOREM PanelTruthful == Spec => []ShownIsLive
<1>1. SettingsInv => ShownIsLive
  BY DEF SettingsInv, Matches, ShownIsLive
<1> QED BY <1>1, SettingsInvariant, PTL
=============================================================================
