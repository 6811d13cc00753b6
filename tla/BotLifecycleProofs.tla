------------------------- MODULE BotLifecycleProofs -------------------------
(***************************************************************************)
(* Proofs about BotLifecycle, for any number of bots, timers and attempts  *)
(* in flight, any options and any reasons.                                 *)
(*                                                                         *)
(* LifeInv is inductive: that the current bot is alive needs that a bot    *)
(* being destroyed is not the current one, and that a state that promises  *)
(* progress is backed needs both when the timer fires for nothing because  *)
(* there is a bot.  The bots that back it are those a loss has not begun to*)
(* destroy: at the end of a destroy for a loss nothing may be shown anew.  *)
(***************************************************************************)
EXTENDS BotLifecycle, TLAPS

(* The two flags apart from the rest: no prover handles both well.         *)
FlagTypes == imported \in BOOLEAN /\ stopped \in BOOLEAN

BotTypes ==
  /\ bot \in Bots \cup {None}
  /\ phase \in [Bots -> {"open", "kicked", "ended"}]
  /\ listening \in SUBSET Bots
  /\ botOpts \in [Bots -> Options \cup {None}]
  /\ spawned \in SUBSET Bots
  /\ spawning \in SUBSET Bots
  /\ keepAlive \in Bots \cup {None}

CloseTypes ==
  /\ closing \in [Bots -> Reasons \cup {"disconnect", None}]
  /\ closeOpts \in [Bots -> Options \cup {None}]
  /\ ended \in SUBSET Bots
  /\ lastDisconnect \in Reasons \cup {None}

CallTypes ==
  /\ callPc \in [Calls -> {"idle", "auth", "import"}]
  /\ callOpts \in [Calls -> Options \cup {None}]

TimerTypes ==
  /\ timerOpts \in [Timers -> Options \cup {None}]
  /\ timer \in Timers \cup {None}
  /\ attempt \in 0 .. MaxAttempt
  /\ connState \in {"OFFLINE", "CONNECTING", "AUTHENTICATING", "SPAWNED",
                    "ERROR", "RECONNECTING"}

LEMMA TypeSplit ==
  TypeOK <=> FlagTypes /\ BotTypes /\ CloseTypes /\ CallTypes /\ TimerTypes
  BY DEF TypeOK, FlagTypes, BotTypes, CloseTypes, CallTypes, TimerTypes

LifeInv == /\ TypeOK
           /\ CurrentBotAlive
           /\ TimerHandlePending
           /\ NoLimbo

-----------------------------------------------------------------------------
(* The helpers that several actions share *)

(* scheduleReconnect: the types, the handle it stores and the state it     *)
(* shows: RECONNECTING with a timer, or the one shown before when stopped  *)
(* or without autoReconnect.                                               *)
ConnStates == {"OFFLINE", "CONNECTING", "AUTHENTICATING", "SPAWNED", "ERROR",
               "RECONNECTING"}

LEMMA ScheduleEffect ==
  ASSUME TimerTypes, TimerHandlePending, NEW o, NEW a \in 0 .. MaxAttempt,
         NEW shown \in ConnStates, ScheduleReconnect(o, a, shown)
  PROVE  /\ TimerTypes'
         /\ TimerHandlePending'
         /\ \/ connState' = "RECONNECTING" /\ Pending'
            \/ connState' = shown /\ ~(o \in AutoReconnect /\ ~stopped)
<1> USE LifecycleAssumption
    DEF LifecycleAssumption, TimerTypes, TimerHandlePending, Pending, ConnStates
<1>1. CASE o \in AutoReconnect /\ ~stopped
  <2>1. PICK t \in Timers :
          /\ timerOpts' = [timerOpts EXCEPT ![t] = o]
          /\ timer' = t
          /\ attempt' = Saturate(a + 1)
          /\ connState' = "RECONNECTING"
    BY <1>1 DEF ScheduleReconnect
  <2>2. attempt' \in 0 .. MaxAttempt
    BY <2>1 DEF Saturate
  <2>3. QED
    BY <1>1, <2>1, <2>2
<1>2. CASE ~(o \in AutoReconnect /\ ~stopped)
  BY <1>2 DEF ScheduleReconnect, timerVars
<1>3. QED
  BY <1>1, <1>2

(* handleDisconnect after destroyBot ends in ERROR, in OFFLINE, with a     *)
(* timer in RECONNECTING or, once stopped, where it was.                   *)
LEMMA AfterDestroyEffect ==
  ASSUME TimerTypes, TimerHandlePending, NEW r, NEW o, NEW shown \in ConnStates,
         AfterDestroy(r, o, shown)
  PROVE  /\ TimerTypes'
         /\ TimerHandlePending'
         /\ \/ connState' \in {"ERROR", "OFFLINE"}
            \/ connState' = "RECONNECTING" /\ Pending'
            \/ connState' = shown /\ stopped
<1> DEFINE a == IF r = "CONFLICTING_CONNECTION" THEN 1 ELSE attempt
<1>1. a \in 0 .. MaxAttempt /\ 0 \in 0 .. MaxAttempt
  BY LifecycleAssumption DEF LifecycleAssumption, TimerTypes
<1>2. CASE o \in AutoReconnect /\ ScheduleReconnect(o, a, shown)
  <2> HIDE DEF a
  <2>1. /\ TimerTypes' /\ TimerHandlePending'
        /\ \/ connState' = "RECONNECTING" /\ Pending'
           \/ connState' = shown /\ ~(o \in AutoReconnect /\ ~stopped)
    BY <1>1, <1>2, ScheduleEffect
  <2>2. QED
    BY <1>2, <2>1
<1>3. CASE /\ UNCHANGED timerVars
           /\ connState' \in {"ERROR", "OFFLINE"}
           /\ attempt' \in {0, a}
  <2> HIDE DEF a
  <2>1. QED
    BY <1>1, <1>3 DEF timerVars, TimerTypes, TimerHandlePending
<1>4. QED
  BY <1>2, <1>3 DEF AfterDestroy

(* The beginning of an attempt. *)
LEMMA StartEffect ==
  ASSUME CallTypes, NEW o \in Options, StartAttempt(o)
  PROVE  /\ CallTypes'
         /\ InFlight'
         /\ imported' = imported
         /\ connState' \in {"CONNECTING", "AUTHENTICATING"}
  BY DEF StartAttempt, CallTypes, InFlight

(* handleDisconnect leaves no current bot, well-typed closing bots, and a  *)
(* state that is backed.                                                   *)
LEMMA HandleDisconnectEffect ==
  ASSUME CloseTypes, BotTypes, TimerTypes, TimerHandlePending, NEW r \in Reasons,
         NEW o \in Options \cup {None}, HandleDisconnect(r, o)
  PROVE  /\ bot' = None /\ keepAlive' = None
         /\ closing' \in [Bots -> Reasons \cup {"disconnect", None}]
         /\ closeOpts' \in [Bots -> Options \cup {None}]
         /\ lastDisconnect' = r
         /\ TimerTypes'
         /\ TimerHandlePending'
         /\ connState' \in {"ERROR", "OFFLINE", "RECONNECTING"}
         /\ connState' = "RECONNECTING" => Pending'
<1>1. /\ bot' = None /\ keepAlive' = None /\ lastDisconnect' = r
      /\ closing' \in [Bots -> Reasons \cup {"disconnect", None}]
      /\ closeOpts' \in [Bots -> Options \cup {None}]
  BY DEF HandleDisconnect, BeginDestroy, CloseTypes, BotTypes
<1>2. CASE bot = None
  <2>1. AfterDestroy(r, o, "ERROR")
    BY <1>2 DEF HandleDisconnect
  <2>2. QED
    BY <1>1, <2>1, AfterDestroyEffect DEF ConnStates
<1>3. CASE bot # None
  <2>1. connState' = "ERROR" /\ UNCHANGED <<attempt, timerVars>>
    BY <1>3 DEF HandleDisconnect
  <2>2. QED
    BY <1>1, <2>1 DEF timerVars, TimerTypes, TimerHandlePending
<1>4. QED
  BY <1>2, <1>3
-----------------------------------------------------------------------------
(* The invariant without its two flags *)
Core == /\ BotTypes /\ CloseTypes /\ CallTypes /\ TimerTypes
        /\ CurrentBotAlive /\ TimerHandlePending /\ NoLimbo

LEMMA CoreSplit == LifeInv <=> FlagTypes /\ Core
  BY TypeSplit DEF LifeInv, Core

LEMMA FlagStep ==
  ASSUME FlagTypes, [Next]_vars
  PROVE  FlagTypes'
<1> USE DEF FlagTypes
<1>1. ASSUME NEW o \in Options, Connect(o)
      PROVE  FlagTypes'
  BY <1>1 DEF Connect, StartAttempt
<1>2. CASE Disconnect
  BY <1>2 DEF Disconnect, callVars
<1>3. ASSUME NEW c \in Calls, AuthOk(c) \/ AuthFail(c)
      PROVE  FlagTypes'
  BY <1>3 DEF AuthOk, AuthFail
<1>4. ASSUME NEW c \in Calls, (\E b \in Bots : CreateBot(c, b)) \/ CreateFail(c)
      PROVE  FlagTypes'
  BY <1>4 DEF CreateBot, CreateFail, ImportReturns
<1>5. ASSUME NEW t \in Timers, TimerFires(t)
      PROVE  FlagTypes'
  BY <1>5 DEF TimerFires, StartAttempt, callVars
<1>6. ASSUME NEW b \in Bots, Spawn(b) \/ ViewerDone(b) \/ Resume(b)
      PROVE  FlagTypes'
  BY <1>6 DEF Spawn, ViewerDone, Resume, callVars
<1>7. ASSUME NEW b \in Bots, NEW r \in Reasons, Kicked(b, r) \/ Error(b, r) \/ End(b)
      PROVE  FlagTypes'
  BY <1>7 DEF Kicked, Error, End, HandleDisconnect, callVars
<1>8. CASE UNCHANGED vars
  BY <1>8 DEF vars
<1>9. QED
  BY <1>1, <1>2, <1>3, <1>4, <1>5, <1>6, <1>7, <1>8 DEF Next, Reasons

(* connect() while there is no bot. *)
LEMMA ConnectStep ==
  ASSUME Core, NEW o \in Options, Connect(o)
  PROVE  Core'
<1>1. /\ UNCHANGED <<botVars, closeVars, timerVars, attempt, lastDisconnect, keepAlive>>
      /\ CallTypes' /\ InFlight'
      /\ connState' \in {"CONNECTING", "AUTHENTICATING"}
  BY StartEffect DEF Connect, Core
<1>2. BotTypes' /\ CloseTypes' /\ CurrentBotAlive'
  BY <1>1 DEF botVars, closeVars, Core, BotTypes, CloseTypes, CurrentBotAlive
<1>3. TimerTypes' /\ TimerHandlePending'
  BY <1>1 DEF timerVars, Core, TimerTypes, TimerHandlePending
<1>4. NoLimbo'
  BY <1>1 DEF NoLimbo
<1>5. QED
  BY <1>1, <1>2, <1>3, <1>4 DEF Core

(* disconnect() up to its wait. *)
LEMMA DisconnectStep ==
  ASSUME Core, Disconnect
  PROVE  Core'
<1> USE DEF Core
<1>1. BotTypes' /\ CurrentBotAlive' /\ CallTypes'
  BY DEF Disconnect, BeginDestroy, BotTypes, CurrentBotAlive, CallTypes, callVars
<1>2. CloseTypes'
  BY DEF Disconnect, BeginDestroy, BotTypes, CloseTypes
<1>3. TimerTypes' /\ TimerHandlePending'
  BY DEF Disconnect, TimerTypes, TimerHandlePending
<1>4. NoLimbo'
  <2>1. CASE bot = None
    BY <2>1 DEF Disconnect, NoLimbo
  <2>2. CASE bot # None
    <3>1. /\ bot \in Bots /\ bot \in listening
          /\ listening' = listening
      BY <2>2 DEF BotTypes, CurrentBotAlive, Disconnect
    <3>2. closing'[bot] = "disconnect"
      BY <2>2, <3>1 DEF Disconnect, BeginDestroy, CloseTypes
    <3>3. Watched'
      BY <3>1, <3>2 DEF Watched
    <3>4. QED
      BY <3>1, <3>3 DEF NoLimbo
  <2>3. QED
    BY <2>1, <2>2
<1>5. QED
  BY <1>1, <1>2, <1>3, <1>4

(* The steps of an attempt after its authentication. *)
LEMMA AuthStep ==
  ASSUME Core, NEW c \in Calls, AuthOk(c) \/ AuthFail(c)
  PROVE  Core'
<1> USE DEF Core
<1>1. /\ UNCHANGED <<botVars, closeVars, lastDisconnect, keepAlive>>
  BY DEF AuthOk, AuthFail
<1>2. BotTypes' /\ CloseTypes' /\ CurrentBotAlive'
  BY <1>1 DEF botVars, closeVars, BotTypes, CloseTypes, CurrentBotAlive
<1>3. CASE AuthOk(c)
  <2>1. CallTypes' /\ InFlight'
    BY <1>3 DEF AuthOk, CallTypes, InFlight
  <2>2. TimerTypes' /\ TimerHandlePending' /\ connState' = "AUTHENTICATING"
    BY <1>3 DEF AuthOk, timerVars, TimerTypes, TimerHandlePending
  <2>3. QED
    BY <1>2, <2>1, <2>2 DEF NoLimbo
<1>4. CASE AuthFail(c)
  <2>1. CallTypes'
    BY <1>4, LifecycleAssumption DEF AuthFail, EndCall, CallTypes
  <2>2. attempt \in 0 .. MaxAttempt /\ ScheduleReconnect(callOpts[c], attempt, "ERROR")
    BY <1>4 DEF AuthFail, TimerTypes
  <2>3. QED
    BY <1>2, <2>1, <2>2, ScheduleEffect DEF NoLimbo, ConnStates
<1>5. QED
  BY <1>3, <1>4

(* createBot(), whatever has become of this.bot in the meantime. *)
LEMMA CreateStep ==
  ASSUME Core, NEW c \in Calls, (\E b \in Bots : CreateBot(c, b)) \/ CreateFail(c)
  PROVE  Core'
<1> USE DEF Core
<1>1. CallTypes' /\ CloseTypes'
  BY DEF CreateBot, CreateFail, ImportReturns, EndCall, CallTypes, closeVars, CloseTypes
<1>2. ASSUME NEW b \in Bots, CreateBot(c, b)
      PROVE  Core'
  <2>1. BotTypes'
    BY <1>2 DEF CreateBot, BotTypes, CallTypes
  <2>2. CurrentBotAlive' /\ b \in listening'
    BY <1>2 DEF CreateBot, Unused, BotTypes, CurrentBotAlive, closeVars
  <2>3. TimerTypes' /\ TimerHandlePending'
    BY <1>2 DEF CreateBot, timerVars, TimerTypes, TimerHandlePending
  <2>4. Watched'
    BY <1>2, <2>2 DEF CreateBot, Unused, closeVars, Watched
  <2>5. QED
    BY <1>1, <2>1, <2>2, <2>3, <2>4 DEF NoLimbo
<1>3. CASE CreateFail(c)
  <2>1. BotTypes' /\ CurrentBotAlive'
    BY <1>3 DEF CreateFail, botVars, closeVars, BotTypes, CurrentBotAlive
  <2>2. attempt \in 0 .. MaxAttempt /\ ScheduleReconnect(callOpts[c], attempt, "ERROR")
    BY <1>3 DEF CreateFail, TimerTypes
  <2>3. QED
    BY <1>1, <2>1, <2>2, ScheduleEffect DEF NoLimbo, ConnStates
<1>4. QED
  BY <1>2, <1>3

(* A reconnect timer fires, with a bot or without. *)
LEMMA TimerStep ==
  ASSUME Core, NEW t \in Timers, TimerFires(t)
  PROVE  Core'
<1> USE DEF Core
<1>1. /\ UNCHANGED <<botVars, closeVars, attempt, lastDisconnect, keepAlive>>
      /\ timerOpts' = [timerOpts EXCEPT ![t] = None] /\ timer' = None
  BY DEF TimerFires
<1>2. BotTypes' /\ CloseTypes' /\ CurrentBotAlive' /\ TimerHandlePending'
  BY <1>1 DEF botVars, closeVars, BotTypes, CloseTypes, CurrentBotAlive, TimerHandlePending
<1>3. CASE bot # None
  <2>1. UNCHANGED <<callVars, connState>> /\ bot \in listening' /\ Watched'
    BY <1>1, <1>3 DEF TimerFires, CurrentBotAlive, Watched, botVars, closeVars
  <2>2. CallTypes' /\ TimerTypes'
    BY <1>1, <2>1 DEF callVars, CallTypes, TimerTypes
  <2>3. QED
    BY <1>2, <2>1, <2>2 DEF NoLimbo
<1>4. CASE bot = None
  <2>1. StartAttempt(timerOpts[t]) /\ timerOpts[t] \in Options
    BY <1>4 DEF TimerFires, TimerTypes
  <2>2. CallTypes' /\ InFlight' /\ connState' \in {"CONNECTING", "AUTHENTICATING"}
    BY <2>1, StartEffect
  <2>3. TimerTypes'
    BY <1>1, <2>2 DEF TimerTypes
  <2>4. QED
    BY <1>2, <2>2, <2>3 DEF NoLimbo
<1>5. QED
  BY <1>3, <1>4

(* The spawn listener, before and after its wait for the viewer. *)
LEMMA SpawnStep ==
  ASSUME Core, NEW b \in Bots, Spawn(b) \/ ViewerDone(b)
  PROVE  Core'
<1> USE DEF Core
<1>1. /\ UNCHANGED <<bot, phase, listening, botOpts, closeVars, callVars, timerVars,
                     attempt, lastDisconnect>>
      /\ \/ connState' = "SPAWNED" /\ b \in listening
         \/ connState' = connState
  BY DEF Spawn, ViewerDone
<1>2. BotTypes'
  BY DEF Spawn, ViewerDone, BotTypes
<1>3. CloseTypes' /\ CallTypes' /\ CurrentBotAlive'
  BY <1>1 DEF closeVars, callVars, CloseTypes, CallTypes, CurrentBotAlive
<1>4. TimerTypes' /\ TimerHandlePending'
  BY <1>1 DEF timerVars, TimerTypes, TimerHandlePending
<1>5. NoLimbo'
  <2>1. UNCHANGED <<InFlight, Pending, Watched, listening, stopped>>
    BY <1>1 DEF InFlight, Pending, Watched, callVars, timerVars, closeVars, Spawn, ViewerDone
  <2>2. QED
    BY <1>1, <2>1 DEF NoLimbo
<1>6. QED
  BY <1>2, <1>3, <1>4, <1>5

(* A kick or an error of any bot whose listeners are attached. *)
LEMMA LossStep ==
  ASSUME Core, NEW b \in Bots, NEW r \in Reasons, Kicked(b, r) \/ Error(b, r)
  PROVE  Core'
<1> USE DEF Core
<1>1. /\ HandleDisconnect(r, botOpts[b]) /\ botOpts[b] \in Options \cup {None}
      /\ UNCHANGED <<listening, botOpts, spawned, spawning, ended>>
      /\ phase' \in [Bots -> {"open", "kicked", "ended"}]
      /\ UNCHANGED callVars
  BY DEF Kicked, Error, HandleDisconnect, BotTypes
<1>2. /\ bot' = None /\ keepAlive' = None
      /\ closing' \in [Bots -> Reasons \cup {"disconnect", None}]
      /\ closeOpts' \in [Bots -> Options \cup {None}]
      /\ lastDisconnect' = r
      /\ TimerTypes' /\ TimerHandlePending'
      /\ connState' \in {"ERROR", "OFFLINE", "RECONNECTING"}
      /\ connState' = "RECONNECTING" => Pending'
  BY <1>1, HandleDisconnectEffect
<1>3. BotTypes' /\ CloseTypes' /\ CallTypes' /\ CurrentBotAlive'
  BY <1>1, <1>2 DEF BotTypes, CloseTypes, CallTypes, CurrentBotAlive, callVars
<1>4. QED
  BY <1>2, <1>3 DEF NoLimbo

(* The end of a session, noticed or not. *)
LEMMA EndStep ==
  ASSUME Core, NEW b \in Bots, End(b)
  PROVE  Core'
<1> USE DEF Core
<1>1. /\ phase' = [phase EXCEPT ![b] = "ended"]
      /\ listening' = listening \ {b}
      /\ botOpts' = [botOpts EXCEPT ![b] = None]
      /\ spawned' = spawned \ {b}
      /\ spawning' = spawning
      /\ ended' \in SUBSET Bots
  BY DEF End
<1>2. CASE b \in listening
  <2>1. /\ HandleDisconnect("LOST_CONNECTION", botOpts[b])
        /\ botOpts[b] \in Options \cup {None}
        /\ "LOST_CONNECTION" \in Reasons
    BY <1>2 DEF End, BotTypes, Reasons
  <2>2. UNCHANGED callVars
    BY <2>1 DEF HandleDisconnect
  <2>3. /\ bot' = None /\ keepAlive' = None
        /\ closing' \in [Bots -> Reasons \cup {"disconnect", None}]
        /\ closeOpts' \in [Bots -> Options \cup {None}]
        /\ lastDisconnect' = "LOST_CONNECTION"
        /\ TimerTypes' /\ TimerHandlePending'
        /\ connState' \in {"ERROR", "OFFLINE", "RECONNECTING"}
        /\ connState' = "RECONNECTING" => Pending'
    BY <2>1, HandleDisconnectEffect
  <2>4. BotTypes' /\ CloseTypes' /\ CallTypes' /\ CurrentBotAlive'
    BY <1>1, <2>1, <2>2, <2>3 DEF BotTypes, CloseTypes, CallTypes, CurrentBotAlive, callVars
  <2>5. QED
    BY <2>3, <2>4 DEF NoLimbo
<1>3. CASE b \notin listening
  <2>1. /\ UNCHANGED <<bot, closing, closeOpts, callVars, timerVars, attempt, connState,
                       lastDisconnect, keepAlive>>
        /\ listening' = listening
    BY <1>1, <1>3 DEF End
  <2>2. BotTypes' /\ CloseTypes' /\ CallTypes'
    BY <1>1, <2>1 DEF BotTypes, CloseTypes, CallTypes, callVars
  <2>3. CurrentBotAlive'
    BY <1>1, <1>3, <2>1 DEF BotTypes, CurrentBotAlive
  <2>4. TimerTypes' /\ TimerHandlePending'
    BY <2>1 DEF timerVars, TimerTypes, TimerHandlePending
  <2>5. NoLimbo'
    <3>1. UNCHANGED <<InFlight, Pending, Watched, listening, stopped, connState>>
      BY <1>3, <2>1 DEF InFlight, Pending, Watched, callVars, timerVars, End
    <3>2. QED
      BY <3>1 DEF NoLimbo
  <2>6. QED
    BY <2>2, <2>3, <2>4, <2>5
<1>4. QED
  BY <1>2, <1>3

(* destroyBot() and its caller after the wait. *)
LEMMA ResumeStep ==
  ASSUME Core, NEW b \in Bots, Resume(b)
  PROVE  Core'
<1> USE DEF Core
<1>1. BotTypes' /\ CloseTypes' /\ CallTypes'
  BY DEF Resume, BotTypes, CloseTypes, CallTypes, callVars
<1>2. CurrentBotAlive'
  BY DEF Resume, BotTypes, CloseTypes, CurrentBotAlive
<1>3. /\ TimerTypes' /\ TimerHandlePending'
      /\ \/ connState' \in {"ERROR", "OFFLINE"}
         \/ connState' = "RECONNECTING" /\ Pending'
         \/ connState' = connState /\ stopped /\ closing[b] \notin {None, "disconnect"}
  <2>1. CASE closing[b] = "disconnect"
    BY <2>1 DEF Resume, timerVars, TimerTypes, TimerHandlePending
  <2>2. CASE closing[b] # "disconnect"
    <3>1. /\ AfterDestroy(closing[b], closeOpts[b], connState)
          /\ closing[b] # None
      BY <2>2 DEF Resume
    <3>2. connState \in ConnStates
      BY DEF TimerTypes, ConnStates
    <3>3. QED
      BY <2>2, <3>1, <3>2, AfterDestroyEffect
  <2>3. QED
    BY <2>1, <2>2
<1>4. CASE connState' = connState /\ stopped /\ closing[b] \notin {None, "disconnect"}
  <2>1. stopped' = stopped /\ InFlight' = InFlight
    BY DEF Resume, InFlight, callVars
  <2>2. Watched => Watched'
    BY <1>4 DEF Resume, Watched, CloseTypes
  <2>3. Pending => Pending'
    <3>1. AfterDestroy(closing[b], closeOpts[b], connState)
      BY <1>4 DEF Resume
    <3>2. UNCHANGED timerVars \/ ~stopped
      BY <3>1 DEF AfterDestroy, ScheduleReconnect
    <3>3. QED
      BY <1>4, <3>2 DEF timerVars, Pending
  <2>4. NoLimbo'
    BY <1>4, <2>1, <2>2, <2>3 DEF NoLimbo
  <2>5. QED
    BY <1>1, <1>2, <1>3, <2>4
<1>5. QED
  BY <1>1, <1>2, <1>3, <1>4 DEF NoLimbo

LEMMA CoreStep ==
  ASSUME Core, [Next]_vars
  PROVE  Core'
<1>1. ASSUME NEW o \in Options, Connect(o) PROVE Core'
  BY <1>1, ConnectStep
<1>2. CASE Disconnect
  BY <1>2, DisconnectStep
<1>3. ASSUME NEW c \in Calls, AuthOk(c) \/ AuthFail(c) PROVE Core'
  BY <1>3, AuthStep
<1>4. ASSUME NEW c \in Calls, (\E b \in Bots : CreateBot(c, b)) \/ CreateFail(c)
      PROVE  Core'
  BY <1>4, CreateStep
<1>5. ASSUME NEW t \in Timers, TimerFires(t) PROVE Core'
  BY <1>5, TimerStep
<1>6. ASSUME NEW b \in Bots, Spawn(b) \/ ViewerDone(b) PROVE Core'
  BY <1>6, SpawnStep
<1>7. ASSUME NEW b \in Bots, NEW r \in Reasons, Kicked(b, r) \/ Error(b, r) PROVE Core'
  BY <1>7, LossStep
<1>8. ASSUME NEW b \in Bots, End(b) PROVE Core'
  BY <1>8, EndStep
<1>9. ASSUME NEW b \in Bots, Resume(b) PROVE Core'
  BY <1>9, ResumeStep
<1>10. CASE UNCHANGED vars
  BY <1>10 DEF vars, Core, BotTypes, CloseTypes, CallTypes, TimerTypes,
     CurrentBotAlive, TimerHandlePending, NoLimbo, InFlight, Pending, Watched
<1>11. QED
  BY <1>1, <1>2, <1>3, <1>4, <1>5, <1>6, <1>7, <1>8, <1>9, <1>10 DEF Next, Reasons

LEMMA LifeInit == Init => LifeInv
<1> SUFFICES ASSUME Init PROVE FlagTypes /\ Core
  BY CoreSplit
<1> USE LifecycleAssumption DEF LifecycleAssumption, Init
<1>1. FlagTypes
  BY DEF FlagTypes
<1>2. BotTypes /\ CloseTypes /\ CallTypes /\ TimerTypes
  BY DEF BotTypes, CloseTypes, CallTypes, TimerTypes
<1>3. CurrentBotAlive /\ TimerHandlePending /\ NoLimbo
  BY DEF CurrentBotAlive, TimerHandlePending, NoLimbo
<1>4. QED
  BY <1>1, <1>2, <1>3 DEF Core

(* LifeInv holds in every reachable state. *)
THEOREM LifeInvariant == Spec => []LifeInv
<1>1. LifeInv /\ [Next]_vars => LifeInv'
  <2> SUFFICES ASSUME LifeInv, [Next]_vars PROVE LifeInv'
    OBVIOUS
  <2>1. FlagTypes' /\ Core'
    BY CoreSplit, FlagStep, CoreStep
  <2>2. QED
    BY <2>1 DEF Core, LifeInv, TypeOK, FlagTypes, BotTypes, CloseTypes, CallTypes, TimerTypes
<1>2. QED
  BY <1>1, LifeInit, PTL DEF Spec

(* Type correctness of the bot lifecycle. *)
THEOREM TypeCorrect == Spec => []TypeOK
<1>1. LifeInv => TypeOK
  BY DEF LifeInv
<1>2. QED
  BY <1>1, LifeInvariant, PTL

(* this.bot is never a bot that has ended, been kicked, been silenced or is*)
(* being destroyed (handleDisconnect, destroyBot, attempt).                *)
THEOREM CurrentAlive == Spec => []CurrentBotAlive
<1>1. LifeInv => CurrentBotAlive
  BY DEF LifeInv
<1>2. QED
  BY <1>1, LifeInvariant, PTL

(* disconnect() never cancels a timer that has already fired.              *)
THEOREM HandlePending == Spec => []TimerHandlePending
<1>1. LifeInv => TimerHandlePending
  BY DEF LifeInv
<1>2. QED
  BY <1>1, LifeInvariant, PTL

(* The state shown to the dashboards never promises what nothing can bring.*)
THEOREM Backed == Spec => []NoLimbo
<1>1. LifeInv => NoLimbo
  BY DEF LifeInv
<1>2. QED
  BY <1>1, LifeInvariant, PTL
-----------------------------------------------------------------------------
(* Nothing is left that could start the bot again but connect(). *)
LEMMA QuietStep ==
  ASSUME TypeOK, Quiet, [Next]_vars
  PROVE  Quiet' \/ ~stopped'
<1> USE DEF Quiet, InFlight, Pending
<1>1. ASSUME NEW o \in Options, Connect(o)
      PROVE  ~stopped'
  BY <1>1 DEF Connect
<1>2. CASE Disconnect
  BY <1>2 DEF Disconnect, BeginDestroy, callVars
<1>3. ASSUME NEW c \in Calls, \/ AuthOk(c) \/ AuthFail(c) \/ CreateFail(c)
                              \/ \E b \in Bots : CreateBot(c, b)
      PROVE  FALSE
  BY <1>3 DEF AuthOk, AuthFail, CreateFail, CreateBot, ImportReturns
<1>4. ASSUME NEW t \in Timers, TimerFires(t)
      PROVE  FALSE
  BY <1>4 DEF TimerFires
<1>5. ASSUME NEW b \in Bots, NEW r \in Reasons, Spawn(b) \/ Kicked(b, r) \/ Error(b, r)
      PROVE  FALSE
  BY <1>5 DEF Spawn, Kicked, Error
<1>6. ASSUME NEW b \in Bots, ViewerDone(b)
      PROVE  Quiet'
  BY <1>6 DEF ViewerDone, callVars, timerVars
<1>7. ASSUME NEW b \in Bots, End(b)
      PROVE  Quiet'
  BY <1>7 DEF End, callVars, timerVars
<1>8. ASSUME NEW b \in Bots, Resume(b)
      PROVE  Quiet'
  <2>1. UNCHANGED timerVars
    <3>1. CASE closing[b] = "disconnect"
      BY <1>8, <3>1 DEF Resume
    <3>2. CASE closing[b] # "disconnect"
      BY <1>8, <3>2 DEF Resume, AfterDestroy, ScheduleReconnect
    <3>3. QED
      BY <3>1, <3>2
  <2>2. QED
    BY <1>8, <2>1 DEF Resume, callVars, timerVars
<1>9. CASE UNCHANGED vars
  BY <1>9 DEF vars
<1>10. QED
  BY <1>1, <1>2, <1>3, <1>4, <1>5, <1>6, <1>7, <1>8, <1>9 DEF Next, Reasons

(* Once disconnect() is done and nothing is in flight, the bot stays away  *)
(* until somebody connects it (scheduleReconnect looks at backoff.stopped, *)
(* connect is the only one to clear it).                                   *)
THEOREM StaysQuiet == Spec => QuietUntilConnect
<1>1. TypeOK /\ [Next]_vars => (Quiet => Quiet' \/ ~stopped')
  BY QuietStep
<1>2. QED
  BY <1>1, TypeCorrect, PTL DEF Spec, QuietUntilConnect
-----------------------------------------------------------------------------
(* The refinement of BotSlot *)

(* destroyBot() up to its wait gives the current bot up, or finds none.    *)
LEMMA BeginDestroyGivesUp ==
  ASSUME CurrentBotAlive, NEW r, NEW o, BeginDestroy(r, o),
         \/ UNCHANGED listening
         \/ \E b \in listening : listening' = listening \ {b}
  PROVE  \/ bot # None /\ Slot!GiveUp(r)
         \/ bot = None /\ UNCHANGED <<bot, closing>>
  BY DEF BeginDestroy, CurrentBotAlive, Slot!GiveUp

(* Every step of the manager is one of the slot or leaves it alone.  That  *)
(* no reason is overwritten, and that the end of another bot's destroyBot()*)
(* leaves the current bot as it is, needs that the current bot is not being*)
(* destroyed (CurrentBotAlive).                                            *)
LEMMA SlotStep ==
  ASSUME LifeInv, [Next]_vars
  PROVE  [Slot!SlotNext]_(Slot!slotVars)
<1> USE DEF Slot!slotVars
<1>1. BotTypes /\ CurrentBotAlive /\ Reasons \subseteq Reasons \cup {"disconnect"}
  BY TypeSplit DEF LifeInv
<1>2. ASSUME NEW r \in Reasons \cup {"disconnect"}, NEW o, BeginDestroy(r, o),
             \/ UNCHANGED listening
             \/ \E b \in listening : listening' = listening \ {b}
      PROVE  Slot!SlotNext \/ (bot = None /\ UNCHANGED <<bot, closing>>)
  BY <1>1, <1>2, BeginDestroyGivesUp DEF Slot!SlotNext
<1>3. CASE \/ \E o \in Options : Connect(o)
           \/ \E c \in Calls : AuthOk(c) \/ AuthFail(c) \/ CreateFail(c)
           \/ \E t \in Timers : TimerFires(t)
           \/ \E b \in Bots : Spawn(b) \/ ViewerDone(b)
           \/ UNCHANGED vars
  BY <1>3 DEF Connect, AuthOk, AuthFail, CreateFail, TimerFires, Spawn, ViewerDone, botVars,
     closeVars, vars
<1>4. CASE Disconnect
  <2>1. BeginDestroy("disconnect", None) /\ UNCHANGED listening
    BY <1>4 DEF Disconnect
  <2> QED
    BY <1>2, <2>1
<1>5. ASSUME NEW c \in Calls, NEW b \in Bots, CreateBot(c, b)
      PROVE  Slot!Take(b)
  BY <1>5 DEF CreateBot, Unused, closeVars, Slot!Take
<1>6. ASSUME NEW b \in Bots, NEW r \in Reasons, Kicked(b, r) \/ Error(b, r)
      PROVE  [Slot!SlotNext]_(Slot!slotVars)
  <2>1. BeginDestroy(r, botOpts[b]) /\ UNCHANGED listening
    BY <1>6 DEF Kicked, Error, HandleDisconnect
  <2> QED
    BY <1>1, <1>2, <2>1
<1>7. ASSUME NEW b \in Bots, End(b)
      PROVE  [Slot!SlotNext]_(Slot!slotVars)
  <2>1. listening' = listening \ {b}
    BY <1>7 DEF End
  <2>2. CASE b \in listening
    <3>1. BeginDestroy("LOST_CONNECTION", botOpts[b]) /\ "LOST_CONNECTION" \in Reasons
      BY <1>7, <2>2 DEF End, HandleDisconnect, Reasons
    <3>2. Slot!SlotNext \/ (bot = None /\ UNCHANGED <<bot, closing>>)
      BY <1>1, <1>2, <2>1, <2>2, <3>1
    <3>3. CASE bot = None /\ UNCHANGED <<bot, closing>>
      <4>1. b # bot
        BY <3>3, LifecycleAssumption DEF LifecycleAssumption
      <4>2. Slot!FallSilent(b)
        BY <2>1, <2>2, <3>3, <4>1 DEF Slot!FallSilent
      <4> QED
        BY <4>2 DEF Slot!SlotNext
    <3> QED
      BY <3>2, <3>3
  <2>3. CASE b \notin listening
    BY <1>7, <2>1, <2>3 DEF End
  <2> QED
    BY <2>2, <2>3
<1>8. ASSUME NEW b \in Bots, Resume(b)
      PROVE  Slot!Finish(b)
  <2>1. closing[b] # None /\ b # bot
    BY <1>1, <1>8, LifecycleAssumption DEF Resume, CurrentBotAlive, LifecycleAssumption
  <2> QED
    BY <1>8, <2>1 DEF Resume, Slot!Finish
<1> QED
  BY <1>1, <1>3, <1>4, <1>5, <1>6, <1>7, <1>8 DEF Next, Reasons, Slot!SlotNext

(* The manager implements the slot: however attempts, kicks, errors, ends  *)
(* and disconnects interleave, the current bot is given up with a          *)
(* destroyBot() of its own or replaced, a reason is never overwritten      *)
(* while its bot waits, and no bot is taken that is being destroyed.       *)
THEOREM SlotRefinement == Spec => ImplementsSlot
<1>1. Init => Slot!SlotInit
  BY DEF Init, Slot!SlotInit
<1>2. LifeInv /\ [Next]_vars => [Slot!SlotNext]_(Slot!slotVars)
  BY SlotStep
<1> QED
  BY <1>1, <1>2, LifeInvariant, PTL DEF Spec, ImplementsSlot, Slot!SlotSpec
=============================================================================
