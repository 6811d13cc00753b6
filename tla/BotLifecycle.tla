---------------------------- MODULE BotLifecycle ----------------------------
(***************************************************************************)
(* MinecraftBotManager.ts: how a Mineflayer bot is connected, watched,     *)
(* destroyed and reconnected.                                              *)
(*                                                                         *)
(* Node.js runs one handler at a time; a handler that awaits is split at   *)
(* its awaits, and other handlers run between the parts.  Continuations    *)
(* that are already resolved (microtasks) run before the next event: every *)
(* action that starts from an event is guarded by Drained.                 *)
(***************************************************************************)
EXTENDS Naturals, FiniteSets

CONSTANTS Bots,           \* Mineflayer instances (an ended one is reused)
          Timers,         \* reconnect timers
          Calls,          \* attempt() calls in flight
          Options,        \* ConnectOptions
          AutoReconnect,  \* the options with autoReconnect
          Microsoft,      \* the options that authenticate by device code
          KickReasons,    \* what classifyError makes of a kick
          ErrorReasons,   \* what classifyError makes of an error event
          MaxAttempt,     \* bound: backoff.attempt counts up to here
          None            \* null

ASSUME LifecycleAssumption == /\ AutoReconnect \subseteq Options
                              /\ Microsoft \subseteq Options
                              /\ MaxAttempt \in Nat \ {0}
                              /\ None \notin Bots \cup Timers \cup Options
                              /\ None \notin KickReasons \cup ErrorReasons
                              /\ None # "disconnect"
                              /\ None # "LOST_CONNECTION"
                              /\ "disconnect" \notin KickReasons \cup ErrorReasons

VARIABLES
  bot,            \* this.bot
  phase,          \* of each bot's session: "open", "kicked", "ended"
  listening,      \* the bots whose listeners are attached
  botOpts,        \* the options each bot's listeners have captured
  spawned,        \* the bots that have spawned
  spawning,       \* the bots whose spawn listener waits for the viewer
  closing,        \* why each bot is being destroyed: a disconnect reason,
                  \* "disconnect" for disconnect(), None when it is not
  closeOpts,      \* the options of the listener that destroys it
  ended,          \* the closing bots whose wait for 'end' is resolved
  callPc,         \* where each attempt() is: "idle", "auth", "import"
  callOpts,       \* its options
  imported,       \* the mineflayer module is loaded
  timerOpts,      \* the options a pending reconnect timer has captured
  timer,          \* backoff.timer
  stopped,        \* backoff.stopped
  attempt,        \* backoff.attempt
  connState,      \* store: connection.state
  lastDisconnect, \* store: connection.lastDisconnect
  keepAlive       \* the bot the keep-alive interval and watchdog act on

botVars == <<bot, phase, listening, botOpts, spawned, spawning>>
closeVars == <<closing, closeOpts, ended>>
callVars == <<callPc, callOpts, imported>>
timerVars == <<timerOpts, timer>>
vars == <<bot, phase, listening, botOpts, spawned, spawning, closing, closeOpts,
          ended, callPc, callOpts, imported, timerOpts, timer, stopped, attempt,
          connState, lastDisconnect, keepAlive>>

(* isPermanent() *)
Permanent == {"WHITELIST_REJECTION", "BANNED", "INVALID_SESSION",
              "MICROSOFT_AUTH_FAILURE", "UNSUPPORTED_PROTOCOL"}

Reasons == KickReasons \cup ErrorReasons \cup {"LOST_CONNECTION"}

TypeOK ==
  /\ bot \in Bots \cup {None}
  /\ phase \in [Bots -> {"open", "kicked", "ended"}]
  /\ listening \in SUBSET Bots
  /\ botOpts \in [Bots -> Options \cup {None}]
  /\ spawned \in SUBSET Bots
  /\ spawning \in SUBSET Bots
  /\ closing \in [Bots -> Reasons \cup {"disconnect", None}]
  /\ closeOpts \in [Bots -> Options \cup {None}]
  /\ ended \in SUBSET Bots
  /\ callPc \in [Calls -> {"idle", "auth", "import"}]
  /\ callOpts \in [Calls -> Options \cup {None}]
  /\ imported \in BOOLEAN
  /\ timerOpts \in [Timers -> Options \cup {None}]
  /\ timer \in Timers \cup {None}
  /\ stopped \in BOOLEAN
  /\ attempt \in 0 .. MaxAttempt
  /\ connState \in {"OFFLINE", "CONNECTING", "AUTHENTICATING", "SPAWNED",
                    "ERROR", "RECONNECTING"}
  /\ lastDisconnect \in Reasons \cup {None}
  /\ keepAlive \in Bots \cup {None}

Init ==
  /\ bot = None
  /\ phase = [b \in Bots |-> "ended"]
  /\ listening = {}
  /\ botOpts = [b \in Bots |-> None]
  /\ spawned = {}
  /\ spawning = {}
  /\ closing = [b \in Bots |-> None]
  /\ closeOpts = [b \in Bots |-> None]
  /\ ended = {}
  /\ callPc = [c \in Calls |-> "idle"]
  /\ callOpts = [c \in Calls |-> None]
  /\ imported = FALSE
  /\ timerOpts = [t \in Timers |-> None]
  /\ timer = None
  /\ stopped = FALSE
  /\ attempt = 0
  /\ connState = "OFFLINE"
  /\ lastDisconnect = None
  /\ keepAlive = None

-----------------------------------------------------------------------------
(* No continuation is ready to run: the event loop takes the next event.   *)
Drained ==
  /\ ended = {}
  /\ imported => \A c \in Calls : callPc[c] # "import"

(* A bot nothing refers to any more stands for a new one. *)
Unused(b) ==
  /\ phase[b] = "ended"
  /\ b \notin listening \cup spawning
  /\ closing[b] = None
  /\ keepAlive # b

(* Bound: every timer, attempt and closing bot may come to need a timer of *)
(* its own; an event that could need another one waits until there is room.*)
Room ==
  Cardinality({t \in Timers : timerOpts[t] # None})
    + Cardinality({c \in Calls : callPc[c] # "idle"})
    + Cardinality({b \in Bots : closing[b] \notin {None, "disconnect"}})
    < Cardinality(Timers)

Saturate(n) == IF n > MaxAttempt THEN MaxAttempt ELSE n

(* The start of attempt() without a bot.  Offline options authenticate at  *)
(* once; the others show CONNECTING and wait for auth.authenticate().      *)
StartAttempt(o) ==
  \E c \in Calls :
    /\ callPc[c] = "idle"
    /\ callOpts' = [callOpts EXCEPT ![c] = o]
    /\ \/ /\ o \in Microsoft
          /\ callPc' = [callPc EXCEPT ![c] = "auth"]
          /\ connState' = "CONNECTING"
       \/ /\ o \notin Microsoft
          /\ callPc' = [callPc EXCEPT ![c] = "import"]
          /\ connState' = "AUTHENTICATING"
    /\ UNCHANGED imported

EndCall(c) ==
  /\ callPc' = [callPc EXCEPT ![c] = "idle"]
  /\ callOpts' = [callOpts EXCEPT ![c] = None]

(* scheduleReconnect() with backoff.attempt = a: the handle of a timer that*)
(* is still pending is overwritten.  Without autoReconnect, or once stopped*)
(* it returns and leaves the state that is shown.                          *)
ScheduleReconnect(o, a, shown) ==
  IF o \in AutoReconnect /\ ~stopped
  THEN \E t \in Timers :
         /\ timerOpts[t] = None
         /\ timerOpts' = [timerOpts EXCEPT ![t] = o]
         /\ timer' = t
         /\ attempt' = Saturate(a + 1)
         /\ connState' = "RECONNECTING"
  ELSE /\ attempt' = a
       /\ connState' = shown
       /\ UNCHANGED timerVars

(* Variant: nothing is retried. *)
AfterDestroyGivesUp(r, o, shown) ==
  /\ connState' = IF r \in Permanent THEN "ERROR" ELSE "OFFLINE"
  /\ attempt' = 0
  /\ UNCHANGED timerVars

(* handleDisconnect() after its destroyBot(): a permanent reason stops, the*)
(* others go on to reconnect when the listener's options say so.  A stopped*)
(* bot with autoReconnect leaves the state others may have shown since.    *)
AfterDestroy(r, o, shown) ==
  LET a == IF r = "CONFLICTING_CONNECTION" THEN 1 ELSE attempt
  IN  \/ /\ r \in Permanent
         /\ connState' = "ERROR"
         /\ attempt' = 0
         /\ UNCHANGED timerVars
      \/ /\ r \notin Permanent
         /\ o \in AutoReconnect
         /\ ScheduleReconnect(o, a, shown)
      \/ /\ r \notin Permanent
         /\ o \notin AutoReconnect
         /\ connState' = "OFFLINE"
         /\ attempt' = a
         /\ UNCHANGED timerVars

(* Variant: this.bot is kept until the bot has ended. *)
BeginDestroyKeepsBot(r, o) ==
  /\ keepAlive' = None
  /\ UNCHANGED bot
  /\ IF bot = None
     THEN UNCHANGED <<closing, closeOpts>>
     ELSE /\ closing' = [closing EXCEPT ![bot] = r]
          /\ closeOpts' = [closeOpts EXCEPT ![bot] = o]

(* destroyBot() up to its wait: this.bot is null before the bot has ended. *)
BeginDestroy(r, o) ==
  /\ keepAlive' = None
  /\ bot' = None
  /\ IF bot = None
     THEN UNCHANGED <<closing, closeOpts>>
     ELSE /\ closing' = [closing EXCEPT ![bot] = r]
          /\ closeOpts' = [closeOpts EXCEPT ![bot] = o]

(* Variant: the caller's own word is stored instead of a classified reason.*)
HandleDisconnectRaw(r, o) ==
  /\ lastDisconnect' = "disconnect"
  /\ BeginDestroy(r, o)
  /\ IF bot = None
     THEN AfterDestroy(r, o, "ERROR")
     ELSE connState' = "ERROR" /\ UNCHANGED <<attempt, timerVars>>
  /\ UNCHANGED <<callVars, stopped>>

(* handleDisconnect() up to its first wait, and to its end when no bot is  *)
(* left to wait for.                                                       *)
HandleDisconnect(r, o) ==
  /\ lastDisconnect' = r
  /\ BeginDestroy(r, o)
  /\ IF bot = None
     THEN AfterDestroy(r, o, "ERROR")
     ELSE connState' = "ERROR" /\ UNCHANGED <<attempt, timerVars>>
  /\ UNCHANGED <<callVars, stopped>>

-----------------------------------------------------------------------------
(* Commands *)

(* Variant: backoff.stopped is not cleared. *)
ConnectStaysStopped(o) ==
  /\ Drained /\ Room
  /\ bot = None
  /\ StartAttempt(o)
  /\ UNCHANGED <<botVars, closeVars, timerVars, stopped, attempt, lastDisconnect,
                 keepAlive>>

(* connect(): ignored while there is a bot; a pending timer stays. *)
Connect(o) ==
  /\ Drained /\ Room
  /\ bot = None
  /\ stopped' = FALSE
  /\ StartAttempt(o)
  /\ UNCHANGED <<botVars, closeVars, timerVars, attempt, lastDisconnect, keepAlive>>

(* disconnect(): cancels the timer backoff.timer refers to. *)
Disconnect ==
  /\ Drained
  /\ stopped' = TRUE
  /\ timerOpts' = [t \in Timers |-> IF t = timer THEN None ELSE timerOpts[t]]
  /\ timer' = None
  /\ BeginDestroy("disconnect", None)
  /\ connState' = IF bot = None THEN "OFFLINE" ELSE connState
  /\ UNCHANGED <<phase, listening, botOpts, spawned, spawning, ended, callVars,
                 attempt, lastDisconnect>>

-----------------------------------------------------------------------------
(* attempt() and the reconnect timer *)

AuthOk(c) ==
  /\ Drained
  /\ callPc[c] = "auth"
  /\ callPc' = [callPc EXCEPT ![c] = "import"]
  /\ connState' = "AUTHENTICATING"
  /\ UNCHANGED <<botVars, closeVars, callOpts, imported, timerVars, stopped,
                 attempt, lastDisconnect, keepAlive>>

AuthFail(c) ==
  /\ Drained
  /\ callPc[c] = "auth"
  /\ EndCall(c)
  /\ ScheduleReconnect(callOpts[c], attempt, "ERROR")
  /\ UNCHANGED <<botVars, closeVars, imported, stopped, lastDisconnect, keepAlive>>

(* The first import of mineflayer takes time, later ones are microtasks.   *)
ImportReturns(c) ==
  /\ callPc[c] = "import"
  /\ imported \/ Drained
  /\ EndCall(c)
  /\ imported' = TRUE

(* createBot() and the listeners; neither this.bot nor backoff.stopped is  *)
(* looked at again after the waits of attempt().                           *)
CreateBot(c, b) ==
  /\ ImportReturns(c)
  /\ Unused(b)
  /\ bot' = b
  /\ phase' = [phase EXCEPT ![b] = "open"]
  /\ listening' = listening \cup {b}
  /\ botOpts' = [botOpts EXCEPT ![b] = callOpts[c]]
  /\ UNCHANGED <<spawned, spawning, closeVars, timerVars, stopped, attempt,
                 connState, lastDisconnect, keepAlive>>

(* Variant: a failed createBot() is forgotten. *)
CreateFailForgotten(c) ==
  /\ ImportReturns(c)
  /\ UNCHANGED <<botVars, closeVars, timerVars, stopped, attempt, connState,
                 lastDisconnect, keepAlive>>

CreateFail(c) ==
  /\ ImportReturns(c)
  /\ ScheduleReconnect(callOpts[c], attempt, "ERROR")
  /\ UNCHANGED <<botVars, closeVars, stopped, lastDisconnect, keepAlive>>

(* Variant: the callback leaves backoff.timer as it is. *)
TimerFiresKeepsHandle(t) ==
  /\ Drained
  /\ timerOpts[t] # None
  /\ timerOpts' = [timerOpts EXCEPT ![t] = None]
  /\ UNCHANGED timer
  /\ IF bot # None
     THEN UNCHANGED <<callVars, connState>>
     ELSE StartAttempt(timerOpts[t])
  /\ UNCHANGED <<botVars, closeVars, stopped, attempt, lastDisconnect, keepAlive>>

(* The timer's callback nulls backoff.timer, whichever timer that is now.  *)
TimerFires(t) ==
  /\ Drained
  /\ timerOpts[t] # None
  /\ timerOpts' = [timerOpts EXCEPT ![t] = None]
  /\ timer' = None
  /\ IF bot # None
     THEN UNCHANGED <<callVars, connState>>
     ELSE StartAttempt(timerOpts[t])
  /\ UNCHANGED <<botVars, closeVars, stopped, attempt, lastDisconnect, keepAlive>>

-----------------------------------------------------------------------------
(* Events of a bot, the current one or not *)

Spawn(b) ==
  /\ Drained
  /\ b \in listening \ spawned
  /\ phase[b] = "open"
  /\ spawned' = spawned \cup {b}
  /\ spawning' = spawning \cup {b}
  /\ connState' = "SPAWNED"
  /\ UNCHANGED <<bot, phase, listening, botOpts, closeVars, callVars, timerVars,
                 stopped, attempt, lastDisconnect, keepAlive>>

(* startViewer() is done or has failed: the keep-alive loop starts on the  *)
(* bot that spawned, destroyed in the meantime or not.                     *)
ViewerDone(b) ==
  /\ Drained
  /\ b \in spawning
  /\ spawning' = spawning \ {b}
  /\ keepAlive' = b
  /\ UNCHANGED <<bot, phase, listening, botOpts, spawned, closeVars, callVars,
                 timerVars, stopped, attempt, connState, lastDisconnect>>

Kicked(b, r) ==
  /\ Drained /\ Room
  /\ b \in listening
  /\ phase[b] = "open"
  /\ phase' = [phase EXCEPT ![b] = "kicked"]
  /\ HandleDisconnect(r, botOpts[b])
  /\ UNCHANGED <<listening, botOpts, spawned, spawning, ended>>

Error(b, r) ==
  /\ Drained /\ Room
  /\ b \in listening
  /\ HandleDisconnect(r, botOpts[b])
  /\ UNCHANGED <<phase, listening, botOpts, spawned, spawning, ended>>

(* The session ends.  The 'end' listener of handleDisconnect runs, then the*)
(* one destroyBot() may have added; the bot emits nothing after that.      *)
End(b) ==
  /\ Drained
  /\ phase[b] # "ended"
  /\ b \in listening => Room
  /\ phase' = [phase EXCEPT ![b] = "ended"]
  /\ listening' = listening \ {b}
  /\ botOpts' = [botOpts EXCEPT ![b] = None]
  /\ spawned' = spawned \ {b}
  /\ ended' = IF closing[b] # None THEN {b} ELSE {}
  /\ IF b \in listening
     THEN HandleDisconnect("LOST_CONNECTION", botOpts[b])
     ELSE UNCHANGED <<bot, closing, closeOpts, callVars, timerVars, stopped,
                      attempt, connState, lastDisconnect, keepAlive>>
  /\ UNCHANGED spawning

(* Variant: destroyBot() waits for 'end' without the 4 s fallback. *)
ResumeOnEnd(b) ==
  /\ closing[b] # None
  /\ b \in ended
  /\ ended' = ended \ {b}
  /\ closing' = [closing EXCEPT ![b] = None]
  /\ closeOpts' = [closeOpts EXCEPT ![b] = None]
  /\ listening' = listening \ {b}
  /\ botOpts' = [botOpts EXCEPT ![b] = None]
  /\ spawned' = spawned \ {b}
  /\ IF closing[b] = "disconnect"
     THEN connState' = "OFFLINE" /\ UNCHANGED <<attempt, timerVars>>
     ELSE AfterDestroy(closing[b], closeOpts[b], connState)
  /\ UNCHANGED <<bot, phase, spawning, callVars, stopped, lastDisconnect, keepAlive>>

(* Variant: this.bot is set to null after the wait, whichever bot it is.   *)
ResumeClearsBot(b) ==
  /\ closing[b] # None
  /\ b \in ended \/ Drained
  /\ ended' = ended \ {b}
  /\ closing' = [closing EXCEPT ![b] = None]
  /\ closeOpts' = [closeOpts EXCEPT ![b] = None]
  /\ listening' = listening \ {b}
  /\ botOpts' = [botOpts EXCEPT ![b] = None]
  /\ spawned' = spawned \ {b}
  /\ bot' = None
  /\ IF closing[b] = "disconnect"
     THEN connState' = "OFFLINE" /\ UNCHANGED <<attempt, timerVars>>
     ELSE AfterDestroy(closing[b], closeOpts[b], connState)
  /\ UNCHANGED <<phase, spawning, callVars, stopped, lastDisconnect, keepAlive>>

(* destroyBot() after its wait, which 'end' or the 4 s fallback resolves,  *)
(* and the rest of the disconnect() or handleDisconnect() that called it.  *)
Resume(b) ==
  /\ closing[b] # None
  /\ b \in ended \/ Drained
  /\ ended' = ended \ {b}
  /\ closing' = [closing EXCEPT ![b] = None]
  /\ closeOpts' = [closeOpts EXCEPT ![b] = None]
  /\ listening' = listening \ {b}
  /\ botOpts' = [botOpts EXCEPT ![b] = None]
  /\ spawned' = spawned \ {b}
  /\ IF closing[b] = "disconnect"
     THEN connState' = "OFFLINE" /\ UNCHANGED <<attempt, timerVars>>
     ELSE AfterDestroy(closing[b], closeOpts[b], connState)
  /\ UNCHANGED <<bot, phase, spawning, callVars, stopped, lastDisconnect, keepAlive>>

Next ==
  \/ \E o \in Options : Connect(o)
  \/ Disconnect
  \/ \E c \in Calls : \/ AuthOk(c)
                      \/ AuthFail(c)
                      \/ \E b \in Bots : CreateBot(c, b)
                      \/ CreateFail(c)
  \/ \E t \in Timers : TimerFires(t)
  \/ \E b \in Bots : \/ Spawn(b)
                     \/ ViewerDone(b)
                     \/ \E r \in KickReasons : Kicked(b, r)
                     \/ \E r \in ErrorReasons : Error(b, r)
                     \/ End(b)
                     \/ Resume(b)

Spec == Init /\ [][Next]_vars

(* The runtime finishes imports, fires due timers and runs continuations,  *)
(* however many other events it handles in between (SF: a timer waits while*)
(* microtasks run).  The server, the browsers and the Microsoft login owe  *)
(* nothing.                                                                *)
FairSpec ==
  /\ Spec
  /\ \A c \in Calls : WF_vars(CreateFail(c) \/ \E b \in Bots : CreateBot(c, b))
  /\ \A b \in Bots : SF_vars(Resume(b))
  /\ \A t \in Timers : SF_vars(TimerFires(t))

-----------------------------------------------------------------------------
(* Safety *)

(* The bot commands and keys are sent to is one whose session is open,     *)
(* whose listeners are attached and that nobody is destroying: every event *)
(* that ends it also gives it up (handleDisconnect, destroyBot).           *)
CurrentBotAlive ==
  bot # None => /\ phase[bot] = "open"
                /\ bot \in listening
                /\ closing[bot] = None

(* What disconnect() would cancel is a pending timer, never one that fired.*)
TimerHandlePending == timer # None => timerOpts[timer] # None

(* A state that promises progress to the dashboards is backed by something *)
(* that can bring it: an attempt in flight, a pending timer, or a bot whose*)
(* end would still be noticed or which disconnect() is destroying.  SPAWNED*)
(* is backed by a bot until somebody disconnects: a bot that spawns while  *)
(* it is being destroyed writes SPAWNED over disconnect()'s OFFLINE, and   *)
(* handleDisconnect() then schedules nothing and leaves it there.          *)
InFlight == \E c \in Calls : callPc[c] # "idle"
Pending == \E t \in Timers : timerOpts[t] # None
Watched == \E b \in listening : closing[b] \in {None, "disconnect"}
NoLimbo ==
  /\ connState \in {"CONNECTING", "AUTHENTICATING"} => InFlight \/ Watched
  /\ connState = "RECONNECTING" => Pending \/ InFlight \/ Watched
  /\ connState = "SPAWNED" => listening # {} \/ stopped

(* Once disconnect() has stopped the bot and nothing is left in flight, no *)
(* timer, event or late continuation starts it again: only connect() does. *)
Quiet == /\ stopped
         /\ ~InFlight
         /\ ~Pending
         /\ listening = {}
         /\ bot = None
QuietUntilConnect == [][Quiet => Quiet' \/ ~stopped']_vars

(* What the rest of the worker may rely on: the current bot is given up or *)
(* replaced and never just lost, a reason stays with the bot until its     *)
(* destroyBot() is done, and a bot that is being destroyed is not taken    *)
(* again (BotSlot; attempt, destroyBot, handleDisconnect).                 *)
Slot == INSTANCE BotSlot WITH
          Reasons <- Reasons \cup {"disconnect"},
          current <- bot, heard <- listening, leaving <- closing

ImplementsSlot == Slot!SlotSpec

(* Liveness: destroyBot() never hangs, even when the bot never ends (the   *)
(* 4 s fallback).                                                          *)
DestroyCompletes == \A b \in Bots : closing[b] # None ~> closing[b] = None

(* Liveness: a bot lost for a reason that is not permanent, with           *)
(* autoReconnect, is attempted again unless somebody disconnects.          *)
LossIsRetried ==
  \A b \in Bots :
    closing[b] \in Reasons \ Permanent /\ closeOpts[b] \in AutoReconnect
      ~> stopped \/ InFlight \/ bot # None

(* What README.md says of a permanent rejection: when handleDisconnect has *)
(* dealt with it, no reconnect is scheduled.                               *)
PermanentStopsReconnect ==
  [][ \A b \in Bots :
        closing[b] \in Permanent /\ closing'[b] = None => ~Pending' ]_vars
=============================================================================
