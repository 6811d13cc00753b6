------------------------------ MODULE Settings ------------------------------
(***************************************************************************)
(* Where the options of a bot come from and where they are kept: the form  *)
(* of SettingsPanel.tsx, the settings file of ConfigManager.ts, connect()  *)
(* and the copies that the bot's listeners, its attempts and its reconnect *)
(* timers have captured, across crashes of the worker.                     *)
(*                                                                         *)
(* A settings record stands for PersistedSettings and, but for preferences *)
(* that no code of the worker reads, for ConnectOptions: `target' is the   *)
(* host with all that is only set by connect() (port, user name, version,  *)
(* authentication, password), `auto' the choice that Save preferences also *)
(* writes.  Equal captured options count as one.                           *)
(*                                                                         *)
(* The listeners of a bot keep the options it was created with.  They stay *)
(* attached to a bot that destroyBot() waits for, after a loss as after    *)
(* disconnect(), and to a bot that a second attempt() has replaced: any of *)
(* them can still report a loss, which destroys whatever bot is current    *)
(* and is retried with the options of the bot that reported it.            *)
(***************************************************************************)
EXTENDS Naturals, FiniteSets

CONSTANTS Targets,        \* Minecraft servers
          DefaultTarget,  \* the one of DEFAULT_SETTINGS
          MaxPending,     \* bound: options captured at a time
          Torn,           \* a file that is not JSON
          None            \* null, no file

ASSUME SettingsAssumption == /\ DefaultTarget \in Targets
                             /\ MaxPending \in Nat \ {0}
                             /\ None # Torn

Records == [target : Targets, auto : BOOLEAN]

(* A bot that destroyBot() waits for: its own options, and those of the    *)
(* handleDisconnect() that waits, None when it is disconnect().            *)
ClosingBots == [own : Records, then : Records \cup {None}]

DefaultSettings == [target |-> DefaultTarget, auto |-> TRUE]

VARIABLES
  up,        \* the worker runs
  file,      \* the settings file: a record, None or Torn
  written,   \* history: the last persist() succeeded
  current,   \* ConfigManager.current
  shown,     \* store: connection.host ... and connection.autoReconnect
  bot,       \* the options that the current bot's listeners captured
  closing,   \* the bots that a destroyBot() waits for, in ClosingBots
  replaced,  \* the options of bots that a later attempt() replaced
  attempts,  \* those of attempt() calls in flight
  timers,    \* those of pending reconnect timers
  timer,     \* backoff.timer
  stopped,   \* backoff.stopped
  form,      \* the values in SettingsPanel, None while its tab is not open
  orderly    \* history: each accepted connect() found nothing pending

configVars == <<file, written, current>>
retryVars == <<closing, replaced, attempts, timers, timer, stopped>>
vars == <<up, configVars, shown, bot, retryVars, form, orderly>>

TypeOK ==
  /\ up \in BOOLEAN /\ written \in BOOLEAN /\ stopped \in BOOLEAN /\ orderly \in BOOLEAN
  /\ file \in Records \cup {None, Torn}
  /\ current \in Records
  /\ shown \in Records
  /\ bot \in Records \cup {None}
  /\ closing \subseteq ClosingBots /\ replaced \subseteq Records
  /\ attempts \subseteq Records /\ timers \subseteq Records
  /\ timer \in timers \cup {None}
  /\ form \in Records \cup {None}

Init ==
  /\ up = FALSE
  /\ file = None /\ written = TRUE
  /\ current = DefaultSettings
  /\ shown = DefaultSettings
  /\ bot = None
  /\ closing = {} /\ replaced = {}
  /\ attempts = {} /\ timers = {} /\ timer = None
  /\ stopped = FALSE
  /\ form = None
  /\ orderly = TRUE

(* Bots other than the current one that can still report a loss. *)
Listening == replaced \cup {c.own : c \in closing}

Pending == Listening \cup ({c.then : c \in closing} \ {None}) \cup attempts \cup timers

Live == Pending \cup ({bot} \ {None})

Room == Cardinality(closing) + Cardinality(replaced) + Cardinality(attempts)
          + Cardinality(timers) < MaxPending

-----------------------------------------------------------------------------
(* ConfigManager *)

(* load(): a file that is missing or cannot be parsed gives the defaults.  *)
Load == IF file \in Records THEN file ELSE DefaultSettings

(* update() and persist(): the file is truncated, then written; an error   *)
(* (or a crash, which follows as a step of its own) leaves the old file or *)
(* a torn one, and memory goes on with the new settings.                   *)
Update(s) ==
  /\ current' = s
  /\ \/ file' = s /\ written' = TRUE
     \/ file' \in {file, Torn} /\ written' = FALSE

-----------------------------------------------------------------------------
(* connect() and its callers *)

(* Variants of connect(): it saves before it looks for a bot; the store is *)
(* not told.                                                               *)
ConnectSavesFirst(o) ==
  /\ Update(o)
  /\ IF bot # None
     THEN UNCHANGED <<shown, stopped, attempts, orderly>>
     ELSE /\ stopped' = FALSE
          /\ shown' = o
          /\ attempts' = attempts \cup {o}
          /\ orderly' = (orderly /\ Pending = {})
  /\ UNCHANGED <<bot, closing, replaced, timers, timer>>

ConnectShowsNothing(o) ==
  /\ IF bot # None
     THEN UNCHANGED <<configVars, stopped, attempts, orderly>>
     ELSE /\ stopped' = FALSE
          /\ Update(o)
          /\ attempts' = attempts \cup {o}
          /\ orderly' = (orderly /\ Pending = {})
  /\ UNCHANGED <<shown, bot, closing, replaced, timers, timer>>

(* connect(): ignored as a whole while there is a bot; otherwise shown,    *)
(* saved and attempted, whatever older attempt or timer is pending.        *)
ConnectWith(o) ==
  /\ IF bot # None
     THEN UNCHANGED <<configVars, shown, stopped, attempts, orderly>>
     ELSE /\ stopped' = FALSE
          /\ shown' = o
          /\ Update(o)
          /\ attempts' = attempts \cup {o}
          /\ orderly' = (orderly /\ Pending = {})
  /\ UNCHANGED <<bot, closing, replaced, timers, timer>>

(* The Connect button, of the browser that holds the lock. *)
ConnectButton ==
  /\ up /\ form # None /\ Room
  /\ ConnectWith(form)
  /\ UNCHANGED <<up, form>>

(* reconnect, of any browser: connect() with the saved settings. *)
Reconnect ==
  /\ up /\ Room
  /\ ConnectWith(current)
  /\ UNCHANGED <<up, form>>

(* set-settings, from Save preferences of any browser: what the bot and    *)
(* the timers have captured stays as it was.                               *)
SavePreferences ==
  /\ up /\ form # None
  /\ Update([current EXCEPT !.auto = form.auto])
  /\ UNCHANGED <<up, shown, bot, retryVars, form, orderly>>

-----------------------------------------------------------------------------
(* The form *)

(* Opening the tab: the form starts from the page's snapshot, or from its  *)
(* own defaults before there is one; the auto-reconnect choice that was    *)
(* saved is not in it.                                                     *)
OpenSettings ==
  /\ form = None
  /\ form' \in {[target |-> t, auto |-> TRUE] : t \in {shown.target, DefaultTarget}}
  /\ UNCHANGED <<up, configVars, shown, bot, retryVars, orderly>>

EditForm ==
  /\ form # None
  /\ form' \in Records
  /\ UNCHANGED <<up, configVars, shown, bot, retryVars, orderly>>

LeaveSettings ==
  /\ form # None /\ form' = None
  /\ UNCHANGED <<up, configVars, shown, bot, retryVars, orderly>>

-----------------------------------------------------------------------------
(* The bot with the options it was created for *)

(* scheduleReconnect() *)
Schedule(o) ==
  IF o.auto /\ ~stopped THEN timers' = timers \cup {o} /\ timer' = o
                        ELSE UNCHANGED <<timers, timer>>

(* attempt() creates its bot, even if another attempt created one before:  *)
(* that one is no longer current, but its listeners stay.                  *)
AttemptCreates(o) ==
  /\ up /\ o \in attempts
  /\ bot # None => Room
  /\ attempts' = attempts \ {o}
  /\ bot' = o
  /\ replaced' = replaced \cup ({bot} \ {None})
  /\ UNCHANGED <<up, configVars, shown, closing, timers, timer, stopped, form, orderly>>

AttemptFails(o) ==
  /\ up /\ o \in attempts
  /\ attempts' = attempts \ {o}
  /\ Schedule(o)
  /\ UNCHANGED <<up, configVars, shown, bot, closing, replaced, stopped, form, orderly>>

(* The end of handleDisconnect(): the loss is permanent, or is retried with*)
(* the options of the listener.                                            *)
LossHandled(o) == UNCHANGED <<timers, timer>> \/ Schedule(o)

(* A kick, an error or an end of the current bot or of one that still has  *)
(* its listeners.  handleDisconnect() destroys the current bot, whichever  *)
(* that is, and goes on after the wait; with no bot it goes on at once.  A *)
(* bot that ends reports nothing more.                                     *)
Lose(o) ==
  /\ up /\ o \in Listening \cup ({bot} \ {None})
  /\ IF bot # None
     THEN /\ Room
          /\ bot' = None
          /\ closing' = closing \cup {[own |-> bot, then |-> o]}
          /\ UNCHANGED <<timers, timer>>
     ELSE /\ LossHandled(o)
          /\ UNCHANGED <<bot, closing>>
  /\ replaced' \in {replaced, replaced \ {o}}
  /\ UNCHANGED <<up, configVars, shown, attempts, stopped, form, orderly>>

(* destroyBot()'s wait ends: the listeners go, and the handleDisconnect()  *)
(* that waited goes on.                                                    *)
Destroyed(c) ==
  /\ up /\ c \in closing
  /\ closing' = closing \ {c}
  /\ IF c.then = None THEN UNCHANGED <<timers, timer>> ELSE LossHandled(c.then)
  /\ UNCHANGED <<up, configVars, shown, bot, replaced, attempts, stopped, form, orderly>>

(* Variant: the callback leaves backoff.timer as it is. *)
TimerFiresKeepsHandle(o) ==
  /\ up /\ o \in timers
  /\ timers' = timers \ {o} /\ UNCHANGED timer
  /\ attempts' = IF bot = None THEN attempts \cup {o} ELSE attempts
  /\ UNCHANGED <<up, configVars, shown, bot, closing, replaced, stopped, form, orderly>>

TimerFires(o) ==
  /\ up /\ o \in timers
  /\ timers' = timers \ {o} /\ timer' = None
  /\ attempts' = IF bot = None THEN attempts \cup {o} ELSE attempts
  /\ UNCHANGED <<up, configVars, shown, bot, closing, replaced, stopped, form, orderly>>

(* disconnect() cancels the timer it knows and waits for its bot with the  *)
(* bot's listeners attached, up to 4 s in which connect() is accepted;     *)
(* resetRuntime() keeps what is shown of the connection.                   *)
Disconnect ==
  /\ up
  /\ stopped' = TRUE
  /\ timers' = timers \ {timer} /\ timer' = None
  /\ IF bot # None
     THEN Room /\ closing' = closing \cup {[own |-> bot, then |-> None]}
     ELSE UNCHANGED closing
  /\ bot' = None
  /\ UNCHANGED <<up, configVars, shown, replaced, attempts, form, orderly>>

-----------------------------------------------------------------------------
(* The worker *)

(* The process ends: shutdown() or a crash. *)
Crash ==
  /\ up /\ up' = FALSE
  /\ bot' = None /\ closing' = {} /\ replaced' = {}
  /\ attempts' = {} /\ timers' = {} /\ timer' = None
  /\ UNCHANGED <<configVars, shown, stopped, form, orderly>>

(* main(): the settings are loaded, the store starts from the defaults and,*)
(* unless AUTO_CONNECT is 0, the bot is connected with what was loaded.    *)
Boot ==
  /\ ~up /\ up' = TRUE
  /\ orderly' = TRUE
  /\ \/ /\ current' = Load
        /\ shown' = DefaultSettings
        /\ stopped' = FALSE
        /\ UNCHANGED <<file, written, attempts>>
     \/ /\ Update(Load)
        /\ shown' = Load
        /\ stopped' = FALSE
        /\ attempts' = {Load}
  /\ UNCHANGED <<bot, closing, replaced, timers, timer, form>>

Next ==
  \/ ConnectButton \/ Reconnect \/ SavePreferences
  \/ OpenSettings \/ EditForm \/ LeaveSettings
  \/ \E o \in Records : AttemptCreates(o) \/ AttemptFails(o) \/ Lose(o) \/ TimerFires(o)
  \/ \E c \in closing : Destroyed(c)
  \/ Disconnect \/ Crash \/ Boot

Spec == Init /\ [][Next]_vars

-----------------------------------------------------------------------------
(* Safety.  `orderly' says that no connect() was accepted while a timer, an*)
(* attempt or the listeners of an earlier bot were left: the code lets     *)
(* those go on, and they may win over what the user asked for last, as may *)
(* the bot that a disconnect() still waits for.                            *)

(* A restart finds the server the bot is on: unless the last write failed, *)
(* whatever is live, earlier bots and retries included, has the target that*)
(* the file names and AUTO_CONNECT would use, after any ignored connect,   *)
(* any saved preferences and any number of losses (connect, update,        *)
(* attempt, handleDisconnect).                                             *)
RestartFindsServer ==
  up /\ orderly /\ written => \A o \in Live : file \in Records /\ file.target = o.target

(* The connection panel names the server and the auto-reconnect choice of  *)
(* whatever is live: preferences saved in between are not shown there, as  *)
(* they do not act before the next connect, and no reset or ignored connect*)
(* takes the two apart (patchConnection, resetRuntime, scheduleReconnect). *)
ShownIsLive == up /\ orderly => \A o \in Live : shown = o
=============================================================================
