------------------------------ MODULE Spawned ------------------------------
(***************************************************************************)
(* What the worker does with a bot once it has spawned: its viewer server  *)
(* (ViewerManager.ts, startViewer), the keep-alive loop and the in-game    *)
(* login (runInGameAuth, handleAuthPrompt), against a bot that may be lost *)
(* and replaced while the spawn listener waits for the viewer.             *)
(*                                                                         *)
(* A viewer server is named after the bot whose spawn listener started it. *)
(***************************************************************************)
EXTENDS Naturals

CONSTANTS Bots,  \* Mineflayer instances (one nothing refers to is reused)
          None   \* null

ASSUME SpawnedAssumption == None \notin Bots

VARIABLES
  bot,        \* MinecraftBotManager.bot
  session,    \* of each bot: "unused", "open", "closing" (quit() was called)
  password,   \* the bots whose options have an authPassword
  rendering,  \* the bots whose options have a viewDistance > 0
  spawned,    \* the bots that have spawned
  waiting,    \* of each spawn listener: "no", "stop" (it waits for the old
              \* viewer to close) or "import"
  closes,     \* the server a listener in "stop" closes
  target,     \* the bot a listener starts a viewer for: this.bot when it ran
  loaded,     \* prismarine-viewer has been imported
  servers,    \* the viewer servers that have not closed
  views,      \* the bot each server shows
  unclosed,   \* history: the servers that stop() gave up without closing
  active,     \* ViewerManager.active
  ready,      \* store: viewer.ready
  keepAlive,  \* the bot the keep-alive interval acts on
  loginDue,   \* the bots whose login timer (1.2 s after the spawn) is set
  againDue,   \* the bots whose timer of a /login after /register is set
  sent,       \* the bots that have sent /login
  account,    \* the server knows the bot's account
  authed,     \* the bots the server has authenticated
  orderly     \* history: each bot's spawn listener was through before the bot
              \* was lost, and the bot was destroyed before the next was created

botVars == <<bot, session, password, rendering, spawned>>
listenerVars == <<waiting, closes, target>>
viewerVars == <<loaded, servers, views, unclosed, active>>
authVars == <<loginDue, againDue, sent, account, authed>>
vars == <<botVars, listenerVars, viewerVars, ready, keepAlive, authVars, orderly>>

TypeOK ==
  /\ bot \in Bots \cup {None}
  /\ session \in [Bots -> {"unused", "open", "closing"}]
  /\ password \subseteq Bots /\ rendering \subseteq Bots /\ spawned \subseteq Bots
  /\ waiting \in [Bots -> {"no", "stop", "import"}]
  /\ closes \in [Bots -> Bots \cup {None}]
  /\ target \in [Bots -> Bots \cup {None}]
  /\ loaded \in BOOLEAN /\ ready \in BOOLEAN
  /\ servers \subseteq Bots /\ unclosed \subseteq Bots
  /\ views \in [Bots -> Bots \cup {None}]
  /\ active \in Bots \cup {None} /\ keepAlive \in Bots \cup {None}
  /\ loginDue \subseteq Bots /\ againDue \subseteq Bots
  /\ sent \subseteq Bots /\ authed \subseteq Bots
  /\ account \in BOOLEAN /\ orderly \in BOOLEAN

Init ==
  /\ bot = None
  /\ session = [b \in Bots |-> "unused"]
  /\ password = {} /\ rendering = {} /\ spawned = {}
  /\ waiting = [b \in Bots |-> "no"]
  /\ closes = [b \in Bots |-> None] /\ target = [b \in Bots |-> None]
  /\ loaded = FALSE
  /\ servers = {} /\ views = [b \in Bots |-> None] /\ unclosed = {} /\ active = None
  /\ ready = FALSE /\ keepAlive = None
  /\ loginDue = {} /\ againDue = {} /\ sent = {} /\ authed = {}
  /\ account \in BOOLEAN
  /\ orderly = TRUE

(* A later import resumes before the next event. *)
Calm == loaded => \A b \in Bots : waiting[b] # "import"

(* Nothing refers to the name any more. *)
Unused(b) ==
  /\ session[b] = "unused" /\ waiting[b] = "no"
  /\ b \notin servers \cup {active, keepAlive}
  /\ \A d \in Bots : views[d] # b /\ target[d] # b

(* The bot is gone, and what its session had come to with it: whatever its *)
(* login timers or its spawn listener send from now on reaches nobody, so  *)
(* its password and its timers are dropped.                                *)
Gone(b) ==
  /\ password' = password \ {b} /\ rendering' = rendering \ {b}
  /\ spawned' = spawned \ {b}
  /\ loginDue' = loginDue \ {b} /\ againDue' = againDue \ {b}
  /\ sent' = sent \ {b} /\ authed' = authed \ {b}
  /\ UNCHANGED account

-----------------------------------------------------------------------------
(* The bot *)

(* connect(), up to its attempt. *)
Connect ==
  /\ Calm /\ bot = None
  /\ ready' = FALSE
  /\ UNCHANGED <<botVars, listenerVars, viewerVars, keepAlive, authVars, orderly>>

(* An attempt of connect() or of a reconnect timer creates the bot. *)
CreateBot(b, pw, view) ==
  /\ Calm /\ Unused(b)
  /\ bot' = b
  /\ session' = [session EXCEPT ![b] = "open"]
  /\ password' = IF pw THEN password \cup {b} ELSE password \ {b}
  /\ rendering' = IF view THEN rendering \cup {b} ELSE rendering \ {b}
  /\ orderly' = (orderly /\ \A d \in Bots : session[d] = "unused")
  /\ UNCHANGED <<spawned, listenerVars, viewerVars, ready, keepAlive, authVars>>

(* destroyBot() up to its wait, and to its end without a bot. *)
DestroyCurrent ==
  /\ keepAlive' = None
  /\ bot' = None
  /\ IF bot = None
     THEN ready' = FALSE /\ UNCHANGED session
     ELSE session' = [session EXCEPT ![bot] = "closing"] /\ UNCHANGED ready

(* disconnect(), or handleDisconnect() for an event of any bot. *)
Destroy ==
  /\ Calm /\ DestroyCurrent
  /\ orderly' = (orderly /\ \A b \in Bots : waiting[b] = "no")
  /\ UNCHANGED <<password, rendering, spawned, listenerVars, viewerVars, authVars>>

(* Variant: the end of the wait does not touch the viewer. *)
DestroyedKeepsReady(b) ==
  /\ Calm /\ session[b] = "closing"
  /\ session' = [session EXCEPT ![b] = "unused"]
  /\ Gone(b)
  /\ UNCHANGED <<bot, listenerVars, viewerVars, ready, keepAlive, orderly>>

(* The rest of destroyBot(), once the bot has ended or 4 s have passed. *)
Destroyed(b) ==
  /\ Calm /\ session[b] = "closing"
  /\ session' = [session EXCEPT ![b] = "unused"]
  /\ ready' = FALSE
  /\ Gone(b)
  /\ UNCHANGED <<bot, listenerVars, viewerVars, keepAlive, orderly>>

(* A bot that a second attempt has replaced ends: its listener destroys    *)
(* whatever bot is current.                                                *)
OrphanEnds(b) ==
  /\ Calm /\ session[b] = "open" /\ b # bot
  /\ keepAlive' = None /\ bot' = None
  /\ session' = [d \in Bots |-> IF d = b THEN "unused"
                                ELSE IF d = bot THEN "closing" ELSE session[d]]
  /\ ready' = IF bot = None THEN FALSE ELSE ready
  /\ Gone(b)
  /\ UNCHANGED <<listenerVars, viewerVars, orderly>>

-----------------------------------------------------------------------------
(* The spawn listener and the viewer *)

(* Variants: no keep-alive loop; no login. *)
AfterViewerForgetsLoop(b) ==
  /\ loginDue' = IF b \in password THEN loginDue \cup {b} ELSE loginDue
  /\ UNCHANGED keepAlive

AfterViewerForgetsLogin(b) ==
  /\ keepAlive' = b
  /\ UNCHANGED loginDue

(* The rest of the spawn listener: startKeepAliveLoop(bot) on the bot that *)
(* spawned, current or not, and the login timer of runInGameAuth().        *)
AfterViewer(b) ==
  /\ keepAlive' = b
  /\ loginDue' = IF b \in password THEN loginDue \cup {b} ELSE loginDue

(* Variant: the arguments of start() are swapped. *)
StartViewerSwapped(b) ==
  /\ target' = [target EXCEPT ![b] = b \in rendering]
  /\ waiting' = [waiting EXCEPT ![b] = IF active = None THEN "import" ELSE "stop"]
  /\ closes' = [closes EXCEPT ![b] = active]
  /\ UNCHANGED <<keepAlive, loginDue, ready>>

(* start() closes the active viewer, if there is one. *)
StartViewer(b) ==
  /\ target' = [target EXCEPT ![b] = bot]
  /\ waiting' = [waiting EXCEPT ![b] = IF active = None THEN "import" ELSE "stop"]
  /\ closes' = [closes EXCEPT ![b] = active]
  /\ UNCHANGED <<keepAlive, loginDue, ready>>

(* 'spawn', once per bot: no viewer without a view distance, an error      *)
(* without a bot.                                                          *)
Spawn(b) ==
  /\ Calm /\ session[b] # "unused" /\ b \notin spawned
  /\ spawned' = spawned \cup {b}
  /\ IF b \in rendering /\ bot # None
     THEN StartViewer(b)
     ELSE /\ AfterViewer(b)
          /\ ready' = (ready /\ b \in rendering)
          /\ UNCHANGED <<waiting, closes, target>>
  /\ UNCHANGED <<bot, session, password, rendering, viewerVars, againDue, sent, account,
                 authed, orderly>>

(* Variant: stop() forgets the handle before the server has closed. *)
ViewerStoppedForgets(b) ==
  /\ Calm /\ waiting[b] = "stop"
  /\ active' = None
  /\ waiting' = [waiting EXCEPT ![b] = "import"]
  /\ closes' = [closes EXCEPT ![b] = None]
  /\ UNCHANGED <<botVars, target, loaded, servers, views, unclosed, ready, keepAlive,
                 authVars, orderly>>

(* stop() forgets the active viewer, whichever that is now: close() has    *)
(* called back and the server is gone, or it was gone before; or the view  *)
(* has no close(), or close() gave an error, which is caught, and the      *)
(* server goes on.                                                         *)
ViewerStopped(b) ==
  /\ Calm /\ waiting[b] = "stop"
  /\ \/ /\ servers' = servers \ {closes[b]}
        /\ views' = [views EXCEPT ![closes[b]] = None]
        /\ unclosed' = unclosed \ {closes[b]}
     \/ /\ unclosed' = unclosed \cup (servers \cap {closes[b]})
        /\ UNCHANGED <<servers, views>>
  /\ active' = None
  /\ waiting' = [waiting EXCEPT ![b] = "import"]
  /\ closes' = [closes EXCEPT ![b] = None]
  /\ UNCHANGED <<botVars, target, loaded, ready, keepAlive, authVars, orderly>>

(* The import of prismarine-viewer returns. *)
Imported ==
  /\ ~loaded /\ \E b \in Bots : waiting[b] = "import"
  /\ loaded' = TRUE
  /\ UNCHANGED <<botVars, listenerVars, servers, views, unclosed, active, ready, keepAlive,
                 authVars, orderly>>

(* mineflayerViewer() starts a server for the bot that was current when    *)
(* the listener ran, or throws.                                            *)
ViewerStarts(b) ==
  /\ loaded /\ waiting[b] = "import"
  /\ waiting' = [waiting EXCEPT ![b] = "no"]
  /\ target' = [target EXCEPT ![b] = None]
  /\ \/ /\ servers' = servers \cup {b}
        /\ views' = [views EXCEPT ![b] = target[b]]
        /\ active' = b
        /\ ready' = TRUE
     \/ UNCHANGED <<servers, views, active, ready>>
  /\ AfterViewer(b)
  /\ UNCHANGED <<botVars, closes, loaded, unclosed, againDue, sent, account, authed, orderly>>

-----------------------------------------------------------------------------
(* The in-game login *)

(* /login: the server authenticates a player it knows.  A bot that has not *)
(* spawned yet may be able to send it or not.                              *)
SendLogin(b) ==
  LET inGame == b \in spawned IN
  IF session[b] = "open"
  THEN /\ sent' = IF inGame THEN sent \cup {b} ELSE sent
       /\ \/ inGame /\ ~account /\ UNCHANGED authed
          \/ account /\ authed' = authed \cup {b}
          \/ ~inGame /\ UNCHANGED authed
  ELSE UNCHANGED <<sent, authed>>

LoginTimer(b) ==
  /\ Calm /\ b \in loginDue
  /\ loginDue' = loginDue \ {b}
  /\ SendLogin(b)
  /\ UNCHANGED <<botVars, listenerVars, viewerVars, ready, keepAlive, againDue, account,
                 orderly>>

(* /register, and the timer of the /login after it; before the spawn it may*)
(* not reach the server, or chat() throws and there is no timer.           *)
SendRegister(b) ==
  /\ \/ /\ account' = TRUE
        /\ againDue' = againDue \cup {b}
     \/ /\ b \notin spawned
        /\ againDue' \in {againDue, againDue \cup {b}}
        /\ UNCHANGED account
  /\ UNCHANGED <<sent, authed>>

(* Variant: /register is not followed by /login. *)
PromptRegistersOnly(b) ==
  /\ Calm /\ session[b] = "open" /\ b \in password
  /\ account' = TRUE
  /\ UNCHANGED <<againDue, sent, authed>>
  /\ UNCHANGED <<botVars, listenerVars, viewerVars, ready, keepAlive, loginDue, orderly>>

(* A line of the chat, of the server or of any player, before the spawn or *)
(* after it, reads like a request to register or to log in:                *)
(* handleAuthPrompt() answers it.                                          *)
Prompt(b) ==
  /\ Calm /\ session[b] = "open" /\ b \in password
  /\ \/ SendLogin(b) /\ UNCHANGED <<account, againDue>>
     \/ SendRegister(b)
  /\ UNCHANGED <<botVars, listenerVars, viewerVars, ready, keepAlive, loginDue, orderly>>

AgainTimer(b) ==
  /\ Calm /\ b \in againDue
  /\ againDue' = againDue \ {b}
  /\ SendLogin(b)
  /\ UNCHANGED <<botVars, listenerVars, viewerVars, ready, keepAlive, loginDue, account,
                 orderly>>

Next ==
  \/ Connect \/ Destroy \/ Imported
  \/ \E b \in Bots : \/ \E pw, view \in BOOLEAN : CreateBot(b, pw, view)
                     \/ Destroyed(b) \/ OrphanEnds(b)
                     \/ Spawn(b) \/ ViewerStopped(b) \/ ViewerStarts(b)
                     \/ LoginTimer(b) \/ Prompt(b) \/ AgainTimer(b)

Spec == Init /\ [][Next]_vars

(* The worker's timers fire and its import returns.  Nothing makes the     *)
(* server, the browsers or close() answer, or a bot end.                   *)
FairSpec ==
  /\ Spec
  /\ WF_vars(Imported)
  /\ \A b \in Bots : /\ WF_vars(ViewerStarts(b))
                     /\ SF_vars(LoginTimer(b)) /\ SF_vars(AgainTimer(b))

-----------------------------------------------------------------------------
(* Safety.  `orderly' is what the waits are meant to give; a connect()     *)
(* during destroyBot(), two overlapping attempts and a viewer that is slow *)
(* to close break it, and then neither of them holds.                      *)

(* The page shows the viewer as ready exactly when the viewer the worker   *)
(* refers to shows the current bot: a lost bot's viewer, which keeps       *)
(* running, is never offered for the next bot (patchViewer in connect,     *)
(* startViewer and destroyBot).                                            *)
ReadyShowsCurrent ==
  orderly /\ bot # None => (ready <=> active # None /\ views[active] = bot)

(* No viewer server is left behind unless its close() failed or does not   *)
(* exist: each other one is still the one that stop() would close, after   *)
(* viewers that did not start and bots that never had one (start, stop).   *)
OneViewer == orderly => servers \subseteq {active} \cup unclosed

-----------------------------------------------------------------------------
(* Liveness, for a bot whose listener does not wait for close() for ever   *)

(* A spawned bot whose listener waits for a viewer gets its keep-alive loop*)
(* or is lost, whether the viewer starts, fails or is started for nobody   *)
(* and whatever older listeners and older bots do in between (startViewer, *)
(* startKeepAliveLoop).                                                    *)
LoopStarts ==
  \A b \in Bots : []<>(waiting[b] # "stop") =>
    (session[b] = "open" /\ waiting[b] # "no" ~> keepAlive = b \/ session[b] # "open")

Player(b) == session[b] = "open" /\ b \in spawned \cap password

(* A bot with a password that spawns sends /login or is lost (the timer of *)
(* runInGameAuth, behind the wait for the viewer).                         *)
LoginSent ==
  \A b \in Bots : []<>(waiting[b] # "stop") =>
    (Player(b) ~> b \in sent \/ session[b] # "open")

(* A bot whose account the server knows, if only since the bot answered a  *)
(* line with /register, is authenticated or lost without another prompt.   *)
KnownPlayerLogsIn ==
  \A b \in Bots : []<>(waiting[b] # "stop") =>
    (Player(b) /\ account ~> b \in authed \/ session[b] # "open" \/ ~orderly)
=============================================================================
