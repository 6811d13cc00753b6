--------------------------- MODULE ControlSession ---------------------------
(***************************************************************************)
(* The control lock of the bot worker (ControlSessionManager.ts), with the *)
(* parts of RealtimeGateway.ts, MinecraftBotManager.ts and BotStateStore.ts*)
(* that acquire it, renew it, release it or act under it.                  *)
(*                                                                         *)
(* The worker is one Node.js thread: every handler runs to its first await *)
(* without interruption, so a handler is one action; a handler that waits  *)
(* (disconnect) is two.  Time is counted in ticks; `silence' is the number *)
(* of ticks since the holder last acquired the lock or sent a heartbeat.   *)
(***************************************************************************)
EXTENDS Integers, FiniteSets

CONSTANTS Browsers,          \* controllerIds, one per dashboard page
          Conns,             \* WebSocket connections
          Keys,              \* movement keys
          Jump,              \* the key the keep-alive nudges press
          NoOne,             \* null
          HeartbeatTimeout,  \* HEARTBEAT_TIMEOUT_MS in ticks
          CheckPeriod,       \* the period of checkHeartbeat in ticks
          MaxSilence,        \* bound: the clock stops here
          MaxResets          \* bound: disconnects waiting for their bot to end

ASSUME ControlAssumption == /\ HeartbeatTimeout \in Nat
                            /\ CheckPeriod \in Nat \ {0}
                            /\ MaxSilence \in Nat
                            /\ MaxSilence > HeartbeatTimeout + CheckPeriod
                            /\ MaxResets \in Nat
                            /\ Jump \in Keys
                            /\ NoOne \notin Browsers

VARIABLES
  open,          \* the WebSocket connections the gateway serves
  socketId,      \* controllerId of each connection, NoOne before its hello
  current,       \* ControlSessionManager.current
  controllerId,  \* store: the controller every dashboard is shown
  heartbeatSeen, \* store: lastHeartbeat is not null
  silence,       \* ticks since the holder's last acquire or heartbeat
  sinceCheck,    \* ticks since checkHeartbeat last ran
  movement,      \* store: the keys every dashboard is shown as pressed
  bot,           \* "none", "loading" (no plugins injected yet), "live"
  controlState,  \* the keys the Minecraft bot really holds down
  nudging,       \* a keep-alive nudge has pressed Jump and will release it
  resets         \* disconnect() calls that wait for their bot to end

sessionVars == <<open, socketId>>
lockVars == <<current, controllerId, heartbeatSeen, silence>>
botVars == <<bot, controlState, nudging, resets>>
vars == <<open, socketId, current, controllerId, heartbeatSeen, silence,
          sinceCheck, movement, bot, controlState, nudging, resets>>

TypeOK ==
  /\ open \subseteq Conns
  /\ socketId \in [Conns -> Browsers \cup {NoOne}]
  /\ current \in Browsers \cup {NoOne}
  /\ controllerId \in Browsers \cup {NoOne}
  /\ heartbeatSeen \in BOOLEAN
  /\ silence \in 0 .. MaxSilence
  /\ sinceCheck \in 0 .. CheckPeriod
  /\ movement \in SUBSET Keys
  /\ bot \in {"none", "loading", "live"}
  /\ controlState \in SUBSET Keys
  /\ nudging \in BOOLEAN
  /\ resets \in 0 .. MaxResets

Init ==
  /\ open = {}
  /\ socketId = [c \in Conns |-> NoOne]
  /\ current = NoOne
  /\ controllerId = NoOne
  /\ heartbeatSeen = FALSE
  /\ silence = 0
  /\ sinceCheck = 0
  /\ movement = {}
  /\ bot = "none"
  /\ controlState = {}
  /\ nudging = FALSE
  /\ resets = 0

-----------------------------------------------------------------------------
(* ControlSessionManager *)

IsOwner(c) == c \in open /\ socketId[c] # NoOne /\ socketId[c] = current

(* Variant: a takeover is granted instead of refused. *)
AcquireTakesOver(b) ==
  \/ /\ current = b
     /\ UNCHANGED lockVars
  \/ /\ current # b
     /\ current' = b
     /\ controllerId' = b
     /\ heartbeatSeen' = TRUE
     /\ silence' = 0

(* acquire(): a re-acquire by the holder refreshes neither its heartbeat   *)
(* nor the controllerId the store shows; a takeover is refused.            *)
Acquire(b) ==
  \/ /\ current = b
     /\ UNCHANGED lockVars
  \/ /\ current \notin {b, NoOne}
     /\ UNCHANGED lockVars
  \/ /\ current = NoOne
     /\ current' = b
     /\ controllerId' = b
     /\ heartbeatSeen' = TRUE
     /\ silence' = 0

(* Variant: release() forgets to patch the store. *)
ReleaseKeepsStore(b) ==
  \/ /\ current = b
     /\ current' = NoOne
     /\ heartbeatSeen' = FALSE
     /\ silence' = 0
     /\ movement' = {}
     /\ UNCHANGED controllerId
  \/ /\ current # b
     /\ UNCHANGED <<lockVars, movement>>

(* Variant: release() does not call releaseAllMovement(). *)
ReleaseKeepsMovement(b) ==
  /\ \/ /\ current = b
        /\ current' = NoOne
        /\ controllerId' = NoOne
        /\ heartbeatSeen' = FALSE
        /\ silence' = 0
     \/ /\ current # b
        /\ UNCHANGED lockVars
  /\ UNCHANGED movement

(* release() by the holder b, releaseAllMovement() included: it empties    *)
(* the store's movement; nobody listens to its 'force-clear-movement'      *)
(* event, so the bot's own control state stays as it is.                   *)
ReleaseHeldBy(b) ==
  \/ /\ current = b
     /\ current' = NoOne
     /\ controllerId' = NoOne
     /\ heartbeatSeen' = FALSE
     /\ silence' = 0
     /\ movement' = {}
  \/ /\ current # b
     /\ UNCHANGED <<lockVars, movement>>

(* Variants: an unknown heartbeat counts as a fresh one; one tick early.   *)
TimedOutWhenSeen == heartbeatSeen /\ silence > HeartbeatTimeout
TimedOutEarly == ~heartbeatSeen \/ silence >= HeartbeatTimeout

TimedOut == ~heartbeatSeen \/ silence > HeartbeatTimeout

(* resetRuntime(): the store forgets the controller, the manager does not. *)
ResetControlStore ==
  /\ controllerId' = NoOne
  /\ heartbeatSeen' = FALSE
  /\ movement' = {}
  /\ UNCHANGED <<current, silence>>

-----------------------------------------------------------------------------
(* Browser messages, RealtimeGateway *)

Open(c) ==
  /\ c \notin open
  /\ open' = open \cup {c}
  /\ UNCHANGED <<socketId, lockVars, sinceCheck, movement, botVars>>

(* A hello with a valid token; a page sends the same controllerId on every *)
(* connection it opens.                                                    *)
Hello(c, b) ==
  /\ c \in open
  /\ socketId[c] \in {NoOne, b}
  /\ socketId' = [socketId EXCEPT ![c] = b]
  /\ Acquire(b)
  /\ UNCHANGED <<open, sinceCheck, movement, botVars>>

(* Variant: the close handler does not release the lock. *)
SocketCloseKeepsLock(c) ==
  /\ c \in open
  /\ open' = open \ {c}
  /\ socketId' = [socketId EXCEPT ![c] = NoOne]
  /\ UNCHANGED <<lockVars, sinceCheck, movement, botVars>>

SocketClose(c) ==
  /\ c \in open
  /\ open' = open \ {c}
  /\ socketId' = [socketId EXCEPT ![c] = NoOne]
  /\ IF socketId[c] = NoOne
     THEN UNCHANGED <<lockVars, movement>>
     ELSE ReleaseHeldBy(socketId[c])
  /\ UNCHANGED <<sinceCheck, botVars>>

Heartbeat(c) ==
  /\ IsOwner(c)
  /\ heartbeatSeen' = TRUE
  /\ silence' = 0
  /\ UNCHANGED <<sessionVars, current, controllerId, sinceCheck, movement, botVars>>

(* movement (some keys pressed, some released) and clear-movement (all     *)
(* released): applyControl writes the keys named to the bot and shows what *)
(* it reads back; before the plugins are injected the write throws and the *)
(* read finds no key pressed.                                              *)
Movement(c, pressed, released) ==
  /\ IsOwner(c)
  /\ bot # "none"
  /\ controlState' = IF bot = "live" THEN (controlState \ released) \cup pressed
                                     ELSE controlState
  /\ movement' = controlState'
  /\ UNCHANGED <<sessionVars, lockVars, sinceCheck, bot, nudging, resets>>

EmergencyStop(c) ==
  /\ IsOwner(c)
  /\ controlState' = {}
  /\ movement' = {}
  /\ UNCHANGED <<sessionVars, lockVars, sinceCheck, bot, nudging, resets>>

(* disconnect(): without a bot nothing is awaited and the store is reset   *)
(* at once; otherwise the reset waits for the bot to end.                  *)
Disconnect(c) ==
  /\ IsOwner(c)
  /\ IF bot = "none"
     THEN ResetControlStore /\ UNCHANGED botVars
     ELSE /\ resets < MaxResets
          /\ resets' = resets + 1
          /\ bot' = "none"
          /\ controlState' = {}
          /\ nudging' = FALSE
          /\ movement' = {}
          /\ UNCHANGED lockVars
  /\ UNCHANGED <<sessionVars, sinceCheck>>

(* Variant: the end of a disconnect() runs once too often. *)
FinishDisconnectAgain ==
  /\ resets' = resets - 1
  /\ ResetControlStore
  /\ UNCHANGED <<sessionVars, sinceCheck, bot, controlState, nudging>>

FinishDisconnect ==
  /\ resets > 0
  /\ resets' = resets - 1
  /\ ResetControlStore
  /\ UNCHANGED <<sessionVars, sinceCheck, bot, controlState, nudging>>

-----------------------------------------------------------------------------
(* The bot, as MinecraftBotManager and Mineflayer drive it *)

(* createBot: a new bot holds no key.  Two attempts in flight both create  *)
(* one; from then on this.bot, and what this component says of the bot, is *)
(* the later one, and the keys and nudges of the earlier one are lost from *)
(* sight.                                                                  *)
BotCreated ==
  /\ bot' = "loading"
  /\ controlState' = {}
  /\ nudging' = FALSE
  /\ UNCHANGED <<sessionVars, lockVars, sinceCheck, movement, resets>>

BotReady ==
  /\ bot = "loading"
  /\ bot' = "live"
  /\ UNCHANGED <<sessionVars, lockVars, sinceCheck, movement, controlState, nudging, resets>>

(* The server ends or kicks the bot: this.bot becomes null, the store keeps*)
(* showing the keys that were pressed.                                     *)
BotLost ==
  /\ bot # "none"
  /\ bot' = "none"
  /\ controlState' = {}
  /\ nudging' = FALSE
  /\ UNCHANGED <<sessionVars, lockVars, sinceCheck, movement, resets>>

(* A bot respawned, the current one, one that is being destroyed or one    *)
(* that was replaced: releaseAllMovement() reaches the store only.         *)
BotRespawned ==
  /\ movement' = {}
  /\ UNCHANGED <<sessionVars, lockVars, sinceCheck, botVars>>

(* The post-spawn nudge and the idle watchdog press Jump, a timer lets go. *)
NudgeStart ==
  /\ bot = "live"
  /\ ~nudging
  /\ nudging' = TRUE
  /\ controlState' = controlState \cup {Jump}
  /\ UNCHANGED <<sessionVars, lockVars, sinceCheck, movement, bot, resets>>

NudgeEnd ==
  /\ nudging
  /\ nudging' = FALSE
  /\ controlState' = controlState \ {Jump}
  /\ UNCHANGED <<sessionVars, lockVars, sinceCheck, movement, bot, resets>>

-----------------------------------------------------------------------------
(* Time *)

(* checkHeartbeat() runs every CheckPeriod ticks. *)
CheckHeartbeat ==
  /\ sinceCheck = CheckPeriod
  /\ sinceCheck' = 0
  /\ IF current # NoOne /\ TimedOut
     THEN ReleaseHeldBy(current)
     ELSE UNCHANGED <<lockVars, movement>>
  /\ UNCHANGED <<sessionVars, botVars>>

(* The interval timer is not late by a whole tick. *)
Tick ==
  /\ sinceCheck < CheckPeriod
  /\ silence < MaxSilence
  /\ sinceCheck' = sinceCheck + 1
  /\ silence' = IF current = NoOne THEN 0 ELSE silence + 1
  /\ UNCHANGED <<sessionVars, current, controllerId, heartbeatSeen, movement, botVars>>

Next ==
  \/ \E c \in Conns : \/ Open(c)
                      \/ \E b \in Browsers : Hello(c, b)
                      \/ SocketClose(c)
                      \/ Heartbeat(c)
                      \/ \E pressed, released \in SUBSET Keys : Movement(c, pressed, released)
                      \/ EmergencyStop(c)
                      \/ Disconnect(c)
  \/ FinishDisconnect
  \/ BotCreated \/ BotReady \/ BotLost \/ BotRespawned
  \/ NudgeStart \/ NudgeEnd
  \/ CheckHeartbeat \/ Tick

Spec == Init /\ [][Next]_vars

(* The interval timer keeps running; nothing is assumed of the browsers.   *)
FairSpec == Spec /\ WF_vars(Tick) /\ WF_vars(CheckHeartbeat)

-----------------------------------------------------------------------------
(* Safety *)

(* The controller the store shows to every dashboard, when it shows one, is*)
(* the browser the manager gave the lock to (acquire, release,             *)
(* resetRuntime).                                                          *)
StoreNamesHolder == controllerId # NoOne => controllerId = current

(* The lock never belongs to a browser without an open connection that said*)
(* hello in its name: closing the last one releases it (the close handler).*)
HolderHasSocket ==
  current # NoOne => \E c \in open : socketId[c] = current

(* A holder that sends no heartbeat never keeps the lock longer than the   *)
(* timeout plus one check period (checkHeartbeat).                         *)
DeadmanBound ==
  /\ silence <= HeartbeatTimeout + sinceCheck
  /\ current = NoOne => silence = 0

(* Nobody in control: the dashboards are shown no pressed key (release     *)
(* calls releaseAllMovement, movement messages need the lock).             *)
UnattendedShowsNoMovement == current = NoOne => movement = {}

(* The lock is never handed from one browser to another, and its holder    *)
(* loses it only by a heartbeat timeout, by a reset of the store that      *)
(* forgets its heartbeat, or when a connection in its name closes.         *)
LockLossJustified ==
  [][ current # NoOne /\ current' # current
        => /\ current' = NoOne
           /\ \/ silence > HeartbeatTimeout
              \/ ~heartbeatSeen
              \/ \E c \in open \ open' : socketId[c] = current ]_vars

(* The lock is a dead-man lease: this module implements DeadmanLease.      *)
Lease == INSTANCE DeadmanLease WITH
           owner <- current, age <- silence,
           Grace <- HeartbeatTimeout,
           Deadline <- HeartbeatTimeout + CheckPeriod

ImplementsLease == Lease!LeaseFairSpec

(* Liveness: a holder either keeps sending heartbeats or loses the lock.   *)
SilentHolderExpires == \A b \in Browsers : current = b ~> current # b \/ silence = 0

(* What README.md says of the heartbeat timeout and ControlSessionManager  *)
(* of itself, that all movement is cleared: the check that takes the lock  *)
(* from a silent holder leaves no key down, a nudge in progress aside.     *)
TimeoutClearsKeys ==
  [][ CheckHeartbeat /\ silence > HeartbeatTimeout /\ current' = NoOne
        => controlState' \subseteq (IF nudging THEN {Jump} ELSE {}) ]_vars
=============================================================================
