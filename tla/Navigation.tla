----------------------------- MODULE Navigation -----------------------------
(***************************************************************************)
(* The navigation of the bot worker (PathfinderController.ts), with the    *)
(* browser messages and the life-cycle events that start and cancel a goal.*)
(*                                                                         *)
(* goto() and followPlayer() wait for the import of mineflayer-pathfinder  *)
(* before they create a goal.  The first import loads the module, and any  *)
(* handler may run meanwhile; a later one resumes before the next handler. *)
(* A goal is known by its command: the same name stands for the handle the *)
(* pathfinder returns and for the interval of a follow.  Of the pathfinder *)
(* the code tells this much: its calls, the `once' and the stop() of its   *)
(* handles may throw.                                                      *)
(***************************************************************************)
EXTENDS Naturals, Sequences

CONSTANTS Goals,  \* goto and follow commands
          None    \* null

ASSUME NavigationAssumption == None \notin Goals

VARIABLES
  bot,            \* MinecraftBotManager.bot is not null
  loaded,         \* mineflayer-pathfinder has been imported
  importing,      \* the goals that wait for the import, oldest first
  stale,          \* of these, the ones whose bot has ended since
  replaced,       \* the goals of bots that another attempt's has replaced
  kind,           \* "goto" or "follow"
  motion,         \* "none", "walking", "stopping" (stop() was called) or
                  \* "dead" (on a bot that has ended)
  hearing,        \* goals whose path_update listener has not fired
  deaf,           \* goals whose handle took no listeners
  current,        \* PathfinderController.current
  followInterval, \* PathfinderController.followInterval
  intervals,      \* the follow intervals that run
  status, mode,   \* store: navigation
  resetting,      \* a disconnect() waits for its bot to end
  sequential,     \* history: no goal was asked for while another one waited
                  \* for the import or still moved
  forgotten       \* history: goals the controller let go while they walked, on
                  \* a 'success' path_update or by a stop() that threw

handleVars == <<current, followInterval, intervals>>
shownVars == <<status, mode>>
importVars == <<loaded, importing, stale, replaced, kind>>
listenVars == <<hearing, deaf>>
vars == <<bot, importVars, motion, listenVars, handleVars, shownVars, resetting,
          sequential, forgotten>>

Moving == {"walking", "stopping"}

TypeOK ==
  /\ bot \in BOOLEAN /\ loaded \in BOOLEAN
  /\ importing \in Seq(Goals)
  /\ stale \subseteq Goals /\ replaced \subseteq Goals
  /\ kind \in [Goals -> {"goto", "follow"}]
  /\ motion \in [Goals -> {"none", "walking", "stopping", "dead"}]
  /\ hearing \subseteq Goals /\ deaf \subseteq Goals
  /\ current \in Goals \cup {None}
  /\ followInterval \in Goals \cup {None}
  /\ intervals \subseteq Goals
  /\ status \in {"IDLE", "CALCULATING", "ARRIVED", "UNREACHABLE", "CANCELLED"}
  /\ mode \in {"idle", "goto", "follow"}
  /\ resetting \in BOOLEAN /\ sequential \in BOOLEAN
  /\ forgotten \subseteq Goals

Init ==
  /\ bot = FALSE /\ loaded = FALSE
  /\ importing = <<>> /\ stale = {} /\ replaced = {}
  /\ kind = [n \in Goals |-> "goto"]
  /\ motion = [n \in Goals |-> "none"]
  /\ hearing = {} /\ deaf = {}
  /\ current = None /\ followInterval = None /\ intervals = {}
  /\ status = "IDLE" /\ mode = "idle"
  /\ resetting = FALSE /\ sequential = TRUE /\ forgotten = {}

Waiting == {importing[i] : i \in 1 .. Len(importing)}

(* A resumed import runs before the next handler. *)
Calm == loaded => importing = <<>>

(* A command not in use: its name may stand for the next one. *)
Unused(n) ==
  /\ motion[n] \notin Moving
  /\ n \notin Waiting
  /\ n \notin intervals \cup {current, followInterval}

-----------------------------------------------------------------------------
(* PathfinderController *)

(* Variant: the interval keeps running. *)
ClearFollowKeepsTimer == followInterval' = None /\ UNCHANGED intervals

ClearFollow ==
  /\ followInterval' = None
  /\ intervals' = intervals \ {followInterval}

(* Variant: cancel() forgets stop(). *)
StopMotionForgotten == UNCHANGED <<motion, forgotten>>

(* stop() of the current handle: its 'stopped' comes before stop() returns *)
(* or later, or stop() throws, which is logged, and the goal walks on.     *)
Halted ==
  {[n \in Goals |-> IF n = current /\ motion[n] = "walking" THEN m ELSE motion[n]] :
     m \in {"none", "stopping", "walking"}}

Forget == forgotten' = forgotten \cup {n \in Goals : n = current /\ motion'[n] = "walking"}

StopMotion == motion' \in Halted /\ Forget

StopCurrent == ClearFollow /\ StopMotion /\ current' = None

(* Variant: cancel() shows the cancellation and does no more. *)
CancelShowsOnly ==
  /\ ClearFollow
  /\ status' = "CANCELLED" /\ mode' = "idle"
  /\ UNCHANGED <<motion, current, forgotten>>

(* cancel(): without a current handle the status stays as it is. *)
Cancel ==
  /\ StopCurrent
  /\ IF current = None THEN UNCHANGED shownVars
                       ELSE status' = "CANCELLED" /\ mode' = "idle"

(* goto() and followPlayer() up to the import. *)
Ask(n, k) ==
  /\ bot /\ Calm /\ Unused(n)
  /\ StopCurrent
  /\ status' = "CALCULATING" /\ mode' = k
  /\ kind' = [kind EXCEPT ![n] = k]
  /\ importing' = Append(importing, n)
  /\ stale' = stale \ {n} /\ replaced' = replaced \ {n}
  /\ hearing' = hearing \ {n}
  /\ sequential' = (sequential /\ importing = <<>> /\ \A m \in Goals : motion'[m] \notin Moving)
  /\ UNCHANGED <<bot, loaded, deaf, resetting>>

(* goto and come-to-player messages. *)
Goto(n) == Ask(n, "goto")

(* follow-player messages. *)
FollowPlayer(n) == Ask(n, "follow")

Imported ==
  /\ importing # <<>> /\ ~loaded
  /\ loaded' = TRUE
  /\ UNCHANGED <<bot, importing, stale, replaced, kind, motion, listenVars, handleVars,
                 shownVars, resetting, sequential, forgotten>>

(* The pathfinder returns a handle, which walks unless its bot has ended. *)
Started(n) ==
  /\ current' = n
  /\ motion' = [motion EXCEPT ![n] = IF n \in stale THEN "dead" ELSE "walking"]
  /\ forgotten' = forgotten \ {n}
  /\ IF kind[n] = "goto"
     THEN UNCHANGED <<followInterval, intervals>>
     ELSE followInterval' = n /\ intervals' = intervals \cup {n}

GoalCreated(n) ==
  /\ Started(n)
  /\ deaf' = deaf \ {n}
  /\ hearing' = IF kind[n] = "goto" THEN hearing \cup {n} ELSE hearing
  /\ UNCHANGED shownVars

(* The handle is kept, but `once' throws: a goto shows UNREACHABLE and walks*)
(* unheard; a follow keeps its interval, and its promise is rejected.      *)
GoalUnheard(n) ==
  /\ Started(n)
  /\ deaf' = deaf \cup {n}
  /\ status' = IF kind[n] = "goto" THEN "UNREACHABLE" ELSE status
  /\ UNCHANGED <<mode, hearing>>

(* The call to the pathfinder throws. *)
GoalRefused ==
  /\ status' = "UNREACHABLE"
  /\ UNCHANGED <<mode, motion, listenVars, handleVars, forgotten>>

(* The constructor of a follow goal throws outside the try block: the      *)
(* promise of followPlayer() is rejected, and nothing else happens.        *)
FollowRejected(n) ==
  /\ kind[n] = "follow"
  /\ UNCHANGED <<shownVars, motion, listenVars, handleVars, forgotten>>

(* Variant: the failure of a goto is not caught. *)
ResumeUncaught ==
  /\ loaded /\ importing # <<>>
  /\ importing' = Tail(importing)
  /\ \/ GoalCreated(Head(importing))
     \/ UNCHANGED <<shownVars, motion, listenVars, handleVars, forgotten>>
  /\ UNCHANGED <<bot, loaded, stale, replaced, kind, resetting, sequential>>

(* The rest of goto() and followPlayer() after the import. *)
Resume ==
  /\ loaded /\ importing # <<>>
  /\ importing' = Tail(importing)
  /\ \/ GoalCreated(Head(importing)) \/ GoalUnheard(Head(importing))
     \/ GoalRefused \/ FollowRejected(Head(importing))
  /\ UNCHANGED <<bot, loaded, stale, replaced, kind, resetting, sequential>>

-----------------------------------------------------------------------------
(* The events of a handle *)

(* 'arrived', which only a goto listens to. *)
Arrived(n) ==
  /\ Calm /\ motion[n] \in Moving /\ n \notin deaf /\ kind[n] = "goto"
  /\ motion' = [motion EXCEPT ![n] = "none"]
  /\ status' = "ARRIVED" /\ mode' = "idle" /\ current' = None
  /\ UNCHANGED <<bot, importVars, listenVars, followInterval, intervals, resetting,
                 sequential, forgotten>>

(* The first path_update of a goto: 'noPath' leaves the handle in place,   *)
(* 'success' (a path was found) is shown as the arrival and lets the handle*)
(* go while the bot walks on, any other result is ignored.                 *)
PathUpdate(n) ==
  /\ Calm /\ motion[n] \in Moving /\ n \in hearing
  /\ hearing' = hearing \ {n}
  /\ \/ /\ status' = "UNREACHABLE"
        /\ UNCHANGED <<mode, current, forgotten>>
     \/ /\ status' = "ARRIVED" /\ mode' = "idle" /\ current' = None
        /\ forgotten' = forgotten \cup {n}
     \/ UNCHANGED <<shownVars, current, forgotten>>
  /\ UNCHANGED <<bot, importVars, motion, deaf, followInterval, intervals, resetting,
                 sequential>>

StoppedFollow == ClearFollow /\ status' = "CANCELLED" /\ current' = None

(* Variant: the panel shows the name of the event. *)
StoppedGotoRaw ==
  /\ IF status \in {"CANCELLED", "ARRIVED"}
     THEN UNCHANGED <<status, current>>
     ELSE status' = "STOPPED" /\ current' = None
  /\ UNCHANGED <<followInterval, intervals>>

StoppedGoto ==
  /\ IF status \in {"CANCELLED", "ARRIVED"}
     THEN UNCHANGED <<status, current>>
     ELSE status' = "CANCELLED" /\ current' = None
  /\ UNCHANGED <<followInterval, intervals>>

(* 'stopped', after stop() or of itself: the listener clears `current'     *)
(* whatever handle it refers to.                                           *)
Stopped(n) ==
  /\ Calm /\ motion[n] \in Moving /\ n \notin deaf
  /\ motion' = [motion EXCEPT ![n] = "none"]
  /\ IF kind[n] = "follow" THEN StoppedFollow ELSE StoppedGoto
  /\ UNCHANGED <<bot, importVars, listenVars, mode, resetting, sequential, forgotten>>

(* A goal without listeners arrives or stops: nobody is told.              *)
EndsUnheard(n) ==
  /\ Calm /\ motion[n] \in Moving /\ n \in deaf
  /\ motion' = [motion EXCEPT ![n] = "none"]
  /\ UNCHANGED <<bot, importVars, listenVars, handleVars, shownVars, resetting, sequential,
                 forgotten>>

-----------------------------------------------------------------------------
(* Cancellations *)

(* stop-follow and cancel-navigation, from any authenticated browser. *)
CancelNavigation ==
  /\ Calm /\ Cancel
  /\ UNCHANGED <<bot, importVars, listenVars, resetting, sequential>>

EmergencyStop ==
  /\ Calm /\ Cancel
  /\ UNCHANGED <<bot, importVars, listenVars, resetting, sequential>>

(* The 'respawn' listener of a bot, the current one or another. *)
Respawned ==
  /\ Calm /\ Cancel
  /\ UNCHANGED <<bot, importVars, listenVars, resetting, sequential>>

-----------------------------------------------------------------------------
(* The bot *)

(* createBot(), with or without a bot: goals stay with the bot they were   *)
(* asked of.                                                               *)
BotCreated ==
  /\ Calm
  /\ bot' = TRUE
  /\ replaced' = {n \in Goals : motion[n] \in Moving} \cup Waiting
  /\ UNCHANGED <<loaded, importing, stale, kind, motion, listenVars, handleVars, shownVars,
                 resetting, sequential, forgotten>>

(* Goals whose bot ends walk no more, nor will those in import.            *)
Dead(f, dying) == [n \in Goals |-> IF n \in dying /\ f[n] \in Moving THEN "dead" ELSE f[n]]

(* Kicked, failed or ended: whichever bot it was, handleDisconnect()       *)
(* destroys the current one, and leaves the controller as it is.           *)
BotLost ==
  \E ended \in SUBSET replaced :
    LET dying == (Goals \ replaced) \cup ended
    IN  /\ Calm /\ (bot \/ ended # {})
        /\ bot' = FALSE
        /\ motion' = Dead(motion, dying)
        /\ stale' = stale \cup (Waiting \cap dying)
        /\ UNCHANGED <<loaded, importing, replaced, kind, listenVars, handleVars, shownVars,
                       resetting, sequential, forgotten>>

(* disconnect() up to the end of destroyBot(): cancel(), and the current   *)
(* bot ends.                                                               *)
Disconnect ==
  /\ Calm /\ ~resetting
  /\ resetting' = TRUE
  /\ bot' = FALSE
  /\ ClearFollow /\ current' = None
  /\ IF current = None THEN UNCHANGED shownVars
                       ELSE status' = "CANCELLED" /\ mode' = "idle"
  /\ \E f \in Halted : motion' = Dead(f, Goals \ replaced)
  /\ Forget
  /\ stale' = stale \cup (Waiting \ replaced)
  /\ UNCHANGED <<loaded, importing, replaced, kind, listenVars, sequential>>

(* resetRuntime() gives the store its default navigation. *)
ResetRuntime ==
  /\ Calm /\ resetting
  /\ resetting' = FALSE
  /\ status' = "IDLE" /\ mode' = "idle"
  /\ UNCHANGED <<bot, importVars, motion, listenVars, handleVars, sequential, forgotten>>

Next ==
  \/ \E n \in Goals : \/ Goto(n) \/ FollowPlayer(n)
                      \/ Arrived(n) \/ PathUpdate(n) \/ Stopped(n)
                      \/ EndsUnheard(n)
  \/ Imported \/ Resume
  \/ CancelNavigation \/ EmergencyStop \/ Respawned
  \/ BotCreated \/ BotLost \/ Disconnect \/ ResetRuntime

Spec == Init /\ [][Next]_vars

-----------------------------------------------------------------------------
(* Safety.  `sequential' says that no goal was asked for while another one *)
(* waited for the first import or still moved.                             *)

(* A goal that walks is the one cancel() would stop, whatever kicks,       *)
(* respawns, resets and late events came before.  The controller loses     *)
(* sight of a walking goal in two ways and no other: a 'success'           *)
(* path_update taken for the arrival, and a stop() that threw (goto,       *)
(* followPlayer, cancel and their listeners).                              *)
OneGoal ==
  sequential => \A n \in Goals : motion[n] = "walking" => n = current \/ n \in forgotten

(* The follow interval that runs is the one cancel() would clear.          *)
IntervalTracked == sequential => intervals \subseteq {followInterval}

(* When the navigation panel shows a finished goal, none walks but those   *)
(* lost sight of in these two ways (the status each listener and cancel()  *)
(* leave behind).  IDLE is no such promise: the reset of an older          *)
(* disconnect() may show it over a goal of the next bot.                   *)
StatusTruthful ==
  sequential /\ status \in {"ARRIVED", "CANCELLED"}
    => \A n \in Goals : motion[n] = "walking" => n \in forgotten

(* A goto on CALCULATING is one whose end somebody will report, even when  *)
(* goals overlap: it waits for the import, or it moves with its listeners  *)
(* attached.  A failure is caught and shown (goto).  The exception is a bot*)
(* that ended on the way: its goal is dead, nobody reports it, and the     *)
(* panel stays on CALCULATING until the next command or disconnect().      *)
GotoReported ==
  mode = "goto" /\ status = "CALCULATING" /\ importing = <<>>
    => /\ current # None
       /\ motion[current] \in Moving => current \notin deaf
       /\ motion[current] # "none"
=============================================================================
