----------------------------- MODULE Dashboard -----------------------------
(***************************************************************************)
(* One dashboard page (Dashboard.tsx) and the worker it controls: what the *)
(* user presses, what the page sends over its WebSocket, what the worker   *)
(* does with it (ControlSession, message by message in the order sent) and *)
(* what the snapshots tell the page about its own control.                 *)
(*                                                                         *)
(* The page and the worker are two processes: messages and snapshots take  *)
(* time, and a connection may be gone before either side knows.            *)
(***************************************************************************)
EXTENDS ControlSession, Sequences

CONSTANTS Self,      \* the page's controllerId
          NoConn,    \* wsRef.current is null
          Codes,     \* keyboard codes of the page's map
          Buttons,   \* buttons of ControlPad and MobileOverlay
          KeyOf,     \* the movement key of each code and button
          MaxQueue   \* bound: messages on their way to the worker

ASSUME DashboardAssumption == /\ Self \in Browsers
                              /\ NoConn \notin Conns
                              /\ Codes \cap Buttons = {}
                              /\ KeyOf \in [Codes \cup Buttons -> Keys]
                              /\ MaxQueue \in Nat \ {0}

VARIABLES
  ws,            \* wsRef.current
  inbox,         \* messages under way to the worker, per connection
  snapshot,      \* the controllerId in a snapshot under way, or "none"
  isController,  \* the page believes that it has control
  focused,       \* the window has the focus and is visible
  held,          \* codes and buttons the user's fingers are on
  tracked,       \* movementKeysRef: the codes the page has sent as pressed
  buttons,       \* the buttons whose release the page has not seen yet
  disturbed      \* history: the page lost its connection or was not shown
                 \* as the controller after it had been

linkVars == <<ws, inbox, snapshot>>
userVars == <<isController, focused, held, tracked, buttons>>
dashVars == <<vars, linkVars, userVars, disturbed>>

Messages == [type : {"press", "release"}, key : Keys]
              \cup [type : {"hello", "bad-hello", "heartbeat", "clear", "stop", "disconnect"}]

DashTypeOK ==
  /\ TypeOK
  /\ ws \in Conns \cup {NoConn}
  /\ \A c \in Conns : inbox[c] \in Seq(Messages) /\ Len(inbox[c]) <= MaxQueue
  /\ snapshot \in Browsers \cup {NoOne, "none"}
  /\ isController \in BOOLEAN
  /\ focused \in BOOLEAN
  /\ held \subseteq Codes \cup Buttons
  /\ tracked \subseteq Codes
  /\ buttons \subseteq Buttons
  /\ disturbed \in BOOLEAN

DashInit ==
  /\ Init
  /\ ws = NoConn
  /\ inbox = [c \in Conns |-> <<>>]
  /\ snapshot = "none"
  /\ isController = FALSE
  /\ focused = TRUE
  /\ held = {}
  /\ tracked = {}
  /\ buttons = {}
  /\ disturbed = FALSE

-----------------------------------------------------------------------------
(* The link between the page and the worker *)

(* sendCommand(): silently dropped unless the socket is open. *)
Send(m) ==
  IF ws \in open
  THEN /\ Len(inbox[ws]) < MaxQueue
       /\ inbox' = [inbox EXCEPT ![ws] = Append(@, m)]
  ELSE UNCHANGED inbox

(* A message by itself: nothing else of the page changes. *)
SendOnly(m) == Send(m) /\ UNCHANGED <<vars, ws, snapshot, userVars, disturbed>>

(* openWebSocket() succeeds: the hello is the first message.               *)
PageOpen(c) ==
  /\ ws = NoConn
  /\ inbox[c] = <<>>
  /\ Open(c)
  /\ ws' = c
  /\ inbox' = [inbox EXCEPT ![c] = <<[type |-> "hello"]>>]
  /\ UNCHANGED <<snapshot, userVars, disturbed>>

(* onclose: the page drops its socket; messages already under way may still*)
(* arrive.  The last snapshot stays on display.                            *)
PageClose ==
  /\ ws # NoConn
  /\ ws' = NoConn
  /\ snapshot' = "none"
  /\ disturbed' = TRUE
  /\ UNCHANGED <<vars, inbox, userVars>>

(* The page has been shown as the controller and no longer is. *)
Watch == disturbed' = (disturbed \/ (controllerId = Self /\ controllerId' # Self)
                                 \/ controllerId' \notin {Self, NoOne})

(* The worker sees a connection close; what it has not read is lost.       *)
WorkerClose(c) ==
  /\ SocketClose(c)
  /\ inbox' = [inbox EXCEPT ![c] = <<>>]
  /\ Watch
  /\ UNCHANGED <<ws, snapshot, userVars>>

(* broadcastSnapshot() and the page's onmessage. *)
Broadcast ==
  /\ ws \in open
  /\ snapshot = "none"
  /\ snapshot' = controllerId
  /\ UNCHANGED <<vars, ws, inbox, userVars, disturbed>>

(* Variant: the id is stored instead of the comparison with the page's own.*)
IsControllerFromRaw(id) == id

IsControllerFrom(id) == id = Self

ShowSnapshot ==
  /\ snapshot # "none"
  /\ snapshot' = "none"
  /\ isController' = IsControllerFrom(snapshot)
  /\ UNCHANGED <<vars, ws, inbox, focused, held, tracked, buttons, disturbed>>

-----------------------------------------------------------------------------
(* The user and the page *)

(* applyMovement() *)
ApplyMovement(type, k) ==
  IF isController THEN Send([type |-> type, key |-> k]) ELSE UNCHANGED inbox

(* onKeyDown: ignored by a page that is not in control, and while the user *)
(* types into a text field.                                                *)
KeyDown(k) ==
  /\ focused
  /\ k \in Codes \ held
  /\ held' = held \cup {k}
  /\ \/ /\ isController /\ k \notin tracked
        /\ tracked' = tracked \cup {k}
        /\ ApplyMovement("press", KeyOf[k])
     \/ UNCHANGED <<tracked, inbox>>
  /\ UNCHANGED <<vars, ws, snapshot, isController, focused, buttons, disturbed>>

(* onKeyUp: the release is sent only by a page that is in control. *)
KeyUp(k) ==
  /\ focused
  /\ k \in Codes \cap held
  /\ held' = held \ {k}
  /\ tracked' = tracked \ {k}
  /\ ApplyMovement("release", KeyOf[k])
  /\ UNCHANGED <<vars, ws, snapshot, isController, focused, buttons, disturbed>>

ButtonDown(k) ==
  /\ focused
  /\ k \in Buttons \ held
  /\ held' = held \cup {k}
  /\ buttons' = buttons \cup {k}
  /\ ApplyMovement("press", KeyOf[k])
  /\ UNCHANGED <<vars, ws, snapshot, isController, focused, tracked, disturbed>>

ButtonUp(k) ==
  /\ focused
  /\ k \in Buttons \cap held
  /\ held' = held \ {k}
  /\ buttons' = buttons \ {k}
  /\ ApplyMovement("release", KeyOf[k])
  /\ UNCHANGED <<vars, ws, snapshot, isController, focused, tracked, disturbed>>

(* The user lets go while another window has the focus: no event arrives.  *)
ReleaseUnseen(k) ==
  /\ ~focused
  /\ k \in held
  /\ held' = held \ {k}
  /\ UNCHANGED <<vars, linkVars, isController, focused, tracked, buttons, disturbed>>

(* Variant: the set is emptied before it is looked at. *)
LoseFocusClearsFirst ==
  /\ focused
  /\ focused' = FALSE
  /\ tracked' = {}
  /\ UNCHANGED <<vars, linkVars, isController, held, buttons, disturbed>>

(* blur and visibilitychange: only the tracked codes count. *)
LoseFocus ==
  /\ focused
  /\ focused' = FALSE
  /\ tracked' = {}
  /\ IF tracked # {} THEN Send([type |-> "clear"]) ELSE UNCHANGED inbox
  /\ UNCHANGED <<vars, ws, snapshot, isController, held, buttons, disturbed>>

RegainFocus ==
  /\ ~focused
  /\ focused' = TRUE
  /\ UNCHANGED <<vars, linkVars, isController, held, tracked, buttons, disturbed>>

(* The page's other messages: the heartbeat interval, EMERGENCY STOP,      *)
(* Disconnect, and Request control with its placeholder for a token.       *)
PageHeartbeat == ws # NoConn /\ SendOnly([type |-> "heartbeat"])
StopButton == SendOnly([type |-> "stop"])
DisconnectButton == SendOnly([type |-> "disconnect"])
RequestControl == ~isController /\ SendOnly([type |-> "bad-hello"])

-----------------------------------------------------------------------------
(* The worker reads a message: handleMessage() *)

Read(c, types) ==
  /\ c \in open
  /\ inbox[c] # <<>>
  /\ Head(inbox[c]).type \in types
  /\ inbox' = [inbox EXCEPT ![c] = Tail(@)]
  /\ UNCHANGED <<ws, snapshot, userVars>>

ReadHello(c) == Read(c, {"hello"}) /\ Hello(c, Self) /\ Watch

ReadHeartbeat(c) == Read(c, {"heartbeat"}) /\ Heartbeat(c) /\ Watch

ReadMovement(c) ==
  /\ Read(c, {"press", "release", "clear"})
  /\ LET m == Head(inbox[c])
     IN  \/ m.type = "press" /\ Movement(c, {m.key}, {})
         \/ m.type = "release" /\ Movement(c, {}, {m.key})
         \/ m.type = "clear" /\ Movement(c, {}, Keys)
  /\ Watch

ReadStop(c) == Read(c, {"stop"}) /\ EmergencyStop(c) /\ Watch

ReadDisconnect(c) == Read(c, {"disconnect"}) /\ Disconnect(c) /\ Watch

(* A token that does not verify, a connection without the lock, a movement *)
(* without a bot: nothing happens.                                         *)
ReadRefused(c) ==
  /\ \/ Read(c, {"bad-hello"})
     \/ Read(c, {"heartbeat", "press", "release", "clear", "stop", "disconnect"}) /\ ~IsOwner(c)
     \/ Read(c, {"press", "release", "clear"}) /\ bot = "none"
  /\ UNCHANGED <<vars, disturbed>>

(* What the worker does by itself. *)
WorkerStep ==
  /\ \/ FinishDisconnect
     \/ BotCreated \/ BotReady \/ BotLost \/ BotRespawned
     \/ NudgeStart \/ NudgeEnd
     \/ CheckHeartbeat \/ Tick
  /\ Watch
  /\ UNCHANGED <<linkVars, userVars>>

DashNext ==
  \/ \E c \in Conns : \/ PageOpen(c) \/ WorkerClose(c)
                      \/ ReadHello(c) \/ ReadHeartbeat(c) \/ ReadMovement(c)
                      \/ ReadStop(c) \/ ReadDisconnect(c) \/ ReadRefused(c)
  \/ PageClose \/ Broadcast \/ ShowSnapshot
  \/ \E k \in Codes : KeyDown(k) \/ KeyUp(k)
  \/ \E k \in Buttons : ButtonDown(k) \/ ButtonUp(k)
  \/ \E k \in Codes \cup Buttons : ReleaseUnseen(k)
  \/ LoseFocus \/ RegainFocus
  \/ PageHeartbeat \/ StopButton \/ DisconnectButton \/ RequestControl
  \/ WorkerStep

DashSpec == DashInit /\ [][DashNext]_dashVars

-----------------------------------------------------------------------------
(* Safety *)

(* A message after which the bot does not hold the key k. *)
Drops(m, k) == m.type \in {"clear", "stop"} \/ (m.type = "release" /\ m.key = k)

Kept(queue, p, k) == \A i \in p .. Len(queue) : ~Drops(queue[i], k)

(* The keys that are down once a queue of messages has been read: the ones *)
(* that were, or that a message presses, and that no later message drops.  *)
KeysAfter(queue, keys) ==
  {k \in Keys : \/ k \in keys /\ Kept(queue, 1, k)
                \/ \E p \in 1 .. Len(queue) :
                     queue[p].type = "press" /\ queue[p].key = k /\ Kept(queue, p + 1, k)}

(* The key that the bot holds on its own account. *)
Nudged == IF nudging THEN {Jump} ELSE {}

(* The keys the bot holds once the messages under way have been read, a    *)
(* nudge aside.                                                            *)
KeysToBe ==
  KeysAfter(IF ws = NoConn THEN <<>> ELSE inbox[ws], controlState) \ Nudged

(* As long as the page keeps its connection and its control, the bot holds *)
(* no key that the page does not still know as pressed: every release,     *)
(* focus loss and stop that the page saw reaches the bot, in order.        *)
KeysFollowPage ==
  ~disturbed => KeysToBe \subseteq {KeyOf[k] : k \in tracked \cup buttons}
=============================================================================
