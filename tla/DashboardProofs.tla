--------------------------- MODULE DashboardProofs ---------------------------
(***************************************************************************)
(* Proofs about the control session by itself (ControlSession) and about   *)
(* the page that is composed with it (Dashboard), for every set of         *)
(* browsers, connections, keys, codes and buttons and every timeout; and   *)
(* about the values of a look and a hotbar slot (Bounds).                  *)
(***************************************************************************)
EXTENDS Dashboard, Bounds, TLAPS

-----------------------------------------------------------------------------
(* The control session.  LockInv is its inductive invariant: the safety    *)
(* properties, which lean on each other.  A holder keeps a connection      *)
(* because the one that closes releases the lock it names; the clock bound *)
(* needs a silent clock while nobody holds the lock.                       *)

LockInv == /\ TypeOK
           /\ StoreNamesHolder
           /\ HolderHasSocket
           /\ DeadmanBound
           /\ UnattendedShowsNoMovement

-----------------------------------------------------------------------------
(* The two flags apart from the rest: no prover handles both well.        *)
FlagTypes == heartbeatSeen \in BOOLEAN /\ nudging \in BOOLEAN

ValueTypes ==
  /\ open \subseteq Conns
  /\ socketId \in [Conns -> Browsers \cup {NoOne}]
  /\ current \in Browsers \cup {NoOne}
  /\ controllerId \in Browsers \cup {NoOne}
  /\ silence \in 0 .. MaxSilence
  /\ sinceCheck \in 0 .. CheckPeriod
  /\ movement \in SUBSET Keys
  /\ bot \in {"none", "loading", "live"}
  /\ controlState \in SUBSET Keys
  /\ resets \in 0 .. MaxResets

LEMMA TypeSplit == TypeOK <=> FlagTypes /\ ValueTypes
  BY DEF TypeOK, FlagTypes, ValueTypes

(* The worker starts with nobody in control. *)
LEMMA LockInit == Init => LockInv
<1> SUFFICES ASSUME Init PROVE LockInv
  OBVIOUS
<1>1. FlagTypes
  BY DEF Init, FlagTypes
<1>2. ValueTypes
  BY ControlAssumption DEF ControlAssumption, Init, ValueTypes
<1>3. StoreNamesHolder /\ HolderHasSocket /\ UnattendedShowsNoMovement
  BY DEF Init, StoreNamesHolder, HolderHasSocket, UnattendedShowsNoMovement
<1>4. DeadmanBound
  BY ControlAssumption DEF ControlAssumption, Init, DeadmanBound
<1>5. QED
  BY <1>1, <1>2, <1>3, <1>4, TypeSplit DEF LockInv

(* A release by the holder of the lock (release(), its timeout and its last*)
(* close) leaves the lock, the store and the clock as nobody's.            *)
LEMMA ReleaseEffect ==
  ASSUME NEW b, current = b, ReleaseHeldBy(b)
  PROVE  /\ current' = NoOne
         /\ controllerId' = NoOne
         /\ silence' = 0
         /\ movement' = {}
  BY DEF ReleaseHeldBy

(* Every step of the worker keeps the values in their types. *)
LEMMA ValueStep ==
  ASSUME ValueTypes, [Next]_vars
  PROVE  ValueTypes'
<1> USE ControlAssumption DEF ControlAssumption, ValueTypes
<1>1. ASSUME NEW c \in Conns, Open(c)
      PROVE  ValueTypes'
  BY <1>1 DEF Open, lockVars, botVars
<1>2. ASSUME NEW c \in Conns, NEW b \in Browsers, Hello(c, b)
      PROVE  ValueTypes'
  BY <1>2 DEF Hello, Acquire, lockVars, botVars
<1>3. ASSUME NEW c \in Conns, SocketClose(c)
      PROVE  ValueTypes'
  BY <1>3 DEF SocketClose, ReleaseHeldBy, lockVars, botVars
<1>4. ASSUME NEW c \in Conns, Heartbeat(c)
      PROVE  ValueTypes'
  BY <1>4 DEF Heartbeat, sessionVars, botVars
<1>5. ASSUME NEW c \in Conns, NEW pressed \in SUBSET Keys, NEW released \in SUBSET Keys,
             Movement(c, pressed, released)
      PROVE  ValueTypes'
  BY <1>5 DEF Movement, sessionVars, lockVars
<1>6. ASSUME NEW c \in Conns, EmergencyStop(c)
      PROVE  ValueTypes'
  BY <1>6 DEF EmergencyStop, sessionVars, lockVars
<1>7. ASSUME NEW c \in Conns, Disconnect(c)
      PROVE  ValueTypes'
  BY <1>7 DEF Disconnect, ResetControlStore, sessionVars, lockVars, botVars
<1>8. CASE FinishDisconnect
  BY <1>8 DEF FinishDisconnect, ResetControlStore, sessionVars
<1>9. CASE BotCreated \/ BotReady \/ BotLost \/ BotRespawned \/ NudgeStart \/ NudgeEnd
  BY <1>9 DEF BotCreated, BotReady, BotLost, BotRespawned, NudgeStart, NudgeEnd,
              sessionVars, lockVars, botVars
<1>10. CASE CheckHeartbeat
  BY <1>10 DEF CheckHeartbeat, ReleaseHeldBy, sessionVars, lockVars, botVars
<1>11. CASE Tick
  BY <1>11 DEF Tick, sessionVars, botVars
<1>12. CASE UNCHANGED vars
  BY <1>12 DEF vars
<1>13. QED
  BY <1>1, <1>2, <1>3, <1>4, <1>5, <1>6, <1>7, <1>8, <1>9, <1>10, <1>11, <1>12
  DEF Next

(* Every step of the worker keeps the flags Boolean. *)
LEMMA FlagStep ==
  ASSUME FlagTypes, [Next]_vars
  PROVE  FlagTypes'
<1> USE DEF FlagTypes
<1>1. ASSUME NEW c \in Conns, Open(c)
      PROVE  FlagTypes'
  BY <1>1 DEF Open, lockVars, botVars
<1>2. ASSUME NEW c \in Conns, NEW b \in Browsers, Hello(c, b)
      PROVE  FlagTypes'
  BY <1>2 DEF Hello, Acquire, lockVars, botVars
<1>3. ASSUME NEW c \in Conns, SocketClose(c)
      PROVE  FlagTypes'
  BY <1>3 DEF SocketClose, ReleaseHeldBy, lockVars, botVars
<1>4. ASSUME NEW c \in Conns, Heartbeat(c)
      PROVE  FlagTypes'
  BY <1>4 DEF Heartbeat, sessionVars, botVars
<1>5. ASSUME NEW c \in Conns, NEW pressed \in SUBSET Keys, NEW released \in SUBSET Keys,
             Movement(c, pressed, released)
      PROVE  FlagTypes'
  BY <1>5 DEF Movement, sessionVars, lockVars
<1>6. ASSUME NEW c \in Conns, EmergencyStop(c)
      PROVE  FlagTypes'
  BY <1>6 DEF EmergencyStop, sessionVars, lockVars
<1>7. ASSUME NEW c \in Conns, Disconnect(c)
      PROVE  FlagTypes'
  BY <1>7 DEF Disconnect, ResetControlStore, sessionVars, lockVars, botVars
<1>8. CASE FinishDisconnect
  BY <1>8 DEF FinishDisconnect, ResetControlStore, sessionVars
<1>9. CASE BotCreated \/ BotReady \/ BotLost \/ BotRespawned \/ NudgeStart \/ NudgeEnd
  BY <1>9 DEF BotCreated, BotReady, BotLost, BotRespawned, NudgeStart, NudgeEnd,
              sessionVars, lockVars, botVars
<1>10. CASE CheckHeartbeat
  BY <1>10 DEF CheckHeartbeat, ReleaseHeldBy, sessionVars, lockVars, botVars
<1>11. CASE Tick
  BY <1>11 DEF Tick, sessionVars, botVars
<1>12. CASE UNCHANGED vars
  BY <1>12 DEF vars
<1>13. QED
  BY <1>1, <1>2, <1>3, <1>4, <1>5, <1>6, <1>7, <1>8, <1>9, <1>10, <1>11, <1>12
  DEF Next

(* Every step of the worker keeps the state well-typed. *)
LEMMA TypeStep ==
  ASSUME TypeOK, [Next]_vars
  PROVE  TypeOK'
<1>1. FlagTypes /\ ValueTypes
  BY TypeSplit
<1>2. FlagTypes'
  BY <1>1, FlagStep
<1>3. ValueTypes'
  BY <1>1, ValueStep
<1>4. QED
  BY <1>2, <1>3 DEF TypeOK, FlagTypes, ValueTypes

(* Every step of the worker keeps the lock consistent. *)
LEMMA LockStep ==
  ASSUME LockInv, [Next]_vars
  PROVE  LockInv'
<1> DEFINE Rest == /\ StoreNamesHolder /\ HolderHasSocket
                   /\ DeadmanBound /\ UnattendedShowsNoMovement
<1>0. TypeOK /\ TypeOK'
  BY TypeStep DEF LockInv
<1> USE ControlAssumption, <1>0
    DEF ControlAssumption, StoreNamesHolder, HolderHasSocket, DeadmanBound, UnattendedShowsNoMovement
<1>r. Rest
  BY DEF LockInv
<1> SUFFICES Rest'
  BY DEF LockInv
<1>1. ASSUME NEW c \in Conns, Open(c)
      PROVE  Rest'
  BY <1>1, <1>r DEF Open, lockVars
<1>2. ASSUME NEW c \in Conns, NEW b \in Browsers, Hello(c, b)
      PROVE  Rest'
  <2>1. /\ open' = open /\ movement' = movement /\ sinceCheck' = sinceCheck
        /\ c \in open /\ socketId[c] \in {NoOne, b}
        /\ socketId' = [socketId EXCEPT ![c] = b]
    BY <1>2 DEF Hello
  <2>2. socketId'[c] = b
    BY <2>1 DEF TypeOK
  <2>3. \A d \in open : socketId[d] \in Browsers => socketId'[d] = socketId[d]
    BY <2>1 DEF TypeOK
  <2>4. CASE UNCHANGED lockVars
    BY <1>r, <2>1, <2>3, <2>4 DEF lockVars, TypeOK
  <2>5. CASE current = NoOne /\ current' = b /\ controllerId' = b /\ silence' = 0
    BY <1>r, <2>1, <2>2, <2>5 DEF TypeOK
  <2>6. QED
    BY <1>2, <2>4, <2>5 DEF Hello, Acquire
<1>3. ASSUME NEW c \in Conns, SocketClose(c)
      PROVE  Rest'
  <2>1. /\ open' = open \ {c} /\ sinceCheck' = sinceCheck
        /\ socketId' = [socketId EXCEPT ![c] = NoOne]
    BY <1>3 DEF SocketClose
  <2>2. \A d \in open' : socketId'[d] = socketId[d]
    BY <2>1 DEF TypeOK
  <2>3. CASE current # NoOne /\ socketId[c] = current
    <3>1. ReleaseHeldBy(current)
      BY <1>3, <2>3 DEF SocketClose
    <3>2. QED
      BY <1>r, <2>1, <3>1, ReleaseEffect DEF TypeOK
  <2>4. CASE ~(current # NoOne /\ socketId[c] = current)
    <3>1. UNCHANGED <<lockVars, movement>>
      BY <1>3, <2>4 DEF SocketClose, ReleaseHeldBy
    <3>2. QED
      BY <1>r, <2>1, <2>2, <2>4, <3>1 DEF lockVars
  <2>5. QED
    BY <2>3, <2>4
<1>4. ASSUME NEW c \in Conns, Heartbeat(c)
      PROVE  Rest'
  BY <1>4, <1>r DEF Heartbeat, IsOwner, sessionVars, TypeOK
<1>5. ASSUME NEW c \in Conns, NEW pressed \in SUBSET Keys, NEW released \in SUBSET Keys,
             Movement(c, pressed, released)
      PROVE  Rest'
  BY <1>5, <1>r DEF Movement, IsOwner, sessionVars, lockVars
<1>6. ASSUME NEW c \in Conns, EmergencyStop(c)
      PROVE  Rest'
  BY <1>6, <1>r DEF EmergencyStop, sessionVars, lockVars
<1>7. ASSUME NEW c \in Conns, Disconnect(c)
      PROVE  Rest'
  BY <1>7, <1>r DEF Disconnect, ResetControlStore, sessionVars, lockVars
<1>8. CASE FinishDisconnect
  BY <1>8, <1>r DEF FinishDisconnect, ResetControlStore, sessionVars
<1>9. CASE BotCreated \/ BotReady \/ BotLost \/ BotRespawned \/ NudgeStart \/ NudgeEnd
  BY <1>9, <1>r DEF BotCreated, BotReady, BotLost, BotRespawned, NudgeStart, NudgeEnd,
                    sessionVars, lockVars
<1>10. CASE CheckHeartbeat
  <2>1. open' = open /\ socketId' = socketId /\ sinceCheck' = 0
    BY <1>10 DEF CheckHeartbeat, sessionVars
  <2>2. CASE current # NoOne /\ TimedOut
    <3>1. ReleaseHeldBy(current)
      BY <1>10, <2>2 DEF CheckHeartbeat
    <3>2. QED
      BY <1>r, <2>1, <3>1, ReleaseEffect DEF TypeOK
  <2>3. CASE ~(current # NoOne /\ TimedOut)
    <3>1. UNCHANGED <<lockVars, movement>>
      BY <1>10, <2>3 DEF CheckHeartbeat
    <3>2. silence <= HeartbeatTimeout
      BY <1>r, <2>3 DEF TimedOut, TypeOK
    <3>3. QED
      BY <1>r, <2>1, <3>1, <3>2 DEF lockVars, TypeOK
  <2>4. QED
    BY <2>2, <2>3
<1>11. CASE Tick
  BY <1>11, <1>r DEF Tick, sessionVars, TypeOK
<1>12. CASE UNCHANGED vars
  BY <1>12, <1>r DEF vars
<1>13. QED
  BY <1>1, <1>2, <1>3, <1>4, <1>5, <1>6, <1>7, <1>8, <1>9, <1>10, <1>11, <1>12
  DEF Next

(* LockInv holds in every reachable state. *)
THEOREM LockInvariant == Spec => []LockInv
<1>1. Init => LockInv
  BY LockInit
<1>2. LockInv /\ [Next]_vars => LockInv'
  BY LockStep
<1>3. QED
  BY <1>1, <1>2, PTL DEF Spec

(* Type correctness of the control session. *)
THEOREM TypeCorrect == Spec => []TypeOK
<1>1. LockInv => TypeOK
  BY DEF LockInv
<1>2. QED
  BY <1>1, LockInvariant, PTL

(* The lock belongs to a connected browser, and the store shows no other   *)
(* controller (acquire, release, the close handler, resetRuntime).         *)
THEOREM HolderConnected == Spec => [](StoreNamesHolder /\ HolderHasSocket)
<1>1. LockInv => StoreNamesHolder /\ HolderHasSocket
  BY DEF LockInv
<1>2. QED
  BY <1>1, LockInvariant, PTL

(* The controller that the dashboards are shown is the one the manager     *)
(* gave the lock to, whoever resets the store (acquire, resetRuntime).     *)
THEOREM ControllerShown == Spec => []StoreNamesHolder
<1>1. LockInv => StoreNamesHolder
  BY DEF LockInv
<1>2. QED
  BY <1>1, LockInvariant, PTL

(* checkHeartbeat bounds how long a silent holder keeps the lock. *)
THEOREM SilenceBounded == Spec => []DeadmanBound
<1>1. LockInv => DeadmanBound
  BY DEF LockInv
<1>2. QED
  BY <1>1, LockInvariant, PTL

(* With nobody in control the dashboards are shown no pressed key. *)
THEOREM NothingShown == Spec => []UnattendedShowsNoMovement
<1>1. LockInv => UnattendedShowsNoMovement
  BY DEF LockInv
<1>2. QED
  BY <1>1, LockInvariant, PTL
-----------------------------------------------------------------------------
(* A step that takes the lock from its holder is a timeout, a reset of the *)
(* store or the close of a connection in its name.                         *)
LEMMA LossStep ==
  ASSUME [Next]_vars, current # NoOne, current' # current
  PROVE  /\ current' = NoOne
         /\ \/ silence > HeartbeatTimeout
            \/ ~heartbeatSeen
            \/ \E c \in open \ open' : socketId[c] = current
<1> DEFINE Justified == /\ current' = NoOne
                        /\ \/ silence > HeartbeatTimeout
                           \/ ~heartbeatSeen
                           \/ \E c \in open \ open' : socketId[c] = current
<1> SUFFICES Justified
  OBVIOUS
<1>1. ASSUME NEW c \in Conns, SocketClose(c)
      PROVE  Justified
  <2>1. current' = NoOne /\ c \in open \ open' /\ socketId[c] = current
    BY <1>1 DEF SocketClose, ReleaseHeldBy, lockVars
  <2>2. QED
    BY <2>1
<1>2. CASE CheckHeartbeat
  <2>1. TimedOut /\ ReleaseHeldBy(current)
    BY <1>2 DEF CheckHeartbeat, lockVars
  <2>2. QED
    BY <2>1, ReleaseEffect DEF TimedOut
<1>3. ASSUME NEW c \in Conns, \/ Open(c)
                              \/ \E b \in Browsers : Hello(c, b)
                              \/ Heartbeat(c)
                              \/ \E pressed, released \in SUBSET Keys : Movement(c, pressed, released)
                              \/ EmergencyStop(c)
                              \/ Disconnect(c)
      PROVE  FALSE
  BY <1>3 DEF Open, Hello, Acquire, Heartbeat, Movement, EmergencyStop, Disconnect,
              ResetControlStore, lockVars
<1>4. CASE \/ FinishDisconnect \/ BotCreated \/ BotReady \/ BotLost \/ BotRespawned
           \/ NudgeStart \/ NudgeEnd \/ Tick
  BY <1>4 DEF FinishDisconnect, ResetControlStore, BotCreated, BotReady, BotLost,
              BotRespawned, NudgeStart, NudgeEnd, Tick, lockVars
<1>5. CASE \E c \in Conns : \/ Open(c)
                            \/ \E b \in Browsers : Hello(c, b)
                            \/ SocketClose(c)
                            \/ Heartbeat(c)
                            \/ \E pressed, released \in SUBSET Keys : Movement(c, pressed, released)
                            \/ EmergencyStop(c)
                            \/ Disconnect(c)
  BY <1>1, <1>3, <1>5
<1>6. CASE UNCHANGED vars
  BY <1>6 DEF vars
<1>7. QED
  BY <1>2, <1>4, <1>5, <1>6 DEF Next

(* The lock is never handed over and never lost without a cause (acquire's *)
(* refusal, release, checkHeartbeat).                                      *)
THEOREM LockLoss == Spec => LockLossJustified
<1>1. [Next]_vars
        => (current # NoOne /\ current' # current
              => /\ current' = NoOne
                 /\ \/ silence > HeartbeatTimeout
                    \/ ~heartbeatSeen
                    \/ \E c \in open \ open' : socketId[c] = current)
  BY LossStep
<1>2. QED
  BY <1>1, PTL DEF Spec, LockLossJustified

-----------------------------------------------------------------------------
(* Every step of the worker is a step of the dead-man lease or leaves it   *)
(* alone.                                                                  *)
LEMMA LeaseStep ==
  ASSUME LockInv, LockInv', [Next]_vars
  PROVE  [Lease!LeaseNext]_(Lease!leaseVars)
<1> USE ControlAssumption
    DEF ControlAssumption, Lease!LeaseNext, Lease!leaseVars
<1>0. /\ current = NoOne => silence = 0
      /\ current' = NoOne => silence' = 0
      /\ silence \in Nat /\ sinceCheck \in Nat
      /\ silence <= HeartbeatTimeout + sinceCheck
      /\ current \in Browsers \cup {NoOne}
  BY DEF LockInv, TypeOK, DeadmanBound
<1>1. CASE UNCHANGED <<current, silence>>
  BY <1>1
<1>2. CASE current # NoOne /\ current' = NoOne
  BY <1>0, <1>2 DEF Lease!Drop
<1>3. ASSUME NEW c \in Conns, NEW b \in Browsers, Hello(c, b)
      PROVE  [Lease!LeaseNext]_(Lease!leaseVars)
  BY <1>3 DEF Hello, Acquire, lockVars, Lease!Grant
<1>4. ASSUME NEW c \in Conns, Heartbeat(c)
      PROVE  [Lease!LeaseNext]_(Lease!leaseVars)
  BY <1>4 DEF Heartbeat, IsOwner, Lease!Renew
<1>5. ASSUME NEW c \in Conns, \/ Open(c)
                              \/ SocketClose(c)
                              \/ \E pressed, released \in SUBSET Keys : Movement(c, pressed, released)
                              \/ EmergencyStop(c)
                              \/ Disconnect(c)
      PROVE  [Lease!LeaseNext]_(Lease!leaseVars)
  <2>1. UNCHANGED <<current, silence>> \/ (current # NoOne /\ current' = NoOne)
    BY <1>5 DEF Open, SocketClose, ReleaseHeldBy, Movement, EmergencyStop, Disconnect,
                ResetControlStore, lockVars
  <2>2. QED
    BY <2>1, <1>1, <1>2
<1>6. CASE CheckHeartbeat
  <2>1. UNCHANGED <<current, silence>> \/ (current # NoOne /\ current' = NoOne)
    BY <1>6 DEF CheckHeartbeat, ReleaseHeldBy, lockVars
  <2>2. QED
    BY <2>1, <1>1, <1>2
<1>7. CASE Tick
  BY <1>0, <1>1, <1>7 DEF Tick, Lease!Elapse
<1>8. CASE \/ FinishDisconnect \/ BotCreated \/ BotReady \/ BotLost \/ BotRespawned
           \/ NudgeStart \/ NudgeEnd \/ UNCHANGED vars
  BY <1>1, <1>8 DEF FinishDisconnect, ResetControlStore, BotCreated, BotReady, BotLost,
                    BotRespawned, NudgeStart, NudgeEnd, lockVars, vars
<1>9. QED
  BY <1>3, <1>4, <1>5, <1>6, <1>7, <1>8 DEF Next

(* The control session implements the safety of the dead-man lease.        *)
THEOREM LeaseRefinement == Spec => Lease!LeaseSpec
<1>1. Init => Lease!LeaseInit
  BY DEF Init, Lease!LeaseInit
<1>2. LockInv /\ LockInv' /\ [Next]_vars => [Lease!LeaseNext]_(Lease!leaseVars)
  BY LeaseStep
<1>3. QED
  BY <1>1, <1>2, LockInvariant, PTL DEF Spec, Lease!LeaseSpec

-----------------------------------------------------------------------------
(* The page.  It only ever makes the worker do what ControlSession allows: *)
(* the composition implements it, and what is proved of the lock holds for *)
(* the page as well.                                                       *)

(* What the worker reads is a message the page can send. *)
LinkTyped == /\ open \subseteq Conns
             /\ inbox \in [Conns -> Seq(Messages)]

LEMMA MessageKeys ==
  ASSUME NEW m \in Messages, m.type \in {"press", "release"}
  PROVE  m.key \in Keys
BY DEF Messages

LEMMA SendTyped ==
  ASSUME LinkTyped, NEW m \in Messages, Send(m)
  PROVE  inbox' \in [Conns -> Seq(Messages)]
<1>1. CASE ws \in open
  <2>1. inbox' = [inbox EXCEPT ![ws] = Append(@, m)]
    BY <1>1 DEF Send
  <2>2. ws \in Conns /\ inbox[ws] \in Seq(Messages)
    BY <1>1 DEF LinkTyped
  <2>3. Append(inbox[ws], m) \in Seq(Messages)
    BY <2>2
  <2> QED
    BY <2>1, <2>2, <2>3 DEF LinkTyped
<1>2. CASE ws \notin open
  BY <1>2 DEF Send, LinkTyped
<1> QED
  BY <1>1, <1>2

(* A movement of the user, of the keyboard or of a button. *)
LEMMA ApplyMovementTyped ==
  ASSUME LinkTyped, NEW type \in {"press", "release"}, NEW k \in Keys,
         ApplyMovement(type, k)
  PROVE  inbox' \in [Conns -> Seq(Messages)]
<1>1. [type |-> type, key |-> k] \in Messages
  BY DEF Messages
<1> QED
  BY <1>1, SendTyped DEF ApplyMovement, LinkTyped

LEMMA ReadTyped ==
  ASSUME LinkTyped, NEW c \in Conns, NEW types, Read(c, types)
  PROVE  /\ inbox' \in [Conns -> Seq(Messages)]
         /\ Head(inbox[c]) \in Messages
         /\ Head(inbox[c]).type \in types
<1>1. inbox[c] \in Seq(Messages) /\ inbox[c] # <<>>
  BY DEF Read, LinkTyped
<1>2. Head(inbox[c]) \in Messages /\ Tail(inbox[c]) \in Seq(Messages)
  BY <1>1
<1>3. inbox' = [inbox EXCEPT ![c] = Tail(@)] /\ Head(inbox[c]).type \in types
  BY DEF Read
<1> QED
  BY <1>1, <1>2, <1>3 DEF LinkTyped

(* The steps of the worker are steps of ControlSession. *)
LEMMA WorkerImplements ==
  ASSUME LinkTyped, NEW c \in Conns,
         \/ PageOpen(c) \/ WorkerClose(c)
         \/ ReadHello(c) \/ ReadHeartbeat(c) \/ ReadMovement(c)
         \/ ReadStop(c) \/ ReadDisconnect(c)
  PROVE  Next
<1>1. CASE PageOpen(c)
  BY <1>1 DEF PageOpen, Next
<1>2. CASE WorkerClose(c)
  BY <1>2 DEF WorkerClose, Next
<1>3. CASE ReadHello(c)
  BY <1>3, DashboardAssumption DEF ReadHello, Next
<1>4. CASE ReadHeartbeat(c)
  BY <1>4 DEF ReadHeartbeat, Next
<1>5. CASE ReadMovement(c)
  <2> DEFINE m == Head(inbox[c])
  <2>1. m \in Messages
    BY <1>5, ReadTyped DEF ReadMovement
  <2>2. \/ m.type = "press" /\ Movement(c, {m.key}, {})
        \/ m.type = "release" /\ Movement(c, {}, {m.key})
        \/ Movement(c, {}, Keys)
    BY <1>5 DEF ReadMovement
  <2>3. m.type \in {"press", "release"} => {m.key} \in SUBSET Keys
    BY <2>1, MessageKeys
  <2> HIDE DEF m
  <2>4. \E pressed, released \in SUBSET Keys : Movement(c, pressed, released)
    BY <2>2, <2>3
  <2> QED
    BY <2>4 DEF Next
<1>6. CASE ReadStop(c)
  BY <1>6 DEF ReadStop, Next
<1>7. CASE ReadDisconnect(c)
  BY <1>7 DEF ReadDisconnect, Next
<1> QED
  BY <1>1, <1>2, <1>3, <1>4, <1>5, <1>6, <1>7

(* No message is invented: what is under way stays typed. *)
LEMMA LinkStep ==
  ASSUME LinkTyped, [DashNext]_dashVars, open' \subseteq Conns
  PROVE  LinkTyped'
<1> SUFFICES inbox' \in [Conns -> Seq(Messages)]
  BY DEF LinkTyped
<1>1. ASSUME NEW c \in Conns, PageOpen(c)  PROVE inbox' \in [Conns -> Seq(Messages)]
  <2>1. [type |-> "hello"] \in Messages
    BY DEF Messages
  <2>2. <<[type |-> "hello"]>> \in Seq(Messages)
    BY <2>1
  <2>3. inbox' = [inbox EXCEPT ![c] = <<[type |-> "hello"]>>]
    BY <1>1 DEF PageOpen
  <2> QED
    BY <2>2, <2>3 DEF LinkTyped
<1>2. ASSUME NEW c \in Conns, WorkerClose(c)  PROVE inbox' \in [Conns -> Seq(Messages)]
  <2>1. inbox' = [inbox EXCEPT ![c] = <<>>]
    BY <1>2 DEF WorkerClose
  <2>2. <<>> \in Seq(Messages)
    OBVIOUS
  <2> QED
    BY <2>1, <2>2 DEF LinkTyped
<1>3. ASSUME NEW c \in Conns, \E types : Read(c, types)  PROVE inbox' \in [Conns -> Seq(Messages)]
  BY <1>3, ReadTyped
<1>4. ASSUME NEW c \in Conns,
             \/ ReadHello(c) \/ ReadHeartbeat(c) \/ ReadMovement(c)
             \/ ReadStop(c) \/ ReadDisconnect(c) \/ ReadRefused(c)
      PROVE  inbox' \in [Conns -> Seq(Messages)]
  <2>1. \E types : Read(c, types)
    BY <1>4 DEF ReadHello, ReadHeartbeat, ReadMovement, ReadStop, ReadDisconnect,
                ReadRefused
  <2> QED
    BY <2>1, <1>3
<1>5. ASSUME NEW k \in Codes \cup Buttons,
             KeyDown(k) \/ KeyUp(k) \/ ButtonDown(k) \/ ButtonUp(k)
      PROVE  inbox' \in [Conns -> Seq(Messages)]
  <2>1. KeyOf[k] \in Keys
    BY DashboardAssumption
  <2>2. \/ UNCHANGED inbox
        \/ ApplyMovement("press", KeyOf[k])
        \/ ApplyMovement("release", KeyOf[k])
    BY <1>5 DEF KeyDown, KeyUp, ButtonDown, ButtonUp
  <2> QED
    BY <2>1, <2>2, ApplyMovementTyped DEF LinkTyped
<1>6. CASE LoseFocus
  <2>1. [type |-> "clear"] \in Messages
    BY DEF Messages
  <2>2. Send([type |-> "clear"]) \/ UNCHANGED inbox
    BY <1>6 DEF LoseFocus
  <2> QED
    BY <2>1, <2>2, SendTyped DEF LinkTyped
<1>7. CASE PageHeartbeat \/ StopButton \/ DisconnectButton \/ RequestControl
  <2>1. \E type \in {"heartbeat", "stop", "disconnect", "bad-hello"} : Send([type |-> type])
    BY <1>7 DEF PageHeartbeat, StopButton, DisconnectButton, RequestControl, SendOnly
  <2>2. \A type \in {"heartbeat", "stop", "disconnect", "bad-hello"} : [type |-> type] \in Messages
    BY DEF Messages
  <2> QED
    BY <2>1, <2>2, SendTyped
<1>8. CASE \/ PageClose \/ Broadcast \/ ShowSnapshot \/ RegainFocus \/ WorkerStep
           \/ \E k \in Codes \cup Buttons : ReleaseUnseen(k)
           \/ UNCHANGED dashVars
  <2>1. UNCHANGED inbox
    BY <1>8 DEF PageClose, Broadcast, ShowSnapshot, RegainFocus, WorkerStep,
                ReleaseUnseen, linkVars, dashVars
  <2> QED
    BY <2>1 DEF LinkTyped
<1> QED
  BY <1>1, <1>2, <1>4, <1>5, <1>6, <1>7, <1>8 DEF DashNext

LEMMA PageImplements ==
  ASSUME LinkTyped, [DashNext]_dashVars
  PROVE  [Next]_vars
<1>1. ASSUME NEW c \in Conns, ReadRefused(c)  PROVE UNCHANGED vars
  BY <1>1 DEF ReadRefused
<1>2. ASSUME NEW k, KeyDown(k) \/ KeyUp(k) \/ ButtonDown(k) \/ ButtonUp(k) \/ ReleaseUnseen(k)
      PROVE  UNCHANGED vars
  BY <1>2 DEF KeyDown, KeyUp, ButtonDown, ButtonUp, ReleaseUnseen
<1>3. CASE \/ PageClose \/ Broadcast \/ ShowSnapshot \/ LoseFocus \/ RegainFocus
           \/ PageHeartbeat \/ StopButton \/ DisconnectButton \/ RequestControl
  BY <1>3 DEF PageClose, Broadcast, ShowSnapshot, LoseFocus, RegainFocus, PageHeartbeat,
              StopButton, DisconnectButton, RequestControl, SendOnly
<1>4. CASE WorkerStep
  BY <1>4 DEF WorkerStep, Next
<1>5. CASE UNCHANGED dashVars
  BY <1>5 DEF dashVars
<1> QED
  BY <1>1, <1>2, <1>3, <1>4, <1>5, WorkerImplements DEF DashNext

LEMMA OpenStep ==
  ASSUME LinkTyped, [Next]_vars
  PROVE  open' \subseteq Conns
<1>1. CASE \E c \in Conns : Open(c) \/ SocketClose(c)
  BY <1>1 DEF Open, SocketClose, LinkTyped
<1>2. CASE open' = open
  BY <1>2 DEF LinkTyped
<1> QED
  BY <1>1, <1>2
  DEF Next, vars, sessionVars, Hello, Heartbeat, Movement, EmergencyStop, Disconnect,
      FinishDisconnect, BotCreated, BotReady, BotLost, BotRespawned, NudgeStart,
      NudgeEnd, CheckHeartbeat, Tick

(* What is under way to the worker is always what it can read. *)
LEMMA LinkInvariant == DashSpec => []LinkTyped
<1>1. DashInit => LinkTyped
  <2>1. DashInit => inbox = [c \in Conns |-> <<>>] /\ open = {}
    BY DEF DashInit, Init
  <2>2. <<>> \in Seq(Messages)
    OBVIOUS
  <2> QED
    BY <2>1, <2>2 DEF LinkTyped
<1>2. LinkTyped /\ [DashNext]_dashVars => LinkTyped'
  BY PageImplements, OpenStep, LinkStep
<1> QED
  BY <1>1, <1>2, PTL DEF DashSpec

(* The page and the worker together implement the control session: no      *)
(* message of the page, however delayed, and no loss of its connection     *)
(* makes the worker do anything that ControlSession does not describe.     *)
THEOREM PageRefinement == DashSpec => Spec
<1>1. DashInit => Init
  BY DEF DashInit
<1>2. LinkTyped /\ [DashNext]_dashVars => [Next]_vars
  BY PageImplements
<1> QED
  BY <1>1, <1>2, LinkInvariant, PTL DEF DashSpec, Spec

(* So the lock guarantees hold with the page: the worker shows it no other *)
(* controller than the holder, the holder is connected, and a page that    *)
(* falls silent loses the lock in time.                                    *)
THEOREM PageLock ==
  DashSpec => [](StoreNamesHolder /\ HolderHasSocket) /\ []DeadmanBound
BY PageRefinement, HolderConnected, SilenceBounded, PTL

-----------------------------------------------------------------------------
(* What the messages under way do to the keys, message by message.         *)

(* More keys down before, more keys down after. *)
LEMMA KeysMonotone ==
  ASSUME NEW queue, NEW keys, NEW more, keys \subseteq more
  PROVE  KeysAfter(queue, keys) \subseteq KeysAfter(queue, more)
BY DEF KeysAfter

(* A queue without a press lets no new key go down. *)
LEMMA KeysWithoutPress ==
  ASSUME NEW queue, NEW keys, \A p \in 1 .. Len(queue) : queue[p].type # "press"
  PROVE  KeysAfter(queue, keys) \subseteq keys
BY DEF KeysAfter

(* A message sent last drops what it drops, and presses what it presses. *)
LEMMA KeysSent ==
  ASSUME NEW S, NEW queue \in Seq(S), NEW m \in S, NEW keys,
         NEW k \in KeysAfter(Append(queue, m), keys)
  PROVE  \/ k \in KeysAfter(queue, keys) /\ ~Drops(m, k)
         \/ m.type = "press" /\ m.key = k
<1> DEFINE longer == Append(queue, m)
           n == Len(queue)
<1>1. /\ n \in Nat /\ Len(longer) = n + 1 /\ longer[n + 1] = m
      /\ \A i \in 1 .. n : longer[i] = queue[i]
  OBVIOUS
<1>2. /\ k \in Keys
      /\ \/ k \in keys /\ Kept(longer, 1, k)
         \/ \E p \in 1 .. Len(longer) :
              longer[p].type = "press" /\ longer[p].key = k /\ Kept(longer, p + 1, k)
  BY DEF KeysAfter
<1> HIDE DEF longer
<1>3. ASSUME NEW p \in 1 .. n + 1, Kept(longer, p, k)
      PROVE  Kept(queue, p, k) /\ ~Drops(m, k)
  <2>1. n + 1 \in p .. Len(longer) /\ \A i \in p .. n : i \in p .. Len(longer) /\ longer[i] = queue[i]
    BY <1>1
  <2>2. ~Drops(longer[n + 1], k) /\ \A i \in p .. n : ~Drops(longer[i], k)
    BY <1>3, <2>1 DEF Kept
  <2>3. \A i \in p .. n : ~Drops(queue[i], k)
    BY <2>1, <2>2
  <2> QED BY <1>1, <2>2, <2>3 DEF Kept
<1>4. CASE k \in keys /\ Kept(longer, 1, k)
  <2>1. 1 \in 1 .. n + 1
    BY <1>1
  <2> QED BY <1>2, <1>3, <1>4, <2>1 DEF KeysAfter
<1>5. ASSUME NEW p \in 1 .. Len(longer),
             longer[p].type = "press", longer[p].key = k, Kept(longer, p + 1, k)
      PROVE  \/ k \in KeysAfter(queue, keys) /\ ~Drops(m, k)
             \/ m.type = "press" /\ m.key = k
  <2>1. CASE p = n + 1
    BY <1>1, <1>5, <2>1
  <2>2. CASE p # n + 1
    <3>1. p \in 1 .. n /\ p + 1 \in 1 .. n + 1 /\ longer[p] = queue[p]
      BY <1>1, <2>2
    <3>2. Kept(queue, p + 1, k) /\ ~Drops(m, k)
      BY <1>3, <1>5, <3>1
    <3>3. k \in KeysAfter(queue, keys)
      BY <1>2, <1>5, <3>1, <3>2 DEF KeysAfter
    <3> QED BY <3>2, <3>3
  <2> QED BY <2>1, <2>2
<1> QED BY <1>2, <1>4, <1>5

(* Reading a message early changes nothing about how its queue ends. *)
LEMMA KeysRead ==
  ASSUME NEW S, NEW queue \in Seq(S), queue # <<>>, NEW keys, NEW now,
         \A k \in now : \/ k \in keys /\ ~Drops(Head(queue), k)
                        \/ Head(queue).type = "press" /\ Head(queue).key = k
  PROVE  KeysAfter(Tail(queue), now) \subseteq KeysAfter(queue, keys)
<1> DEFINE rest == Tail(queue)
           n == Len(queue)
<1>1. /\ n \in Nat \ {0} /\ Len(rest) = n - 1 /\ Head(queue) = queue[1]
      /\ \A i \in 1 .. n - 1 : rest[i] = queue[i + 1]
  OBVIOUS
<1> SUFFICES ASSUME NEW k \in KeysAfter(rest, now)  PROVE k \in KeysAfter(queue, keys)
  OBVIOUS
<1>2. /\ k \in Keys
      /\ \/ k \in now /\ Kept(rest, 1, k)
         \/ \E p \in 1 .. Len(rest) :
              rest[p].type = "press" /\ rest[p].key = k /\ Kept(rest, p + 1, k)
  BY DEF KeysAfter
<1> HIDE DEF rest, n
<1>3. ASSUME NEW p \in 1 .. n, Kept(rest, p, k)
      PROVE  Kept(queue, p + 1, k)
  <2>1. \A i \in p + 1 .. n : i - 1 \in p .. Len(rest) /\ rest[i - 1] = queue[i]
    BY <1>1
  <2>2. \A i \in p + 1 .. n : ~Drops(queue[i], k)
    BY <1>3, <2>1 DEF Kept
  <2> QED BY <2>2 DEF Kept, n
<1>4. CASE k \in now /\ Kept(rest, 1, k)
  <2>1. Kept(queue, 2, k) /\ 1 \in 1 .. n
    BY <1>1, <1>3, <1>4
  <2>2. CASE Head(queue).type = "press" /\ Head(queue).key = k
    <3>1. 1 \in 1 .. Len(queue) /\ queue[1].type = "press" /\ queue[1].key = k
          /\ Kept(queue, 1 + 1, k)
      BY <1>1, <2>1, <2>2 DEF n
    <3> QED BY <1>2, <3>1 DEF KeysAfter
  <2>3. CASE k \in keys /\ ~Drops(Head(queue), k)
    <3>1. ASSUME NEW i \in 1 .. Len(queue)  PROVE ~Drops(queue[i], k)
      <4>1. i = 1 \/ i \in 2 .. Len(queue)
        OBVIOUS
      <4> QED BY <1>1, <2>1, <2>3, <4>1 DEF Kept
    <3>2. Kept(queue, 1, k)
      BY <3>1 DEF Kept
    <3> QED BY <1>2, <2>3, <3>2 DEF KeysAfter
  <2> QED BY <1>4, <2>2, <2>3
<1>5. ASSUME NEW p \in 1 .. Len(rest),
             rest[p].type = "press", rest[p].key = k, Kept(rest, p + 1, k)
      PROVE  k \in KeysAfter(queue, keys)
  <2>1. p + 1 \in 1 .. n /\ queue[p + 1] = rest[p]
    BY <1>1
  <2>2. Kept(queue, (p + 1) + 1, k)
    BY <1>3, <1>5, <2>1
  <2> QED BY <1>2, <1>5, <2>1, <2>2 DEF KeysAfter, n
<1> QED BY <1>2, <1>4, <1>5

-----------------------------------------------------------------------------
(* The keys of a page that kept its connection and its control.            *)

(* The keys that the page still knows as pressed. *)
Known == {KeyOf[k] : k \in tracked \cup buttons}

NothingPressed ==
  /\ controlState \subseteq Nudged
  /\ \A c \in Conns : \A p \in 1 .. Len(inbox[c]) : inbox[c][p].type # "press"

(* As long as nothing disturbed the page, it is the only controller there  *)
(* is, on its one connection ...                                           *)
CalmLock ==
  /\ current \in {NoOne, Self} /\ controllerId = current
  /\ open \subseteq {ws}
  /\ \A c \in Conns : c # ws => inbox[c] = <<>>
  /\ (snapshot = Self /\ snapshot # "none") => controllerId = Self
  /\ isController => controllerId = Self /\ snapshot \in {"none", Self}

(* ... and while it does not know of its control it has pressed nothing;   *)
(* what it presses later it still knows, or has taken back in a message    *)
(* that is under way.                                                      *)
CalmKeys ==
  /\ isController => KeysAfter(inbox[ws], controlState \ Nudged) \subseteq Known
  /\ ~isController => NothingPressed

Calm == CalmLock /\ CalmKeys

DashInv ==
  /\ ws \in Conns \cup {NoConn}
  /\ bot # "live" => controlState = {}
  /\ ~disturbed => Calm

(* A page that knows of its control has an open connection. *)
LEMMA ControllerConnected ==
  ASSUME LockInv, Calm, isController, NoOne \notin Browsers, Self \in Browsers
  PROVE  open = {ws} /\ ws \in Conns /\ IsOwner(ws)
<1>1. current = Self /\ current # NoOne /\ open \subseteq {ws}
  BY DEF Calm, CalmLock, CalmKeys
<1>2. PICK c \in open : socketId[c] = current
  BY <1>1 DEF LockInv, HolderHasSocket
<1>3. c = ws /\ open \subseteq Conns
  BY <1>1 DEF LockInv, TypeOK
<1> QED
  BY <1>1, <1>2, <1>3 DEF IsOwner

(* So with what is said of the keys the property holds. *)
LEMMA CalmFollows ==
  ASSUME LockInv, DashInv
  PROVE  KeysFollowPage
<1> SUFFICES ASSUME ~disturbed  PROVE KeysToBe \subseteq Known
  BY DEF KeysFollowPage, Known
<1>1. Calm
  BY DEF DashInv
<1>2. CASE isController
  <2>1. ws \in Conns
    BY <1>1, <1>2, ControllerConnected, ControlAssumption, DashboardAssumption DEF ControlAssumption
  <2>2. ws # NoConn
    BY <2>1, DashboardAssumption
  <2>3. KeysToBe = KeysAfter(inbox[ws], controlState) \ Nudged
    BY <2>2 DEF KeysToBe
  <2>4. KeysAfter(inbox[ws], controlState) \ Nudged \subseteq KeysAfter(inbox[ws], controlState \ Nudged)
    BY DEF KeysAfter
  <2> QED
    BY <1>1, <1>2, <2>3, <2>4 DEF Calm, CalmLock, CalmKeys
<1>3. CASE ~isController
  <2> DEFINE sent == IF ws = NoConn THEN <<>> ELSE inbox[ws]
  <2>1. controlState \subseteq Nudged
    BY <1>1, <1>3 DEF Calm, CalmLock, CalmKeys, NothingPressed
  <2>2. \A p \in 1 .. Len(sent) : sent[p].type # "press"
    <3>1. CASE ws = NoConn
      BY <3>1
    <3>2. CASE ws \in Conns
      BY <1>1, <1>3, <3>2, DashboardAssumption DEF Calm, CalmLock, CalmKeys, NothingPressed
    <3> QED
      BY <3>1, <3>2 DEF DashInv
  <2> HIDE DEF sent
  <2>3. KeysAfter(sent, controlState) \subseteq controlState
    BY <2>2, KeysWithoutPress
  <2> QED
    BY <2>1, <2>3 DEF KeysToBe, sent
<1> QED
  BY <1>2, <1>3

(* A message of the page: it is sent by a page in control, or it is no     *)
(* press, and it drops whatever the page knows no longer.                  *)
LEMMA PageMessage ==
  ASSUME LockInv, LinkTyped, DashInv,
         NEW m \in Messages, Send(m),
         UNCHANGED <<vars, ws, snapshot, isController, disturbed>>,
         m.type = "press" => isController /\ m.key \in Known',
         isController => \A k \in Known : k \in Known' \/ Drops(m, k)
  PROVE  DashInv'
<1>1. /\ UNCHANGED <<open, current, controllerId, controlState, bot, nudging>>
      /\ UNCHANGED <<ws, snapshot, isController, disturbed>>
      /\ Nudged' = Nudged
  BY DEF vars, Nudged
<1>2. (bot # "live" => controlState = {})' /\ (ws \in Conns \cup {NoConn})'
  BY <1>1 DEF DashInv
<1> SUFFICES ASSUME ~disturbed  PROVE Calm'
  BY <1>1, <1>2 DEF DashInv
<1>3. Calm
  BY DEF DashInv
<1>4. \A c \in Conns : c # ws => inbox'[c] = <<>>
  BY <1>3 DEF Calm, CalmLock, CalmKeys, Send, LinkTyped
<1>5. ASSUME isController
      PROVE  KeysAfter(inbox'[ws], controlState \ Nudged) \subseteq Known'
  <2>1. ws \in open /\ ws \in Conns
    BY <1>3, <1>5, ControllerConnected, ControlAssumption, DashboardAssumption DEF ControlAssumption
  <2>2. PICK queue \in Seq(Messages) : queue = inbox[ws]
    BY <2>1 DEF LinkTyped
  <2>3. inbox'[ws] = Append(queue, m)
    BY <2>1, <2>2 DEF Send, LinkTyped
  <2>4. KeysAfter(queue, controlState \ Nudged) \subseteq Known
    BY <1>3, <1>5, <2>2 DEF Calm, CalmLock, CalmKeys
  <2>5. ASSUME NEW k \in KeysAfter(Append(queue, m), controlState \ Nudged)
        PROVE  k \in Known'
    <3>1. \/ k \in KeysAfter(queue, controlState \ Nudged) /\ ~Drops(m, k)
          \/ m.type = "press" /\ m.key = k
      BY <2>5, KeysSent
    <3> QED
      BY <1>5, <2>4, <3>1
  <2> QED
    BY <2>3, <2>5
<1>6. ASSUME ~isController
      PROVE  NothingPressed'
  <2>1. NothingPressed /\ m.type # "press"
    BY <1>3, <1>6 DEF Calm, CalmLock, CalmKeys
  <2>2. ASSUME NEW c \in Conns, NEW p \in 1 .. Len(inbox'[c])
        PROVE  inbox'[c][p].type # "press"
    <3>1. CASE inbox'[c] = inbox[c]
      BY <2>1, <3>1 DEF NothingPressed
    <3>2. CASE inbox'[c] = Append(inbox[c], m)
      <4>1. inbox[c] \in Seq(Messages)
        BY DEF LinkTyped
      <4>2. \A i \in 1 .. Len(inbox[c]) : inbox[c][i].type # "press"
        BY <2>1 DEF NothingPressed
      <4> QED
        BY <2>1, <3>2, <4>1, <4>2
    <3> QED
      BY <3>1, <3>2 DEF Send, LinkTyped
  <2>3. controlState' \subseteq Nudged'
    BY <1>1, <2>1 DEF NothingPressed
  <2> QED
    BY <2>2, <2>3 DEF NothingPressed
<1>7. CalmLock'
  BY <1>1, <1>3, <1>4 DEF Calm, CalmLock
<1>8. CalmKeys'
  BY <1>1, <1>5, <1>6 DEF CalmKeys
<1> QED
  BY <1>7, <1>8 DEF Calm

(* The page learns or forgets keys without a message: it forgets none that *)
(* it pressed as the controller.                                           *)
LEMMA PageSilent ==
  ASSUME DashInv, UNCHANGED <<vars, inbox, ws, snapshot, isController, disturbed>>,
         isController => Known \subseteq Known'
  PROVE  DashInv'
<1>1. /\ UNCHANGED <<open, current, controllerId, controlState, bot, nudging>>
      /\ UNCHANGED <<inbox, ws, snapshot, isController, disturbed>>
      /\ Nudged' = Nudged
  BY DEF vars, Nudged
<1>2. NothingPressed => NothingPressed'
  BY <1>1 DEF NothingPressed
<1>3. KeysAfter(inbox[ws], controlState \ Nudged) = KeysAfter(inbox[ws], controlState \ Nudged)'
  BY <1>1 DEF KeysAfter, Kept, Drops
<1>4. CalmLock => CalmLock'
  BY <1>1 DEF CalmLock
<1>5. CalmKeys => CalmKeys'
  BY <1>1, <1>2, <1>3 DEF CalmKeys
<1> QED
  BY <1>1, <1>4, <1>5 DEF DashInv, Calm

(* What Watch would have recorded did not happen. *)
LEMMA WatchQuiet ==
  ASSUME Watch, ~disturbed'
  PROVE  /\ ~disturbed
         /\ controllerId = Self => controllerId' = Self
         /\ controllerId' \in {Self, NoOne}
BY Zenon DEF Watch

(* A bot without plugins holds no key. *)
LEMMA NoBotNoKey ==
  ASSUME [Next]_vars, bot # "live" => controlState = {}
  PROVE  bot' # "live" => controlState' = {}
<1>1. ASSUME NEW c \in Conns, Open(c) \/ SocketClose(c) \/ Heartbeat(c) \/ \E b \in Browsers : Hello(c, b)
      PROVE  UNCHANGED <<bot, controlState>>
  BY <1>1 DEF Open, SocketClose, Heartbeat, Hello, botVars
<1>2. ASSUME NEW c \in Conns, EmergencyStop(c) \/ Disconnect(c)
      PROVE  UNCHANGED <<bot, controlState>> \/ controlState' = {}
  BY <1>2 DEF EmergencyStop, Disconnect, botVars
<1>3. ASSUME NEW c \in Conns, NEW pressed, NEW released, Movement(c, pressed, released)
      PROVE  bot' # "live" => controlState' = {}
  BY <1>3 DEF Movement
<1>4. CASE FinishDisconnect \/ CheckHeartbeat \/ Tick \/ BotRespawned \/ UNCHANGED vars
  BY <1>4 DEF FinishDisconnect, CheckHeartbeat, Tick, BotRespawned, botVars, vars
<1>5. CASE BotCreated \/ BotReady \/ BotLost \/ NudgeStart \/ NudgeEnd
  BY <1>5 DEF BotCreated, BotReady, BotLost, NudgeStart, NudgeEnd
<1> QED
  BY <1>1, <1>2, <1>3, <1>4, <1>5 DEF Next

(* The store and the manager agree on the controller unless a reset parts  *)
(* them, which disturbs the page when it is the controller.                *)
LEMMA ControllerAgreed ==
  ASSUME CalmLock, [Next]_vars, NoOne # Self,
         controllerId = Self => controllerId' = Self,
         controllerId' \in {Self, NoOne}
  PROVE  current' \in {NoOne, Self} /\ controllerId' = current'
<1>1. current \in {NoOne, Self} /\ controllerId = current
  BY DEF CalmLock
<1>2. ASSUME NEW c \in Conns, NEW b \in Browsers, Hello(c, b)
      PROVE  controllerId' = current'
  BY <1>1, <1>2 DEF Hello, Acquire, lockVars
<1>3. ASSUME NEW c \in Conns, SocketClose(c)
      PROVE  controllerId' = current'
  BY <1>1, <1>3 DEF SocketClose, ReleaseHeldBy, lockVars
<1>4. CASE CheckHeartbeat
  BY <1>1, <1>4 DEF CheckHeartbeat, ReleaseHeldBy, lockVars
<1>5. ASSUME controllerId' = NoOne, current' = current
      PROVE  controllerId' = current'
  BY <1>1, <1>5
<1>6. ASSUME NEW c \in Conns, Disconnect(c)
      PROVE  controllerId' = current'
  BY <1>1, <1>5, <1>6 DEF Disconnect, ResetControlStore, lockVars
<1>7. CASE FinishDisconnect
  BY <1>5, <1>7 DEF FinishDisconnect, ResetControlStore
<1>8. ASSUME NEW c \in Conns, \/ Open(c) \/ Heartbeat(c) \/ EmergencyStop(c)
                              \/ \E pressed, released \in SUBSET Keys : Movement(c, pressed, released)
      PROVE  controllerId' = current'
  BY <1>1, <1>8 DEF Open, Heartbeat, EmergencyStop, Movement, lockVars
<1>9. CASE \/ BotCreated \/ BotReady \/ BotLost \/ BotRespawned
           \/ NudgeStart \/ NudgeEnd \/ Tick \/ UNCHANGED vars
  BY <1>1, <1>9 DEF BotCreated, BotReady, BotLost, BotRespawned, NudgeStart, NudgeEnd,
                    Tick, lockVars, vars
<1>10. controllerId' = current'
  BY <1>2, <1>3, <1>4, <1>6, <1>7, <1>8, <1>9 DEF Next
<1> QED
  BY <1>10

(* The lock and the link after a step of the worker that the page does not *)
(* see.                                                                    *)
LEMMA WorkerLock ==
  ASSUME CalmLock, [Next]_vars, Watch, ~disturbed',
         UNCHANGED <<ws, snapshot, isController>>,
         open' \subseteq open,
         \A c \in Conns : c # ws => inbox'[c] = <<>>
  PROVE  CalmLock'
<1>1. NoOne # Self
  BY ControlAssumption, DashboardAssumption DEF ControlAssumption
<1>2. /\ controllerId = Self => controllerId' = Self
      /\ controllerId' \in {Self, NoOne}
  BY WatchQuiet
<1>3. current' \in {NoOne, Self} /\ controllerId' = current'
  BY <1>1, <1>2, ControllerAgreed
<1>4. open' \subseteq {ws'}
  BY DEF CalmLock
<1> QED
  BY <1>2, <1>3, <1>4 DEF CalmLock

(* The worker reads a message: the keys that are down now were down before *)
(* and are not dropped by it, or it presses them.                          *)
LEMMA WorkerReads ==
  ASSUME LinkTyped, LockInv, Calm, NEW c \in Conns, NEW types, Read(c, types),
         \A k \in controlState' \ Nudged' :
           \/ k \in controlState \ Nudged /\ ~Drops(Head(inbox[c]), k)
           \/ Head(inbox[c]).type = "press" /\ Head(inbox[c]).key = k
  PROVE  CalmKeys' /\ (\A d \in Conns : d # ws => inbox'[d] = <<>>)
<1>1. /\ c \in open /\ c = ws /\ UNCHANGED <<ws, isController, tracked, buttons>>
      /\ inbox[c] \in Seq(Messages) /\ inbox[c] # <<>>
      /\ inbox' = [inbox EXCEPT ![c] = Tail(@)]
      /\ Known' = Known
  BY DEF Read, Calm, CalmLock, LinkTyped, userVars, Known
<1>2. inbox'[c] = Tail(inbox[c]) /\ \A d \in Conns : d # c => inbox'[d] = inbox[d]
  BY <1>1 DEF LinkTyped
<1>3. KeysAfter(Tail(inbox[c]), controlState' \ Nudged')
        \subseteq KeysAfter(inbox[c], controlState \ Nudged)
  BY <1>1, KeysRead
<1>4. isController => KeysAfter(inbox'[ws], controlState' \ Nudged') \subseteq Known'
  BY <1>1, <1>2, <1>3 DEF Calm, CalmKeys
<1>5. ASSUME ~isController
      PROVE  NothingPressed'
  <2>1. NothingPressed
    BY <1>5 DEF Calm, CalmKeys
  <2>2. Head(inbox[c]) = inbox[c][1] /\ 1 \in 1 .. Len(inbox[c])
    BY <1>1
  <2>3. Head(inbox[c]).type # "press"
    BY <2>1, <2>2 DEF NothingPressed
  <2>4. controlState' \subseteq Nudged'
    BY <2>1, <2>3 DEF NothingPressed
  <2>5. ASSUME NEW d \in Conns, NEW p \in 1 .. Len(inbox'[d])
        PROVE  inbox'[d][p].type # "press"
    <3>1. CASE d = c
      <4>1. p + 1 \in 1 .. Len(inbox[c]) /\ inbox'[c][p] = inbox[c][p + 1]
        <5>1. PICK queue \in Seq(Messages) : queue = inbox[c] /\ queue # <<>>
          BY <1>1
        <5>2. \A i \in 1 .. Len(Tail(queue)) : i + 1 \in 1 .. Len(queue) /\ Tail(queue)[i] = queue[i + 1]
          BY <5>1
        <5>3. Tail(queue) = inbox'[c] /\ p \in 1 .. Len(Tail(queue))
          BY <1>2, <3>1, <5>1
        <5> QED
          BY <5>1, <5>2, <5>3
      <4> QED
        BY <2>1, <3>1, <4>1 DEF NothingPressed
    <3>2. CASE d # c
      BY <1>2, <2>1, <3>2 DEF NothingPressed
    <3> QED
      BY <3>1, <3>2
  <2> QED
    BY <2>4, <2>5 DEF NothingPressed
<1>6. CalmKeys'
  BY <1>1, <1>4, <1>5 DEF CalmKeys
<1> QED
  BY <1>1, <1>2, <1>6 DEF Calm, CalmLock

(* Each message that the worker reads.                                     *)
LEMMA ReadingKeepsCalm ==
  ASSUME LinkTyped, LockInv, DashInv, ~disturbed', NEW c \in Conns,
         \/ ReadHello(c) \/ ReadHeartbeat(c) \/ ReadMovement(c)
         \/ ReadStop(c) \/ ReadDisconnect(c)
  PROVE  Calm'
<1> DEFINE m == Head(inbox[c])
           Explained == \A k \in controlState' \ Nudged' :
                          \/ k \in controlState \ Nudged /\ ~Drops(m, k)
                          \/ m.type = "press" /\ m.key = k
<1>1. Next /\ Watch
  BY WorkerImplements DEF ReadHello, ReadHeartbeat, ReadMovement, ReadStop, ReadDisconnect
<1>2. Calm
  BY <1>1, WatchQuiet DEF DashInv
<1>3. PICK types : Read(c, types)
  BY DEF ReadHello, ReadHeartbeat, ReadMovement, ReadStop, ReadDisconnect
<1>4. UNCHANGED <<ws, snapshot, isController>>
  BY <1>3 DEF Read, userVars
<1>5. open' = open
  BY DEF ReadHello, ReadHeartbeat, ReadMovement, ReadStop, ReadDisconnect, Hello, Heartbeat,
         Movement, EmergencyStop, Disconnect, sessionVars
<1>6. bot # "live" => controlState = {}
  BY DEF DashInv
<1>7. Explained
  <2>1. CASE ReadHello(c)
    BY <2>1 DEF ReadHello, Read, Hello, botVars, Drops, Nudged
  <2>2. CASE ReadHeartbeat(c)
    BY <2>2 DEF ReadHeartbeat, Read, Heartbeat, botVars, Drops, Nudged
  <2>3. CASE ReadMovement(c)
    <3>1. Nudged' = Nudged
      BY <2>3 DEF ReadMovement, Movement, Nudged
    <3>2. CASE m.type = "press" /\ Movement(c, {m.key}, {})
      BY <1>6, <3>1, <3>2 DEF Movement, Drops
    <3>3. CASE m.type = "release" /\ Movement(c, {}, {m.key})
      BY <1>6, <3>1, <3>3 DEF Movement, Drops
    <3>4. CASE m.type = "clear" /\ Movement(c, {}, Keys)
      <4>1. controlState' = {}
        BY <1>6, <3>4 DEF Movement, LockInv, TypeOK
      <4> QED
        BY <4>1
    <3> QED
      BY <2>3, <3>2, <3>3, <3>4 DEF ReadMovement
  <2>4. CASE ReadStop(c)
    BY <2>4 DEF ReadStop, EmergencyStop
  <2>5. CASE ReadDisconnect(c)
    <3>1. m.type = "disconnect"
      BY <2>5 DEF ReadDisconnect, Read
    <3>2. UNCHANGED <<controlState, nudging>> \/ controlState' = {}
      BY <2>5 DEF ReadDisconnect, Disconnect, botVars
    <3> QED
      BY <3>1, <3>2 DEF Drops, Nudged
  <2> QED
    BY <2>1, <2>2, <2>3, <2>4, <2>5
<1>8. CalmKeys' /\ (\A d \in Conns : d # ws => inbox'[d] = <<>>)
  BY <1>2, <1>3, <1>7, WorkerReads
<1>9. CalmLock'
  BY <1>1, <1>2, <1>4, <1>5, <1>8, WorkerLock DEF Calm
<1> QED
  BY <1>8, <1>9 DEF Calm

(* A refused message is none of a controller, or means nothing.            *)
LEMMA RefusalKeepsCalm ==
  ASSUME LinkTyped, LockInv, DashInv, ~disturbed', NEW c \in Conns, ReadRefused(c)
  PROVE  Calm'
<1> DEFINE m == Head(inbox[c])
<1>1. Calm
  BY DEF ReadRefused, DashInv
<1>2. PICK types : Read(c, types)
  BY DEF ReadRefused
<1>3. UNCHANGED <<ws, snapshot, isController>> /\ UNCHANGED vars
  BY <1>2 DEF Read, userVars, ReadRefused
<1>4. UNCHANGED <<open, current, controllerId, controlState>> /\ Nudged' = Nudged
  BY <1>3 DEF vars, Nudged
<1>5. \/ m.type = "bad-hello"
      \/ controlState \ Nudged = {}
  <2>1. CASE Read(c, {"bad-hello"})
    BY <2>1 DEF Read
  <2>2. CASE ~IsOwner(c)
    <3>1. c \in open /\ open \subseteq {ws}
      BY <1>1, <1>2 DEF Read, Calm, CalmLock
    <3>2. ~isController
      BY <1>1, <2>2, <3>1, ControllerConnected, ControlAssumption, DashboardAssumption
      DEF ControlAssumption
    <3> QED
      BY <1>1, <3>2 DEF Calm, CalmKeys, NothingPressed
  <2>3. CASE bot = "none"
    BY <2>3 DEF DashInv
  <2> QED
    BY <2>1, <2>2, <2>3 DEF ReadRefused
<1>6. \A k \in controlState' \ Nudged' :
        \/ k \in controlState \ Nudged /\ ~Drops(m, k)
        \/ m.type = "press" /\ m.key = k
  BY <1>4, <1>5 DEF Drops
<1>7. CalmKeys' /\ (\A d \in Conns : d # ws => inbox'[d] = <<>>)
  BY <1>1, <1>2, <1>6, WorkerReads
<1>8. CalmLock'
  BY <1>1, <1>3, <1>4, <1>7 DEF Calm, CalmLock
<1> QED
  BY <1>7, <1>8 DEF Calm

(* What the worker does by itself: only a nudge presses a key. *)
LEMMA WorkerKeepsCalm ==
  ASSUME LockInv, DashInv, ~disturbed', WorkerStep
  PROVE  Calm'
<1>1. Next /\ Watch /\ UNCHANGED <<linkVars, userVars>>
  BY DEF WorkerStep, Next
<1>2. Calm
  BY <1>1, WatchQuiet DEF DashInv
<1>3. /\ UNCHANGED <<ws, inbox, snapshot, isController, tracked, buttons>>
      /\ Known' = Known
  BY <1>1 DEF linkVars, userVars, Known
<1>4. open' = open
  BY DEF WorkerStep, FinishDisconnect, BotCreated, BotReady, BotLost, BotRespawned, NudgeStart,
         NudgeEnd, CheckHeartbeat, Tick, sessionVars
<1>5. controlState' \ Nudged' \subseteq controlState \ Nudged
  <2>1. CASE NudgeStart
    BY <2>1 DEF NudgeStart, Nudged
  <2>2. CASE NudgeEnd
    BY <2>2 DEF NudgeEnd, Nudged
  <2>3. CASE BotLost
    BY <2>3 DEF BotLost
  <2>4. CASE UNCHANGED <<controlState, nudging>>
    BY <2>4 DEF Nudged
  <2> QED
    BY <2>1, <2>2, <2>3, <2>4
    DEF WorkerStep, FinishDisconnect, BotCreated, BotReady, BotRespawned, CheckHeartbeat,
        Tick, botVars
<1>6. CalmLock'
  BY <1>1, <1>2, <1>3, <1>4, WorkerLock DEF Calm, CalmLock
<1>7. isController => KeysAfter(inbox'[ws], controlState' \ Nudged') \subseteq Known'
  <2>1. KeysAfter(inbox[ws], controlState' \ Nudged') \subseteq KeysAfter(inbox[ws], controlState \ Nudged)
    BY <1>5, KeysMonotone
  <2> QED
    BY <1>2, <1>3, <2>1 DEF Calm, CalmKeys
<1>8. NothingPressed => NothingPressed'
  BY <1>3, <1>5 DEF NothingPressed
<1>9. CalmKeys'
  BY <1>2, <1>3, <1>7, <1>8 DEF Calm, CalmKeys
<1> QED
  BY <1>6, <1>9 DEF Calm

(* A page without a connection knows of no control, and the worker that    *)
(* closes the connection of a controller disturbs it.                      *)
LEMMA ConnectionKeepsCalm ==
  ASSUME LinkTyped, LockInv, DashInv, ~disturbed', NEW c \in Conns,
         PageOpen(c) \/ WorkerClose(c)
  PROVE  Calm'
<1> USE ControlAssumption, DashboardAssumption DEF ControlAssumption
<1>1. CASE PageOpen(c)
  <2>1. /\ UNCHANGED <<current, controllerId, controlState, nudging, snapshot, isController>>
        /\ ws = NoConn /\ ws' = c /\ open' = open \cup {c}
        /\ inbox' = [inbox EXCEPT ![c] = <<[type |-> "hello"]>>]
        /\ Nudged' = Nudged
    BY <1>1 DEF PageOpen, Open, lockVars, botVars, userVars, Nudged
  <2>2. Calm
    BY <1>1 DEF PageOpen, DashInv
  <2>3. ~isController
    BY <2>1, <2>2, ControllerConnected
  <2>4. CalmLock'
    <3>1. open \subseteq Conns /\ open \subseteq {NoConn}
      BY <2>1, <2>2 DEF Calm, CalmLock, LinkTyped
    <3>2. open' \subseteq {ws'}
      BY <2>1, <3>1
    <3>3. \A d \in Conns : d # ws' => inbox'[d] = <<>>
      BY <2>1, <2>2 DEF Calm, CalmLock, LinkTyped
    <3> QED
      BY <2>1, <2>2, <3>2, <3>3 DEF Calm, CalmLock
  <2>5. NothingPressed'
    <3>1. NothingPressed
      BY <2>2, <2>3 DEF Calm, CalmKeys
    <3>2. \A d \in Conns : inbox'[d] = inbox[d] \/ inbox'[d] = <<[type |-> "hello"]>>
      BY <2>1 DEF LinkTyped
    <3>3. ASSUME NEW d \in Conns, NEW p \in 1 .. Len(inbox'[d])
          PROVE  inbox'[d][p].type # "press"
      BY <3>1, <3>2 DEF NothingPressed
    <3>4. controlState' \subseteq Nudged'
      BY <2>1, <3>1 DEF NothingPressed
    <3> QED
      BY <3>3, <3>4 DEF NothingPressed
  <2> QED
    BY <2>1, <2>3, <2>4, <2>5 DEF Calm, CalmKeys
<1>2. CASE WorkerClose(c)
  <2>1. /\ Next /\ Watch /\ SocketClose(c)
        /\ UNCHANGED <<ws, snapshot, isController, controlState, nudging>>
        /\ open' = open \ {c} /\ c \in open
        /\ inbox' = [inbox EXCEPT ![c] = <<>>]
        /\ Nudged' = Nudged
    BY <1>2 DEF WorkerClose, SocketClose, Next, botVars, userVars, Nudged
  <2>2. Calm
    BY <2>1, WatchQuiet DEF DashInv
  <2>3. ~isController
    <3> SUFFICES ASSUME isController  PROVE FALSE
      OBVIOUS
    <3>1. c = ws /\ IsOwner(c) /\ controllerId = Self /\ current = Self
      BY <2>1, <2>2, ControllerConnected DEF Calm, CalmLock
    <3>2. controllerId' = NoOne
      BY <2>1, <3>1 DEF SocketClose, ReleaseHeldBy, IsOwner
    <3>3. controllerId' = Self
      BY <2>1, <3>1, WatchQuiet
    <3> QED
      BY <3>2, <3>3
  <2>4. \A d \in Conns : inbox'[d] = inbox[d] \/ inbox'[d] = <<>>
    BY <2>1 DEF LinkTyped
  <2>5. \A d \in Conns : d # ws => inbox'[d] = <<>>
    BY <2>2, <2>4 DEF Calm, CalmLock
  <2>6. CalmLock'
    BY <2>1, <2>2, <2>5, WorkerLock DEF Calm
  <2>7. NothingPressed'
    <3>1. NothingPressed
      BY <2>2, <2>3 DEF Calm, CalmKeys
    <3>2. ASSUME NEW d \in Conns, NEW p \in 1 .. Len(inbox'[d])
          PROVE  inbox'[d][p].type # "press"
      BY <2>4, <3>1 DEF NothingPressed
    <3>3. controlState' \subseteq Nudged'
      BY <2>1, <3>1 DEF NothingPressed
    <3> QED
      BY <3>2, <3>3 DEF NothingPressed
  <2> QED
    BY <2>1, <2>3, <2>6, <2>7 DEF Calm, CalmKeys
<1> QED
  BY <1>1, <1>2

(* A snapshot tells an undisturbed page what the store says now. *)
LEMMA SnapshotKeepsCalm ==
  ASSUME LockInv, DashInv, ~disturbed', Broadcast \/ ShowSnapshot
  PROVE  Calm'
<1>1. /\ UNCHANGED <<vars, ws, inbox, tracked, buttons, disturbed>>
      /\ UNCHANGED <<open, current, controllerId, controlState>>
      /\ Nudged' = Nudged /\ Known' = Known
  BY DEF Broadcast, ShowSnapshot, userVars, vars, Nudged, Known
<1>2. Calm
  BY <1>1 DEF DashInv
<1>3. NothingPressed' <=> NothingPressed
  BY <1>1 DEF NothingPressed
<1>4. CASE Broadcast
  <2>1. snapshot' = controllerId /\ UNCHANGED isController
    BY <1>4 DEF Broadcast, userVars
  <2>2. CalmLock'
    BY <1>1, <1>2, <2>1 DEF Calm, CalmLock
  <2>3. CalmKeys'
    BY <1>1, <1>2, <1>3, <2>1 DEF Calm, CalmKeys
  <2> QED
    BY <2>2, <2>3 DEF Calm
<1>5. CASE ShowSnapshot
  <2>1. snapshot # "none" /\ snapshot' = "none"
    BY <1>5 DEF ShowSnapshot
  <2>2. isController' <=> snapshot = Self
    BY <1>5, Zenon DEF ShowSnapshot, IsControllerFrom
  <2>3. isController' => controllerId = Self
    BY <1>2, <2>1, <2>2 DEF Calm, CalmLock
  <2>4. isController => isController'
    BY <1>2, <2>1, <2>2 DEF Calm, CalmLock
  <2>5. CalmLock'
    BY <1>1, <1>2, <2>1, <2>3 DEF Calm, CalmLock
  <2>6. ASSUME isController', ~isController
        PROVE  KeysAfter(inbox[ws], controlState \ Nudged) \subseteq Known
    <3>1. NothingPressed /\ controlState \ Nudged = {}
      BY <1>2, <2>6 DEF Calm, CalmKeys, NothingPressed
    <3>2. \E c \in Conns : socketId[c] = current /\ c \in open /\ c = ws
      <4>1. current # NoOne /\ open \subseteq {ws} /\ open \subseteq Conns
        BY <1>2, <2>3, <2>6, ControlAssumption, DashboardAssumption
        DEF Calm, CalmLock, ControlAssumption, LockInv, TypeOK
      <4> QED
        BY <4>1 DEF LockInv, HolderHasSocket
    <3>3. \A p \in 1 .. Len(inbox[ws]) : inbox[ws][p].type # "press"
      BY <3>1, <3>2 DEF NothingPressed
    <3> QED
      BY <3>1, <3>3, KeysWithoutPress
  <2>7. CalmKeys'
    <3>1. isController' => KeysAfter(inbox[ws], controlState \ Nudged) \subseteq Known
      BY <1>2, <2>6 DEF Calm, CalmKeys
    <3>2. ~isController' => NothingPressed
      BY <1>2, <2>4 DEF Calm, CalmKeys
    <3> QED
      BY <1>1, <1>3, <3>1, <3>2 DEF CalmKeys
  <2> QED
    BY <2>5, <2>7 DEF Calm
<1> QED
  BY <1>4, <1>5

(* Fingers on codes and buttons, and the focus of the window. *)
LEMMA UserStep ==
  ASSUME LinkTyped, LockInv, DashInv,
         \/ \E k \in Codes : KeyDown(k) \/ KeyUp(k)
         \/ \E k \in Buttons : ButtonDown(k) \/ ButtonUp(k)
         \/ \E k \in Codes \cup Buttons : ReleaseUnseen(k)
         \/ LoseFocus \/ RegainFocus
  PROVE  DashInv'
<1>1. ASSUME NEW k \in Codes \cup Buttons, KeyDown(k) \/ ButtonDown(k)
      PROVE  DashInv'
  <2> DEFINE m == [type |-> "press", key |-> KeyOf[k]]
  <2>1. /\ UNCHANGED <<vars, ws, snapshot, isController, disturbed>>
        /\ tracked \cup buttons \subseteq tracked' \cup buttons'
    BY <1>1 DEF KeyDown, ButtonDown
  <2>2. Known \subseteq Known'
    BY <2>1 DEF Known
  <2>3. CASE UNCHANGED inbox
    BY <2>1, <2>2, <2>3, PageSilent
  <2>4. CASE isController /\ Send(m) /\ k \in tracked' \cup buttons'
    <3>1. m \in Messages
      BY DashboardAssumption DEF Messages
    <3>2. m.key \in Known'
      BY <2>4 DEF Known
    <3> HIDE DEF m
    <3> QED
      BY <2>1, <2>2, <2>4, <3>1, <3>2, PageMessage
  <2> QED
    BY <1>1, <2>3, <2>4 DEF KeyDown, ButtonDown, ApplyMovement
<1>2. ASSUME NEW k \in Codes \cup Buttons, KeyUp(k) \/ ButtonUp(k)
      PROVE  DashInv'
  <2> DEFINE m == [type |-> "release", key |-> KeyOf[k]]
  <2>1. /\ UNCHANGED <<vars, ws, snapshot, isController, disturbed>>
        /\ (tracked \cup buttons) \ {k} \subseteq tracked' \cup buttons'
    BY <1>2 DEF KeyUp, ButtonUp
  <2>2. CASE ~isController
    <3>1. UNCHANGED inbox
      BY <1>2, <2>2 DEF KeyUp, ButtonUp, ApplyMovement
    <3> QED
      BY <2>1, <2>2, <3>1, PageSilent
  <2>3. CASE isController
    <3>1. Send(m)
      BY <1>2, <2>3 DEF KeyUp, ButtonUp, ApplyMovement
    <3>2. m \in Messages /\ m.type # "press"
      BY DashboardAssumption DEF Messages
    <3>3. \A j \in Known : j \in Known' \/ Drops(m, j)
      BY <2>1 DEF Known, Drops
    <3> HIDE DEF m
    <3> QED
      BY <2>1, <3>1, <3>2, <3>3, PageMessage
  <2> QED
    BY <2>2, <2>3
<1>3. ASSUME NEW k \in Codes \cup Buttons, ReleaseUnseen(k)
      PROVE  DashInv'
  <2>1. UNCHANGED <<vars, inbox, ws, snapshot, isController, disturbed>> /\ Known \subseteq Known'
    BY <1>3 DEF ReleaseUnseen, linkVars, Known
  <2> QED
    BY <2>1, PageSilent
<1>4. CASE RegainFocus
  <2>1. UNCHANGED <<vars, inbox, ws, snapshot, isController, disturbed>> /\ Known \subseteq Known'
    BY <1>4 DEF RegainFocus, linkVars, Known
  <2> QED
    BY <2>1, PageSilent
<1>5. CASE LoseFocus
  <2> DEFINE m == [type |-> "clear"]
  <2>1. UNCHANGED <<vars, ws, snapshot, isController, disturbed>>
    BY <1>5 DEF LoseFocus
  <2>2. CASE tracked = {}
    <3>1. UNCHANGED inbox /\ Known \subseteq Known'
      BY <1>5, <2>2 DEF LoseFocus, Known
    <3> QED
      BY <2>1, <3>1, PageSilent
  <2>3. CASE tracked # {}
    <3>1. Send(m)
      BY <1>5, <2>3 DEF LoseFocus
    <3>2. m \in Messages /\ m.type # "press" /\ \A j : Drops(m, j)
      BY DEF Messages, Drops
    <3> HIDE DEF m
    <3> QED
      BY <2>1, <3>1, <3>2, PageMessage
  <2> QED
    BY <2>2, <2>3
<1> QED
  BY <1>1, <1>2, <1>3, <1>4, <1>5

(* Every step of the page and of the worker keeps DashInv. *)
LEMMA DashStep ==
  ASSUME LinkTyped, LockInv, DashInv, [DashNext]_dashVars
  PROVE  DashInv'
<1>1. (bot # "live" => controlState = {})'
  <2>1. [Next]_vars
    BY PageImplements
  <2> QED
    BY <2>1, NoBotNoKey DEF DashInv
<1>2. ASSUME NEW c \in Conns, \/ PageOpen(c) \/ WorkerClose(c)
                              \/ ReadHello(c) \/ ReadHeartbeat(c) \/ ReadMovement(c)
                              \/ ReadStop(c) \/ ReadDisconnect(c) \/ ReadRefused(c)
      PROVE  DashInv'
  <2>1. ws' \in Conns \cup {NoConn}
    BY <1>2 DEF PageOpen, WorkerClose, ReadHello, ReadHeartbeat, ReadMovement, ReadStop,
                ReadDisconnect, ReadRefused, Read, DashInv
  <2>2. ~disturbed' => Calm'
    BY <1>2, ConnectionKeepsCalm, ReadingKeepsCalm, RefusalKeepsCalm
  <2> QED
    BY <1>1, <2>1, <2>2 DEF DashInv
<1>3. CASE PageClose
  BY <1>1, <1>3 DEF PageClose, DashInv
<1>4. CASE Broadcast \/ ShowSnapshot \/ WorkerStep
  <2>1. ws' = ws
    BY <1>4 DEF Broadcast, ShowSnapshot, WorkerStep, linkVars
  <2>2. ~disturbed' => Calm'
    BY <1>4, SnapshotKeepsCalm, WorkerKeepsCalm
  <2> QED
    BY <1>1, <2>1, <2>2 DEF DashInv
<1>5. CASE PageHeartbeat \/ StopButton \/ DisconnectButton \/ RequestControl
  <2>1. PICK type \in {"heartbeat", "stop", "disconnect", "bad-hello"} : SendOnly([type |-> type])
    BY <1>5 DEF PageHeartbeat, StopButton, DisconnectButton, RequestControl
  <2> DEFINE m == [type |-> type]
  <2>2. m \in Messages /\ m.type # "press"
    BY DEF Messages
  <2> HIDE DEF m
  <2>3. /\ Send(m) /\ Known' = Known
        /\ UNCHANGED <<vars, ws, snapshot, isController, disturbed>>
    BY <2>1 DEF SendOnly, userVars, Known, m
  <2> QED
    BY <2>2, <2>3, PageMessage
<1>6. CASE UNCHANGED dashVars
  <2>1. UNCHANGED <<vars, inbox, ws, snapshot, isController, disturbed>> /\ Known \subseteq Known'
    BY <1>6 DEF dashVars, linkVars, userVars, Known
  <2> QED
    BY <2>1, PageSilent
<1> QED
  BY <1>2, <1>3, <1>4, <1>5, <1>6, UserStep DEF DashNext

(* Nothing is connected, pressed or under way at first. *)
LEMMA DashInvInit == DashInit => DashInv
<1> SUFFICES ASSUME DashInit  PROVE DashInv
  OBVIOUS
<1>1. /\ open = {} /\ current = NoOne /\ controllerId = NoOne /\ controlState = {}
      /\ ws = NoConn /\ snapshot = "none" /\ \A c \in Conns : inbox[c] = <<>>
    BY DEF DashInit, Init
<1>2. ~isController
  BY DEF DashInit
<1>3. CalmLock
  BY <1>1, <1>2 DEF CalmLock
<1>4. CalmKeys
  BY <1>1, <1>2 DEF CalmKeys, NothingPressed
<1> QED
  BY <1>1, <1>3, <1>4 DEF DashInv, Calm

(* DashInv holds in every reachable state: the page, while undisturbed, is *)
(* the only controller and knows of every key it pressed.                  *)
THEOREM PageInvariant == DashSpec => []DashInv
<1>1. DashInit => DashInv
  BY DashInvInit
<1>2. LinkTyped /\ LockInv /\ DashInv /\ [DashNext]_dashVars => DashInv'
  BY DashStep
<1>3. DashSpec => []LockInv
  BY PageRefinement, LockInvariant, PTL
<1> QED
  BY <1>1, <1>2, <1>3, LinkInvariant, PTL DEF DashSpec

(* However long its messages take, the bot of a page that keeps its        *)
(* connection and its control ends up with no key that the page does not   *)
(* know as pressed, for every keyboard, button and length of the queue     *)
(* (applyMovement, clearMovement, handleMessage).                          *)
THEOREM KeysFollow == DashSpec => []KeysFollowPage
<1>1. LockInv /\ DashInv => KeysFollowPage
  BY CalmFollows
<1>2. DashSpec => []LockInv
  BY PageRefinement, LockInvariant, PTL
<1> QED
  BY <1>1, <1>2, PageInvariant, PTL

-----------------------------------------------------------------------------
(* Type correctness of the page, its flags again apart from its values.    *)

PageFlags == isController \in BOOLEAN /\ focused \in BOOLEAN /\ disturbed \in BOOLEAN

PageValues ==
  /\ ws \in Conns \cup {NoConn}
  /\ snapshot \in Browsers \cup {NoOne, "none"}
  /\ held \subseteq Codes \cup Buttons
  /\ tracked \subseteq Codes
  /\ buttons \subseteq Buttons

QueuesBounded == \A c \in Conns : Len(inbox[c]) <= MaxQueue

LEMMA DashTypeSplit ==
  TypeOK /\ LinkTyped /\ PageFlags /\ PageValues /\ QueuesBounded => DashTypeOK
<1> SUFFICES ASSUME TypeOK, LinkTyped, PageFlags, PageValues, QueuesBounded
             PROVE  DashTypeOK
  OBVIOUS
<1>1. \A c \in Conns : inbox[c] \in Seq(Messages)
  BY DEF LinkTyped
<1> QED
  BY <1>1 DEF DashTypeOK, PageFlags, PageValues, QueuesBounded

LEMMA PageFlagsStep ==
  ASSUME PageFlags, [DashNext]_dashVars
  PROVE  PageFlags'
<1>1. ASSUME NEW c \in Conns, PageOpen(c)  PROVE PageFlags'
  BY <1>1, Zenon DEF PageOpen, userVars, PageFlags
<1>2. ASSUME NEW c \in Conns, WorkerClose(c)  PROVE PageFlags'
  BY <1>2, Zenon DEF WorkerClose, Watch, userVars, PageFlags
<1>3. ASSUME NEW c \in Conns, NEW types, Read(c, types), Watch \/ UNCHANGED disturbed
      PROVE  PageFlags'
  BY <1>3, Zenon DEF Read, Watch, userVars, PageFlags
<1>4. ASSUME NEW c \in Conns,
             \/ ReadHello(c) \/ ReadHeartbeat(c) \/ ReadMovement(c)
             \/ ReadStop(c) \/ ReadDisconnect(c) \/ ReadRefused(c)
      PROVE  PageFlags'
  <2>1. \E types : Read(c, types)
    BY <1>4 DEF ReadHello, ReadHeartbeat, ReadMovement, ReadStop, ReadDisconnect, ReadRefused
  <2>2. Watch \/ UNCHANGED disturbed
    BY <1>4 DEF ReadHello, ReadHeartbeat, ReadMovement, ReadStop, ReadDisconnect, ReadRefused
  <2> QED
    BY <1>3, <2>1, <2>2
<1>5. CASE PageClose
  BY <1>5, Zenon DEF PageClose, userVars, PageFlags
<1>6. CASE Broadcast
  BY <1>6, Zenon DEF Broadcast, userVars, PageFlags
<1>7. CASE ShowSnapshot
  BY <1>7, Zenon DEF ShowSnapshot, IsControllerFrom, PageFlags
<1>8. ASSUME NEW k, KeyDown(k) \/ KeyUp(k) \/ ButtonDown(k) \/ ButtonUp(k) \/ ReleaseUnseen(k)
      PROVE  PageFlags'
  BY <1>8, Zenon DEF KeyDown, KeyUp, ButtonDown, ButtonUp, ReleaseUnseen, PageFlags
<1>9. CASE LoseFocus \/ RegainFocus
  BY <1>9, Zenon DEF LoseFocus, RegainFocus, PageFlags
<1>10. CASE PageHeartbeat \/ StopButton \/ DisconnectButton \/ RequestControl
  BY <1>10, Zenon DEF PageHeartbeat, StopButton, DisconnectButton, RequestControl, SendOnly,
                      userVars, PageFlags
<1>11. CASE WorkerStep
  BY <1>11, Zenon DEF WorkerStep, Watch, userVars, PageFlags
<1>12. CASE UNCHANGED dashVars
  BY <1>12, Zenon DEF dashVars, userVars, PageFlags
<1> QED
  BY <1>1, <1>2, <1>4, <1>5, <1>6, <1>7, <1>8, <1>9, <1>10, <1>11, <1>12, Zenon DEF DashNext

LEMMA PageValuesStep ==
  ASSUME PageValues, TypeOK, [DashNext]_dashVars
  PROVE  PageValues'
<1> USE DEF PageValues
<1>1. ASSUME NEW c \in Conns, PageOpen(c) \/ WorkerClose(c)  PROVE PageValues'
  BY <1>1 DEF PageOpen, WorkerClose, userVars
<1>2. ASSUME NEW c \in Conns,
             \/ ReadHello(c) \/ ReadHeartbeat(c) \/ ReadMovement(c)
             \/ ReadStop(c) \/ ReadDisconnect(c) \/ ReadRefused(c)
      PROVE  PageValues'
  <2>1. PICK types : Read(c, types)
    BY <1>2 DEF ReadHello, ReadHeartbeat, ReadMovement, ReadStop, ReadDisconnect, ReadRefused
  <2> QED
    BY <2>1 DEF Read, userVars
<1>3. CASE PageClose
  BY <1>3 DEF PageClose, userVars
<1>4. CASE Broadcast \/ ShowSnapshot
  BY <1>4 DEF Broadcast, ShowSnapshot, userVars, TypeOK
<1>5. ASSUME NEW k \in Codes, KeyDown(k) \/ KeyUp(k)  PROVE PageValues'
  BY <1>5 DEF KeyDown, KeyUp
<1>6. ASSUME NEW k \in Buttons, ButtonDown(k) \/ ButtonUp(k)  PROVE PageValues'
  BY <1>6 DEF ButtonDown, ButtonUp
<1>7. ASSUME NEW k \in Codes \cup Buttons, ReleaseUnseen(k)  PROVE PageValues'
  BY <1>7 DEF ReleaseUnseen, linkVars
<1>8. CASE LoseFocus \/ RegainFocus
  BY <1>8 DEF LoseFocus, RegainFocus, linkVars
<1>9. CASE PageHeartbeat \/ StopButton \/ DisconnectButton \/ RequestControl
  BY <1>9 DEF PageHeartbeat, StopButton, DisconnectButton, RequestControl, SendOnly, userVars
<1>10. CASE WorkerStep \/ UNCHANGED dashVars
  BY <1>10 DEF WorkerStep, dashVars, linkVars, userVars
<1> QED
  BY <1>1, <1>2, <1>3, <1>4, <1>5, <1>6, <1>7, <1>8, <1>9, <1>10 DEF DashNext

(* A message only leaves when there is room for it.                        *)
LEMMA SendBounded ==
  ASSUME LinkTyped, QueuesBounded, NEW m, Send(m)
  PROVE  QueuesBounded'
<1>1. CASE ws \in open
  <2>1. ws \in Conns /\ inbox' = [inbox EXCEPT ![ws] = Append(@, m)] /\ Len(inbox[ws]) < MaxQueue
    BY <1>1 DEF Send, LinkTyped
  <2>2. PICK queue \in Seq(Messages) : queue = inbox[ws]
    BY <2>1 DEF LinkTyped
  <2>3. Len(Append(queue, m)) = Len(queue) + 1 /\ Len(queue) \in Nat
    OBVIOUS
  <2>4. Len(Append(queue, m)) <= MaxQueue
    BY <2>1, <2>2, <2>3, DashboardAssumption
  <2>5. inbox'[ws] = Append(queue, m) /\ \A c \in Conns : c # ws => inbox'[c] = inbox[c]
    BY <2>1, <2>2 DEF LinkTyped
  <2> QED
    BY <2>4, <2>5 DEF QueuesBounded
<1>2. CASE ws \notin open
  BY <1>2 DEF Send, QueuesBounded
<1> QED
  BY <1>1, <1>2

LEMMA QueuesStep ==
  ASSUME LinkTyped, QueuesBounded, [DashNext]_dashVars
  PROVE  QueuesBounded'
<1>1. ASSUME NEW c \in Conns, PageOpen(c)  PROVE QueuesBounded'
  <2>1. inbox' = [inbox EXCEPT ![c] = <<[type |-> "hello"]>>]
    BY <1>1 DEF PageOpen
  <2>2. Len(<<[type |-> "hello"]>>) <= MaxQueue
    BY DashboardAssumption
  <2> QED
    BY <2>1, <2>2 DEF QueuesBounded, LinkTyped
<1>2. ASSUME NEW c \in Conns, WorkerClose(c)  PROVE QueuesBounded'
  <2>1. inbox' = [inbox EXCEPT ![c] = <<>>] /\ Len(<<>>) <= MaxQueue
    BY <1>2, DashboardAssumption DEF WorkerClose
  <2> QED
    BY <2>1 DEF QueuesBounded, LinkTyped
<1>3. ASSUME NEW c \in Conns, NEW types, Read(c, types)  PROVE QueuesBounded'
  <2>1. inbox' = [inbox EXCEPT ![c] = Tail(@)] /\ inbox[c] # <<>>
    BY <1>3 DEF Read
  <2>2. PICK queue \in Seq(Messages) : queue = inbox[c] /\ queue # <<>>
    BY <2>1 DEF LinkTyped
  <2>3. Len(Tail(queue)) = Len(queue) - 1 /\ Len(queue) \in Nat
    BY <2>2
  <2>4. Len(Tail(queue)) <= MaxQueue
    BY <2>2, <2>3, DashboardAssumption DEF QueuesBounded
  <2>5. \A d \in Conns : inbox'[d] = inbox[d] \/ inbox'[d] = Tail(queue)
    BY <2>1, <2>2 DEF LinkTyped
  <2> QED
    BY <2>4, <2>5 DEF QueuesBounded
<1>4. ASSUME NEW c \in Conns,
             \/ ReadHello(c) \/ ReadHeartbeat(c) \/ ReadMovement(c)
             \/ ReadStop(c) \/ ReadDisconnect(c) \/ ReadRefused(c)
      PROVE  QueuesBounded'
  <2>1. \E types : Read(c, types)
    BY <1>4 DEF ReadHello, ReadHeartbeat, ReadMovement, ReadStop, ReadDisconnect, ReadRefused
  <2> QED
    BY <1>3, <2>1
<1>5. ASSUME NEW k, KeyDown(k) \/ KeyUp(k) \/ ButtonDown(k) \/ ButtonUp(k) \/ ReleaseUnseen(k)
      PROVE  UNCHANGED inbox \/ \E m : Send(m)
  BY <1>5 DEF KeyDown, KeyUp, ButtonDown, ButtonUp, ReleaseUnseen, ApplyMovement, linkVars
<1>6. CASE \/ LoseFocus \/ PageHeartbeat \/ StopButton \/ DisconnectButton \/ RequestControl
  <2>1. UNCHANGED inbox \/ \E m : Send(m)
    BY <1>6 DEF LoseFocus, PageHeartbeat, StopButton, DisconnectButton, RequestControl, SendOnly
  <2> QED
    BY <2>1, SendBounded DEF QueuesBounded
<1>7. CASE PageClose \/ Broadcast \/ ShowSnapshot \/ RegainFocus \/ WorkerStep \/ UNCHANGED dashVars
  BY <1>7 DEF PageClose, Broadcast, ShowSnapshot, RegainFocus, WorkerStep, linkVars, dashVars,
              QueuesBounded
<1>8. CASE \/ \E k \in Codes : KeyDown(k) \/ KeyUp(k)
           \/ \E k \in Buttons : ButtonDown(k) \/ ButtonUp(k)
           \/ \E k \in Codes \cup Buttons : ReleaseUnseen(k)
  <2>1. UNCHANGED inbox \/ \E m : Send(m)
    BY <1>5, <1>8
  <2> QED
    BY <2>1, SendBounded DEF QueuesBounded
<1> QED
  BY <1>1, <1>2, <1>4, <1>6, <1>7, <1>8 DEF DashNext

(* Type correctness of the page and of what is under way to the worker.    *)
THEOREM PageTypeCorrect == DashSpec => []DashTypeOK
<1>1. DashInit => PageFlags
  BY Zenon DEF DashInit, PageFlags
<1>2. DashInit => PageValues /\ QueuesBounded
  <2> SUFFICES ASSUME DashInit  PROVE PageValues /\ QueuesBounded
    OBVIOUS
  <2>1. PageValues
    BY DEF DashInit, PageValues
  <2>2. Len(<<>>) <= MaxQueue /\ inbox = [c \in Conns |-> <<>>]
    BY DashboardAssumption DEF DashInit
  <2> QED
    BY <2>1, <2>2 DEF QueuesBounded
<1>3. PageFlags /\ [DashNext]_dashVars => PageFlags'
  BY PageFlagsStep
<1>4. /\ LinkTyped /\ TypeOK /\ PageValues /\ QueuesBounded /\ [DashNext]_dashVars
         => PageValues' /\ QueuesBounded'
  BY PageValuesStep, QueuesStep
<1>5. DashSpec => []TypeOK
  BY PageRefinement, TypeCorrect, PTL
<1>6. DashSpec => []PageFlags
  BY <1>1, <1>3, PTL DEF DashSpec
<1>7. DashSpec => [](PageValues /\ QueuesBounded)
  BY <1>2, <1>4, <1>5, LinkInvariant, PTL DEF DashSpec
<1> QED
  BY <1>5, <1>6, <1>7, LinkInvariant, DashTypeSplit, PTL

-----------------------------------------------------------------------------
(* The values that a page sends with a look and a hotbar slot, and what   *)
(* the worker makes of them.                                               *)

(* A clamped value lies within its bounds, and one that did is unchanged   *)
(* (clamp).                                                                *)
LEMMA ClampWithin ==
  ASSUME NEW v, NEW low \in Int, NEW high \in Int, low <= high
  PROVE  /\ Clamp(v, low, high) \in low .. high
         /\ v \in low .. high => Clamp(v, low, high) = v
<1>1. CASE v \in Int
  BY <1>1 DEF Clamp
<1>2. CASE v \notin Int
  BY <1>2 DEF Clamp
<1> QED BY <1>1, <1>2

(* The remainder keeps the sign of its dividend and differs from it by     *)
(* whole turns.                                                            *)
LEMMA RemainderOfTurn ==
  ASSUME NEW a \in Int
  PROVE  /\ Remainder(a, 3600) \in Int
         /\ Remainder(a, 3600) < 3600 /\ Remainder(a, 3600) > -3600
         /\ \E k \in Int : Remainder(a, 3600) = a + k * 3600
<1>1. CASE a >= 0
  <2>1. /\ a % 3600 \in 0 .. 3599
        /\ a = (3600 * (a \div 3600)) + (a % 3600)
        /\ a \div 3600 \in Int
    BY SMT
  <2>2. Remainder(a, 3600) = a + (-(a \div 3600)) * 3600
    BY <1>1, <2>1 DEF Remainder
  <2> QED BY <1>1, <2>1, <2>2 DEF Remainder
<1>2. CASE a < 0
  <2> DEFINE b == -a
  <2>1. /\ b % 3600 \in 0 .. 3599
        /\ b = (3600 * (b \div 3600)) + (b % 3600)
        /\ b \div 3600 \in Int
    BY SMT
  <2>2. Remainder(a, 3600) = -(b % 3600)
    BY <1>2 DEF Remainder
  <2>3. Remainder(a, 3600) = a + (b \div 3600) * 3600
    BY <2>1, <2>2
  <2> QED BY <2>1, <2>2, <2>3
<1> QED BY <1>1, <1>2

(* A yaw ends up within half a turn of north and points where it pointed:  *)
(* only whole turns were taken off (clampYaw).                             *)
THEOREM YawSameDirection ==
  ASSUME NEW y \in Int
  PROVE  /\ ClampYaw(y) \in -HalfTurn .. HalfTurn
         /\ \E k \in Int : ClampYaw(y) = y + k * FullTurn
<1>1. FullTurn = 3600 /\ HalfTurn = 1800
  BY DEF FullTurn, HalfTurn, Scale
<1>2. PICK v \in Int : v = Remainder(y, 3600)
  BY RemainderOfTurn
<1>3. v < 3600 /\ v > -3600
  BY <1>2, RemainderOfTurn
<1>4. PICK k \in Int : v = y + k * 3600
  BY <1>2, RemainderOfTurn
<1>5. ClampYaw(y) = IF v > 1800 THEN v - 3600 ELSE IF v < -1800 THEN v + 3600 ELSE v
  BY <1>1, <1>2 DEF ClampYaw
<1>6. \E c \in -1 .. 1 : ClampYaw(y) = v + c * 3600 /\ ClampYaw(y) \in -1800 .. 1800
  <2>1. CASE v > 1800
    BY <1>3, <1>5, <2>1
  <2>2. CASE v < -1800
    BY <1>3, <1>5, <2>2
  <2>3. CASE v \in -1800 .. 1800
    BY <1>5, <2>3
  <2> QED BY <2>1, <2>2, <2>3
<1>7. PICK c \in -1 .. 1 : ClampYaw(y) = v + c * 3600 /\ ClampYaw(y) \in -1800 .. 1800
  BY <1>6
<1>8. ClampYaw(y) = y + (k + c) * 3600
  BY <1>4, <1>7
<1>9. ClampYaw(y) = y + (k + c) * FullTurn /\ k + c \in Int
  BY <1>1, <1>7, <1>8
<1>10. ClampYaw(y) \in -HalfTurn .. HalfTurn
  BY <1>1, <1>7
<1> QED BY <1>9, <1>10

(* A yaw in range is left alone, -180 included: the range is closed at both*)
(* ends (clampYaw).                                                        *)
LEMMA YawInRangeKept ==
  ASSUME NEW y \in -HalfTurn .. HalfTurn
  PROVE  ClampYaw(y) = y
<1>1. FullTurn = 3600 /\ HalfTurn = 1800
  BY DEF FullTurn, HalfTurn, Scale
<1>2. y \in Int /\ y >= -1800 /\ y <= 1800
  BY <1>1
<1>3. Remainder(y, 3600) = y
  BY <1>2 DEF Remainder
<1> QED BY <1>1, <1>2, <1>3 DEF ClampYaw

(* Whatever the mouse did and whatever was shown, the worker turns the bot *)
(* exactly where the page asked: clamping on both sides is clamping once   *)
(* (onMouseMove, setLook).                                                 *)
THEOREM LookArrivesUnchanged ==
  ASSUME NEW shown, NEW turn
  PROVE  SetLook(MouseLook(shown, turn)) = MouseLook(shown, turn)
<1> DEFINE yaw == shown.yaw - turn.yaw
           pitch == shown.pitch - turn.pitch
<1>1. ClampYaw(yaw) \in -HalfTurn .. HalfTurn
  <2>1. CASE yaw \in Int
    BY <2>1, YawSameDirection
  <2>2. CASE yaw \notin Int
    BY <2>2 DEF ClampYaw, HalfTurn, Scale
  <2> QED BY <2>1, <2>2
<1>2. ClampYaw(ClampYaw(yaw)) = ClampYaw(yaw)
  BY <1>1, YawInRangeKept
<1>3. -RightAngle \in Int /\ RightAngle \in Int /\ -RightAngle <= RightAngle
  BY DEF RightAngle, Scale
<1>4. ClampPitch(ClampPitch(pitch)) = ClampPitch(pitch)
  BY <1>3, ClampWithin DEF ClampPitch
<1>5. MouseLook(shown, turn).yaw = ClampYaw(yaw)
  BY DEF MouseLook
<1>6. MouseLook(shown, turn).pitch = ClampPitch(pitch)
  BY DEF MouseLook
<1>7. SetLook(MouseLook(shown, turn)) = [yaw |-> ClampYaw(yaw), pitch |-> ClampPitch(pitch)]
  BY <1>2, <1>4, <1>5, <1>6 DEF SetLook
<1> QED BY <1>7 DEF MouseLook

(* The slot asked of the bot is one of the nine, and a whole slot is the   *)
(* one that was asked for (normalizeHotbarSlot).                           *)
THEOREM HotbarSlotValid ==
  /\ \A slot : HotbarSlot(slot) \in 0 .. 8
  /\ \A n \in 0 .. 8 : HotbarSlot(n * Scale) = n
<1>1. ASSUME NEW slot PROVE HotbarSlot(slot) \in 0 .. 8
  <2>1. CASE slot \in Int
    BY <2>1, ClampWithin DEF HotbarSlot
  <2>2. CASE slot \notin Int
    BY <2>2 DEF HotbarSlot
  <2> QED BY <2>1, <2>2
<1>2. ASSUME NEW n \in 0 .. 8 PROVE HotbarSlot(n * Scale) = n
  <2>1. (n * 10) \div 10 = n /\ n * 10 \in Int
    BY SMT
  <2>2. Clamp(n, 0, 8) = n
    BY ClampWithin
  <2> QED BY <2>1, <2>2 DEF HotbarSlot, Scale
<1> QED BY <1>1, <1>2
=============================================================================
