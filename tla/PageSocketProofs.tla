-------------------------- MODULE PageSocketProofs --------------------------
(***************************************************************************)
(* A page keeps trying, and its flag follows its sockets, for any number   *)
(* of chains.                                                              *)
(***************************************************************************)
EXTENDS PageSocket, TLAPS

(* wsRef refers to a socket that is not closed yet. *)
RefIsSocket == ws # None => stage[ws] \in {"connecting", "open", "closing"}

(* Away from the dashboard, the effect has not run. *)
AwayIsUnmounted == at # "dashboard" => rendered = "unmounted"

(* What NeverStranded rests on: a page whose wsRef is null waits for the   *)
(* effect, a token or a timer, or shows an error.  A socket that is still  *)
(* connecting is no such thing: it may open after wsRef has moved on.      *)
KeepsTrying ==
  at = "dashboard" =>
    ws # None \/ authError \/ rendered = "unmounted"
      \/ \E c \in Chains : stage[c] \in {"token", "timer"}

SocketInv ==
  /\ TypeOK
  /\ RefIsSocket
  /\ AwayIsUnmounted
  /\ KeepsTrying
  /\ UsableIsConnected
  /\ ConnectedHasSocket

USE DEF userVars

-----------------------------------------------------------------------------
LEMMA InitInv == Init => SocketInv
BY PageSocketAssumption
   DEF Init, SocketInv, TypeOK, Urls, RefIsSocket, AwayIsUnmounted, KeepsTrying,
       UsableIsConnected, SocketUsable, ConnectedHasSocket

(* The page is gone: nothing is left to hold. *)
LEMMA UnloadedInv ==
  ASSUME SocketInv, Unloaded, at' \in {"dashboard", "login", "left"}, signedIn' \in BOOLEAN
  PROVE  SocketInv'
<1>1. TypeOK'
  BY DEF SocketInv, TypeOK, Urls, Unloaded
<1>2. RefIsSocket' /\ AwayIsUnmounted' /\ KeepsTrying'
  BY DEF Unloaded, RefIsSocket, AwayIsUnmounted, KeepsTrying
<1>3. UsableIsConnected' /\ ConnectedHasSocket'
  BY DEF Unloaded, UsableIsConnected, SocketUsable, ConnectedHasSocket
<1> QED BY <1>1, <1>2, <1>3 DEF SocketInv

LEMMA StepInv == SocketInv /\ [Next]_vars => SocketInv'
<1> SUFFICES ASSUME SocketInv, [Next]_vars PROVE SocketInv'
  OBVIOUS
<1> USE DEF SocketInv
<1>1. ASSUME NEW c \in Chains, Effect(c) PROVE SocketInv'
  <2>1. TypeOK'
    BY <1>1 DEF Effect, TypeOK, Urls
  <2>2. stage'[c] = "token" /\ stage[c] = "free"
    BY <1>1 DEF Effect, TypeOK
  <2>3. ASSUME NEW d \in Chains, d # c
        PROVE  stage'[d] = IF d = ws /\ stage[d] \in {"connecting", "open"} THEN "closing"
                           ELSE stage[d]
    BY <1>1, <2>3 DEF Effect, TypeOK
  <2>4. ws # None => ws \in Chains /\ ws # c /\ stage'[ws] = "closing"
    BY <2>2, <2>3 DEF RefIsSocket, TypeOK
  <2>5. RefIsSocket' /\ UsableIsConnected'
    BY <1>1, <2>4 DEF Effect, RefIsSocket, UsableIsConnected, SocketUsable
  <2>6. AwayIsUnmounted' /\ KeepsTrying'
    BY <1>1, <2>2 DEF Effect, AwayIsUnmounted, KeepsTrying
  <2>7. ConnectedHasSocket'
    <3>1. SUFFICES ASSUME connected, NEW d \in Chains, stage[d] \in {"open", "closing"}
                   PROVE  stage'[d] \in {"open", "closing"}
      BY <1>1 DEF Effect, ConnectedHasSocket
    <3> QED BY <2>2, <2>3, <3>1
  <2> QED BY <2>1, <2>5, <2>6, <2>7
<1>2. ASSUME NEW c \in Chains, TokenIssued(c) PROVE SocketInv'
  <2>1. TypeOK'
    BY <1>2 DEF TokenIssued, TypeOK, Urls
  <2>2. /\ stage'[c] = "connecting" /\ ws' = c /\ c # None
        /\ \A d \in Chains : d # c => stage'[d] = stage[d]
        /\ stage[c] = "token"
    BY <1>2, PageSocketAssumption DEF TokenIssued, TypeOK
  <2>3. RefIsSocket' /\ UsableIsConnected'
    BY <2>2 DEF RefIsSocket, UsableIsConnected, SocketUsable
  <2>4. AwayIsUnmounted' /\ KeepsTrying'
    BY <1>2, <2>2 DEF TokenIssued, AwayIsUnmounted, KeepsTrying
  <2>5. ConnectedHasSocket'
    BY <1>2, <2>2 DEF TokenIssued, ConnectedHasSocket
  <2> QED BY <2>1, <2>3, <2>4, <2>5
<1>3. ASSUME NEW c \in Chains, TokenRefused(c) PROVE SocketInv'
  <2>1. TypeOK'
    BY <1>3 DEF TokenRefused, TypeOK, Urls
  <2>2. /\ stage'[c] = "free" /\ authError'
        /\ \A d \in Chains : d # c => stage'[d] = stage[d]
        /\ stage[c] = "token" /\ ws' = ws
    BY <1>3 DEF TokenRefused, TypeOK
  <2>3. ws # None => ws # c /\ ws \in Chains
    BY <2>2 DEF RefIsSocket, TypeOK
  <2>4. RefIsSocket' /\ UsableIsConnected'
    BY <1>3, <2>2, <2>3 DEF TokenRefused, RefIsSocket, UsableIsConnected, SocketUsable
  <2>5. AwayIsUnmounted' /\ KeepsTrying' /\ ConnectedHasSocket'
    BY <1>3, <2>2 DEF TokenRefused, AwayIsUnmounted, KeepsTrying, ConnectedHasSocket
  <2> QED BY <2>1, <2>4, <2>5
<1>4. ASSUME NEW c \in Chains, TokenExpires(c) \/ GatewayCloses(c) \/ ViewerUrlReceived(c)
      PROVE  SocketInv'
  <2>1. UNCHANGED <<stage, ws, connected, authError, rendered, userVars>>
    BY <1>4 DEF TokenExpires, GatewayCloses, ViewerUrlReceived, chainVars, pageVars
  <2>2. TypeOK'
    <3>1. CASE TokenExpires(c)
      BY <3>1 DEF TokenExpires, TypeOK, Urls, pageVars
    <3>2. CASE GatewayCloses(c)
      BY <3>2 DEF GatewayCloses, TypeOK, Urls, chainVars, pageVars
    <3>3. CASE ViewerUrlReceived(c)
      BY <3>3 DEF ViewerUrlReceived, TypeOK, Urls, chainVars
    <3> QED BY <1>4, <3>1, <3>2, <3>3
  <2> QED BY <2>1, <2>2 DEF RefIsSocket, AwayIsUnmounted, KeepsTrying, UsableIsConnected,
                            SocketUsable, ConnectedHasSocket
<1>5. ASSUME NEW c \in Chains, SocketOpens(c) PROVE SocketInv'
  <2>1. TypeOK'
    BY <1>5 DEF SocketOpens, TypeOK, Urls
  <2>2. /\ stage'[c] = "open" /\ connected' /\ stage[c] = "connecting"
        /\ \A d \in Chains : d # c => stage'[d] = stage[d]
        /\ UNCHANGED <<ws, authError, viewerUrl, rendered, userVars>>
    BY <1>5 DEF SocketOpens, TypeOK
  <2>3. RefIsSocket'
    BY <2>2 DEF RefIsSocket, TypeOK
  <2>4. AwayIsUnmounted' /\ KeepsTrying'
    BY <2>2 DEF AwayIsUnmounted, KeepsTrying
  <2>5. UsableIsConnected' /\ ConnectedHasSocket'
    BY <2>2 DEF UsableIsConnected, ConnectedHasSocket
  <2> QED BY <2>1, <2>3, <2>4, <2>5
<1>6. ASSUME NEW c \in Chains, SocketCloses(c) PROVE SocketInv'
  <2>1. TypeOK'
    BY <1>6 DEF SocketCloses, TypeOK, Urls
  <2>2. stage'[c] = "timer" /\ ws' = None /\ ~connected' /\ UNCHANGED <<rendered, userVars>>
    BY <1>6 DEF SocketCloses, TypeOK
  <2> QED BY <2>1, <2>2 DEF RefIsSocket, AwayIsUnmounted, KeepsTrying, UsableIsConnected,
                            SocketUsable, ConnectedHasSocket
<1>7. ASSUME NEW c \in Chains, TimerFires(c) PROVE SocketInv'
  <2>1. TypeOK'
    BY <1>7 DEF TimerFires, TypeOK, Urls
  <2>2. /\ stage[c] = "timer" /\ stage'[c] \in {"free", "token"}
        /\ SocketUsable \/ stage'[c] = "token"
        /\ \A d \in Chains : d # c => stage'[d] = stage[d]
        /\ UNCHANGED <<ws, connected, viewerUrl, rendered, userVars>>
    BY <1>7 DEF TimerFires, TypeOK
  <2>3. ws # None => ws \in Chains /\ ws # c
    BY <2>2 DEF RefIsSocket, TypeOK
  <2>4. RefIsSocket' /\ UsableIsConnected'
    BY <2>2, <2>3 DEF RefIsSocket, UsableIsConnected, SocketUsable
  <2>5. AwayIsUnmounted' /\ KeepsTrying'
    BY <2>2 DEF AwayIsUnmounted, KeepsTrying, SocketUsable
  <2>6. ConnectedHasSocket'
    BY <2>2 DEF ConnectedHasSocket
  <2> QED BY <2>1, <2>4, <2>5, <2>6
<1>8. CASE SignedOut
  <2>1. UNCHANGED <<stage, ws, connected, authError, rendered, at>>
    BY <1>8 DEF SignedOut, chainVars, pageVars
  <2>2. TypeOK'
    BY <1>8 DEF SignedOut, TypeOK, Urls, chainVars, pageVars
  <2> QED BY <2>1, <2>2 DEF RefIsSocket, AwayIsUnmounted, KeepsTrying, UsableIsConnected,
                            SocketUsable, ConnectedHasSocket
<1>9. CASE OpenDashboard
  BY <1>9, UnloadedInv DEF OpenDashboard, TypeOK
<1>10. CASE LogIn
  <2>1. /\ UNCHANGED <<stage, ws, connected, authError, rendered>>
        /\ at = "login" /\ at' = "dashboard" /\ rendered = "unmounted"
    BY <1>10 DEF LogIn, chainVars, pageVars, AwayIsUnmounted
  <2>2. TypeOK'
    BY <1>10 DEF LogIn, TypeOK, Urls, chainVars, pageVars
  <2> QED BY <2>1, <2>2 DEF RefIsSocket, AwayIsUnmounted, KeepsTrying, UsableIsConnected,
                            SocketUsable, ConnectedHasSocket
<1>11. CASE SignOut
  BY <1>11, UnloadedInv DEF SignOut
<1>12. CASE UNCHANGED vars
  BY <1>12 DEF vars, chainVars, pageVars, TypeOK, Urls, RefIsSocket, AwayIsUnmounted,
               KeepsTrying, UsableIsConnected, SocketUsable, ConnectedHasSocket
<1> QED BY <1>1, <1>2, <1>3, <1>4, <1>5, <1>6, <1>7, <1>8, <1>9, <1>10, <1>11, <1>12
        DEF Next

-----------------------------------------------------------------------------
(* The inductive invariant of the page's connections. *)
THEOREM SocketInvariant == Spec => []SocketInv
BY InitInv, StepInv, PTL DEF Spec

(* The state of the page, its chains and its user is well-formed. *)
THEOREM TypeCorrect == Spec => []TypeOK
<1>1. SocketInv => TypeOK
  BY DEF SocketInv
<1> QED BY <1>1, SocketInvariant, PTL

(* However many chains overlap, a page without a usable socket shows an    *)
(* error or still has an attempt under way (openWebSocket, onclose).       *)
THEOREM PageKeepsTrying == Spec => []NeverStranded
<1>1. SocketInv => NeverStranded
  <2> SUFFICES ASSUME SocketInv, at = "dashboard", ~authError, ~SocketUsable,
                      rendered = viewerUrl
               PROVE  \E c \in Chains : stage[c] \in {"token", "connecting", "closing", "timer"}
    BY DEF NeverStranded
  <2>1. rendered # "unmounted"
    BY PageSocketAssumption DEF SocketInv, TypeOK, Urls
  <2>2. CASE ws # None
    BY <2>2 DEF SocketInv, TypeOK, RefIsSocket, SocketUsable
  <2>3. CASE ws = None
    BY <2>1, <2>3 DEF SocketInv, KeepsTrying
  <2> QED BY <2>2, <2>3
<1> QED BY <1>1, SocketInvariant, PTL

(* A page that can send commands runs its heartbeat, and one that says it  *)
(* is connected has a socket that is not closed yet (onopen, onclose).     *)
THEOREM FlagTruthful == Spec => []ConnectedTruthful
<1>1. SocketInv => ConnectedTruthful
  BY DEF SocketInv, ConnectedTruthful
<1> QED BY <1>1, SocketInvariant, PTL
=============================================================================
