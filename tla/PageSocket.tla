----------------------------- MODULE PageSocket -----------------------------
(***************************************************************************)
(* How a dashboard page opens, replaces and retries its connection to the  *)
(* worker: openWebSocket() of Dashboard.tsx with the effect that calls it, *)
(* the token route it asks first and the gateway's answer to its hello;    *)
(* and how a user signs in and out around it.                              *)
(*                                                                         *)
(* openWebSocket() goes through token request, socket and, once the socket *)
(* closes, a timer that calls it again: a chain.  The effect runs again    *)
(* each time viewerUrl changes and starts another chain beside the ones    *)
(* that exist, while all of them share wsRef and the flags of the page.    *)
(***************************************************************************)
EXTENDS Naturals

CONSTANTS Chains,  \* bound: the chains of one page
          None,    \* null
          Url      \* the worker's viewer URL

ASSUME PageSocketAssumption == /\ None \notin Chains /\ None # Url
                               /\ "unmounted" \notin {None, Url}

VARIABLES
  stage,      \* of each chain: "free", "token" (request under way),
              \* "connecting", "open", "closing" (close() was called), "timer"
  seen,       \* the viewerUrl that the chain's closures captured
  fresh,      \* the chain's token has not expired
  authorized, \* the sockets whose hello the gateway accepted
  ws,         \* wsRef.current, as the chain the socket belongs to
  connected,  \* state of the page: connected
  authError,  \* state of the page: authError is shown
  viewerUrl,  \* state of the page: viewerUrl
  rendered,   \* the viewerUrl the effect last ran for, "unmounted" before
  at,         \* what the tab shows: "dashboard", "login", "left" after a logout
  signedIn    \* the session cookie is valid

chainVars == <<stage, seen, fresh>>
pageVars == <<ws, connected, authError, viewerUrl, rendered>>
userVars == <<at, signedIn>>
vars == <<chainVars, authorized, pageVars, userVars>>

Urls == {None, Url}

TypeOK ==
  /\ stage \in [Chains -> {"free", "token", "connecting", "open", "closing", "timer"}]
  /\ seen \in [Chains -> Urls]
  /\ fresh \in [Chains -> BOOLEAN]
  /\ authorized \subseteq Chains
  /\ ws \in Chains \cup {None}
  /\ connected \in BOOLEAN /\ authError \in BOOLEAN /\ signedIn \in BOOLEAN
  /\ viewerUrl \in Urls
  /\ rendered \in Urls \cup {"unmounted"}
  /\ at \in {"dashboard", "login", "left"}

Init ==
  /\ stage = [c \in Chains |-> "free"]
  /\ seen = [c \in Chains |-> None]
  /\ fresh = [c \in Chains |-> FALSE]
  /\ authorized = {}
  /\ ws = None /\ connected = FALSE /\ authError = FALSE
  /\ viewerUrl = None /\ rendered = "unmounted"
  /\ at = "login" /\ signedIn = FALSE

-----------------------------------------------------------------------------
(* openWebSocket() *)

SocketUsable == ws # None /\ stage[ws] = "open"

(* Variant: the new chain captures the URL of the previous render. *)
EffectStale(c) ==
  /\ at = "dashboard" /\ rendered # viewerUrl
  /\ stage[c] = "free"
  /\ rendered' = viewerUrl
  /\ stage' = [d \in Chains |->
                 IF d = c THEN "token"
                 ELSE IF d = ws /\ stage[d] \in {"connecting", "open"} THEN "closing"
                 ELSE stage[d]]
  /\ seen' = [seen EXCEPT ![c] = rendered]
  /\ authError' = FALSE
  /\ UNCHANGED <<fresh, authorized, ws, connected, viewerUrl, userVars>>

(* The effect for a new viewerUrl: the clean-up of the previous one closes *)
(* the socket wsRef refers to, then a new chain requests its token.        *)
Effect(c) ==
  /\ at = "dashboard" /\ rendered # viewerUrl
  /\ stage[c] = "free"
  /\ rendered' = viewerUrl
  /\ stage' = [d \in Chains |->
                 IF d = c THEN "token"
                 ELSE IF d = ws /\ stage[d] \in {"connecting", "open"} THEN "closing"
                 ELSE stage[d]]
  /\ seen' = [seen EXCEPT ![c] = viewerUrl]
  /\ authError' = FALSE
  /\ UNCHANGED <<fresh, authorized, ws, connected, viewerUrl, userVars>>

(* The token route answers: a token, and the socket replaces the one wsRef *)
(* referred to, without closing it.                                        *)
TokenIssued(c) ==
  /\ stage[c] = "token" /\ signedIn
  /\ viewerUrl' = Url
  /\ stage' = [stage EXCEPT ![c] = "connecting"]
  /\ fresh' = [fresh EXCEPT ![c] = TRUE]
  /\ ws' = c
  /\ UNCHANGED <<seen, authorized, connected, authError, rendered, userVars>>

(* Not signed in, worker not configured, unreachable or refusing: the chain*)
(* ends with a message.                                                    *)
TokenRefused(c) ==
  /\ stage[c] = "token"
  /\ stage' = [stage EXCEPT ![c] = "free"]
  /\ authError' = TRUE
  /\ UNCHANGED <<seen, fresh, authorized, ws, connected, viewerUrl, rendered, userVars>>

(* More than TOKEN_TTL_MS pass before the socket opens (a sleeping tab).   *)
TokenExpires(c) ==
  /\ stage[c] = "connecting" /\ fresh[c]
  /\ fresh' = [fresh EXCEPT ![c] = FALSE]
  /\ UNCHANGED <<stage, seen, authorized, pageVars, userVars>>

-----------------------------------------------------------------------------
(* The socket of a chain and the gateway *)

(* onopen sends the hello; verify() of the token decides whether the       *)
(* gateway authenticates the client or answers BAD_TOKEN.                  *)
SocketOpens(c) ==
  /\ stage[c] = "connecting"
  /\ stage' = [stage EXCEPT ![c] = "open"]
  /\ connected' = TRUE
  /\ authorized' = IF fresh[c] THEN authorized \cup {c} ELSE authorized
  /\ UNCHANGED <<seen, fresh, ws, authError, viewerUrl, rendered, userVars>>

(* The gateway loses a client or closes it (stop()), before the page knows.*)
GatewayCloses(c) ==
  /\ c \in authorized
  /\ authorized' = authorized \ {c}
  /\ UNCHANGED <<chainVars, pageVars, userVars>>

(* welcome (with a bot's name) and viewer-status: the viewer URL they carry*)
(* or, if it is empty, the one the closure captured.  A viewer-status goes *)
(* to every open socket, authenticated or not (pushViewerState).           *)
ViewerUrlReceived(c) ==
  /\ stage[c] \in {"open", "closing"}
  /\ viewerUrl' \in {Url, seen[c]}
  /\ UNCHANGED <<chainVars, authorized, ws, connected, authError, rendered, userVars>>

(* Variants of onclose: only the current socket clears the reference, only *)
(* it clears the flag, nothing is scheduled.                               *)
SocketClosesKeepsOther(c) ==
  /\ stage[c] \in {"connecting", "open", "closing"}
  /\ connected' = FALSE
  /\ ws' = IF ws = c THEN None ELSE ws
  /\ stage' = [stage EXCEPT ![c] = "timer"]
  /\ authError' \in {authError, TRUE}
  /\ authorized' = authorized \ {c}
  /\ UNCHANGED <<seen, fresh, viewerUrl, rendered, userVars>>

SocketClosesForGood(c) ==
  /\ stage[c] \in {"connecting", "open", "closing"}
  /\ connected' = FALSE
  /\ ws' = None
  /\ stage' = [stage EXCEPT ![c] = "free"]
  /\ authError' \in {authError, TRUE}
  /\ authorized' = authorized \ {c}
  /\ UNCHANGED <<seen, fresh, viewerUrl, rendered, userVars>>

(* onclose, after onerror or not, whichever side closed: whatever socket   *)
(* wsRef refers to is forgotten, and the chain waits to try again.         *)
SocketCloses(c) ==
  /\ stage[c] \in {"connecting", "open", "closing"}
  /\ connected' = FALSE
  /\ ws' = None
  /\ stage' = [stage EXCEPT ![c] = "timer"]
  /\ authError' \in {authError, TRUE}
  /\ authorized' = authorized \ {c}
  /\ UNCHANGED <<seen, fresh, viewerUrl, rendered, userVars>>

(* The reconnect timer: the chain ends if wsRef refers to an open socket.  *)
TimerFires(c) ==
  /\ stage[c] = "timer"
  /\ IF SocketUsable
     THEN stage' = [stage EXCEPT ![c] = "free"] /\ UNCHANGED authError
     ELSE stage' = [stage EXCEPT ![c] = "token"] /\ authError' = FALSE
  /\ UNCHANGED <<seen, fresh, authorized, ws, connected, viewerUrl, rendered, userVars>>

-----------------------------------------------------------------------------
(* The user *)

(* The cookie expires, or another tab signs out. *)
SignedOut ==
  /\ signedIn /\ signedIn' = FALSE
  /\ UNCHANGED <<chainVars, authorized, pageVars, at>>

(* What the page was is gone, its connections and timers with it. *)
Unloaded ==
  /\ stage' = [c \in Chains |-> "free"]
  /\ authorized' = {}
  /\ ws' = None /\ connected' = FALSE /\ authError' = FALSE
  /\ viewerUrl' = None /\ rendered' = "unmounted"
  /\ UNCHANGED <<seen, fresh>>

(* The dashboard is opened or loaded anew: without a valid cookie, the     *)
(* login page is what comes.                                               *)
OpenDashboard ==
  /\ Unloaded
  /\ at' = IF signedIn THEN "dashboard" ELSE "login"
  /\ UNCHANGED signedIn

(* The password was right; a refused one only shows a message. *)
LogIn ==
  /\ at = "login"
  /\ at' = "dashboard" /\ signedIn' = TRUE
  /\ UNCHANGED <<chainVars, authorized, pageVars>>

(* The sign-out form: the tab goes to the answer of /api/logout. *)
SignOut ==
  /\ at = "dashboard"
  /\ Unloaded
  /\ at' = "left" /\ signedIn' = FALSE

Next ==
  \/ \E c \in Chains : \/ Effect(c) \/ TokenIssued(c) \/ TokenRefused(c) \/ TokenExpires(c)
                       \/ SocketOpens(c) \/ GatewayCloses(c) \/ ViewerUrlReceived(c)
                       \/ SocketCloses(c) \/ TimerFires(c)
  \/ SignedOut \/ OpenDashboard \/ LogIn \/ SignOut

Spec == Init /\ [][Next]_vars

-----------------------------------------------------------------------------
(* Safety *)

(* A page without a usable socket either shows an error or still has       *)
(* something under way that ends in another attempt: no overlap of chains  *)
(* leaves it silently offline (onclose and the early return of             *)
(* openWebSocket).                                                         *)
NeverStranded ==
  at # "dashboard" \/ SocketUsable \/ authError
    \/ rendered # viewerUrl
    \/ \E c \in Chains : stage[c] \in {"token", "connecting", "closing", "timer"}

(* A page that can send commands runs its heartbeat interval: the flag that*)
(* starts it is up, although every onclose, of whatever socket, clears it. *)
UsableIsConnected == SocketUsable => connected

(* A page that says it is connected has a socket that is not closed yet,   *)
(* even if it is not the one wsRef refers to: the last onclose always      *)
(* clears the flag.                                                        *)
ConnectedHasSocket ==
  connected => \E c \in Chains : stage[c] \in {"open", "closing"}

(* The connected flag, which every onclose clears, of whatever socket: it  *)
(* is up while the page can send commands, and down once no chain has a    *)
(* socket left.  In between it may be up with wsRef null, for the socket of*)
(* another chain.                                                          *)
ConnectedTruthful == UsableIsConnected /\ ConnectedHasSocket
=============================================================================
