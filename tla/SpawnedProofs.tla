--------------------------- MODULE SpawnedProofs ---------------------------
(***************************************************************************)
(* The viewer that is offered, the servers that run and the current bot    *)
(* agree for any number of bots, as long as the waits of the worker do not *)
(* overlap, whether the old viewers close or not.                          *)
(***************************************************************************)
EXTENDS Spawned, TLAPS

(* The current bot has not been told to quit. *)
CurrentOpen == bot # None => session[bot] = "open"

(* What the waits give while they do not overlap: one session at a time,   *)
OneSession ==
  /\ \A b \in Bots : session[b] = "open" => bot = b
  /\ bot # None => \A b \in Bots \ {bot} : session[b] = "unused"

(* a spawn listener waits for the current bot's viewer alone, with the old *)
(* server in its hands,                                                    *)
ListenerIsCurrent ==
  \A b \in Bots : waiting[b] # "no" =>
    /\ bot = b /\ target[b] = b /\ b \in spawned
    /\ ~ready
    /\ waiting[b] = "stop" => closes[b] = active
    /\ waiting[b] = "import" => servers \subseteq unclosed

(* no server shows a bot that has not spawned, and none is offered while   *)
(* there is no bot at all.                                                 *)
ShownHasSpawned == \A d \in Bots : bot # None /\ views[d] = bot => bot \in spawned

HiddenBetween == bot = None /\ (\A b \in Bots : session[b] = "unused") => ~ready

Orderly ==
  /\ OneSession /\ ListenerIsCurrent /\ ShownHasSpawned /\ HiddenBetween
  /\ servers \subseteq {active} \cup unclosed
  /\ bot # None => (ready <=> active # None /\ views[active] = bot)

SpawnedInv == TypeOK /\ CurrentOpen /\ (orderly => Orderly)

-----------------------------------------------------------------------------
(* Types.  The flags apart from the rest: no prover handles both well.     *)
FlagTypes ==
  /\ loaded \in BOOLEAN /\ ready \in BOOLEAN
  /\ account \in BOOLEAN /\ orderly \in BOOLEAN

BotTypes ==
  /\ bot \in Bots \cup {None}
  /\ session \in [Bots -> {"unused", "open", "closing"}]
  /\ password \subseteq Bots /\ rendering \subseteq Bots /\ spawned \subseteq Bots
  /\ keepAlive \in Bots \cup {None}
  /\ loginDue \subseteq Bots /\ againDue \subseteq Bots
  /\ sent \subseteq Bots /\ authed \subseteq Bots

ViewerTypes ==
  /\ waiting \in [Bots -> {"no", "stop", "import"}]
  /\ closes \in [Bots -> Bots \cup {None}]
  /\ target \in [Bots -> Bots \cup {None}]
  /\ servers \subseteq Bots /\ unclosed \subseteq Bots
  /\ views \in [Bots -> Bots \cup {None}]
  /\ active \in Bots \cup {None}

LEMMA TypeSplit == TypeOK <=> FlagTypes /\ BotTypes /\ ViewerTypes
  BY DEF TypeOK, FlagTypes, BotTypes, ViewerTypes

LEMMA FlagStep ==
  ASSUME FlagTypes, [Next]_vars
  PROVE  FlagTypes'
<1> USE DEF FlagTypes
<1>1. CASE Connect
  BY <1>1 DEF Connect, viewerVars, authVars
<1>2. CASE Destroy
  BY <1>2 DEF Destroy, DestroyCurrent, viewerVars, authVars
<1>3. CASE Imported
  BY <1>3 DEF Imported, authVars
<1>4. ASSUME NEW b \in Bots, NEW pw \in BOOLEAN, NEW view \in BOOLEAN, CreateBot(b, pw, view)
      PROVE  FlagTypes'
  BY <1>4 DEF CreateBot, viewerVars, authVars
<1>5. ASSUME NEW b \in Bots, Destroyed(b) \/ OrphanEnds(b)
      PROVE  FlagTypes'
  BY <1>5 DEF Destroyed, OrphanEnds, Gone, viewerVars
<1>6. ASSUME NEW b \in Bots, Spawn(b)
      PROVE  FlagTypes'
  BY <1>6 DEF Spawn, StartViewer, viewerVars
<1>7. ASSUME NEW b \in Bots, ViewerStopped(b) \/ ViewerStarts(b)
      PROVE  FlagTypes'
  BY <1>7 DEF ViewerStopped, ViewerStarts, authVars
<1>8. ASSUME NEW b \in Bots, LoginTimer(b) \/ Prompt(b) \/ AgainTimer(b)
      PROVE  FlagTypes'
  BY <1>8 DEF LoginTimer, Prompt, SendRegister, AgainTimer, viewerVars
<1>9. CASE UNCHANGED vars
  BY <1>9 DEF vars, viewerVars, authVars
<1> QED
  BY <1>1, <1>2, <1>3, <1>4, <1>5, <1>6, <1>7, <1>8, <1>9 DEF Next

LEMMA BotTypesStep ==
  ASSUME BotTypes, [Next]_vars
  PROVE  BotTypes'
<1> USE DEF BotTypes
<1>1. CASE Connect
  BY <1>1 DEF Connect, botVars, listenerVars, authVars
<1>2. CASE Destroy
  BY <1>2 DEF Destroy, DestroyCurrent, listenerVars, authVars
<1>3. CASE Imported
  BY <1>3 DEF Imported, botVars, listenerVars, authVars
<1>4. ASSUME NEW b \in Bots, NEW pw \in BOOLEAN, NEW view \in BOOLEAN, CreateBot(b, pw, view)
      PROVE  BotTypes'
  BY <1>4 DEF CreateBot, authVars
<1>5. ASSUME NEW b \in Bots, Destroyed(b) \/ OrphanEnds(b)
      PROVE  BotTypes'
  BY <1>5 DEF Destroyed, OrphanEnds, Gone
<1>6. ASSUME NEW b \in Bots, Spawn(b)
      PROVE  BotTypes'
  BY <1>6 DEF Spawn, StartViewer, AfterViewer
<1>7. ASSUME NEW b \in Bots, ViewerStopped(b) \/ ViewerStarts(b)
      PROVE  BotTypes'
  BY <1>7 DEF ViewerStopped, ViewerStarts, AfterViewer, botVars, authVars
<1>8. ASSUME NEW b \in Bots, LoginTimer(b) \/ Prompt(b) \/ AgainTimer(b)
      PROVE  BotTypes'
  BY <1>8 DEF LoginTimer, Prompt, AgainTimer, SendLogin, SendRegister, botVars
<1>9. CASE UNCHANGED vars
  BY <1>9 DEF vars, botVars, listenerVars, authVars
<1> QED
  BY <1>1, <1>2, <1>3, <1>4, <1>5, <1>6, <1>7, <1>8, <1>9 DEF Next

LEMMA ViewerTypesStep ==
  ASSUME ViewerTypes, BotTypes, [Next]_vars
  PROVE  ViewerTypes'
<1> USE DEF ViewerTypes
<1>1. CASE Connect \/ Destroy \/ Imported
  BY <1>1 DEF Connect, Destroy, Imported, listenerVars, viewerVars
<1>2. ASSUME NEW b \in Bots,
             \/ \E pw, view \in BOOLEAN : CreateBot(b, pw, view)
             \/ Destroyed(b) \/ OrphanEnds(b)
             \/ LoginTimer(b) \/ Prompt(b) \/ AgainTimer(b)
      PROVE  ViewerTypes'
  BY <1>2 DEF CreateBot, Destroyed, OrphanEnds, LoginTimer, Prompt, AgainTimer,
              listenerVars, viewerVars
<1>3. ASSUME NEW b \in Bots, Spawn(b)
      PROVE  ViewerTypes'
  BY <1>3 DEF Spawn, StartViewer, AfterViewer, viewerVars, BotTypes
<1>4. ASSUME NEW b \in Bots, ViewerStopped(b)
      PROVE  ViewerTypes'
  BY <1>4 DEF ViewerStopped
<1>5. ASSUME NEW b \in Bots, ViewerStarts(b)
      PROVE  ViewerTypes'
  BY <1>5 DEF ViewerStarts
<1>6. CASE UNCHANGED vars
  BY <1>6 DEF vars, listenerVars, viewerVars
<1> QED
  BY <1>1, <1>2, <1>3, <1>4, <1>5, <1>6 DEF Next

LEMMA TypeStep ==
  ASSUME TypeOK, [Next]_vars
  PROVE  TypeOK'
<1>1. FlagTypes /\ BotTypes /\ ViewerTypes
  BY TypeSplit
<1>2. FlagTypes' /\ BotTypes' /\ ViewerTypes'
  BY <1>1, FlagStep, BotTypesStep, ViewerTypesStep
<1> QED
  BY <1>2 DEF TypeOK, FlagTypes, BotTypes, ViewerTypes

-----------------------------------------------------------------------------
(* The current bot *)

LEMMA CurrentStep ==
  ASSUME TypeOK, CurrentOpen, [Next]_vars
  PROVE  CurrentOpen'
<1> USE SpawnedAssumption DEF TypeOK, CurrentOpen
<1>1. CASE Destroy
  BY <1>1 DEF Destroy, DestroyCurrent
<1>2. ASSUME NEW b \in Bots, NEW pw \in BOOLEAN, NEW view \in BOOLEAN, CreateBot(b, pw, view)
      PROVE  CurrentOpen'
  BY <1>2 DEF CreateBot
<1>3. ASSUME NEW b \in Bots, Destroyed(b)
      PROVE  CurrentOpen'
  BY <1>3 DEF Destroyed
<1>4. ASSUME NEW b \in Bots, OrphanEnds(b)
      PROVE  CurrentOpen'
  BY <1>4 DEF OrphanEnds
<1>5. CASE UNCHANGED <<bot, session>>
  BY <1>5
<1>6. CASE \/ Connect \/ Imported \/ UNCHANGED vars
           \/ \E b \in Bots : \/ Spawn(b) \/ ViewerStopped(b) \/ ViewerStarts(b)
                              \/ LoginTimer(b) \/ Prompt(b) \/ AgainTimer(b)
  <2>1. UNCHANGED <<bot, session>>
    BY <1>6 DEF Connect, Imported, Spawn, ViewerStopped, ViewerStarts, LoginTimer, Prompt,
                AgainTimer, vars, botVars
  <2> QED
    BY <2>1, <1>5
<1> QED
  BY <1>1, <1>2, <1>3, <1>4, <1>6 DEF Next

-----------------------------------------------------------------------------
(* The steps that touch the viewer, the loop or the current bot *)

(* A new bot finds no session, no listener and no viewer on offer. *)
LEMMA CreateBotOrderly ==
  ASSUME SpawnedInv, NEW b \in Bots, NEW pw, NEW view, CreateBot(b, pw, view), orderly'
  PROVE  Orderly'
<1>1. orderly /\ \A d \in Bots : session[d] = "unused"
  <2>1. orderly' = (orderly /\ \A d \in Bots : session[d] = "unused")
    BY DEF CreateBot
  <2> QED
    BY <2>1, Zenon
<1>2. TypeOK /\ CurrentOpen /\ Orderly
  BY <1>1 DEF SpawnedInv
<1>3. bot = None
  BY <1>1, <1>2 DEF CurrentOpen, TypeOK
<1>4. ~ready /\ \A d \in Bots : waiting[d] = "no"
  BY <1>1, <1>2, <1>3, SpawnedAssumption DEF Orderly, HiddenBetween, ListenerIsCurrent
<1>5. /\ bot' = b /\ b # None
      /\ session' = [session EXCEPT ![b] = "open"]
      /\ UNCHANGED <<waiting, servers, views, unclosed, active, ready>>
      /\ \A d \in Bots : views[d] # b
  BY SpawnedAssumption DEF CreateBot, Unused, listenerVars, viewerVars
<1>6. OneSession'
  BY <1>1, <1>2, <1>5 DEF OneSession, TypeOK
<1>7. ListenerIsCurrent'
  BY <1>4, <1>5 DEF ListenerIsCurrent
<1>8. ShownHasSpawned' /\ HiddenBetween'
  BY <1>5 DEF ShownHasSpawned, HiddenBetween
<1>9. ~(active' # None /\ views'[active'] = bot')
  BY <1>2, <1>5 DEF TypeOK
<1> QED
  BY <1>2, <1>4, <1>5, <1>6, <1>7, <1>8, <1>9 DEF Orderly

(* destroyBot() before its wait: no listener of the bot is under way. *)
LEMMA DestroyOrderly ==
  ASSUME SpawnedInv, Destroy, orderly'
  PROVE  Orderly'
<1>1. orderly /\ \A b \in Bots : waiting[b] = "no"
  <2>1. orderly' = (orderly /\ \A b \in Bots : waiting[b] = "no")
    BY DEF Destroy
  <2> QED
    BY <2>1, Zenon
<1>2. TypeOK /\ CurrentOpen /\ Orderly
  BY <1>1 DEF SpawnedInv
<1>3. /\ bot' = None
      /\ UNCHANGED <<waiting, servers, views, unclosed, active>>
  BY DEF Destroy, DestroyCurrent, listenerVars, viewerVars
<1>4. \A b \in Bots : session'[b] # "open"
  <2>1. session' = IF bot = None THEN session ELSE [session EXCEPT ![bot] = "closing"]
    BY DEF Destroy, DestroyCurrent
  <2> QED
    BY <2>1, <1>2, SpawnedAssumption DEF Orderly, OneSession, TypeOK
<1>5. HiddenBetween'
  <2>1. CASE bot = None
    <3>1. ready' = FALSE
      BY <2>1 DEF Destroy, DestroyCurrent
    <3> QED
      BY <3>1 DEF HiddenBetween
  <2>2. CASE bot # None
    <3>1. bot \in Bots /\ session'[bot] = "closing"
      BY <2>2, <1>2 DEF Destroy, DestroyCurrent, TypeOK
    <3> QED
      BY <3>1 DEF HiddenBetween
  <2> QED
    BY <2>1, <2>2
<1>6. ListenerIsCurrent'
  BY <1>1, <1>3 DEF ListenerIsCurrent
<1>7. OneSession' /\ ShownHasSpawned'
  BY <1>3, <1>4 DEF OneSession, ShownHasSpawned
<1> QED
  BY <1>2, <1>3, <1>5, <1>6, <1>7 DEF Orderly

(* destroyBot() after its wait: there is no other bot whose viewer it      *)
(* could hide.                                                             *)
LEMMA DestroyedOrderly ==
  ASSUME SpawnedInv, orderly, NEW b \in Bots, Destroyed(b)
  PROVE  Orderly'
<1>1. TypeOK /\ CurrentOpen /\ Orderly
  BY DEF SpawnedInv
<1>2. /\ session[b] = "closing"
      /\ session' = [session EXCEPT ![b] = "unused"]
      /\ ready' = FALSE
      /\ UNCHANGED <<bot, waiting, target, closes, servers, views, unclosed, active>>
  BY DEF Destroyed, listenerVars, viewerVars
<1>3. bot = None
  BY <1>1, <1>2 DEF CurrentOpen, Orderly, OneSession
<1>4. OneSession'
  BY <1>1, <1>2, <1>3 DEF Orderly, OneSession, TypeOK
<1>5. ListenerIsCurrent'
  BY <1>1, <1>2, <1>3, SpawnedAssumption DEF Orderly, ListenerIsCurrent
<1>6. ShownHasSpawned' /\ HiddenBetween'
  BY <1>2, <1>3 DEF ShownHasSpawned, HiddenBetween
<1> QED
  BY <1>1, <1>2, <1>3, <1>4, <1>5, <1>6 DEF Orderly

(* The spawn listener is the current bot's: it starts a viewer for its own *)
(* bot, or the loop at once, and no viewer shows the bot yet.              *)
LEMMA SpawnOrderly ==
  ASSUME SpawnedInv, orderly, NEW b \in Bots, Spawn(b)
  PROVE  Orderly'
<1>1. TypeOK /\ CurrentOpen /\ Orderly
  BY DEF SpawnedInv
<1>2. /\ session[b] # "unused" /\ b \notin spawned
      /\ spawned' = spawned \cup {b}
      /\ UNCHANGED <<bot, session, servers, views, unclosed, active>>
  BY DEF Spawn, viewerVars
<1>3. bot # None => bot = b
  BY <1>1, <1>2 DEF Orderly, OneSession
<1>4. bot # None => ~(active # None /\ views[active] = bot)
  BY <1>1, <1>2, <1>3 DEF Orderly, ShownHasSpawned, TypeOK
<1>5. bot # None => ~ready
  BY <1>1, <1>4 DEF Orderly
<1>6. OneSession' /\ ShownHasSpawned' /\ HiddenBetween'
  BY <1>1, <1>2 DEF Orderly, OneSession, ShownHasSpawned, HiddenBetween
<1>7. CASE b \in rendering /\ bot # None
  <2>1. /\ target' = [target EXCEPT ![b] = bot]
        /\ waiting' = [waiting EXCEPT ![b] = IF active = None THEN "import" ELSE "stop"]
        /\ closes' = [closes EXCEPT ![b] = active]
        /\ UNCHANGED ready
    BY <1>7 DEF Spawn, StartViewer
  <2>2. \A d \in Bots \ {b} : waiting'[d] = "no"
    BY <1>1, <1>3, <1>7, <2>1 DEF Orderly, ListenerIsCurrent, TypeOK
  <2>3. waiting'[b] = "stop" => closes'[b] = active
    BY <1>1, <2>1 DEF TypeOK
  <2>4. waiting'[b] = "import" => servers \subseteq unclosed
    BY <1>1, <2>1, SpawnedAssumption DEF Orderly, TypeOK
  <2>5. bot' = b /\ target'[b] = b /\ b \in spawned' /\ ~ready'
    BY <1>1, <1>2, <1>3, <1>5, <1>7, <2>1 DEF TypeOK
  <2>6. ListenerIsCurrent'
    BY <1>2, <2>2, <2>3, <2>4, <2>5 DEF ListenerIsCurrent
  <2> QED
    BY <1>1, <1>2, <1>4, <1>6, <2>1, <2>5, <2>6 DEF Orderly
<1>8. CASE ~(b \in rendering /\ bot # None)
  <2>1. /\ ready' = (ready /\ b \in rendering)
        /\ UNCHANGED <<waiting, closes, target>>
    BY <1>8 DEF Spawn, AfterViewer
  <2>2. ready' => ready
    BY <2>1, Zenon
  <2>3. ListenerIsCurrent'
    BY <1>1, <1>2, <2>1, <2>2 DEF Orderly, ListenerIsCurrent
  <2> QED
    BY <1>1, <1>2, <1>3, <1>4, <1>5, <1>6, <2>1, <2>2, <2>3 DEF Orderly
<1> QED
  BY <1>7, <1>8

(* stop() closes the server that start() found, or gives it up.            *)
LEMMA StoppedOrderly ==
  ASSUME SpawnedInv, orderly, NEW b \in Bots, ViewerStopped(b)
  PROVE  Orderly'
<1>1. TypeOK /\ CurrentOpen /\ Orderly
  BY DEF SpawnedInv
<1>2. /\ waiting[b] = "stop"
      /\ \/ /\ servers' = servers \ {closes[b]}
            /\ views' = [views EXCEPT ![closes[b]] = None]
            /\ unclosed' = unclosed \ {closes[b]}
         \/ /\ unclosed' = unclosed \cup (servers \cap {closes[b]})
            /\ UNCHANGED <<servers, views>>
      /\ active' = None
      /\ waiting' = [waiting EXCEPT ![b] = "import"]
      /\ closes' = [closes EXCEPT ![b] = None]
      /\ UNCHANGED <<bot, session, spawned, target, ready>>
  BY DEF ViewerStopped, botVars, authVars
<1>3. bot = b /\ target[b] = b /\ b \in spawned /\ ~ready /\ closes[b] = active
  BY <1>1, <1>2 DEF Orderly, ListenerIsCurrent
<1>4. servers' \subseteq unclosed'
  BY <1>1, <1>2, <1>3 DEF Orderly
<1>5. \A d \in Bots \ {b} : waiting'[d] = "no"
  BY <1>1, <1>2, <1>3 DEF Orderly, ListenerIsCurrent, TypeOK
<1>6. ListenerIsCurrent'
  BY <1>1, <1>2, <1>3, <1>4, <1>5 DEF ListenerIsCurrent, TypeOK
<1>7. OneSession' /\ ShownHasSpawned' /\ HiddenBetween'
  BY <1>1, <1>2, <1>3 DEF Orderly, OneSession, ShownHasSpawned, HiddenBetween
<1> QED
  BY <1>2, <1>3, <1>4, <1>6, <1>7 DEF Orderly

(* The viewer that starts is the only one that stop() could close and shows*)
(* the current bot.                                                        *)
LEMMA StartsOrderly ==
  ASSUME SpawnedInv, orderly, NEW b \in Bots, ViewerStarts(b)
  PROVE  Orderly'
<1>1. TypeOK /\ CurrentOpen /\ Orderly
  BY DEF SpawnedInv
<1>2. /\ waiting[b] = "import"
      /\ waiting' = [waiting EXCEPT ![b] = "no"]
      /\ target' = [target EXCEPT ![b] = None]
      /\ UNCHANGED <<bot, session, spawned, closes, unclosed>>
  BY DEF ViewerStarts, botVars
<1>3. bot = b /\ b # None /\ target[b] = b /\ b \in spawned /\ ~ready
      /\ servers \subseteq unclosed
  BY <1>1, <1>2, SpawnedAssumption DEF Orderly, ListenerIsCurrent
<1>4. \A d \in Bots : waiting'[d] = "no"
  BY <1>1, <1>2, <1>3 DEF Orderly, ListenerIsCurrent, TypeOK
<1>5. ListenerIsCurrent'
  BY <1>4 DEF ListenerIsCurrent
<1>6. OneSession' /\ ShownHasSpawned' /\ HiddenBetween'
  BY <1>1, <1>2, <1>3 DEF Orderly, OneSession, ShownHasSpawned, HiddenBetween
<1>7. CASE /\ servers' = servers \cup {b}
           /\ views' = [views EXCEPT ![b] = target[b]]
           /\ active' = b
           /\ ready' = TRUE
  BY <1>1, <1>2, <1>3, <1>5, <1>6, <1>7 DEF Orderly, TypeOK
<1>8. CASE UNCHANGED <<servers, views, active, ready>>
  BY <1>1, <1>2, <1>3, <1>5, <1>6, <1>8 DEF Orderly
<1> QED
  BY <1>7, <1>8 DEF ViewerStarts

-----------------------------------------------------------------------------
(* The other steps: connect() without a bot hides the viewer, the login    *)
(* does not concern it, and a bot that is not the current one cannot end   *)
(* while the waits do not overlap.                                         *)
LEMMA OthersOrderly ==
  ASSUME SpawnedInv, orderly,
         \/ Connect \/ Imported \/ UNCHANGED vars
         \/ \E b \in Bots : OrphanEnds(b) \/ LoginTimer(b) \/ Prompt(b) \/ AgainTimer(b)
  PROVE  Orderly'
<1>1. TypeOK /\ CurrentOpen /\ Orderly
  BY DEF SpawnedInv
<1>2. CASE Connect
  <2>1. /\ bot = None /\ ready' = FALSE
        /\ UNCHANGED <<bot, session, spawned, waiting, target, closes, servers, views, unclosed,
                     active>>
    BY <1>2 DEF Connect, botVars, listenerVars, viewerVars
  <2>2. OneSession' /\ ListenerIsCurrent' /\ ShownHasSpawned' /\ HiddenBetween'
    BY <1>1, <2>1 DEF Orderly, OneSession, ListenerIsCurrent, ShownHasSpawned, HiddenBetween
  <2> QED
    BY <1>1, <2>1, <2>2 DEF Orderly
<1>3. ASSUME NEW b \in Bots, OrphanEnds(b)  PROVE FALSE
  BY <1>1, <1>3 DEF OrphanEnds, Orderly, OneSession
<1>4. CASE \/ Imported \/ UNCHANGED vars
           \/ \E b \in Bots : LoginTimer(b) \/ Prompt(b) \/ AgainTimer(b)
  <2>1. UNCHANGED <<bot, session, spawned, waiting, target, closes, servers, views, unclosed,
                  active, ready>>
    BY <1>4 DEF Imported, LoginTimer, Prompt, AgainTimer, vars, botVars, listenerVars, viewerVars
  <2>2. OneSession' /\ ListenerIsCurrent' /\ ShownHasSpawned' /\ HiddenBetween'
    BY <1>1, <2>1 DEF Orderly, OneSession, ListenerIsCurrent, ShownHasSpawned, HiddenBetween
  <2> QED
    BY <1>1, <2>1, <2>2 DEF Orderly
<1> QED
  BY <1>2, <1>3, <1>4

(* Overlapping waits stay on record, except that the two steps that record *)
(* them have their own lemmas.                                             *)
LEMMA OrderlyStays ==
  ASSUME \/ Connect \/ Imported \/ UNCHANGED vars
         \/ \E b \in Bots : \/ Destroyed(b) \/ OrphanEnds(b)
                            \/ Spawn(b) \/ ViewerStopped(b) \/ ViewerStarts(b)
                            \/ LoginTimer(b) \/ Prompt(b) \/ AgainTimer(b)
  PROVE  orderly' = orderly
  BY DEF Connect, Imported, Destroyed, OrphanEnds, Spawn, ViewerStopped, ViewerStarts,
         LoginTimer, Prompt, AgainTimer, vars

(* The inductive invariant: ReadyShowsCurrent and OneViewer with the       *)
(* sessions and listeners they rest on.                                    *)
THEOREM SpawnedInvariant == Spec => []SpawnedInv
<1>1. Init => SpawnedInv
  <2> SUFFICES ASSUME Init  PROVE SpawnedInv
    OBVIOUS
  <2>1. FlagTypes
    BY DEF Init, FlagTypes
  <2>2. BotTypes /\ ViewerTypes
    BY DEF Init, BotTypes, ViewerTypes
  <2>3. CurrentOpen /\ Orderly
    BY DEF Init, CurrentOpen, Orderly, OneSession, ListenerIsCurrent, ShownHasSpawned,
           HiddenBetween
  <2> QED
    BY <2>1, <2>2, <2>3, TypeSplit DEF SpawnedInv
<1>2. SpawnedInv /\ [Next]_vars => SpawnedInv'
  <2> SUFFICES ASSUME SpawnedInv, [Next]_vars  PROVE SpawnedInv'
    OBVIOUS
  <2>1. TypeOK' /\ CurrentOpen'
    BY TypeStep, CurrentStep DEF SpawnedInv
  <2>2. ASSUME orderly'  PROVE Orderly'
    <3>1. ASSUME NEW b \in Bots, NEW pw \in BOOLEAN, NEW view \in BOOLEAN, CreateBot(b, pw, view)
          PROVE  Orderly'
      BY <2>2, <3>1, CreateBotOrderly
    <3>2. CASE Destroy
      BY <2>2, <3>2, DestroyOrderly
    <3>3. ASSUME NEW b \in Bots, Destroyed(b) \/ Spawn(b) \/ ViewerStopped(b) \/ ViewerStarts(b)
          PROVE  Orderly'
      <4>1. orderly
        BY <2>2, <3>3, OrderlyStays
      <4> QED
        BY <3>3, <4>1, DestroyedOrderly, SpawnOrderly, StoppedOrderly, StartsOrderly
    <3>4. CASE \/ Connect \/ Imported \/ UNCHANGED vars
               \/ \E b \in Bots : OrphanEnds(b) \/ LoginTimer(b) \/ Prompt(b) \/ AgainTimer(b)
      <4>1. orderly
        BY <2>2, <3>4, OrderlyStays
      <4> QED
        BY <3>4, <4>1, OthersOrderly
    <3> QED
      BY <3>1, <3>2, <3>3, <3>4 DEF Next
  <2> QED
    BY <2>1, <2>2 DEF SpawnedInv
<1> QED
  BY <1>1, <1>2, PTL DEF Spec

(* Type correctness of what follows a spawn. *)
THEOREM TypeCorrect == Spec => []TypeOK
<1>1. SpawnedInv => TypeOK
  BY DEF SpawnedInv
<1> QED
  BY <1>1, SpawnedInvariant, PTL

(* The page is offered the viewer exactly while it shows the current bot   *)
(* (patchViewer in connect, startViewer and destroyBot).                   *)
THEOREM ViewerIsCurrent == Spec => []ReadyShowsCurrent
<1>1. SpawnedInv => ReadyShowsCurrent
  BY DEF SpawnedInv, Orderly, ReadyShowsCurrent
<1> QED
  BY <1>1, SpawnedInvariant, PTL

(* No viewer server outlives the reference to it, unless its close() failed*)
(* or does not exist (start, stop).                                        *)
THEOREM NoViewerLeft == Spec => []OneViewer
<1>1. SpawnedInv => OneViewer
  BY DEF SpawnedInv, Orderly, OneViewer
<1> QED
  BY <1>1, SpawnedInvariant, PTL
=============================================================================
