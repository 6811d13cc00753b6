-------------------------- MODULE NavigationProofs --------------------------
(***************************************************************************)
(* One goal at a time, and a panel that tells the truth about it, for any  *)
(* number of commands.                                                     *)
(***************************************************************************)
EXTENDS Navigation, TLAPS

(* While goals do not overlap, a goal in import is the only one there is,  *)
(* and the panel cannot show a finished one ...                            *)
ImportAlone ==
  importing # <<>> =>
    /\ Len(importing) = 1
    /\ current = None /\ intervals = {}
    /\ \A n \in Goals : motion[n] \notin Moving
    /\ status \in {"CALCULATING", "IDLE"}

(* ... and while a goal stops, or walks out of the controller's sight, it  *)
(* has no successor yet.                                                   *)
StopsAlone ==
  \A n \in Goals :
    motion[n] = "stopping" \/ (motion[n] = "walking" /\ n \in forgotten) => current = None

(* What a goto on CALCULATING rests on: the last goal in import is a goto, *)
(* whose failure would be shown, unlike that of a follow; or the current   *)
(* goal has its listeners or a bot that has ended.                         *)
GotoBacked ==
  mode = "goto" /\ status = "CALCULATING" =>
    \/ importing # <<>> /\ kind[importing[Len(importing)]] = "goto"
    \/ /\ importing = <<>> /\ current # None
       /\ motion[current] # "none"
       /\ motion[current] \in Moving => current \notin deaf

NavInv ==
  /\ TypeOK
  /\ GotoBacked
  /\ sequential => ImportAlone /\ StopsAlone
  /\ OneGoal
  /\ IntervalTracked
  /\ StatusTruthful

-----------------------------------------------------------------------------
LEMMA InitInv == Init => NavInv
<1> SUFFICES ASSUME Init PROVE NavInv
  OBVIOUS
<1>1. TypeOK
  <2>1. /\ importing \in Seq(Goals)
        /\ kind \in [Goals -> {"goto", "follow"}]
        /\ motion \in [Goals -> {"none", "walking", "stopping", "dead"}]
    BY DEF Init
  <2> QED BY <2>1 DEF Init, TypeOK
<1>2. \A n \in Goals : motion[n] = "none"
  BY DEF Init
<1> QED BY <1>1, <1>2 DEF Init, NavInv, GotoBacked, ImportAlone, StopsAlone, OneGoal,
                          IntervalTracked, StatusTruthful

(* stop() of the current goal stops no other. *)
LEMMA HaltedEffect ==
  ASSUME TypeOK, NEW f \in Halted
  PROVE  /\ f \in [Goals -> {"none", "walking", "stopping", "dead"}]
         /\ \A n \in Goals : /\ f[n] = "walking" => motion[n] = "walking"
                             /\ f[n] = "stopping" => motion[n] = "stopping" \/ n = current
                             /\ n # current => f[n] = motion[n]
<1>1. PICK m \in {"none", "stopping", "walking"} :
        f = [n \in Goals |-> IF n = current /\ motion[n] = "walking" THEN m ELSE motion[n]]
  BY DEF Halted
<1>2. f \in [Goals -> {"none", "walking", "stopping", "dead"}]
  BY <1>1 DEF TypeOK
<1>3. \A n \in Goals : f[n] = IF n = current /\ motion[n] = "walking" THEN m ELSE motion[n]
  BY <1>1
<1> QED BY <1>2, <1>3

(* Stopping the current goal (cancel): the one that walks on is forgotten. *)
LEMMA StopCurrentEffect ==
  ASSUME TypeOK, StopCurrent
  PROVE  /\ current' = None /\ followInterval' = None
         /\ intervals' = intervals \ {followInterval}
         /\ motion' \in [Goals -> {"none", "walking", "stopping", "dead"}]
         /\ forgotten' \subseteq Goals /\ forgotten \subseteq forgotten'
         /\ current = None => forgotten' = forgotten
         /\ \A n \in Goals : /\ motion'[n] = "walking" => motion[n] = "walking"
                             /\ motion'[n] = "walking" /\ n = current => n \in forgotten'
                             /\ motion'[n] = "stopping" => motion[n] = "stopping" \/ n = current
                             /\ n # current => motion'[n] = motion[n]
<1>1. motion' \in Halted
  BY DEF StopCurrent, StopMotion
<1>2. forgotten' = forgotten \cup {n \in Goals : n = current /\ motion'[n] = "walking"}
  BY DEF StopCurrent, StopMotion, Forget
<1>3. current = None => forgotten' = forgotten
  BY <1>2, NavigationAssumption
<1>4. forgotten' \subseteq Goals /\ forgotten \subseteq forgotten'
  BY <1>2 DEF TypeOK
<1>5. \A n \in Goals : motion'[n] = "walking" /\ n = current => n \in forgotten'
  BY <1>2
<1> QED BY <1>1, <1>3, <1>4, <1>5, HaltedEffect DEF StopCurrent, ClearFollow

(* After it, what walks is forgotten and no interval runs, if goals do not *)
(* overlap.                                                                *)
LEMMA StopCurrentStops ==
  ASSUME NavInv, StopCurrent, sequential
  PROVE  intervals' = {} /\ \A n \in Goals : motion'[n] = "walking" => n \in forgotten'
<1>1. TypeOK /\ OneGoal /\ IntervalTracked
  BY DEF NavInv
<1>2. ASSUME NEW n \in Goals, motion'[n] = "walking" PROVE n \in forgotten'
  BY <1>1, <1>2, StopCurrentEffect DEF OneGoal
<1> QED BY <1>1, <1>2, StopCurrentEffect DEF IntervalTracked

(* cancel() keeps the invariant, whoever calls it. *)
LEMMA CancelKeeps ==
  ASSUME NavInv, Cancel, UNCHANGED <<bot, importVars, listenVars, resetting, sequential>>
  PROVE  NavInv'
<1>1. StopCurrent
  BY DEF Cancel
<1>2. CASE current = None /\ UNCHANGED shownVars
  <2>1. TypeOK'
    BY <1>1, <1>2, StopCurrentEffect DEF NavInv, TypeOK, importVars, listenVars, shownVars
  <2>2. GotoBacked'
    BY <1>1, <1>2, StopCurrentEffect DEF NavInv, GotoBacked, importVars, shownVars
  <2>3. \A n \in Goals : motion'[n] = motion[n]
    BY <1>1, <1>2, NavigationAssumption, StopCurrentEffect DEF NavInv
  <2>4. sequential' => ImportAlone' /\ StopsAlone'
    BY <1>1, <1>2, <2>3, StopCurrentEffect, StopCurrentStops
       DEF NavInv, ImportAlone, StopsAlone, importVars, shownVars
  <2>5. OneGoal' /\ IntervalTracked' /\ StatusTruthful'
    BY <1>1, StopCurrentStops DEF OneGoal, IntervalTracked, StatusTruthful
  <2> QED BY <2>1, <2>2, <2>4, <2>5 DEF NavInv
<1>3. CASE current # None /\ status' = "CANCELLED" /\ mode' = "idle"
  <2>1. TypeOK'
    BY <1>1, <1>3, StopCurrentEffect DEF NavInv, TypeOK, importVars, listenVars
  <2>2. GotoBacked'
    BY <1>3 DEF GotoBacked
  <2>3. sequential' => ImportAlone' /\ StopsAlone'
    BY <1>1, <1>3, StopCurrentEffect DEF NavInv, ImportAlone, StopsAlone, importVars, Moving
  <2>4. OneGoal' /\ IntervalTracked' /\ StatusTruthful'
    BY <1>1, StopCurrentStops DEF OneGoal, IntervalTracked, StatusTruthful
  <2> QED BY <2>1, <2>2, <2>3, <2>4 DEF NavInv
<1> QED BY <1>2, <1>3 DEF Cancel

(* goto() and followPlayer() up to their import keep it. *)
LEMMA AskKeeps ==
  ASSUME NavInv, NEW n \in Goals, NEW k \in {"goto", "follow"}, Ask(n, k)
  PROVE  NavInv'
<1>1. StopCurrent /\ status' = "CALCULATING" /\ mode' = k
  BY DEF Ask
<1>2. /\ importing' \in Seq(Goals) /\ importing' # <<>>
      /\ Len(importing') = Len(importing) + 1 /\ importing'[Len(importing')] = n
  BY DEF Ask, NavInv, TypeOK
<1>3. kind' \in [Goals -> {"goto", "follow"}] /\ kind'[n] = k
  BY DEF Ask, NavInv, TypeOK
<1>4. TypeOK'
  BY <1>1, <1>2, <1>3, StopCurrentEffect DEF Ask, NavInv, TypeOK
<1>5. GotoBacked'
  BY <1>1, <1>2, <1>3 DEF GotoBacked
<1>6. ASSUME sequential'
      PROVE  /\ sequential /\ importing = <<>> /\ current' = None /\ intervals' = {}
             /\ \A m \in Goals : motion'[m] \notin Moving
  <2>1. sequential /\ importing = <<>> /\ \A m \in Goals : motion'[m] \notin Moving
    BY <1>6 DEF Ask
  <2>2. intervals' = {}
    BY <1>1, <2>1, StopCurrentStops
  <2> QED BY <1>1, <2>1, <2>2 DEF Moving, StopCurrent
<1>7. sequential' => ImportAlone' /\ StopsAlone'
  BY <1>1, <1>2, <1>6 DEF ImportAlone, StopsAlone, Moving
<1>8. OneGoal' /\ IntervalTracked' /\ StatusTruthful'
  BY <1>1, <1>6 DEF OneGoal, IntervalTracked, StatusTruthful, Moving
<1> QED BY <1>4, <1>5, <1>7, <1>8 DEF NavInv

(* The end of some bots adds no goal that moves: what moved walks on or is *)
(* dead.                                                                   *)
LEMMA DeadEffect ==
  ASSUME NEW f \in [Goals -> {"none", "walking", "stopping", "dead"}], NEW dying
  PROVE  /\ Dead(f, dying) \in [Goals -> {"none", "walking", "stopping", "dead"}]
         /\ \A n \in Goals : Dead(f, dying)[n] \in {f[n], "dead"}
  BY DEF Dead

(* Besides a goal that moves, what walks is out of the controller's sight, *)
(* if goals do not overlap.                                                *)
LEMMA OthersForgotten ==
  ASSUME NavInv, sequential, NEW n \in Goals, motion[n] \in Moving,
         NEW m \in Goals, m # n, motion[m] = "walking"
  PROVE  m \in forgotten
BY NavigationAssumption DEF NavInv, OneGoal, StopsAlone, Moving

LEMMA WaitingTyped == TypeOK => Waiting \subseteq Goals
  BY DEF TypeOK, Waiting

-----------------------------------------------------------------------------
LEMMA StepInv == NavInv /\ [Next]_vars => NavInv'
<1> SUFFICES ASSUME NavInv, [Next]_vars PROVE NavInv'
  OBVIOUS
<1> USE DEF NavInv
<1>1. ASSUME NEW n \in Goals, Goto(n) \/ FollowPlayer(n) PROVE NavInv'
  BY <1>1, AskKeeps DEF Goto, FollowPlayer
<1>2. ASSUME NEW n \in Goals, Arrived(n) PROVE NavInv'
  <2>1. TypeOK'
    BY <1>2 DEF Arrived, TypeOK, importVars, listenVars
  <2>2. motion[n] \in Moving /\ status' = "ARRIVED" /\ current' = None
        /\ motion'[n] = "none" /\ \A m \in Goals : m # n => motion'[m] = motion[m]
    BY <1>2 DEF Arrived, TypeOK
  <2>3. UNCHANGED <<importing, sequential, followInterval, intervals, forgotten>>
    BY <1>2 DEF Arrived, importVars
  <2>4. sequential => importing = <<>> /\ \A m \in Goals : motion'[m] = "walking" => m \in forgotten
    BY <2>2, OthersForgotten DEF ImportAlone
  <2> QED BY <2>1, <2>2, <2>3, <2>4
          DEF GotoBacked, ImportAlone, StopsAlone, OneGoal, IntervalTracked, StatusTruthful
<1>3. ASSUME NEW n \in Goals, PathUpdate(n) PROVE NavInv'
  <2>1. UNCHANGED <<bot, importVars, motion, deaf, followInterval, intervals, resetting,
                    sequential>>
        /\ motion[n] \in Moving /\ hearing' = hearing \ {n}
    BY <1>3 DEF PathUpdate
  <2>2. sequential => importing = <<>>
    BY <2>1 DEF ImportAlone
  <2>3. CASE status' = "UNREACHABLE" /\ UNCHANGED <<mode, current, forgotten>>
    <3>1. TypeOK'
      BY <2>1, <2>3 DEF TypeOK, importVars
    <3> QED BY <2>1, <2>2, <2>3, <3>1
            DEF importVars, GotoBacked, ImportAlone, StopsAlone, OneGoal, IntervalTracked,
                StatusTruthful
  <2>4. CASE /\ status' = "ARRIVED" /\ mode' = "idle" /\ current' = None
             /\ forgotten' = forgotten \cup {n}
    <3>1. TypeOK'
      BY <2>1, <2>4 DEF TypeOK, importVars
    <3>2. sequential => \A m \in Goals : motion[m] = "walking" => m \in forgotten'
      BY <2>1, <2>4, OthersForgotten
    <3> QED BY <2>1, <2>2, <2>4, <3>1, <3>2
            DEF importVars, GotoBacked, ImportAlone, StopsAlone, OneGoal, IntervalTracked,
                StatusTruthful
  <2>5. CASE UNCHANGED <<shownVars, current, forgotten>>
    <3>1. TypeOK'
      BY <2>1, <2>5 DEF TypeOK, importVars, shownVars
    <3> QED BY <2>1, <2>2, <2>5, <3>1
            DEF importVars, shownVars, GotoBacked, ImportAlone, StopsAlone, OneGoal,
                IntervalTracked, StatusTruthful
  <2> QED BY <1>3, <2>3, <2>4, <2>5 DEF PathUpdate
<1>13. ASSUME NEW n \in Goals, EndsUnheard(n) PROVE NavInv'
  <2>1. /\ UNCHANGED <<bot, importVars, listenVars, handleVars, shownVars, resetting,
                       sequential, forgotten>>
        /\ motion[n] \in Moving /\ n \in deaf /\ motion' = [motion EXCEPT ![n] = "none"]
    BY <1>13 DEF EndsUnheard
  <2>2. /\ motion'[n] = "none" /\ \A m \in Goals : m # n => motion'[m] = motion[m]
        /\ motion' \in [Goals -> {"none", "walking", "stopping", "dead"}]
    BY <2>1 DEF TypeOK
  <2>3. TypeOK'
    BY <2>1, <2>2 DEF TypeOK, importVars, listenVars, handleVars, shownVars
  <2>4. GotoBacked'
    BY <2>1, <2>2 DEF TypeOK, GotoBacked, importVars, listenVars, handleVars, shownVars
  <2>5. sequential' => ImportAlone' /\ StopsAlone'
    BY <2>1, <2>2 DEF ImportAlone, StopsAlone, importVars, handleVars, shownVars, Moving
  <2>6. OneGoal' /\ IntervalTracked' /\ StatusTruthful'
    BY <2>1, <2>2 DEF OneGoal, IntervalTracked, StatusTruthful, handleVars, shownVars
  <2> QED BY <2>3, <2>4, <2>5, <2>6
<1>4. ASSUME NEW n \in Goals, Stopped(n) PROVE NavInv'
  <2>1. /\ UNCHANGED <<bot, importVars, listenVars, mode, resetting, sequential, forgotten>>
        /\ motion[n] \in Moving /\ motion' = [motion EXCEPT ![n] = "none"]
    BY <1>4 DEF Stopped
  <2>2. motion'[n] = "none" /\ \A m \in Goals : m # n => motion'[m] = motion[m]
    BY <2>1 DEF TypeOK
  <2>3. sequential => importing = <<>> /\ \A m \in Goals : motion'[m] = "walking" => m \in forgotten
    BY <2>1, <2>2, OthersForgotten DEF ImportAlone
  <2>4. /\ followInterval' \in {followInterval, None} /\ intervals' \subseteq intervals
        /\ sequential => intervals' \subseteq {followInterval'}
        /\ \/ status' = "CANCELLED" /\ current' = None
           \/ status' = status /\ current' = current /\ status # "CALCULATING"
    <3>1. CASE StoppedFollow
      BY <3>1 DEF StoppedFollow, ClearFollow, IntervalTracked
    <3>2. CASE StoppedGoto
      BY <3>2 DEF StoppedGoto, IntervalTracked
    <3> QED BY <1>4, <3>1, <3>2 DEF Stopped
  <2>5. TypeOK'
    BY <2>1, <2>4 DEF TypeOK, importVars, listenVars
  <2>6. GotoBacked' /\ OneGoal' /\ IntervalTracked' /\ StatusTruthful'
    BY <2>1, <2>3, <2>4 DEF GotoBacked, OneGoal, IntervalTracked, StatusTruthful
  <2>7. sequential' => ImportAlone' /\ StopsAlone'
    BY <2>1, <2>2, <2>3, <2>4 DEF importVars, ImportAlone, StopsAlone
  <2> QED BY <2>5, <2>6, <2>7
<1>5. CASE Imported
  <2>1. UNCHANGED <<bot, importing, stale, replaced, kind, motion, listenVars, handleVars,
                    shownVars, resetting, sequential, forgotten>> /\ loaded' = TRUE
    BY <1>5 DEF Imported
  <2> QED BY <2>1 DEF TypeOK, listenVars, handleVars, shownVars, GotoBacked, ImportAlone, StopsAlone,
                      OneGoal, IntervalTracked, StatusTruthful
<1>6. CASE Resume
  <2> DEFINE n == importing[1]
  <2>1. /\ importing # <<>> /\ importing' = Tail(importing)
        /\ UNCHANGED <<bot, loaded, stale, replaced, kind, resetting, sequential>>
        /\ n \in Goals /\ Head(importing) = n
        /\ importing' \in Seq(Goals) /\ Len(importing') = Len(importing) - 1
    BY <1>6 DEF Resume, TypeOK
  <2>2. importing' # <<>> => importing'[Len(importing')] = importing[Len(importing)]
    BY <2>1 DEF TypeOK
  <2>3. importing' = <<>> => Len(importing) = 1
    <3>1. importing' = <<>> => Len(importing') = 0
      OBVIOUS
    <3>2. Len(importing) \in Nat
      BY DEF TypeOK
    <3> QED BY <2>1, <3>1, <3>2
  <2>4. sequential => /\ importing' = <<>> /\ current = None /\ intervals = {}
                      /\ \A m \in Goals : motion[m] \notin Moving
                      /\ status \in {"CALCULATING", "IDLE"}
    BY <2>1 DEF ImportAlone
  <2>5. ASSUME Started(n), mode' = mode,
               status' \in {status, "UNREACHABLE"},
               hearing' \subseteq Goals, deaf' \subseteq Goals,
               n \in deaf' => kind[n] = "follow" \/ status' = "UNREACHABLE"
        PROVE  NavInv'
    <3>1. /\ current' = n /\ n # None
          /\ motion' \in [Goals -> {"none", "walking", "stopping", "dead"}]
          /\ \A m \in Goals : m # n => motion'[m] = motion[m]
          /\ motion'[n] \in {"walking", "dead"}
          /\ forgotten' = forgotten \ {n}
      BY <2>1, <2>5, NavigationAssumption DEF Started, TypeOK
    <3>2. /\ followInterval' \in Goals \cup {None}
          /\ intervals' \subseteq Goals
          /\ sequential => intervals' \subseteq {followInterval'}
      BY <2>1, <2>4, <2>5 DEF Started, TypeOK
    <3>3. TypeOK'
      BY <2>1, <2>5, <3>1, <3>2 DEF TypeOK
    <3>4. GotoBacked'
      <4>1. CASE importing' # <<>>
        BY <2>1, <2>2, <2>5, <4>1 DEF GotoBacked
      <4>2. CASE importing' = <<>>
        <5>1. mode' = "goto" /\ status' = "CALCULATING" => kind[n] = "goto"
          BY <2>1, <2>3, <2>5, <4>2 DEF GotoBacked
        <5> QED BY <2>5, <3>1, <4>2, <5>1 DEF GotoBacked
      <4> QED BY <4>1, <4>2
    <3>5. sequential' => ImportAlone' /\ StopsAlone'
      BY <2>1, <2>4, <3>1 DEF ImportAlone, StopsAlone, Moving
    <3>6. OneGoal' /\ IntervalTracked' /\ StatusTruthful'
      BY <2>1, <2>4, <2>5, <3>1, <3>2 DEF OneGoal, IntervalTracked, StatusTruthful, Moving
    <3> QED BY <3>3, <3>4, <3>5, <3>6
  <2>6. CASE GoalRefused
    <3>1. TypeOK'
      BY <2>1, <2>6 DEF GoalRefused, TypeOK, handleVars, listenVars
    <3> QED BY <2>1, <2>4, <2>6, <3>1
            DEF GoalRefused, handleVars, GotoBacked, ImportAlone, StopsAlone, OneGoal,
                IntervalTracked, StatusTruthful
  <2>7. CASE FollowRejected(n)
    <3>1. TypeOK'
      BY <2>1, <2>7 DEF FollowRejected, TypeOK, handleVars, listenVars, shownVars
    <3>2. GotoBacked'
      <4>1. CASE importing' # <<>>
        BY <2>1, <2>2, <2>7, <4>1 DEF FollowRejected, GotoBacked, shownVars
      <4>2. CASE importing' = <<>>
        BY <2>1, <2>3, <2>7, <4>2 DEF FollowRejected, GotoBacked, shownVars
      <4> QED BY <4>1, <4>2
    <3> QED BY <2>1, <2>4, <2>7, <3>1, <3>2
            DEF FollowRejected, handleVars, shownVars, ImportAlone, StopsAlone, OneGoal,
                IntervalTracked, StatusTruthful
  <2>8. CASE GoalCreated(n)
    <3>1. /\ Started(n) /\ mode' = mode /\ status' = status
          /\ hearing' \subseteq Goals /\ deaf' \subseteq Goals /\ n \notin deaf'
      BY <2>1, <2>8 DEF GoalCreated, TypeOK, shownVars
    <3> QED BY <2>5, <3>1
  <2>9. CASE GoalUnheard(n)
    <3>1. /\ Started(n) /\ mode' = mode /\ status' \in {status, "UNREACHABLE"}
          /\ hearing' \subseteq Goals /\ deaf' \subseteq Goals
          /\ kind[n] = "follow" \/ status' = "UNREACHABLE"
      BY <2>1, <2>9 DEF GoalUnheard, TypeOK
    <3> QED BY <2>5, <3>1
  <2> QED BY <1>6, <2>1, <2>6, <2>7, <2>8, <2>9 DEF Resume
<1>7. CASE CancelNavigation \/ EmergencyStop \/ Respawned
  BY <1>7, CancelKeeps DEF CancelNavigation, EmergencyStop, Respawned
<1>8. CASE BotCreated
  <2>1. /\ UNCHANGED <<loaded, importing, stale, kind, motion, listenVars, handleVars,
                       shownVars, resetting, sequential, forgotten>>
        /\ bot' = TRUE
    BY <1>8 DEF BotCreated
  <2>2. replaced' \subseteq Goals
    BY <1>8, WaitingTyped DEF BotCreated
  <2> QED BY <2>1, <2>2
          DEF TypeOK, listenVars, handleVars, shownVars, GotoBacked, ImportAlone, StopsAlone,
              OneGoal, IntervalTracked, StatusTruthful
<1>9. CASE BotLost
  <2>1. PICK dying \in SUBSET Goals :
          /\ bot' = FALSE
          /\ motion' = Dead(motion, dying)
          /\ stale' = stale \cup (Waiting \cap dying)
          /\ UNCHANGED <<loaded, importing, replaced, kind, listenVars, handleVars, shownVars,
                         resetting, sequential, forgotten>>
    BY <1>9 DEF BotLost, TypeOK
  <2>2. /\ motion' \in [Goals -> {"none", "walking", "stopping", "dead"}]
        /\ \A n \in Goals : motion'[n] \in {motion[n], "dead"}
    BY <2>1, DeadEffect DEF TypeOK
  <2>3. TypeOK'
    BY <2>1, <2>2, WaitingTyped DEF TypeOK, listenVars, handleVars, shownVars
  <2>4. GotoBacked'
    BY <2>1, <2>2 DEF TypeOK, listenVars, handleVars, shownVars, GotoBacked, Moving
  <2>6. sequential' => ImportAlone' /\ StopsAlone'
    BY <2>1, <2>2 DEF handleVars, shownVars, ImportAlone, StopsAlone, Moving
  <2>5. OneGoal' /\ IntervalTracked' /\ StatusTruthful'
    BY <2>1, <2>2 DEF handleVars, shownVars, OneGoal, IntervalTracked, StatusTruthful
  <2> QED BY <2>3, <2>4, <2>5, <2>6
<1>10. CASE Disconnect
  <2>1. /\ current' = None /\ resetting' = TRUE /\ bot' = FALSE
        /\ UNCHANGED <<loaded, importing, replaced, kind, listenVars, sequential>>
        /\ forgotten' = forgotten \cup {n \in Goals : n = current /\ motion'[n] = "walking"}
    BY <1>10 DEF Disconnect, Forget
  <2>2. \/ current = None /\ status' = status /\ mode' = mode
        \/ current # None /\ status' = "CANCELLED" /\ mode' = "idle"
    BY <1>10 DEF Disconnect, shownVars
  <2>3. /\ followInterval' = None /\ intervals' \subseteq Goals
        /\ sequential => intervals' = {}
    BY <1>10 DEF Disconnect, ClearFollow, IntervalTracked, TypeOK
  <2>4. /\ motion' \in [Goals -> {"none", "walking", "stopping", "dead"}]
        /\ \A n \in Goals : /\ motion'[n] = "walking" => motion[n] = "walking"
                            /\ motion'[n] \in Moving => motion[n] \in Moving \/ n = current
    <3>1. PICK f \in Halted : motion' = Dead(f, Goals \ replaced)
      BY <1>10 DEF Disconnect
    <3>2. f \in [Goals -> {"none", "walking", "stopping", "dead"}]
      BY HaltedEffect
    <3>3. \A n \in Goals : motion'[n] \in {f[n], "dead"}
      BY <3>1, <3>2, DeadEffect
    <3> QED BY <3>1, <3>2, <3>3, DeadEffect, HaltedEffect DEF Moving
  <2>5. stale' \subseteq Goals
    BY <1>10, WaitingTyped DEF Disconnect, TypeOK
  <2>6. TypeOK'
    BY <2>1, <2>2, <2>3, <2>4, <2>5 DEF TypeOK, listenVars
  <2>7. GotoBacked'
    BY <2>1, <2>2 DEF GotoBacked
  <2>8. sequential' => ImportAlone' /\ StopsAlone'
    BY <2>1, <2>2, <2>3, <2>4, NavigationAssumption DEF ImportAlone, StopsAlone
  <2>9. sequential => \A n \in Goals : motion'[n] = "walking" => n \in forgotten'
    BY <2>1, <2>4 DEF OneGoal
  <2>10. OneGoal' /\ IntervalTracked' /\ StatusTruthful'
    BY <2>1, <2>3, <2>9 DEF OneGoal, IntervalTracked, StatusTruthful
  <2> QED BY <2>6, <2>7, <2>8, <2>10
<1>11. CASE ResetRuntime
  <2>1. UNCHANGED <<bot, importVars, motion, listenVars, handleVars, sequential, forgotten>>
        /\ status' = "IDLE" /\ mode' = "idle" /\ resetting' = FALSE
    BY <1>11 DEF ResetRuntime
  <2> QED BY <2>1 DEF TypeOK, importVars, listenVars, handleVars, GotoBacked, ImportAlone, StopsAlone,
                      OneGoal, IntervalTracked, StatusTruthful
<1>12. CASE UNCHANGED vars
  BY <1>12 DEF vars, TypeOK, importVars, listenVars, handleVars, shownVars, GotoBacked, ImportAlone,
               StopsAlone, OneGoal, IntervalTracked, StatusTruthful
<1> QED BY <1>1, <1>2, <1>3, <1>4, <1>5, <1>6, <1>7, <1>8, <1>9, <1>10, <1>11, <1>12,
           <1>13 DEF Next

-----------------------------------------------------------------------------
(* The inductive invariant of the navigation. *)
THEOREM NavInvariant == Spec => []NavInv
BY InitInv, StepInv, PTL DEF Spec

(* Goals, handles, intervals and the status are well-formed. *)
THEOREM TypeCorrect == Spec => []TypeOK
<1>1. NavInv => TypeOK
  BY DEF NavInv
<1> QED BY <1>1, NavInvariant, PTL

(* While goals do not overlap, cancel() reaches every goal that walks but  *)
(* those lost sight of by a 'success' path_update or a stop() that threw   *)
(* (goto, followPlayer, cancel and their listeners).                       *)
THEOREM StopReachesGoal == Spec => []OneGoal
<1>1. NavInv => OneGoal
  BY DEF NavInv
<1> QED BY <1>1, NavInvariant, PTL

(* ... and every follow interval that runs.                                *)
THEOREM StopReachesInterval == Spec => []IntervalTracked
<1>1. NavInv => IntervalTracked
  BY DEF NavInv
<1> QED BY <1>1, NavInvariant, PTL

(* ... and when the panel shows a finished goal, no other goal walks.      *)
THEOREM PanelTruthful == Spec => []StatusTruthful
<1>1. NavInv => StatusTruthful
  BY DEF NavInv
<1> QED BY <1>1, NavInvariant, PTL

(* A goto on CALCULATING waits for the import, moves with its listeners    *)
(* attached, or is on a bot that has ended; overlapping goals included.    *)
THEOREM GotoAlwaysReported == Spec => []GotoReported
<1>1. NavInv => GotoReported
  BY DEF NavInv, GotoBacked, GotoReported
<1> QED BY <1>1, NavInvariant, PTL
=============================================================================
