----------------------- MODULE ReconnectPolicyProofs -----------------------
(***************************************************************************)
(* The backoff of the reconnects, for every set of texts, timers and       *)
(* delays: no delay is longer than the longest base delay with the longest *)
(* extra one, and a server that only ever answers "already connected" does *)
(* not make it grow.                                                       *)
(***************************************************************************)
EXTENDS ReconnectPolicy, Integers, TLAPS

(* Between losses the counter is at most 2; the 'end' of a bot that is     *)
(* being destroyed may add one, once, before the kick itself resets it.    *)
Settled ==
  /\ closing = NoText => attempt <= 2
  /\ closing # NoText => Conflict(closing)
  /\ listening => closing # NoText /\ attempt <= 2
  /\ attempt <= 3

CountInv == /\ attempt \in Nat
            /\ onlyConflicts => Settled

(* What AfterDestroy() does to the counter, whatever the texts: a conflict *)
(* leaves 2 at most, any other loss counts as one.                         *)
LEMMA AfterDestroyCounts ==
  ASSUME attempt \in Nat, NEW loss, AfterDestroy(loss)
  PROVE  /\ attempt' \in Nat
         /\ Conflict(loss) => attempt' <= 2
         /\ ~Conflict(loss) => attempt' <= attempt + 1
<1>1. MaxAttempt \in Nat
  BY PolicyAssumption
<1>2. CASE ReasonOf(loss) \in Permanent
  <2>1. attempt' = 0
    BY <1>2 DEF AfterDestroy
  <2> QED
    BY <2>1
<1>3. CASE ReasonOf(loss) \notin Permanent /\ Conflict(loss)
  <2>1. ScheduleReconnect(left, 1, loss.words)
    BY <1>3 DEF AfterDestroy, Conflict
  <2>2. attempt' = Smaller(1 + 1, MaxAttempt)
    BY <2>1 DEF ScheduleReconnect
  <2> QED
    BY <2>2, <1>1, <1>3 DEF Smaller
<1>4. CASE ReasonOf(loss) \notin Permanent /\ ~Conflict(loss)
  <2>1. ScheduleReconnect(left, attempt, loss.words)
    BY <1>4 DEF AfterDestroy, Conflict
  <2>2. attempt' = Smaller(attempt + 1, MaxAttempt)
    BY <2>1 DEF ScheduleReconnect
  <2> QED
    BY <2>2, <1>1, <1>4 DEF Smaller
<1> QED
  BY <1>2, <1>3, <1>4

(* An attempt, successful or not, keeps the invariant: a failed one is no  *)
(* conflict.                                                               *)
LEMMA AttemptCounts ==
  ASSUME CountInv, closing = NoText, NEW ts, Attempt(ts)
  PROVE  CountInv'
<1>1. CASE attempt' = attempt /\ onlyConflicts' = onlyConflicts
  BY <1>1 DEF CountInv, Settled, Attempt, Conflict
<1>2. CASE onlyConflicts' = FALSE /\ \E e \in ErrorTexts : ScheduleReconnect(ts, attempt, e.words)
  <2>1. attempt' = Smaller(attempt + 1, MaxAttempt)
    BY <1>2 DEF ScheduleReconnect
  <2>2. attempt' \in Nat
    BY <2>1, PolicyAssumption DEF Smaller, CountInv
  <2> QED
    BY <1>2, <2>2 DEF CountInv
<1> QED
  BY <1>1, <1>2 DEF Attempt

LEMMA LoseCounts ==
  ASSUME CountInv, NEW loss \in Losses, NEW heard, Lose(loss, heard)
  PROVE  CountInv'
<1>1. /\ closing = NoText
      /\ closing' = loss
      /\ attempt' = attempt
      /\ onlyConflicts' = (onlyConflicts /\ Conflict(loss))
  BY DEF Lose
<1>2. onlyConflicts' => onlyConflicts /\ Conflict(loss)
  BY <1>1, Zenon
<1>3. Conflict(loss) => Conflict(closing)'
  BY <1>1 DEF Conflict, ReasonOf
<1>4. loss # NoText
  BY NullAssumption
<1> QED
  BY <1>1, <1>2, <1>3, <1>4 DEF CountInv, Settled

LEMMA EndOfClosingCounts ==
  ASSUME CountInv, NEW words, EndOfClosing(words)
  PROVE  CountInv'
<1> DEFINE loss == [words |-> words, code |-> "none"]
<1>1. /\ attempt' \in Nat
      /\ Conflict(loss) => attempt' <= 2
      /\ ~Conflict(loss) => attempt' <= attempt + 1
  <2>1. AfterDestroy(loss) /\ attempt \in Nat
    BY DEF EndOfClosing, CountInv
  <2> HIDE DEF loss
  <2> QED
    BY <2>1, AfterDestroyCounts
<1> HIDE DEF loss
<1>2. /\ listening /\ listening' = FALSE
      /\ closing' = closing
      /\ onlyConflicts' = onlyConflicts
  BY DEF EndOfClosing
<1>3. ASSUME onlyConflicts  PROVE Settled'
  <2>1. /\ attempt \in Nat /\ attempt <= 2
          /\ closing # NoText /\ Conflict(closing)
    BY <1>2, <1>3 DEF CountInv, Settled
  <2> QED
    BY <1>1, <1>2, <2>1 DEF Settled, Conflict, ReasonOf
<1> QED
  BY <1>1, <1>2, <1>3 DEF CountInv

LEMMA ErrorOfClosingCounts ==
  ASSUME CountInv, NEW loss, ErrorOfClosing(loss)
  PROVE  CountInv'
<1>1. /\ attempt' \in Nat
      /\ Conflict(loss) => attempt' <= 2
  <2>1. AfterDestroy(loss) /\ attempt \in Nat
    BY DEF ErrorOfClosing, CountInv
  <2> QED
    BY <2>1, AfterDestroyCounts
<1>2. /\ listening /\ listening' = listening /\ closing' = closing
      /\ onlyConflicts' = (onlyConflicts /\ Conflict(loss))
  BY DEF ErrorOfClosing
<1>3. onlyConflicts' => onlyConflicts /\ Conflict(loss)
  BY <1>2, Zenon
<1>4. ASSUME onlyConflicts, Conflict(loss)  PROVE Settled'
  <2>1. closing # NoText /\ Conflict(closing)
    BY <1>2, <1>4 DEF CountInv, Settled
  <2>2. Conflict(closing)'
    BY <1>2, <2>1 DEF Conflict, ReasonOf
  <2> QED
    BY <1>1, <1>2, <1>4, <2>1, <2>2 DEF Settled
<1> QED
  BY <1>1, <1>3, <1>4 DEF CountInv

LEMMA DestroyedCounts ==
  ASSUME CountInv, Destroyed
  PROVE  CountInv'
<1>1. /\ AfterDestroy(closing) /\ closing # NoText
      /\ listening' = FALSE
      /\ closing' = NoText
      /\ onlyConflicts' = onlyConflicts
  BY DEF Destroyed
<1>2. /\ attempt' \in Nat
      /\ Conflict(closing) => attempt' <= 2
  BY <1>1, AfterDestroyCounts DEF CountInv
<1>3. ASSUME onlyConflicts  PROVE Settled'
  <2>1. Conflict(closing)
    BY <1>1, <1>3 DEF CountInv, Settled
  <2> QED
    BY <1>1, <1>2, <2>1 DEF Settled
<1> QED
  BY <1>1, <1>2, <1>3 DEF CountInv

(* CountInv is inductive. *)
THEOREM CountInvariant == Spec => []CountInv
<1>1. Init => CountInv
  BY DEF Init, CountInv, Settled
<1>2. CountInv /\ [Next]_vars => CountInv'
  <2> SUFFICES ASSUME CountInv, [Next]_vars  PROVE CountInv'
    OBVIOUS
  <2>1. ASSUME NEW w \in KickTexts, Kicked(w)  PROVE CountInv'
    <3>1. Kick(w) \in Losses
      BY DEF Losses
    <3> QED
      BY <2>1, <3>1, LoseCounts DEF Kicked
  <2>2. ASSUME NEW e \in ErrorTexts, Error(e)  PROVE CountInv'
    <3>1. e \in Losses
      BY DEF Losses
    <3> QED
      BY <2>2, <3>1, LoseCounts DEF Error
  <2>3. ASSUME NEW w \in EndTexts, End(w)  PROVE CountInv'
    <3>1. [words |-> w, code |-> "none"] \in Losses
      BY DEF Losses
    <3> QED
      BY <2>3, <3>1, LoseCounts DEF End
  <2>4. ASSUME NEW w \in EndTexts, EndOfClosing(w)  PROVE CountInv'
    BY <2>4, EndOfClosingCounts
  <2>10. ASSUME NEW e \in ErrorTexts, ErrorOfClosing(e)  PROVE CountInv'
    BY <2>10, ErrorOfClosingCounts
  <2>5. CASE Destroyed
    BY <2>5, DestroyedCounts
  <2>6. CASE Connect
    BY <2>6, AttemptCounts DEF Connect
  <2>7. ASSUME NEW t \in Timers, TimerFires(t)  PROVE CountInv'
    <3> DEFINE ts == [left EXCEPT ![t] = NoTimer]
    <3>1. closing = NoText
      BY <2>7 DEF TimerFires
    <3>2. \/ Attempt(ts)
          \/ UNCHANGED <<attempt, closing, listening, onlyConflicts>>
      BY <2>7 DEF TimerFires
    <3> HIDE DEF ts
    <3>3. CASE Attempt(ts)
      BY <3>1, <3>3, AttemptCounts
    <3>4. CASE UNCHANGED <<attempt, closing, listening, onlyConflicts>>
      BY <3>4 DEF CountInv, Settled, Conflict, ReasonOf
    <3> QED
      BY <3>2, <3>3, <3>4
  <2>8. CASE Tick
    BY <2>8 DEF Tick, CountInv, Settled, Conflict, ReasonOf
  <2>9. CASE UNCHANGED vars
    BY <2>9 DEF vars, CountInv, Settled, Conflict, ReasonOf
  <2> QED
    BY <2>1, <2>2, <2>3, <2>4, <2>5, <2>6, <2>7, <2>8, <2>9, <2>10 DEF Next
<1> QED
  BY <1>1, <1>2, PTL DEF Spec

(* A proxy that answers every attempt with "already connected" keeps the   *)
(* counter of reconnects at 3 or less, however long it does so.            *)
THEOREM ConflictsBounded == Spec => []ConflictsDoNotCompound
<1>1. CountInv => ConflictsDoNotCompound
  BY DEF CountInv, Settled, ConflictsDoNotCompound
<1> QED
  BY <1>1, CountInvariant, PTL

-----------------------------------------------------------------------------
(* Delays *)

(* A base delay never exceeds its cap, however many attempts were made.    *)
LEMMA BaseDelayCapped ==
  ASSUME NEW a \in Nat
  PROVE  BaseDelay(a + 1) \in Int /\ BaseDelay(a + 1) <= MaxBase
<1>1. Base \in Nat /\ MaxBase \in Nat
  BY PolicyAssumption
<1>2. BaseDelay(a + 1) = Smaller(MaxBase, Base * 2 ^ a)
  <2>1. (a + 1) - 1 = a
    OBVIOUS
  <2> QED
    BY <2>1 DEF BaseDelay
<1>3. Base * 2 ^ a \in Int
  BY <1>1
<1> QED
  BY <1>1, <1>2, <1>3 DEF Smaller

LEMMA ExtraDelayBounded ==
  ASSUME NEW words
  PROVE  /\ ExtraDelay(words) \in Nat
         /\ ExtraDelay(words) <= Larger(ConflictExtra, KeepAliveExtra)
<1>1. ConflictExtra \in Nat /\ KeepAliveExtra \in Nat
  BY PolicyAssumption
<1>2. ExtraDelay(words) \in {ConflictExtra, KeepAliveExtra, 0}
  BY DEF ExtraDelay
<1> QED
  BY <1>1, <1>2 DEF Larger

(* The delay of one more timer. *)
LEMMA DelayBounded ==
  ASSUME NEW a \in Nat, NEW j \in 0 .. Jitter, NEW words
  PROVE  Larger(MinDelay, BaseDelay(a + 1) + j) + ExtraDelay(words) \in MinDelay .. Longest
<1>1. MinDelay \in Nat /\ MaxBase \in Nat /\ Jitter \in Nat
      /\ ConflictExtra \in Nat /\ KeepAliveExtra \in Nat
  BY PolicyAssumption
<1>2. PICK base \in Int : base = BaseDelay(a + 1) /\ base <= MaxBase
  BY BaseDelayCapped
<1>3. PICK extra \in Nat : /\ extra = ExtraDelay(words)
                           /\ extra <= Larger(ConflictExtra, KeepAliveExtra)
  BY ExtraDelayBounded
<1>4. /\ Larger(MinDelay, base + j) \in Nat
      /\ Larger(MinDelay, base + j) >= MinDelay
      /\ Larger(MinDelay, base + j) <= Larger(MinDelay, MaxBase + Jitter)
  BY <1>1, <1>2 DEF Larger
<1>5. Larger(ConflictExtra, KeepAliveExtra) \in Nat /\ Larger(MinDelay, MaxBase + Jitter) \in Nat
  BY <1>1 DEF Larger
<1>6. Larger(MinDelay, base + j) + extra \in MinDelay .. Longest
  BY <1>1, <1>3, <1>4, <1>5 DEF Longest
<1> QED
  BY <1>2, <1>3, <1>6

-----------------------------------------------------------------------------
(* Types *)

TimersTyped(ts) == ts \in [Timers -> 0 .. Longest \cup {NoTimer}]

LEMMA LongestTyped == Longest \in Nat
  BY PolicyAssumption DEF Longest, Larger

(* One more timer: the counter and the timers stay in range.               *)
LEMMA ScheduleTyped ==
  ASSUME NEW ts, TimersTyped(ts), NEW a \in Nat, NEW words, ScheduleReconnect(ts, a, words)
  PROVE  attempt' \in 0 .. MaxAttempt /\ TimersTyped(left')
<1>1. attempt' \in 0 .. MaxAttempt
  <2>1. MaxAttempt \in Nat /\ attempt' = Smaller(a + 1, MaxAttempt)
    BY PolicyAssumption DEF ScheduleReconnect
  <2> QED
    BY <2>1 DEF Smaller
<1>2. PICK t \in Timers, j \in 0 .. Jitter :
        left' = [ts EXCEPT ![t] = Larger(MinDelay, BaseDelay(a + 1) + j) + ExtraDelay(words)]
  BY DEF ScheduleReconnect
<1>3. PICK d \in 0 .. Longest : d = Larger(MinDelay, BaseDelay(a + 1) + j) + ExtraDelay(words)
  <2>1. MinDelay \in Nat
    BY PolicyAssumption
  <2>2. \A d \in MinDelay .. Longest : d \in 0 .. Longest
    BY <2>1, LongestTyped
  <2> QED
    BY <2>2, DelayBounded
<1>4. left' = [ts EXCEPT ![t] = d]
  BY <1>2, <1>3
<1> QED
  BY <1>1, <1>4 DEF TimersTyped

(* The end of a loss. *)
LEMMA AfterDestroyTyped ==
  ASSUME attempt \in 0 .. MaxAttempt, TimersTyped(left), NEW loss, AfterDestroy(loss)
  PROVE  attempt' \in 0 .. MaxAttempt /\ TimersTyped(left')
<1>1. MaxAttempt \in Nat /\ attempt \in Nat
  BY PolicyAssumption
<1>2. CASE ReasonOf(loss) \in Permanent
  BY <1>1, <1>2 DEF AfterDestroy
<1>3. CASE ReasonOf(loss) \notin Permanent
  <2>1. \E a \in {1, attempt} : ScheduleReconnect(left, a, loss.words)
    BY <1>3 DEF AfterDestroy
  <2> QED
    BY <1>1, <2>1, ScheduleTyped
<1> QED
  BY <1>2, <1>3

(* An attempt, made when the timers ts are pending. *)
LEMMA AttemptTyped ==
  ASSUME TypeOK, NEW ts, TimersTyped(ts), Attempt(ts)
  PROVE  TypeOK'
<1>1. attempt' \in 0 .. MaxAttempt /\ TimersTyped(left')
  <2>1. MaxAttempt \in Nat /\ attempt \in Nat
    BY PolicyAssumption DEF TypeOK
  <2>2. CASE left' = ts /\ UNCHANGED attempt
    BY <2>2 DEF TypeOK
  <2>3. CASE \E e \in ErrorTexts : ScheduleReconnect(ts, attempt, e.words)
    BY <2>1, <2>3, ScheduleTyped
  <2> QED
    BY <2>2, <2>3 DEF Attempt
<1>2. up' \in BOOLEAN /\ onlyConflicts' \in BOOLEAN
  BY DEF TypeOK, Attempt
<1>3. closing' = closing /\ listening' = listening
  BY DEF Attempt
<1> QED
  BY <1>1, <1>2, <1>3 DEF TypeOK, TimersTyped

LEMMA LoseTyped ==
  ASSUME TypeOK, NEW loss \in Losses, NEW heard \in BOOLEAN, Lose(loss, heard)
  PROVE  TypeOK'
<1>1. onlyConflicts' = (onlyConflicts /\ Conflict(loss))
  BY DEF Lose
<1>2. onlyConflicts' \in BOOLEAN
  BY <1>1, Zenon
<1> QED
  BY <1>2 DEF TypeOK, Lose

(* Types are kept by every step. *)
LEMMA TypeStep ==
  ASSUME TypeOK, [Next]_vars
  PROVE  TypeOK'
<1>1. ASSUME NEW w \in KickTexts, Kicked(w)  PROVE TypeOK'
  <2>1. Kick(w) \in Losses
    BY DEF Losses
  <2> QED
    BY <1>1, <2>1, LoseTyped DEF Kicked
<1>2. ASSUME NEW e \in ErrorTexts, Error(e)  PROVE TypeOK'
  <2>1. e \in Losses
    BY DEF Losses
  <2> QED
    BY <1>2, <2>1, LoseTyped DEF Error
<1>3. ASSUME NEW w \in EndTexts, End(w)  PROVE TypeOK'
  <2>1. [words |-> w, code |-> "none"] \in Losses
    BY DEF Losses
  <2> QED
    BY <1>3, <2>1, LoseTyped DEF End
<1>4. ASSUME NEW w \in EndTexts, EndOfClosing(w)  PROVE TypeOK'
  <2>1. attempt' \in 0 .. MaxAttempt /\ TimersTyped(left')
    BY <1>4, AfterDestroyTyped DEF EndOfClosing, TypeOK, TimersTyped
  <2> QED
    BY <1>4, <2>1 DEF EndOfClosing, TypeOK, TimersTyped
<1>10. ASSUME NEW e \in ErrorTexts, ErrorOfClosing(e)  PROVE TypeOK'
  <2>1. attempt' \in 0 .. MaxAttempt /\ TimersTyped(left')
    BY <1>10, AfterDestroyTyped DEF ErrorOfClosing, TypeOK, TimersTyped
  <2>2. onlyConflicts' = (onlyConflicts /\ Conflict(e))
    BY <1>10 DEF ErrorOfClosing
  <2>3. onlyConflicts' \in BOOLEAN
    BY <2>2, Zenon
  <2> QED
    BY <1>10, <2>1, <2>3 DEF ErrorOfClosing, TypeOK, TimersTyped
<1>5. CASE Destroyed
  <2>1. attempt' \in 0 .. MaxAttempt /\ TimersTyped(left')
    BY <1>5, AfterDestroyTyped DEF Destroyed, TypeOK, TimersTyped
  <2> QED
    BY <1>5, <2>1 DEF Destroyed, TypeOK, TimersTyped
<1>6. CASE Connect
  BY <1>6, AttemptTyped DEF Connect, TypeOK, TimersTyped
<1>7. ASSUME NEW t \in Timers, TimerFires(t)  PROVE TypeOK'
  <2> DEFINE ts == [left EXCEPT ![t] = NoTimer]
  <2>1. TimersTyped(ts)
    BY DEF TypeOK, TimersTyped
  <2>2. \/ Attempt(ts)
        \/ left' = ts /\ UNCHANGED <<attempt, up, closing, listening, onlyConflicts>>
    BY <1>7 DEF TimerFires
  <2> HIDE DEF ts
  <2> QED
    BY <2>1, <2>2, AttemptTyped DEF TypeOK, TimersTyped
<1>8. CASE Tick
  <2>1. ASSUME NEW t \in Timers, left[t] \notin {0, NoTimer}
        PROVE  left[t] - 1 \in 0 .. Longest
    <3>1. left[t] \in 0 .. Longest /\ left[t] # 0
      BY <2>1 DEF TypeOK
    <3> QED
      BY <3>1, LongestTyped
  <2>2. /\ left' = [t \in Timers |-> IF left[t] \in {0, NoTimer} THEN left[t] ELSE left[t] - 1]
        /\ UNCHANGED <<attempt, up, closing, listening, onlyConflicts>>
    BY <1>8 DEF Tick
  <2>3. TimersTyped(left')
    BY <2>1, <2>2 DEF TypeOK, TimersTyped
  <2> QED
    BY <2>2, <2>3 DEF TypeOK, TimersTyped
<1>9. CASE UNCHANGED vars
  BY <1>9 DEF vars, TypeOK
<1> QED
  BY <1>1, <1>2, <1>3, <1>4, <1>5, <1>6, <1>7, <1>8, <1>9, <1>10 DEF Next

(* The counter is in range, and no reconnect is further away than the      *)
(* longest base delay with the longest extra one, for every setting of the *)
(* delays (scheduleReconnect).                                             *)
THEOREM TypeCorrect == Spec => []TypeOK
<1>1. Init => TypeOK
  <2>1. MaxAttempt \in Nat
    BY PolicyAssumption
  <2>2. Init => attempt \in 0 .. MaxAttempt
    BY <2>1 DEF Init
  <2>3. Init => TimersTyped(left)
    BY DEF Init, TimersTyped
  <2> QED
    BY <2>2, <2>3 DEF Init, TypeOK, TimersTyped
<1>2. TypeOK /\ [Next]_vars => TypeOK'
  BY TypeStep
<1> QED
  BY <1>1, <1>2, PTL DEF Spec
=============================================================================
