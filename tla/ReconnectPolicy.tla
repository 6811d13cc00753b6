-------------------------- MODULE ReconnectPolicy --------------------------
(***************************************************************************)
(* What a lost bot's text decides and when the next attempt runs:          *)
(* classifyError(), the end of handleDisconnect() and scheduleReconnect(), *)
(* with time.  BotLifecycle has the interleavings of several bots and of   *)
(* the commands; here there is one bot at a time and autoReconnect is on.  *)
(*                                                                         *)
(* A text is the set of the patterns that match it.                        *)
(***************************************************************************)
EXTENDS Naturals, FiniteSets

CONSTANTS KickTexts,       \* what kicks say
          ErrorTexts,      \* what 'error' says, with its code
          EndTexts,        \* what 'end' says
          Timers,          \* bound: reconnect timers pending at once
          Base,            \* BACKOFF_BASE_MS
          MaxBase,         \* BACKOFF_MAX_MS
          MinDelay,        \* options.reconnectDelayMs
          Jitter,          \* the most that Math.random() adds
          ConflictExtra,   \* 30 s for a proxy that is already connected
          KeepAliveExtra,  \* 15 s for a keep-alive failure
          MaxAttempt,      \* bound: backoff.attempt counts up to here
          NoTimer,         \* no timer in this slot
          NoText           \* no bot is being destroyed

ASSUME PolicyAssumption ==
  /\ {Base, MaxBase, MinDelay, Jitter, ConflictExtra, KeepAliveExtra} \subseteq Nat
  /\ MaxAttempt \in Nat \ {0}
  /\ Base * 2 ^ (MaxAttempt - 1) >= MaxBase

VARIABLES attempt,       \* backoff.attempt
          left,          \* the time until each pending timer is due
          up,            \* this.bot is a bot
          closing,       \* what the loss said whose destroyBot() waits
          listening,     \* the lost bot's 'end' would still be heard
          onlyConflicts  \* history: every loss so far was such a kick

vars == <<attempt, left, up, closing, listening, onlyConflicts>>

(* Each line of classifyError() after the codes: a text that matches all   *)
(* its patterns has its reason, unless an earlier line applies.            *)
Rules ==
  << <<{"whitelist"}, "WHITELIST_REJECTION">>,
     <<{"full", "server"}, "SERVER_FULL">>,
     <<{"already connected"}, "CONFLICTING_CONNECTION">>,
     <<{"banned"}, "BANNED">>,
     <<{"outdated"}, "UNSUPPORTED_PROTOCOL">>,
     <<{"invalid session"}, "INVALID_SESSION">>,
     <<{"auth required"}, "MICROSOFT_AUTH_FAILURE">>,
     <<{"server restart"}, "SERVER_RESTART">>,
     <<{"kick"}, "KICKED">>,
     <<{"timeout"}, "CONNECTION_TIMEOUT">>,
     <<{}, "UNKNOWN">> >>

FirstRule(words) ==
  LET applies == {i \in DOMAIN Rules : Rules[i][1] \subseteq words}
  IN  Rules[CHOOSE i \in applies : \A j \in applies : i <= j][2]

ClassifyError(words, code) ==
  CASE code = "ENOTFOUND" -> "DNS_RESOLUTION_ERROR"
    [] code = "ECONNREFUSED" -> "CONNECTION_REFUSED"
    [] code \in {"ETIMEDOUT", "ECONNRESET", "EHOSTUNREACH"} ->
         IF words \cap {"timeout", "timed out"} # {}
         THEN "CONNECTION_TIMEOUT" ELSE "CONNECTION_RESET"
    [] code = "none" /\ "closed" \in words -> "LOST_CONNECTION"
    [] OTHER -> FirstRule(words)

(* handleDisconnect() puts the kind of the event before its text: KICKED is*)
(* a pattern by itself, LOST_CONNECTION (with its underscore) is not.      *)
Kick(words) == [words |-> words \cup {"kick"}, code |-> "none"]
ReasonOf(loss) == ClassifyError(loss.words, loss.code)

Permanent == {"WHITELIST_REJECTION", "BANNED", "INVALID_SESSION",
              "MICROSOFT_AUTH_FAILURE", "UNSUPPORTED_PROTOCOL"}

Losses == {Kick(w) : w \in KickTexts} \cup ErrorTexts
            \cup {[words |-> w, code |-> "none"] : w \in EndTexts}

ASSUME NullAssumption == NoText \notin Losses /\ NoTimer \notin Nat

Smaller(x, y) == IF x < y THEN x ELSE y
Larger(x, y) == IF x < y THEN y ELSE x
Longest == Larger(MinDelay, MaxBase + Jitter) + Larger(ConflictExtra, KeepAliveExtra)

(* No reconnect is further away than the longest base delay with the       *)
(* longest extra one.                                                      *)
TypeOK ==
  /\ attempt \in 0 .. MaxAttempt
  /\ left \in [Timers -> 0 .. Longest \cup {NoTimer}]
  /\ up \in BOOLEAN
  /\ closing \in Losses \cup {NoText}
  /\ listening \in BOOLEAN
  /\ onlyConflicts \in BOOLEAN

Init ==
  /\ attempt = 0
  /\ left = [t \in Timers |-> NoTimer]
  /\ up = FALSE
  /\ closing = NoText
  /\ listening = FALSE
  /\ onlyConflicts = TRUE

-----------------------------------------------------------------------------
(* scheduleReconnect() *)

BaseDelay(a) == Smaller(MaxBase, Base * 2 ^ (a - 1))

ExtraDelay(words) ==
  CASE "already connected" \in words -> ConflictExtra
    [] "already connected" \notin words /\ words \cap {"keepalive", "client timeout"} # {}
         -> KeepAliveExtra
    [] OTHER -> 0

(* A timer more, with ts those that are pending and a the count so far.    *)
ScheduleReconnect(ts, a, words) ==
  /\ attempt' = Smaller(a + 1, MaxAttempt)
  /\ \E t \in Timers, j \in 0 .. Jitter :
       /\ ts[t] = NoTimer
       /\ left' = [ts EXCEPT ![t] = Larger(MinDelay, BaseDelay(a + 1) + j)
                                      + ExtraDelay(words)]

(* Variant: a conflict compounds like the other reasons. *)
AfterDestroyCompounds(loss) ==
  IF ReasonOf(loss) \in Permanent
  THEN attempt' = 0 /\ UNCHANGED left
  ELSE ScheduleReconnect(left, attempt, loss.words)

(* Variant: a permanent loss takes an attempt back.                        *)
AfterDestroyTakesBack(loss) ==
  IF ReasonOf(loss) \in Permanent
  THEN attempt' = attempt - 1 /\ UNCHANGED left
  ELSE ScheduleReconnect(left, attempt, loss.words)

(* handleDisconnect() after its destroyBot().  The second pattern that     *)
(* resets the counter is tested against the reason, and no reason has      *)
(* "keepalive" or "client timed out" in its name.                          *)
AfterDestroy(loss) ==
  IF ReasonOf(loss) \in Permanent
  THEN attempt' = 0 /\ UNCHANGED left
  ELSE ScheduleReconnect(left, IF ReasonOf(loss) = "CONFLICTING_CONNECTION"
                               THEN 1 ELSE attempt, loss.words)

-----------------------------------------------------------------------------
(* A bot is lost *)

(* Bound: there is room for n more timers.  A loss may need one for itself *)
(* and one for its 'end'.                                                  *)
Room(n) == Cardinality({t \in Timers : left[t] = NoTimer}) >= n

Conflict(loss) == ReasonOf(loss) = "CONFLICTING_CONNECTION"

(* handleDisconnect() up to the wait of destroyBot(); heard: 'end' is still*)
(* to come.                                                                *)
Lose(loss, heard) ==
  /\ up /\ closing = NoText /\ Room(2)
  /\ up' = FALSE
  /\ closing' = loss
  /\ listening' = heard
  /\ onlyConflicts' = (onlyConflicts /\ Conflict(loss))
  /\ UNCHANGED <<attempt, left>>

Kicked(words) == Lose(Kick(words), TRUE)
Error(loss) == Lose(loss, TRUE)
End(words) == Lose([words |-> words, code |-> "none"], FALSE)

(* 'end' of a bot that is being destroyed: handleDisconnect() finds no bot *)
(* to wait for.                                                            *)
EndOfClosing(words) ==
  /\ listening
  /\ listening' = FALSE
  /\ AfterDestroy([words |-> words, code |-> "none"])
  /\ UNCHANGED <<up, closing, onlyConflicts>>

(* 'error' of such a bot, which goes on listening. *)
ErrorOfClosing(loss) ==
  /\ listening /\ Room(3)
  /\ onlyConflicts' = (onlyConflicts /\ Conflict(loss))
  /\ AfterDestroy(loss)
  /\ UNCHANGED <<up, closing, listening>>

(* destroyBot() is done, by 'end' or by the 4 s fallback, which removes the*)
(* listeners.                                                              *)
Destroyed ==
  /\ closing # NoText
  /\ closing' = NoText
  /\ listening' = FALSE
  /\ AfterDestroy(closing)
  /\ UNCHANGED <<up, onlyConflicts>>

-----------------------------------------------------------------------------
(* attempt() without a bot: a bot, or another wait when createBot() or the *)
(* authentication fails.  ts: the timers that are pending.                 *)
Attempt(ts) ==
  /\ \/ /\ up' = TRUE
        /\ left' = ts
        /\ UNCHANGED <<attempt, onlyConflicts>>
     \/ /\ UNCHANGED up
        /\ \E e \in ErrorTexts : ScheduleReconnect(ts, attempt, e.words)
        /\ onlyConflicts' = FALSE
  /\ UNCHANGED <<closing, listening>>

(* connect() *)
Connect == ~up /\ closing = NoText /\ Attempt(left)

TimerFires(t) ==
  /\ left[t] = 0
  /\ closing = NoText
  /\ LET ts == [left EXCEPT ![t] = NoTimer]
     IN  \/ ~up /\ Attempt(ts)
         \/ /\ up
            /\ left' = ts
            /\ UNCHANGED <<attempt, up, closing, listening, onlyConflicts>>

(* Time passes.  The wait of destroyBot(), shorter than every delay, is    *)
(* taken to be over at once.                                               *)
Tick ==
  /\ closing = NoText
  /\ left' = [t \in Timers |-> IF left[t] \in {0, NoTimer} THEN left[t] ELSE left[t] - 1]
  /\ UNCHANGED <<attempt, up, closing, listening, onlyConflicts>>

Next ==
  \/ \E w \in KickTexts : Kicked(w)
  \/ \E e \in ErrorTexts : Error(e) \/ ErrorOfClosing(e)
  \/ \E w \in EndTexts : End(w) \/ EndOfClosing(w)
  \/ Destroyed
  \/ Connect
  \/ \E t \in Timers : TimerFires(t)
  \/ Tick

Spec == Init /\ [][Next]_vars

-----------------------------------------------------------------------------
(* handleDisconnect(): "Already connected" does not compound the backoff.  *)
(* A server that only ever answers so leaves the counter at 3 at most (2   *)
(* for the kick and one for its 'end'), whatever the order of the two, and *)
(* whatever conflicts it reports in between.                               *)
ConflictsDoNotCompound == onlyConflicts => attempt <= 3
=============================================================================
