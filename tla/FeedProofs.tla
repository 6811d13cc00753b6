----------------------------- MODULE FeedProofs -----------------------------
(***************************************************************************)
(* What the bounded buffers guarantee for every capacity, and what a page  *)
(* sees of the chat (Feed) for every number of connections, capacity and   *)
(* length of the game.                                                     *)
(***************************************************************************)
EXTENDS Feed, TLAPS

-----------------------------------------------------------------------------
(* Rings *)

(* What slice(-n) returns: a short sequence as it is, of a long one the    *)
(* last n lines.                                                           *)
LEMMA NewestShort ==
  ASSUME NEW S, NEW lines \in Seq(S), NEW n \in Nat, Len(lines) <= n
  PROVE  Newest(lines, n) = lines
  BY DEF Newest

LEMMA NewestLong ==
  ASSUME NEW S, NEW lines \in Seq(S), NEW n \in Nat, Len(lines) >= n
  PROVE  /\ Newest(lines, n) \in Seq(S)
         /\ Len(Newest(lines, n)) = n
         /\ \A i \in 1 .. n : Newest(lines, n)[i] = lines[i + (Len(lines) - n)]
<1>1. CASE Len(lines) = n
  BY <1>1 DEF Newest
<1>2. CASE Len(lines) > n
  <2>1. Newest(lines, n) = SubSeq(lines, Len(lines) - n + 1, Len(lines))
    BY <1>2 DEF Newest
  <2> QED BY <1>2, <2>1
<1> QED BY <1>1, <1>2

(* Two sequences with the same lines are equal. *)
LEMMA SameLines ==
  ASSUME NEW S, NEW s \in Seq(S), NEW t \in Seq(S), Len(s) = Len(t),
         \A i \in 1 .. Len(s) : s[i] = t[i]
  PROVE  s = t
  OBVIOUS

(* A sequence of some lines is one of more lines. *)
LEMMA WiderSeq ==
  ASSUME NEW S, NEW T, S \subseteq T, NEW lines \in Seq(S)
  PROVE  lines \in Seq(T)
  OBVIOUS

(* A ring that is full of the end of a history is, after one push, full of *)
(* the end of the longer history.                                          *)
LEMMA FullRingMoves ==
  ASSUME NEW S, NEW history \in Seq(S), NEW line \in S, NEW max \in Nat \ {0},
         NEW buffer \in Seq(S), Len(history) >= max, Len(buffer) = max,
         \A i \in 1 .. max : buffer[i] = history[i + (Len(history) - max)]
  PROVE  Tail(Append(buffer, line)) = Newest(Append(history, line), max)
<1> DEFINE longer == Append(buffer, line)
           all == Append(history, line)
           skipped == Len(history) - max
<1>1. /\ longer \in Seq(S) /\ Len(longer) = max + 1
      /\ all \in Seq(S) /\ Len(all) = Len(history) + 1
  OBVIOUS
<1>2. /\ Tail(longer) \in Seq(S) /\ Len(Tail(longer)) = max
      /\ \A i \in 1 .. max : Tail(longer)[i] = longer[i + 1]
  <2> HIDE DEF longer
  <2> QED BY <1>1
<1>3. /\ Newest(all, max) \in Seq(S) /\ Len(Newest(all, max)) = max
      /\ \A i \in 1 .. max : Newest(all, max)[i] = all[i + (Len(all) - max)]
  <2>1. Len(all) >= max /\ max \in Nat
    BY <1>1
  <2> HIDE DEF all
  <2> QED BY <1>1, <2>1, NewestLong
<1>4. ASSUME NEW i \in 1 .. max PROVE longer[i + 1] = all[i + (Len(all) - max)]
  <2>1. i + (Len(all) - max) = (i + 1) + skipped
    BY <1>1
  <2>2. CASE i = max
    BY <1>1, <2>1, <2>2
  <2>3. CASE i < max
    <3>1. longer[i + 1] = buffer[i + 1]
      BY <2>3
    <3>2. buffer[i + 1] = history[(i + 1) + skipped]
      BY <2>3
    <3>3. all[(i + 1) + skipped] = history[(i + 1) + skipped]
      BY <2>3
    <3> QED BY <2>1, <3>1, <3>2, <3>3
  <2>4. i = max \/ i < max
    OBVIOUS
  <2> HIDE DEF longer, all
  <2> QED BY <2>2, <2>3, <2>4
<1>5. \A i \in 1 .. max : Tail(longer)[i] = Newest(all, max)[i]
  BY <1>2, <1>3, <1>4
<1> HIDE DEF longer, all
<1>6. Tail(longer) = Newest(all, max)
  BY <1>2, <1>3, <1>5, SameLines
<1> QED BY <1>6 DEF longer, all

(* The chat ring holds the newest lines of all that was ever said, however *)
(* long that is: one more line on both sides keeps it so (pushChat).       *)
THEOREM ChatKeepsNewest ==
  ASSUME NEW S, NEW history \in Seq(S), NEW line \in S, NEW max \in Nat \ {0}
  PROVE  Pushed(Newest(history, max), line, max) = Newest(Append(history, line), max)
<1>1. CASE Len(history) < max
  <2>1. Newest(history, max) = history
    BY <1>1, NewestShort
  <2>2. Len(Append(history, line)) <= max
    BY <1>1
  <2> QED BY <2>1, <2>2 DEF Newest, Pushed
<1>2. CASE Len(history) >= max
  <2>1. PICK buffer \in Seq(S) : buffer = Newest(history, max)
    BY <1>2, NewestLong
  <2>2. Len(buffer) = max /\ \A i \in 1 .. max : buffer[i] = history[i + (Len(history) - max)]
    BY <1>2, <2>1, NewestLong
  <2>3. Pushed(buffer, line, max) = Tail(Append(buffer, line))
    BY <2>2 DEF Pushed
  <2> QED BY <1>2, <2>1, <2>2, <2>3, FullRingMoves
<1> QED BY <1>1, <1>2

(* Shifting before the push, as the log does, or after it, as the chat     *)
(* does, makes the same ring (log, pushChat).                              *)
LEMMA LogIsChat ==
  ASSUME NEW S, NEW buffer \in Seq(S), NEW line \in S, NEW max \in Nat \ {0}, Len(buffer) <= max
  PROVE  Logged(buffer, line, max) = Pushed(buffer, line, max)
<1>1. CASE Len(buffer) < max
  BY <1>1 DEF Logged, Pushed
<1>2. CASE Len(buffer) = max
  <2>1. Append(Tail(buffer), line) = Tail(Append(buffer, line))
    <3>1. buffer # <<>>
      BY <1>2
    <3>2. /\ Append(Tail(buffer), line) \in Seq(S) /\ Tail(Append(buffer, line)) \in Seq(S)
          /\ Len(Append(Tail(buffer), line)) = Len(buffer)
          /\ Len(Tail(Append(buffer, line))) = Len(buffer)
      BY <1>2, <3>1
    <3>3. ASSUME NEW i \in 1 .. Len(buffer)
          PROVE  Append(Tail(buffer), line)[i] = Tail(Append(buffer, line))[i]
      <4>1. CASE i = Len(buffer)
        BY <1>2, <3>1, <4>1
      <4>2. CASE i < Len(buffer)
        BY <1>2, <3>1, <4>2
      <4> QED BY <4>1, <4>2
    <3> QED BY <3>2, <3>3, SameLines
  <2> QED BY <1>2, <2>1 DEF Logged, Pushed
<1> QED BY <1>1, <1>2

(* The log holds the newest entries of all that was ever logged (log).     *)
THEOREM LogKeepsNewest ==
  ASSUME NEW S, NEW history \in Seq(S), NEW entry \in S, NEW max \in Nat \ {0}
  PROVE  Logged(Newest(history, max), entry, max) = Newest(Append(history, entry), max)
<1>1. CASE Len(history) <= max
  <2>1. Newest(history, max) = history
    BY <1>1, NewestShort
  <2> QED BY <1>1, <2>1, LogIsChat, ChatKeepsNewest
<1>2. CASE Len(history) > max
  <2>1. Newest(history, max) \in Seq(S) /\ Len(Newest(history, max)) = max
    BY <1>2, NewestLong
  <2> QED BY <2>1, LogIsChat, ChatKeepsNewest
<1> QED BY <1>1, <1>2

(* A welcome, cut from the ring, carries the newest lines of the whole     *)
(* history, as if the ring had no bound (recentChat, sendWelcome).         *)
THEOREM WelcomeCarriesNewest ==
  ASSUME NEW S, NEW history \in Seq(S), NEW max \in Nat, NEW n \in Nat, n <= max
  PROVE  Newest(Newest(history, max), n) = Newest(history, n)
<1>1. CASE Len(history) <= max
  BY <1>1, NewestShort
<1>2. CASE Len(history) > max
  <2>1. PICK buffer \in Seq(S) : buffer = Newest(history, max)
    BY <1>2, NewestLong
  <2>2. Len(buffer) = max /\ \A i \in 1 .. max : buffer[i] = history[i + (Len(history) - max)]
    <3>1. Len(history) >= max
      BY <1>2
    <3> QED BY <2>1, <3>1, NewestLong
  <2>3. /\ Newest(buffer, n) \in Seq(S) /\ Len(Newest(buffer, n)) = n
        /\ \A i \in 1 .. n : Newest(buffer, n)[i] = buffer[i + (Len(buffer) - n)]
    BY <2>2, NewestLong
  <2>4. /\ Newest(history, n) \in Seq(S) /\ Len(Newest(history, n)) = n
        /\ \A i \in 1 .. n : Newest(history, n)[i] = history[i + (Len(history) - n)]
    BY <1>2, NewestLong
  <2>5. ASSUME NEW i \in 1 .. n
        PROVE  buffer[i + (Len(buffer) - n)] = history[i + (Len(history) - n)]
    <3>1. i + (max - n) \in 1 .. max
      OBVIOUS
    <3>2. (i + (max - n)) + (Len(history) - max) = i + (Len(history) - n)
      OBVIOUS
    <3> QED BY <2>2, <3>1, <3>2
  <2>6. \A i \in 1 .. n : Newest(buffer, n)[i] = Newest(history, n)[i]
    BY <2>3, <2>4, <2>5
  <2>7. Newest(buffer, n) = Newest(history, n)
    BY <2>3, <2>4, <2>6, SameLines
  <2> QED BY <2>1, <2>7
<1> QED BY <1>1, <1>2

-----------------------------------------------------------------------------
(* The chat of a page.  Consecutive lines are lines counted back from the  *)
(* last one, which is how they are handled here.                           *)

UpTo(lines, n) == \A i \in 1 .. Len(lines) : lines[i] = n - (Len(lines) - i)

(* The same of what a connection has to deliver from position p on. *)
OnlyChat(queue, p) == \A i \in p .. Len(queue) : queue[i].type = "chat"

LinesUpTo(queue, p, n) == \A i \in p .. Len(queue) : queue[i].line = n - (Len(queue) - i)

(* No connection carries anything that the page would not handle, and only *)
(* one that was answered can be the page's source.                         *)
Answered ==
  /\ asked \subseteq clients
  /\ \A s \in Sockets : s \notin heard => link[s] = <<>>
  /\ source # None => source \in heard \ asked

(* A welcome is under way at most once, and only between the answer of the *)
(* hello and the moment the connection becomes the source.                 *)
OneWelcome ==
  \A s \in Sockets : \A p \in 1 .. Len(link[s]) :
    link[s][p].type = "welcome"
      => /\ s \notin asked /\ source # s
         /\ Len(link[s][p].lines) <= WelcomeMax
         /\ OnlyChat(link[s], p + 1)

(* From the welcome on, the lines under way to an open connection run up to*)
(* the last one said, and the welcome ends where they begin.               *)
WelcomeUpToDate ==
  \A s \in clients : \A p \in 1 .. Len(link[s]) :
    link[s][p].type = "welcome"
      => /\ LinesUpTo(link[s], p + 1, said)
         /\ UpTo(link[s][p].lines, said - (Len(link[s]) - p))

(* Once it is the source, the same holds of what the page shows.           *)
SourceUpToDate ==
  source \in clients
    => /\ LinesUpTo(link[source], 1, said)
       /\ UpTo(chat, said - Len(link[source]))

FeedInv ==
  /\ TypeOK
  /\ UpTo(ring, said)
  /\ Answered
  /\ OneWelcome
  /\ WelcomeUpToDate
  /\ SourceUpToDate

-----------------------------------------------------------------------------
(* The buffers keep consecutive lines consecutive. *)

(* slice(-n) of lines has at most n of them. *)
LEMMA NewestTyped ==
  ASSUME NEW S, NEW lines \in Seq(S), NEW n \in Nat
  PROVE  Newest(lines, n) \in Seq(S) /\ Len(Newest(lines, n)) <= n
<1>1. CASE Len(lines) <= n
  BY <1>1, NewestShort
<1>2. CASE Len(lines) > n
  BY <1>2, NewestLong
<1> QED BY <1>1, <1>2

(* slice(-n) cuts at the old end: the newest line stays the last one. *)
LEMMA UpToNewest ==
  ASSUME NEW S, NEW lines \in Seq(S), NEW n \in Nat, NEW k \in Int, UpTo(lines, k)
  PROVE  UpTo(Newest(lines, n), k)
<1>1. CASE Len(lines) <= n
  BY <1>1, NewestShort
<1>2. CASE Len(lines) > n
  <2>1. /\ Newest(lines, n) \in Seq(S) /\ Len(Newest(lines, n)) = n
        /\ \A i \in 1 .. n : Newest(lines, n)[i] = lines[i + (Len(lines) - n)]
    BY <1>2, NewestLong
  <2>2. ASSUME NEW i \in 1 .. n PROVE lines[i + (Len(lines) - n)] = k - (n - i)
    <3>1. i + (Len(lines) - n) \in 1 .. Len(lines)
      BY <1>2
    <3> QED BY <3>1 DEF UpTo
  <2> QED BY <2>1, <2>2 DEF UpTo
<1> QED BY <1>1, <1>2

(* The next line continues the ones before it. *)
LEMMA UpToAppend ==
  ASSUME NEW S, NEW lines \in Seq(S), NEW k \in Int, k + 1 \in S, UpTo(lines, k)
  PROVE  Append(lines, k + 1) \in Seq(S) /\ UpTo(Append(lines, k + 1), k + 1)
<1> DEFINE longer == Append(lines, k + 1)
<1>1. longer \in Seq(S) /\ Len(longer) = Len(lines) + 1
  OBVIOUS
<1>2. ASSUME NEW i \in 1 .. Len(lines) + 1
      PROVE  longer[i] = (k + 1) - (Len(lines) + 1 - i)
  <2>1. CASE i = Len(lines) + 1
    BY <2>1
  <2>2. CASE i \in 1 .. Len(lines)
    BY <2>2 DEF UpTo
  <2> QED BY <2>1, <2>2
<1> HIDE DEF longer
<1>3. UpTo(longer, k + 1)
  BY <1>1, <1>2 DEF UpTo
<1> QED BY <1>1, <1>3 DEF longer

(* A full ring loses its oldest line, not its order (pushChat). *)
LEMMA UpToPushed ==
  ASSUME NEW S, NEW buffer \in Seq(S), NEW max \in Nat \ {0}, NEW k \in Int, k + 1 \in S,
         Len(buffer) <= max, UpTo(buffer, k)
  PROVE  /\ Pushed(buffer, k + 1, max) \in Seq(S)
         /\ Len(Pushed(buffer, k + 1, max)) <= max
         /\ UpTo(Pushed(buffer, k + 1, max), k + 1)
<1>1. /\ Append(buffer, k + 1) \in Seq(S) /\ UpTo(Append(buffer, k + 1), k + 1)
      /\ Len(Append(buffer, k + 1)) = Len(buffer) + 1
  BY UpToAppend
<1>2. PICK longer \in Seq(S) : longer = Append(buffer, k + 1)
  BY <1>1
<1>3. CASE Len(longer) <= max
  BY <1>1, <1>2, <1>3 DEF Pushed
<1>4. CASE Len(longer) > max
  <2>1. Pushed(buffer, k + 1, max) = Tail(longer)
    BY <1>2, <1>4 DEF Pushed
  <2>2. /\ Tail(longer) \in Seq(S) /\ Len(Tail(longer)) = Len(longer) - 1
        /\ \A i \in 1 .. Len(longer) - 1 : Tail(longer)[i] = longer[i + 1]
    BY <1>4
  <2>3. \A i \in 1 .. Len(longer) - 1 : longer[i + 1] = (k + 1) - (Len(longer) - 1 - i)
    BY <1>1, <1>2 DEF UpTo
  <2>4. UpTo(Tail(longer), k + 1)
    BY <2>2, <2>3 DEF UpTo
  <2>5. Len(Tail(longer)) <= max
    BY <1>1, <1>2, <2>2
  <2> QED BY <2>1, <2>2, <2>4, <2>5
<1> QED BY <1>2, <1>3, <1>4

(* Lines that count up to n are consecutive and end with n. *)
LEMMA UpToConsecutive ==
  ASSUME NEW S, NEW lines \in Seq(S), NEW k \in Int, UpTo(lines, k)
  PROVE  Consecutive(lines) /\ (lines # <<>> => lines[Len(lines)] = k)
<1>1. Consecutive(lines)
  BY DEF UpTo, Consecutive
<1>2. lines # <<>> => lines[Len(lines)] = k
  BY DEF UpTo
<1> QED BY <1>1, <1>2

-----------------------------------------------------------------------------
(* Type correctness. *)

(* An event has the fields of its type. *)
LEMMA EventFields ==
  ASSUME NEW e \in Event
  PROVE  /\ e.type \in {"chat", "welcome"}
         /\ e.type = "chat" => e.line \in Lines
         /\ e.type = "welcome" => e.lines \in Seq(Lines)
  BY DEF Event

(* Nothing is said and nobody is connected. *)
LEMMA FeedInit == Init => FeedInv
<1> SUFFICES ASSUME Init PROVE FeedInv
  OBVIOUS
<1> USE FeedAssumption DEF FeedAssumption, Init
<1>1. TypeOK
  <2>1. said \in 0 .. MaxLines /\ source \in Sockets \cup {None}
    OBVIOUS
  <2>2. ring \in Seq(Lines) /\ chat \in Seq(Lines) /\ Len(ring) = 0 /\ Len(chat) = 0
    OBVIOUS
  <2>3. link \in [Sockets -> Seq(Event)]
    OBVIOUS
  <2> QED BY <2>1, <2>2, <2>3 DEF TypeOK
<1>2. UpTo(ring, said)
  BY DEF UpTo
<1>3. Answered /\ OneWelcome /\ WelcomeUpToDate /\ SourceUpToDate
  BY DEF Answered, OneWelcome, WelcomeUpToDate, SourceUpToDate
<1> QED BY <1>1, <1>2, <1>3 DEF FeedInv

(* Every step keeps the types; a welcome is as short as it was sent. *)
LEMMA FeedTypeStep ==
  ASSUME FeedInv, [Next]_vars
  PROVE  TypeOK'
<1> USE FeedAssumption DEF FeedAssumption
<1>0. TypeOK /\ OneWelcome /\ UpTo(ring, said)
  BY DEF FeedInv
<1>1. CASE Say
  <2>1. said + 1 \in Lines /\ said' = said + 1 /\ said' \in 0 .. MaxLines
    BY <1>0, <1>1 DEF Say, TypeOK, Lines
  <2>2. ring' \in Seq(Lines) /\ Len(ring') <= RingMax
    BY <1>0, <1>1, <2>1, UpToPushed DEF Say, TypeOK
  <2>3. link' \in [Sockets -> Seq(Event)]
    <3>1. [type |-> "chat", line |-> said + 1] \in Event
      BY <2>1 DEF Event
    <3>2. ASSUME NEW e \in Event, NEW s \in Sockets
          PROVE  link[s] \in Seq(Event) /\ Append(link[s], e) \in Seq(Event)
      BY <1>0 DEF TypeOK
    <3> QED BY <1>1, <3>1, <3>2 DEF Say, PushToAll
  <2> QED BY <1>0, <1>1, <2>1, <2>2, <2>3 DEF Say, TypeOK
<1>2. CASE ResetRuntime
  BY <1>0, <1>2 DEF ResetRuntime, TypeOK
<1>3. CASE Reload
  BY <1>0, <1>3 DEF Reload, TypeOK, workerVars
<1>4. ASSUME NEW s \in Sockets, Hello(s) PROVE TypeOK'
  <2>1. [type |-> "welcome", lines |-> Newest(ring, WelcomeMax)] \in Event
    BY <1>0, NewestTyped DEF TypeOK, Event
  <2>2. ASSUME NEW e \in Event PROVE Append(link[s], e) \in Seq(Event)
    BY <1>0 DEF TypeOK
  <2>3. link' \in [Sockets -> Seq(Event)]
    BY <1>0, <1>4, <2>1, <2>2 DEF Hello, TypeOK
  <2> QED BY <1>0, <1>4, <2>3 DEF Hello, TypeOK, workerVars
<1>5. ASSUME NEW s \in Sockets, HelloRefused(s) \/ ClientGone(s) \/ SocketOpens(s)
      PROVE  TypeOK'
  BY <1>0, <1>5 DEF HelloRefused, ClientGone, SocketOpens, TypeOK, workerVars
<1>6. ASSUME NEW s \in Sockets, Deliver(s) PROVE TypeOK'
  <2> DEFINE e == Head(link[s])
  <2>0. link[s] \in Seq(Event) /\ link[s] # <<>>
    BY <1>0, <1>6 DEF Deliver, TypeOK
  <2>1. e \in Event /\ e = link[s][1] /\ 1 \in 1 .. Len(link[s])
        /\ Tail(link[s]) \in Seq(Event)
    BY <2>0
  <2>2. link' \in [Sockets -> Seq(Event)]
    BY <1>0, <1>6, <2>1 DEF Deliver, TypeOK
  <2>3. source' \in Sockets \cup {None}
    BY <1>0, <1>6 DEF Deliver, TypeOK
  <2>4. CASE e.type = "welcome"
    <3>1. chat' = e.lines
      BY <1>6, <2>4 DEF Deliver
    <3>2. Len(e.lines) <= WelcomeMax
      BY <1>0, <2>1, <2>4 DEF OneWelcome
    <3>3. chat' \in Seq(Lines) /\ Len(chat') <= WelcomeMax
      BY <2>1, <2>4, <3>1, <3>2, EventFields
    <3> QED BY <1>0, <1>6, <2>2, <2>3, <3>3 DEF Deliver, TypeOK, workerVars
  <2>5. CASE e.type # "welcome"
    <3>1. chat' = Newest(Append(chat, e.line), PageMax)
      BY <1>6, <2>5 DEF Deliver
    <3>2. e.line \in Lines
      BY <2>1, <2>5, EventFields
    <3>3. Append(chat, e.line) \in Seq(Lines)
      BY <1>0, <3>2 DEF TypeOK
    <3>4. chat' \in Seq(Lines) /\ Len(chat') <= PageMax
      BY <3>1, <3>3, NewestTyped
    <3> QED BY <1>0, <1>6, <2>2, <2>3, <3>4 DEF Deliver, TypeOK, workerVars
  <2> QED BY <2>4, <2>5
<1>7. ASSUME NEW s \in Sockets, SocketCloses(s) PROVE TypeOK'
  <2>1. link' \in [Sockets -> Seq(Event)]
    BY <1>0, <1>7 DEF SocketCloses, TypeOK
  <2> QED BY <1>0, <1>7, <2>1 DEF SocketCloses, TypeOK, workerVars
<1>8. CASE UNCHANGED vars
  BY <1>0, <1>8 DEF vars, workerVars, TypeOK
<1> QED BY <1>1, <1>2, <1>3, <1>4, <1>5, <1>6, <1>7, <1>8 DEF Next

-----------------------------------------------------------------------------
(* The queue of a connection.                                              *)

(* The next line goes to the end of a queue (pushChat of the gateway). *)
LEMMA ChatAdded ==
  ASSUME NEW S, NEW queue \in Seq(S), NEW e \in S, NEW p \in Nat \ {0}, NEW n \in Int,
         e.type = "chat", e.line = n + 1
  PROVE  /\ Append(queue, e) \in Seq(S) /\ Len(Append(queue, e)) = Len(queue) + 1
         /\ \A i \in 1 .. Len(queue) : Append(queue, e)[i] = queue[i]
         /\ Append(queue, e)[Len(queue) + 1] = e
         /\ OnlyChat(queue, p) => OnlyChat(Append(queue, e), p)
         /\ LinesUpTo(queue, p, n) => LinesUpTo(Append(queue, e), p, n + 1)
<1> DEFINE longer == Append(queue, e)
<1>1. /\ longer \in Seq(S) /\ Len(longer) = Len(queue) + 1
      /\ \A i \in 1 .. Len(queue) : longer[i] = queue[i]
      /\ longer[Len(queue) + 1] = e
  OBVIOUS
<1> HIDE DEF longer
<1>2. \A i \in p .. Len(longer) : i \in p .. Len(queue) \/ i = Len(queue) + 1
  BY <1>1
<1>3. OnlyChat(queue, p) => OnlyChat(longer, p)
  BY <1>1, <1>2 DEF OnlyChat
<1>4. ASSUME LinesUpTo(queue, p, n)  PROVE LinesUpTo(longer, p, n + 1)
  <2>1. ASSUME NEW i \in p .. Len(longer)
        PROVE  longer[i].line = (n + 1) - (Len(longer) - i)
    <3>1. CASE i \in p .. Len(queue)
      BY <1>1, <1>4, <3>1 DEF LinesUpTo
    <3>2. CASE i = Len(queue) + 1
      BY <1>1, <3>2
    <3> QED BY <1>2, <3>1, <3>2
  <2> QED BY <2>1 DEF LinesUpTo
<1> QED BY <1>1, <1>3, <1>4 DEF longer

(* A delivered event leaves the rest one position further to the front. *)
LEMMA QueueAdvances ==
  ASSUME NEW S, NEW queue \in Seq(S), queue # <<>>, NEW p \in Nat \ {0}, NEW n \in Int
  PROVE  /\ Tail(queue) \in Seq(S) /\ Len(Tail(queue)) = Len(queue) - 1
         /\ \A i \in 1 .. Len(queue) - 1 : Tail(queue)[i] = queue[i + 1]
         /\ OnlyChat(queue, p + 1) => OnlyChat(Tail(queue), p)
         /\ LinesUpTo(queue, p + 1, n) => LinesUpTo(Tail(queue), p, n)
<1> DEFINE rest == Tail(queue)
<1>1. /\ rest \in Seq(S) /\ Len(rest) = Len(queue) - 1
      /\ \A i \in 1 .. Len(queue) - 1 : rest[i] = queue[i + 1]
  OBVIOUS
<1> HIDE DEF rest
<1>2. \A i \in p .. Len(rest) : i + 1 \in p + 1 .. Len(queue) /\ rest[i] = queue[i + 1]
  BY <1>1
<1>3. OnlyChat(queue, p + 1) => OnlyChat(rest, p)
  BY <1>2 DEF OnlyChat
<1>4. ASSUME LinesUpTo(queue, p + 1, n)  PROVE LinesUpTo(rest, p, n)
  <2>1. ASSUME NEW i \in p .. Len(rest)  PROVE rest[i].line = n - (Len(rest) - i)
    <3>1. i + 1 \in p + 1 .. Len(queue) /\ rest[i] = queue[i + 1]
      BY <1>2
    <3>2. queue[i + 1].line = n - (Len(queue) - (i + 1))
      BY <1>4, <3>1 DEF LinesUpTo
    <3>3. Len(queue) - (i + 1) = Len(rest) - i
      BY <1>1
    <3> QED BY <3>1, <3>2, <3>3
  <2> QED BY <2>1 DEF LinesUpTo
<1> QED BY <1>1, <1>3, <1>4 DEF rest

-----------------------------------------------------------------------------
(* The numbering survives each step. *)

LinkInv == Answered /\ OneWelcome /\ WelcomeUpToDate /\ SourceUpToDate

(* A line said reaches every open connection that the page listens to, at  *)
(* the end of what it carries.                                             *)
LEMMA SayStep ==
  ASSUME FeedInv, Say
  PROVE  LinkInv'
<1> USE FeedAssumption DEF FeedAssumption
<1> DEFINE e == [type |-> "chat", line |-> said + 1]
           S == Event \cup {e}
<1>0. /\ TypeOK /\ Answered /\ OneWelcome /\ WelcomeUpToDate /\ SourceUpToDate
      /\ said \in Nat /\ said' = said + 1
      /\ UNCHANGED <<clients, asked, heard, chat, source>>
  BY DEF FeedInv, TypeOK, Say
<1>1. \A s \in Sockets : link[s] \in Seq(S)
  BY <1>0 DEF TypeOK
<1>2. e.type = "chat" /\ e.line = said + 1 /\ e \in S
  OBVIOUS
<1>3. \A s \in Sockets : link'[s] = IF s \in clients \cap heard THEN Append(link[s], e) ELSE link[s]
  BY DEF Say, PushToAll
<1> HIDE DEF e, S
<1>4. Answered'
  BY <1>0, <1>3 DEF Answered
<1>5. ASSUME NEW s \in Sockets, s \in clients \cap heard, NEW p \in Nat \ {0}
      PROVE  /\ Len(link[s]) \in Nat /\ Len(link'[s]) = Len(link[s]) + 1
             /\ \A i \in 1 .. Len(link[s]) : link'[s][i] = link[s][i]
             /\ \A i \in 1 .. Len(link'[s]) : link'[s][i].type = "welcome" => i \in 1 .. Len(link[s])
             /\ OnlyChat(link[s], p) => OnlyChat(link'[s], p)
             /\ LinesUpTo(link[s], p, said) => LinesUpTo(link'[s], p, said')
  <2>1. link'[s] = Append(link[s], e)
    BY <1>3, <1>5
  <2>2. PICK queue \in Seq(S) : queue = link[s]
    BY <1>1
  <2>a. said \in Int /\ Len(queue) \in Nat
    BY <1>0
  <2>3. /\ Len(Append(queue, e)) = Len(queue) + 1
        /\ \A i \in 1 .. Len(queue) : Append(queue, e)[i] = queue[i]
        /\ Append(queue, e)[Len(queue) + 1] = e
        /\ OnlyChat(queue, p) => OnlyChat(Append(queue, e), p)
        /\ LinesUpTo(queue, p, said) => LinesUpTo(Append(queue, e), p, said + 1)
    <3> HIDE <1>0, <1>3, <1>4
    <3>1. Len(Append(queue, e)) = Len(queue) + 1
      BY <1>2, <2>a, ChatAdded
    <3>2. \A i \in 1 .. Len(queue) : Append(queue, e)[i] = queue[i]
      BY <1>2, <2>a, ChatAdded
    <3>3. Append(queue, e)[Len(queue) + 1] = e
      BY <1>2, <2>a, ChatAdded
    <3>4. OnlyChat(queue, p) => OnlyChat(Append(queue, e), p)
      BY <1>2, <2>a, ChatAdded
    <3>5. LinesUpTo(queue, p, said) => LinesUpTo(Append(queue, e), p, said + 1)
      BY <1>2, <2>a, ChatAdded
    <3> QED BY <3>1, <3>2, <3>3, <3>4, <3>5
  <2>4. Append(queue, e) = link'[s] /\ said + 1 = said'
    BY <1>0, <2>1, <2>2
  <2>5. \A i \in 1 .. Len(link'[s]) : link'[s][i].type = "welcome" => i \in 1 .. Len(link[s])
    BY <1>2, <2>2, <2>a, <2>3, <2>4
  <2> QED BY <2>2, <2>a, <2>3, <2>4, <2>5
<1>6. OneWelcome'
  <2> SUFFICES ASSUME NEW s \in Sockets, NEW p \in 1 .. Len(link'[s]), link'[s][p].type = "welcome"
               PROVE  /\ s \notin asked /\ source # s
                      /\ Len(link'[s][p].lines) <= WelcomeMax
                      /\ OnlyChat(link'[s], p + 1)
    BY <1>0 DEF OneWelcome
  <2>1. CASE s \in clients \cap heard
    <3>1. p \in 1 .. Len(link[s]) /\ link[s][p] = link'[s][p]
      BY <1>5, <2>1
    <3>2. /\ s \notin asked /\ source # s
          /\ Len(link[s][p].lines) <= WelcomeMax
          /\ OnlyChat(link[s], p + 1)
      BY <1>0, <3>1 DEF OneWelcome
    <3>3. p + 1 \in Nat \ {0}
      BY <3>1
    <3> QED BY <1>5, <2>1, <3>1, <3>2, <3>3
  <2>2. CASE s \notin clients \cap heard
    <3>1. link'[s] = link[s]
      BY <1>3, <2>2
    <3> QED BY <1>0, <3>1 DEF OneWelcome
  <2> QED BY <2>1, <2>2
<1>7. WelcomeUpToDate'
  <2> SUFFICES ASSUME NEW s \in clients, NEW p \in 1 .. Len(link'[s]), link'[s][p].type = "welcome"
               PROVE  /\ LinesUpTo(link'[s], p + 1, said')
                      /\ UpTo(link'[s][p].lines, said' - (Len(link'[s]) - p))
    BY <1>0 DEF WelcomeUpToDate
  <2>0. s \in Sockets
    BY <1>0 DEF TypeOK
  <2>1. CASE s \in heard
    <3>1. /\ p \in 1 .. Len(link[s]) /\ link[s][p] = link'[s][p]
          /\ Len(link[s]) \in Nat /\ Len(link'[s]) = Len(link[s]) + 1
      BY <1>5, <2>0, <2>1
    <3>2. /\ LinesUpTo(link[s], p + 1, said)
          /\ UpTo(link[s][p].lines, said - (Len(link[s]) - p))
      BY <1>0, <3>1 DEF WelcomeUpToDate
    <3>3. p + 1 \in Nat \ {0} /\ said' - (Len(link'[s]) - p) = said - (Len(link[s]) - p)
      BY <1>0, <3>1
    <3>4. LinesUpTo(link'[s], p + 1, said')
      BY <1>5, <2>0, <2>1, <3>2, <3>3
    <3> QED BY <3>1, <3>2, <3>3, <3>4
  <2>2. CASE s \notin heard
    <3>1. link'[s] = <<>>
      BY <1>0, <1>3, <2>0, <2>2 DEF Answered
    <3> QED BY <3>1
  <2> QED BY <2>1, <2>2
<1>8. SourceUpToDate'
  <2> SUFFICES ASSUME source \in clients
               PROVE  LinesUpTo(link'[source], 1, said') /\ UpTo(chat, said' - Len(link'[source]))
    BY <1>0 DEF SourceUpToDate
  <2>0. source \in Sockets /\ source \in clients \cap heard
    BY <1>0, FeedAssumption DEF TypeOK, Answered
  <2>1. LinesUpTo(link[source], 1, said) /\ UpTo(chat, said - Len(link[source]))
    BY <1>0 DEF SourceUpToDate
  <2>2. Len(link[source]) \in Nat /\ Len(link'[source]) = Len(link[source]) + 1
    BY <1>5, <2>0
  <2>3. said' - Len(link'[source]) = said - Len(link[source])
    BY <1>0, <2>2
  <2>4. LinesUpTo(link'[source], 1, said')
    BY <1>5, <2>0, <2>1
  <2> QED BY <2>1, <2>3, <2>4
<1> QED BY <1>4, <1>6, <1>7, <1>8 DEF LinkInv

(* The welcome of an accepted hello is the first that the connection gets. *)
LEMMA HelloStep ==
  ASSUME FeedInv, NEW s \in Sockets, Hello(s)
  PROVE  LinkInv'
<1> DEFINE e == [type |-> "welcome", lines |-> Newest(ring, WelcomeMax)]
           n == Len(link[s])
<1>0. /\ TypeOK /\ Answered /\ OneWelcome /\ WelcomeUpToDate /\ SourceUpToDate
      /\ said \in Nat /\ UpTo(ring, said)
      /\ s \in asked /\ s \in clients /\ asked' = asked \ {s}
      /\ UNCHANGED <<said, ring, clients, heard, chat, source>>
      /\ link[s] \in Seq(Event) /\ n \in Nat
  BY DEF FeedInv, TypeOK, Answered, Hello, workerVars
<1>1. source # s
  BY <1>0, FeedAssumption DEF Answered, FeedAssumption
<1>2. CASE s \notin heard
  <2>1. link' = link
    BY <1>2 DEF Hello
  <2> QED BY <1>0, <2>1 DEF LinkInv, Answered, OneWelcome, WelcomeUpToDate, SourceUpToDate
<1>3. CASE s \in heard
  <2>1. \A t \in Sockets : t # s => link'[t] = link[t]
    BY <1>0, <1>3 DEF Hello, TypeOK
  <2>2. /\ Len(link'[s]) = n + 1
        /\ \A i \in 1 .. n : link'[s][i] = link[s][i]
        /\ link'[s][n + 1] = e
    <3>1. link'[s] = Append(link[s], e)
      BY <1>0, <1>3 DEF Hello, TypeOK
    <3>2. link[s] \in Seq(Event \cup {e})
      BY <1>0
    <3> HIDE DEF e
    <3> QED BY <3>1, <3>2
  <2>3. \A i \in 1 .. n : link[s][i].type # "welcome"
    BY <1>0 DEF OneWelcome
  <2>4. Len(e.lines) <= WelcomeMax /\ UpTo(e.lines, said)
    BY <1>0, FeedAssumption, NewestTyped, UpToNewest DEF TypeOK, FeedAssumption
  <2> HIDE DEF e, n
  <2>5. ASSUME NEW p \in 1 .. Len(link'[s]), link'[s][p].type = "welcome"
        PROVE  /\ link'[s][p] = e /\ said - (Len(link'[s]) - p) = said
               /\ OnlyChat(link'[s], p + 1) /\ LinesUpTo(link'[s], p + 1, said)
    <3>1. p = n + 1
      BY <1>0, <2>2, <2>3, <2>5
    <3>2. Len(link'[s]) - p = 0 /\ p + 1 .. Len(link'[s]) = {}
      BY <1>0, <2>2, <3>1
    <3> QED BY <1>0, <2>2, <3>1, <3>2 DEF OnlyChat, LinesUpTo
  <2>6. Answered'
    BY <1>0, <1>3, <2>1 DEF Answered
  <2>7. OneWelcome'
    <3> SUFFICES ASSUME NEW t \in Sockets, NEW p \in 1 .. Len(link'[t]), link'[t][p].type = "welcome"
                 PROVE  /\ t \notin asked' /\ source # t
                        /\ Len(link'[t][p].lines) <= WelcomeMax
                        /\ OnlyChat(link'[t], p + 1)
      BY <1>0 DEF OneWelcome
    <3>1. CASE t = s
      BY <1>0, <1>1, <2>4, <2>5, <3>1
    <3>2. CASE t # s
      BY <1>0, <2>1, <3>2 DEF OneWelcome
    <3> QED BY <3>1, <3>2
  <2>8. WelcomeUpToDate'
    <3> SUFFICES ASSUME NEW t \in clients, NEW p \in 1 .. Len(link'[t]), link'[t][p].type = "welcome"
                 PROVE  /\ LinesUpTo(link'[t], p + 1, said)
                        /\ UpTo(link'[t][p].lines, said - (Len(link'[t]) - p))
      BY <1>0 DEF WelcomeUpToDate
    <3>1. CASE t = s
      BY <2>4, <2>5, <3>1
    <3>2. CASE t # s
      <4>1. link'[t] = link[t]
        BY <1>0, <2>1, <3>2 DEF TypeOK
      <4> QED BY <1>0, <4>1 DEF WelcomeUpToDate
    <3> QED BY <3>1, <3>2
  <2>9. SourceUpToDate'
    <3>1. source \in clients => link'[source] = link[source]
      BY <1>0, <1>1, <2>1 DEF TypeOK
    <3> QED BY <1>0, <3>1 DEF SourceUpToDate
  <2> QED BY <2>6, <2>7, <2>8, <2>9 DEF LinkInv
<1> QED BY <1>2, <1>3

(* The page handles the next event: a welcome makes the connection the     *)
(* source, with what follows it; a line goes to the end of what is shown.  *)
LEMMA DeliverStep ==
  ASSUME FeedInv, NEW s \in Sockets, Deliver(s)
  PROVE  LinkInv'
<1> USE FeedAssumption DEF FeedAssumption
<1> DEFINE e == Head(link[s])
           n == Len(link[s])
<1>0. /\ TypeOK /\ Answered /\ OneWelcome /\ WelcomeUpToDate /\ SourceUpToDate
      /\ said \in Int /\ s \in heard
      /\ UNCHANGED <<said, ring, clients, asked, heard>>
      /\ link[s] \in Seq(Event) /\ link[s] # <<>>
      /\ clients \subseteq Sockets
  BY DEF FeedInv, TypeOK, Deliver, workerVars
<1>1. \A t \in Sockets : t # s => link'[t] = link[t]
  BY DEF Deliver
<1>2. link'[s] = Tail(link[s])
  BY <1>0 DEF Deliver, TypeOK
<1>3. /\ e = link[s][1] /\ e \in Event /\ n \in Nat /\ 1 \in 1 .. n
      /\ Len(link'[s]) = n - 1
      /\ \A i \in 1 .. n - 1 : link'[s][i] = link[s][i + 1]
  BY <1>0, <1>2
<1>4. ASSUME NEW p \in Nat \ {0}
      PROVE  /\ OnlyChat(link[s], p + 1) => OnlyChat(link'[s], p)
             /\ LinesUpTo(link[s], p + 1, said) => LinesUpTo(link'[s], p, said)
  <2>1. OnlyChat(link[s], p + 1) => OnlyChat(Tail(link[s]), p)
    BY <1>0, QueueAdvances
  <2>2. LinesUpTo(link[s], p + 1, said) => LinesUpTo(Tail(link[s]), p, said)
    BY <1>0, QueueAdvances
  <2> QED BY <1>2, <2>1, <2>2
<1>5. /\ e.type = "welcome" => chat' = e.lines /\ source' = s
      /\ e.type # "welcome" => /\ chat' = Newest(Append(chat, e.line), PageMax)
                               /\ source' = IF source = s THEN s ELSE None
  BY DEF Deliver
<1> HIDE DEF e, n
<1>6. Answered'
  <2>1. e.type = "welcome" => s \notin asked
    BY <1>0, <1>3 DEF OneWelcome, n
  <2>2. source' # None => source' \in heard \ asked
    BY <1>0, <1>5, <2>1 DEF Answered
  <2> QED BY <1>0, <1>1, <2>2 DEF Answered
<1>7. ASSUME NEW p \in 1 .. Len(link'[s]), link'[s][p].type = "welcome"
      PROVE  /\ p + 1 \in 1 .. n /\ link[s][p + 1] = link'[s][p]
             /\ e.type # "welcome"
             /\ Len(link'[s]) - p = n - (p + 1)
             /\ p \in Nat \ {0} /\ p + 1 \in Nat \ {0}
  <2>1. p + 1 \in 1 .. n /\ p + 1 \in 2 .. n /\ link[s][p + 1] = link'[s][p]
        /\ Len(link'[s]) - p = n - (p + 1)
    BY <1>3
  <2>2. e.type = "welcome" => link[s][p + 1].type = "chat"
    <3>1. e.type = "welcome" => OnlyChat(link[s], 1 + 1)
      BY <1>0, <1>3 DEF OneWelcome, n
    <3> QED BY <2>1, <3>1 DEF OnlyChat, n
  <2> QED BY <1>7, <2>1, <2>2
<1>8. OneWelcome'
  <2> SUFFICES ASSUME NEW t \in Sockets, NEW p \in 1 .. Len(link'[t]), link'[t][p].type = "welcome"
               PROVE  /\ t \notin asked /\ source' # t
                      /\ Len(link'[t][p].lines) <= WelcomeMax
                      /\ OnlyChat(link'[t], p + 1)
    BY <1>0 DEF OneWelcome
  <2>1. CASE t = s
    <3>1. /\ p + 1 \in 1 .. n /\ link[s][p + 1] = link'[s][p]
          /\ e.type # "welcome" /\ p + 1 \in Nat \ {0}
      BY <1>7, <2>1
    <3>2. /\ s \notin asked /\ source # s /\ Len(link[s][p + 1].lines) <= WelcomeMax
          /\ OnlyChat(link[s], (p + 1) + 1)
      BY <1>0, <2>1, <3>1 DEF OneWelcome, n
    <3>3. source' # s
      BY <1>0, <1>5, <3>1, <3>2
    <3> QED BY <1>4, <2>1, <3>1, <3>2, <3>3
  <2>2. CASE t # s
    <3>1. /\ t \notin asked /\ source # t /\ Len(link[t][p].lines) <= WelcomeMax
          /\ OnlyChat(link[t], p + 1) /\ link'[t] = link[t]
      BY <1>0, <1>1, <2>2 DEF OneWelcome
    <3>2. source' # t
      BY <1>0, <1>5, <2>2
    <3> QED BY <3>1, <3>2
  <2> QED BY <2>1, <2>2
<1>9. WelcomeUpToDate'
  <2> SUFFICES ASSUME NEW t \in clients, NEW p \in 1 .. Len(link'[t]), link'[t][p].type = "welcome"
               PROVE  /\ LinesUpTo(link'[t], p + 1, said)
                      /\ UpTo(link'[t][p].lines, said - (Len(link'[t]) - p))
    BY <1>0 DEF WelcomeUpToDate
  <2>1. CASE t = s
    <3>1. /\ p + 1 \in 1 .. n /\ link[s][p + 1] = link'[s][p]
          /\ Len(link'[s]) - p = n - (p + 1) /\ p + 1 \in Nat \ {0}
      BY <1>7, <2>1
    <3>2. /\ LinesUpTo(link[s], (p + 1) + 1, said)
          /\ UpTo(link[s][p + 1].lines, said - (n - (p + 1)))
      BY <1>0, <2>1, <3>1 DEF WelcomeUpToDate, n
    <3> QED BY <1>4, <2>1, <3>1, <3>2
  <2>2. CASE t # s
    <3>1. link'[t] = link[t]
      BY <1>0, <1>1, <2>2
    <3> QED BY <1>0, <3>1 DEF WelcomeUpToDate
  <2> QED BY <2>1, <2>2
<1>10. SourceUpToDate'
  <2> SUFFICES ASSUME source' \in clients
               PROVE  LinesUpTo(link'[source'], 1, said) /\ UpTo(chat', said - Len(link'[source']))
    BY <1>0 DEF SourceUpToDate
  <2>1. source' = s
    BY <1>0, <1>5
  <2>2. CASE e.type = "welcome"
    <3>1. /\ LinesUpTo(link[s], 1 + 1, said)
          /\ UpTo(e.lines, said - (n - 1))
      BY <1>0, <1>3, <2>1, <2>2 DEF WelcomeUpToDate, n
    <3> QED BY <1>3, <1>4, <1>5, <2>1, <2>2, <3>1
  <2>3. CASE e.type # "welcome"
    <3>0. source = s
      BY <1>0, <1>5, <2>1, <2>3
    <3>1. LinesUpTo(link[s], 1, said) /\ UpTo(chat, said - n)
      BY <1>0, <2>1, <3>0 DEF SourceUpToDate, n
    <3>2. LinesUpTo(link[s], 1 + 1, said)
      BY <3>1 DEF LinesUpTo
    <3>3. e.line = (said - n) + 1 /\ e.line \in Lines /\ said - n \in Int
      <4>1. e.line = said - (n - 1)
        BY <1>3, <3>1 DEF LinesUpTo, n
      <4>2. e.line \in Lines
        BY <1>3, <2>3, EventFields
      <4> QED BY <1>0, <1>3, <4>1, <4>2
    <3>4. chat \in Seq(Lines)
      BY <1>0 DEF TypeOK
    <3>5. Append(chat, e.line) \in Seq(Lines) /\ UpTo(Append(chat, e.line), (said - n) + 1)
      BY <3>1, <3>3, <3>4, UpToAppend
    <3>6. UpTo(chat', (said - n) + 1)
      <4>1. chat' = Newest(Append(chat, e.line), PageMax) /\ PageMax \in Nat
        BY <1>5, <2>3
      <4>2. (said - n) + 1 \in Int
        BY <3>3
      <4>3. PICK longer \in Seq(Lines) : longer = Append(chat, e.line)
        BY <3>5
      <4>4. UpTo(longer, (said - n) + 1)
        BY <3>3, <3>5, <4>3
      <4>5. UpTo(Newest(longer, PageMax), (said - n) + 1)
        BY <4>1, <4>2, <4>4, UpToNewest
      <4> QED BY <4>1, <4>3, <4>5
    <3>7. (said - n) + 1 = said - Len(link'[s])
      BY <1>0, <1>3
    <3> QED BY <1>4, <2>1, <3>2, <3>6, <3>7
  <2> QED BY <2>2, <2>3
<1> QED BY <1>6, <1>8, <1>9, <1>10 DEF LinkInv

(* The other steps only take connections and what they carry away.         *)
LEMMA FeedOtherStep ==
  ASSUME FeedInv,
         \/ ResetRuntime \/ Reload \/ UNCHANGED vars
         \/ \E s \in Sockets : HelloRefused(s) \/ ClientGone(s) \/ SocketOpens(s) \/ SocketCloses(s)
  PROVE  LinkInv'
<1> USE FeedAssumption DEF FeedAssumption
<1>0. /\ TypeOK /\ Answered /\ OneWelcome /\ WelcomeUpToDate /\ SourceUpToDate
      /\ None \notin clients /\ clients \subseteq Sockets
  BY DEF FeedInv, TypeOK
<1>1. CASE ResetRuntime \/ UNCHANGED vars
  BY <1>0, <1>1 DEF ResetRuntime, vars, workerVars, LinkInv, Answered, OneWelcome,
                    WelcomeUpToDate, SourceUpToDate
<1>2. CASE Reload
  <2>1. /\ UNCHANGED <<clients, asked, said>> /\ source' = None
        /\ \A s \in Sockets : link'[s] = <<>>
    BY <1>2 DEF Reload, workerVars
  <2> QED BY <1>0, <2>1 DEF LinkInv, Answered, OneWelcome, WelcomeUpToDate, SourceUpToDate
<1>3. ASSUME NEW s \in Sockets, HelloRefused(s) \/ ClientGone(s)
      PROVE  LinkInv'
  <2>1. /\ UNCHANGED <<said, heard, link, chat, source>>
        /\ clients' \subseteq clients /\ asked' \subseteq asked
        /\ asked' \subseteq clients'
    BY <1>0, <1>3 DEF HelloRefused, ClientGone, workerVars, Answered
  <2> QED BY <1>0, <2>1 DEF LinkInv, Answered, OneWelcome, WelcomeUpToDate, SourceUpToDate
<1>4. ASSUME NEW s \in Sockets, SocketOpens(s)
      PROVE  LinkInv'
  <2>1. /\ UNCHANGED <<said, link, chat, source>>
        /\ clients' = clients \cup {s} /\ asked' = asked \cup {s} /\ heard' = heard \cup {s}
        /\ link[s] = <<>> /\ source # s
    BY <1>0, <1>4 DEF SocketOpens, workerVars, Answered
  <2>2. Answered'
    <3>1. asked' \subseteq clients' /\ (source # None => source \in heard' \ asked')
      BY <1>0, <2>1 DEF Answered
    <3>2. \A t \in Sockets : t \notin heard' => link'[t] = <<>>
      BY <1>0, <2>1 DEF Answered
    <3> QED BY <2>1, <3>1, <3>2 DEF Answered
  <2>3. OneWelcome'
    <3>1. \A t \in Sockets : \A p \in 1 .. Len(link[t]) : t \notin asked => t \notin asked'
      <4>1. 1 .. Len(link[s]) = {}
        BY <2>1
      <4> QED BY <2>1, <4>1
    <3> QED BY <1>0, <2>1, <3>1 DEF OneWelcome
  <2>4. WelcomeUpToDate'
    BY <1>0, <2>1 DEF WelcomeUpToDate
  <2>5. SourceUpToDate'
    <3>1. source \in clients' => source \in clients
      BY <2>1
    <3> QED BY <1>0, <2>1, <3>1 DEF SourceUpToDate
  <2> QED BY <2>2, <2>3, <2>4, <2>5 DEF LinkInv
<1>5. ASSUME NEW s \in Sockets, SocketCloses(s)
      PROVE  LinkInv'
  <2>1. /\ UNCHANGED <<said, clients, asked, chat>>
        /\ heard' = heard \ {s} /\ s \notin clients
        /\ source' = IF source = s THEN None ELSE source
        /\ link'[s] = <<>> /\ \A t \in Sockets : t # s => link'[t] = link[t]
    BY <1>0, <1>5 DEF SocketCloses, workerVars, TypeOK
  <2>2. Answered'
    BY <1>0, <2>1 DEF Answered
  <2>3. OneWelcome'
    <3> SUFFICES ASSUME NEW t \in Sockets, NEW p \in 1 .. Len(link'[t]), link'[t][p].type = "welcome"
                 PROVE  /\ t \notin asked /\ source' # t
                        /\ Len(link'[t][p].lines) <= WelcomeMax
                        /\ OnlyChat(link'[t], p + 1)
      BY <2>1 DEF OneWelcome
    <3>1. t # s /\ link'[t] = link[t]
      BY <2>1
    <3> QED BY <1>0, <2>1, <3>1 DEF OneWelcome
  <2>4. WelcomeUpToDate'
    <3>1. \A t \in clients : link'[t] = link[t]
      BY <1>0, <2>1
    <3> QED BY <1>0, <2>1, <3>1 DEF WelcomeUpToDate
  <2>5. SourceUpToDate'
    <3>1. source' \in clients => source' = source /\ link'[source] = link[source]
      BY <1>0, <2>1
    <3> QED BY <1>0, <2>1, <3>1 DEF SourceUpToDate
  <2> QED BY <2>2, <2>3, <2>4, <2>5 DEF LinkInv
<1> QED BY <1>1, <1>2, <1>3, <1>4, <1>5

-----------------------------------------------------------------------------
(* Every step keeps the invariant. *)
LEMMA FeedStep ==
  ASSUME FeedInv, [Next]_vars
  PROVE  FeedInv'
<1>1. TypeOK'
  BY FeedTypeStep
<1>2. UpTo(ring, said)'
  <2>0. ring \in Seq(Lines) /\ Len(ring) <= RingMax /\ said \in Nat /\ UpTo(ring, said)
    BY DEF FeedInv, TypeOK
  <2>1. CASE Say
    <3>1. said' = said + 1 /\ ring' = Pushed(ring, said + 1, RingMax) /\ said + 1 \in Lines
      BY <2>0, <2>1, FeedAssumption DEF Say, Lines, FeedAssumption
    <3>2. UpTo(Pushed(ring, said + 1, RingMax), said + 1)
      BY <2>0, <3>1, FeedAssumption, UpToPushed DEF FeedAssumption
    <3>3. UpTo(ring', said')
      BY <3>1, <3>2
    <3> QED BY <3>3 DEF UpTo
  <2>2. CASE ResetRuntime
    <3>1. ring' = <<>>
      BY <2>2 DEF ResetRuntime
    <3> QED BY <3>1 DEF UpTo
  <2>3. CASE UNCHANGED workerVars
    BY <2>0, <2>3 DEF workerVars, UpTo
  <2> QED BY <2>1, <2>2, <2>3
          DEF Next, vars, Reload, Hello, HelloRefused, ClientGone, SocketOpens, Deliver,
              SocketCloses
<1>3. LinkInv'
  BY SayStep, HelloStep, DeliverStep, FeedOtherStep DEF Next
<1> QED BY <1>1, <1>2, <1>3 DEF FeedInv, LinkInv

(* FeedInv holds in every reachable state: what is under way to a page and *)
(* what it shows fit together, however many lines and connections there    *)
(* are (pushChat, sendWelcome, onmessage).                                 *)
THEOREM FeedInvariant == Spec => []FeedInv
<1>1. Init => FeedInv
  BY FeedInit
<1>2. FeedInv /\ [Next]_vars => FeedInv'
  BY FeedStep
<1> QED BY <1>1, <1>2, PTL DEF Spec

(* Type correctness of the feed. *)
THEOREM FeedTypeCorrect == Spec => []TypeOK
<1>1. FeedInv => TypeOK
  BY DEF FeedInv
<1> QED BY <1>1, FeedInvariant, PTL

(* Whatever a welcome would carry is the newest of what was said since the *)
(* last reset, in order and without a gap (pushChat, resetRuntime).        *)
THEOREM RingShowsNewest == Spec => []RingNewest
<1>1. FeedInv => RingNewest
  BY UpToConsecutive DEF FeedInv, TypeOK, RingNewest
<1> QED BY <1>1, FeedInvariant, PTL

(* A page fed by one open connection misses no line and shows none twice,  *)
(* for every number of connections and every capacity (pushChat,           *)
(* sendWelcome, onmessage).                                                *)
THEOREM PageMissesNothing == Spec => []NoGap
<1>1. FeedInv => NoGap
  <2> SUFFICES ASSUME FeedInv, source \in clients
               PROVE  LET lines == chat \o Arriving(source)
                      IN  Consecutive(lines) /\ (lines # <<>> => lines[Len(lines)] = said)
    BY DEF NoGap
  <2> DEFINE arriving == Arriving(source)
             n == Len(link[source])
             lines == chat \o arriving
  <2>0. /\ source \in Sockets /\ source # None /\ link[source] \in Seq(Event) /\ n \in Nat
        /\ chat \in Seq(Lines) /\ said \in Int
        /\ LinesUpTo(link[source], 1, said) /\ UpTo(chat, said - n)
    BY FeedAssumption DEF FeedInv, TypeOK, SourceUpToDate, FeedAssumption
  <2>1. arriving \in Seq(Int) /\ Len(arriving) = n
        /\ \A i \in 1 .. n : arriving[i] = said - (n - i)
    <3>1. \A i \in 1 .. n : link[source][i].line = said - (n - i)
      BY <2>0 DEF LinesUpTo
    <3>2. arriving = [i \in 1 .. n |-> link[source][i].line]
      BY DEF Arriving
    <3> HIDE DEF arriving, n
    <3>3. arriving \in [1 .. n -> Int]
      <4>1. \A i \in 1 .. n : said - (n - i) \in Int
        BY <2>0
      <4> QED BY <3>1, <3>2, <4>1
    <3>4. Len(arriving) = n /\ arriving \in Seq(Int)
      BY <2>0, <3>3
    <3> QED BY <3>1, <3>2, <3>4
  <2> HIDE DEF arriving, n
  <2>2. chat \in Seq(Int)
    <3>1. Lines \subseteq Int
      BY DEF Lines
    <3>2. chat \in Seq(Lines)
      BY <2>0
    <3> QED BY <3>1, <3>2, WiderSeq
  <2>3. /\ lines \in Seq(Int) /\ Len(lines) = Len(chat) + Len(arriving)
        /\ \A i \in 1 .. Len(chat) : lines[i] = chat[i]
        /\ \A i \in Len(chat) + 1 .. Len(chat) + Len(arriving) : lines[i] = arriving[i - Len(chat)]
    <3>1. \A one, two \in Seq(Int) :
            /\ one \o two \in Seq(Int) /\ Len(one \o two) = Len(one) + Len(two)
            /\ \A i \in 1 .. Len(one) : (one \o two)[i] = one[i]
            /\ \A i \in Len(one) + 1 .. Len(one) + Len(two) : (one \o two)[i] = two[i - Len(one)]
      OBVIOUS
    <3> QED BY <2>1, <2>2, <3>1, Zenon
  <2> HIDE DEF lines
  <2>4. ASSUME NEW i \in 1 .. Len(lines)  PROVE lines[i] = said - (Len(lines) - i)
    <3>1. CASE i \in 1 .. Len(chat)
      <4>1. lines[i] = (said - n) - (Len(chat) - i)
        BY <2>0, <2>3, <3>1 DEF UpTo
      <4> QED BY <2>0, <2>1, <2>2, <2>3, <4>1
    <3>2. CASE i \in Len(chat) + 1 .. Len(chat) + n
      <4>1. i - Len(chat) \in 1 .. n
        BY <2>0, <2>2, <3>2
      <4>2. lines[i] = said - (n - (i - Len(chat)))
        <5>1. lines[i] = arriving[i - Len(chat)]
          BY <2>1, <2>3, <3>2
        <5> QED BY <2>1, <4>1, <5>1
      <4> QED BY <2>0, <2>1, <2>2, <2>3, <4>2
    <3> QED BY <2>0, <2>1, <2>2, <2>3, <3>1, <3>2
  <2>5. UpTo(lines, said)
    BY <2>4 DEF UpTo
  <2> QED BY <2>0, <2>3, <2>5, UpToConsecutive DEF lines, arriving
<1> QED BY <1>1, FeedInvariant, PTL
=============================================================================
