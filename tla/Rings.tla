------------------------------- MODULE Rings --------------------------------
(***************************************************************************)
(* The bounded buffers: the chat of BotStateStore.ts and of the page, the  *)
(* log of LogManager.ts.  A ring is the sequence of its lines.             *)
(***************************************************************************)
EXTENDS Integers, Sequences

(* Variant: the oldest lines. *)
NewestFromFront(lines, n) ==
  IF Len(lines) <= n THEN lines ELSE SubSeq(lines, 1, n)

(* slice(-n), for n > 0 *)
Newest(lines, n) ==
  IF Len(lines) <= n THEN lines ELSE SubSeq(lines, Len(lines) - n + 1, Len(lines))

(* Variants of pushChat(): the ring grows without bound; a full ring loses *)
(* the new line.                                                           *)
PushedUnbounded(ring, line, max) == Append(ring, line)

PushedFullDrops(ring, line, max) ==
  IF Len(ring) < max THEN Append(ring, line) ELSE ring

(* pushChat(): push, then shift. *)
Pushed(ring, line, max) ==
  LET longer == Append(ring, line)
  IN  IF Len(longer) > max THEN Tail(longer) ELSE longer

(* log(): shift, then push. *)
Logged(ring, entry, max) ==
  Append(IF Len(ring) >= max THEN Tail(ring) ELSE ring, entry)
=============================================================================
