-------------------------------- MODULE Feed --------------------------------
(***************************************************************************)
(* How the chat of the game reaches a dashboard page: the listeners of     *)
(* MinecraftBotManager.ts store each line in the ring of BotStateStore.ts  *)
(* and the gateway pushes it to every open socket, authenticated or not; a *)
(* socket whose hello is accepted gets the newest lines with its welcome,  *)
(* and the page puts together what its sockets deliver.                    *)
(*                                                                         *)
(* A line is known by its number in the history of the game.               *)
(***************************************************************************)
EXTENDS Rings

CONSTANTS Sockets,     \* connections of one page, an old one beside a new one
          RingMax,     \* the store keeps this many lines
          WelcomeMax,  \* a welcome carries this many
          PageMax,     \* the page shows this many
          MaxLines,    \* bound: lines said in the game
          None         \* null

ASSUME FeedAssumption == /\ {RingMax, WelcomeMax, PageMax, MaxLines} \subseteq Nat \ {0}
                         /\ None \notin Sockets

VARIABLES
  said,     \* the number of lines said so far
  ring,     \* store: chat
  clients,  \* the sockets in the gateway's set of clients
  asked,    \* of these, the ones whose hello has not been handled
  heard,    \* the sockets whose messages the page handles
  link,     \* what each socket has still to deliver
  chat,     \* state of the page: chat
  source    \* history: the socket that alone has fed `chat' since its welcome

workerVars == <<said, ring>>
vars == <<workerVars, clients, asked, heard, link, chat, source>>

Lines == 1 .. MaxLines

Event == [type : {"chat"}, line : Lines] \cup [type : {"welcome"}, lines : Seq(Lines)]

TypeOK ==
  /\ said \in 0 .. MaxLines
  /\ ring \in Seq(Lines) /\ Len(ring) <= RingMax
  /\ clients \subseteq Sockets /\ asked \subseteq Sockets /\ heard \subseteq Sockets
  /\ link \in [Sockets -> Seq(Event)]
  /\ chat \in Seq(Lines) /\ (Len(chat) <= PageMax \/ Len(chat) <= WelcomeMax)
  /\ source \in Sockets \cup {None}

Init ==
  /\ said = 0 /\ ring = <<>>
  /\ clients = {} /\ asked = {} /\ heard = {}
  /\ link = [s \in Sockets |-> <<>>]
  /\ chat = <<>>
  /\ source = None

-----------------------------------------------------------------------------
(* The worker *)

(* pushChat() of the gateway, to every open socket. *)
PushToAll(event) ==
  link' = [s \in Sockets |-> IF s \in clients \cap heard THEN Append(link[s], event) ELSE link[s]]

(* A message, chat or whisper event of the bot: pushChat() of the store,   *)
(* then of the gateway.                                                    *)
Say ==
  /\ said < MaxLines
  /\ said' = said + 1
  /\ ring' = Pushed(ring, said + 1, RingMax)
  /\ PushToAll([type |-> "chat", line |-> said + 1])
  /\ UNCHANGED <<clients, asked, heard, chat, source>>

(* resetRuntime() at the end of a disconnect(), or a restart. *)
ResetRuntime ==
  /\ ring' = <<>>
  /\ UNCHANGED <<said, clients, asked, heard, link, chat, source>>

(* hello with a valid token: sendWelcome(). *)
Hello(s) ==
  /\ s \in asked
  /\ asked' = asked \ {s}
  /\ link' = IF s \in heard
             THEN [link EXCEPT ![s] = Append(@, [type |-> "welcome", lines |-> Newest(ring, WelcomeMax)])]
             ELSE link
  /\ UNCHANGED <<workerVars, clients, heard, chat, source>>

(* hello with an expired token: an error, and no welcome. *)
HelloRefused(s) ==
  /\ s \in asked
  /\ asked' = asked \ {s}
  /\ UNCHANGED <<workerVars, clients, heard, link, chat, source>>

(* The gateway's end of a connection closes, whoever closed it. *)
ClientGone(s) ==
  /\ s \in clients
  /\ clients' = clients \ {s} /\ asked' = asked \ {s}
  /\ UNCHANGED <<workerVars, heard, link, chat, source>>

-----------------------------------------------------------------------------
(* The page *)

(* The connection opens; onopen sends the hello. *)
SocketOpens(s) ==
  /\ s \notin clients \cup heard
  /\ clients' = clients \cup {s} /\ asked' = asked \cup {s} /\ heard' = heard \cup {s}
  /\ UNCHANGED <<workerVars, link, chat, source>>

(* Variant: a welcome adds to what the page shows. *)
DeliverAppended(s) ==
  /\ s \in heard /\ link[s] # <<>>
  /\ link' = [link EXCEPT ![s] = Tail(@)]
  /\ LET event == Head(link[s])
     IN  IF event.type = "welcome"
         THEN chat' = Newest(chat \o event.lines, PageMax) /\ source' = s
         ELSE /\ chat' = Newest(Append(chat, event.line), PageMax)
              /\ source' = IF source = s THEN s ELSE None
  /\ UNCHANGED <<workerVars, clients, asked, heard>>

(* onmessage: a welcome replaces what the page shows, a line is added. *)
Deliver(s) ==
  /\ s \in heard /\ link[s] # <<>>
  /\ link' = [link EXCEPT ![s] = Tail(@)]
  /\ LET event == Head(link[s])
     IN  IF event.type = "welcome"
         THEN chat' = event.lines /\ source' = s
         ELSE /\ chat' = Newest(Append(chat, event.line), PageMax)
              /\ source' = IF source = s THEN s ELSE None
  /\ UNCHANGED <<workerVars, clients, asked, heard>>

(* onclose, with whatever had not arrived. *)
SocketCloses(s) ==
  /\ s \in heard \ clients
  /\ heard' = heard \ {s}
  /\ link' = [link EXCEPT ![s] = <<>>]
  /\ source' = IF source = s THEN None ELSE source
  /\ UNCHANGED <<workerVars, clients, asked, chat>>

(* The page is loaded anew; the gateway notices later. *)
Reload ==
  /\ chat' = <<>> /\ source' = None
  /\ heard' = {} /\ link' = [s \in Sockets |-> <<>>]
  /\ UNCHANGED <<workerVars, clients, asked>>

Next ==
  \/ Say \/ ResetRuntime \/ Reload
  \/ \E s \in Sockets : \/ Hello(s) \/ HelloRefused(s) \/ ClientGone(s)
                        \/ SocketOpens(s) \/ Deliver(s) \/ SocketCloses(s)

Spec == Init /\ [][Next]_vars

-----------------------------------------------------------------------------
(* Safety *)

Consecutive(lines) == \A i \in 1 .. Len(lines) - 1 : lines[i + 1] = lines[i] + 1

Arriving(s) == [i \in 1 .. Len(link[s]) |-> link[s][i].line]

(* Since its welcome, a page fed by one connection misses no line and shows*)
(* none twice: what it shows and what is still under way run without a gap *)
(* up to the last line said, through rings that overflow, resets of the    *)
(* worker and lines pushed before the welcome (pushChat, sendWelcome,      *)
(* onmessage).                                                             *)
NoGap ==
  source # None /\ source \in clients
    => LET lines == chat \o Arriving(source)
       IN  /\ Consecutive(lines)
           /\ lines # <<>> => lines[Len(lines)] = said

(* What a welcome would carry are the newest lines since the last reset, in*)
(* order (recentChat over the ring).                                       *)
RingNewest ==
  /\ Consecutive(ring)
  /\ ring # <<>> => ring[Len(ring)] = said
=============================================================================
