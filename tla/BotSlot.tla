------------------------------- MODULE BotSlot -------------------------------
(***************************************************************************)
(* What MinecraftBotManager promises to the rest of the worker about its   *)
(* one bot, without options, timers, attempts or the game server.  A bot   *)
(* that is current goes in one of two ways: it is given up, for a reason   *)
(* that stays with it until the wait of its destroyBot() is over, or it is *)
(* replaced by another attempt's bot.  A bot that was given up is not      *)
(* current again before that wait is over, and no other bot's end takes    *)
(* the current one away without a destroyBot() of its own.                 *)
(***************************************************************************)
CONSTANTS Bots,     \* Mineflayer instances
          Reasons,  \* why a bot is given up
          None      \* null

VARIABLES current,  \* the bot that commands go to, or None
          heard,    \* the bots whose events somebody listens to
          leaving   \* why each bot is being destroyed, None when it is not

slotVars == <<current, heard, leaving>>

SlotInit ==
  /\ current = None
  /\ heard = {}
  /\ leaving = [b \in Bots |-> None]

(* A bot nobody listens to and nobody destroys becomes the current one,    *)
(* whether or not there was one.                                           *)
Take(b) ==
  /\ b \notin heard
  /\ leaving[b] = None
  /\ current' = b
  /\ heard' = heard \cup {b}
  /\ UNCHANGED leaving

(* The current bot is given up; when it is an 'end' that brought it about, *)
(* the bot that ended is heard no more.                                    *)
GiveUp(r) ==
  /\ current # None
  /\ leaving[current] = None
  /\ current' = None
  /\ leaving' = [leaving EXCEPT ![current] = r]
  /\ \/ UNCHANGED heard
     \/ \E b \in heard : heard' = heard \ {b}

(* A bot that is not current ends. *)
FallSilent(b) ==
  /\ b \in heard
  /\ b # current
  /\ heard' = heard \ {b}
  /\ UNCHANGED <<current, leaving>>

(* The wait of destroyBot() is over, and with it whatever was heard of the *)
(* bot.                                                                    *)
Finish(b) ==
  /\ leaving[b] # None
  /\ b # current
  /\ leaving' = [leaving EXCEPT ![b] = None]
  /\ heard' = heard \ {b}
  /\ UNCHANGED current

SlotNext ==
  \/ \E r \in Reasons : GiveUp(r)
  \/ \E b \in Bots : Take(b) \/ FallSilent(b) \/ Finish(b)

SlotSpec == SlotInit /\ [][SlotNext]_slotVars
=============================================================================
