------------------------- MODULE MCReconnectPolicy -------------------------
EXTENDS ReconnectPolicy, TLC

(* "You are not on the whitelist of this server!", "You are already        *)
(* connected to this proxy!", and a kick no line knows.                    *)
MCKickTexts == {{"whitelist", "server"}, {"already connected"}, {}}

(* "client timed out after 30000 milliseconds", "read ECONNRESET", and the *)
(* proxy's answer as an error.                                             *)
MCErrorTexts == {[words |-> {"keepalive", "timed out"}, code |-> "none"],
                 [words |-> {}, code |-> "ECONNRESET"],
                 [words |-> {"already connected"}, code |-> "none"]}

(* "socketClosed" and "keepAliveError". *)
MCEndTexts == {{"closed"}, {"keepalive"}}

Symmetry == Permutations(Timers)
=============================================================================
