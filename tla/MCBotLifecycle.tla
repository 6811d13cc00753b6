--------------------------- MODULE MCBotLifecycle ---------------------------
EXTENDS BotLifecycle, TLC

Symmetry == Permutations(Bots) \cup Permutations(Timers) \cup Permutations(Calls)
=============================================================================
