\* Two bots, two timers, two attempts at once; one set of options reconnects
\* and needs a Microsoft login, the other does neither.
CONSTANTS
  Bots = {m1, m2}
  Timers = {t1, t2}
  Calls = {a1, a2}
  Options = {auto, once}
  AutoReconnect = {auto}
  Microsoft = {auto}
  KickReasons = {"KICKED", "BANNED", "CONFLICTING_CONNECTION"}
  ErrorReasons = {"CONNECTION_RESET", "INVALID_SESSION"}
  MaxAttempt = 2
  None = None
SPECIFICATION Spec
SYMMETRY Symmetry
INVARIANTS TypeOK CurrentBotAlive TimerHandlePending NoLimbo
PROPERTIES QuietUntilConnect ImplementsSlot
