\* Liveness, without symmetry: one attempt at a time, both timers.
CONSTANTS
  Bots = {m1, m2}
  Timers = {t1, t2}
  Calls = {a1}
  Options = {auto}
  AutoReconnect = {auto}
  Microsoft = {}
  KickReasons = {"KICKED", "BANNED"}
  ErrorReasons = {}
  MaxAttempt = 1
  None = None
SPECIFICATION FairSpec
PROPERTIES DestroyCompletes LossIsRetried
