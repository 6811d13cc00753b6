\* Every kind of loss, in units of 1.5 s.
CONSTANTS
  KickTexts <- MCKickTexts
  ErrorTexts <- MCErrorTexts
  EndTexts <- MCEndTexts
  Timers = {t1, t2, t3}
  Base = 1
  MaxBase = 40
  MinDelay = 3
  Jitter = 1
  ConflictExtra = 20
  KeepAliveExtra = 10
  MaxAttempt = 7
  NoTimer = NoTimer
  NoText = NoText
SPECIFICATION Spec
SYMMETRY Symmetry
INVARIANTS TypeOK ConflictsDoNotCompound
