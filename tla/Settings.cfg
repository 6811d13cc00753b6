\* Two servers, two captured options beside the bot, a file that can be torn.
CONSTANTS
  Targets = {t1, t2}
  DefaultTarget = t1
  MaxPending = 2
  Torn = Torn
  None = None
SPECIFICATION Spec
INVARIANTS TypeOK RestartFindsServer ShownIsLive
