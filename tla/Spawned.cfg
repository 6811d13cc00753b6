\* Two bots: the viewer, the listener and the login of a lost one beside the next.
CONSTANTS
  Bots = {b1, b2}
  None = None
SPECIFICATION FairSpec
INVARIANTS TypeOK ReadyShowsCurrent OneViewer
PROPERTIES LoopStarts LoginSent KnownPlayerLogsIn
