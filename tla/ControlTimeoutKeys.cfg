\* The heartbeat timeout against what the documentation says of it.
CONSTANTS
  Browsers = {b1}
  Conns = {c1}
  Keys = {forward, jump}
  Jump = jump
  NoOne = NoOne
  HeartbeatTimeout = 3
  CheckPeriod = 1
  MaxSilence = 5
  MaxResets = 0
SPECIFICATION Spec
PROPERTY TimeoutClearsKeys
