\* Two browsers on three connections, real timeouts in ticks of 500 ms; no
\* symmetry, since liveness is checked too.
CONSTANTS
  Browsers = {b1, b2}
  Conns = {c1, c2, c3}
  Keys = {jump}
  Jump = jump
  NoOne = NoOne
  HeartbeatTimeout = 7
  CheckPeriod = 2
  MaxSilence = 10
  MaxResets = 1
SPECIFICATION FairSpec
INVARIANTS TypeOK StoreNamesHolder HolderHasSocket DeadmanBound UnattendedShowsNoMovement
PROPERTIES LockLossJustified ImplementsLease SilentHolderExpires
