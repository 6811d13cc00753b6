\* One page whose connection comes and goes, a code and a button for one key.
CONSTANTS
  forward = forward
  Browsers = {page}
  Self = page
  Conns = {c1}
  NoConn = NoConn
  NoOne = NoOne
  Keys = {forward, jump}
  Jump = jump
  Codes = {W}
  Buttons = {pad}
  KeyOf <- MCKeyOf
  HeartbeatTimeout = 0
  CheckPeriod = 1
  MaxSilence = 2
  MaxResets = 1
  MaxQueue = 2
SPECIFICATION DashSpec
INVARIANTS DashTypeOK KeysFollowPage
