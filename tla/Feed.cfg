\* An old and a new connection; more lines than the rings hold.
CONSTANTS
  Sockets = {s1, s2}
  RingMax = 3
  WelcomeMax = 2
  PageMax = 3
  MaxLines = 5
  None = None
SPECIFICATION Spec
INVARIANTS TypeOK NoGap RingNewest
