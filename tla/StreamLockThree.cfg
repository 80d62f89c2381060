SPECIFICATION SafeSpec
CONSTANTS
  a = a
  b = b
  c = c
  u = u
  p = p
  q = q
  None = None
  Sessions <- ThreeSessions
  Users = {u}
  Procs = {p}
  UserOf <- ThreeUserOf
  ProcOf <- ThreeProcOf
  MaxTries = 1
  LockTTL = 2
  ChanCap = 2
  Mortal = {}
  Timely = TRUE
  Flaky = FALSE
PROPERTIES DropNeverLost
SYMMETRY Symm
CHECK_DEADLOCK FALSE
