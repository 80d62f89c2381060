SPECIFICATION SafeSpec
CONSTANTS
  a = a
  b = b
  c = c
  u = u
  p = p
  q = q
  None = None
  Sessions <- TwoSessions
  Users = {u}
  Procs = {p, q}
  UserOf <- TwoUserOf
  ProcOf <- TwoProcOf
  MaxTries = 1
  LockTTL = 2
  ChanCap = 2
  Mortal = {p, q}
  Timely = TRUE
  Flaky = TRUE
INVARIANTS TypeOK LockInv OneRecordingPerUser
PROPERTIES LeaseSpec
CHECK_DEADLOCK FALSE
