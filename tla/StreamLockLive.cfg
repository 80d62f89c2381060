SPECIFICATION Spec
CONSTANTS
  a = a
  b = b
  c = c
  u = u
  p = p
  q = q
  None = None
  Sessions <- TwoSessions
  Users = {u}
  Procs = {p, q}
  UserOf <- TwoUserOf
  ProcOf <- TwoProcOf
  MaxTries = 1
  LockTTL = 2
  ChanCap = 2
  Mortal = {p}
  Timely = TRUE
  Flaky = FALSE
PROPERTIES TakeOver LockReleased
CHECK_DEADLOCK FALSE
