SPECIFICATION Spec
CONSTANTS
  a = a
  b = b
  Sessions = {a, b}
  MaxVariants = 1
  Faults = FALSE
INVARIANTS Settled
PROPERTIES ShutdownCompletes CancelEnds
CHECK_DEADLOCK FALSE
