SPECIFICATION SafeSpec
CONSTANTS
  a = a
  b = b
  Sessions = {a}
  MaxVariants = 1
  Faults = FALSE
INVARIANTS RecordedIsQueued
CHECK_DEADLOCK FALSE
