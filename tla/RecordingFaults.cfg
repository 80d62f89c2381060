SPECIFICATION SafeSpec
CONSTANTS
  a = a
  b = b
  Sessions = {a, b}
  MaxVariants = 2
  Faults = TRUE
INVARIANTS TypeOK CountersExact JobsBacked JobAfterFfmpeg
SYMMETRY Symm
CHECK_DEADLOCK FALSE
