SPECIFICATION SafeSpec
CONSTANTS
  v1 = v1
  v2 = v2
  Players = {v1, v2}
  Published = Published
  None = None
  MaxPackets = 4
  GopCap = 2
SYMMETRY Symm
INVARIANTS TypeOK NoGap BeginsWithKey HeaderFirst
CHECK_DEADLOCK FALSE
