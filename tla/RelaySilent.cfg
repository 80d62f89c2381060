SPECIFICATION Spec
CONSTANTS
  v1 = v1
  v2 = v2
  Players = {v1}
  Published = Published
  None = None
  MaxPackets = 1
  GopCap = 1
PROPERTIES SilentPlayerClosed
CHECK_DEADLOCK FALSE
