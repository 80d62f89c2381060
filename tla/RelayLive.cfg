SPECIFICATION Spec
CONSTANTS
  v1 = v1
  v2 = v2
  Players = {v1, v2}
  Published = Published
  None = None
  MaxPackets = 2
  GopCap = 1
PROPERTIES EntryRemoved
CHECK_DEADLOCK FALSE
