SPECIFICATION Spec
CONSTANTS
  m1 = m1
  m2 = m2
  Media = {m1, m2}
  Control = control
  Styles = {"own", "repeats", "omits"}
  MaxMessages = 3
  Lengths = {0, 3}
  ChunkSizes = {1}
  Windows = {2}
  ChunkSize = 2
  WindowAckSize = 4
  PoolSize = 4
  Stamps = {1, 3, 5}
  Mark = 3
  TsMod = 8
  BufferRoom = 1
  WireCap = 3
SYMMETRY Symm
INVARIANTS TypeOK Faithful PayloadKept NeverRefuses AcksExact NoneWithheld
PROPERTIES PipeSpec
CHECK_DEADLOCK FALSE
