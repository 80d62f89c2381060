SPECIFICATION Spec
CONSTANTS
  NumPackets = 4
  Cap = 6
  High = 3
  Runs = 2
  VideoMark = 4
  AudioMark = 5
  Faulty = TRUE
INVARIANTS TypeOK NeverFull EachPacketOnce
PROPERTIES ThinningKeeps WriteReturns QueueSpec
CHECK_DEADLOCK FALSE
