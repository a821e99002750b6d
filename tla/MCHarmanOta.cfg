CONSTANTS
  Packages <- MCPackages
  LocalVersion = 2
  LocalPid = 1
  PacketLen = 2
  BufferLen = 3
  Window = 3
  RetryLimit = 5
  VpLen = 4
  ImgLen = 4
  MaxFaults = 3
  None = None
SPECIFICATION FairSpec
INVARIANTS TypeOK DoneIsWhole BreakpointIsBacked SessionIsTimed
PROPERTIES Completes
CHECK_DEADLOCK FALSE
