CONSTANTS
  Packages <- MCPackages
  LocalVersion = 2
  LocalPid = 1
  PacketLen = 2
  BufferLen = 3
  Window = 3
  RetryLimit = 5
  VpLen = 4
  ImgLen = 5
  MaxFaults = 2
  None = None
SPECIFICATION Spec
INVARIANT ResumesItsOwn
CHECK_DEADLOCK FALSE
