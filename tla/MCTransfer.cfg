CONSTANTS
  BrLinks = {"br"}
  LeLinks = {"le"}
  Events = {"ack", "report"}
  AckEvent = "ack"
  DtQueueNo = 2
  MaxPackets = 3
  NoPacket = NoPacket
SPECIFICATION FairSpec
INVARIANTS TypeOK QueuedOnUpLinks AwaitsAck HeadIsDriven SentAtMostOnce
PROPERTIES ImplementsFifo SentInOrder Drains
CHECK_DEADLOCK FALSE
