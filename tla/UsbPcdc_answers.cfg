\* A host that waits until the device is at rest and reads answers of one and of
\* two packets.
SPECIFICATION Spec
CONSTANTS
  MaxMsg = 2
  RingSize = 3
  QueueLen = 1
  ReplyPackets <- Packets
  Patience = "rest"
  MaxUnplug = 0
INVARIANTS AnswersIntact
