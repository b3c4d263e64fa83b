\* A host that sends the next command as soon as it has the answer to the last.
SPECIFICATION Spec
CONSTANTS
  MaxMsg = 2
  RingSize = 3
  QueueLen = 1
  ReplyPackets <- Packets
  Patience = "reply"
  MaxUnplug = 0
INVARIANTS NothingLost
