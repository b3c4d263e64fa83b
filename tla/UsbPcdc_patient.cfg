\* A host that waits until the device is at rest, as a user who reads the answer
\* before typing on.
SPECIFICATION FairSpec
CONSTANTS
  MaxMsg = 5
  RingSize = 3
  QueueLen = 1
  ReplyPackets <- Packets
  Patience = "rest"
  MaxUnplug = 0
INVARIANTS NothingLost
PROPERTIES ImplementsTurns EveryCommandAnswered
