\* A host that sends whenever the device accepts a packet, and a bus that fails.
\* The ring holds three halves: a second message overflows it, and a third meets
\* commands that lie behind readIndex.
SPECIFICATION Spec
CONSTANTS
  MaxMsg = 3
  RingSize = 4
  QueueLen = 1
  ReplyPackets <- NoAnswers
  Patience = "free"
  MaxUnplug = 1
INVARIANTS TypeOK TrapOnlyAfterUnplug OneReadInTurn NeverTwice NothingStranded
