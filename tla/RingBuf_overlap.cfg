\* The host sends when it likes.  The calls are those of the firmware: readData
\* asks for RING_BUFFER_SIZE - 1 bytes, a string is at most READ_BUF_SIZE =
\* RING_BUFFER_SIZE bytes.
SPECIFICATION FairSpec
CONSTANTS
  Size = 3
  MaxChunk = 3
  ReadLengths = {2}
  MaxBytes = 4
INVARIANTS TypeOK IInv NoStrandedBytes FifoUntilDrop KeepsNewest
PROPERTIES ImplementsFifo EveryByteDelivered
