\* Fewer bytes than the ring holds are ever typed: it can never be full.
SPECIFICATION Spec
CONSTANTS
  Size = 3
  MaxChunk = 3
  ReadLengths = {2}
  MaxBytes = 2
INVARIANTS ReceivedAsTyped
