\* All functions of the up-buffer against a probe that reads meanwhile.
SPECIFICATION FairSpec
CONSTANTS
  Size = 6
  Terminals = {0, 1}
  MaxText = 3
  MaxLog = 7
  BufferSizes = {2, 5}
INVARIANTS TypeOK Conserved ShownWhereMeant NeverWaits OverwriteKeepsNewest
PROPERTIES AllDelivered
