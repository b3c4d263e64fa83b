\* The two printfs: single conversions, and texts in chunks.
SPECIFICATION Spec
CONSTANTS
  NtoaSize = 8
  FtoaSize = 8
  FtoaTop = 2
  FtoaDefault = 1
  CharBits = 3
  ShortBits = 4
  IntBits = 8
  BufferSize = 6
  Ints <- MCInts
  Doubles <- MCDoubles
  Strings <- MCStrings
  Widths <- MCWidths
  Precisions <- MCPrecisions
  MaxItems = 2
  Printers = {p1, p2}
  ChunkSize = 3
  Capacity = 4
  Lengths = {0, 2, 3, 7}
  MaxPrints = 3
INVARIANTS IntegersAsC FloatsNearest TextOrItsHead LogsAsC  ShortTextsWhole
CHECK_DEADLOCK FALSE
