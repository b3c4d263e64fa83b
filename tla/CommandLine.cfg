\* Every text of up to eight characters, in one call or cut in two.
SPECIFICATION Spec
CONSTANTS
  Chars = {"A", "T", "CR", "LF", "+NAME"}
  RowSize = 10
  MaxRows = 2
  MaxCalls = 2
  MaxStream = 8
INVARIANTS TypeOK ParsesCommands StoresInRow CutCostsOneCommand ListedCommandsRun SplitsTheLine
CHECK_DEADLOCK FALSE
