\* All names of up to three letters.
SPECIFICATION Spec
CONSTANTS
  Letters = {65, 66, 67, 68, 69, 70, 71, 72, 73, 74, 75, 76, 77, 78, 79, 80}
  MaxName = 3
INVARIANTS OthersNotSupported
