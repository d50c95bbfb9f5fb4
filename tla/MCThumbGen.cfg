SPECIFICATION GenSpec
CONSTANTS
  Block <- MCBlock
  Programs <- MCPrograms
  Functions <- MCFunctions
  Core <- MCCore
  Flags <- MCFlags
  Scratch = {0, 1}
  MaxAlloc = 2
  Start = 4096
  MaxEdits = 1
CHECK_DEADLOCK FALSE
INVARIANTS
  LiveSetsExact
  ScratchIsFree
  ConstantsExact
  CodeMatchesFlow
  BlocksPlaced
PROPERTIES
  Terminates
