SPECIFICATION Spec
CONSTANTS
  Addr <- MCAddr
  Instructions <- MCInstructions
  Functions <- MCFunctions
  inst_max = 5
CHECK_DEADLOCK FALSE
INVARIANTS
  DecodedOnce
  FlowKept
  OnlyReached
PROPERTIES
  Terminates
