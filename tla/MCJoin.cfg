SPECIFICATION Spec
CONSTANTS
  Block <- DiamondBlock
  Programs <- JoinPrograms
  MaxHeritages = 2
CHECK_DEADLOCK FALSE
INVARIANTS
  PhisFitTheirBlocks
