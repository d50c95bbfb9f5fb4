SPECIFICATION Spec
CONSTANTS
  Block <- DiamondBlock
  Programs <- DiamondPrograms
  MaxHeritages = 1
CHECK_DEADLOCK FALSE
INVARIANTS
  PlacementComplete
