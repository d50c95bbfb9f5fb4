SPECIFICATION Spec
CONSTANTS
  Block <- MCBlock
  Programs <- MCPrograms
  MaxHeritages = 2
CHECK_DEADLOCK FALSE
INVARIANTS
  PlacementExact
  LinksAreReachingDefinitions
  TopnameIsLiveAtExit
