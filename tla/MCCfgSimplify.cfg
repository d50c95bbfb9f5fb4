SPECIFICATION PassSpec
CONSTANTS
  Block <- MCBlock
  Programs <- MCPrograms
  MaxClones = 1
  MaxRounds = 2
CHECK_DEADLOCK FALSE
INVARIANTS
  NothingThrown
  BranchesKeepTheirEdges
  BehaviourKept
PROPERTIES
  RoundsEnd
