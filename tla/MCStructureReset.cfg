SPECIFICATION PostSpec
CONSTANTS
  Block <- MCBlock
  Programs <- MCPrograms
  MaxEdits = 1
CHECK_DEADLOCK FALSE
INVARIANTS
  Numbering
  BackEdgesLabelled
  DominatorsExact
  IrreducibleFound
  LoopMembership
  PostDominatorsExact
PROPERTIES
  Terminates
