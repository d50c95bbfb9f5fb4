SPECIFICATION PostSpec
CONSTANTS
  Block <- NestBlock
  Programs <- NestPrograms
  MaxEdits = 0
CHECK_DEADLOCK FALSE
INVARIANTS
  InnermostHeader
