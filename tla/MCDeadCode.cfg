SPECIFICATION Spec
CONSTANTS
  Op <- MCOp
  Programs <- MCPrograms
CHECK_DEADLOCK FALSE
INVARIANTS
  NeededSurvives
  NoReadOfDestroyed
  NothingUnreadLeft
PROPERTIES
  Terminates
