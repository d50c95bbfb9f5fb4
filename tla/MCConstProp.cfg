SPECIFICATION Spec
CONSTANTS
  Functions <- MCFunctions
  Width = 4
  SafeZone = {1}
  Image <- MCImage
  MaxRuns = 2
  Unknown <- MCUnknown
CHECK_DEADLOCK FALSE
INVARIANTS
  ConstantsSound
  NothingLeftToFind
PROPERTIES
  Terminates
