SPECIFICATION Spec
CONSTANTS
  b1 = b1
  b2 = b2
  b3 = b3
  true_edge = true_edge
  Block <- MCBlock
  Flag <- MCFlag
  MaxEdges = 4
SYMMETRY BlockSymmetry
INVARIANTS
  TypeOK
  Paired
  SplicedBlockIsDetached
PROPERTIES
  PhiSlotsKept
  ImplementsMultiGraph
