SPECIFICATION Spec
CONSTANTS
  p1 = p1
  p2 = p2
  r1 = r1
  r2 = r2
  s1 = s1
  k1 = k1
  reg_r = reg_r
  reg_s = reg_s
  space_const = space_const
  Null = Null
  Op <- MCOp
  Varnode <- MCVarnode
  Const <- MCConst
  loc <- MCloc
  MaxInputs = 2
SYMMETRY OpSymmetry
INVARIANTS
  UsesMatchSlots
  DefMatchesOutput
  NoDangling
PROPERTIES
  LocationsKept
