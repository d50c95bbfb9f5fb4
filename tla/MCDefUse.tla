------------------------------- MODULE MCDefUse -------------------------------
(* A small instance of DefUse for TLC: two locations and one constant. *)
EXTENDS DefUse, TLC

CONSTANTS p1, p2, r1, r2, s1, k1, reg_r, reg_s, space_const

MCOp == {p1, p2}
MCVarnode == {r1, r2, s1, k1}
MCConst == {k1}
MCloc == r1 :> reg_r @@ r2 :> reg_r @@ s1 :> reg_s @@ k1 :> space_const
OpSymmetry == Permutations(MCOp) \union Permutations({r1, r2})
==============================================================================
