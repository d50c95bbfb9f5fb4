----------------------------- MODULE MCFlowEdges -----------------------------
(* A small instance of FlowEdges for TLC. *)
EXTENDS FlowEdges, TLC

CONSTANTS b1, b2, b3, true_edge

MCBlock == {b1, b2, b3}
MCFlag == {true_edge}
BlockSymmetry == Permutations(MCBlock)
==============================================================================
