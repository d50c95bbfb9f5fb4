--------------------------- MODULE MCStructureReset ---------------------------
(* Instances of StructureReset and PostDominators for TLC. *)
EXTENDS PostDominators

\* The ends a block can have: a return, a branch to t, a conditional branch, whose first
\* out edge leads to the next block in address order, or no branch at all.
Ends(n, b) == {<< >>} \union {<<t>> : t \in 1 .. n}
                      \union {<<b + 1, t>> : t \in {u \in 1 .. n : b < n /\ u # b + 1}}

Reaching(n, p) == ReachableFrom([b \in 0 .. n |-> Range(p[b])], {0}) = 0 .. n

\* Every function of four blocks.
MCBlock == 0 .. 3
MCPrograms ==
  {p \in [MCBlock -> UNION {Ends(3, b) : b \in MCBlock}] :
     (\A b \in MCBlock : p[b] \in Ends(3, b)) /\ Reaching(3, p)}

\* Three nested loops with the headers 1, 2 and 3; the innermost is left to the outermost.
NestBlock == 0 .. 5
NestPrograms ==
  {[b \in NestBlock |-> <<<<1>>, <<2>>, <<3>>, <<4, 2>>, <<5, 3>>, <<1>>>>[b + 1]]}
==============================================================================
