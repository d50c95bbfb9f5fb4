------------------------------ MODULE MCDeadCode ------------------------------
(* Instances of DeadCode for TLC: three ops that compute something and one effect. *)
EXTENDS DeadCode

MCOp == 1 .. 4

MCKinds ==
  {k \in [MCOp -> Kinds] :
     /\ k[1] \in {"phi", "op"} /\ k[2] \in {k[1], "op"}
     /\ k[3] \in {"phi", "op", "call"} /\ k[4] = "effect"}

\* A phi reads one or two ops, any other op reads what comes before it.
Inputs(k, o) ==
  {S \in SUBSET (1 .. 3) :
     /\ Cardinality(S) <= 2
     /\ IF k[o] = "phi" THEN S # {} ELSE \A q \in S : q < o}

MCPrograms ==
  UNION {{[kind |-> k, in |-> <<i1, i2, i3, i4>>, ops |-> << <<1, 2>>, <<3, 4>> >>, live |-> l] :
            i1 \in Inputs(k, 1), i2 \in Inputs(k, 2), i3 \in Inputs(k, 3),
            i4 \in {S \in Inputs(k, 4) : Cardinality(S) <= 1},
            l \in {S \in SUBSET (1 .. 3) : Cardinality(S) <= 1}} : k \in MCKinds}
==============================================================================
