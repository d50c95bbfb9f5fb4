---------------------------- MODULE MCCfgSimplify ----------------------------
(* Instances of ArgumentPass for TLC: functions of four blocks, one of which may be copied. *)
EXTENDS ArgumentPass

\* A block returns, branches to t, falls through or branches to t on a condition.
Blocks(n, b) ==
  {[out |-> << >>, last |-> "RETURN", empty |-> FALSE]}
  \union {[out |-> <<t>>, last |-> "BRANCH", empty |-> e] : t \in 1 .. n, e \in BOOLEAN}
  \union {[out |-> <<t>>, last |-> "NONE", empty |-> e] : t \in {b + 1} \ {n + 1}, e \in BOOLEAN}
  \union {[out |-> <<b + 1, t>>, last |-> "CBRANCH", empty |-> FALSE] :
            t \in {u \in 1 .. n : b < n}}

\* Control reaches every block, and the first one computes something.
Functions(n) ==
  LET shapes == {s \in [0 .. n -> UNION {Blocks(n, b) : b \in 0 .. n}] :
                   /\ \A b \in 0 .. n : s[b] \in Blocks(n, b)
                   /\ ~s[0].empty
                   /\ ReachableFrom([b \in 0 .. n |-> Range(s[b].out)], {0}) = 0 .. n}
  IN  {[out |-> [b \in 0 .. n |-> s[b].out], last |-> [b \in 0 .. n |-> s[b].last],
        empty |-> {b \in 0 .. n : s[b].empty}] : s \in shapes}

MCBlock == 0 .. 5
MCPrograms == Functions(3)
==============================================================================
