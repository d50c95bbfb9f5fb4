------------------------------ MODULE MCHeritage ------------------------------
(* Instances of Heritage for TLC. *)
EXTENDS Heritage

Ends(n, b) == {<< >>} \union {<<t>> : t \in 1 .. n}
                      \union {<<b + 1, t>> : t \in {u \in 1 .. n : b < n /\ u # b + 1}}

Reaching(n, p) == ReachableFrom([b \in 0 .. n |-> Range(p[b])], {0}) = 0 .. n

\* Every function of four blocks in which paths meet, with a write, another write or
\* a copy, and a read behind the entry.
MCBlock == 0 .. 3
MCShapes ==
  {p \in [MCBlock -> UNION {Ends(3, b) : b \in MCBlock}] :
     /\ \A b \in MCBlock : p[b] \in Ends(3, b)
     /\ Reaching(3, p)
     /\ \E b, c \in MCBlock : b # c /\ Range(p[b]) \intersect Range(p[c]) # {}}

MCOps ==
  {f \in [MCBlock -> Ops] :
     /\ f[0] = "none" /\ {"read", "write"} \subseteq Range(f)
     /\ \A b \in MCBlock \ {0} : f[b] # "none"
     /\ f[1] # "read" /\ (f[2] = "read" <=> f[3] # "read")}

MCPrograms == {[out |-> s, op |-> o] : s \in MCShapes, o \in MCOps}

\* A loop whose header writes and then branches to two arms that meet again.
DiamondBlock == 0 .. 6
DiamondPrograms ==
  {[out |-> [b \in DiamondBlock |->
               << <<1>>, <<2, 6>>, <<3, 4>>, <<5>>, <<5>>, <<1>>, << >> >>[b + 1]],
    op  |-> [b \in DiamondBlock |->
               <<"none", "none", "write", "none", "none", "none", "read">>[b + 1]]]}
\* The empty join block 4 is removed.  Block 5 has a phi for the copy
\* of block 3 that has gone since.
JoinPrograms ==
  {[out |-> [b \in DiamondBlock |->
               << <<1, 3>>, <<2, 4>>, <<4>>, <<5>>, <<5>>, <<6>>, << >> >>[b + 1]],
    op  |-> [b \in DiamondBlock |->
               <<"write", "none", "none", "copy", "none", "read", "none">>[b + 1]]]}
==============================================================================
