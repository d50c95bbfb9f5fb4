------------------------------ MODULE FlowGraphs ------------------------------
(***************************************************************************)
(* Flow graphs in the textbook sense: reachability, dominance, dominance   *)
(* frontiers, natural loops.  Nothing here is taken from the code; the     *)
(* modules of the algorithms are checked against these definitions.        *)
(* succ maps every block to the set of its successors.                     *)
(***************************************************************************)
EXTENDS Naturals, FiniteSets, Sequences

\* The elements of a list that lie in S, in their order.
Sublist(s, S) ==
  LET upto[n \in 0 .. Len(s)] ==
        IF n = 0 THEN << >> ELSE IF s[n] \in S THEN Append(upto[n - 1], s[n]) ELSE upto[n - 1]
  IN  upto[Len(s)]

ReachableFrom(succ, S) ==
  LET R[n \in 0 .. Cardinality(DOMAIN succ)] ==
        IF n = 0 THEN S
        ELSE LET near == R[n - 1] IN near \union UNION {succ[b] : b \in near}
  IN  R[Cardinality(DOMAIN succ)]

ReachableAvoiding(succ, root, a) ==
  IF root = a THEN {} ELSE ReachableFrom([b \in DOMAIN succ |-> succ[b] \ {a}], {root})

\* Every path from the root to b goes through a.
Dominators(succ, root, b) == {a \in DOMAIN succ : b \notin ReachableAvoiding(succ, root, a)}

StrictDominators(succ, root, b) == Dominators(succ, root, b) \ {b}

\* The strict dominator that all the others dominate.
Idom(succ, root, b) ==
  CHOOSE a \in StrictDominators(succ, root, b) :
    StrictDominators(succ, root, b) \subseteq Dominators(succ, root, a)

Frontier(succ, root, a) ==
  {b \in DOMAIN succ :
     /\ a \notin StrictDominators(succ, root, b)
     /\ \E p \in DOMAIN succ : b \in succ[p] /\ a \in Dominators(succ, root, p)}

\* The least set that holds the frontiers of S and of itself.
IteratedFrontier(succ, root, S) ==
  LET df == [a \in DOMAIN succ |-> Frontier(succ, root, a)]
  IN  ReachableFrom(df, UNION {df[a] : a \in S})

IsBackEdge(succ, root, u, v) == v \in succ[u] /\ v \in Dominators(succ, root, u)

\* What reaches a back edge of h without passing h, and h itself.
NaturalLoop(succ, root, h) ==
  LET pred    == [b \in DOMAIN succ |-> {p \in DOMAIN succ \ {h} : b \in succ[p]}]
      sources == {u \in DOMAIN succ : IsBackEdge(succ, root, u, h)}
  IN  {h} \union ReachableFrom([pred EXCEPT ![h] = {}], sources)

\* Without its back edges the graph has no cycle.
Reducible(succ, root) ==
  LET forward == [u \in DOMAIN succ |-> {v \in succ[u] : ~IsBackEdge(succ, root, u, v)}]
  IN  \A b \in DOMAIN succ : b \notin ReachableFrom(forward, forward[b])
==============================================================================
