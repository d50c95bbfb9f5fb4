------------------------------ MODULE MultiGraph ------------------------------
(***************************************************************************)
(* What the edge lists promise: a directed multigraph with labelled edges. *)
(* edges counts, for every source, target and label, the edges there are.  *)
(* A step adds an edge, removes one, relabels one or moves one to another  *)
(* source; it never disturbs any other edge.                               *)
(***************************************************************************)
EXTENDS Naturals

CONSTANTS Block, Label

VARIABLE edges

Edge == [from : Block, to : Block, label : Label]

TypeOK == edges \in [Edge -> Nat]

Init == edges = [e \in Edge |-> 0]

Present(e) == edges[e] > 0

Add(e) == edges' = [edges EXCEPT ![e] = @ + 1]

Remove(e) == Present(e) /\ edges' = [edges EXCEPT ![e] = @ - 1]

\* One copy of e becomes f: all that is allowed to change is what Next lets change.
Become(e, f) ==
  /\ Present(e)
  /\ edges' = IF e = f THEN edges ELSE [edges EXCEPT ![e] = @ - 1, ![f] = @ + 1]

Relabel(e, lab) == Become(e, [e EXCEPT !.label = lab])

Redirect(e, b) == Become(e, [e EXCEPT !.from = b])

Next ==
  \E e \in Edge :
    \/ Add(e)
    \/ Remove(e)
    \/ \E lab \in Label : Relabel(e, lab)
    \/ \E b \in Block : Redirect(e, b)

Spec == Init /\ [][Next]_edges
==============================================================================
