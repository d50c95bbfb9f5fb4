------------------------------ MODULE BlockEdges ------------------------------
(***************************************************************************)
(* The edge lists of the control-flow graph once more, for the passes that *)
(* use them: FlowEdges shows that the two halves of an edge always find    *)
(* each other, so an edge is one thing here.  It is <<from, to, n>>, where *)
(* n tells parallel edges apart; in and out list the edges of a block in   *)
(* the order of the code, taken holds the edges labelled a_true_edge.      *)
(***************************************************************************)
EXTENDS Naturals, Sequences, SequencesExt, FiniteSets

Edgeless(Block) == [in |-> [b \in Block |-> << >>], out |-> [b \in Block |-> << >>], taken |-> {}]

\* A name for one more edge from `from' to `to'.
Fresh(g, from, to) ==
  LET used == {e[3] : e \in {f \in Range(g.out[from]) : f[2] = to}}
  IN  <<from, to, CHOOSE n \in 1 .. Cardinality(used) + 1 : n \notin used>>

add_edge(g, from, to, isTaken) ==
  LET e == Fresh(g, from, to)
  IN  [in    |-> [g.in EXCEPT ![to] = Append(@, e)],
       out   |-> [g.out EXCEPT ![from] = Append(@, e)],
       taken |-> IF isTaken THEN g.taken \union {e} ELSE g.taken]

\* remove_in_edge, remove_out_edge
Without(g, e) ==
  [in    |-> [g.in EXCEPT ![e[2]] = Remove(@, e)],
   out   |-> [g.out EXCEPT ![e[1]] = Remove(@, e)],
   taken |-> g.taken \ {e}]

\* blockgraph::remove_edge takes the first edge from `from' in the in list of `to'.
FirstEdge(g, from, to) == g.in[to][SelectInSeq(g.in[to], LAMBDA e : e[1] = from)]

remove_edge(g, from, to) == Without(g, FirstEdge(g, from, to))

\* The edge leaves `from' from now on; it keeps its place in the in list.
replace_in_edge(g, e, from) ==
  LET f == Fresh(g, from, e[2])
  IN  [in    |-> [g.in EXCEPT ![e[2]] = ReplaceAll(@, e, f)],
       out   |-> [g.out EXCEPT ![e[1]] = Remove(@, e), ![from] = Append(@, f)],
       taken |-> IF e \in g.taken THEN (g.taken \ {e}) \union {f} ELSE g.taken]

Targets(g) == [b \in DOMAIN g.out |-> {e[2] : e \in Range(g.out[b])}]
==============================================================================
