------------------------------ MODULE FlowEdges ------------------------------
(***************************************************************************)
(* A control-flow graph under the primitives of blockgraph and flowblock:  *)
(* any sequence of calls of add_edge, remove_edge, set_out_edge_flag,      *)
(* clear_out_edge_flag, remove_from_flow and splice_block.  The last two   *)
(* are loops over the edges of a block; `loop' says which one is running,  *)
(* and an iteration of it is a step, so that what holds in every state     *)
(* holds between two iterations too.                                       *)
(***************************************************************************)
EXTENDS EdgeOps, FiniteSets, FiniteSetsExt

CONSTANTS
  Block,     \* the blocks of the function
  Flag,      \* the a_* bits of a label that are in use
  MaxEdges   \* bound: the number of edges at any time

ASSUME MaxEdgesAssumption == MaxEdges \in Nat
ASSUME FlagAssumption == IsFiniteSet(Flag)

VARIABLES
  graph,     \* flowblock::in and flowblock::out of every block
  loop       \* the running loop, or Idle

vars == <<graph, loop>>

Label == SUBSET Flag

Idle == [kind |-> "idle"]
Clearing(bl) == [kind |-> "remove_from_flow", block |-> bl]
Splicing(bl, outbl) == [kind |-> "splice_block", block |-> bl, outbl |-> outbl]
Loop == {Idle} \union {Clearing(bl) : bl \in Block}
               \union {Splicing(bl, outbl) : bl \in Block, outbl \in Block}

TypeOK == graph \in Graph(Block, Flag) /\ loop \in Loop

EdgeCount == MapThenSumSet(LAMBDA b : Len(graph.out[b]), Block)

Init == graph = Edgeless(Block) /\ loop = Idle

\* The bound MaxEdges stands for nothing in the code.
AddEdge(begin, end, lab) ==
  /\ loop = Idle
  /\ EdgeCount < MaxEdges
  /\ graph' = add_edge(graph, begin, end, lab)
  /\ UNCHANGED loop

\* remove_edge has no answer for two blocks without an edge: its callers have one.
RemoveEdge(begin, end) ==
  /\ loop = Idle
  /\ get_in_index(graph, end, begin) # 0
  /\ graph' = remove_edge(graph, begin, end)
  /\ UNCHANGED loop

SetOutEdgeFlag(b, i, flags) ==
  /\ loop = Idle
  /\ graph' = set_out_edge_flag(graph, b, i, flags)
  /\ UNCHANGED loop

ClearOutEdgeFlag(b, i, flags) ==
  /\ loop = Idle
  /\ graph' = clear_out_edge_flag(graph, b, i, flags)
  /\ UNCHANGED loop

\* remove_from_flow throws for a block that is still entered.
StartRemoveFromFlow(bl) ==
  /\ loop = Idle
  /\ graph.in[bl] = << >>
  /\ loop' = Clearing(bl)
  /\ UNCHANGED graph

RemoveLastOutEdge(bl) ==
  /\ loop = Clearing(bl)
  /\ IF graph.out[bl] # << >>
     THEN /\ graph' = remove_out_edge(graph, bl, Len(graph.out[bl]))
          /\ UNCHANGED loop
     ELSE loop' = Idle /\ UNCHANGED graph

\* Mutant: the successor may have other predecessors.
StartSplice_shared(bl) ==
  /\ loop = Idle
  /\ Len(graph.out[bl]) = 1
  /\ graph' = remove_out_edge(graph, bl, 1)
  /\ loop' = Splicing(bl, graph.out[bl][1].point)

\* splice_block throws unless bl has one successor and is its only predecessor.
StartSplice(bl) ==
  /\ loop = Idle
  /\ Len(graph.out[bl]) = 1
  /\ LET outbl == graph.out[bl][1].point
     IN  /\ Len(graph.in[outbl]) = 1
         /\ graph' = remove_out_edge(graph, bl, 1)
         /\ loop' = Splicing(bl, outbl)

\* The loop moves the first out edge of outbl for as long as there was one at its start.
MoveFirstOutEdge(bl, outbl) ==
  /\ loop = Splicing(bl, outbl)
  /\ IF bl # outbl /\ graph.out[outbl] # << >>
     THEN /\ graph' = move_out_edge(graph, outbl, 1, bl)
          /\ UNCHANGED loop
     ELSE loop' = Idle /\ UNCHANGED graph

Next ==
  \/ \E begin, end \in Block :
       \/ \E lab \in Label : AddEdge(begin, end, lab)
       \/ RemoveEdge(begin, end)
       \/ MoveFirstOutEdge(begin, end)
  \/ \E b \in Block : \E i \in DOMAIN graph.out[b], flags \in Label :
       \/ SetOutEdgeFlag(b, i, flags)
       \/ ClearOutEdgeFlag(b, i, flags)
  \/ \E bl \in Block :
       \/ StartRemoveFromFlow(bl)
       \/ RemoveLastOutEdge(bl)
       \/ StartSplice(bl)

Spec == Init /\ [][Next]_vars

(***************************************************************************)
(* Properties                                                              *)
(***************************************************************************)

\* Every half edge has its partner where its reverse index says, with the same label and
\* pointing back: what remove_in_edge, remove_out_edge and replace_in_edge rely on when
\* they follow a reverse index, through self loops and parallel edges.
Paired == Coupled(Block, graph)

\* The block that splice_block is about to hand to remove_block has lost its only way in
\* before its out edges are moved and gets none back, so remove_block does not throw.
SplicedBlockIsDetached ==
  \A bl, outbl \in Block : loop = Splicing(bl, outbl) => graph.in[outbl] = << >>

Sources(g, b) == [i \in DOMAIN g.in[b] |-> g.in[b][i].point]

\* t is s, with the source of one entry replaced, or one entry cut out, or one added last.
SlotsKept(s, t) ==
  \/ Len(t) = Len(s) /\ Cardinality({i \in DOMAIN s : s[i] # t[i]}) <= 1
  \/ \E i \in DOMAIN s : t = RemoveAt(s, i)
  \/ Len(t) = Len(s) + 1 /\ SubSeq(t, 1, Len(s)) = s

\* Operand i of a MULTIEQUAL belongs to in edge i.  A primitive may cut an entry out of an
\* in list, put a new one last, or change the source of one in place (splice_block); it
\* never reorders the edges that stay, which would swap the operands of every phi behind.
PhiSlotsKept == [][\A b \in Block : SlotsKept(Sources(graph, b), Sources(graph', b))]_vars

\* The edge lists implement the multigraph that the passes think they work on.
Multiplicity(e) ==
  Cardinality({i \in DOMAIN graph.out[e.from] :
                 /\ graph.out[e.from][i].point = e.to
                 /\ graph.out[e.from][i].label = e.label})

Abstract == INSTANCE MultiGraph
  WITH edges <- [e \in [from : Block, to : Block, label : Label] |-> Multiplicity(e)]

ImplementsMultiGraph == Abstract!Spec
==============================================================================
