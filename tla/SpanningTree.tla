----------------------------- MODULE SpanningTree -----------------------------
(***************************************************************************)
(* blockgraph::find_spanning_tree of src/dobc/block.cc: the depth-first    *)
(* walk that numbers the blocks, orders blist in reverse postorder and     *)
(* labels the edges.  It runs on a graph that the passes change between    *)
(* two runs, and it takes over from the run before whatever it does not    *)
(* initialise: the labels, and numdesc of the root.                        *)
(***************************************************************************)
EXTENDS EdgeOps, Integers, FiniteSets, FlowGraphs

CONSTANTS
  Block,     \* 0 .. N - 1, in the order of their addresses; 0 is the entry
  Programs,  \* the flow graphs a run starts from: successor lists by block
  MaxEdits   \* bound: the edges removed between runs

ASSUME BlockAssumption == IsFiniteSet(Block) /\ 0 \in Block /\ Block = 0 .. Cardinality(Block) - 1
\* What flow following makes blocks of is what it has reached from the entry.
FlowGraph(succ) ==
  /\ succ \in [Block -> Seq(Block)]
  /\ ReachableFrom([b \in Block |-> Range(succ[b])], {0}) = Block

ASSUME ProgramsAssumption == \A p \in Programs : FlowGraph(p)
ASSUME EditsAssumption == MaxEdits \in Nat

VARIABLES
  graph,       \* the edge lists
  blist,       \* blockgraph::blist
  phase,       \* what structure_reset is at
  edits,       \* edges removed so far
  exitlist,    \* blockgraph::exitlist: the blocks without an out edge
  state,       \* the stack of the walk
  visitcount,  \* of each block, how many of its out edges the walk has taken
  preorder,    \* the blocks in the order of their discovery
  dfnum, index, numdesc

dfsvars == <<blist, exitlist, state, visitcount, preorder, dfnum, index, numdesc>>
treevars == <<graph, phase, edits, dfsvars>>

tree == "a_tree_edge"
back == "a_back_edge"
forward == "a_forward_edge"
cross == "a_cross_edge"
Labels == {tree, back, forward, cross}

\* The edges of one block: add_edge for every op_edge that leaves it.
connect_block(g, begin, ends) ==
  LET upto[n \in 0 .. Len(ends)] ==
        IF n = 0 THEN g ELSE add_edge(upto[n - 1], begin, ends[n], {})
  IN  upto[Len(ends)]

\* connect_basic: the op_edges in the order of the blocks
connect_basic(succ) ==
  LET upto[n \in 0 .. Cardinality(Block)] ==
        IF n = 0 THEN Edgeless(Block) ELSE connect_block(upto[n - 1], n - 1, succ[n - 1])
  IN  upto[Cardinality(Block)]

Successors(g) == [b \in Block |-> {g.out[b][i].point : i \in DOMAIN g.out[b]}]
succs == Successors(graph)

TypeOK ==
  /\ graph \in Graph(Block, Labels)
  /\ Range(blist) = Block /\ Len(blist) = Cardinality(Block)
  /\ edits \in 0 .. MaxEdits
  /\ state \in Seq(Block) /\ preorder \in Seq(Block)
  /\ visitcount \in [Block -> Nat]
  /\ dfnum \in [Block -> Block \union {-1}] /\ index \in [Block -> Block \union {-1}]
  /\ numdesc \in [Block -> Nat \ {0}]

TreeInitOf(succ) ==
  /\ graph = connect_basic(succ)
  /\ blist = [n \in 1 .. Cardinality(Block) |-> n - 1]
  /\ phase = "edit" /\ edits = 0
  /\ exitlist = << >> /\ state = << >> /\ preorder = << >>
  /\ visitcount = [b \in Block |-> 0]
  /\ dfnum = [b \in Block |-> 0] /\ index = [b \in Block |-> 0]
  /\ numdesc = [b \in Block |-> 1]

TreeInit == \E succ \in Programs : TreeInitOf(succ)

\* A pass drops an edge.  What cannot be reached afterwards is removed before the next
\* run (remove_unreachable_blocks), so the walk starts on a graph it can reach all of.
RemoveEdge(begin, end) ==
  /\ phase \in {"edit", "done"} /\ edits < MaxEdits
  /\ end \in succs[begin]
  /\ LET g == remove_edge(graph, begin, end)
     IN  ReachableFrom(Successors(g), {0}) = Block /\ graph' = g
  /\ edits' = edits + 1
  /\ phase' = "edit"
  /\ UNCHANGED dfsvars

\* The walk starts at blist[0].  It throws unless exactly one block has no in edge; a
\* graph with one entry that reaches every block has no other.
StartTree ==
  /\ phase = "edit"
  /\ Cardinality({b \in Block : graph.in[b] = << >>}) = 1
  /\ LET root == blist[1]
     IN  /\ state' = <<root>> /\ preorder' = <<root>>
         /\ dfnum' = [b \in Block |-> IF b = root THEN 0 ELSE -1]
  /\ index' = [b \in Block |-> -1]
  /\ visitcount' = [b \in Block |-> 0]
  /\ exitlist' = Sublist(blist, {b \in Block : graph.out[b] = << >>})
  /\ phase' = "tree"
  /\ UNCHANGED <<graph, blist, edits, numdesc>>

bl == Last(state)
slot == visitcount[bl] + 1
child == graph.out[bl][slot].point

\* The next out edge of the block on top of the stack gets its label.
Take(lab) ==
  /\ graph' = set_out_edge_flag(graph, bl, slot, {lab})
  /\ visitcount' = [visitcount EXCEPT ![bl] = @ + 1]
  /\ UNCHANGED <<blist, exitlist, phase, edits, index>>

\* Mutant: numdesc is not reset.
Discover_stale ==
  /\ phase = "tree" /\ state # << >> /\ slot <= Len(graph.out[bl])
  /\ dfnum[child] = -1
  /\ state' = Append(state, child)
  /\ dfnum' = [dfnum EXCEPT ![child] = Len(preorder)]
  /\ preorder' = Append(preorder, child)
  /\ UNCHANGED numdesc
  /\ Take(tree)

Discover ==
  /\ phase = "tree" /\ state # << >> /\ slot <= Len(graph.out[bl])
  /\ dfnum[child] = -1
  /\ state' = Append(state, child)
  /\ dfnum' = [dfnum EXCEPT ![child] = Len(preorder)]
  /\ preorder' = Append(preorder, child)
  /\ numdesc' = [numdesc EXCEPT ![child] = 1]
  /\ Take(tree)

\* Mutant: every edge to an earlier block is a back edge.
Classify_dfnum ==
  /\ phase = "tree" /\ state # << >> /\ slot <= Len(graph.out[bl])
  /\ dfnum[child] # -1
  /\ Take(IF dfnum[child] <= dfnum[bl] THEN back ELSE forward)
  /\ UNCHANGED <<state, preorder, dfnum, numdesc>>

Classify ==
  /\ phase = "tree" /\ state # << >> /\ slot <= Len(graph.out[bl])
  /\ dfnum[child] # -1
  /\ Take(IF index[child] = -1 THEN back
          ELSE IF dfnum[bl] < dfnum[child] THEN forward ELSE cross)
  /\ UNCHANGED <<state, preorder, dfnum, numdesc>>

\* The block on top is finished: the last free place of the reverse postorder is its own.
Finish ==
  /\ phase = "tree" /\ state # << >> /\ slot > Len(graph.out[bl])
  /\ LET rpostcount == Cardinality({b \in Block : index[b] = -1})
     IN  index' = [index EXCEPT ![bl] = rpostcount - 1]
  /\ state' = Front(state)
  /\ numdesc' = IF Len(state) = 1 THEN numdesc
                ELSE [numdesc EXCEPT ![Last(Front(state))] = @ + numdesc[bl]]
  /\ UNCHANGED <<graph, blist, exitlist, phase, edits, visitcount, preorder, dfnum>>

EndTree(next) ==
  /\ phase = "tree" /\ state = << >>
  /\ blist' = [n \in 1 .. Len(blist) |-> CHOOSE b \in Block : index[b] = n - 1]
  /\ phase' = next
  /\ UNCHANGED <<graph, edits, exitlist, state, visitcount, preorder, dfnum, index, numdesc>>

Edit == \E begin, end \in Block : RemoveEdge(begin, end)

(***************************************************************************)
(* Properties of a finished run                                            *)
(***************************************************************************)

Done == phase = "done"

Descends(c, b) == dfnum[b] <= dfnum[c] /\ index[b] <= index[c]

\* blist is in reverse postorder: the sweep of calc_forward_dominator meets a block after
\* the blocks its forward edges come from; the entry comes first.
ReversePostorder ==
  Done =>
    /\ blist[1] = 0
    /\ \A u \in Block : blist[index[u] + 1] = u
    /\ \A u \in Block : \A v \in succs[u] :
         index[u] < index[v] \/ Descends(u, v)

\* The descendants of a block are the blocks numbered dfnum .. dfnum + numdesc - 1, which
\* is how find_irreducible asks for them.  The root is left out: its numdesc is never
\* reset, and find_irreducible never asks about it.
DescendantInterval ==
  Done =>
    \A b \in Block \ {0}, c \in Block :
      Descends(c, b) <=> dfnum[c] \in dfnum[b] .. dfnum[b] + numdesc[b] - 1

\* The walk numbers the blocks as the sweeps and the search for loops read the numbers.
Numbering == TypeOK /\ ReversePostorder /\ DescendantInterval

\* An edge to a dominator is a back edge in the first walk, and on a reducible graph no other
\* edge is: what the loop passes look for with get_back_edge_count.
\* (Later walks add their labels to the old ones.)
BackEdgesLabelled ==
  Done /\ edits = 0 =>
    LET succ == succs
        reducible == Reducible(succ, 0)
    IN  \A u \in Block : \A i \in DOMAIN graph.out[u] :
          LET e == graph.out[u][i]
              toDominator == IsBackEdge(succ, 0, u, e.point)
          IN  /\ toDominator => back \in e.label
              /\ reducible /\ back \in e.label => toDominator
==============================================================================
