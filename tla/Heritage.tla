------------------------------- MODULE Heritage -------------------------------
(***************************************************************************)
(* SSA form for one storage location: funcdata::heritage of                *)
(* src/dobc/funcdata.cc places the MULTIEQUALs (phis) and links every      *)
(* reader to its definition, again each time the passes have changed the   *)
(* control-flow graph or removed an op.                                    *)
(*                                                                         *)
(* A block holds at most one op on the location besides a phi (a longer    *)
(* block is a chain of blocks here), so a block names its op.              *)
(***************************************************************************)
EXTENDS BlockEdges, FlowGraphs

CONSTANTS
  Block,        \* 0 .. N - 1; 0 is the entry
  Programs,     \* the functions: [out, op], by block
  MaxHeritages  \* bound: the calls of heritage

Ops == {"none", "read", "write", "copy"}  \* copy: r = COPY r

ASSUME BlockAssumption == IsFiniteSet(Block) /\ 0 \in Block
ASSUME ProgramsAssumption ==
  \A p \in Programs : p.out \in [Block -> Seq(Block)] /\ p.op \in [Block -> Ops]

VARIABLES
  graph, blocks,    \* the edges and the blocks of blist
  op, phi,          \* of each block its op, and the inputs of its phi (none: << >>)
  link,             \* the varnode that the read of a block reads
  phase, times,     \* what heritage is at, how often it was called
  immed_dom,        \* from structure_reset
  pq, visit, marked, merge,           \* calc_phi_placement3
  path, entered, varstack, topname    \* rename: the blocks being visited and those visited

code == <<graph, blocks, op, phi, link>>
placement == <<pq, visit, marked, merge>>
renaming == <<path, entered, varstack, topname>>
vars == <<code, phase, times, immed_dom, placement, renaming>>

\* Varnodes: the outputs of the ops and phis, the input of the function, and the free
\* ones that no definition is known for.
Written(b) == <<"write", b>>
Phi(b) == <<"phi", b>>
Input == <<"input">>
Free == <<"free">>
Defined == {Written(b) : b \in Block} \union {Phi(b) : b \in Block}
Value == Defined \union {Input, Free}

succs == Targets(graph)
HasPhi(b) == phi[b] # << >>
Writers == {b \in blocks : op[b] \in {"write", "copy"} \/ HasPhi(b)}

Init ==
  /\ \E p \in Programs :
       /\ graph = LET edges == FlattenSeq([n \in 1 .. Cardinality(Block) |->
                                 [i \in DOMAIN p.out[n - 1] |-> <<n - 1, p.out[n - 1][i]>>]])
                  IN  FoldLeft(LAMBDA g, e : add_edge(g, e[1], e[2], FALSE), Edgeless(Block), edges)
       /\ op = p.op
  /\ blocks = Block
  /\ phi = [b \in Block |-> << >>] /\ link = [b \in Block |-> Free]
  /\ phase = "edit" /\ times = 0
  /\ immed_dom = [b \in Block |-> b]
  /\ pq = {} /\ visit = {} /\ marked = {} /\ merge = {}
  /\ path = << >> /\ entered = {} /\ varstack = << >> /\ topname = {}

(***************************************************************************)
(* What the passes do between two calls.                                   *)
(***************************************************************************)

Between == phase \in {"done", "edit"} /\ times \in 1 .. MaxHeritages - 1

\* The readers of the phis of S are left with free varnodes (op_destroy_ssa).
Freed(v, S) == IF v \in {Phi(b) : b \in S} THEN Free ELSE v

WithoutPhis(S) ==
  /\ phi' = [b \in Block |-> IF b \in S THEN << >> ELSE [i \in DOMAIN phi[b] |-> Freed(phi[b][i], S)]]
  /\ link' = [b \in Block |-> Freed(link[b], S)]

\* branch_remove_internal, with remove_unreachable_blocks: clear_block_phi for the target
\* of every edge that goes, and the ops of what cannot be reached are destroyed.
CutBranch(b, n) ==
  /\ Between
  /\ b \in blocks /\ Len(graph.out[b]) = 2
  /\ LET e     == graph.out[b][n]
         g     == Without(graph, e)
         left  == ReachableFrom(Targets(g), {0})
         gone  == blocks \ left
         g1    == [g EXCEPT !.in = [c \in Block |-> SelectSeq(@[c], LAMBDA f : f[1] \in left)],
                            !.out = [c \in Block |-> IF c \in left THEN @[c] ELSE << >>]]
     IN  /\ graph' = g1 /\ blocks' = blocks \intersect left
         /\ op' = [c \in Block |-> IF c \in gone THEN "none" ELSE op[c]]
         /\ WithoutPhis({e[2]} \union gone \union UNION {succs[c] : c \in gone})
  /\ phase' = "edit"
  /\ UNCHANGED <<times, immed_dom, placement, renaming>>

\* dead_code_elimination: what has no reader and is not live at an exit goes, then what
\* only that has read.
Used(gone) ==
  topname \union {link[b] : b \in {c \in blocks : op[c] = "read"}}
          \union UNION {Range(phi[b]) : b \in {c \in Block : Phi(c) \notin gone}}

Dead ==
  LET present == {Written(b) : b \in {c \in blocks : op[c] = "write"}}
                 \union {Phi(b) : b \in {c \in blocks : HasPhi(c)}}
      R[n \in 0 .. Cardinality(present)] ==
        IF n = 0 THEN {} ELSE LET gone == R[n - 1] IN gone \union (present \ Used(gone))
  IN  R[Cardinality(present)]

DeadCodeElimination ==
  /\ Between
  /\ Dead # {}
  /\ op' = [b \in Block |-> IF Written(b) \in Dead /\ op[b] = "write" THEN "none" ELSE op[b]]
  /\ phi' = [b \in Block |-> IF Phi(b) \in Dead THEN << >> ELSE phi[b]]
  /\ phase' = "edit"
  /\ UNCHANGED <<graph, blocks, link, times, immed_dom, placement, renaming>>

\* remove_empty_block: the in edges of the block are led to the end of the in list of its
\* successor.  A block with only a phi is empty.
RemoveEmptyBlock(b) ==
  /\ Between
  /\ b \in blocks \ {0} /\ op[b] = "none"
  /\ Len(graph.out[b]) = 1 /\ graph.out[b][1][2] # b
  /\ LET next == graph.out[b][1][2]
         \* a block with both edges to next keeps one
         Led(g, e) == LET g1 == add_edge(Without(g, e), e[1], next, FALSE)
                      IN  IF Cardinality({f \in Range(g1.out[e[1]]) : f[2] = next}) = 1 THEN g1
                          ELSE remove_edge(g1, e[1], next)
         both == \E e \in Range(graph.in[b]) : next \in succs[e[1]]
     IN  /\ graph' = FoldLeft(Led, Without(graph, graph.out[b][1]), graph.in[b])
         /\ WithoutPhis({b} \union (IF both THEN {next} ELSE {}))
  /\ blocks' = blocks \ {b}
  /\ phase' = "edit"
  /\ UNCHANGED <<op, times, immed_dom, placement, renaming>>

(***************************************************************************)
(* place_multiequal with calc_phi_placement3: phis for the merge points of *)
(* the DJ-graph.                                                           *)
(***************************************************************************)
Depth(b) == Cardinality(StrictDominators(succs, 0, b))

\* build_adt; without a written varnode there is nothing to place.
StartHeritage ==
  /\ phase \in {"done", "edit"} /\ times < MaxHeritages
  /\ immed_dom' = [b \in Block |-> IF b \in blocks \ {0} THEN Idom(succs, 0, b) ELSE b]
  /\ pq' = Writers /\ visit' = {} /\ marked' = {} /\ merge' = {}
  /\ times' = times + 1
  /\ phase' = "place"
  /\ UNCHANGED <<code, renaming>>

DomDepth(b) ==
  LET up[n \in 0 .. Cardinality(Block)] == IF n = 0 THEN b ELSE immed_dom[up[n - 1]]
  IN  Cardinality({up[n] : n \in 0 .. Cardinality(Block)})

\* visit_dj follows the edges to the blocks that a block dominates immediately, as far as
\* no visit has come before.
Region(cur) ==
  ReachableFrom([b \in Block |-> {out \in succs[b] : immed_dom[out] = b /\ out # b} \ visit], {cur})

\* The entry has no immediate dominator, and immed_dom names the entry itself here.
IsJEdge(b, out) == out \in succs[b] /\ (immed_dom[out] # b \/ out = b)

\* Mutant: blocks as deep as cur are left out.
IsMergePoint_above(cur, b, out) == IsJEdge(b, out) /\ DomDepth(out) < DomDepth(cur)

IsMergePoint(cur, b, out) == IsJEdge(b, out) /\ DomDepth(out) <= DomDepth(cur)

\* One of the deepest blocks leaves the queue; the edges out of its region to blocks that
\* are not deeper lead to merge points.
Extract(cur) ==
  /\ phase = "place" /\ cur \in pq
  /\ \A b \in pq : DomDepth(b) <= DomDepth(cur)
  /\ LET region == Region(cur)
         found  == {out \in blocks : \E b \in region : IsMergePoint(cur, b, out)}
     IN  /\ merge' = merge \union found
         /\ marked' = marked \union found
         /\ pq' = (pq \ {cur}) \union (found \ marked)
         /\ visit' = visit \union region
  /\ UNCHANGED <<code, phase, times, immed_dom, renaming>>

\* A merge point gets a phi unless it has one for all its in edges.
PlacePhis ==
  /\ phase = "place" /\ pq = {}
  /\ LET stale == {b \in merge : Len(phi[b]) # Len(graph.in[b])}
     IN  /\ phi' = [b \in Block |-> IF b \in stale THEN [i \in DOMAIN graph.in[b] |-> Free]
                                    ELSE [i \in DOMAIN phi[b] |-> Freed(phi[b][i], stale)]]
         /\ link' = [b \in Block |-> Freed(link[b], stale)]
  /\ phase' = "rename"
  /\ path' = << >> /\ entered' = {} /\ varstack' = << >> /\ topname' = {}
  /\ UNCHANGED <<graph, blocks, op, times, immed_dom, placement>>

(***************************************************************************)
(* rename_recurse                                                          *)
(***************************************************************************)
Top(s) == IF s = << >> THEN Input ELSE Last(s)
Looked(s) == IF s = << >> THEN <<Input>> ELSE s   \* a look pushes the input

\* The slots of the phis behind b that belong to its out edges.
SlotsBehind(b) ==
  {<<e[2], SelectInSeq(graph.in[e[2]], LAMBDA f : f = e)>> :
     e \in {f \in Range(graph.out[b]) : HasPhi(f[2])}}

Children(b) == {c \in blocks \ {0} : immed_dom[c] = b}

\* Mutant: a leaf of the dominator tree is taken for an exit.
LiveAtExit_leaf(b, v) == IF Children(b) = {} THEN {v} \ {Input} ELSE {}

LiveAtExit(b, v) == IF graph.out[b] = << >> THEN {v} \ {Input} ELSE {}

\* The phis, the op and the phis behind b.  A COPY to its own location is destroyed, its
\* readers take its source; they are all linked anew behind it anyway.
Enter(b) ==
  /\ phase = "rename" /\ b \in blocks \ entered
  /\ IF path = << >> THEN b = 0 ELSE immed_dom[b] = Last(path) /\ b # 0
  /\ LET s0 == IF HasPhi(b) THEN Append(varstack, Phi(b)) ELSE varstack
         s1 == IF op[b] = "read" THEN Looked(s0)
               ELSE IF op[b] = "write" THEN Append(s0, Written(b)) ELSE s0
         slots == SlotsBehind(b)
     IN  IF \E sl \in slots : sl[2] > Len(phi[sl[1]])
         THEN phase' = "overrun" /\ UNCHANGED <<code, path, entered, varstack, topname>>
         ELSE /\ link' = IF op[b] = "read" THEN [link EXCEPT ![b] = Top(s0)] ELSE link
              /\ op' = IF op[b] = "copy" THEN [op EXCEPT ![b] = "none"] ELSE op
              /\ phi' = [c \in Block |-> [i \in DOMAIN phi[c] |->
                           IF <<c, i>> \in slots THEN Top(s1) ELSE phi[c][i]]]
              /\ varstack' = IF slots = {} THEN s1 ELSE Looked(s1)
              /\ topname' = topname \union LiveAtExit(b, Top(s1))
              /\ path' = Append(path, b) /\ entered' = entered \union {b}
              /\ UNCHANGED <<graph, blocks, phase>>
  /\ UNCHANGED <<times, immed_dom, placement>>

\* Mutant: the phi of the block is not in writelist.
writelist_ops(b) == IF op[b] = "write" THEN {Written(b)} ELSE {}

writelist(b) == (IF op[b] = "write" THEN {Written(b)} ELSE {}) \union (IF HasPhi(b) THEN {Phi(b)} ELSE {})

\* One pop for every varnode that b wrote, whatever lies on top.
Leave ==
  /\ phase = "rename" /\ path # << >>
  /\ LET b == Last(path)
     IN  /\ Children(b) \subseteq entered
         /\ varstack' = SubSeq(varstack, 1, Len(varstack) - Cardinality(writelist(b)))
         /\ phase' = IF b = 0 THEN "done" ELSE phase
  /\ path' = Front(path)
  /\ UNCHANGED <<code, times, immed_dom, placement, entered, topname>>

Step ==
  \/ \E b \in Block : Extract(b) \/ Enter(b)
  \/ PlacePhis
  \/ Leave

Next ==
  \/ \E b \in Block : \E n \in 1 .. 2 : CutBranch(b, n)
  \/ \E b \in Block : RemoveEmptyBlock(b)
  \/ DeadCodeElimination
  \/ StartHeritage
  \/ Step

Spec == Init /\ [][Next]_vars

(***************************************************************************)
(* Properties                                                              *)
(***************************************************************************)
TypeOK ==
  /\ blocks \subseteq Block /\ op \in [Block -> Ops]
  /\ phi \in [Block -> Seq(Value)] /\ link \in [Block -> Value]
  /\ phase \in {"edit", "place", "rename", "done", "overrun"} /\ times \in 0 .. MaxHeritages
  /\ immed_dom \in [Block -> Block]
  /\ pq \union visit \union marked \union merge \union entered \subseteq Block
  /\ varstack \in Seq(Value) /\ topname \subseteq Defined /\ path \in Seq(Block)

Placed == phase = "place" /\ pq = {}
IDF == IteratedFrontier(succs, 0, Writers)

\* Every block that the written values can meet in gets a phi: the iterated dominance
\* frontier of the writers.
PlacementComplete == Placed => IDF \subseteq merge

\* No block gets a phi for nothing; and none is missed in a graph where every block can be
\* entered directly from its immediate dominator.
PlacementExact ==
  /\ TypeOK
  /\ Placed => /\ merge \subseteq IDF
               /\ (\A b \in blocks \ {0} : b \in succs[immed_dom[b]]) => merge = IDF

\* The definition at the end of b, and those that reach its start and its end.
Defs == {b \in blocks : op[b] = "write" \/ HasPhi(b)}
EndDef(b) == IF op[b] = "write" THEN Written(b) ELSE Phi(b)
Clear == [b \in Block |-> IF b \in Defs THEN {} ELSE succs[b]]
ReachStart(b) ==
  {EndDef(d) : d \in {e \in Defs : b \in ReachableFrom(Clear, succs[e])}}
  \union (IF b \in ReachableFrom(Clear, {0}) THEN {Input} ELSE {})
ReachEnd(b) == IF b \in Defs THEN {EndDef(b)} ELSE ReachStart(b)

\* Once heritage is through, and if no phi was missed, every read is linked to the one
\* definition that reaches it, and every input of a phi to the one that reaches the end
\* of its in edge: over all paths, after any edits, with phis left from earlier calls.
Renamed == phase = "done" /\ IDF \subseteq {b \in blocks : HasPhi(b)}

LinksAreReachingDefinitions ==
  Renamed =>
    \A b \in blocks :
      /\ op[b] = "read" => {link[b]} = IF HasPhi(b) THEN {Phi(b)} ELSE ReachStart(b)
      /\ HasPhi(b) => /\ Len(phi[b]) = Len(graph.in[b])
                      /\ \A i \in DOMAIN phi[b] : {phi[b][i]} = ReachEnd(graph.in[b][i][1])

\* topname holds exactly the definitions that reach an exit: dead code elimination spares
\* nothing else that has no reader.
TopnameIsLiveAtExit ==
  Renamed => topname = UNION {ReachEnd(b) : b \in {c \in blocks : graph.out[c] = << >>}} \ {Input}

\* A phi has an input for every in edge when rename fills them in.
PhisFitTheirBlocks == phase # "overrun"
==============================================================================
