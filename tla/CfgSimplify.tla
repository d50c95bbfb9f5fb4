------------------------------ MODULE CfgSimplify ------------------------------
(***************************************************************************)
(* The rewriting of the control-flow graph that cond_constant_propagation  *)
(* of src/dobc/funcdata.cc does once constants are known: it drops the     *)
(* edge a constant condition never takes, removes what cannot be reached   *)
(* any more, then the empty blocks, and splices straight lines together.   *)
(*                                                                         *)
(* Of the pcode of a block the module keeps what the rewriting looks at:   *)
(* whether it starts with a MULTIEQUAL (phi), how it ends (last), and what *)
(* it computes in between (code: a sequence of tokens, one for each block  *)
(* of the original function, and each copy, that had something to compute).*)
(***************************************************************************)
EXTENDS BlockEdges, Integers, FlowGraphs

CONSTANTS
  Block,      \* 0 .. N, in the order of their addresses; N is kept for newfront
  MaxClones,  \* bound: the blocks before N that are kept for copies of others
  Programs,   \* the functions: [out, last, empty], by original block
  MaxRounds   \* bound: the calls of cond_constant_propagation

newfront == Cardinality(Block) - 1
Clones == newfront - MaxClones .. newfront - 1
Original == Block \ ({newfront} \union Clones)

ASSUME BlockAssumption == IsFiniteSet(Block) /\ Block = 0 .. Cardinality(Block) - 1
ASSUME ClonesAssumption == MaxClones \in Nat /\ MaxClones + 1 < Cardinality(Block)
ASSUME ProgramsAssumption ==
  \A p \in Programs :
    /\ p.out \in [Original -> Seq(Original)]
    /\ p.last \in [Original -> {"BRANCH", "CBRANCH", "RETURN", "NONE"}]
    /\ p.empty \subseteq Original

VARIABLES
  c,        \* the function: [graph, blist, entry_point, phi, last, code]
  phase,    \* what cond_constant_propagation is at
  cbrlist,  \* the conditional branches with a constant condition: <<block, value>>
  i,        \* the loop counter of redundbranch_apply
  rounds,
  flow      \* history: where control is to go, as of the start of the round

vars == <<c, phase, cbrlist, i, rounds, flow>>

In(b) == c.graph.in[b]
Out(b) == c.graph.out[b]

(***************************************************************************)
(* What control does: from a token to the next ones, for either outcome of *)
(* a condition.                                                            *)
(***************************************************************************)

\* The blocks that control may go to from b: the one out edge, or the true or false one.
Chosen(d, b, cond) ==
  {e[2] : e \in {f \in Range(d.graph.out[b]) :
                   Len(d.graph.out[b]) = 2 => (f \in d.graph.taken <=> cond)}}

\* The first tokens that control meets from the blocks of S on.
FirstTokens(d, S) ==
  LET silent == [b \in Block |-> IF d.code[b] = << >> THEN Targets(d.graph)[b] ELSE {}]
  IN  {Head(d.code[b]) : b \in {e \in ReachableFrom(silent, S) : d.code[e] # << >>}}

NextTokens(d, token, cond) ==
  UNION {LET code == d.code[b]
             n    == SelectInSeq(code, LAMBDA t : t = token)
         IN  IF n < Len(code) THEN {code[n + 1]} ELSE FirstTokens(d, Chosen(d, b, cond)) :
           b \in {e \in Block : token \in Range(d.code[e])}}

Token == Original \union Clones

FlowOf(d) ==
  [start |-> FirstTokens(d, d.entry_point \intersect Range(d.blist)),
   next  |-> [t \in Token \X BOOLEAN |-> NextTokens(d, t[1], t[2])]]

\* The flow when the conditions of the branches in list are what list says.
Decided(fl, list) ==
  [fl EXCEPT !.next = [t \in Token \X BOOLEAN |->
    LET known == {n \in DOMAIN list : list[n][1] = t[1]}
    IN  IF known = {} THEN fl.next[t]
        ELSE fl.next[<<t[1], list[CHOOSE n \in known : TRUE][2]>>]]]

ReachedTokens(fl) ==
  ReachableFrom([t \in Token |-> fl.next[<<t, TRUE>>] \union fl.next[<<t, FALSE>>]], fl.start)

(***************************************************************************)
(* generate_blocks                                                         *)
(***************************************************************************)

\* connect_basic: the fall-through edge of a conditional branch comes first, the taken
\* one is labelled.
connect_basic(p) ==
  LET EdgesOf(b) == [n \in DOMAIN p.out[b] |->
                      <<b, p.out[b][n], p.last[b] = "CBRANCH" /\ n = 2>>]
      edges == FlattenSeq([n \in 1 .. Cardinality(Original) |-> EdgesOf(n - 1)])
  IN  FoldLeft(LAMBDA g, e : add_edge(g, e[1], e[2], e[3]), Edgeless(Block), edges)

\* Blocks with two ways in get their MULTIEQUALs from heritage.
Merges(g) == {b \in Block : Len(g.in[b]) > 1}

\* A walk of find_spanning_tree gives blist its order: the unfinished block on top of the
\* stack goes on to the first of its targets not seen yet, or is finished.
WalkStep(g, w) ==
  IF w.stack = << >> THEN w
  ELSE LET b == Last(w.stack)
           n == SelectInSeq(g.out[b], LAMBDA e : e[2] \notin w.seen)
       IN  IF n = 0 THEN [w EXCEPT !.stack = Front(@), !.rpostorder = <<b>> \o @]
           ELSE [w EXCEPT !.stack = Append(@, g.out[b][n][2]),
                          !.seen = @ \union {g.out[b][n][2]}]

rpostorder(g, root) ==
  FoldLeft(LAMBDA w, n : WalkStep(g, w),
           [stack |-> <<root>>, seen |-> {root}, rpostorder |-> << >>],
           [n \in 1 .. 2 * Cardinality(Block) |-> n]).rpostorder

\* find_spanning_tree throws unless exactly one block has no in edge; a block that its
\* walk from blist[0] misses leaves a hole in blist, on which the next pass fails.
CanReset(d) ==
  /\ Cardinality({b \in Range(d.blist) : d.graph.in[b] = << >>}) = 1
  /\ Len(rpostorder(d.graph, d.blist[1])) = Len(d.blist)

structure_reset(d) == [d EXCEPT !.blist = rpostorder(d.graph, d.blist[1])]

generate_blocks(p) ==
  LET g       == connect_basic(p)
      blocks  == [n \in 1 .. Cardinality(Original) |-> n - 1]
      entered == g.in[0] # << >>
      d       == [graph |-> IF entered THEN add_edge(g, newfront, 0, FALSE) ELSE g,
                  blist |-> IF entered THEN <<newfront>> \o blocks ELSE blocks,
                  entry_point |-> IF entered THEN {0, newfront} ELSE {0},
                  phi   |-> {},
                  last  |-> [b \in Block |-> IF b \in Original THEN p.last[b] ELSE "NONE"],
                  code  |-> [b \in Block |-> IF b \in Original \ p.empty THEN <<b>> ELSE << >>]]
  IN  structure_reset([d EXCEPT !.phi = Merges(d.graph)])

(***************************************************************************)
(* The rewriting steps                                                     *)
(***************************************************************************)
\* Mutant: the MULTIEQUALs of the block stay.
clear_block_phi_none(d, b) == d

clear_block_phi(d, b) == [d EXCEPT !.phi = @ \ {b}]

\* get_in_index and the search of remove_edge find the first of several parallel edges.
remove_edge_of(d, begin, end) == [d EXCEPT !.graph = remove_edge(@, begin, end)]

branch_remove_internal(d, bb, num) ==
  LET bbout == d.graph.out[bb][num][2]
      d1 == IF d.last[bb] = "CBRANCH" /\ Len(d.graph.out[bb]) = 2
            THEN [d EXCEPT !.last[bb] = "NONE"] ELSE d
  IN  clear_block_phi(remove_edge_of(d1, bb, bbout), bbout)

\* Mutant: the block is not taken out of blist.
block_remove_internal_listed(d, bb) ==
  [d EXCEPT !.graph = FoldLeft(Without, @, d.graph.out[bb]),
            !.phi = @ \ {bb}, !.code[bb] = << >>, !.last[bb] = "NONE"]

\* remove_from_flow, the pcode of the block destroyed, remove_block
block_remove_internal(d, bb) ==
  [d EXCEPT !.graph = FoldLeft(Without, @, d.graph.out[bb]),
            !.phi = @ \ {bb}, !.code[bb] = << >>, !.last[bb] = "NONE",
            !.blist = SelectSeq(@, LAMBDA b : b # bb)]

\* Mutant: the new edge does not inherit a_true_edge.
Redirect_unlabelled(d, prev, blk, next) ==
  LET e    == FirstEdge(d.graph, prev, blk)
      g    == add_edge(Without(d.graph, e), prev, next, FALSE)
      out  == g.out[prev]
      both == Len(out) = 2 /\ out[1][2] = out[2][2]
  IN  IF ~both THEN [d EXCEPT !.graph = g]
      ELSE [clear_block_phi(d, next) EXCEPT
              !.graph = remove_edge(g, prev, out[1][2]),
              !.last[prev] = IF @ = "CBRANCH" THEN "NONE" ELSE @]

\* One in edge of an empty block is led past it; a prev with both edges to one block
\* keeps one of them and loses its CBRANCH.
Redirect(d, prev, blk, next) ==
  LET e    == FirstEdge(d.graph, prev, blk)
      g    == add_edge(Without(d.graph, e), prev, next, e \in d.graph.taken)
      out  == g.out[prev]
      both == Len(out) = 2 /\ out[1][2] = out[2][2]
  IN  IF ~both THEN [d EXCEPT !.graph = g]
      ELSE [clear_block_phi(d, next) EXCEPT
              !.graph = remove_edge(g, prev, out[1][2]),
              !.last[prev] = IF @ = "CBRANCH" THEN "NONE" ELSE @]

remove_empty_block(d, blk) ==
  LET next == d.graph.out[blk][1][2]
      d1   == FoldLeft(LAMBDA f, e : Redirect(f, e[1], blk, next),
                       remove_edge_of(d, blk, next), d.graph.in[blk])
  IN  block_remove_internal(d1, blk)

is_empty_delete(d, b) ==
  /\ Len(d.graph.out[b]) = 1 /\ d.graph.out[b][1][2] # b
  /\ d.code[b] = << >> /\ d.last[b] = "NONE"

is_11_branch(d, b) ==
  /\ Len(d.graph.out[b]) = 1 /\ Len(d.graph.in[b]) = 1
  /\ d.code[b] = << >> /\ d.last[b] = "BRANCH" /\ b \notin d.phi

\* Mutant: the code of the second block goes in front.
splice_block_basic_swapped(d, blk) ==
  LET outbl == d.graph.out[blk][1][2]
      g     == FoldLeft(LAMBDA h, e : replace_in_edge(h, e, blk),
                        Without(d.graph, d.graph.out[blk][1]), d.graph.out[outbl])
  IN  [d EXCEPT !.graph = g,
                !.code[blk] = d.code[outbl] \o @, !.code[outbl] = << >>,
                !.last[blk] = d.last[outbl], !.last[outbl] = "NONE",
                !.blist = SelectSeq(@, LAMBDA b : b # outbl)]

\* splice_block_basic up to its structure_reset, with the loop of splice_block
splice_block_basic(d, blk) ==
  LET outbl == d.graph.out[blk][1][2]
      g     == FoldLeft(LAMBDA h, e : replace_in_edge(h, e, blk),
                        Without(d.graph, d.graph.out[blk][1]), d.graph.out[outbl])
  IN  [d EXCEPT !.graph = g,
                !.code[blk] = @ \o d.code[outbl], !.code[outbl] = << >>,
                !.last[blk] = d.last[outbl], !.last[outbl] = "NONE",
                !.blist = SelectSeq(@, LAMBDA b : b # outbl)]

CanSplice(d, b) ==
  /\ Len(d.graph.out[b]) = 1
  /\ LET o == d.graph.out[b][1][2] IN Len(d.graph.in[o]) = 1 /\ o \notin d.entry_point

(***************************************************************************)
(* cond_constant_propagation                                               *)
(***************************************************************************)
Init ==
  /\ \E p \in Programs : c = generate_blocks(p)
  /\ phase = "idle" /\ rounds = 0
  /\ cbrlist = << >> /\ i = 0
  /\ flow = << >>

Live == Range(c.blist)
Branches == {b \in Live : c.last[b] = "CBRANCH"}

\* Dead code elimination empties a block between two rounds.  It leaves the conditions,
\* the returns and the first block of the function something to do.
DeadCode(b) ==
  /\ phase = "idle" /\ rounds \in 1 .. MaxRounds - 1
  /\ b \in Live \ (Branches \union c.entry_point) /\ c.last[b] # "RETURN"
  /\ c.code[b] # << >>
  /\ c' = [c EXCEPT !.code[b] = << >>]
  /\ UNCHANGED <<phase, cbrlist, i, rounds, flow>>

\* constant_propagation has left the conditions it found constant in cbrlist.
StartRound(constant) ==
  /\ phase = "idle" /\ rounds < MaxRounds
  /\ LET S == SetToSeq(DOMAIN constant)
     IN  /\ cbrlist' = [n \in DOMAIN S |-> <<S[n], constant[S[n]]>>]
         /\ flow' = Decided(FlowOf(c), [n \in DOMAIN S |-> <<Last(c.code[S[n]]), constant[S[n]]>>])
  /\ phase' = "cbr"
  /\ rounds' = rounds + 1
  /\ UNCHANGED <<c, i>>

\* The edge that the condition never takes is removed; get_true_edge and get_false_edge
\* throw when there is no such edge.
CutBranch ==
  /\ phase = "cbr" /\ cbrlist # << >>
  /\ LET bb    == Head(cbrlist)[1]
         value == Head(cbrlist)[2]
         num   == SelectInSeq(Out(bb), LAMBDA e : (e \in c.graph.taken) # value)
         to    == SelectInSeq(Out(bb), LAMBDA e : e[2] = Out(bb)[num][2])
         d     == branch_remove_internal(c, bb, to)
     IN  IF num = 0 THEN phase' = "thrown" /\ UNCHANGED c
         ELSE /\ c' = [d EXCEPT !.graph.taken = @ \ {d.graph.out[bb][1]}]
              /\ UNCHANGED phase
  /\ cbrlist' = Tail(cbrlist)
  /\ UNCHANGED <<i, rounds, flow>>

get_entry_point == c.blist[SelectInSeq(c.blist, LAMBDA b : b \in c.entry_point)]

RemoveUnreachableBlocks ==
  /\ phase = "cbr" /\ cbrlist = << >>
  /\ LET reached == ReachableFrom(Targets(c.graph), {get_entry_point})
         list    == SelectSeq(c.blist, LAMBDA b : b \notin reached)
         d       == FoldLeft(LAMBDA e, bb : FoldLeft(LAMBDA f, edge : branch_remove_internal(f, bb, 1),
                                                     e, e.graph.out[bb]), c, list)
         d1      == FoldLeft(block_remove_internal, d, list)
     IN  IF list = << >> THEN c' = c /\ phase' = "empty"
         ELSE IF (\E bb \in Range(list) : d.graph.in[bb] # << >>) \/ ~CanReset(d1)
              THEN c' = c /\ phase' = "thrown"
              ELSE c' = structure_reset(d1) /\ phase' = "empty"
  /\ i' = 0
  /\ UNCHANGED <<cbrlist, rounds, flow>>

\* redundbranch_apply, first loop.  Its test for a block of the vm is always true.
RemoveEmptyBlock ==
  /\ phase = "empty" /\ i < Len(c.blist)
  /\ LET bb == c.blist[i + 1]
     IN  IF is_empty_delete(c, bb) \/ is_11_branch(c, bb)
         THEN c' = remove_empty_block(c, bb) /\ UNCHANGED i
         ELSE i' = i + 1 /\ UNCHANGED c
  /\ UNCHANGED <<phase, cbrlist, rounds, flow>>

EndEmpty ==
  /\ phase = "empty" /\ i = Len(c.blist)
  /\ phase' = "splice" /\ i' = 0
  /\ UNCHANGED <<c, cbrlist, rounds, flow>>

\* Second loop: structure_reset reorders blist under it.  Splicing throws when the block
\* behind starts with a MULTIEQUAL.
SpliceBlock ==
  /\ phase = "splice" /\ i < Len(c.blist)
  /\ LET bb == c.blist[i + 1]
         d  == splice_block_basic(c, bb)
     IN  IF ~CanSplice(c, bb) THEN i' = i + 1 /\ UNCHANGED <<c, phase>>
         ELSE /\ IF Out(bb)[1][2] \in c.phi \/ ~CanReset(d)
                 THEN phase' = "thrown" /\ UNCHANGED c
                 ELSE c' = structure_reset(d) /\ UNCHANGED phase
              /\ UNCHANGED i
  /\ UNCHANGED <<cbrlist, rounds, flow>>

\* structure_reset once more, and heritage builds the SSA form anew.
EndRound ==
  /\ phase = "splice" /\ i = Len(c.blist)
  /\ IF CanReset(c)
     THEN c' = [structure_reset(c) EXCEPT !.phi = Merges(c.graph)] /\ phase' = "idle"
     ELSE phase' = "thrown" /\ UNCHANGED c
  /\ UNCHANGED <<cbrlist, i, rounds, flow>>

Step == CutBranch \/ RemoveUnreachableBlocks \/ RemoveEmptyBlock \/ EndEmpty \/ SpliceBlock \/ EndRound

Next ==
  \/ \E b \in Block : DeadCode(b)
  \/ \E S \in SUBSET Branches : \E constant \in [S -> BOOLEAN] : StartRound(constant)
  \/ Step

Spec == Init /\ [][Next]_vars

(***************************************************************************)
(* Properties                                                              *)
(***************************************************************************)
Phases == {"idle", "cbr", "empty", "splice", "unrolled", "thrown"}

TypeOK ==
  /\ Live \subseteq Block /\ Len(c.blist) = Cardinality(Live)
  /\ \A b \in Block : Targets(c.graph)[b] \subseteq Block
  /\ c.phi \subseteq Block /\ c.entry_point \subseteq Block
  /\ c.last \in [Block -> {"BRANCH", "CBRANCH", "RETURN", "NONE"}]
  /\ phase \in Phases /\ i \in 0 .. Len(c.blist) /\ rounds \in 0 .. MaxRounds

\* None of the checks of the rewriting fails: not the search for a true or a false edge,
\* not the block removed while it is still entered, not the MULTIEQUAL in front of a
\* splice, not the count of entries in find_spanning_tree.
NothingThrown == phase # "thrown"

\* A block that ends in a conditional branch has two ways on, and exactly one of them is
\* the taken one, whatever edges were removed, redirected or moved.
BranchesKeepTheirEdges ==
  /\ TypeOK
  /\ \A b \in Branches :
       Len(Out(b)) = 2 /\ Cardinality(Range(Out(b)) \intersect c.graph.taken) = 1

\* Once the dead edges are gone, the steps keep what the function does: whatever it can
\* still reach goes on to the same computation for the same outcome of every condition;
\* and nothing that cannot be reached is left.
FlowPreserved ==
  phase \in {"empty", "splice"} =>
    LET now == FlowOf(c)
    IN  /\ now.start = flow.start
        /\ \A t \in ReachedTokens(flow) \X BOOLEAN : now.next[t] = flow.next[t]
        /\ ReachableFrom(Targets(c.graph), {get_entry_point}) = Live

\* Every step of a call brings it nearer to its end, so the call returns: a branch less in
\* cbrlist, a block less in the function, or one block less to look at in a loop that
\* steps back whenever it has changed something.
PhasesLeft == [cbr |-> 3, empty |-> 2, splice |-> 1, unrolled |-> 0, idle |-> 0, thrown |-> 0][phase]

Work == <<PhasesLeft, Len(cbrlist), Cardinality(Live), Len(c.blist) - i>>

Less(v, w) == \E n \in DOMAIN v : v[n] < w[n] /\ \A m \in 1 .. n - 1 : v[m] = w[m]

InRound == phase \in {"cbr", "empty", "splice"}
RoundsEnd == [][InRound => Less(Work', Work)]_vars
==============================================================================
