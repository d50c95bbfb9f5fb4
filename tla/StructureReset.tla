---------------------------- MODULE StructureReset ----------------------------
(***************************************************************************)
(* funcdata::structure_reset: find_spanning_tree, then find_irreducible    *)
(* (which loop a block belongs to), then calc_forward_dominator.           *)
(***************************************************************************)
EXTENDS SpanningTree

VARIABLES
  \* find_irreducible
  xi,           \* the place in preorder of the block looked at
  reachunder,   \* the part of its loop found so far
  q,            \* how many blocks of reachunder have been expanded
  mark,         \* the blocks with f_mark
  copymap, irreducibles, loopheader, loopnodes, loopheaders,
  \* calc_forward_dominator
  immed_dom, changed,
  pos           \* the block the sweep is at, by its place in blist

loopvars == <<xi, reachunder, q, mark, copymap, irreducibles, loopheader, loopnodes, loopheaders>>
domvars == <<immed_dom, changed, pos>>
vars == <<treevars, loopvars, domvars>>

NONE == -1

Init ==
  /\ TreeInit
  /\ xi = 0 /\ reachunder = << >> /\ q = 0 /\ mark = {}
  /\ copymap = [b \in Block |-> NONE]
  /\ irreducibles = [b \in Block |-> {}]
  /\ loopheader = [b \in Block |-> NONE] /\ loopnodes = [b \in Block |-> << >>]
  /\ loopheaders = << >>
  /\ immed_dom = [b \in Block |-> NONE] /\ changed = FALSE /\ pos = 0

(***************************************************************************)
(* find_irreducible                                                        *)
(***************************************************************************)

\* The loop information is cleared and copymap set while find_spanning_tree initialises.
StartLoops ==
  /\ EndTree("loop")
  /\ xi' = Cardinality(Block)
  /\ reachunder' = << >> /\ q' = 0 /\ mark' = {}
  /\ copymap' = [b \in Block |-> b]
  /\ irreducibles' = [b \in Block |-> {}]
  /\ loopheader' = [b \in Block |-> NONE] /\ loopnodes' = [b \in Block |-> << >>]
  /\ loopheaders' = << >>
  /\ UNCHANGED domvars

x == preorder[xi]

\* Mutant: a block that branches to itself lies in its own loop.
BackSources_self(b) ==
  LET in == Sublist(graph.in[b], {e \in Range(graph.in[b]) : back \in e.label})
  IN  [i \in DOMAIN in |-> in[i].point]

\* The sources of the back edges into b other than b, in the order of its in list.
BackSources(b) ==
  LET in == Sublist(graph.in[b], {e \in Range(graph.in[b]) : back \in e.label /\ e.point # b})
  IN  [i \in DOMAIN in |-> in[i].point]

\* One source y: its copymap, then the blocks with an edge into that one's loop.
PushSource(acc, y) ==
  LET c   == copymap[y]
      new == SetToSeq(irreducibles[c] \ (acc.mark \union {c}))
  IN  [under |-> Append(acc.under, c) \o new,
       mark  |-> acc.mark \union {c} \union irreducibles[c]]

\* All of them, in the order of the in list.
PushSources(sources) ==
  LET upto[n \in 0 .. Len(sources)] ==
        IF n = 0 THEN [under |-> << >>, mark |-> {}] ELSE PushSource(upto[n - 1], sources[n])
  IN  upto[Len(sources)]

CollectSources ==
  /\ phase = "loop" /\ xi > 0 /\ reachunder = << >>
  /\ LET acc == PushSources(BackSources(x))
     IN  IF acc.under # << >>
         THEN reachunder' = acc.under /\ mark' = acc.mark /\ xi' = xi
         ELSE xi' = xi - 1 /\ UNCHANGED <<reachunder, mark>>
  /\ LET header == \E i \in DOMAIN graph.in[x] : back \in graph.in[x][i].label
     IN  /\ loopheaders' = IF header THEN Append(loopheaders, x) ELSE loopheaders
         /\ loopnodes' = IF header THEN [loopnodes EXCEPT ![x] = Append(@, x)] ELSE loopnodes
  /\ q' = 0
  /\ UNCHANGED <<copymap, irreducibles, loopheader, treevars, domvars>>

\* Mutant: the header lies outside its own subtree.
PullSource_strict(acc, y) ==
  LET yprime == copymap[y]
  IN  IF dfnum[x] >= dfnum[yprime] \/ dfnum[x] + numdesc[x] <= dfnum[yprime]
      THEN [acc EXCEPT !.entries = @ \union {yprime}]
      ELSE IF yprime \in acc.mark \union {x} THEN acc
      ELSE [acc EXCEPT !.under = Append(@, yprime), !.mark = @ \union {yprime}]

\* One in edge of a block of the loop: its source lies outside the subtree of x, or it is
\* one more block of the loop.
PullSource(acc, y) ==
  LET yprime == copymap[y]
  IN  IF dfnum[x] > dfnum[yprime] \/ dfnum[x] + numdesc[x] <= dfnum[yprime]
      THEN [acc EXCEPT !.entries = @ \union {yprime}]
      ELSE IF yprime \in acc.mark \union {x} THEN acc
      ELSE [acc EXCEPT !.under = Append(@, yprime), !.mark = @ \union {yprime}]

\* All in edges of one block of the loop.
PullSources(in) ==
  LET upto[n \in 0 .. Len(in)] ==
        IF n = 0 THEN [under |-> reachunder, mark |-> mark, entries |-> {}]
        ELSE PullSource(upto[n - 1], in[n].point)
  IN  upto[Len(in)]

Expand ==
  /\ phase = "loop" /\ q < Len(reachunder)
  /\ LET acc == PullSources(graph.in[reachunder[q + 1]])
     IN  /\ reachunder' = acc.under /\ mark' = acc.mark
         /\ irreducibles' = [irreducibles EXCEPT ![x] = @ \union acc.entries]
  /\ q' = q + 1
  /\ UNCHANGED <<xi, copymap, loopheader, loopnodes, loopheaders, treevars, domvars>>

\* The loop is complete: x stands for its blocks from now on.
Collapse ==
  /\ phase = "loop" /\ reachunder # << >> /\ q = Len(reachunder)
  /\ LET loop == Range(reachunder)
     IN  /\ copymap' = [b \in Block |-> IF b \in loop THEN x ELSE copymap[b]]
         /\ loopheader' = [b \in Block |-> IF b \in loop THEN x ELSE loopheader[b]]
         /\ mark' = mark \ loop
  /\ loopnodes' = [loopnodes EXCEPT ![x] = @ \o reachunder]
  /\ reachunder' = << >>
  /\ xi' = xi - 1
  /\ UNCHANGED <<q, irreducibles, loopheaders, treevars, domvars>>

(***************************************************************************)
(* calc_forward_dominator                                                  *)
(***************************************************************************)
entry == blist[1]

StartDominators ==
  /\ phase = "loop" /\ xi = 0
  /\ phase' = "dominators"
  /\ immed_dom' = [b \in Block |-> IF b \in {entry} \union succs[entry] THEN entry ELSE NONE]
  /\ changed' = FALSE
  /\ pos' = 2
  /\ copymap' = [b \in Block |-> NONE]
  /\ UNCHANGED <<graph, edits, dfsvars, xi, reachunder, q, mark, irreducibles, loopheader,
                 loopnodes, loopheaders>>

\* The two fingers climb from the block of the higher index until they meet.  A finger that
\* runs into a block without immed_dom (the code would follow the null pointer) ends as NONE.
Finger == Block \union {NONE}
Intersect[f \in Finger \X Finger] ==
  IF f[1] = f[2] THEN f[1]
  ELSE IF NONE \in {f[1], f[2]} THEN NONE
  ELSE IF index[f[1]] > index[f[2]] THEN Intersect[<<immed_dom[f[1]], f[2]>>]
  ELSE Intersect[<<f[1], immed_dom[f[2]]>>]

\* Mutant: the first in edge decides.
NewIdom_first(b) ==
  SelectSeq(graph.in[b], LAMBDA e : immed_dom[e.point] # NONE)[1].point

\* The in edges from blocks that have an immed_dom already, from the first on.
NewIdom(b) ==
  LET new_idom[j \in 0 .. Len(graph.in[b])] ==
        IF j = 0 THEN NONE
        ELSE LET rho == graph.in[b][j].point
                 was == new_idom[j - 1]
             IN  IF immed_dom[rho] = NONE THEN was
                 ELSE IF was = NONE THEN rho ELSE Intersect[<<rho, was>>]
  IN  new_idom[Len(graph.in[b])]

Sweep ==
  /\ phase = "dominators" /\ pos <= Len(blist)
  /\ LET b == blist[pos]
     IN  IF immed_dom[b] = entry THEN UNCHANGED <<immed_dom, changed>>
         ELSE /\ immed_dom' = [immed_dom EXCEPT ![b] = NewIdom(b)]
              /\ changed' = (changed \/ immed_dom[b] # NewIdom(b))
  /\ pos' = pos + 1
  /\ UNCHANGED <<treevars, loopvars>>

\* Mutant: changed is not cleared for the next sweep.
EndSweep_again ==
  /\ phase = "dominators" /\ pos > Len(blist)
  /\ IF changed
     THEN pos' = 2 /\ UNCHANGED <<changed, immed_dom, phase>>
     ELSE phase' = "done" /\ immed_dom' = [immed_dom EXCEPT ![entry] = NONE]
          /\ UNCHANGED <<pos, changed>>
  /\ UNCHANGED <<graph, edits, dfsvars, loopvars>>

EndSweep ==
  /\ phase = "dominators" /\ pos > Len(blist)
  /\ IF changed
     THEN pos' = 2 /\ changed' = FALSE /\ UNCHANGED <<immed_dom, phase>>
     ELSE phase' = "done" /\ immed_dom' = [immed_dom EXCEPT ![entry] = NONE]
          /\ UNCHANGED <<pos, changed>>
  /\ UNCHANGED <<graph, edits, dfsvars, loopvars>>

Step ==
  \/ (StartTree \/ Discover \/ Classify \/ Finish) /\ UNCHANGED <<loopvars, domvars>>
  \/ StartLoops
  \/ CollectSources
  \/ Expand
  \/ Collapse
  \/ StartDominators
  \/ Sweep
  \/ EndSweep

Next == Step \/ (Edit /\ UNCHANGED <<loopvars, domvars>>)

Spec == Init /\ [][Next]_vars /\ WF_vars(Step)

(***************************************************************************)
(* Properties                                                              *)
(***************************************************************************)

\* The sweeps end with the immediate dominators: SSA form is built on them.
DominatorsExact ==
  Done =>
    /\ immed_dom[entry] = NONE
    /\ \A b \in Block \ {entry} : immed_dom[b] = Idom(succs, entry, b)

\* A block enters the irreducibles of a loop exactly when the graph is irreducible: the
\* passes treat a loop without irreducibles as a natural loop.
IrreducibleFound ==
  Done /\ edits = 0 => (Reducible(succs, 0) <=> \A b \in Block : irreducibles[b] = {})

Headers == {h \in Block : \E u \in Block : IsBackEdge(succs, 0, u, h)}
LoopsAround(b) == {h \in Headers \ {b} : b \in NaturalLoop(succs, 0, h)}

\* On a reducible graph the headers found are the headers there are, and the loopheader of
\* a block is the header of a natural loop around it, or NONE if there is no such loop.
LoopMembership ==
  Done /\ edits = 0 /\ Reducible(succs, 0) =>
    /\ Range(loopheaders) = Headers
    /\ \A b \in Block :
         IF LoopsAround(b) = {} THEN loopheader[b] = NONE ELSE loopheader[b] \in LoopsAround(b)

\* What `y\' = FIND(y)' promises at the use of copymap: the loopheader of a block is the
\* header of the innermost loop around it.
InnermostHeader ==
  Done /\ edits = 0 /\ Reducible(succs, 0) =>
    \A b \in Block : \A h \in LoopsAround(b) :
      loopheader[b] = h \/ loopheader[b] \in NaturalLoop(succs, 0, h)
==============================================================================
