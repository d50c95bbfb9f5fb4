----------------------------- MODULE ArgumentPass -----------------------------
(***************************************************************************)
(* funcdata::argument_pass of src/dobc/dobc.cc, by which a function that   *)
(* is to be inlined is worked off: conditional constant propagation, and   *)
(* when there is nothing left to decide a loop of one block is taken apart *)
(* by dowhile2ifwhile.  The first run of its body is then a block of its   *)
(* own, whose condition the next propagation may find constant.            *)
(***************************************************************************)
EXTENDS CfgSimplify

VARIABLES
  clones,   \* how many copies there are
  deviates  \* history: in which ways the last copy does not do what the loop did

passvars == <<clones, deviates>>

PassInit == Init /\ clones = 0 /\ deviates = {}

Copy(n) == newfront - MaxClones + n - 1

is_dowhile(d, b) == b \in Targets(d.graph)[b]

\* MULTIEQUALs are left out of the copy; the new block comes last.
clone_block(d, f, b) ==
  [d EXCEPT !.code[b] = d.code[f], !.last[b] = d.last[f], !.blist = Append(@, b)]

\* From the block behind the loop on, while only one edge comes in and one goes out.
Line(d) ==
  [b \in Block |-> IF Len(d.graph.in[b]) = 1 /\ Len(d.graph.out[b]) = 1 THEN Targets(d.graph)[b] ELSE {}]

\* Mutant: into the loop when the condition does not hold.
IfWhile_swapped(d, b, dw, after) == add_edge(add_edge(d.graph, b, dw, FALSE), b, after, TRUE)

\* add_block_if: into the loop when the condition holds.
IfWhile(d, b, dw, after) == add_edge(add_edge(d.graph, b, dw, TRUE), b, after, FALSE)

\* Where the loop is entered from and left to, by the first of two edges that is another's.
before(d, dw) == LET in == d.graph.in[dw] IN IF in[1][1] = dw THEN in[2][1] ELSE in[1][1]
behind(d, dw) == LET out == d.graph.out[dw] IN IF out[1][2] = dw THEN out[2][2] ELSE out[1][2]

\* The loop is not entered any more when the block to leave for is looked for.
Way(d, dw) == Line([d EXCEPT !.graph = remove_edge(@, before(d, dw), dw)])
Passed(d, dw) == ReachableFrom(Way(d, dw), {behind(d, dw)})

dowhile2ifwhile(d, dw, b) ==
  LET label  == FirstEdge(d.graph, before(d, dw), dw) \in d.graph.taken
      after  == CHOOSE a \in Passed(d, dw) : Way(d, dw)[a] = {}
      d1     == [clone_block(d, dw, b) EXCEPT !.graph = remove_edge(@, before(d, dw), dw)]
      d2     == clear_block_phi(clear_block_phi(d1, behind(d, dw)), dw)
      d3     == IF Len(d2.graph.in[after]) > 1 THEN clear_block_phi(d2, after) ELSE d2
      d4     == [d3 EXCEPT !.graph = add_edge(@, before(d, dw), b, label)]
  IN  [d4 EXCEPT !.graph = IfWhile(d4, b, dw, after)]

\* The loop goes on when its condition does not hold, but the copy enters it when it does.
Inverted(d, dw) == \E e \in Range(d.graph.out[dw]) : e[2] = dw /\ e \notin d.graph.taken

\* The copy leaves for a block further on than the loop does, past one that does something.
PassedOver(d, dw) == \E a \in Passed(d, dw) : Way(d, dw)[a] # {} /\ d.code[a] # << >>

\* A loop of one block with an exit.  MaxRounds bounds these and the rounds together.
Unroll(dw) ==
  /\ phase = "idle" /\ rounds + clones < MaxRounds /\ clones < MaxClones
  /\ clones' = clones + 1
  /\ dw \in Live /\ is_dowhile(c, dw) /\ c.last[dw] = "CBRANCH" /\ Len(In(dw)) > 1
  /\ LET d == dowhile2ifwhile(c, dw, Copy(clones'))
     IN  IF CanReset(d) THEN c' = structure_reset(d) /\ phase' = "unrolled"
         ELSE phase' = "thrown" /\ UNCHANGED c
  /\ flow' = FlowOf(c)
  /\ deviates' = {n \in {"inverted", "passed over"} :
                    IF n = "inverted" THEN Inverted(c, dw) ELSE PassedOver(c, dw)}
  /\ UNCHANGED <<cbrlist, i, rounds>>

\* heritage_clear and heritage.  What the copy computes, and decides, is its own from now on.
EndUnroll ==
  /\ phase = "unrolled"
  /\ c' = [c EXCEPT !.phi = Merges(c.graph), !.code[Copy(clones)] = <<Copy(clones)>>]
  /\ phase' = "idle"
  /\ UNCHANGED <<cbrlist, i, rounds, flow, clones, deviates>>

PassNext ==
  \/ Next /\ rounds' + clones <= MaxRounds /\ UNCHANGED passvars
  \/ \E dw \in Block : Unroll(dw)
  \/ EndUnroll

PassSpec == PassInit /\ [][PassNext]_<<vars, passvars>>

(***************************************************************************)
(* Properties                                                              *)
(***************************************************************************)
\* A loop that is taken apart does what it has done, through the copy as through itself, and
\* so does the function after each of the rewriting steps that follow.  (In two cases the
\* copy does something else: see Inverted and PassedOver.)
BehaviourKept ==
  /\ FlowPreserved
  /\ phase = "unrolled" /\ deviates = {} => FlowOf(c) = flow
===============================================================================
