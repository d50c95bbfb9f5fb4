------------------------------- MODULE LiveSets -------------------------------
(***************************************************************************)
(* The registers live before and behind every pcode op, from which the  *)
(* code generator takes its scratch registers: compute_local_live_sets_p   *)
(* and compute_global_live_sets_p of src/dobc/block.cc, on the graph that  *)
(* the last structure_reset has left.                                      *)
(***************************************************************************)
EXTENDS SpanningTree

CONSTANTS
  Core,     \* r0 .. r15, by their number: 0xffff is live where the function returns
  Flags,    \* NG, ZR, CY and OV
  Scratch,  \* the registers a call does not keep
  MaxAlloc, \* the last register regalloc hands out, R12
  Functions \* [succ: a flow graph; body: the ops of each block; noreturn: the blocks that
            \*  end with a call that does not return; size: of the function, in bytes]

Reg == Core \union Flags

ASSUME LiveAssumption ==
  /\ IsFiniteSet(Core) /\ IsFiniteSet(Flags)
  /\ Core \subseteq Nat /\ Flags \subseteq Nat /\ Core \intersect Flags = {}
  /\ Scratch \subseteq Core /\ MaxAlloc \in Core
  /\ \A f \in Functions :
       /\ FlowGraph(f.succ)
       /\ 0 \notin f.noreturn  \* sort_blocks would read an in edge that the entry does not have
       /\ \A b \in Block :
            /\ f.body[b] \in Seq(Range(f.body[b])) \ {<< >>}
            /\ \A n \in DOMAIN f.body[b] :
                 f.body[b][n].reads \subseteq Reg /\ f.body[b][n].writes \subseteq Reg

VARIABLES
  prog,
  live_in, live_out,  \* by block and place in its list of ops
  setschanged,
  bpos, opos          \* the block by its place in blist, and the op the sweep is at

livevars == <<prog, live_in, live_out, setschanged, bpos, opos>>

body == prog.body
Places == UNION {{b} \X DOMAIN body[b] : b \in Block}

LiveInit ==
  /\ prog \in Functions
  /\ TreeInitOf(prog.succ)
  /\ live_in = [p \in Places |-> {}] /\ live_out = [p \in Places |-> {}]
  /\ setschanged = FALSE /\ bpos = 0 /\ opos = 0

op(p) == body[p[1]][p[2]]

live_gen(p) == op(p).reads

live_kill(p) == op(p).writes \union (IF op(p).kind = "call" THEN Scratch ELSE {})

is_end(b) == graph.out[b] = << >>
noreturn(b) == b \in prog.noreturn

\* The passes are over: the first sweep starts from the last op of the last block.
StartSets ==
  /\ Done
  /\ phase' = "live"
  /\ setschanged' = FALSE
  /\ bpos' = Len(blist) /\ opos' = Len(body[Last(blist)])
  /\ UNCHANGED <<prog, live_in, live_out, graph, edits, dfsvars>>

\* Mutant: everything is live behind a call that does not return as well.
LiveOut_noreturn(p) ==
  IF p[2] < Len(body[p[1]]) THEN live_in[<<p[1], p[2] + 1>>]
  ELSE live_out[p] \union
       (IF is_end(p[1]) THEN Core ELSE UNION {live_in[<<s, 1>>] : s \in succs[p[1]]})

\* The last op of a block adds what its successors' first ops need to what it had.
LiveOut(p) ==
  IF p[2] < Len(body[p[1]]) THEN live_in[<<p[1], p[2] + 1>>]
  ELSE live_out[p] \union
       (IF ~is_end(p[1]) THEN UNION {live_in[<<s, 1>>] : s \in succs[p[1]]}
        ELSE IF noreturn(p[1]) THEN {} ELSE Core)

LookAtOp ==
  /\ phase = "live" /\ bpos > 0
  /\ LET b   == blist[bpos]
         p   == <<b, opos>>
         out == LiveOut(p)
         in  == (out \ live_kill(p)) \union live_gen(p)
     IN  /\ live_out' = [live_out EXCEPT ![p] = out]
         /\ live_in' = [live_in EXCEPT ![p] = in]
         /\ setschanged' = (setschanged \/ live_out[p] # out \/ live_in[p] # in)
         /\ IF opos > 1 THEN opos' = opos - 1 /\ bpos' = bpos
            ELSE /\ bpos' = bpos - 1
                 /\ opos' = IF bpos > 1 THEN Len(body[blist[bpos - 1]]) ELSE 0
  /\ UNCHANGED <<prog, treevars>>

\* Mutant: what the last sweep found is not forgotten.
EndSets_sticky ==
  /\ phase = "live" /\ bpos = 0
  /\ IF setschanged
     THEN /\ bpos' = Len(blist) /\ opos' = Len(body[Last(blist)])
          /\ UNCHANGED <<phase, setschanged>>
     ELSE phase' = "sort" /\ UNCHANGED <<setschanged, bpos, opos>>
  /\ UNCHANGED <<prog, live_in, live_out, graph, edits, dfsvars>>

EndSets ==
  /\ phase = "live" /\ bpos = 0
  /\ IF setschanged
     THEN /\ setschanged' = FALSE
          /\ bpos' = Len(blist) /\ opos' = Len(body[Last(blist)])
          /\ UNCHANGED phase
     ELSE phase' = "sort" /\ UNCHANGED <<setschanged, bpos, opos>>
  /\ UNCHANGED <<prog, live_in, live_out, graph, edits, dfsvars>>

(***************************************************************************)
(* Liveness in the textbook sense                                          *)
(***************************************************************************)
Behind(p) ==
  IF p[2] < Len(body[p[1]]) THEN {<<p[1], p[2] + 1>>} ELSE {<<s, 1>> : s \in succs[p[1]]}

\* Some way from p reads r, or returns to a caller who may, before r is written.
TrulyLive(p, r) ==
  LET clear   == [q \in Places |-> IF r \in live_kill(q) THEN {} ELSE Behind(q)]
      reads   == {q \in Places : r \in live_gen(q)}
      returns == {q \in Places : /\ q[2] = Len(body[q[1]]) /\ is_end(q[1]) /\ ~noreturn(q[1])
                                 /\ r \in Core \ live_kill(q)}
  IN  ReachableFrom(clear, {p}) \intersect (reads \union returns) # {}

\* The sweeps end with the live registers and no others: one that is missing is overwritten
\* while it is needed, one too many may leave regalloc without a register.
LiveSetsExact ==
  phase = "sort" => \A p \in Places : live_in[p] = {r \in Reg : TrulyLive(p, r)}
==============================================================================
