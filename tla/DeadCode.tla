------------------------------- MODULE DeadCode -------------------------------
(***************************************************************************)
(* funcdata::dead_code_elimination of src/dobc/funcdata.cc on a function   *)
(* in SSA form, with dead_phi_elimination in front when the caller passes  *)
(* F_REMOVE_DEAD_PHI.  The dead stores, which it looks for on the way, are *)
(* left out: a store counts as an effect here.                             *)
(***************************************************************************)
EXTENDS Naturals, Sequences, SequencesExt, FiniteSets, FlowGraphs

CONSTANTS
  Op,        \* the pcode ops
  Programs   \* [kind, in: the ops that define the inputs, by op; ops: the lists of the
             \*  blocks, in the order of blist; live: the ops that topname holds]

Kinds == {"phi", "op", "call", "effect"}  \* effect: a store, a branch, a return

ASSUME OpAssumption == IsFiniteSet(Op)
ASSUME ProgramsAssumption ==
  \A p \in Programs :
    /\ p.kind \in [Op -> Kinds] /\ p.in \in [Op -> SUBSET Op]
    /\ p.ops \in Seq(Seq(Op)) /\ p.ops # << >> /\ p.live \subseteq Op
    /\ \A o \in Op : \E n \in DOMAIN p.ops : o \in Range(p.ops[n])
    /\ \A o \in Op : p.kind[o] = "effect" => o \notin p.live /\ \A q \in Op : o \notin p.in[q]

VARIABLES
  prog,      \* the function as it was
  blks,      \* the blocks the caller asks for, by their place in blist
  alive,     \* the ops that are left
  topname,   \* the ops whose outputs are live at an exit
  phase,
  i, b, it,  \* the loop counter of dead_phi_elimination, its block, the place in the block
  worklist

vars == <<prog, blks, alive, topname, phase, i, b, it, worklist>>

kind == prog.kind
uses(o) == {q \in alive : o \in prog.in[q]}
has_use(o) == uses(o) # {}
is_out_live(o) == o \in topname

parent(o) == CHOOSE n \in DOMAIN prog.ops : o \in Range(prog.ops[n])

\* The place of the first op of a list that is still there, from place n on.
FirstLeft(list, n) ==
  LET left == {m \in n .. Len(list) : list[m] \in alive}
  IN  IF left = {} THEN Len(list) + 1 ELSE CHOOSE m \in left : \A k \in left : m <= k

Init ==
  /\ prog \in Programs
  /\ blks \in SUBSET DOMAIN prog.ops
  /\ alive = Op /\ topname = prog.live
  /\ phase = "start"
  /\ i = 0 /\ b = 1 /\ it = FirstLeft(prog.ops[1], 1) /\ worklist = << >>

(***************************************************************************)
(* dead_phi_elimination                                                    *)
(***************************************************************************)

\* The phis that read p, and those that read them.
deadlist(p) ==
  ReachableFrom([o \in Op |-> IF kind[o] = "phi" THEN uses(o) ELSE {}], {p})

\* Mutant: only the readers of p itself are asked.
dead_phi_detect_near(p) == \A q \in uses(p) : kind[q] = "phi" /\ ~is_out_live(q)

\* dead_phi_detect asks the readers whether they are live, never p itself.
dead_phi_detect(p) ==
  \A o \in deadlist(p) : \A q \in uses(o) : kind[q] = "phi" /\ ~is_out_live(q)

StartPhis ==
  /\ phase = "start"
  /\ phase' = "phi"
  /\ UNCHANGED <<prog, blks, alive, topname, i, b, it, worklist>>

\* The caller has passed no F_REMOVE_DEAD_PHI.
SkipPhis ==
  /\ phase = "start"
  /\ phase' = "collect"
  /\ UNCHANGED <<prog, blks, alive, topname, i, b, it, worklist>>

LiveWithout(p) == topname \ deadlist(p)

AtPhi == it <= Len(prog.ops[b]) /\ kind[prog.ops[b][it]] = "phi"

\* The loop over deadphi counts with the i of the loop over the blocks.  nextit has been
\* taken before: when its op is destroyed too, going on is undefined.
LookAtPhi ==
  /\ phase = "phi" /\ AtPhi
  /\ LET p    == prog.ops[b][it]
         next == FirstLeft(prog.ops[b], it + 1)
     IN  IF ~dead_phi_detect(p) THEN UNCHANGED <<alive, topname, i, phase>>
         ELSE /\ alive' = alive \ deadlist(p) /\ topname' = LiveWithout(p)
              /\ i' = Cardinality(deadlist(p))
              /\ phase' = IF next <= Len(prog.ops[b]) /\ prog.ops[b][next] \in deadlist(p)
                          THEN "undefined" ELSE phase
  /\ it' = FirstLeft(prog.ops[b], it + 1)
  /\ UNCHANGED <<prog, blks, b, worklist>>

\* Mutant: i is not advanced.
NextBlock_same ==
  /\ phase = "phi" /\ ~AtPhi
  /\ IF i + 1 < Len(prog.ops)
     THEN b' = i + 1 /\ it' = FirstLeft(prog.ops[i + 1], 1) /\ UNCHANGED <<i, phase>>
     ELSE phase' = "collect" /\ UNCHANGED <<i, b, it>>
  /\ UNCHANGED <<prog, blks, alive, topname, worklist>>

\* The first op that is no phi, or the end of the list, ends the loop over a block.
NextBlock ==
  /\ phase = "phi" /\ ~AtPhi
  /\ IF i + 1 < Len(prog.ops)
     THEN i' = i + 1 /\ b' = i + 2 /\ it' = FirstLeft(prog.ops[i + 2], 1) /\ UNCHANGED phase
     ELSE phase' = "collect" /\ UNCHANGED <<i, b, it>>
  /\ UNCHANGED <<prog, blks, alive, topname, worklist>>

(***************************************************************************)
(* The worklist                                                            *)
(***************************************************************************)

\* What nobody reads of the m-th block, if the caller asks for it.
UnreadIn(m) ==
  Sublist(prog.ops[m], {o \in alive : m \in blks /\ kind[o] # "effect" /\ ~has_use(o)})

\* From the last block to the first.
Collect ==
  /\ phase = "collect"
  /\ LET n == Len(prog.ops)
     IN  worklist' = FlattenSeq([k \in 1 .. n |-> UnreadIn(n + 1 - k)])
  /\ phase' = "work"
  /\ UNCHANGED <<prog, blks, alive, topname, i, b, it>>

\* Mutant: calls are like any other op.
Keeps_call(op) == op \notin alive \/ has_use(op) \/ is_out_live(op) \/ kind[op] = "effect"

\* Mutant: an op is taken from the list without a second look at its uses.
Keeps_used(op) == op \notin alive \/ kind[op] \in {"call", "effect"} \/ is_out_live(op)

Keeps(op) == op \notin alive \/ has_use(op) \/ kind[op] \in {"call", "effect"} \/ is_out_live(op)

\* Mutant: what the op has read is not looked at again.
Behind_none(op) == << >>

Behind(op) == SetToSeq(prog.in[op])

\* The first op of the list is destroyed, in a block that the caller asks for; the ops it
\* has read come to the end of the list.
Work ==
  /\ phase = "work" /\ worklist # << >>
  /\ LET op == Head(worklist)
     IN  IF Keeps(op) THEN worklist' = Tail(worklist) /\ UNCHANGED alive
         ELSE /\ worklist' = Tail(worklist) \o Behind(op)
              /\ alive' = IF parent(op) \in blks THEN alive \ {op} ELSE alive
  /\ UNCHANGED <<prog, blks, topname, phase, i, b, it>>

EndWork ==
  /\ phase = "work" /\ worklist = << >>
  /\ phase' = "done"
  /\ UNCHANGED <<prog, blks, alive, topname, i, b, it, worklist>>

Step == StartPhis \/ SkipPhis \/ LookAtPhi \/ NextBlock \/ Collect \/ Work \/ EndWork

Spec == Init /\ [][Step]_vars /\ WF_vars(Step)

(***************************************************************************)
(* Properties                                                              *)
(***************************************************************************)

\* Types; and topname never holds an op that was destroyed.
TypeOK ==
  /\ phase \in {"start", "phi", "collect"} => topname \subseteq alive
  /\ alive \subseteq Op /\ topname \subseteq prog.live
  /\ phase \in {"start", "phi", "collect", "work", "done", "undefined"}
  /\ i \in Nat /\ b \in DOMAIN prog.ops /\ it \in 1 .. Len(prog.ops[b]) + 1

\* What is live at an exit and is no phi or, over however many phis, read by an op that is none.
\* The others are what dead_phi_elimination may take from topname.
ReadersOf(o) == {q \in Op : o \in prog.in[q]}
ReadOverPhis(o) == ReachableFrom([q \in Op |-> IF kind[q] = "phi" THEN ReadersOf(q) ELSE {}], {o})
LiveAnyway == {o \in prog.live : \E q \in ReadOverPhis(o) : kind[q] # "phi"}

\* What the function does or leaves behind, and all that it is computed from.
Needed ==
  ReachableFrom(prog.in, {o \in Op : kind[o] \in {"call", "effect"}} \union LiveAnyway)

\* Nothing that is needed is ever destroyed, neither by the worklist nor with the dead phis.
NeededSurvives == Needed \subseteq alive

\* No op that is left reads an op that was destroyed: its slot would be empty.
NoReadOfDestroyed == TypeOK /\ \A o \in alive : prog.in[o] \subseteq alive

\* Where the caller asks for it, an op that is left is needed, or is read by one that is;
\* and the worklist holds ops only.
NothingUnreadLeft ==
  /\ worklist \in Seq(Op)
  /\ phase = "done" =>
       \A o \in alive : parent(o) \in blks =>
         has_use(o) \/ kind[o] \in {"call", "effect"} \/ is_out_live(o)

\* dead_code_elimination comes to an end, although destroying an op refills its list.
Terminates == <>(phase \in {"done", "undefined"})
==============================================================================
