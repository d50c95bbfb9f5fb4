------------------------------ MODULE DefUseOps ------------------------------
(***************************************************************************)
(* The def-use graph of a function: which varnode each slot of a pcode op  *)
(* reads (inrefs), which one the op writes (output), and, kept on the side *)
(* of the varnode, who writes it (def) and who reads it (uses).  The       *)
(* operators compute what the funcdata methods of src/dobc/dobc.cc leave   *)
(* behind.                                                                 *)
(*                                                                         *)
(* uses is a list in the code, with one entry per slot that reads the      *)
(* varnode; nothing depends on its order, so it is a count per op here.    *)
(***************************************************************************)
EXTENDS Naturals, Sequences, SequencesExt, FiniteSets

CONSTANTS Op, Varnode, Null

NoUse == [o \in Op |-> 0]

Unconnected ==
  [ inrefs |-> [o \in Op |-> << >>], output |-> [o \in Op |-> Null],
    uses |-> [v \in Varnode |-> NoUse], def |-> [v \in Varnode |-> Null] ]

\* The slots of o that read v, and the place of slot i among them.
Slots(f, o, v) == {i \in DOMAIN f.inrefs[o] : f.inrefs[o][i] = v}
Rank(f, o, i) == Cardinality({j \in 1 .. i : f.inrefs[o][j] = f.inrefs[o][i]})

\* pcodeop::get_slot: the first one
get_slot(f, o, v) == SelectInSeq(f.inrefs[o], LAMBDA w : w = v)

has_no_use(f, v) == f.uses[v] = NoUse

\* A fresh op with its output and its inputs.
newop(f, op, out, ins) ==
  [ inrefs |-> [f.inrefs EXCEPT ![op] = ins],
    output |-> [f.output EXCEPT ![op] = out],
    uses   |-> [v \in Varnode |-> [f.uses[v] EXCEPT
                 ![op] = Cardinality({i \in DOMAIN ins : ins[i] = v})]],
    def    |-> [v \in Varnode |-> IF v = out THEN op ELSE f.def[v]] ]

op_unset_input(f, op, slot) ==
  [f EXCEPT !.uses[f.inrefs[op][slot]][op] = @ - 1,
            !.inrefs[op][slot] = Null]

\* The inrefs of op, with empty slots added until there is one at position slot.
Grown(s, slot) == s \o [i \in 1 .. (IF slot > Len(s) THEN slot - Len(s) ELSE 0) |-> Null]

\* Mutant: the varnode that the slot read before keeps its use.
op_set_input_stale(f, op, vn, slot) ==
  LET f1 == [f EXCEPT !.inrefs[op] = Grown(@, slot)]
  IN  IF vn = f1.inrefs[op][slot] THEN f1
      ELSE [f1 EXCEPT !.uses[vn][op] = @ + 1, !.inrefs[op][slot] = vn]

op_set_input(f, op, vn, slot) ==
  LET f1  == [f EXCEPT !.inrefs[op] = Grown(@, slot)]
      old == f1.inrefs[op][slot]
      f2  == IF old = Null THEN f1 ELSE op_unset_input(f1, op, slot)
  IN  IF vn = old THEN f1
      ELSE [f2 EXCEPT !.uses[vn][op] = @ + 1, !.inrefs[op][slot] = vn]

\* The varnode that op wrote becomes free; those who read it go on reading it.
op_unset_output(f, op) ==
  IF f.output[op] = Null THEN f
  ELSE [f EXCEPT !.output[op] = Null, !.def[f.output[op]] = Null]

\* Mutant: the op that wrote vn before still has it as its output.
op_set_output_stolen(f, op, vn) ==
  IF vn = f.output[op] THEN f
  ELSE [op_unset_output(f, op) EXCEPT !.def[vn] = op, !.output[op] = vn]

op_set_output(f, op, vn) ==
  LET f1 == op_unset_output(f, op)
      f2 == IF f1.def[vn] = Null THEN f1 ELSE op_unset_output(f1, f1.def[vn])
  IN  IF vn = f.output[op] THEN f
      ELSE [f2 EXCEPT !.def[vn] = op, !.output[op] = vn]

op_remove_input(f, op, slot) ==
  [op_unset_input(f, op, slot) EXCEPT !.inrefs[op] = RemoveAt(@, slot)]

\* Unset every slot of op that is set (the loop of op_destroy).
UnsetAll(f, op) ==
  [f EXCEPT !.uses = [v \in Varnode |-> [f.uses[v] EXCEPT
                        ![op] = f.uses[v][op] - Cardinality(Slots(f, op, v))]],
            !.inrefs[op] = [i \in DOMAIN @ |-> Null]]

\* Every entry of uses empties the first slot of its op that still reads vn.
destroy_varnode(f, vn) ==
  [ inrefs |-> [o \in Op |-> [i \in DOMAIN f.inrefs[o] |->
                 IF f.inrefs[o][i] = vn /\ Rank(f, o, i) <= f.uses[vn][o]
                 THEN Null ELSE f.inrefs[o][i]]],
    output |-> [o \in Op |-> IF f.def[vn] = o THEN Null ELSE f.output[o]],
    uses   |-> [f.uses EXCEPT ![vn] = NoUse],
    def    |-> [f.def EXCEPT ![vn] = Null] ]

\* op_destroy(op) followed, for op_destroy(op, 1), by op_destroy_raw, which finds nothing
\* left to disconnect.
op_destroy(f, op) ==
  UnsetAll(IF f.output[op] = Null THEN f ELSE destroy_varnode(f, f.output[op]), op)

\* pcodeop::to_copy: `while (num_input() > 0) op_remove_input(this, 0)', then one input.
to_copy(f, op, in) ==
  op_set_input([UnsetAll(f, op) EXCEPT !.inrefs[op] = << >>], op, in, 1)
==============================================================================
