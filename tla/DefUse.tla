-------------------------------- MODULE DefUse --------------------------------
(***************************************************************************)
(* The def-use graph under the editing methods of funcdata, in any order a *)
(* pass may call them.  reset_out_use (the first half of op_destroy_ssa)   *)
(* and total_replace walk over the readers of a varnode while they edit    *)
(* them: `walk' is the running walk, one step of it per reader.            *)
(***************************************************************************)
EXTENDS DefUseOps

CONSTANTS
  loc,       \* the storage location of each varnode: register, memory cell, constant
  Const,     \* the varnodes that stand for constants
  MaxInputs  \* bound: the slots of an op

ASSUME ConstAssumption == Const \subseteq Varnode
ASSUME NullAssumption == Null \notin Op \union Varnode
ASSUME FiniteAssumption == IsFiniteSet(Op) /\ MaxInputs \in Nat
ASSUME LocAssumption == loc \in [Varnode -> Range(loc)]

VARIABLES
  f,         \* the def-use graph
  opcode,    \* of each op, as far as the editing methods ask: COPY or OTHER
  alive,     \* the ops in optree and in the list of a block (not flags.dead)
  bank,      \* the varnodes in loc_tree and def_tree
  input,     \* the varnodes with flags.input
  walk       \* the running walk over the readers of a varnode, or Idle

vars == <<f, opcode, alive, bank, input, walk>>

Idle == [kind |-> "idle"]
Resetting(p, todo) == [kind |-> "reset_out_use", op |-> p, todo |-> todo]
Replacing(v, w, todo) == [kind |-> "total_replace", old |-> v, new |-> w, todo |-> todo]

WalkOK ==
  \/ walk = Idle
  \/ \E p \in Op : walk = Resetting(p, walk.todo) /\ walk.todo \in [Op -> Nat]
  \/ \E v, w \in Varnode : walk = Replacing(v, w, walk.todo) /\ walk.todo \in [Op -> Nat]

TypeOK ==
  /\ f \in [ inrefs : [Op -> Seq(Varnode \union {Null})],
             output : [Op -> Varnode \union {Null}],
             uses   : [Varnode -> [Op -> Nat]],
             def    : [Varnode -> Op \union {Null}] ]
  /\ opcode \in [Op -> {"COPY", "OTHER"}]
  /\ alive \subseteq Op
  /\ bank \subseteq Varnode /\ input \subseteq bank
  /\ WalkOK

Filled(g, op) == \A i \in DOMAIN g.inrefs[op] : g.inrefs[op][i] # Null

Init ==
  /\ f = Unconnected
  /\ opcode = [o \in Op |-> "OTHER"]
  /\ alive = {} /\ bank = {} /\ input = {}
  /\ walk = Idle

(***************************************************************************)
(* Building an op.                                                         *)
(***************************************************************************)

\* newop, op_set_opcode, new_varnode_out, an op_set_input for every slot and op_insert:
\* each maker of an op runs them one after the other.  An input is a varnode of the bank
\* or one that new_varnode makes for the call.
NewOp(op, opc, out, ins) ==
  /\ walk = Idle /\ op \notin alive
  /\ out \in {Null} \union (Varnode \ (bank \union Const \union Range(ins)))
  /\ f' = newop(f, op, out, ins)
  /\ opcode' = [opcode EXCEPT ![op] = opc]
  /\ alive' = alive \union {op}
  /\ bank' = bank \union Range(ins) \union ({out} \ {Null})
  /\ UNCHANGED <<input, walk>>

(***************************************************************************)
(* Editing.                                                                *)
(***************************************************************************)

\* The slot may lie one behind the last: inrefs grows.
OpSetInput(op, vn, slot) ==
  /\ walk = Idle /\ op \in alive
  /\ slot \in 1 .. Len(f.inrefs[op]) + 1
  /\ f' = op_set_input(f, op, vn, slot)
  /\ bank' = bank \union {vn}
  /\ UNCHANGED <<opcode, alive, input, walk>>

\* set_def throws for an input and for a constant.
OpSetOutput(op, vn) ==
  /\ walk = Idle /\ op \in alive
  /\ vn \notin input \union Const
  /\ f' = op_set_output(f, op, vn)
  /\ bank' = bank \union {vn}
  /\ UNCHANGED <<opcode, alive, input, walk>>

\* No caller leaves a COPY without its input.
OpRemoveInput(op, slot) ==
  /\ walk = Idle /\ op \in alive /\ opcode[op] # "COPY"
  /\ f' = op_remove_input(f, op, slot)
  /\ UNCHANGED <<opcode, alive, bank, input, walk>>

ToCopy(op, in) ==
  /\ walk = Idle /\ op \in alive
  /\ f' = to_copy(f, op, in)
  /\ opcode' = [opcode EXCEPT ![op] = "COPY"]
  /\ bank' = bank \union {in}
  /\ UNCHANGED <<alive, input, walk>>

\* rename gives the flag to the fresh varnode that stands for the value at entry.
SetInputVarnode(vn) ==
  /\ walk = Idle /\ vn \in bank \ Const /\ f.def[vn] = Null
  /\ input' = input \union {vn}
  /\ UNCHANGED <<f, opcode, alive, bank, walk>>

\* delete_varnode refuses a varnode that has a def; its callers have seen has_no_use.
DeleteVarnode(vn) ==
  /\ walk = Idle /\ vn \in bank /\ has_no_use(f, vn)
  /\ f.def[vn] = Null
  /\ bank' = bank \ {vn} /\ input' = input \ {vn}
  /\ UNCHANGED <<f, opcode, alive, walk>>

(***************************************************************************)
(* Destroying an op.                                                       *)
(***************************************************************************)

\* op_destroy(p, 1): p leaves its block and optree, and its output leaves the bank
Destroy(p) ==
  /\ f' = [op_destroy(f, p) EXCEPT !.inrefs[p] = << >>]
  /\ bank' = bank \ {f.output[p]} /\ input' = input \ {f.output[p]}
  /\ alive' = alive \ {p}
  /\ UNCHANGED opcode

\* Mutant: a caller that has not looked for other readers.
OpDestroy_read(p) ==
  /\ walk = Idle /\ p \in alive
  /\ Destroy(p)
  /\ UNCHANGED walk

\* Its direct callers (dead code, peephole, branches) have seen that nothing else reads p; only
\* dead_phi_elimination destroys phis that other dead phis read, and those next: see DeadCode.
OpDestroy(p) ==
  /\ walk = Idle /\ p \in alive
  /\ f.output[p] # Null => \A o \in Op \ {p} : f.uses[f.output[p]][o] = 0
  /\ Destroy(p)
  /\ UNCHANGED walk

\* The readers of the output of p, other than p.
Readers(p) == IF f.output[p] = Null THEN NoUse ELSE [f.uses[f.output[p]] EXCEPT ![p] = 0]

\* Mutant: every COPY hands its source on.
SameLocationCopy_any(p) == opcode[p] = "COPY"

\* reset_out_use spares the readers of a COPY that stays at one location: they take its
\* source.
SameLocationCopy(p) == opcode[p] = "COPY" /\ loc[f.output[p]] = loc[f.inrefs[p][1]]

Fresh(l) == {v \in Varnode \ bank : loc[v] = l}

\* op_destroy_ssa: reset_out_use takes a copy of the readers of p ...  In SSA form no COPY
\* reads the varnode it writes; its readers could not be given another.
\* Bound: the instance has the fresh varnodes that the walk needs.
OpDestroySSA(p) ==
  /\ walk = Idle /\ p \in alive
  /\ opcode[p] = "COPY" => f.inrefs[p][1] # f.output[p]
  /\ f.output[p] # Null /\ ~SameLocationCopy(p) =>
       MapThenSumSet(LAMBDA o : Readers(p)[o], Op) <= Cardinality(Fresh(loc[f.output[p]]))
  /\ walk' = Resetting(p, Readers(p))
  /\ UNCHANGED <<f, opcode, alive, bank, input>>

\* ... gives each of them the source of the copy, or else a fresh varnode for the
\* location it was reading ...
ResetUse(p, use, vn) ==
  /\ walk.kind = "reset_out_use" /\ walk.op = p /\ walk.todo[use] > 0
  /\ vn \in IF SameLocationCopy(p) THEN {f.inrefs[p][1]} ELSE Fresh(loc[f.output[p]])
  /\ f' = op_set_input(f, use, vn, get_slot(f, use, f.output[p]))
  /\ bank' = bank \union {vn}
  /\ walk' = [walk EXCEPT !.todo[use] = @ - 1]
  /\ UNCHANGED <<opcode, alive, input>>

\* ... and destroys p.
EndReset(p) ==
  /\ walk = Resetting(p, NoUse)
  /\ Destroy(p)
  /\ walk' = Idle

(***************************************************************************)
(* total_replace, which refine_write calls for the old output of an op.    *)
(***************************************************************************)
TotalReplace(v, w) ==
  /\ walk = Idle /\ v \in bank /\ w \in bank /\ v # w
  /\ walk' = Replacing(v, w, f.uses[v])
  /\ UNCHANGED <<f, opcode, alive, bank, input>>

ReplaceUse(use) ==
  /\ walk.kind = "total_replace" /\ walk.todo[use] > 0
  /\ f' = op_set_input(f, use, walk.new, get_slot(f, use, walk.old))
  /\ walk' = [walk EXCEPT !.todo[use] = @ - 1]
  /\ UNCHANGED <<opcode, alive, bank, input>>

EndReplace ==
  /\ walk.kind = "total_replace" /\ walk.todo = NoUse
  /\ walk' = Idle
  /\ UNCHANGED <<f, opcode, alive, bank, input>>

Next ==
  \/ \E op \in Op :
       \/ \E opc \in {"COPY", "OTHER"}, out \in Varnode \union {Null} :
            \E ins \in SeqOf(Varnode, MaxInputs) \ {<< >>} : NewOp(op, opc, out, ins)
       \/ \E vn \in Varnode :
            \/ \E slot \in 1 .. MaxInputs : OpSetInput(op, vn, slot)
            \/ OpSetOutput(op, vn)
            \/ ToCopy(op, vn)
            \/ \E use \in Op : ResetUse(op, use, vn)
       \/ \E slot \in DOMAIN f.inrefs[op] : OpRemoveInput(op, slot)
       \/ OpDestroy(op)
       \/ OpDestroySSA(op)
       \/ EndReset(op)
       \/ ReplaceUse(op)
  \/ \E vn \in Varnode : SetInputVarnode(vn) \/ DeleteVarnode(vn)
  \/ \E v, w \in Varnode : TotalReplace(v, w)
  \/ EndReplace

Spec == Init /\ [][Next]_vars

(***************************************************************************)
(* Properties                                                              *)
(***************************************************************************)

\* uses has exactly one entry for every slot that reads the varnode: what del_use (which
\* runs off the list when the entry is missing), get_slot in a walk over uses, and every
\* `no use left, destroy it' decision rely on.
UsesMatchSlots ==
  /\ TypeOK
  /\ \A v \in Varnode, o \in Op : f.uses[v][o] = Cardinality(Slots(f, o, v))

\* An op writes a varnode exactly when the varnode names the op as its def.
DefMatchesOutput ==
  \A v \in Varnode, o \in Op : f.output[o] = v <=> f.def[v] = o

\* No slot, output or def points to a varnode or an op that was destroyed, and no op of a
\* block has an empty slot, in no intermediate state of a walk either: the passes
\* dereference every input of every op without looking.
NoDangling ==
  /\ \A o \in Op :
       /\ f.output[o] \in bank \union {Null}
       /\ \A i \in DOMAIN f.inrefs[o] : f.inrefs[o][i] \in bank \union {Null}
  /\ \A o \in Op \ alive : f.inrefs[o] = << >> /\ f.output[o] = Null
  /\ \A v \in Varnode : f.def[v] \in alive \union {Null}
  /\ \A o \in alive : Filled(f, o)

\* op_destroy_ssa leaves every other op reading the locations it read before: renaming
\* can only find the right value again if the location survived.
LocationsKept ==
  [][ walk.kind = "reset_out_use" =>
        \A o \in alive \ {walk.op} : \A i \in DOMAIN f.inrefs[o] :
          loc[f'.inrefs[o][i]] = loc[f.inrefs[o][i]] ]_vars
==============================================================================
