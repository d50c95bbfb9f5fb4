# dobc in TLA+

`dobc` takes an ARM/Thumb shared object that an obfuscator has been over, turns a
function of it into the intermediate language *pcode*, simplifies that until the
obfuscation is gone, and writes Thumb code back.  Its core (`src/src/dobc`) descends from
the decompiler of Ghidra.  The program is sequential: no threads, no callbacks from
outside, nothing persisted but the result.  What is hard about it is of another kind.
A few dozen passes edit three structures that point into each other (the control-flow
graph, the ops of its blocks, the def-use graph), each leaves them in a state the next
one has to cope with, the order of the passes is decided by heuristics, and most of them
run over lists that they change on the way.  A broken link does not show where it is
made, but several passes later, as a wrong constant or a function with a block missing.

This directory models the structures and the passes that everything else stands on.

## 1. Inventory

How a function goes through the program (`main.cc`, `funcdata::follow_flow`,
`funcdata::ollvm_deshell` and their like):

    ELF image -> generate_ops (decode) -> collect_edges, split_basic, connect_basic
      -> generate_blocks -> structure_reset -> heritage
      -> { constant_propagation4 <-> store_query
           cond_constant_propagation: cut, remove, splice
           dead_code_elimination, structure_reset, heritage }   again and again
      -> loop unrolling, removal of the dispatcher (which clone and cut blocks)
      -> live sets, live ranges, thumb_gen

| Part | State | Operations | Talks to | What makes it correct |
|---|---|---|---|---|
| Edge lists (`block.cc`, top of `dobc.cc`) | `flowblock::in`, `out`: half edges with label and reverse index | `add_edge`, `remove_edge`, `replace_in_edge`, flag setters, `remove_from_flow`, `splice_block` | every pass | both halves of an edge name each other; a phi finds its operand by the position of an in edge |
| Def-use graph (`dobc.cc`, `pcodeop.cc`, `varnode.cc`) | `inrefs`, `output`, `uses`, `def`, the banks of ops and varnodes | `newop`, `op_set_input`, `op_set_output`, `op_remove_input`, `op_destroy`, `op_destroy_ssa`, `total_replace`, `to_copy`, `delete_varnode` | every pass | use lists and slots agree; nothing points to what was destroyed |
| `structure_reset` | preorder, postorder, edge labels, loops, `immed_dom` | `find_spanning_tree`, `find_irreducible`, `calc_forward_dominator` | called after each change of the graph; heritage and the loop passes read it | numbering, labels, loops and dominators agree with the graph as it is now |
| Rewriting of the graph (`funcdata.cc`) | `blist`, `cbrlist`, the last op of each block | `cond_constant_propagation`, `remove_unreachable_blocks`, `redundbranch_apply`, `remove_empty_block`, `splice_block_basic` | takes conditions from constant propagation, clears phis for heritage | what the function can still do stays the same; the passes end and do not throw |
| SSA construction | `pq`, `visit`, `merge`, the stacks of renaming, `topname` | `place_multiequal`, `calc_phi_placement3`, `visit_dj`, `rename_recurse` | reads dominators, writes the def-use graph, gives `topname` to dead code elimination | phis where definitions meet; each read linked to what reaches it |
| Dead code elimination | `worklist`, `deadlist`, `topname` | `dead_phi_elimination`, `dead_code_elimination` | reads `topname` and use lists, empties blocks | what is needed stays, what is not goes |
| Flow following | the address stack, `visited`, `bbs` | `generate_ops`, `fallthru`, `set_fallthru_bound`, `collect_edges`, `split_basic` | delivers blocks | each reachable instruction decoded once; edges meet block starts |
| Constant propagation | work list, `visit`, `mayuses` of stores, the type of each varnode, the third input of a load | `constant_propagation4`, `compute`, `store_query` | reads dominators and the def-use graph, ties loads to stores; its conditions are what is cut | a value called constant is that value in every execution; nothing is left to find; the list empties |
| Live sets, register allocation | `live_in`, `live_out`, `live_gen`, `live_kill` of each op | `compute_local_live_sets_p`, `compute_global_live_sets_p`, `regalloc` | code generator | the least fixpoint; a scratch register holds nothing that is needed |
| Post dominators | `postorder`, `rindex`, `post_immed_dom`, the added `exit` | `calc_post_dominator` | reads `exitlist` and `index` of `structure_reset` | exact for what reaches an exit |
| Live ranges (`cover.cc`) | `cover` of a varnode | `add_def_point`, `add_ref_point` | nobody: the call that builds them is commented out | |
| Loop unrolling, cloning, OLLVM, vmp360, inlining | patterns over all of the above | `loop_unrolling4`, `clone_web`, `ollvm_detect_*`, `vmp360_deshell`, `inline_call` | | same behaviour |
| Thumb code generation | the order of the blocks, output buffer, `cg` of each block, `flist`, `fix_vldr_list` | `sort_blocks`, `run_block`, `write_cbranch`, `fix_vldr`, `stuff_const` | reads edges, labels of the walk, live sets and constants | the code goes where the edges go, computes with the numbers the ops have, and writes no register that is needed |
| Driver, ELF, mcore, SLEIGH, Unicorn | files | input and output; the last two are vendored | | taken as given |

Where it gets hard: edits under an iteration (`redundbranch_apply` steps an index back,
`structure_reset` reorders the list under it, `reset_out_use` walks a copy of a list it
edits); data that is stale because the pass that computed it ran before the graph changed
(loop headers, labels, phis of an earlier heritage, `maxdepth`); parallel edges and self
loops in code that finds an edge by its end points; checks that throw half way through an
edit; fixpoints that must end.  `PROJECT.json` lists each at its line under `hazards`,
with the properties that watch over it.

## 2. Modules

| Module | What it is |
|---|---|
| `EdgeOps` | the edge primitives as operators on `[in, out]`, half edges with reverse indices, one operator per function of the source |
| `MultiGraph` | the abstract specification: a multiset of labelled edges |
| `FlowEdges` | any sequence of primitives, the loops of `remove_from_flow` and `splice_block` taken edge by edge |
| `FlowEdges_proofs` | its theorems: the pairing, the order of the in edges, the refinement |
| `GraphLemmas` | mathematics that the modules of proofs share: lists, least fixpoints, dominators, and what the primitives of `EdgeOps` do to any edge lists |
| `DefUseOps`, `DefUse` | the same for the def-use graph: operators, then any sequence of edits, the walks over a use list taken reader by reader |
| `DefUse_proofs` | its theorems |
| `FlowGraphs` | textbook definitions on graphs (reachability, dominators by deletion, natural loops, iterated frontier) and the part of a list that lies in a set; no code, what the code is checked against |
| `SpanningTree`, `StructureReset` | `structure_reset`, one action per step of its loops, run again after edges have gone |
| `SpanningTree_proofs` | the invariant of the walk, for the two modules of proofs that follow it |
| `StructureReset_proofs` | theorems on numbers, labels, loops, dominators and post dominators |
| `PostDominators` | `calc_post_dominator` on top of it, called after any `structure_reset` or not |
| `BlockEdges` | edge lists once more without reverse indices, for the modules below; `FlowEdges` is why that is allowed |
| `CfgSimplify` | `generate_blocks` and `cond_constant_propagation` |
| `ArgumentPass` | `argument_pass` on top of it: rounds of the same, and `dowhile2ifwhile`, which takes a loop apart |
| `Heritage` | `heritage` for one storage location, with the edits that come between two calls |
| `DeadCode` | `dead_code_elimination` and `dead_phi_elimination` |
| `DeadCode_proofs` | its theorems |
| `ConstProp` | `constant_propagation4` with `store_query` and `compute`, and an execution of the function to compare with |
| `LiveSets` | the live sets of every op, over the graph of `SpanningTree` |
| `ThumbConst` | the packing of immediates and of branch distances, and how the processor unpacks them |
| `ThumbGen` | `thumb_gen::run` on top of `LiveSets`: order of the blocks, code, branches, data |
| `LiveSets_proofs` | theorems on the live sets, the scratch registers and the order of the blocks |
| `FlowFollow` | `generate_ops`, and the cutting into blocks up to `connect_basic` |
| `FlowFollow_proofs` | its theorems |
| `MC*` | instances for TLC |

### How state and actions correspond to the code

**FlowEdges.** `graph.in[b]`, `graph.out[b]` are the vectors of `flowblock`; a half edge is
`[point, label, rev]`, `rev` one-based.  `loop` says which of the two looping functions is
running.  `AddEdge`, `RemoveEdge`, `SetOutEdgeFlag`, `ClearOutEdgeFlag` are whole calls;
`StartRemoveFromFlow`/`RemoveLastOutEdge` and `StartSplice`/`MoveFirstOutEdge` are the
loops.  A guard is a condition under which the code throws or its callers do not call.

**DefUse.** `f.inrefs`, `f.output`, `f.uses`, `f.def` are the fields of the same names;
`uses` is a bag because an op that reads a varnode in two slots is in its list twice.
`alive` and `bank` are the trees of ops and varnodes.  `walk` is the loop of
`reset_out_use` or `total_replace`: `todo` is the copy of the use list it walks over, in
any order, since the order of a list never decides anything here.  Guards of `NewOp`,
`OpDestroy`, `OpDestroySSA`, `DeleteVarnode` state what the callers have tested before or
what SSA form gives them.  One caller has not: `dead_phi_elimination` (`funcdata.cc:311`) destroys
phis that other dead phis read, and those next; `DeadCode` has that pass whole.

**SpanningTree, StructureReset.** A phase for each of the three functions, a step for each
turn of their loops.  `edits` counts the edges removed between two runs: labels, `numdesc`
and loop lists then start as the run before has left them, as in the code.

**CfgSimplify.** Of a block's pcode it keeps whether it begins with a phi, how it ends, and
a sequence of tokens for what it computes.  `flow` is a history variable: where control
goes from each token, for either outcome of its condition, when the round began and with
the constant conditions decided.  `DeadCode` empties a block between two rounds.
`thrown` is the phase after any `throw` of the code.  Within a turn of a loop the calls of
`remove_empty_block`, `splice_block_basic` and `structure_reset` belong to the action.

**ArgumentPass.** `Unroll` is `dowhile2ifwhile` with the `structure_reset` at its end,
`EndUnroll` the `heritage_clear` and `heritage` behind it.  `flow` is noted before a copy is made, too,
so that the copy is compared with the loop; from `EndUnroll` on what the copy does has a token
of its own, because its condition may now be constant where that of the loop is not.  The
list of loop headers that `argument_pass` takes its loops from says only that each header is
taken some time, so any loop may be next.  A loop of one block without a way out is not taken: the
code would read a second out edge that does not exist (`dobc.cc:3992`).

**Heritage.** A block holds at most one op on the location besides its phi, so a block
names its op, and a longer block is a chain of blocks.  `Extract` is one turn of
`calc_phi_placement3` with its `visit_dj`; the depth-first visit is taken at once as the
set it marks, because it only adds to sets.  `Enter` and `Leave` are the two halves of
`rename_recurse`; `overrun` is the read behind the end of `inrefs`.

**DeadCode.** `prog` is the function as it was, `alive` the ops left.  `it` is the iterator
the code takes before it destroys anything; `undefined` is the phase after a step from a
destroyed one.  The one counter `i` that two nested loops share is one variable here too.

**FlowFollow.** `visited`, `addrlist`, `deadlist`, `block_edge`, `blist` and the flags
`startblock` and `exit` are those of the code; an op is named by its address and its place
in the pcode of its instruction.  What the bytes at an address say is chosen when they are
decoded, so that one run covers every program at these addresses; `unknown` remembers
where nothing was understood, because the bytes would say the same again.  `functions` is `addrtab`,
in which `find_func` looks up a destination: a branch to a known function, the start of this one
included, is a call that does not come back, and a conditional one throws (`Resolved`, `Refused`).
A call makes its target a function, so the same branch may be a jump earlier on.  `StartRun` is
`set_fallthru_bound` on the top of the stack, `Process` one turn of the loop of `fallthru`
with `process_instruction` and `xref_control_flow` in it, `ExceedMax` the one at which `inst_max` is
reached.  `thrown` is the phase after a
`throw`.  `CfgSimplify` starts from blocks and edges of the kind this module delivers, and
puts the block in front of an entered entry itself.

**PostDominators.** `StartPost` is `add_exit` and the call of `post_order_on_rtree`; `poststate` is
the stack of its calls, `WalkIn` takes the next in edge and `WalkBack` returns.  `StartPostSweeps` is
what stands in front of the sweeps, `PostSweep` a turn of
the inner loop, `EndPostSweep` the test of `changed` and `del_exit`.  The block `exit` has the
index 0 because nobody sets it, and marks are by index, so the walk from `exit` takes the
entry for visited: the entry gets no post dominator, and that is part of the property.  A
block from which no exit is reached keeps what an earlier call has left; where a finger
would climb over that the phase is `lost`.

**ConstProp.** An op is named by its number, which is its time, and so is the varnode it
defines.  `set`, `visit`, `mayuses`, `maystore_set` are those of the code, `link` is the
third input of a load, `type` the kind and the number of a varnode.  `Propagate`,
`QueryLoad` and `LeaveTop` are the ways one turn of the loop can go, `EndPropagation` what
stands behind the loop, `Again` another call by the caller.  `store_query` is an operator:
of each dominator the last op that ends the search, and of what lies between all that do,
because the order there only decides which store is waited for.  `Image` is what the file says of the words
that no section lets write; `loadram2out` reads it, for a copy from a fixed address and for a load
whose address is constant: such a load never takes the store it is linked to (`pcodeop.cc:779`).  When the propagation is
over the function is executed, over any way through its graph and with any inputs: `env`
and `mem` are the values of varnodes and memory, which starts with the words of the file.  A store to one
of those ends the execution, as the processor would.

**LiveSets, ThumbGen.** `LookAtOp` is one turn of the inner loop of
`compute_global_live_sets_p`, over `blist` from behind.  `PlaceBlock` is one turn of the loop of
`sort_blocks`; a block that it leaves out is a NULL in the list, and the phase is `crash`.
`Emit*` are the cases of `run_block` whose length or content depends on something else:
`mov` and `cmp` with immediates, `CPUI_USE`, a distance from pc, a `vldr`, a call; whatever else an op
becomes has a length.  `EndBlock` writes the branches at the end of a block, `fix_vldr` its
data, `Fix` is the last loop of `run`.  `error` is the phase after `vm_error`.

### Abstractions

- Addresses, sizes, names and values are members of small sets or absent.
- `CfgSimplify` leaves out `BRANCHIND` with `is_switch_out`, and `is_unsplice`; `split_block`.
- `ArgumentPass` leaves out the calls that are inlined between two copies.  `loop_unrolling`,
  `loop_unrolling4`, `clone_web` and `clone_ifweb`, which copy more than one block, are not
  modelled.
- `Heritage` leaves out overlapping locations, `calc_phi_placement4`, version numbers,
  `copy_from_phi` and stack locations outside the safe zone.  It takes `immed_dom` from
  `FlowGraphs`: the run `structure_reset` shows that the code computes exactly that.
- `DeadCode` leaves out the search for dead stores; a store is an effect that stays.
- `FlowFollow` leaves out jump tables (`BRANCHIND`), the joining of IT blocks in
  `collect_edges`, and instructions with two calls.  Of the functions a program may call it
  keeps their addresses and whether they return.  `del_remaining_ops` is to delete what stands behind a jump in
  an instruction (`dobc.cc:1540`), but `del_op` (`dobc.cc:1533`) deletes nothing, and the
  model deletes nothing either.  `TidyPcode` says that there is nothing to delete, and
  `LinkedPcode` that no op of an instruction is there in vain; both are
  so for what SLEIGH makes of Thumb, the instance satisfies them, and two theorems need them.
- `ConstProp` leaves out the peephole rewriting, `on_cond_MULTIEQUAL2`, the subtraction of
  a phi, constants relative to pc, stack slots that have a virtual varnode, sizes and overlaps of accesses,
  `in_sp_alloc_range`, and calls into functions that were inlined.  Words are modulo `Width`.
A word of the file is a word or absent, whatever its size.
  Not in the instances: a store whose unknown address is an input of the function
  (`dobc.cc:3468` reads the op that defines it, and there is none).
- `PostDominators` leaves out `calc_exitpath`, whose call is commented out.
- `LiveSets` leaves out the sets by block of `compute_global_live_sets`, which only a pass
  reads that `thumb_gen::preprocess` has switched off (`#if 0`).
- `ThumbGen` leaves out instruction selection, blocks that branch inside an instruction
  (`is_rel_header`), the literals of the original code, the tables of `vld1`, and registers
  from r8 on.  No function consists of an entry that does not return: `sort_blocks` would read
  an in edge that the entry does not have (`codegen.cc:20`).
- `DefUse` leaves out `cloneop` and `op_insert_input`, and that `loc_tree` and `def_tree`
  are sorted.

## 3. Runs

The comments at the definitions of the properties say what they mean.  A type invariant
is a conjunct of one of them.

| Run | Instance and bounds | Shows |
|---|---|---|
| `flow_edges` | 3 blocks, 1 label bit, up to 4 edges at a time | `Paired`: every half edge finds its partner; `SplicedBlockIsDetached`: `remove_block` cannot throw in a splice; `PhiSlotsKept`: no primitive reorders in edges; `ImplementsMultiGraph`: refinement |
| `def_use` | 2 ops, 2 varnodes of one location, 1 of another, 1 constant, 2 slots | `UsesMatchSlots`, `DefMatchesOutput`, `NoDangling` (no slot empty, none reads what is gone) also in the middle of a walk; `LocationsKept` |
| `structure_reset` | every function of 4 blocks, once as it is and once with an edge removed | `Numbering`, labels, dominators, irreducible entries, loop bodies, post dominators in any call, termination |
| `cfg_simplify` | every function of 4 blocks (with a fifth for a copy and a sixth for the block put in front), every subset of its conditions found constant either way, 2 rounds with blocks emptied in between, or a loop taken apart and a round before or after | nothing throws, branches keep one taken and one other edge, `BehaviourKept` with nothing unreachable left, every round ends |
| `heritage` | functions of 4 blocks with a join, 2 to 3 accesses, 2 calls with any edits between | phis at the iterated frontier where the walk can see it, reads and phi inputs linked to reaching definitions, `topname` is the live-out set |
| `dead_code` | 3 ops and an effect in 2 blocks, every set of blocks asked for, with and without dead phis | `NeededSurvives`: what is needed stays, also for phis that are live at an exit, no read of the destroyed, nothing unread left, termination |
| `const_prop` | 2160 functions: a load in a loop with stores before and in it; an if-else with stores, a copy from a fixed address, a phi, a load and a comparison behind; stores in a row with addresses that become known late or never; loads from addresses of the file and from others; words of 2 bits, 2 of the 4 addresses in the file, 2 calls, a word of memory or an input may hold one of 3 values | `ConstantsSound` over every execution, `NothingLeftToFind`, termination |
| `thumb_gen` | every function of 4 blocks, as it is or with an edge removed, with an exit that may not return and a block as long as a branch reaches; ops that need scratch registers in a loop and an if-else; 17 numbers at the edges of the encodings; vldrs up to 1024 bytes from their data | `LiveSetsExact`, `ScratchIsFree`, `ConstantsExact`, `CodeMatchesFlow`, `BlocksPlaced`, termination |
| `flow_follow` | 4 addresses, instructions of 1 or 2 units: none, one or three ops, jumps to every address, IT conditionals, calls that do not return, jumps inside an instruction, behind its end and nowhere, a function known beforehand and one that a call makes known, at most 5 instructions | `DecodedOnce`; `FlowKept`: blocks and edges say of every op that control reaches what its instruction says; `OnlyReached`: nothing else is decoded; termination |

Why the bounds are enough to be of interest.  Three blocks and four edges contain a self
loop, parallel edges with the same and with different labels, and a third party whose
reverse index must be moved at the same time.  Two ops with two slots contain an op that
reads a varnode twice, one that reads its own output, and a chain.  Functions of four
blocks contain diamonds, nested and crossing loops, irreducible loops, self loops, and
branches whose two edges lead to one block.  Two rounds, or two calls, are what stale data
takes: one to make it, one to trip over it.  Four addresses with instructions of two sizes
let runs meet from above and from below, overlap, leave a gap between them, and jump into
the middle of what was decoded.  The four blocks of `ConstProp` are a loop and an if-else,
because what `store_query` has to tell apart is whether a store dominates, lies between or
comes round; two calls are what a mark of the first takes to be used in the second.  The numbers and lengths of
`ThumbGen` lie on both sides of each boundary in the code.  `MaxEdges`, `MaxEdits`,
`MaxRounds` (rounds and copies together), `MaxClones`, `MaxHeritages`, `MaxRuns` and `MaxInputs` are the bounds, and `inst_max` is one of the code; each is a guard of an action.

`CHECK_DEADLOCK FALSE` stands where a run of the code comes to its end.

**Fairness.** `StructureReset`, `PostDominators`, `DeadCode`, `ConstProp`, `ThumbGen` and
`FlowFollow` state any: weak fairness of the step of the pass.  Once called, sequential code runs on.  Nothing obliges a caller to
edit the graph or to call again.  That the rounds of `CfgSimplify` end needs no fairness: `RoundsEnd` says
that every step of a round makes a lexicographic measure smaller.

### Where the code does not do what it says

Three runs show a statement of the source refuted by a counterexample.

| Run | Property | What happens |
|---|---|---|
| `loop_nest` | `InnermostHeader` | `find_irreducible` follows `copymap` one step where its comment (`dobc.cc:925`) says FIND; in three nested loops the innermost block gets the wrong `loopheader`.  With two levels, or with four blocks, it is right (`LoopMembership` in `structure_reset`). |
| `diamond` | `PlacementComplete` | `visit_dj` follows out edges to find the dominated blocks (`funcdata.cc:928`) and does not get to a join behind an if-else; a loop around one gets no phi. |
| `join` | `PhisFitTheirBlocks` | `remove_empty_block` gives a join more ways in; a phi that is no longer needed there is not renewed, and renaming reads behind its inputs (`funcdata.cc:675`). |

The passing runs state what still holds beside these: `PlacementExact` where each block is
entered from its dominator, `LinksAreReachingDefinitions` and `TopnameIsLiveAtExit` where
no phi was missed.

More of the kind was met on the way.  No run is made of it; the passing properties name it as
an exception, or the instances avoid it, and what is left is what holds.

- `redundbranch_apply` (`funcdata.cc:1791`) takes out the empty block that `generate_blocks`
  put in front of an entry that is branched to: its test
  `(bb->vm_byteindex != -1) || (bb->vm_caseindex)` holds for every block.  Then no block is
  without in edges and `find_spanning_tree` throws.  The functions of `cfg_simplify` have no
  such entry.
- `dowhile2ifwhile` leads from the copy into the loop when the condition holds, whichever of
  the two edges of the loop leads back (`block.cc:757`): for `do inst1 while (!cond)`, which the
  comment at `funcdata.hh:795` does not have in mind, the copy does the opposite (`Inverted`).  And to find the end of
  the loop it goes on along blocks with one way in and one way out and passes over what they
  do (`dobc.cc:4001`): `PassedOver`.
- `argument_pass` takes loops apart as long as there are loop headers (`dobc.cc:3238`), and each
  copy makes `structure_reset` find the header again: where the condition never becomes
  constant it does not end.
- `rewrite_no_sub_cbranch_blk` leads the ways into a block to its copies by edges without the
  label of the old ones (`funcdata.cc:3094`), so that the condition in front loses its taken edge.
- `dead_phi_elimination` destroys a phi that is live at an exit, as its own comment suspects
  (`funcdata.cc:314`).  `NeededSurvives` speaks of what is live at an exit and is no phi, or is
  read by something other than phis (`LiveAnyway`).
- A phi of a constant and a distance from sp with one number becomes a constant
  (`pcodeop.cc:195`: only the numbers are compared): `MixedPhi`.
- A word has two numbers, as it is written and as a computation leaves it, sign extended,
  and addresses are compared as numbers (`varnode.hh:209` says so of `set_val`):
  `TwoWritings`.
- A load whose address is the same sum as that of a store is tied to it without either
  being known, and other stores of unknown address between are not looked at
  (`dobc.cc:3471`): `BySum`.
- A load whose address starts from the varnode that a store's starts from is not tied to it,
  and does not wait for it either: `GivenUp`.
- A load is put in `visit` when it is tied (`funcdata.cc:2386`), so the constant that it
  then turns out to be is not handed on: `Lost`.  A second call finds it.
- A store may be marked to be passed over; the loads that wait for it are to be asked again,
  but their list was cleared a few lines above (`funcdata.cc:2411`).  Both properties except
  runs with a marked store.
- `find_spanning_tree` does not clear the labels of the run before: an edge that an earlier
  walk has labelled forward and over which the last one comes back or across keeps the block
  it leads to waiting for one that comes behind it (`Relabeled`).  The block that is set aside
  in front of an exit that does not return leaves its other successors out, when it has any
  (`SetAside`).  `sort_blocks` then leaves a NULL in its list.
- 0x00XX00XX is packed wrongly and a compare may be given the complement of its number
  (`thumb_gen.cc:251`): `Misbuilt`.  A distance from pc is off by four bytes when the
  instruction that loads it is not as long as the one the number itself would take
  (`thumb_gen.cc:1629`).  A vldr 1022 bytes in front of its data passes the check and gets the offset
  1024, which does not fit (`thumb_gen.cc:2031`).  A vldr in a block without out edges gets
  no data, because `run_block` returns above the place where it is written
  (`thumb_gen.cc:1965`), although the comment at `thumb_gen.cc:1987` says that all of it
  is moved to the end of the block.

## 4. Proofs

A module of proofs holds the theorems about one component, for every value of its constants, and
ends each with an inductive invariant.  `GraphLemmas` holds what several of them need.

### What is proved

| Theorem | Module | States |
|---|---|---|
| `TypeCorrect`, `EdgesStayPaired`, `SpliceNeverThrows` | `FlowEdges_proofs` | `Spec => []TypeOK`, `[]Paired`, `[]SplicedBlockIsDetached` |
| `PhiSlotsPreserved` | `FlowEdges_proofs` | `Spec => PhiSlotsKept`, an action property |
| `MultiGraphImplemented` | `FlowEdges_proofs` | `Spec => ImplementsMultiGraph`, the refinement |
| `UsesCorrect`, `DefsCorrect`, `NothingDangles` | `DefUse_proofs` | `Spec => []UsesMatchSlots`, `[]DefMatchesOutput`, `[]NoDangling` |
| `LocationsPreserved` | `DefUse_proofs` | `Spec => LocationsKept`, an action property |
| `ReachableIsLeast` | `GraphLemmas` | `ReachableFrom` is the least closed set |
| `TreeNumbered`, `BackEdgesFound` | `StructureReset_proofs` | `Spec => []Numbering`, `[]BackEdgesLabelled` |
| `IrreducibleExact`, `LoopsCorrect` | `StructureReset_proofs` | `Spec => []IrreducibleFound`, `[]LoopMembership` |
| `DominatorsCorrect` | `StructureReset_proofs` | `Spec => []DominatorsExact` |
| `NoFingerLost` | `StructureReset_proofs` | two fingers always meet at a block with an `immed_dom` |
| `PostDominatorsCorrect` | `StructureReset_proofs` | `PostSpec => []PostDominatorsExact` |
| `FirstCallSafe` | `StructureReset_proofs` | the first call of `calc_post_dominator` meets nothing left over |
| `LiveSetsCorrect`, `ScratchCorrect` | `LiveSets_proofs` | `GenSpec => []LiveSetsExact`, `[]ScratchIsFree` |
| `BlocksAreSorted` | `LiveSets_proofs` | `GenSpec => []BlocksPlaced` |
| `BranchesCorrect` | `LiveSets_proofs` | `GenSpec => [](ind - Start <= Reach => CodeMatchesFlow)` |
| `NothingReadIsDestroyed`, `NeededIsKept`, `NothingIsForgotten` | `DeadCode_proofs` | `Spec => []NoReadOfDestroyed`, `[]NeededSurvives`, `[]NothingUnreadLeft` |
| `NothingDecodedTwice` | `FlowFollow_proofs` | `Spec => []DecodedOnce` |
| `BlocksFollowTheCode` | `FlowFollow_proofs` | `TidyPcode => (Spec => []FlowKept)` |
| `NothingDecodedInVain` | `FlowFollow_proofs` | `TidyPcode /\ LinkedPcode => (Spec => []OnlyReached)` |

Every assumption on a constant is an ASSUME of the module that declares it, and TLC evaluates it on
each run.  They say that sets are finite and that the functions given are well-formed.  Four say
more.  `FlowGraph`: every block of a function is reached from its entry, because flow following
makes blocks of nothing else; without it the walk of `find_spanning_tree` would leave blocks
without a number.  `InstructionsAssumption`: an instruction is one or two halfwords long, as in
Thumb, so that `eaddr` lies behind all of them.  `DeadCode.ProgramsAssumption`: every op stands in
a block.  `CodeAssumption`: instructions and the data of a vldr are whole halfwords, as in Thumb, and
the code is not written to address 0, which `run_block` takes for no address.

Three theorems have hypotheses of their own.  That of `BranchesCorrect` is a length of the code, below.
`BlocksFollowTheCode` and `NothingDecodedInVain` need `TidyPcode`, which the run `flow_follow` assumes too, so
that TLC evaluates it.  Behind a jump, a return or a call that does not come back, the pcode
of an instruction goes on only with an op that something jumps to, and such a call ends its
instruction.  `ARMTHUMBinstructions.sinc` under `Ghidra/Processors/ARM/data/languages` is written so:
a `goto`, `call` or `return` is the last statement of its constructor, except for an
`if (...) goto`, and in `bxj` (line 1551) the jump out is followed by the label that skips it.
Without it `FlowKept` does not hold, because the walk stops at the jump and `del_op` leaves what is behind it
in the list, where no mark cuts it off.  `NothingDecodedInVain` needs `LinkedPcode` as well, which the run also assumes:
an op behind the first of its instruction follows one that goes on, or is jumped to by one
in front of it.

### The edge lists

`FlowEdges_proofs` rests on `MaxEdgesAssumption` and `FlagAssumption` alone.  The inductive
invariant is `IInv == TypeOK /\ Paired /\ SplicedBlockIsDetached`.  None of the last two is inductive
without the others: to remove a half edge the code follows its reverse index, and only
pairing says that it ends at the right edge; that the block being spliced stays detached
needs pairing to know that its own out edges lead elsewhere; and the loop of the splice may
only hand edges over because that block is entered by nothing, a self loop included.

The argument goes along the structure of the code.  Each primitive is a composition of
four moves on one side of the lists: cut an entry out and shift the later ones down, add
one at the end, overwrite one in place, change a label.  A lemma for each says what it does
to an arbitrary half edge and that a list of half edges stays one.  Lemmas for the
primitives put two moves together, one on each side, and show `Partner` in both directions:
an entry behind the one cut out moves down by one, and so does the reverse index its
partner holds, in that order, also when both lie in lists of the same block.  These lemmas
are about any edge lists and stand in `GraphLemmas`, because `SpanningTree` labels and
removes edges by the same primitives.  The theorem on the step then has one case for each action.

`PhiSlotsPreserved` looks only at the list of sources of a block: renumbering and relabelling change
none of them, deleting the half that enters cuts one out (`RemoveAt` of the list of sources is the
list of sources of `RemoveAt`), `add_in_edge` puts one last and `replace_in_edge` writes over one.

For `MultiGraphImplemented`, `Counts(g)` is the abstract graph that the edge lists `g` stand for.
It depends on the out lists alone, without their reverse indices (`Leaving`), and it counts how
often a pair of target and label occurs in the list of a block (`Occurrences`).  `GraphLemmas` says
how that number changes when an element is put last, cut out or written over; cutting out needs the
bijection `ClosedGap`.  Each primitive then is an addition, a removal, a relabelling or a redirection
of one abstract edge, `move_out_edge` a cut followed by an addition.  `EdgesStayPaired` comes in
where a primitive starts from the half that enters: only by the pairing is the half that it cuts
out at the other end the one it wants.

### The def-use graph

`DefUse_proofs` rests on `FiniteAssumption`, on `NullAssumption`, and on the guard of `OpDestroySSA`
that no COPY reads what it writes: without it a third op would be left with an empty slot, because
`op_set_input` does nothing when it is given the varnode that a slot reads already.  An instance
with two ops is too small to see that, the proof is not.  The inductive invariant is
`IInv == TypeOK /\ Counted(f) /\ Matched(f) /\ NoDangling /\ CopiesRead /\ WalkCounts`.
`Counted` and `Matched` are the first two properties.  `WalkCounts` says that the copy of the use
list a walk goes by agrees, reader by reader, with what is still to be read: it makes `get_slot`
find a slot in each step and, when the list is empty, the op that is destroyed unread.
`CopiesRead` says that a COPY has an input, which the walk hands on.  Cardinalities come in at three
places: a slot more or less is a use more or less; `destroy_varnode` compares the rank of a slot
among its equals with the number of uses, and the rank is never larger; and when `op_remove_input`
closes a gap the positions behind it move down, which is a bijection (`ClosedGap`).
`LocationsPreserved` follows from the same invariant: a step of the walk writes over one slot, the
one that `get_slot` has found, with a varnode at the location of the old one; and the last step
finds no reader.

### Reachability

`ReachableIsLeast`: in a finite graph `ReachableFrom(succ, S)` is the
least set of nodes that holds `S` and every successor of what it holds.  The definition counts
rounds, as many as there are nodes.  The induction over the rounds is done with the smallest
round at which a claim fails (`Smallest`): first that the recursive function exists, then
that each round either adds a node or changes nothing any more.  Everything below uses
reachability by this theorem only: a set is shown to hold what is reachable by showing that it is closed.

### The walk, its labels and the dominators

`TreeInv` in `SpanningTree_proofs` is the invariant of `find_spanning_tree` run again and again
with edges removed between the runs.  While a walk is under way it is `WalkInv`: the stack is a path
from the entry in the order of discovery, an edge that was looked at leads to what is discovered, an
edge out of a finished block leads to a smaller postorder number or to an ancestor, and the
descendants of a finished block are the blocks with a number in its interval.  When it is over it is
`Numbered`.  Three more conjuncts are about what the walk leaves to be read.  `LabelInv`: on the
first walk, a back label is on every edge to a dominator, and on no other edge if the graph is
reducible; an edge to a dominator meets it on the stack, and an edge to a block on the stack
that does not dominate its source would close a cycle without a back edge.  `OnwardInv`: whatever labels an edge has
from earlier walks, it leads on in preorder, or this walk has labelled it back or cross.
`ExitInv`: `exitlist` names each block without out edges once.

`DomInv` in `StructureReset_proofs` is the invariant of `calc_forward_dominator`.  `ClimbInv` says that
`immed_dom`, as far as it is known, leads to smaller indices, and that no dominator of a block has been
climbed past.  From the first half two fingers meet, which is `NoFingerLost`; the code does not
test for a null pointer there (`block.cc:519`).  `SweptInv` says that what the sweep has passed is known, and settled as long as nothing
has changed.  When a sweep ends with nothing changed, `immed_dom` solves the equations of Cooper, Harvey
and Kennedy (`Solves`), and a solution in which no dominator is climbed past is the immediate dominators:
the blocks above b on the chain are its dominators, because if one could be avoided on some
path, the least block in reverse postorder that is reached so would have a predecessor below it.  That
argument does not ask for a reducible graph.

### The loops

`find_irreducible` takes the blocks as headers from the last in preorder to the first, and merges the blocks of a
loop into its header by `copymap`.  The surprise is that it looks up `copymap` once, where the
comment says FIND (`dobc.cc:925`): a block may stand for an inner header that stands for an outer one
itself.  `LoopsCorrect` says what is right all the same, and the run `loop_nest` what is not.

`ResetInv` adds to `Inv` what the search relies on.  `PlacedInv` and `RetreatInv` in `SpanningTree_proofs` are
left by the walk: `preorder` and `dfnum` are inverses; and on the first walk an edge that is labelled back leads to
its target up the tree, while any other leads on in preorder or in reverse postorder, so that a cycle has a back edge.
`Sound` holds of a first search as long as it has found no second entry (`Clean`).  Its parts: a block stands for a block
that dominates it, and the header of a search that is over dominates the sources of its back
edges (`CopyInv`); the work list lies below the header, holds what the sources stand for, and with a block
that was expanded whatever leads to it (`UnderInv`).  The step is `Collapse`.  Any edge into the work
list comes from a block that something of the list or the header dominates, namely what it stands for; so the
blocks that can be reached round the header are not in the list (`HeaderDominates`), and the header dominates
all of it.  When every header has had its turn, each edge labelled back goes to a dominator,
so the graph is reducible (`NumberedReducible`).

The other half is about a reducible graph, where `NaturalInv` holds: the work list stays in the natural loop of
the header, because a dominator of a block of the loop either is in the loop or dominates the header
(`DominatorInLoop`); so what is pulled in lies below the header, and nothing is recorded as an entry.
And once a header is done, no other block of its natural loop stands for itself: the union of the loops of what was
on the list is closed under predecessors, up to the header, so it holds the natural loop (`LoopWithin`).

### The same sweeps, backwards

What makes the sweeps right does not depend on the direction, so the lemmas are about any finite set D
of blocks with successors S, a root, ranks that some predecessor of each block is below (`Ranked`), and
an `idom` found so far (`Climbs`).  Fingers that climb by rank meet (`FingersMeet`); the fold over the edges of
a block ends at the lowest block above all of them (`EdgesFolded`, for what `Chosen` says); to enter it keeps
`Climbs` (`ClimbGoesOn`); and when a sweep has changed nothing, only the immediate dominators are left
(`DominatorsFound`).  `calc_forward_dominator` is one instance, with the index of a block as its
rank.  `calc_post_dominator` is the other, on the reversed graph with the block `exit` as root and the
distance from the end of `postorder` as rank.

That `postorder` serves as such is the first half of `PostInv`.  The walk from `exit` is recursive, so its
invariant speaks of the stack of calls: a call was made from the one below it, over an in edge that
one has taken (`CallingInv`); a block that has returned has `rindex` for its place in the list, and but for
`exit` it was called by one that returns later (`ReturnedInv`), which is what `Ranked` asks for; every edge that
was taken came from a block that has been called, or from the entry (`TakenInv`).  The entry shares its mark with
`exit`, so it is never called, and `WithinInv` says that what is called leads to an exit, on a way without it.  When the stack is empty, `postorder` is the set
that `ReachExit` names, and for the blocks in it the dominators of what was walked are those of the whole
reversed graph (`PartDominators`): no path from `exit` to one of them leaves the set.

The second half is about what was there before.  Nothing clears `post_immed_dom` in the blocks that the walk
misses, and one of these that has an edge from a block of the walk would be a finger with no place in `postorder`.
`FreshInv` says that before the first call nobody has a `post_immed_dom`, and `MissedInv` that during it
only exits have one among those that the walk misses.  The only exit the walk can miss is the entry, and only a function of one block
has an entry that is an exit; so a first call finds nothing (`FirstCallSafe`).  A later one may,
once a way to the exits is lost: that is the phase `lost` of the model.  Where a later call finds nothing
it ends with the right answer too, which `PostDominatorsCorrect` states of every call that comes to an end.

### Live sets, scratch registers and the order of the blocks

`LiveSets_proofs` has the invariant `Inv == TreeInv /\ LiveInv /\ SortInv`.  `TreeInv` is taken over
from the walk, with its lemmas step by step, because `ThumbGen` runs the same actions.

`TrulyLive` is defined by reachability between places, a place being an op of a block: from p, over
places that do not write r, one that reads it is reached.  While `compute_global_live_sets_p` runs, the sets hold only
registers that are live (`OnlyLive`), and what the sweep has passed solves the equations as long as nothing
has changed (`Settled`); so when it ends the sets are closed, and `ReachableIsLeast` says that they hold all that is
live.  From then on `AllLive` says that they still do, whatever `regalloc` adds to them, and `Handouts`
that a register that was handed out is in the set and is not live.

`SortInv` is the invariant of `sort_blocks`.  `PlaceInv` says that every block that is placed stands
in the list in front or in the list behind, in one place; and that a successor of a placed block is placed,
or in the queue, or has an in edge labelled forward from a block that is not placed.  When the queue is empty
and some block is not placed, take the one that was discovered first.  It has a predecessor that was
discovered before, so that one is placed.  If it stands in front, there is a forward edge from a block that
is not placed; it was discovered later, so by `OnwardInv` the last walk has labelled the edge back or cross
too, which is `Relabeled`.  If it stands behind, it is the block set aside in front of an exit, and it has
two successors, which is `SetAside`.  So the two reasons that TLC found are the only ones.

`BranchesCorrect` adds `CodeInv`, which is about the code as it is written.  `StartsInv`: a block has
instructions exactly when `cg` has an address for it, and the first of them stands there.
`BranchInv`: a branch goes to the address of the block that its edge leads to, or that branch is on `flist`, with
that block.  `EndsInv`: behind its last op a block has a branch for each of its edges, but for the
one that it falls through to; then the next block of the list begins where its last instruction ends,
also when data has been put between, because then there is a branch (`add_jmp`).  `TailInv` is what makes
that true in the middle of a block.  The work is in the steps that write a list of instructions at
once or change an argument of one that stands there already (`Fix`, `fix_vldr`, `EndExit`): the
invariant speaks of positions in `code`, which stay, and the property of the sublist of a block,
whose order is that of the positions.  At the end `Target` has to undo `encbranch`, which it
does for even distances in reach.  For a conditional branch `vm_error` sees to that; for the long branch
nobody does, so the theorem speaks of code that is no longer than 16 MB.

### Dead code

The inductive invariant is `IInv == prog \in Programs /\ TypeOK /\ Untouched /\ Kept /\ PhisGone /\ OnList`,
and the proof rests on `OpAssumption`, `ProgramsAssumption` and `ReachableIsLeast`.  `Untouched` is that what is
left reads nothing that is gone.  It survives `dead_phi_elimination` because a set that `dead_phi_detect`
agrees to destroy holds phis only, and is closed: all readers of its members are members
(`DeadPhis`).  `Kept` says that calls and effects are there, and that `topname` loses only what phis
alone read, over however many phis.  That needs `PhisGone`, that only phis have been destroyed by
then: the phis that are gone and those that go next, with all their readers, are closed under
readers, so none of them is read by an op that is no phi (`DeadPhisNotLive`).
What is left thus holds all roots of `Needed` and everything its members read, and `Needed` is the
least such set.  `OnList` is what completeness needs: an op in the blocks asked for that could be destroyed
is on the worklist from the moment that there is one.  `Collect` puts all of them there, and when an op is
destroyed, exactly its inputs may lose their last reader, which are put there too.

### Flow following

`NothingDecodedTwice` rests on `AddrAssumption` and `InstructionsAssumption`.  The inductive invariant is
`IInv == Types /\ Ops /\ Ahead`.  `Ops` says that the ops made are those of the visited
instructions, each once.  `Ahead` is why: while a run goes on, its address has not been visited,
and nothing visited lies between it and its bound.  Without the second half a run that has
passed over no bound could still enter what was decoded before.  `target`, which skips
instructions without pcode, is a recursive function over the addresses; that it exists is
proved from the last address down (`SearchExists`), and that it ends at an op that was made by
the last address at which it does not (`TargetFound`).

`BlocksFollowTheCode` has two halves.  The invariant of decoding is `Cutting`, nine facts that
need each other.  Every destination of a jump is marked, that is to say that the first op from there on begins
a block, or it waits on the stack (`Awaited`); where control falls through behind an instruction, either a
block begins there, or the next op of the list is the one that it falls to (`FallsOn`); and in the list an op
is followed by the op that it falls to, or by one that begins a block (`Neighbours`).  The hard
case is a run that goes on over instructions without pcode, or meets what an earlier run has decoded: what it
joins there has no mark of its own unless some other way leads to it, so `Led` says of an address without a
mark that the instruction in front of it was decoded first, `Arrived` where the run itself came
from, and `Clear` that no instruction reaches over the address of the run.  All of it speaks of
`Past`, the first address from a given one that has an op: as more is decoded, `Past` moves on, and
`PastGrows` says how.  The second half is about the blocks.  `OpWays` reads off the invariant that the edges
of an op which ends a block are exactly its ways, each to an op that begins a block, and that any other op goes to
its neighbour; `FirstsFacts` and `Pieces` say that `split_basic` cuts the list into pieces in
which only the first op begins a block; so an edge enters a block at its head and leaves it at
its end (`SameWays`).

`NothingDecodedInVain` is inductive beside that invariant and `Bounded`, which says that a run is bounded by a
visited address or by the end of everything.  `Awaited` and `Arrived` already say of the address that a run is at where
control comes from: it is the first, or an op that was made jumps there, or falls to it over instructions without
pcode.  That op is reached, so the first op decoded there is; the other ops of
the instruction are by `LinkedPcode` (`Ways`).  And what was reached before still is
(`ReachedGrows`): a step adds ops, and leaves every way of the ops there are, because the
target of an address, once there is one, does not change.

### What stays with TLC, and why

- Liveness (`Terminates`, and `RoundsEnd`, whose measure is a fold over the blocks): out of reach of
  the prover, or of no use without it.
- What `find_irreducible` finds after an edge was removed: the labels of earlier walks are still
  there, and the two properties on loops say nothing about it.
- `ConstantsExact`: packing of words as sets of bits, case by case; TLC enumerates the boundaries.
- The properties of `CfgSimplify`, `ArgumentPass`, `Heritage` and
  `ConstProp`: most of these rest on folds over lists with an operator as a parameter, or on
  `SelectSeq`, which the prover cannot expand.  Where such a list is read by a property that is proved
  (the exits, the unread ops, the blocks that come next), the model says `Sublist`, a recursive
  function.
- `InnermostHeader`, `PlacementComplete`, `PhisFitTheirBlocks`: they do not hold.

## 5. Plan

Done so far: edge lists, def-use graph, flow following, structure, post dominators,
rewriting with the unrolling of one-block loops, SSA construction, constant propagation,
dead code, live sets and the writing of code.  What is left, in order of what it would add:

Models:

1. `clone_web` and `clone_ifweb` over `BlockEdges`: the copy of a region and the order of
   the edges it gets, with the property of `ArgumentPass`; then `loop_unrolling4`, which
   copies along an execution that `constant_propagation4` has computed.
2. `BRANCHIND`: jump tables in `FlowFollow`, `is_switch_out` in `CfgSimplify`.
3. `argument_inline` and `inline_flow`, over `FlowFollow`.
4. IT blocks in `FlowFollow`, dead stores in `DeadCode`, `cloneop` in `DefUse`, locations
   that overlap in `Heritage`.
5. Literals of the original code and registers from r8 on in `ThumbGen`.

Proofs:

1. `NothingThrown` and `BranchesKeepTheirEdges` of `CfgSimplify`: one lemma for each function of
   `BlockEdges`, then one for each pass.
2. `PlacementExact` and `LinksAreReachingDefinitions` of `Heritage`: the frontier from the dominators
   that are proved, then the renaming as a walk of the dominator tree.

## 6. Not modelled, and why

- The SLEIGH decoder and Unicorn are vendored, and so are the C libraries beside them.  They are
  most of the lines of the repository: `src/src/dobc` without them is less than a tenth of
  it, and it is what this directory is about.
- The driver, the symbol tables and the ELF reader are input and output.  `mcore` is a
  library that the passes do not use.
- The removal of the OLLVM dispatcher and of the vmp360 shell are heuristics: which shape they
  look for is a choice, and what they do to the graph when they find it goes through the
  operations above.
- `cover.cc`, `calc_exitpath` and `pass_regalloc_const_arm` with the live sets by block are not
  called by anything that runs.
- Instruction selection is a table.
