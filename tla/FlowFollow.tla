------------------------------ MODULE FlowFollow ------------------------------
(***************************************************************************)
(* From bytes to blocks: generate_ops of src/dobc/dobc.cc decodes a        *)
(* function by following its control flow, run by run, and collect_edges,  *)
(* split_basic and connect_basic cut the pcode into blocks with edges.     *)
(*                                                                         *)
(* What the bytes at an address say is chosen when they are decoded.  An   *)
(* op is named by its address and its place in the pcode of its            *)
(* instruction.  Jump tables and the joining of IT blocks are left out.    *)
(***************************************************************************)
EXTENDS Integers, FiniteSets, FiniteSetsExt, SequencesExt, FlowGraphs

CONSTANTS
  Addr,           \* 0 .. N, where code may lie; 0 is startaddr
  Instructions(_),\* what can be decoded at an address: [size, ops, calls: what is called]
  Functions,      \* the functions that are known beforehand, by their address
  inst_max        \* how many instructions a function may have

\* Of the ops the module keeps those that decide where control goes; all others are OP.
\* `to' is an address, or for `rel' the distance to an op of the same instruction.  A
\* BRANCH_CALL is a BRANCH with flags.branch_call.
Opcodes == {"OP", "BRANCH", "CBRANCH", "RETURN", "NORETURN_CALL", "BRANCH_CALL"}
PcodeOp == [opcode : Opcodes, to : Nat, rel : BOOLEAN]

ASSUME AddrAssumption == IsFiniteSet(Addr) /\ Addr = 0 .. Cardinality(Addr) - 1 /\ 0 \in Addr
\* A Thumb instruction has one halfword or two.
ASSUME InstructionsAssumption ==
  \A a \in Addr : Instructions(a) \subseteq [size : {1, 2}, ops : Seq(PcodeOp), calls : SUBSET Nat]
ASSUME FunctionsAssumption == Functions \subseteq Nat /\ inst_max \in Nat

VARIABLES
  visited,     \* the instructions decoded so far, by address
  unknown,     \* history: the addresses where nothing could be decoded
  addrlist,    \* the stack of addresses to go on from
  deadlist,    \* the ops in the order they were made
  startblock,  \* the ops with flags.startblock
  exit,        \* the ops with flags.exit
  functions,   \* the addresses in addrtab, which find_func looks up
  inst_count,  \* the instructions taken up so far
  bound, startbasic,   \* of the run of fallthru
  block_edge, blist,   \* the edges between ops: <<from, to, taken>>; the blocks
  phase

decoding == <<visited, unknown, addrlist, deadlist, startblock, exit, functions, inst_count,
              bound, startbasic>>
vars == <<decoding, block_edge, blist, phase>>

eaddr == Cardinality(Addr) + 2   \* behind everything that can be decoded

Init ==
  /\ visited = << >> /\ unknown = {} /\ addrlist = <<0>> /\ deadlist = << >>
  /\ startblock = {} /\ exit = {}
  /\ functions = Functions \union {0} /\ inst_count = 0
  /\ bound = eaddr /\ startbasic = TRUE
  /\ block_edge = << >> /\ blist = << >>
  /\ phase = "generate_ops"

(***************************************************************************)
(* Addresses and ops                                                       *)
(***************************************************************************)
NoOp == <<eaddr, 0>>
opcode(op) == visited[op[1]].ops[op[2]].opcode
end(vis, a) == a + vis[a].size

\* The first op at an address or behind the instructions without pcode there; target
\* throws for NoOp.
target(vis, addr) ==
  LET first[a \in Nat] == IF a \notin DOMAIN vis THEN NoOp
                          ELSE IF vis[a].ops # << >> THEN <<a, 1>>
                          ELSE first[end(vis, a)]
  IN  first[addr]

(***************************************************************************)
(* generate_ops                                                            *)
(***************************************************************************)

\* Below or at addr, and above it, the nearest address that was visited.
Before(addr) == {a \in DOMAIN visited : a <= addr}
Behind(addr) == {a \in DOMAIN visited : a > addr}
NextVisited(addr) == IF Behind(addr) = {} THEN eaddr ELSE Min(Behind(addr))

\* set_fallthru_bound: an address in the middle of an instruction throws.
InTheMiddle(addr) ==
  Before(addr) # {} /\ addr \notin DOMAIN visited /\ addr < end(visited, Max(Before(addr)))

\* Mutant: the run is not bounded by what was visited.
StartRun_unbounded ==
  /\ phase = "generate_ops" /\ addrlist # << >>
  /\ LET addr == Last(addrlist)
     IN  IF addr \in DOMAIN visited
         THEN /\ addrlist' = Front(addrlist)
              /\ startblock' = startblock \union {target(visited, addr)}
              /\ phase' = IF target(visited, addr) = NoOp THEN "thrown" ELSE phase
              /\ UNCHANGED <<bound, startbasic>>
         ELSE /\ phase' = IF InTheMiddle(addr) THEN "thrown" ELSE "fallthru"
              /\ bound' = eaddr
              /\ startbasic' = TRUE
              /\ UNCHANGED <<addrlist, startblock>>
  /\ UNCHANGED <<visited, unknown, deadlist, exit, functions, inst_count, block_edge, blist>>

\* Mutant: a visited address is not popped.
StartRun_kept ==
  /\ phase = "generate_ops" /\ addrlist # << >>
  /\ LET addr == Last(addrlist)
     IN  IF addr \in DOMAIN visited
         THEN /\ addrlist' = addrlist
              /\ startblock' = startblock \union {target(visited, addr)}
              /\ phase' = IF target(visited, addr) = NoOp THEN "thrown" ELSE phase
              /\ UNCHANGED <<bound, startbasic>>
         ELSE /\ phase' = IF InTheMiddle(addr) THEN "thrown" ELSE "fallthru"
              /\ bound' = NextVisited(addr)
              /\ startbasic' = TRUE
              /\ UNCHANGED <<addrlist, startblock>>
  /\ UNCHANGED <<visited, unknown, deadlist, exit, functions, inst_count, block_edge, blist>>

\* fallthru begins with the top of the stack, which stays there unless it was visited.
StartRun ==
  /\ phase = "generate_ops" /\ addrlist # << >>
  /\ LET addr == Last(addrlist)
     IN  IF addr \in DOMAIN visited
         THEN /\ addrlist' = Front(addrlist)
              /\ startblock' = startblock \union {target(visited, addr)}
              /\ phase' = IF target(visited, addr) = NoOp THEN "thrown" ELSE phase
              /\ UNCHANGED <<bound, startbasic>>
         ELSE /\ phase' = IF InTheMiddle(addr) THEN "thrown" ELSE "fallthru"
              /\ bound' = NextVisited(addr)
              /\ startbasic' = TRUE
              /\ UNCHANGED <<addrlist, startblock>>
  /\ UNCHANGED <<visited, unknown, deadlist, exit, functions, inst_count, block_edge, blist>>

\* The pcode of an instruction, as xref_control_flow walks over it.
Jumps == {"BRANCH", "RETURN", "BRANCH_CALL"}
RelTargets(ops, k) == {j + ops[j].to : j \in {n \in 1 .. k : ops[n].rel}}
noreturn(ops, k) == \E j \in 1 .. k : ops[j].opcode = "NORETURN_CALL"

\* The walk ends at a jump, unless an op behind it is still jumped to.
EndsAt(ops, k) ==
  /\ ops[k].opcode \in Jumps \/ noreturn(ops, k)
  /\ \A t \in RelTargets(ops, k) : t > Len(ops) \/ k >= t

Walked(ops) == {k \in DOMAIN ops : \A j \in 1 .. k - 1 : ~EndsAt(ops, j)}
LastWalked(ops) == ops[Max(Walked(ops))].opcode
RelNext(ops) == \E t \in RelTargets(ops, Cardinality(Walked(ops))) : t > Len(ops)

StartsBasic == {"BRANCH", "CBRANCH", "RETURN", "NORETURN_CALL"}
Exits == {"NORETURN_CALL", "BRANCH_CALL"}

ExitsOf(ops) == {k \in Walked(ops) : ops[k].opcode \in Exits}

\* The ops of an instruction at a that are to begin a block.
BlockStarts(a, ops) ==
  {<<a, k>> : k \in {j \in Walked(ops) :
                      IF j = 1 THEN startbasic ELSE ops[j - 1].opcode \in StartsBasic}}
  \union {<<a, k>> : k \in RelTargets(ops, Cardinality(Walked(ops))) \intersect DOMAIN ops}

StartsBasicAfter(ops) ==
  IF ops = << >> THEN startbasic
  ELSE LastWalked(ops) \in StartsBasic \/ (RelNext(ops) /\ ~noreturn(ops, Cardinality(Walked(ops))))

\* Mutant: control comes back from a call that does not return.
FallsThrough_back(ops) == ops = << >> \/ RelNext(ops) \/ LastWalked(ops) \notin Jumps

FallsThrough(ops) ==
  \/ ops = << >>
  \/ /\ ~noreturn(ops, Cardinality(Walked(ops)))
     /\ RelNext(ops) \/ LastWalked(ops) \notin Jumps

\* What SLEIGH makes of Thumb instructions (ARMTHUMBinstructions.sinc), for which del_op, which
\* deletes nothing, has nothing to delete: behind a jump, a return or a call that does not come
\* back stands nothing that is not jumped to, and such a call is where its instruction ends.
Tidy(ops) ==
  ops # << >> =>
    /\ Walked(ops) = DOMAIN ops
    /\ \A k \in DOMAIN ops :
         k < Len(ops) /\ ops[k].opcode \in {"BRANCH", "BRANCH_CALL"} => k + 1 \in RelTargets(ops, Len(ops))
    /\ noreturn(ops, Len(ops)) => ops[Len(ops)].opcode \notin {"OP", "CBRANCH"} /\ ~RelNext(ops)

TidyPcode == \A a \in Addr : \A ins \in Instructions(a) : Tidy(ins.ops)

\* And no op of an instruction is there in vain: control comes from the op in front or from one
\* that jumps ahead.
Linked(ops) ==
  /\ \A k \in DOMAIN ops : ops[k].rel => ops[k].opcode \in {"BRANCH", "CBRANCH"}
  /\ \A k \in DOMAIN ops \ {1} :
       \/ ops[k - 1].opcode \in {"OP", "CBRANCH"}
       \/ \E j \in 1 .. k - 1 : ops[j].rel /\ j + ops[j].to = k

LinkedPcode == \A a \in Addr : \A ins \in Instructions(a) : Linked(ins.ops)

\* The ops that jump to an address of their own.
JumpsAway(ops) == {k \in DOMAIN ops : ops[k].opcode \in {"BRANCH", "CBRANCH"} /\ ~ops[k].rel}

\* The addresses that the ops of S jump to, in order.
Destinations(ops, S) ==
  LET nth(n) == CHOOSE k \in S : Cardinality({j \in S : j <= k}) = n
  IN  [n \in 1 .. Cardinality(S) |-> ops[nth(n)].to]

\* A branch to a known function is a call that does not come back.  (What is known in front of an
\* instruction decides, because none calls and then jumps to an address.)
Resolved(ins, known) ==
  [ins EXCEPT !.ops =
     [k \in DOMAIN @ |-> IF @[k].opcode = "BRANCH" /\ ~@[k].rel /\ @[k].to \in known
                          THEN [@[k] EXCEPT !.opcode = "BRANCH_CALL"] ELSE @[k]]]

\* xref_control_flow throws for a conditional branch to a known function, and find_rel_target
\* for a distance that leads to no op, not even to the one behind the last.
Refused(ops) ==
  \E k \in Walked(ops) : IF ops[k].rel THEN k + ops[k].to > Len(ops) + 1
                          ELSE ops[k].opcode = "CBRANCH" /\ ops[k].to \in functions

\* The limit of instructions throws.
ExceedMax ==
  /\ phase = "fallthru" /\ inst_count >= inst_max
  /\ addrlist' = Front(addrlist) /\ phase' = "thrown"
  /\ UNCHANGED <<visited, unknown, deadlist, startblock, exit, functions, inst_count>>
  /\ UNCHANGED <<bound, startbasic, block_edge, blist>>

\* An instruction that is not understood ends the run, and the function, at the op before.
ProcessUnknown ==
  /\ phase = "fallthru" /\ inst_count < inst_max /\ deadlist # << >>
  /\ inst_count' = inst_count + 1
  /\ unknown' = unknown \union {Last(addrlist)}
  /\ exit' = exit \union {Last(deadlist)}
  /\ addrlist' = Front(addrlist)
  /\ phase' = "generate_ops"
  /\ UNCHANGED <<visited, deadlist, startblock, functions, bound, startbasic, block_edge, blist>>

\* process_instruction with xref_control_flow and new_address, and then what fallthru
\* makes of the next address: below the bound the run goes on, at the bound it ends, and
\* behind it the bound is set anew.  (Nobody looks at what a step that throws leaves.)
ProcessInstruction(ins) ==
  /\ LET cur    == Last(addrlist)
         next   == cur + ins.size
         vis    == [a \in DOMAIN visited \union {cur} |-> IF a = cur THEN ins ELSE visited[a]]
         old    == {k \in JumpsAway(ins.ops) : ins.ops[k].to \in DOMAIN vis}
         known  == {target(vis, ins.ops[k].to) : k \in old}
         stack  == Front(addrlist) \o Destinations(ins.ops, JumpsAway(ins.ops) \ old)
         falls  == FallsThrough(ins.ops)
         again  == falls /\ next > bound /\ next \in DOMAIN visited
         meets  == falls /\ next = bound /\ StartsBasicAfter(ins.ops)
         starts == known \union (IF again \/ meets THEN {target(vis, next)} ELSE {})
         on     == falls /\ next # bound /\ ~again
     IN  /\ visited' = vis
         /\ deadlist' = deadlist \o [k \in DOMAIN ins.ops |-> <<cur, k>>]
         /\ startblock' = startblock \union BlockStarts(cur, ins.ops) \union starts
         /\ exit' = exit \union {<<cur, k>> : k \in ExitsOf(ins.ops)}
         /\ addrlist' = IF on THEN Append(stack, next) ELSE stack
         /\ bound' = IF on /\ next > bound THEN NextVisited(next) ELSE bound
         /\ startbasic' = StartsBasicAfter(ins.ops)
         /\ phase' = IF Refused(ins.ops) \/ NoOp \in starts \/ (on /\ next > bound /\ InTheMiddle(next)) THEN "thrown"
                     ELSE IF on THEN phase ELSE "generate_ops"
  /\ functions' = functions \union ins.calls   \* by add_func, behind the jumps
  /\ inst_count' = inst_count + 1
  /\ UNCHANGED <<unknown, block_edge, blist>>

Process ==
  /\ phase = "fallthru" /\ inst_count < inst_max /\ Last(addrlist) \in Addr \ unknown
  /\ \E ins \in Instructions(Last(addrlist)) : ProcessInstruction(Resolved(ins, functions))

EndOps ==
  /\ phase = "generate_ops" /\ addrlist = << >>
  /\ phase' = "generate_blocks"
  /\ UNCHANGED <<decoding, block_edge, blist>>

(***************************************************************************)
(* generate_blocks                                                         *)
(***************************************************************************)
fallthru_op(op) ==
  IF op[2] < Len(visited[op[1]].ops) THEN <<op[1], op[2] + 1>>
  ELSE target(visited, end(visited, op[1]))

branch_target(op) ==
  LET p == visited[op[1]].ops[op[2]]
  IN  IF ~p.rel THEN target(visited, p.to)
      ELSE IF op[2] + p.to <= Len(visited[op[1]].ops) THEN <<op[1], op[2] + p.to>>
      ELSE target(visited, end(visited, op[1]))

\* Mutant: nothing comes behind the last op.
nextstart_last(n) == n < Len(deadlist) /\ deadlist[n + 1] \in startblock

nextstart(n) == n = Len(deadlist) \/ deadlist[n + 1] \in startblock

\* The edges of the n-th op: a jump has its own, any other op falls into the next block.
EdgesOf(n) ==
  LET op == deadlist[n]
  IN  CASE opcode(op) = "BRANCH"  -> << <<op, branch_target(op), FALSE>> >>
        [] opcode(op) = "CBRANCH" ->
             << <<op, fallthru_op(op), FALSE>>, <<op, branch_target(op), TRUE>> >>
        [] opcode(op) \in {"RETURN", "BRANCH_CALL"} -> << >>
        [] OTHER -> IF op \notin exit /\ nextstart(n) THEN << <<op, fallthru_op(op), FALSE>> >>
                    ELSE << >>

collect_edges == FlattenSeq([n \in DOMAIN deadlist |-> EdgesOf(n)])

\* Cut in front of every op with flags.startblock.
split_basic ==
  LET firsts == Sublist([n \in DOMAIN deadlist |-> n],
                        {n \in DOMAIN deadlist : n = 1 \/ deadlist[n] \in startblock})
      Stop(m) == IF m = Len(firsts) THEN Len(deadlist) ELSE firsts[m + 1] - 1
  IN  [m \in DOMAIN firsts |-> SubSeq(deadlist, firsts[m], Stop(m))]

GenerateBlocks ==
  /\ phase = "generate_blocks"
  /\ IF \E e \in Range(collect_edges) : e[2] = NoOp
     THEN phase' = "thrown" /\ UNCHANGED <<block_edge, blist>>
     ELSE phase' = "done" /\ block_edge' = collect_edges /\ blist' = split_basic
  /\ UNCHANGED decoding

Next ==
  \/ StartRun
  \/ ExceedMax
  \/ ProcessUnknown
  \/ Process
  \/ EndOps
  \/ GenerateBlocks

Spec == Init /\ [][Next]_vars /\ WF_vars(Next)

(***************************************************************************)
(* Properties                                                              *)
(***************************************************************************)
Made == Range(deadlist)

\* Types; and every op that is to begin a block or to end the function was made.
TypeOK ==
  /\ DOMAIN visited \subseteq Addr /\ addrlist \in Seq(Nat)
  /\ phase # "thrown" => startblock \subseteq Made
  /\ exit \subseteq Made
  /\ functions \subseteq Nat /\ 0 \in functions /\ inst_count \in 0 .. inst_max
  /\ bound \in 0 .. eaddr /\ startbasic \in BOOLEAN
  /\ \A op \in Made : op[2] \in DOMAIN visited[op[1]].ops
  /\ phase \in {"generate_ops", "fallthru", "generate_blocks", "done", "thrown"}

\* No address is decoded twice, in whatever order the runs meet each other.
DecodedOnce == TypeOK /\ Cardinality(Made) = Len(deadlist)

\* Where control goes from an op, by what its instruction says, and whether it jumps there.
Goes(op) ==
  {g \in CASE opcode(op) = "BRANCH"  -> {<<branch_target(op), FALSE>>}
           [] opcode(op) = "CBRANCH" -> {<<fallthru_op(op), FALSE>>, <<branch_target(op), TRUE>>}
           [] opcode(op) = "OP"      -> {<<fallthru_op(op), FALSE>>}
           [] OTHER -> {} : g[1] # NoOp}

\* The same by the blocks: along a block, then over its edges to the start of a block.
Parent(op) == CHOOSE m \in DOMAIN blist : op \in Range(blist[m])

GoesInBlocks(op) ==
  LET bl == blist[Parent(op)]
  IN  IF op # Last(bl) THEN {<<bl[n + 1], FALSE>> : n \in {m \in 1 .. Len(bl) - 1 : bl[m] = op}}
      ELSE {<<Head(blist[Parent(e[2])]), e[3]>> :
              e \in {f \in Range(block_edge) : Parent(f[1]) = Parent(op)}}

Reached ==
  ReachableFrom([op \in Made |-> {g[1] : g \in Goes(op)}], {target(visited, 0)})

\* The blocks and edges say of every op that control reaches what its instruction says:
\* no block is missing, none is entered in its middle or left before its end, and the
\* first block holds the first op.
FlowKept ==
  phase = "done" =>
    /\ Head(blist[1]) = target(visited, 0)
    /\ \A op \in Reached : GoesInBlocks(op) = Goes(op)

\* Nothing is decoded that control does not reach: not behind what does not come back, nor
\* what only another function jumps to; so what decoding throws about is in the way of
\* control as well.
OnlyReached == Made \subseteq Reached

\* The search comes to an end, although addresses are pushed again and again.
Terminates == <>(phase \in {"done", "thrown"})
==============================================================================
