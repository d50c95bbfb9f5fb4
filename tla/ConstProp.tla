------------------------------- MODULE ConstProp -------------------------------
(***************************************************************************)
(* funcdata::constant_propagation4 of src/dobc/funcdata.cc with            *)
(* store_query of src/dobc/dobc.cc and pcodeop::compute: the worklist that *)
(* turns varnodes from unknown (top) into constants and ties a load to the *)
(* store it reads from.  Afterwards the function is executed, to see that  *)
(* a constant is the value the varnode really has.                         *)
(*                                                                         *)
(* An op is known by its number, its time; so is the varnode it defines.   *)
(* The peephole rewriting (flags.enable_peephole) is left out.             *)
(***************************************************************************)
EXTENDS Integers, SequencesExt, FlowGraphs

CONSTANTS
  Functions,  \* [succ, in: the blocks behind and in front of a block; ops: [kind, blk, in, v]]
  Width,      \* of a word: numbers are modulo Width
  SafeZone,   \* numbers that a call is trusted not to write to
  Image,      \* the words of the file, by address, that no section allows to write
  MaxRuns,    \* bound: how often the propagation runs over the function
  Unknown     \* the values an input, or a word of memory nobody has written, may have

VARIABLES
  prog,
  phase,        \* propagate, propagated, run
  type,         \* valuetype of the varnode an op defines
  link,         \* of a load, the store whose output is its third input, or 0
  set, visit,
  mayuses,      \* of a store, the loads that wait for its address
  maystore_set,
  runs,         \* how often the propagation has run
  uncalculated, \* the stores with flags.uncalculated_store
  block, at, env, mem  \* the execution: where it is, the varnodes and the memory

cpvars == <<prog, type, link, set, visit, mayuses, maystore_set, uncalculated, runs>>
runvars == <<block, at, env, mem>>
vars == <<phase, cpvars, runvars>>

Top == <<"top", 0>>
Const(v) == <<"constant", v>>
Sp(v) == <<"sp_constant", v>>
NONE == 0

Block == DOMAIN prog.succ
Op == DOMAIN prog.ops
kind(n) == prog.ops[n].kind
parent(n) == prog.ops[n].blk
get_in(n, i) == prog.ops[n].in[i]
inrefs(n) == Range(prog.ops[n].in)

\* What stands for a varnode without a def: an input of the function.
Input == {n \in Op : kind(n) \in {"input", "sp"}}

is_constant(t) == t[1] = "constant"
is_gen_constant(t) == t[1] # "top"
is_top(t) == t[1] = "top"

uses(n) == {m \in Op : n \in inrefs(m) \/ link[m] = n}

(***************************************************************************)
(* compute                                                                 *)
(***************************************************************************)
\* A number as a computation leaves it, sign extended; a constant in the code is not.
Signed(v) == LET m == v % Width IN IF 2 * m >= Width THEN m - Width ELSE m

\* search_copy_chain: through copies and linked loads, to the value of the store.
Origin(n) ==
  LET from[k \in 0 .. Cardinality(Op), m \in Op] ==
        IF k = 0 THEN m
        ELSE CASE kind(m) = "copy" /\ get_in(m, 1) \notin Input -> from[k - 1, get_in(m, 1)]
               [] kind(m) = "load" /\ link[m] # NONE -> from[k - 1, link[m]]
               [] kind(m) = "store" /\ get_in(m, 2) \notin Input -> from[k - 1, get_in(m, 2)]
               [] OTHER -> m
  IN  from[Cardinality(Op), n]

Constants(n) == {m \in inrefs(n) : is_gen_constant(type[m])}
Others(n) == inrefs(n) \ Constants(n)
IsPhi(m) == m \notin Input /\ kind(Origin(m)) = "phi"
Phis(n) == {Origin(m) : m \in {k \in Others(n) : IsPhi(k)}}

\* The phis that n depends on when only phis lie between, and n.
Closure(n) ==
  ReachableFrom([m \in {k \in Op : kind(k) = "phi"} |-> Phis(m)], {n})

\* The constants that come in have one number, and so have those of the phis that come in
\* (there the kind is compared as well); nothing else does.
on_MULTIEQUAL(n) ==
  LET last  == SelectLastInSeq(prog.ops[n].in, LAMBDA m : m \in Constants(n))
      phis  == Closure(n) \ {n}
      inner == UNION {Constants(p) : p \in phis}
      cn    == IF last # 0 THEN type[get_in(n, last)]
               ELSE IF inner # {} THEN type[CHOOSE m \in inner : TRUE] ELSE Top
  IN  IF /\ \A m \in Others(n) : IsPhi(m)
         /\ Cardinality({type[m][2] : m \in Constants(n)}) <= 1
         /\ \A p \in phis : \A m \in Others(p) : IsPhi(m)
         /\ \A m \in inner : type[m] = cn
      THEN cn ELSE Top

\* CPUI_INT_EQUAL with a difference and 0: a phi of constants that all differ from the other
\* side, or are all the same as it.
DecidedByPhi(n) ==
  LET sub == get_in(n, 1)
      a   == get_in(sub, 1)
      b   == get_in(sub, 2)
      c   == IF is_constant(type[a]) THEN a ELSE b
      phi == IF is_constant(type[a]) THEN b ELSE a
      same == {m \in inrefs(phi) : type[m] = type[c]}
  IN  IF /\ kind(sub) = "sub" /\ is_constant(type[c]) /\ kind(phi) = "phi"
         /\ \A m \in inrefs(phi) : is_constant(type[m])
      THEN IF same = {} THEN Const(0) ELSE IF same = inrefs(phi) THEN Const(1) ELSE Top
      ELSE Top

\* A word of the file; of what may be written, or lies behind the end of the file, nothing
\* is known.
loadram2out(v) == IF v % Width \in DOMAIN Image THEN Const(Signed(Image[v % Width])) ELSE Top

\* compute, of the ops that matter here; Top is left for what the code cannot tell.  ("ram" is
\* a copy from a fixed address.)  A load from a constant address takes the word of the file,
\* or nothing: the store it is linked to does not count.
compute(n) ==
  LET a == type[get_in(n, 1)]
      b == type[get_in(n, 2)]
  IN  CASE kind(n) = "const" -> Const(prog.ops[n].v)
        [] kind(n) = "copy"  -> a
        [] kind(n) = "add"   ->
             CASE is_constant(a) /\ is_constant(b) -> Const(Signed(a[2] + b[2]))
               [] is_gen_constant(a) /\ is_gen_constant(b) /\ (is_constant(a) \/ is_constant(b)) ->
                    Sp(Signed(a[2] + b[2]))
               [] OTHER -> Top
        [] kind(n) = "sub"   ->
             CASE is_constant(a) /\ is_constant(b) -> Const(Signed(a[2] - b[2]))
               [] ~is_constant(a) /\ is_gen_constant(a) /\ is_constant(b) -> Sp(Signed(a[2] - b[2]))
               [] OTHER -> Top
        [] kind(n) = "equal" ->
             CASE is_constant(a) /\ is_constant(b) -> Const(IF a[2] = b[2] THEN 1 ELSE 0)
               [] is_constant(b) /\ b[2] = 0 -> DecidedByPhi(n)
               [] OTHER -> Top
        [] kind(n) = "phi"   -> on_MULTIEQUAL(n)
        [] kind(n) = "ram"   -> loadram2out(prog.ops[n].v)
        [] kind(n) = "load"  -> IF is_constant(a) THEN loadram2out(a[2])
                                ELSE IF link[n] # NONE THEN type[link[n]] ELSE Top
        [] kind(n) = "store" -> b
        [] kind(n) = "call"  -> Top

(***************************************************************************)
(* store_query                                                             *)
(***************************************************************************)
Preds(b) == prog.in[b]
succs == [b \in Block |-> Range(prog.succ[b])]
entry == 0

\* Of every flow graph: the dominators of a block, and the blocks from which it is reached
\* without the block that dominates it immediately.
Graphs == {f.succ : f \in Functions}
Edges(g) == [b \in DOMAIN g |-> Range(g[b])]
doms == [g \in Graphs |-> [b \in DOMAIN g |-> Dominators(Edges(g), entry, b)]]
between ==
  [g \in Graphs |-> [b \in DOMAIN g \ {entry} |->
     LET dom  == Idom(Edges(g), entry, b)
         pred == [c \in DOMAIN g |-> {p \in DOMAIN g \ {dom} : c \in Range(g[p])}]
     IN  ReachableFrom(pred, pred[b])]]

\* The blocks that dominate b.
Above(b) == doms[prog.succ][b]

address(n) == get_in(n, 1)

sideeffect_ops(b) == {n \in Op : parent(n) = b /\ kind(n) \in {"store", "call"}}

\* What a call does not write to, by its number alone; that of an unknown address is 0.
have_side_effect(p, pos) == kind(p) = "call" /\ type[pos][2] % Width \notin SafeZone

\* Mutant: an address that is not known yet is another address.
Clashes_known(p, pos) == kind(p) = "store" /\ is_gen_constant(type[pos]) /\ type[address(p)] = type[pos]

\* The address of store p is unknown, or it is the address in pos.
Clashes(p, pos) ==
  kind(p) = "store" /\ (is_top(type[address(p)]) \/ type[address(p)] = type[pos])

\* The last op of block b in front of op number n that ends the search of load l.
LastIn(b, l, n) ==
  LET ends == {p \in sideeffect_ops(b) :
                 p < n /\ (have_side_effect(p, address(l)) \/ (p \notin uncalculated /\ Clashes(p, address(l))))}
  IN  IF ends = {} THEN NONE ELSE Max(ends)

\* The ops between b and the block that dominates it immediately that end the search, the
\* last of each block.  Which block is looked at first
\* is left open; it only matters for the store to wait for.  A store stays in the way here
\* when it is marked as uncalculated.
EndsBetween(b, l) ==
  IF b = entry \/ Len(Preds(b)) < 2 THEN {}
  ELSE LET ends(c) == {p \in sideeffect_ops(c) : have_side_effect(p, address(l)) \/ Clashes(p, address(l))}
       IN  {Max(ends(c)) : c \in {d \in between[prog.succ][b] : ends(d) # {}}}

Nothing == [store |-> NONE, maystore |-> NONE]

\* Two addresses start from the same varnode.  What a constant is made from, and the space a
\* load names first, are varnodes of that op alone.
SameBase(p, l) ==
  LET a == address(p)
      b == address(l)
  IN  /\ {a, b} \cap Input = {}
      /\ \/ a = b
         \/ {kind(a), kind(b)} \cap {"const", "ram", "load"} = {} /\ get_in(a, 1) = get_in(b, 1)

\* Two unknown addresses are the same when they are the same sum of the same varnode.
SameSum(p, l) ==
  LET second(n) == type[IF kind(n) = "load" THEN get_in(n, 1) ELSE get_in(n, 2)]
      a == address(p)
      b == address(l)
  IN  kind(a) = kind(b) /\ is_constant(second(a)) /\ second(a) = second(b)

\* What ends the search says what it has found: a store of the block or of a dominator, a
\* store that has to be waited for, or nothing.
Answer(p, l, passing) ==
  IF kind(p) = "call" THEN Nothing
  ELSE IF ~is_top(type[address(p)])
       THEN IF passing THEN Nothing ELSE [Nothing EXCEPT !.store = p]
  ELSE IF passing \/ ~SameBase(p, l) THEN [Nothing EXCEPT !.maystore = p]
  ELSE IF SameSum(p, l) THEN [Nothing EXCEPT !.store = p]
  ELSE Nothing

\* The answers of the search.  It goes up from dominator to dominator; before it leaves a
\* block where flows meet, it looks at everything between.
store_query(l) ==
  LET up    == Above(parent(l))
      inner == [b \in up |-> LastIn(b, l, IF b = parent(l) THEN l ELSE Cardinality(Op) + 1)]
      outer == [b \in up |-> EndsBetween(b, l)]
      ends  == {b \in up : inner[b] # NONE \/ outer[b] # {}}
      near  == CHOOSE b \in ends : ends \subseteq Above(b)
  IN  IF ends = {} THEN {Nothing}
      ELSE IF inner[near] # NONE THEN {Answer(inner[near], l, FALSE)}
      ELSE {Answer(p, l, TRUE) : p \in outer[near]}

(***************************************************************************)
(* constant_propagation4                                                   *)
(***************************************************************************)
ReadOnly == {Const(v) : v \in DOMAIN Image}

Init ==
  /\ prog \in Functions
  /\ phase = "propagate"
  /\ type = [n \in Op |-> IF kind(n) = "sp" THEN Sp(0) ELSE Top]
  /\ link = [n \in Op |-> NONE]
  /\ set = Op \ Input /\ visit = {}
  /\ mayuses = [n \in Op |-> {}] /\ maystore_set = {} /\ uncalculated = {} /\ runs = 1
  /\ block = entry /\ at = 0 /\ env = [n \in Op |-> Top]
  /\ mem = [c \in ReadOnly |-> Const(Image[c[2]])]

op == Min(set)

\* The loads that have waited for the address of this store, now that it is known.
Waiting(n) == IF kind(n) = "store" /\ ~is_top(type[address(n)]) THEN mayuses[n] ELSE {}

Compute(n) ==
  /\ type' = [type EXCEPT ![n] = compute(n)]
  /\ mayuses' = [mayuses EXCEPT ![n] = @ \ Waiting(n)]

\* Mutant: a constant is handed on whenever it is computed.
Propagate_again ==
  /\ phase = "propagate" /\ set # {}
  /\ Compute(op)
  /\ is_gen_constant(compute(op))
  /\ visit' = visit \union {op}
  /\ set' = (set \ {op}) \union Waiting(op) \union uses(op)
  /\ UNCHANGED <<phase, prog, link, maystore_set, uncalculated, runs, runvars>>

\* A constant is handed on, once.
Propagate ==
  /\ phase = "propagate" /\ set # {}
  /\ Compute(op)
  /\ is_gen_constant(compute(op))
  /\ visit' = visit \union {op}
  /\ set' = (set \ {op}) \union Waiting(op) \union (IF op \in visit THEN {} ELSE uses(op))
  /\ UNCHANGED <<phase, prog, link, maystore_set, uncalculated, runs, runvars>>

\* Mutant: the load does not wait.
QueryLoad_forget ==
  /\ phase = "propagate" /\ set # {}
  /\ is_top(compute(op)) /\ kind(op) = "load" /\ op \notin visit
  /\ \E answer \in store_query(op) :
         IF answer.store # NONE
         THEN /\ link' = [link EXCEPT ![op] = answer.store]
              /\ visit' = visit \union {op}
              /\ UNCHANGED <<set, mayuses, maystore_set>>
         ELSE /\ set' = set \ {op}
              /\ UNCHANGED <<link, visit, mayuses, maystore_set>>
  /\ type' = [type EXCEPT ![op] = Top]
  /\ UNCHANGED <<phase, prog, uncalculated, runs, runvars>>

\* A load that is not known asks for its store, is computed again when there is one, and
\* waits when that depends on an address.
QueryLoad ==
  /\ phase = "propagate" /\ set # {}
  /\ is_top(compute(op)) /\ kind(op) = "load" /\ op \notin visit
  /\ \E answer \in store_query(op) :
         IF answer.store # NONE
         THEN /\ link' = [link EXCEPT ![op] = answer.store]
              /\ visit' = visit \union {op}
              /\ UNCHANGED <<set, mayuses, maystore_set>>
         ELSE /\ set' = set \ {op}
              /\ IF answer.maystore # NONE
                 THEN /\ mayuses' = [mayuses EXCEPT ![answer.maystore] = @ \union {op}]
                      /\ maystore_set' = maystore_set \union {answer.maystore}
                 ELSE UNCHANGED <<mayuses, maystore_set>>
              /\ UNCHANGED <<link, visit>>
  /\ type' = [type EXCEPT ![op] = Top]
  /\ UNCHANGED <<phase, prog, uncalculated, runs, runvars>>

\* Nothing is known of the op yet.
LeaveTop ==
  /\ phase = "propagate" /\ set # {}
  /\ is_top(compute(op)) /\ ~(kind(op) = "load" /\ op \notin visit)
  /\ Compute(op)
  /\ set' = (set \ {op}) \union Waiting(op)
  /\ UNCHANGED <<phase, prog, link, visit, maystore_set, uncalculated, runs, runvars>>

\* The stores whose address stays unknown; their waiting loads are dropped here already, so
\* that the store nearest to the entry is marked and no load asks again.
OnTheWay(b) == b = entry \/ \A c \in Above(b) : Len(Preds(c)) <= 1

Depth(n) == Cardinality(Above(parent(n)))

EndPropagation ==
  /\ phase = "propagate" /\ set = {}
  /\ LET tops  == {n \in maystore_set : is_top(type[address(n)])}
         first == {n \in tops : \A m \in tops : Depth(n) <= Depth(m)}
     IN  \/ UNCHANGED uncalculated  \* flags.enable_topstore_mark is not set yet
         \/ \E n \in first :
              /\ OnTheWay(parent(n))
              /\ uncalculated' = uncalculated \union {n}
  /\ mayuses' = [n \in Op |-> IF n \in maystore_set THEN {} ELSE mayuses[n]]
  /\ maystore_set' = {}
  /\ phase' = "propagated"
  /\ UNCHANGED <<prog, type, link, set, visit, runs, runvars>>

\* heritage has come to it again: what is known stays known.
Again ==
  /\ phase = "propagated" /\ runs < MaxRuns
  /\ phase' = "propagate" /\ runs' = runs + 1
  /\ set' = Op \ Input /\ visit' = {}
  /\ UNCHANGED <<prog, type, link, mayuses, maystore_set, uncalculated, runvars>>

(***************************************************************************)
(* The function is executed                                                *)
(***************************************************************************)
Values == {Const(v) : v \in 0 .. Width - 1} \union {Sp(v) : v \in 0 .. Width - 1}
Word(t) == <<t[1], t[2] % Width>>

After(b, n) ==
  LET rest == {m \in Op \ Input : parent(m) = b /\ m > n /\ kind(m) # "phi"}
  IN  IF rest = {} THEN NONE ELSE Min(rest)

Start ==
  /\ phase = "propagated"
  /\ phase' = "run"
  /\ \E in \in [Input -> Unknown] :
       env' = [n \in Op |-> IF n \notin Input THEN Top ELSE IF kind(n) = "sp" THEN Sp(0) ELSE in[n]]
  /\ block' = entry /\ at' = After(entry, 0)
  /\ UNCHANGED <<cpvars, mem>>

\* What an op may leave in its varnode; what nothing is known of may be anything.
Results(n) ==
  LET a == env[get_in(n, 1)]
      b == env[get_in(n, 2)]
  IN  CASE kind(n) = "const" -> {Word(Const(prog.ops[n].v))}
        [] kind(n) = "copy"  -> {a}
        [] kind(n) = "add"   -> IF is_constant(a) THEN {Word(<<b[1], a[2] + b[2]>>)}
                                ELSE IF is_constant(b) THEN {Word(<<a[1], a[2] + b[2]>>)} ELSE Unknown
        [] kind(n) = "sub"   -> IF a[1] = b[1] THEN {Word(Const(a[2] - b[2]))}
                                ELSE IF is_constant(b) THEN {Word(<<a[1], a[2] - b[2]>>)} ELSE Unknown
        [] kind(n) = "equal" -> {Const(IF a = b THEN 1 ELSE 0)}
        [] kind(n) = "ram"   -> IF Const(prog.ops[n].v) \in DOMAIN mem THEN {mem[Const(prog.ops[n].v)]}
                                ELSE Unknown
        [] kind(n) = "load"  -> IF a \in DOMAIN mem THEN {mem[a]} ELSE Unknown
        [] kind(n) = "store" -> {b}
        [] kind(n) = "call"  -> {Top}

Written(n) ==
  CASE kind(n) = "store" -> [c \in DOMAIN mem \union {env[address(n)]} |->
                               IF c = env[address(n)] THEN env[get_in(n, 2)] ELSE mem[c]]
    [] kind(n) = "call"  -> [c \in {d \in DOMAIN mem : d[2] \in SafeZone \/ d \in ReadOnly} |-> mem[c]]
    [] OTHER -> mem

\* A store to a word that cannot be written ends the program.
Execute ==
  /\ phase = "run" /\ at # NONE
  /\ kind(at) = "store" => env[address(at)] \notin ReadOnly
  /\ \E v \in Results(at) : env' = [env EXCEPT ![at] = v]
  /\ mem' = Written(at)
  /\ at' = After(block, at)
  /\ UNCHANGED <<phase, cpvars, block>>

\* The conditions are left open: any edge may be taken.
Leave ==
  /\ phase = "run" /\ at = NONE
  /\ \E b \in succs[block] :
       /\ \E i \in {k \in DOMAIN Preds(b) : Preds(b)[k] = block} :
            env' = [n \in Op |-> IF kind(n) = "phi" /\ parent(n) = b THEN env[get_in(n, i)] ELSE env[n]]
       /\ block' = b /\ at' = After(b, 0)
  /\ UNCHANGED <<phase, cpvars, mem>>

Propagation == Propagate \/ QueryLoad \/ LeaveTop \/ EndPropagation
Next == Propagation \/ Again \/ Start \/ Execute \/ Leave

Spec == Init /\ [][Next]_vars /\ WF_vars(Propagation)

(***************************************************************************)
(* Properties                                                              *)
(***************************************************************************)
Known == {n \in Op : is_gen_constant(type[n])}

\* A constant and a distance from sp with the same number come together in a phi.
MixedPhi ==
  \E n \in Op : kind(n) = "phi" /\ \E a, b \in Constants(n) : type[a] # type[b] /\ type[a][2] = type[b][2]

\* One number as the code has it and sign extended, which compare as different.
TwoWritings == \E a, b \in Known : type[a] # type[b] /\ Word(type[a]) = Word(type[b])

\* Two addresses are taken for the same without being known; stores between are passed over.
BySum == \E l \in Op : link[l] # NONE /\ is_top(type[address(l)])

\* A constant is the value that the varnode has in every execution: on whichever way, with
\* whatever inputs, through calls, and through the memory when a load is tied to a store.
\* (Named exceptions above, and stores marked as uncalculated, which are passed over.)
ConstantsSound ==
  phase = "run" =>
    \/ \A n \in Known : env[n] # Top => env[n] = Word(type[n])
    \/ MixedPhi \/ TwoWritings \/ BySum \/ uncalculated # {}

\* A linked load is not followed up: what it turns out to be is not handed on.
Lost(n) == \E m \in inrefs(n) : link[m] # NONE

\* A load does not wait for a store whose address starts from the same varnode, although it
\* cannot be tied to it either as long as the rest of the sum is unknown.
GivenUp(l) ==
  kind(address(l)) # "const" /\ \E s \in Op : kind(s) = "store" /\ SameBase(s, l)

\* When the worklist is empty nothing is left to find: no op has inputs that give a constant
\* and an unknown result, and no load is without its store that a query would find.
NothingLeftToFind ==
  phase = "propagated" =>
    /\ \A n \in Op \ Input : compute(n) # type[n] => Lost(n)
    /\ \A l \in {k \in Op : kind(k) = "load" /\ is_top(type[k])} :
         \/ \A answer \in store_query(l) : answer.store \in {NONE, link[l]}
         \/ GivenUp(l) \/ uncalculated # {}

\* The worklist becomes empty, however phis, loads and stores depend on each other.
Terminates == []<>(phase # "propagate")
==============================================================================
