-------------------------- MODULE FlowFollow_proofs --------------------------
(***************************************************************************)
(* generate_ops decodes no address twice, whatever the bytes say and in    *)
(* whatever order its runs meet each other; and the blocks made of its ops *)
(* follow the code.                                                        *)
(***************************************************************************)
EXTENDS FlowFollow, GraphLemmas

\* What can come to stand in visited.
Decodings(a) == {Resolved(ins, F) : ins \in Instructions(a), F \in SUBSET Nat}

\* A branch that is a call is a jump all the same, and goes nowhere else.
LEMMA ResolvedIs ==
  ASSUME NEW a \in Addr, NEW ins \in Instructions(a), NEW F
  PROVE  /\ Resolved(ins, F).size = ins.size /\ Resolved(ins, F).size \in {1, 2}
         /\ Resolved(ins, F).calls \subseteq Nat
         /\ Resolved(ins, F).ops \in Seq(PcodeOp) /\ Len(Resolved(ins, F).ops) = Len(ins.ops)
         /\ DOMAIN Resolved(ins, F).ops = 1 .. Len(ins.ops)
         /\ DOMAIN ins.ops = 1 .. Len(ins.ops) /\ Len(ins.ops) \in Nat
         /\ \A k \in 1 .. Len(ins.ops) :
              /\ Resolved(ins, F).ops[k].rel = ins.ops[k].rel
              /\ Resolved(ins, F).ops[k].to = ins.ops[k].to
              /\ \/ Resolved(ins, F).ops[k].opcode = ins.ops[k].opcode
                 \/ /\ ins.ops[k].opcode = "BRANCH" /\ ~ins.ops[k].rel
                    /\ Resolved(ins, F).ops[k].opcode = "BRANCH_CALL"
<1>. DEFINE res == Resolved(ins, F)
            op(k) == IF ins.ops[k].opcode = "BRANCH" /\ ~ins.ops[k].rel /\ ins.ops[k].to \in F
                     THEN [ins.ops[k] EXCEPT !.opcode = "BRANCH_CALL"] ELSE ins.ops[k]
            ops == [k \in DOMAIN ins.ops |-> op(k)]
<1>1. ins \in [size : {1, 2}, ops : Seq(PcodeOp), calls : SUBSET Nat]
  BY InstructionsAssumption
<1>2. ins.ops \in Seq(PcodeOp) /\ Len(ins.ops) \in Nat /\ DOMAIN ins.ops = 1 .. Len(ins.ops)
      /\ \A k \in 1 .. Len(ins.ops) : ins.ops[k] \in PcodeOp
  BY <1>1
<1>3. res = [ins EXCEPT !.ops = ops]
  BY DEF Resolved
<1>4. res.size = ins.size /\ res.calls = ins.calls /\ res.ops = ops
  <2>. HIDE DEF ops, res
  <2>. QED BY <1>1, <1>3
<1>5. ASSUME NEW k \in 1 .. Len(ins.ops)
      PROVE  /\ op(k) \in PcodeOp
             /\ op(k).rel = ins.ops[k].rel /\ op(k).to = ins.ops[k].to
             /\ \/ op(k).opcode = ins.ops[k].opcode
                \/ ins.ops[k].opcode = "BRANCH" /\ ~ins.ops[k].rel /\ op(k).opcode = "BRANCH_CALL"
  <2>1. ins.ops[k] \in PcodeOp
    BY <1>2
  <2>. QED BY <2>1 DEF PcodeOp, Opcodes
<1>. HIDE DEF op
<1>6. ops \in [1 .. Len(ins.ops) -> PcodeOp] /\ \A k \in 1 .. Len(ins.ops) : ops[k] = op(k)
  BY <1>2, <1>5
<1>7. ops \in Seq(PcodeOp) /\ Len(ops) = Len(ins.ops) /\ DOMAIN ops = 1 .. Len(ins.ops)
  <2>. HIDE DEF ops
  <2>. QED BY <1>2, <1>6
<1>. HIDE DEF ops, res
<1>8. /\ res.size = ins.size /\ res.size \in {1, 2} /\ res.calls \subseteq Nat
      /\ res.ops \in Seq(PcodeOp) /\ Len(res.ops) = Len(ins.ops)
      /\ DOMAIN res.ops = 1 .. Len(ins.ops)
  BY <1>1, <1>4, <1>7
<1>9. \A k \in 1 .. Len(ins.ops) :
        /\ res.ops[k].rel = ins.ops[k].rel /\ res.ops[k].to = ins.ops[k].to
        /\ \/ res.ops[k].opcode = ins.ops[k].opcode
           \/ ins.ops[k].opcode = "BRANCH" /\ ~ins.ops[k].rel /\ res.ops[k].opcode = "BRANCH_CALL"
  BY <1>4, <1>5, <1>6
<1>. QED BY <1>2, <1>8, <1>9 DEF res

LEMMA Sizes ==
  /\ Cardinality(Addr) \in Nat /\ eaddr \in Nat /\ Addr \subseteq Nat
  /\ \A a \in Addr : a < eaddr
  /\ \A a \in Addr : \A ins \in Decodings(a) :
       ins.size \in {1, 2} /\ ins.size \in Nat \ {0} /\ a + ins.size < eaddr
       /\ ins.ops \in Seq(PcodeOp)
<1>1. Cardinality(Addr) \in Nat
  BY AddrAssumption, FS_CardinalityType
<1>2. \A a \in Addr : \A ins \in Decodings(a) : ins.size \in {1, 2} /\ ins.ops \in Seq(PcodeOp)
  BY ResolvedIs DEF Decodings
<1>. QED BY <1>1, <1>2, AddrAssumption DEF eaddr

\* The ops of the instructions in vis.
OpsOf(vis) == UNION {{<<a, k>> : k \in DOMAIN vis[a].ops} : a \in DOMAIN vis}

\* What target finds at a, when f says what it finds further on.
First(vis, f, a) == IF a \notin DOMAIN vis THEN NoOp
                    ELSE IF vis[a].ops # << >> THEN <<a, 1>> ELSE f[end(vis, a)]

Forward(vis) ==
  \A a \in DOMAIN vis : /\ a \in Nat /\ a < eaddr
                        /\ end(vis, a) \in Nat /\ a < end(vis, a)

LEMMA ForwardAlways ==
  ASSUME NEW vis, \A a \in DOMAIN vis : a \in Addr /\ vis[a].size \in Nat \ {0}
  PROVE  Forward(vis)
<1>. SUFFICES ASSUME NEW a \in DOMAIN vis
              PROVE  /\ a \in Nat /\ a < eaddr
                     /\ a + vis[a].size \in Nat /\ a < a + vis[a].size
  BY DEF Forward, end
<1>1. a \in Nat /\ a < eaddr /\ vis[a].size \in Nat \ {0}
  BY Sizes
<1>. QED BY <1>1

\* The search is defined from the last address down.
LEMMA SearchExists ==
  ASSUME NEW vis, Forward(vis)
  PROVE  \E f : f = [a \in Nat |-> First(vis, f, a)]
<1>. DEFINE Right(n, f) == /\ f = [a \in Nat |-> f[a]]
                           /\ \A a \in Nat : eaddr <= a + n => f[a] = First(vis, f, a)
            Short == {n \in Nat : ~ \E f : Right(n, f)}
<1>0. eaddr \in Nat
  BY Sizes
<1>1. Short = {}
  <2>. SUFFICES ASSUME Short # {} PROVE FALSE
    OBVIOUS
  <2>1. PICK n \in Short : \A m \in Short : n <= m
    <3>1. Short \subseteq Nat
      OBVIOUS
    <3>. HIDE DEF Short
    <3>. QED BY <3>1, Smallest
  <2>2. n \in Nat /\ ~ \E f : Right(n, f)
    BY <2>1
  <2>3. n # 0
    <3>. DEFINE f == [a \in Nat |-> NoOp]
    <3>1. \A a \in Nat : eaddr <= a + 0 => a \notin DOMAIN vis
      BY <1>0 DEF Forward
    <3>2. \A a \in Nat : f[a] = NoOp
      OBVIOUS
    <3>3. Right(0, f)
      <4>. HIDE DEF f
      <4>1. f = [a \in Nat |-> f[a]]
        BY DEF f
      <4>. QED BY <3>1, <3>2, <4>1 DEF First
    <3>. QED BY <2>2, <3>3
  <2>4. n - 1 \in Nat /\ n - 1 \notin Short
    <3>1. n - 1 \in Nat /\ ~(n <= n - 1)
      BY <2>2, <2>3
    <3>. HIDE DEF Short
    <3>. QED BY <2>1, <3>1
  <2>5. PICK f : Right(n - 1, f)
    BY <2>4
  <2>. DEFINE g == [a \in Nat |-> IF a + n = eaddr THEN First(vis, f, a) ELSE f[a]]
  <2>6. ASSUME NEW a \in Nat, eaddr <= a + n PROVE g[a] = First(vis, g, a)
    <3>1. g[a] = First(vis, f, a)
      <4>1. CASE a + n = eaddr
        BY <4>1
      <4>2. CASE a + n # eaddr
        <5>1. eaddr <= a + (n - 1)
          BY <1>0, <2>2, <2>6, <4>2
        <5>. QED BY <2>5, <4>2, <5>1
      <4>. QED BY <4>1, <4>2
    <3>2. a \in DOMAIN vis => g[end(vis, a)] = f[end(vis, a)]
      <4>. SUFFICES ASSUME a \in DOMAIN vis PROVE g[end(vis, a)] = f[end(vis, a)]
        OBVIOUS
      <4>1. end(vis, a) \in Nat /\ end(vis, a) + n # eaddr
        BY <1>0, <2>2, <2>6 DEF Forward
      <4>. QED BY <4>1
    <3>. HIDE DEF g
    <3>. QED BY <3>1, <3>2 DEF First
  <2>7. g = [a \in Nat |-> g[a]]
    OBVIOUS
  <2>8. Right(n, g)
    <3>. HIDE DEF g
    <3>. QED BY <2>6, <2>7
  <2>. QED BY <2>2, <2>8
<1>2. PICK f : Right(eaddr, f)
  BY <1>0, <1>1
<1>3. \A a \in Nat : f[a] = First(vis, f, a)
  BY <1>0, <1>2
<1>4. f = [a \in Nat |-> f[a]]
  BY <1>2
<1>. QED BY <1>3, <1>4

LEMMA TargetFound ==
  ASSUME NEW vis, Forward(vis), \A a \in DOMAIN vis : \E S : vis[a].ops \in Seq(S),
         NEW addr \in Nat
  PROVE  target(vis, addr) = NoOp \/ target(vis, addr) \in OpsOf(vis)
<1>. DEFINE f == CHOOSE g : g = [a \in Nat |-> First(vis, g, a)]
            Lost == {a \in DOMAIN vis : f[a] \notin OpsOf(vis) \union {NoOp}}
            Left == {eaddr - a : a \in Lost}
<1>1. f = [a \in Nat |-> First(vis, f, a)]
  BY SearchExists
<1>2. target(vis, addr) = f[addr]
  BY DEF target, First
<1>3. \A a \in Nat : f[a] = First(vis, f, a)
  <2>. HIDE DEF f
  <2>. QED BY <1>1
<1>. HIDE DEF f
<1>4. \A a \in Nat : f[a] = NoOp \/ f[a] \in OpsOf(vis) \/ a \in Lost
  BY <1>3 DEF First
<1>5. ASSUME NEW a \in Lost PROVE end(vis, a) \in Lost
  <2>1. a \in DOMAIN vis /\ a \in Nat /\ end(vis, a) \in Nat
    BY DEF Forward
  <2>2. vis[a].ops = << >>
    <3>. SUFFICES ASSUME vis[a].ops # << >> PROVE FALSE
      OBVIOUS
    <3>1. PICK S : vis[a].ops \in Seq(S)
      BY <2>1
    <3>2. 1 \in DOMAIN vis[a].ops
      BY <3>1
    <3>3. f[a] = <<a, 1>>
      BY <1>3, <2>1 DEF First
    <3>4. <<a, 1>> \in OpsOf(vis)
      BY <2>1, <3>2 DEF OpsOf
    <3>. QED BY <3>3, <3>4
  <2>3. f[a] = f[end(vis, a)]
    BY <1>3, <2>1, <2>2 DEF First
  <2>. QED BY <1>4, <2>1, <2>3
<1>6. Lost = {}
  <2>. SUFFICES ASSUME Lost # {} PROVE FALSE
    OBVIOUS
  <2>0. eaddr \in Nat /\ \A a \in Lost : a \in Nat /\ a < eaddr /\ a < end(vis, a)
    BY Sizes DEF Forward
  <2>. HIDE DEF Lost
  <2>1. Left \subseteq Nat /\ Left # {}
    BY <2>0
  <2>2. \E d \in Left : \A c \in Left : d <= c
    <3>. HIDE DEF Left
    <3>. QED BY <2>1, Smallest
  <2>3. PICK a \in Lost : \A c \in Lost : eaddr - a <= eaddr - c
    BY <2>2
  <2>4. end(vis, a) \in Lost
    BY <1>5
  <2>. QED BY <2>0, <2>3, <2>4
<1>. QED BY <1>2, <1>4, <1>6

(***************************************************************************)
(* Destinations: a finite set of numbers has an n-th one                   *)
(***************************************************************************)
LEMMA NthExists ==
  ASSUME NEW N \in Nat, NEW S \in SUBSET (1 .. N), NEW n \in 1 .. Cardinality(S)
  PROVE  \E k \in S : Cardinality({j \in S : j <= k}) = n
<1>. DEFINE Upto(k) == {j \in S : j <= k}
            Far == {k \in Nat : n <= Cardinality(Upto(k))}
<1>0. \A j \in S : j \in Nat /\ 1 <= j /\ j <= N
  OBVIOUS
<1>1. IsFiniteSet(S) /\ Cardinality(S) \in Nat
  <2>1. IsFiniteSet(1 .. N)
    BY FS_Interval
  <2>. QED BY <2>1, FS_Subset, FS_CardinalityType
<1>2. \A k \in Nat : IsFiniteSet(Upto(k)) /\ Cardinality(Upto(k)) \in Nat
  <2>1. \A k \in Nat : Upto(k) \in SUBSET S
    OBVIOUS
  <2>. HIDE DEF Upto
  <2>. QED BY <1>1, <2>1, FS_Subset, FS_CardinalityType
<1>3. N \in Far
  <2>1. Upto(N) = S
    BY <1>0
  <2>. QED BY <1>1, <2>1
<1>4. PICK k \in Far : \A m \in Far : k <= m
  <2>1. Far \subseteq Nat /\ Far # {}
    BY <1>3
  <2>. HIDE DEF Far
  <2>. QED BY <2>1, Smallest
<1>5. k \in Nat /\ n <= Cardinality(Upto(k))
  BY <1>4
<1>6. k # 0
  <2>1. Upto(0) = {}
    <3>1. \A j \in S : ~(j <= 0)
      <4>. HIDE DEF Far
      <4>. QED BY <1>0
    <3>. QED BY <3>1
  <2>2. Cardinality(Upto(0)) = 0
    BY <2>1, FS_EmptySet
  <2>. HIDE DEF Upto
  <2>. QED BY <1>5, <2>2
<1>7. k - 1 \in Nat /\ Cardinality(Upto(k - 1)) < n
  <2>1. k - 1 \in Nat /\ k - 1 \notin Far
    <3>1. k - 1 \in Nat /\ ~(k <= k - 1)
      BY <1>5, <1>6
    <3>. HIDE DEF Far
    <3>. QED BY <1>4, <3>1
  <2>2. Cardinality(Upto(k - 1)) \in Nat
    BY <1>2, <2>1
  <2>. HIDE DEF Upto
  <2>. QED BY <2>1, <2>2
<1>8. Upto(k) = Upto(k - 1) \union (S \intersect {k})
  <2>1. \A j \in S : j <= k <=> j <= k - 1 \/ j = k
    <3>1. k \in Nat
      BY <1>5
    <3>. HIDE DEF Far, Upto
    <3>. QED BY <1>0, <3>1
  <2>. QED BY <2>1
<1>9. k \in S
  <2>. SUFFICES ASSUME k \notin S PROVE FALSE
    OBVIOUS
  <2>1. Upto(k) = Upto(k - 1)
    BY <1>8
  <2>2. Cardinality(Upto(k)) \in Nat
    BY <1>2, <1>5
  <2>. HIDE DEF Upto
  <2>. QED BY <1>5, <1>7, <2>1, <2>2
<1>10. Cardinality(Upto(k)) = Cardinality(Upto(k - 1)) + 1
  <2>1. k \notin Upto(k - 1) /\ Upto(k) = Upto(k - 1) \union {k}
    BY <1>5, <1>8, <1>9
  <2>. HIDE DEF Upto
  <2>. QED BY <1>2, <1>7, <2>1, FS_AddElement
<1>11. Cardinality(Upto(k)) = n
  <2>1. Cardinality(Upto(k - 1)) \in Nat
    BY <1>2, <1>7
  <2>. HIDE DEF Upto
  <2>. QED BY <1>5, <1>7, <1>10, <2>1
<1>. QED BY <1>9, <1>11

LEMMA DestinationsType ==
  ASSUME NEW ops \in Seq(PcodeOp), NEW S \in SUBSET DOMAIN ops
  PROVE  Destinations(ops, S) \in Seq(Nat)
<1>. DEFINE nth(n) == CHOOSE k \in S : Cardinality({j \in S : j <= k}) = n
<1>1. Len(ops) \in Nat /\ S \in SUBSET (1 .. Len(ops))
  OBVIOUS
<1>2. Cardinality(S) \in Nat
  <2>1. IsFiniteSet(1 .. Len(ops))
    BY <1>1, FS_Interval
  <2>. QED BY <1>1, <2>1, FS_Subset, FS_CardinalityType
<1>3. ASSUME NEW n \in 1 .. Cardinality(S) PROVE nth(n) \in S
  <2>1. \E k \in S : Cardinality({j \in S : j <= k}) = n
    BY <1>1, NthExists
  <2>. QED BY <2>1
<1>4. \A k \in S : ops[k].to \in Nat
  <2>1. \A k \in 1 .. Len(ops) : ops[k] \in PcodeOp
    OBVIOUS
  <2>. QED BY <1>1, <2>1 DEF PcodeOp
<1>5. Destinations(ops, S) = [n \in 1 .. Cardinality(S) |-> ops[nth(n)].to]
  BY DEF Destinations
<1>. HIDE DEF nth
<1>6. Destinations(ops, S) \in [1 .. Cardinality(S) -> Nat]
  BY <1>3, <1>4, <1>5
<1>. QED BY <1>2, <1>6

(***************************************************************************)
(* The invariant                                                           *)
(***************************************************************************)
Types ==
  /\ DOMAIN visited \subseteq Addr
  /\ \A a \in DOMAIN visited : visited[a] \in Decodings(a)
  /\ addrlist \in Seq(Nat)
  /\ functions \subseteq Nat /\ 0 \in functions /\ inst_count \in 0 .. inst_max
  /\ bound \in 0 .. eaddr /\ startbasic \in BOOLEAN
  /\ phase \in {"generate_ops", "fallthru", "generate_blocks", "done", "thrown"}

\* The ops that were made are those of the instructions that were decoded.
Ops ==
  /\ deadlist \in Seq(Nat \X Nat) /\ IsInjective(deadlist)
  /\ Range(deadlist) = OpsOf(visited)
  /\ exit \subseteq OpsOf(visited)
  /\ phase # "thrown" => startblock \subseteq OpsOf(visited)

\* A run is at an address that was not decoded, and nothing that was lies in front of its
\* bound.
Ahead ==
  phase = "fallthru" =>
    /\ addrlist # << >> /\ Last(addrlist) \notin DOMAIN visited
    /\ \A a \in DOMAIN visited : Last(addrlist) < a => bound <= a

IInv == Types /\ Ops /\ Ahead

LEMMA ProcessIs ==
  ASSUME IInv, Process
  PROVE  /\ phase = "fallthru" /\ Last(addrlist) \in Addr \ unknown
         /\ \E ins \in Decodings(Last(addrlist)) : ProcessInstruction(ins)
         /\ functions' \subseteq Nat /\ 0 \in functions' /\ inst_count' \in 0 .. inst_max
<1>1. /\ phase = "fallthru" /\ inst_count < inst_max /\ Last(addrlist) \in Addr \ unknown
      /\ functions \subseteq Nat /\ 0 \in functions /\ inst_count \in 0 .. inst_max
  BY DEF Process, IInv, Types
<1>2. PICK raw \in Instructions(Last(addrlist)) : ProcessInstruction(Resolved(raw, functions))
  BY DEF Process
<1>. DEFINE ins == Resolved(raw, functions)
<1>3. ins \in Decodings(Last(addrlist))
  BY <1>1 DEF Decodings
<1>4. ins.calls \subseteq Nat
  BY <1>1, ResolvedIs
<1>. HIDE DEF ins
<1>5. functions' = functions \union ins.calls /\ inst_count' = inst_count + 1
  BY <1>2 DEF ProcessInstruction, ins
<1>6. inst_count' \in 0 .. inst_max
  BY <1>1, <1>5, FunctionsAssumption
<1>. QED BY <1>1, <1>2, <1>3, <1>4, <1>5, <1>6 DEF ins

LEMMA BoundType ==
  ASSUME IInv, NEW addr \in Nat
  PROVE  /\ NextVisited(addr) \in 0 .. eaddr
         /\ \A a \in DOMAIN visited : addr < a => NextVisited(addr) <= a
<1>1. eaddr \in Nat /\ Behind(addr) \subseteq Nat /\ \A a \in Behind(addr) : a < eaddr
  BY Sizes DEF Behind, IInv, Types
<1>2. CASE Behind(addr) = {}
  BY <1>1, <1>2 DEF NextVisited, Behind
<1>3. CASE Behind(addr) # {}
  <2>1. \E m \in Behind(addr) : \A a \in Behind(addr) : m <= a
    BY <1>1, <1>3, Smallest
  <2>2. /\ Min(Behind(addr)) \in Behind(addr)
        /\ \A a \in Behind(addr) : Min(Behind(addr)) <= a
    BY <2>1 DEF Min
  <2>3. NextVisited(addr) = Min(Behind(addr))
    BY <1>3 DEF NextVisited
  <2>4. \A a \in DOMAIN visited : addr < a => a \in Behind(addr)
    BY DEF Behind
  <2>. QED BY <1>1, <2>2, <2>3, <2>4
<1>. QED BY <1>2, <1>3

LEMMA InitIInv == Init => IInv
<1>. SUFFICES ASSUME Init PROVE IInv
  OBVIOUS
<1>1. DOMAIN visited = {} /\ deadlist = << >> /\ exit = {} /\ startblock = {}
  BY DEF Init
<1>2. Types
  <2>1. inst_count \in 0 .. inst_max /\ functions \subseteq Nat /\ 0 \in functions
    BY FunctionsAssumption DEF Init
  <2>. QED BY <2>1, Sizes DEF Init, Types
<1>3. OpsOf(visited) = {} /\ Range(deadlist) = {} /\ IsInjective(deadlist)
  BY <1>1 DEF OpsOf, Range, IsInjective
<1>4. Ops
  BY <1>1, <1>3 DEF Ops
<1>. QED BY <1>2, <1>4 DEF IInv, Ahead, Init

LEMMA StartRunKeeps == IInv /\ StartRun => IInv'
<1>. SUFFICES ASSUME IInv, StartRun PROVE IInv'
  OBVIOUS
<1>. DEFINE addr == Last(addrlist)
<1>0. /\ addrlist \in Seq(Nat) /\ addrlist # << >> /\ phase = "generate_ops"
      /\ UNCHANGED <<visited, deadlist, exit, functions, inst_count>>
  BY DEF StartRun, IInv, Types
<1>1. addr \in Nat /\ Front(addrlist) \in Seq(Nat)
  BY <1>0 DEF Last, Front
<1>2. CASE addr \in DOMAIN visited
  <2>1. /\ addrlist' = Front(addrlist) /\ UNCHANGED <<bound, startbasic>>
        /\ startblock' = startblock \union {target(visited, addr)}
        /\ phase' = IF target(visited, addr) = NoOp THEN "thrown" ELSE phase
    BY <1>2 DEF StartRun
  <2>2. target(visited, addr) = NoOp \/ target(visited, addr) \in OpsOf(visited)
    <3>1. \A a \in DOMAIN visited : \E S : visited[a].ops \in Seq(S)
      BY Sizes DEF IInv, Types
    <3>2. Forward(visited)
      <4>1. \A a \in DOMAIN visited : a \in Addr /\ visited[a].size \in Nat \ {0}
        BY Sizes DEF IInv, Types
      <4>. QED BY <4>1, ForwardAlways
    <3>. QED BY <1>1, <3>1, <3>2, TargetFound
  <2>3. Types'
    BY <1>0, <1>1, <2>1 DEF IInv, Types
  <2>4. Ops'
    BY <1>0, <2>1, <2>2 DEF IInv, Ops
  <2>. QED BY <1>0, <2>1, <2>3, <2>4 DEF IInv, Ahead
<1>3. CASE addr \notin DOMAIN visited
  <2>1. /\ phase' \in {"thrown", "fallthru"} /\ bound' = NextVisited(addr) /\ startbasic' = TRUE
        /\ UNCHANGED <<addrlist, startblock>>
    BY <1>3 DEF StartRun
  <2>2. /\ NextVisited(addr) \in 0 .. eaddr
        /\ \A a \in DOMAIN visited : addr < a => NextVisited(addr) <= a
    BY <1>1, BoundType
  <2>. QED BY <1>0, <1>3, <2>1, <2>2 DEF IInv, Types, Ops, Ahead
<1>. QED BY <1>2, <1>3

LEMMA ProcessKeeps == IInv /\ Process => IInv'
<1>. SUFFICES ASSUME IInv, Process, phase = "fallthru", NEW ins \in Decodings(Last(addrlist)),
                     Last(addrlist) \in Addr, ProcessInstruction(ins)
              PROVE  IInv'
  BY ProcessIs
<1>. DEFINE cur    == Last(addrlist)
            next   == cur + ins.size
            vis    == [a \in DOMAIN visited \union {cur} |-> IF a = cur THEN ins ELSE visited[a]]
            old    == {k \in JumpsAway(ins.ops) : ins.ops[k].to \in DOMAIN vis}
            known  == {target(vis, ins.ops[k].to) : k \in old}
            stack  == Front(addrlist) \o Destinations(ins.ops, JumpsAway(ins.ops) \ old)
            falls  == FallsThrough(ins.ops)
            again  == falls /\ next > bound /\ next \in DOMAIN visited
            meets  == falls /\ next = bound /\ StartsBasicAfter(ins.ops)
            starts == known \union (IF again \/ meets THEN {target(vis, next)} ELSE {})
            on     == falls /\ next # bound /\ ~again
            new    == [k \in DOMAIN ins.ops |-> <<cur, k>>]
<1>1. /\ visited' = vis
      /\ deadlist' = deadlist \o new
      /\ startblock' = startblock \union BlockStarts(cur, ins.ops) \union starts
      /\ exit' = exit \union {<<cur, k>> : k \in ExitsOf(ins.ops)}
      /\ addrlist' = IF on THEN Append(stack, next) ELSE stack
      /\ bound' = IF on /\ next > bound THEN NextVisited(next) ELSE bound
      /\ startbasic' = StartsBasicAfter(ins.ops)
      /\ phase' = IF Refused(ins.ops) \/ NoOp \in starts \/ (on /\ next > bound /\ InTheMiddle(next)) THEN "thrown"
                  ELSE IF on THEN phase ELSE "generate_ops"
  BY DEF ProcessInstruction
<1>2. /\ cur \in Addr /\ cur \in Nat /\ cur \notin DOMAIN visited
      /\ addrlist \in Seq(Nat) /\ addrlist # << >>
      /\ \A a \in DOMAIN visited : cur < a => bound <= a
  BY Sizes DEF IInv, Types, Ahead
<1>3. ins.size \in Nat \ {0} /\ ins.ops \in Seq(PcodeOp) /\ next \in Nat /\ cur < next
  BY <1>2, Sizes
<1>4. /\ DOMAIN vis = DOMAIN visited \union {cur} /\ vis[cur] = ins
      /\ \A a \in DOMAIN visited : vis[a] = visited[a]
  <2>1. cur \notin DOMAIN visited
    BY <1>2
  <2>2. DOMAIN vis = DOMAIN visited \union {cur}
    OBVIOUS
  <2>3. \A a \in DOMAIN vis : vis[a] = IF a = cur THEN ins ELSE visited[a]
    OBVIOUS
  <2>. HIDE DEF vis, cur
  <2>. QED BY <2>1, <2>2, <2>3
<1>5. OpsOf(vis) = OpsOf(visited) \union {<<cur, k>> : k \in DOMAIN ins.ops}
  <2>. HIDE DEF vis, cur
  <2>1. \A o : o \in OpsOf(vis) <=>
               \E a \in DOMAIN vis : \E k \in DOMAIN vis[a].ops : o = <<a, k>>
    BY DEF OpsOf
  <2>2. \A o : o \in OpsOf(visited) <=>
               \E a \in DOMAIN visited : \E k \in DOMAIN visited[a].ops : o = <<a, k>>
    BY DEF OpsOf
  <2>. QED BY <1>4, <2>1, <2>2
<1>6. stack \in Seq(Nat)
  <2>1. Front(addrlist) \in Seq(Nat)
    BY <1>2 DEF Front
  <2>2. JumpsAway(ins.ops) \ old \in SUBSET DOMAIN ins.ops
    BY DEF JumpsAway
  <2>3. Destinations(ins.ops, JumpsAway(ins.ops) \ old) \in Seq(Nat)
    BY <1>3, <2>2, DestinationsType
  <2>. QED BY <2>1, <2>3
<1>7. starts \subseteq OpsOf(vis) \union {NoOp}
  <2>1. \A a \in DOMAIN vis : \E S : vis[a].ops \in Seq(S)
    <3>1. \A a \in DOMAIN visited : visited[a].ops \in Seq(PcodeOp)
      BY Sizes DEF IInv, Types
    <3>. QED BY <1>3, <1>4, <3>1
  <2>2. Forward(vis)
    <3>1. ASSUME NEW a \in DOMAIN vis PROVE a \in Addr /\ vis[a].size \in Nat \ {0}
      BY <1>2, <1>3, <1>4, Sizes DEF IInv, Types
    <3>. HIDE DEF vis, cur
    <3>. QED BY <3>1, ForwardAlways
  <2>3. \A a \in Nat : target(vis, a) = NoOp \/ target(vis, a) \in OpsOf(vis)
    BY <2>1, <2>2, TargetFound
  <2>4. \A k \in old : ins.ops[k].to \in Nat
    BY <2>2 DEF Forward
  <2>. HIDE DEF vis, old, falls, again, meets
  <2>. QED BY <1>3, <2>3, <2>4
<1>8. BlockStarts(cur, ins.ops) \union {<<cur, k>> : k \in ExitsOf(ins.ops)}
        \subseteq {<<cur, k>> : k \in DOMAIN ins.ops}
  BY DEF BlockStarts, ExitsOf, Walked
<1>. HIDE DEF vis, stack, starts, falls, new
<1>9. Types'
  <2>1. DOMAIN visited' \subseteq Addr /\ \A a \in DOMAIN visited' : visited'[a] \in Decodings(a)
    BY <1>1, <1>2, <1>4 DEF IInv, Types
  <2>2. addrlist' \in Seq(Nat)
    BY <1>1, <1>3, <1>6
  <2>3. bound' \in 0 .. eaddr
    BY <1>1, <1>3, BoundType DEF IInv, Types
  <2>4. startbasic' \in BOOLEAN
    BY <1>1 DEF StartsBasicAfter, IInv, Types
  <2>5. phase' \in {"generate_ops", "fallthru", "generate_blocks", "done", "thrown"}
    BY <1>1
  <2>6. functions' \subseteq Nat /\ 0 \in functions' /\ inst_count' \in 0 .. inst_max
    BY ProcessIs
  <2>. QED BY <2>1, <2>2, <2>3, <2>4, <2>5, <2>6 DEF Types
<1>10. Ops'
  <2>1. /\ new \in Seq(Nat \X Nat) /\ IsInjective(new)
        /\ Range(new) = {<<cur, k>> : k \in DOMAIN ins.ops}
    <3>1. Len(ins.ops) \in Nat /\ DOMAIN ins.ops = 1 .. Len(ins.ops) /\ cur \in Nat
      BY <1>2, <1>3
    <3>2. DOMAIN new = DOMAIN ins.ops /\ \A k \in DOMAIN new : new[k] = <<cur, k>>
      BY DEF new
    <3>3. new \in [1 .. Len(ins.ops) -> Nat \X Nat]
      BY <3>1 DEF new
    <3>. HIDE DEF cur
    <3>4. new \in Seq(Nat \X Nat)
      BY <3>1, <3>3
    <3>5. IsInjective(new)
      BY <3>2 DEF IsInjective
    <3>6. Range(new) = {<<cur, k>> : k \in DOMAIN ins.ops}
      BY <3>2 DEF Range
    <3>. QED BY <3>4, <3>5, <3>6
  <2>2. deadlist \in Seq(Nat \X Nat) /\ IsInjective(deadlist) /\ Range(deadlist) = OpsOf(visited)
    BY DEF IInv, Ops
  <2>3. Range(deadlist) \intersect Range(new) = {}
    BY <1>2, <2>1, <2>2 DEF OpsOf
  <2>4. /\ deadlist' \in Seq(Nat \X Nat) /\ IsInjective(deadlist')
        /\ Range(deadlist') = Range(deadlist) \union Range(new)
    BY <1>1, <2>1, <2>2, <2>3, Joined
  <2>5. Range(deadlist') = OpsOf(visited')
    BY <1>1, <1>5, <2>1, <2>2, <2>4
  <2>6. exit' \subseteq OpsOf(visited')
    BY <1>1, <1>5, <1>8 DEF IInv, Ops
  <2>7. phase' # "thrown" => startblock' \subseteq OpsOf(visited')
    BY <1>1, <1>5, <1>7, <1>8 DEF IInv, Ops
  <2>. QED BY <2>4, <2>5, <2>6, <2>7 DEF Ops
<1>11. Ahead'
  <2>. SUFFICES ASSUME phase' = "fallthru"
                PROVE  /\ addrlist' # << >> /\ Last(addrlist') \notin DOMAIN visited'
                       /\ \A a \in DOMAIN visited' : Last(addrlist') < a => bound' <= a
    BY DEF Ahead
  <2>1. on /\ addrlist' = Append(stack, next)
    BY <1>1
  <2>2. addrlist' # << >> /\ Last(addrlist') = next
    BY <1>3, <1>6, <2>1 DEF Last
  <2>3. \A a \in DOMAIN visited : a \in Nat
    BY Sizes DEF IInv, Types
  <2>4. bound \in Nat
    BY Sizes DEF IInv, Types
  <2>5. CASE next > bound
    <3>1. next \notin DOMAIN visited /\ bound' = NextVisited(next)
      BY <1>1, <2>1, <2>5
    <3>2. \A a \in DOMAIN visited : next < a => NextVisited(next) <= a
      BY <1>3, BoundType
    <3>. QED BY <1>1, <1>2, <1>3, <1>4, <2>2, <3>1, <3>2
  <2>6. CASE next < bound
    <3>1. bound' = bound
      BY <1>1, <1>3, <2>4, <2>6
    <3>2. next \notin DOMAIN visited
      BY <1>2, <1>3, <2>4, <2>6
    <3>3. \A a \in DOMAIN visited : next < a => bound <= a
      BY <1>2, <1>3, <2>3
    <3>. QED BY <1>1, <1>2, <1>3, <1>4, <2>2, <3>1, <3>2, <3>3
  <2>. QED BY <1>3, <2>1, <2>4, <2>5, <2>6
<1>. QED BY <1>9, <1>10, <1>11 DEF IInv

LEMMA NextIInv == IInv /\ [Next]_vars => IInv'
<1>. SUFFICES ASSUME IInv, [Next]_vars PROVE IInv'
  OBVIOUS
<1>1. CASE StartRun
  BY <1>1, StartRunKeeps
<1>2. CASE ProcessUnknown
  <2>1. /\ addrlist # << >> /\ addrlist \in Seq(Nat) /\ deadlist # << >>
        /\ deadlist \in Seq(Nat \X Nat) /\ Range(deadlist) = OpsOf(visited)
    BY <1>2 DEF ProcessUnknown, IInv, Types, Ops, Ahead
  <2>2. addrlist' \in Seq(Nat) /\ Last(deadlist) \in OpsOf(visited)
    BY <1>2, <2>1 DEF ProcessUnknown, Front, Last, Range
  <2>3. inst_count' \in 0 .. inst_max
    BY <1>2, FunctionsAssumption DEF ProcessUnknown, IInv, Types
  <2>. QED BY <1>2, <2>2, <2>3 DEF ProcessUnknown, IInv, Types, Ops, Ahead
<1>3. CASE Process
  BY <1>3, ProcessKeeps
<1>4. CASE EndOps
  BY <1>4 DEF EndOps, decoding, IInv, Types, Ops, Ahead
<1>5. CASE GenerateBlocks
  BY <1>5 DEF GenerateBlocks, decoding, IInv, Types, Ops, Ahead
<1>6. CASE UNCHANGED vars
  BY <1>6 DEF vars, decoding, IInv, Types, Ops, Ahead
<1>7. CASE ExceedMax
  <2>1. addrlist' \in Seq(Nat) /\ phase' = "thrown"
    BY <1>7 DEF ExceedMax, IInv, Types, Ahead, Front
  <2>. QED BY <1>7, <2>1 DEF ExceedMax, IInv, Types, Ops, Ahead
<1>. QED BY <1>1, <1>2, <1>3, <1>4, <1>5, <1>6, <1>7 DEF Next

\* generate_ops makes the ops of every instruction once: no run goes on into what another
\* has decoded, or what it has decoded itself.
THEOREM NothingDecodedTwice == Spec => []DecodedOnce
<1>1. IInv => DecodedOnce
  <2>. SUFFICES ASSUME IInv PROVE DecodedOnce
    OBVIOUS
  <2>1. Made = OpsOf(visited)
    BY DEF Made, IInv, Ops
  <2>2. \A op \in Made : op[2] \in DOMAIN visited[op[1]].ops
    BY <2>1 DEF OpsOf
  <2>3. Cardinality(Made) = Len(deadlist)
    BY LengthCounts DEF Made, IInv, Ops
  <2>. QED BY <2>1, <2>2, <2>3 DEF DecodedOnce, TypeOK, IInv, Types, Ops
<1>. QED BY <1>1, InitIInv, NextIInv, PTL DEF Spec

(***************************************************************************)
(* What a run is bounded by                                                *)
(***************************************************************************)

\* A run is bounded by an instruction that was decoded, or by nothing; and decoding ends when
\* nothing is left to go on from.
Bounded ==
  /\ phase \in {"generate_blocks", "done"} => addrlist = << >>
  /\ phase = "fallthru" => bound = eaddr \/ bound \in DOMAIN visited

LEMMA BoundVisited ==
  ASSUME IInv, NEW addr \in Nat
  PROVE  NextVisited(addr) = eaddr \/ NextVisited(addr) \in DOMAIN visited
<1>1. Behind(addr) \subseteq Nat /\ Behind(addr) \subseteq DOMAIN visited
  BY Sizes DEF Behind, IInv, Types
<1>2. CASE Behind(addr) # {}
  <2>1. \E m \in Behind(addr) : \A a \in Behind(addr) : m <= a
    BY <1>1, <1>2, Smallest
  <2>2. Min(Behind(addr)) \in Behind(addr)
    BY <2>1 DEF Min
  <2>. QED BY <1>1, <1>2, <2>2 DEF NextVisited
<1>. QED BY <1>2 DEF NextVisited

LEMMA InitBounded == Init => Bounded
<1>. QED BY DEF Init, Bounded

LEMMA StartRunBounded == IInv /\ StartRun => Bounded'
<1>. SUFFICES ASSUME IInv, StartRun PROVE Bounded'
  OBVIOUS
<1>. DEFINE addr == Last(addrlist)
<1>1. /\ addrlist \in Seq(Nat) /\ addrlist # << >> /\ phase = "generate_ops"
      /\ UNCHANGED <<visited, deadlist, exit>>
  BY DEF StartRun, IInv, Types
<1>2. addr \in Nat
  <2>1. Len(addrlist) \in Nat \ {0} /\ DOMAIN addrlist = 1 .. Len(addrlist)
    BY <1>1
  <2>2. Len(addrlist) \in DOMAIN addrlist
    BY <2>1
  <2>. QED BY <1>1, <2>2 DEF Last
<1>3. CASE addr \in DOMAIN visited
  <2>1. phase' \in {"thrown", "generate_ops"}
    BY <1>1, <1>3 DEF StartRun
  <2>. QED BY <2>1 DEF Bounded
<1>4. CASE addr \notin DOMAIN visited
  <2>1. phase' \in {"thrown", "fallthru"} /\ bound' = NextVisited(addr)
    BY <1>4 DEF StartRun
  <2>2. bound' = eaddr \/ bound' \in DOMAIN visited'
    BY <1>1, <1>2, <2>1, BoundVisited
  <2>. QED BY <2>1, <2>2 DEF Bounded
<1>. QED BY <1>3, <1>4

LEMMA ProcessBounded == IInv /\ Bounded /\ Process => Bounded'
<1>. SUFFICES ASSUME IInv, Bounded, phase = "fallthru", NEW ins \in Decodings(Last(addrlist)),
                     Last(addrlist) \in Addr, ProcessInstruction(ins)
              PROVE  Bounded'
  BY ProcessIs
<1>. DEFINE cur  == Last(addrlist)
            next == cur + ins.size
<1>1. /\ DOMAIN visited' = DOMAIN visited \union {cur}
      /\ bound' \in {bound, NextVisited(next)}
      /\ phase' \in {"thrown", "fallthru", "generate_ops"}
  BY DEF ProcessInstruction
<1>2. next \in Nat
  <2>1. cur \in Nat /\ ins.size \in Nat
    BY Sizes
  <2>. QED BY <2>1
<1>3. NextVisited(next) = eaddr \/ NextVisited(next) \in DOMAIN visited
  BY <1>2, BoundVisited
<1>4. bound = eaddr \/ bound \in DOMAIN visited
  BY DEF Bounded
<1>. HIDE DEF next, cur
<1>. QED BY <1>1, <1>3, <1>4 DEF Bounded

LEMMA NextBounded == IInv /\ Bounded /\ [Next]_vars => Bounded'
<1>. SUFFICES ASSUME IInv, Bounded, [Next]_vars PROVE Bounded'
  OBVIOUS
<1>1. CASE StartRun
  BY <1>1, StartRunBounded
<1>2. CASE ExceedMax
  BY <1>2 DEF ExceedMax, Bounded
<1>3. CASE ProcessUnknown
  BY <1>3 DEF ProcessUnknown, Bounded
<1>4. CASE Process
  BY <1>4, ProcessBounded
<1>5. CASE EndOps
  BY <1>5 DEF EndOps, Bounded, decoding
<1>6. CASE GenerateBlocks
  BY <1>6 DEF GenerateBlocks, Bounded, decoding
<1>7. CASE UNCHANGED vars
  BY <1>7 DEF vars, decoding, Bounded
<1>. QED BY <1>1, <1>2, <1>3, <1>4, <1>5, <1>6, <1>7 DEF Next

\* The edges come from the ops, each from its own.
LEMMA EdgeSource ==
  ASSUME IInv
  PROVE  \A e : e \in Range(collect_edges) <=> \E n \in DOMAIN deadlist : e \in Range(EdgesOf(n))
<1>. DEFINE D == DOMAIN deadlist
            S == UNION {Range(EdgesOf(n)) : n \in D}
            s == [n \in D |-> EdgesOf(n)]
<1>1. D = 1 .. Len(deadlist) /\ Len(deadlist) \in Nat
  BY DEF IInv, Ops
<1>2. ASSUME NEW n \in D PROVE EdgesOf(n) \in Seq(S)
  <2>1. Range(EdgesOf(n)) \subseteq S
    OBVIOUS
  <2>2. \/ EdgesOf(n) = << >>
        \/ \E x : EdgesOf(n) = <<x>>
        \/ \E x, y : EdgesOf(n) = <<x, y>>
    BY Zenon DEF EdgesOf
  <2>. HIDE DEF S
  <2>3. CASE EdgesOf(n) = << >>
    BY <2>3
  <2>4. ASSUME NEW x, EdgesOf(n) = <<x>> PROVE EdgesOf(n) \in Seq(S)
    <3>1. x \in Range(EdgesOf(n))
      BY <2>4 DEF Range
    <3>. QED BY <2>1, <2>4, <3>1
  <2>5. ASSUME NEW x, NEW y, EdgesOf(n) = <<x, y>> PROVE EdgesOf(n) \in Seq(S)
    <3>1. x \in Range(EdgesOf(n)) /\ y \in Range(EdgesOf(n))
      BY <2>5 DEF Range
    <3>. QED BY <2>1, <2>5, <3>1
  <2>. QED BY <2>2, <2>3, <2>4, <2>5
<1>3. s \in Seq(Seq(S))
  <2>. HIDE DEF S, D
  <2>1. s \in [D -> Seq(S)]
    BY <1>2
  <2>. HIDE DEF s
  <2>. QED BY <1>1, <2>1
<1>4. collect_edges = FlattenSeq(s)
  BY DEF collect_edges
<1>5. DOMAIN s = D /\ \A n \in D : s[n] = EdgesOf(n)
  OBVIOUS
<1>6. \A e : e \in Range(FlattenSeq(s)) <=> \E n \in DOMAIN s : e \in Range(s[n])
  <2>. HIDE DEF s, S
  <2>. QED BY <1>3, Flattened
<1>. HIDE DEF s
<1>. QED BY <1>4, <1>5, <1>6

(***************************************************************************)
(* Where control goes: past the instructions without pcode                 *)
(***************************************************************************)

\* The first address from addr on that holds an op, or where nothing was decoded.
Past(vis, addr) ==
  LET on[a \in Nat] == IF a \in DOMAIN vis /\ vis[a].ops = << >> THEN on[end(vis, a)] ELSE a
  IN  on[addr]

\* An address that leads to another one of its kind for ever does not exist.
LEMMA NoEndlessWay ==
  ASSUME NEW vis, Forward(vis), NEW Lost \in SUBSET DOMAIN vis,
         \A a \in Lost : end(vis, a) \in Lost
  PROVE  Lost = {}
<1>. SUFFICES ASSUME Lost # {} PROVE FALSE
  OBVIOUS
<1>. DEFINE Left == {eaddr - a : a \in Lost}
<1>1. eaddr \in Nat /\ \A a \in Lost : a \in Nat /\ a < eaddr /\ a < end(vis, a)
  BY Sizes DEF Forward
<1>2. Left \subseteq Nat /\ Left # {}
  BY <1>1
<1>3. \E d \in Left : \A c \in Left : d <= c
  <2>. HIDE DEF Left
  <2>. QED BY <1>2, Smallest
<1>4. PICK a \in Lost : \A c \in Lost : eaddr - a <= eaddr - c
  BY <1>3
<1>5. end(vis, a) \in Lost
  OBVIOUS
<1>. QED BY <1>1, <1>4, <1>5

LEMMA PastIs ==
  ASSUME NEW vis, Forward(vis), NEW x \in Nat
  PROVE  Past(vis, x) = IF x \in DOMAIN vis /\ vis[x].ops = << >> THEN Past(vis, end(vis, x)) ELSE x
<1>. DEFINE Silent(a) == a \in DOMAIN vis /\ vis[a].ops = << >>
            f == CHOOSE g : g = [a \in Nat |-> IF Silent(a) THEN g[end(vis, a)] ELSE a]
            stop == {a \in Nat : ~Silent(a)}
            r == [a \in Nat |-> a]
            next == [a \in Nat |-> IF Silent(a) THEN end(vis, a) ELSE a]
            m == [a \in Nat |-> IF a < eaddr THEN eaddr - a ELSE 0]
<1>1. eaddr \in Nat /\ \A a \in DOMAIN vis : a \in Nat /\ a < eaddr /\ end(vis, a) \in Nat /\ a < end(vis, a)
  BY Sizes DEF Forward
<1>2. Falls(Nat, Nat, stop, r, next, eaddr, m)
  <2>1. r \in [Nat -> Nat] /\ next \in [Nat -> Nat] /\ m \in [Nat -> 0 .. eaddr]
    BY <1>1
  <2>2. ASSUME NEW p \in Nat, p \notin stop PROVE m[next[p]] < m[p]
    <3>1. Silent(p) /\ next[p] = end(vis, p)
      BY <2>2
    <3>2. p < eaddr /\ end(vis, p) \in Nat /\ p < end(vis, p)
      BY <1>1, <3>1
    <3>3. m[p] = eaddr - p
      BY <3>2
    <3>4. m[end(vis, p)] = IF end(vis, p) < eaddr THEN eaddr - end(vis, p) ELSE 0
      BY <3>2
    <3>. HIDE DEF m, next, Silent
    <3>. QED BY <1>1, <3>1, <3>2, <3>3, <3>4
  <2>. HIDE DEF r, next, m, stop
  <2>. QED BY <1>1, <2>1, <2>2 DEF Falls
<1>3. PICK g \in [Nat -> Nat] : \A p \in Nat : g[p] = IF p \in stop THEN r[p] ELSE g[next[p]]
  <2>. HIDE DEF r, next, m, stop
  <2>. QED BY <1>2, DescentExists
<1>4. g = [a \in Nat |-> IF Silent(a) THEN g[end(vis, a)] ELSE a]
  <2>1. \A p \in Nat : g[p] = IF Silent(p) THEN g[end(vis, p)] ELSE p
    BY <1>3
  <2>. HIDE DEF Silent
  <2>. QED BY <2>1
<1>5. f = [a \in Nat |-> IF Silent(a) THEN f[end(vis, a)] ELSE a]
  <2>. HIDE DEF Silent
  <2>. QED BY <1>4
<1>6. \A a : Past(vis, a) = f[a]
  BY DEF Past
<1>7. f[x] = IF Silent(x) THEN f[end(vis, x)] ELSE x
  <2>. HIDE DEF f, Silent
  <2>. QED BY <1>5
<1>. QED BY <1>6, <1>7

LEMMA PastStops ==
  ASSUME NEW vis, Forward(vis), NEW x \in Nat
  PROVE  /\ Past(vis, x) \in Nat /\ x <= Past(vis, x)
         /\ Past(vis, x) \in DOMAIN vis => vis[Past(vis, x)].ops # << >>
<1>. DEFINE Good(a) == /\ Past(vis, a) \in Nat /\ a <= Past(vis, a)
                       /\ Past(vis, a) \in DOMAIN vis => vis[Past(vis, a)].ops # << >>
            Lost == {a \in DOMAIN vis : ~Good(a)}
<1>0. \A a \in DOMAIN vis : a \in Nat /\ end(vis, a) \in Nat /\ a < end(vis, a)
  BY DEF Forward
<1>1. \A a \in Nat : (a \notin DOMAIN vis \/ vis[a].ops # << >>) => Good(a)
  <2>1. \A a \in Nat : (a \notin DOMAIN vis \/ vis[a].ops # << >>) => Past(vis, a) = a
    BY PastIs
  <2>. QED BY <2>1
<1>2. \A a \in DOMAIN vis : vis[a].ops = << >> => Past(vis, a) = Past(vis, end(vis, a))
  BY <1>0, PastIs
<1>3. ASSUME NEW a \in Lost PROVE end(vis, a) \in Lost
  <2>1. a \in Nat /\ vis[a].ops = << >> /\ Past(vis, a) = Past(vis, end(vis, a))
    BY <1>0, <1>1, <1>2
  <2>2. ~Good(end(vis, a))
    BY <1>0, <2>1
  <2>3. end(vis, a) \in DOMAIN vis
    <3>. HIDE DEF Good
    <3>. QED BY <1>0, <1>1, <2>2
  <2>. HIDE DEF Good
  <2>. QED BY <2>2, <2>3
<1>4. Lost = {}
  <2>. HIDE DEF Good
  <2>1. Lost \in SUBSET DOMAIN vis
    OBVIOUS
  <2>. HIDE DEF Lost
  <2>. QED BY <1>3, <2>1, NoEndlessWay
<1>5. Good(x)
  <2>. HIDE DEF Good
  <2>. QED BY <1>1, <1>4
<1>. QED BY <1>5

\* target finds the op there.
LEMMA TargetIs ==
  ASSUME NEW vis, Forward(vis), NEW x \in Nat
  PROVE  target(vis, x) = IF Past(vis, x) \in DOMAIN vis THEN <<Past(vis, x), 1>> ELSE NoOp
<1>. DEFINE f == CHOOSE g : g = [a \in Nat |-> First(vis, g, a)]
            Good(a) == f[a] = IF Past(vis, a) \in DOMAIN vis THEN <<Past(vis, a), 1>> ELSE NoOp
            Lost == {a \in DOMAIN vis : ~Good(a)}
<1>1. f = [a \in Nat |-> First(vis, f, a)]
  BY SearchExists
<1>2. target(vis, x) = f[x]
  BY DEF target, First
<1>3. \A a \in Nat : f[a] = First(vis, f, a)
  <2>. HIDE DEF f
  <2>. QED BY <1>1
<1>. HIDE DEF f
<1>4. \A a \in DOMAIN vis : a \in Nat /\ end(vis, a) \in Nat
  BY DEF Forward
<1>5. \A a \in Nat : (a \notin DOMAIN vis \/ vis[a].ops # << >>) => Good(a)
  <2>1. \A a \in Nat : (a \notin DOMAIN vis \/ vis[a].ops # << >>) => Past(vis, a) = a
    BY PastIs
  <2>. QED BY <1>3, <2>1 DEF First
<1>6. ASSUME NEW a \in Lost PROVE end(vis, a) \in Lost
  <2>1. a \in DOMAIN vis /\ a \in Nat /\ ~Good(a)
    BY <1>4
  <2>2. vis[a].ops = << >>
    <3>. HIDE DEF Good
    <3>. QED BY <1>5, <2>1
  <2>3. Past(vis, a) = Past(vis, end(vis, a)) /\ f[a] = f[end(vis, a)]
    BY <1>3, <2>1, <2>2, PastIs DEF First
  <2>4. ~Good(end(vis, a))
    BY <2>1, <2>3
  <2>5. end(vis, a) \in DOMAIN vis
    <3>. HIDE DEF Good
    <3>. QED BY <1>4, <1>5, <2>1, <2>4
  <2>. HIDE DEF Good
  <2>. QED BY <2>4, <2>5
<1>7. Lost = {}
  <2>. HIDE DEF Good
  <2>1. Lost \in SUBSET DOMAIN vis
    OBVIOUS
  <2>. HIDE DEF Lost
  <2>. QED BY <1>6, <2>1, NoEndlessWay
<1>8. Good(x)
  <2>. HIDE DEF Good
  <2>. QED BY <1>5, <1>7
<1>. QED BY <1>2, <1>8

\* One instruction more changes only the ways that led to its address.
LEMMA PastGrows ==
  ASSUME NEW vis, NEW old, Forward(vis), Forward(old), NEW c \in DOMAIN vis, c \notin DOMAIN old,
         DOMAIN vis = DOMAIN old \union {c}, \A a \in DOMAIN old : vis[a] = old[a],
         NEW x \in Nat
  PROVE  Past(vis, x) = IF Past(old, x) = c THEN Past(vis, c) ELSE Past(old, x)
<1>. DEFINE Good(a) == Past(vis, a) = IF Past(old, a) = c THEN Past(vis, c) ELSE Past(old, a)
            Lost == {a \in DOMAIN old : ~Good(a)}
<1>0. \A a \in DOMAIN old : a \in Nat /\ end(old, a) \in Nat /\ end(vis, a) = end(old, a)
  BY DEF Forward, end
<1>1. \A a \in Nat : (a \notin DOMAIN old \/ old[a].ops # << >>) => Good(a)
  <2>. SUFFICES ASSUME NEW a \in Nat, a \notin DOMAIN old \/ old[a].ops # << >> PROVE Good(a)
    OBVIOUS
  <2>1. Past(old, a) = a
    BY PastIs
  <2>2. a # c => Past(vis, a) = a
    BY PastIs
  <2>. QED BY <2>1, <2>2
<1>2. ASSUME NEW a \in Lost PROVE end(old, a) \in Lost
  <2>1. a \in DOMAIN old /\ ~Good(a) /\ old[a].ops = << >> /\ a \in Nat
    <3>. HIDE DEF Good
    <3>. QED BY <1>0, <1>1
  <2>2. Past(old, a) = Past(old, end(old, a)) /\ Past(vis, a) = Past(vis, end(old, a))
    BY <1>0, <2>1, PastIs
  <2>3. ~Good(end(old, a)) /\ end(old, a) \in Nat
    BY <1>0, <2>1, <2>2
  <2>. HIDE DEF Good
  <2>. QED BY <1>1, <2>3
<1>3. Lost = {}
  <2>. HIDE DEF Good
  <2>1. Lost \in SUBSET DOMAIN old
    OBVIOUS
  <2>. HIDE DEF Lost
  <2>. QED BY <1>2, <2>1, NoEndlessWay
<1>4. Good(x)
  <2>. HIDE DEF Good
  <2>. QED BY <1>1, <1>3
<1>. QED BY <1>4

\* The instructions say where their ways go in the terms of the code that walks over them
\* once; when they are tidy, it is what their last op says, and their jumps to the end.
RelOut(ops) == \E t \in RelTargets(ops, Len(ops)) : t > Len(ops)
EndsBlock(ops) == ops[Len(ops)].opcode \in StartsBasic \/ RelOut(ops)

TidyCode == \A a \in Addr : \A ins \in Decodings(a) : Tidy(ins.ops)

LEMMA StaysTidy == TidyPcode => TidyCode
<1>. SUFFICES ASSUME TidyPcode, NEW a \in Addr, NEW raw \in Instructions(a), NEW F \in SUBSET Nat
              PROVE  Tidy(Resolved(raw, F).ops)
  BY DEF TidyCode, Decodings
<1>. DEFINE ops == raw.ops
            res == Resolved(raw, F).ops
            n   == Len(ops)
<1>1. /\ Len(res) = n /\ DOMAIN res = 1 .. n /\ DOMAIN ops = 1 .. n /\ n \in Nat
      /\ ops \in Seq(PcodeOp) /\ res \in Seq(PcodeOp)
      /\ \A k \in 1 .. n : /\ res[k].rel = ops[k].rel /\ res[k].to = ops[k].to
                          /\ \/ res[k].opcode = ops[k].opcode
                             \/ ops[k].opcode = "BRANCH" /\ res[k].opcode = "BRANCH_CALL"
  <2>1. ops \in Seq(PcodeOp)
    BY InstructionsAssumption
  <2>. QED BY <2>1, ResolvedIs
<1>2. Tidy(ops)
  BY DEF TidyPcode
<1>. HIDE DEF ops, res
<1>. SUFFICES ASSUME res # << >> PROVE Tidy(res)
  BY DEF Tidy, res
<1>3. ops # << >> /\ n \in 1 .. n
  BY <1>1
<1>4. \A k \in 1 .. n : RelTargets(res, k) = RelTargets(ops, k)
  <2>. SUFFICES ASSUME NEW k \in 1 .. n PROVE RelTargets(res, k) = RelTargets(ops, k)
    OBVIOUS
  <2>1. \A j \in 1 .. k : j \in 1 .. n
    BY <1>1
  <2>2. {j \in 1 .. k : res[j].rel} = {j \in 1 .. k : ops[j].rel}
    BY <1>1, <2>1
  <2>3. \A j \in {i \in 1 .. k : ops[i].rel} : j + res[j].to = j + ops[j].to
    BY <1>1, <2>1
  <2>. QED BY <2>2, <2>3 DEF RelTargets
<1>5. \A k \in 1 .. n : /\ res[k].opcode \in Jumps <=> ops[k].opcode \in Jumps
                       /\ \A o \in {"OP", "CBRANCH", "NORETURN_CALL"} :
                            res[k].opcode = o <=> ops[k].opcode = o
  BY <1>1 DEF Jumps
<1>6. \A k \in 1 .. n : noreturn(res, k) <=> noreturn(ops, k)
  <2>1. \A k \in 1 .. n : \A j \in 1 .. k : j \in 1 .. n
    BY <1>1
  <2>. QED BY <1>5, <2>1 DEF noreturn
<1>7. \A k \in 1 .. n : EndsAt(res, k) <=> EndsAt(ops, k)
  BY <1>1, <1>4, <1>5, <1>6 DEF EndsAt
<1>8. Walked(res) = Walked(ops)
  <2>1. \A k \in 1 .. n : \A j \in 1 .. k - 1 : j \in 1 .. n
    BY <1>1
  <2>. QED BY <1>1, <1>7, <2>1 DEF Walked
<1>9. Walked(ops) = 1 .. n /\ Cardinality(1 .. n) = n
  <2>1. Walked(ops) = DOMAIN ops
    BY <1>2, <1>3 DEF Tidy
  <2>2. \A m \in Nat : Cardinality(1 .. m) = m
    BY FS_Interval
  <2>. HIDE DEF n
  <2>. QED BY <1>1, <2>1, <2>2
<1>10. \A k \in 1 .. n : k < n /\ ops[k].opcode \in {"BRANCH", "BRANCH_CALL"} => k + 1 \in RelTargets(ops, n)
  BY <1>1, <1>2, <1>3 DEF Tidy, n
<1>11. noreturn(ops, n) => ops[n].opcode \notin {"OP", "CBRANCH"} /\ ~RelNext(ops)
  BY <1>2, <1>3 DEF Tidy, n
<1>12. RelNext(res) <=> RelNext(ops)
  BY <1>1, <1>3, <1>4, <1>8, <1>9 DEF RelNext, n
<1>13. \A k \in 1 .. n : k < n /\ res[k].opcode \in {"BRANCH", "BRANCH_CALL"} => k + 1 \in RelTargets(res, n)
  BY <1>1, <1>3, <1>4, <1>10
<1>14. noreturn(res, n) => res[n].opcode \notin {"OP", "CBRANCH"} /\ ~RelNext(res)
  BY <1>3, <1>5, <1>6, <1>11, <1>12
<1>. HIDE DEF n
<1>. QED BY <1>1, <1>8, <1>9, <1>13, <1>14 DEF Tidy

LEMMA TidyFacts ==
  ASSUME NEW ops \in Seq(PcodeOp), ops # << >>, Tidy(ops)
  PROVE  /\ Len(ops) \in Nat \ {0} /\ DOMAIN ops = 1 .. Len(ops) /\ Walked(ops) = DOMAIN ops
         /\ \A k \in DOMAIN ops : ops[k].opcode \in Opcodes /\ ops[k].to \in Nat
         /\ StartsBasicAfter(ops) = EndsBlock(ops)
         /\ ops[Len(ops)].opcode \in {"OP", "CBRANCH"} => FallsThrough(ops)
         /\ RelOut(ops) => FallsThrough(ops)
         /\ FallsThrough(ops) /\ ops[Len(ops)].opcode = "BRANCH_CALL" => RelOut(ops)
         /\ \A k \in DOMAIN ops :
              k < Len(ops) /\ ops[k].opcode = "BRANCH_CALL" => k + 1 \in RelTargets(ops, Len(ops))
<1>. DEFINE n == Len(ops)
<1>1. n \in Nat \ {0} /\ DOMAIN ops = 1 .. n /\ Walked(ops) = 1 .. n
  BY DEF Tidy
<1>2. \A k \in DOMAIN ops : ops[k].opcode \in Opcodes /\ ops[k].to \in Nat
  <2>1. \A k \in 1 .. n : ops[k] \in PcodeOp
    BY <1>1
  <2>. QED BY <1>1, <2>1 DEF PcodeOp
<1>3. Cardinality(Walked(ops)) = n
  BY <1>1, FS_Interval
<1>4. Max(1 .. n) = n
  <2>1. n \in 1 .. n /\ \A y \in 1 .. n : n >= y
    BY <1>1
  <2>2. ASSUME NEW x \in 1 .. n, \A y \in 1 .. n : x >= y PROVE x = n
    <3>1. x >= n /\ x <= n /\ x \in Nat /\ n \in Nat
      BY <1>1, <2>1, <2>2
    <3>. HIDE DEF n
    <3>. QED BY <3>1
  <2>. QED BY <2>1, <2>2 DEF Max
<1>5. LastWalked(ops) = ops[n].opcode
  BY <1>1, <1>4 DEF LastWalked
<1>6. RelNext(ops) <=> RelOut(ops)
  BY <1>3 DEF RelNext, RelOut
<1>7. noreturn(ops, n) => ops[n].opcode \notin {"OP", "CBRANCH"} /\ ~RelOut(ops)
  BY <1>6 DEF Tidy
<1>8. StartsBasicAfter(ops) = EndsBlock(ops)
  BY <1>3, <1>5, <1>6, <1>7 DEF StartsBasicAfter, EndsBlock
<1>9. FallsThrough(ops) <=> ~noreturn(ops, n) /\ (RelOut(ops) \/ ops[n].opcode \notin Jumps)
  BY <1>3, <1>5, <1>6 DEF FallsThrough
<1>. QED BY <1>1, <1>2, <1>7, <1>8, <1>9 DEF Tidy, Jumps

LEMMA TidyStarts ==
  ASSUME NEW ops \in Seq(PcodeOp), ops # << >>, Tidy(ops), NEW a
  PROVE  /\ startbasic => <<a, 1>> \in BlockStarts(a, ops)
         /\ \A k \in 1 .. Len(ops) - 1 :
              ops[k].opcode \in StartsBasic => <<a, k + 1>> \in BlockStarts(a, ops)
         /\ \A t \in RelTargets(ops, Len(ops)) \intersect DOMAIN ops : <<a, t>> \in BlockStarts(a, ops)
<1>1. Len(ops) \in Nat \ {0} /\ DOMAIN ops = 1 .. Len(ops) /\ Walked(ops) = DOMAIN ops
  BY TidyFacts
<1>2. Cardinality(Walked(ops)) = Len(ops)
  BY <1>1, FS_Interval
<1>3. \A t \in RelTargets(ops, Len(ops)) \intersect DOMAIN ops : <<a, t>> \in BlockStarts(a, ops)
  BY <1>2 DEF BlockStarts
<1>4. \A k \in DOMAIN ops :
        (IF k = 1 THEN startbasic ELSE ops[k - 1].opcode \in StartsBasic) => <<a, k>> \in BlockStarts(a, ops)
  BY <1>1 DEF BlockStarts
<1>5. startbasic => <<a, 1>> \in BlockStarts(a, ops)
  BY <1>1, <1>4
<1>6. ASSUME NEW k \in 1 .. Len(ops) - 1, ops[k].opcode \in StartsBasic
      PROVE  <<a, k + 1>> \in BlockStarts(a, ops)
  <2>1. k + 1 \in DOMAIN ops /\ k + 1 # 1 /\ (k + 1) - 1 = k
    BY <1>1
  <2>. QED BY <1>4, <1>6, <2>1
<1>. QED BY <1>3, <1>5, <1>6

\* The list of destinations holds each of them.
LEMMA DestinationsRange ==
  ASSUME NEW ops \in Seq(PcodeOp), NEW S \in SUBSET DOMAIN ops
  PROVE  \A x : x \in Range(Destinations(ops, S)) <=> \E k \in S : ops[k].to = x
<1>. DEFINE Upto(k) == {j \in S : j <= k}
            nth(n) == CHOOSE k \in S : Cardinality(Upto(k)) = n
            N == Cardinality(S)
<1>1. Len(ops) \in Nat /\ S \in SUBSET (1 .. Len(ops)) /\ \A k \in S : k \in Nat
  OBVIOUS
<1>2. IsFiniteSet(S) /\ N \in Nat
  <2>1. IsFiniteSet(1 .. Len(ops))
    BY <1>1, FS_Interval
  <2>. QED BY <1>1, <2>1, FS_Subset, FS_CardinalityType
<1>3. \A k \in S : IsFiniteSet(Upto(k)) /\ Cardinality(Upto(k)) \in 1 .. N
  <2>. SUFFICES ASSUME NEW k \in S PROVE IsFiniteSet(Upto(k)) /\ Cardinality(Upto(k)) \in 1 .. N
    OBVIOUS
  <2>1. Upto(k) \in SUBSET S /\ k \in Upto(k)
    BY <1>1
  <2>. HIDE DEF Upto
  <2>2. IsFiniteSet(Upto(k)) /\ Cardinality(Upto(k)) \in Nat /\ Cardinality(Upto(k)) <= N
    BY <1>2, <2>1, FS_Subset, FS_CardinalityType
  <2>3. Cardinality(Upto(k)) # 0
    BY <2>1, <2>2, FS_EmptySet
  <2>. HIDE DEF N
  <2>. QED BY <1>2, <2>2, <2>3
<1>4. ASSUME NEW k \in S, NEW m \in S, k < m PROVE Cardinality(Upto(k)) # Cardinality(Upto(m))
  <2>1. Upto(k) \in SUBSET Upto(m)
    <3>1. \A j \in S : j <= k => j <= m
      BY <1>1, <1>4
    <3>. QED BY <3>1
  <2>2. m \in Upto(m) /\ m \notin Upto(k)
    BY <1>1, <1>4
  <2>3. IsFiniteSet(Upto(m))
    BY <1>3
  <2>. HIDE DEF Upto
  <2>. QED BY <2>1, <2>2, <2>3, FS_Subset
<1>5. ASSUME NEW k \in S, NEW m \in S, Cardinality(Upto(k)) = Cardinality(Upto(m)) PROVE k = m
  <2>. HIDE DEF Upto
  <2>1. ~(k < m) /\ ~(m < k)
    BY <1>4, <1>5
  <2>. QED BY <1>1, <2>1
<1>6. ASSUME NEW n \in 1 .. N PROVE nth(n) \in S
  <2>1. \E k \in S : Cardinality(Upto(k)) = n
    BY <1>1, NthExists
  <2>. HIDE DEF Upto
  <2>. QED BY <2>1
<1>7. ASSUME NEW k \in S PROVE Cardinality(Upto(k)) \in 1 .. N /\ nth(Cardinality(Upto(k))) = k
  <2>. HIDE DEF Upto
  <2>. QED BY <1>3, <1>5
<1>8. Destinations(ops, S) = [n \in 1 .. N |-> ops[nth(n)].to]
  BY DEF Destinations
<1>. HIDE DEF nth, Upto, N
<1>9. Range(Destinations(ops, S)) = {ops[nth(n)].to : n \in 1 .. N}
  BY <1>8 DEF Range
<1>. QED BY <1>6, <1>7, <1>9

LEMMA FrontAndLast ==
  ASSUME NEW s \in Seq(Nat), s # << >>
  PROVE  /\ Front(s) \in Seq(Nat) /\ Last(s) \in Nat
         /\ Range(s) = Range(Front(s)) \union {Last(s)}
<1>. DEFINE n == Len(s)
<1>1. n \in Nat \ {0} /\ DOMAIN s = 1 .. n
  OBVIOUS
<1>2. Front(s) \in Seq(Nat) /\ Len(Front(s)) = n - 1 /\ \A k \in 1 .. n - 1 : Front(s)[k] = s[k]
  <2>1. Front(s) = SubSeq(s, 1, n - 1)
    BY DEF Front
  <2>2. n - 1 \in Nat /\ \A k \in 1 .. n - 1 : s[k] \in Nat /\ (1 + k) - 1 = k
    BY <1>1
  <2>3. /\ SubSeq(s, 1, n - 1) \in Seq(Nat) /\ Len(SubSeq(s, 1, n - 1)) = n - 1
        /\ \A k \in 1 .. n - 1 : SubSeq(s, 1, n - 1)[k] = s[k]
    BY <1>1, <2>2
  <2>. QED BY <2>1, <2>3
<1>3. DOMAIN Front(s) = 1 .. n - 1
  BY <1>1, <1>2
<1>4. Range(s) = {s[k] : k \in 1 .. n} /\ Range(Front(s)) = {s[k] : k \in 1 .. n - 1}
  <2>1. Range(Front(s)) = {Front(s)[k] : k \in 1 .. n - 1}
    BY <1>3 DEF Range
  <2>. QED BY <1>1, <1>2, <2>1 DEF Range
<1>5. \A k \in 1 .. n : k = n \/ k \in 1 .. n - 1
  <2>1. n \in Nat \ {0}
    BY <1>1
  <2>. HIDE DEF n
  <2>. QED BY <2>1
<1>6. n \in 1 .. n /\ 1 .. n - 1 \subseteq 1 .. n
  BY <1>1
<1>7. Last(s) = s[n] /\ s[n] \in Nat
  BY <1>1, <1>6 DEF Last
<1>. HIDE DEF n
<1>. QED BY <1>2, <1>4, <1>5, <1>6, <1>7

\* Instructions are so short that set_fallthru_bound, which looks at the nearest one only,
\* sees every one that reaches over an address.
LEMMA NoneInTheMiddle ==
  ASSUME IInv, NEW addr \in Nat, addr \notin DOMAIN visited, ~InTheMiddle(addr),
         NEW a \in DOMAIN visited, a < addr
  PROVE  end(visited, a) <= addr
<1>. SUFFICES ASSUME ~(end(visited, a) <= addr) PROVE FALSE
  OBVIOUS
<1>1. a \in Nat /\ end(visited, a) \in {a + 1, a + 2}
  BY Sizes DEF IInv, Types, end
<1>2. a = addr - 1 /\ end(visited, a) = addr + 1
  BY <1>1
<1>3. a \in Before(addr) /\ \A b \in Before(addr) : a >= b /\ (b >= a => b = a)
  <2>1. \A b \in Before(addr) : b \in DOMAIN visited /\ b \in Nat /\ b <= addr /\ b # addr
    BY Sizes DEF Before, IInv, Types
  <2>. QED BY <1>1, <1>2, <2>1 DEF Before
<1>4. Max(Before(addr)) = a
  BY <1>3 DEF Max
<1>. QED BY <1>2, <1>3, <1>4 DEF InTheMiddle

(***************************************************************************)
(* The blocks follow the code, when the pcode is tidy.  What a run knows   *)
(* of the ways that lead to it, and what it leaves behind for them:        *)
(***************************************************************************)

\* What waits on the stack: while a run goes on, its own address is not waiting.
Waiting == Range(IF phase = "fallthru" THEN Front(addrlist) ELSE addrlist)

\* Somewhere a jump goes to x.
Dest(x) ==
  \E a \in DOMAIN visited : \E k \in JumpsAway(visited[a].ops) : visited[a].ops[k].to = x

\* The op at x, or past the instructions without pcode there, begins a block; or will,
\* because the run is there and what comes next begins one; or nothing is understood there.
Marked(x) ==
  LET y == Past(visited, x)
  IN  \/ y \in DOMAIN visited /\ <<y, 1>> \in startblock
      \/ y \in unknown
      \/ phase = "fallthru" /\ y = Last(addrlist) /\ startbasic

After(a) == Past(visited, end(visited, a))
LastOp(a) == <<a, Len(visited[a].ops)>>

\* In the list of ops the op behind a comes right after the last op of a.
Adjoins(a) ==
  /\ After(a) \in DOMAIN visited
  /\ \E n \in 1 .. Len(deadlist) - 1 : deadlist[n] = LastOp(a) /\ deadlist[n + 1] = <<After(a), 1>>

\* The run came from a and is where a goes on.
CameFrom(a) ==
  phase = "fallthru" /\ deadlist # << >> /\ Last(deadlist) = LastOp(a) /\ After(a) = Last(addrlist)

\* No instruction reaches over the address of the run.
Clear ==
  /\ unknown \intersect DOMAIN visited = {}
  /\ phase = "fallthru" =>
       \A a \in DOMAIN visited : a < Last(addrlist) => end(visited, a) <= Last(addrlist)

\* A decoded address that begins no block was run into from the one in front.
Led ==
  /\ \A b \in DOMAIN visited : Marked(b) \/ \E p \in DOMAIN visited : end(visited, p) = b
  /\ phase = "fallthru" /\ ~startbasic => \E p \in DOMAIN visited : end(visited, p) = Last(addrlist)

\* No destination is forgotten, and only destinations wait.
Awaited ==
  /\ \A x \in Nat : Dest(x) => Marked(x) \/ x \in Waiting
  /\ deadlist # << >> => \A x \in Waiting : Dest(x)

\* Where control falls through, a block begins or the ops are neighbours.
FallsOn ==
  \A a \in DOMAIN visited :
    visited[a].ops # << >> /\ FallsThrough(visited[a].ops) =>
      /\ EndsBlock(visited[a].ops) => Marked(end(visited, a))
      /\ Marked(end(visited, a)) \/ Adjoins(a) \/ CameFrom(a)

\* The ops of an instruction stand together, and behind the last one a block begins unless
\* control falls through.
Neighbours ==
  \A n \in DOMAIN deadlist :
    LET a   == deadlist[n][1]
        k   == deadlist[n][2]
        ops == visited[a].ops
    IN  /\ k < Len(ops) => n < Len(deadlist) /\ deadlist[n + 1] = <<a, k + 1>>
        /\ k = Len(ops) /\ n < Len(deadlist) =>
             \/ deadlist[n + 1] \in startblock
             \/ /\ FallsThrough(ops) /\ ~EndsBlock(ops)
                /\ After(a) \in DOMAIN visited /\ deadlist[n + 1] = <<After(a), 1>>

\* A run comes from the last op, or it began at a destination.
Arrived ==
  phase = "fallthru" /\ deadlist # << >> =>
    \/ \E a \in DOMAIN visited :
         CameFrom(a) /\ FallsThrough(visited[a].ops) /\ startbasic = EndsBlock(visited[a].ops)
    \/ startbasic /\ \E x \in Nat : Dest(x) /\ Past(visited, x) = Last(addrlist)

\* Within an instruction a block begins behind a jump and where one goes.
Cut ==
  \A a \in DOMAIN visited :
    LET ops == visited[a].ops
    IN  /\ \A k \in 1 .. Len(ops) - 1 : ops[k].opcode \in StartsBasic => <<a, k + 1>> \in startblock
        /\ \A t \in RelTargets(ops, Len(ops)) \intersect DOMAIN ops : <<a, t>> \in startblock

\* An op is an exit because its call does not return, or because nothing is understood
\* where control goes on.
Left ==
  /\ \A op \in exit : opcode(op) = "OP" =>
       \/ op = LastOp(op[1]) /\ After(op[1]) \in unknown
       \/ \E x \in Nat : Dest(x) /\ Past(visited, x) \in unknown
  /\ \A a \in DOMAIN visited : \A k \in DOMAIN visited[a].ops :
       visited[a].ops[k].opcode = "NORETURN_CALL" => <<a, k>> \in exit

\* The first op of the list is the first op of the function.
Begun ==
  /\ deadlist # << >> => Past(visited, 0) \in DOMAIN visited /\ deadlist[1] = <<Past(visited, 0), 1>>
  /\ deadlist = << >> =>
       \/ phase = "generate_ops" /\ DOMAIN visited = {} /\ addrlist = <<0>>
       \/ /\ phase = "fallthru" /\ Past(visited, 0) = Last(addrlist)
          /\ Waiting = {} /\ startbasic /\ bound = eaddr

Cutting == Clear /\ Led /\ Awaited /\ FallsOn /\ Neighbours /\ Arrived /\ Cut /\ Left /\ Begun

\* What generate_blocks makes of it.
MadeBlocks ==
  phase = "done" =>
    /\ block_edge = collect_edges /\ blist = split_basic
    /\ \A n \in DOMAIN deadlist : \A e \in Range(EdgesOf(n)) : e[2] # NoOp

Flow == (phase # "thrown" => Cutting) /\ MadeBlocks

\* One instruction decoded, in the terms of the invariant.
Decodes(c, ins) ==
  LET next == c + ins.size
  IN  /\ phase = "fallthru" /\ c = Last(addrlist) /\ c \in Addr /\ c \notin DOMAIN visited /\ c \notin unknown
      /\ ins \in Decodings(c) /\ next \in Nat /\ c < next /\ next < eaddr
      /\ DOMAIN visited' = DOMAIN visited \union {c} /\ visited'[c] = ins
      /\ \A a \in DOMAIN visited : visited'[a] = visited[a]
      /\ unknown' = unknown
      /\ deadlist' = deadlist \o [k \in DOMAIN ins.ops |-> <<c, k>>]
      /\ startblock \subseteq startblock' /\ BlockStarts(c, ins.ops) \subseteq startblock'
      /\ exit' = exit \union {<<c, k>> : k \in ExitsOf(ins.ops)}
      /\ startbasic' = StartsBasicAfter(ins.ops)
      /\ \A k \in JumpsAway(ins.ops) :
           ins.ops[k].to \in DOMAIN visited' => target(visited', ins.ops[k].to) \in startblock'
      /\ \A x : x \in Waiting' <=>
                  x \in Waiting \/ \E k \in JumpsAway(ins.ops) : ins.ops[k].to = x /\ x \notin DOMAIN visited'
      /\ \/ /\ phase' = "fallthru" /\ Last(addrlist') = next
            /\ FallsThrough(ins.ops) /\ next # bound
            /\ next > bound => ~InTheMiddle(next)
            /\ bound' = IF next > bound THEN NextVisited(next) ELSE bound
         \/ /\ phase' = "generate_ops"
            /\ FallsThrough(ins.ops) =>
                 /\ next = bound \/ (next > bound /\ next \in DOMAIN visited)
                 /\ next # bound \/ StartsBasicAfter(ins.ops) => target(visited', next) \in startblock'

LEMMA ProcessDecodes ==
  ASSUME IInv, Cutting, Process, phase' # "thrown"
  PROVE  \E c : \E ins : Decodes(c, ins)
<1>. SUFFICES ASSUME phase = "fallthru", NEW ins \in Decodings(Last(addrlist)),
                     Last(addrlist) \in Addr \ unknown, ProcessInstruction(ins)
              PROVE  Decodes(Last(addrlist), ins)
  BY ProcessIs
<1>. DEFINE cur    == Last(addrlist)
            next   == cur + ins.size
            vis    == [a \in DOMAIN visited \union {cur} |-> IF a = cur THEN ins ELSE visited[a]]
            old    == {k \in JumpsAway(ins.ops) : ins.ops[k].to \in DOMAIN vis}
            known  == {target(vis, ins.ops[k].to) : k \in old}
            dests  == Destinations(ins.ops, JumpsAway(ins.ops) \ old)
            stack  == Front(addrlist) \o dests
            falls  == FallsThrough(ins.ops)
            again  == falls /\ next > bound /\ next \in DOMAIN visited
            meets  == falls /\ next = bound /\ StartsBasicAfter(ins.ops)
            starts == known \union (IF again \/ meets THEN {target(vis, next)} ELSE {})
            on     == falls /\ next # bound /\ ~again
            new    == [k \in DOMAIN ins.ops |-> <<cur, k>>]
<1>1. /\ visited' = vis /\ unknown' = unknown
      /\ deadlist' = deadlist \o new
      /\ startblock' = startblock \union BlockStarts(cur, ins.ops) \union starts
      /\ exit' = exit \union {<<cur, k>> : k \in ExitsOf(ins.ops)}
      /\ addrlist' = IF on THEN Append(stack, next) ELSE stack
      /\ bound' = IF on /\ next > bound THEN NextVisited(next) ELSE bound
      /\ startbasic' = StartsBasicAfter(ins.ops)
      /\ phase' = IF Refused(ins.ops) \/ NoOp \in starts \/ (on /\ next > bound /\ InTheMiddle(next)) THEN "thrown"
                  ELSE IF on THEN phase ELSE "generate_ops"
  BY DEF ProcessInstruction
<1>2. /\ cur \in Addr /\ cur \in Nat /\ cur \notin DOMAIN visited /\ cur \notin unknown
      /\ addrlist \in Seq(Nat) /\ addrlist # << >>
      /\ bound \in Nat /\ \A a \in DOMAIN visited : cur < a => bound <= a
  <2>1. eaddr \in Nat /\ Addr \subseteq Nat
    BY Sizes
  <2>2. bound \in Nat
    BY <2>1 DEF IInv, Types
  <2>. QED BY <2>1, <2>2 DEF IInv, Types, Ahead
<1>3. /\ ins.size \in Nat \ {0} /\ ins.ops \in Seq(PcodeOp) /\ next \in Nat
      /\ cur < next /\ next < eaddr
  BY <1>2, Sizes
<1>4. /\ DOMAIN vis = DOMAIN visited \union {cur} /\ vis[cur] = ins
      /\ \A a \in DOMAIN visited : vis[a] = visited[a]
  <2>1. cur \notin DOMAIN visited
    BY <1>2
  <2>2. DOMAIN vis = DOMAIN visited \union {cur}
    OBVIOUS
  <2>3. \A a \in DOMAIN vis : vis[a] = IF a = cur THEN ins ELSE visited[a]
    OBVIOUS
  <2>. HIDE DEF vis, cur
  <2>. QED BY <2>1, <2>2, <2>3
<1>5. /\ Front(addrlist) \in Seq(Nat) /\ dests \in Seq(Nat) /\ stack \in Seq(Nat)
      /\ Range(stack) = Range(Front(addrlist)) \union Range(dests)
      /\ \A x : x \in Range(dests) <=> \E k \in JumpsAway(ins.ops) \ old : ins.ops[k].to = x
  <2>1. Front(addrlist) \in Seq(Nat)
    BY <1>2, FrontAndLast
  <2>2. JumpsAway(ins.ops) \ old \in SUBSET DOMAIN ins.ops
    BY DEF JumpsAway
  <2>. HIDE DEF old
  <2>3. /\ dests \in Seq(Nat)
        /\ \A x : x \in Range(dests) <=> \E k \in JumpsAway(ins.ops) \ old : ins.ops[k].to = x
    BY <1>3, <2>2, DestinationsType, DestinationsRange
  <2>. HIDE DEF dests
  <2>. QED BY <2>1, <2>3, RangeConcatenation
<1>6. on => Last(addrlist') = next /\ Front(addrlist') = stack
  <2>. SUFFICES ASSUME on PROVE Last(addrlist') = next /\ Front(addrlist') = stack
    OBVIOUS
  <2>1. addrlist' = Append(stack, next)
    BY <1>1
  <2>. HIDE DEF stack, next
  <2>2. /\ Len(addrlist') = Len(stack) + 1 /\ Len(stack) \in Nat /\ addrlist'[Len(stack) + 1] = next
        /\ addrlist' \in Seq(Nat)
    BY <1>3, <1>5, <2>1
  <2>3. Front(addrlist') = SubSeq(addrlist', 1, Len(stack))
    BY <2>2 DEF Front
  <2>4. SubSeq(addrlist', 1, Len(stack)) = stack
    BY <1>3, <1>5, <2>1
  <2>. QED BY <2>2, <2>3, <2>4 DEF Last
<1>7. \A x : x \in Waiting' <=>
               x \in Waiting \/ \E k \in JumpsAway(ins.ops) : ins.ops[k].to = x /\ x \notin DOMAIN vis
  <2>1. Waiting = Range(Front(addrlist))
    BY DEF Waiting
  <2>2. Waiting' = Range(stack)
    <3>. HIDE DEF on, stack, starts, next
    <3>. QED BY <1>1, <1>6 DEF Waiting
  <2>3. \A x : x \in Range(dests) <=> \E k \in JumpsAway(ins.ops) : ins.ops[k].to = x /\ x \notin DOMAIN vis
    <3>. HIDE DEF dests, vis
    <3>. QED BY <1>5
  <2>. HIDE DEF dests, vis, stack
  <2>. QED BY <1>5, <2>1, <2>2, <2>3
<1>8. \A k \in JumpsAway(ins.ops) : ins.ops[k].to \in DOMAIN vis => target(vis, ins.ops[k].to) \in startblock'
  <2>. HIDE DEF vis
  <2>. QED BY <1>1
<1>9. CASE on
  <2>1. phase' = "fallthru" /\ (next > bound => ~InTheMiddle(next))
    <3>. HIDE DEF starts, next
    <3>. QED BY <1>1, <1>9
  <2>2. bound' = IF next > bound THEN NextVisited(next) ELSE bound
    <3>. HIDE DEF next
    <3>. QED BY <1>1, <1>9
  <2>3. Last(addrlist') = next /\ falls /\ next # bound
    BY <1>6, <1>9
  <2>. HIDE DEF vis, next, new, starts, on, cur
  <2>. QED BY <1>1, <1>2, <1>3, <1>4, <1>7, <1>8, <2>1, <2>2, <2>3 DEF Decodes, vis, next, new, cur
<1>10. CASE ~on
  <2>1. phase' = "generate_ops"
    <3>. HIDE DEF starts, next
    <3>. QED BY <1>1, <1>10
  <2>2. ASSUME falls PROVE next = bound \/ (next > bound /\ next \in DOMAIN visited)
    <3>. HIDE DEF next
    <3>. QED BY <1>10, <2>2
  <2>3. ASSUME falls, next # bound \/ StartsBasicAfter(ins.ops) PROVE target(vis, next) \in startblock'
    <3>1. again \/ meets
      <4>. HIDE DEF next
      <4>. QED BY <2>2, <2>3
    <3>. HIDE DEF vis, next, again, meets
    <3>. QED BY <1>1, <3>1
  <2>. HIDE DEF starts, on
  <2>. QED BY <1>1, <1>2, <1>3, <1>4, <1>7, <1>8, <2>1, <2>2, <2>3 DEF Decodes
<1>. QED BY <1>9, <1>10

LEMMA ForwardIf ==
  ASSUME NEW vis, DOMAIN vis \subseteq Addr, \A a \in DOMAIN vis : vis[a] \in Decodings(a)
  PROVE  /\ Forward(vis) /\ \A a \in DOMAIN vis : vis[a].ops \in Seq(PcodeOp)
         /\ \A a \in DOMAIN vis : a \in Nat /\ end(vis, a) \in Nat /\ a < end(vis, a) /\ a < eaddr
<1>1. \A a \in DOMAIN vis : a \in Addr /\ vis[a].size \in Nat \ {0} /\ vis[a].ops \in Seq(PcodeOp)
  BY Sizes
<1>2. Forward(vis)
  BY <1>1, ForwardAlways
<1>. QED BY <1>1, <1>2 DEF Forward

LEMMA NoOpIsNoStart == IInv /\ phase # "thrown" => NoOp \notin startblock
<1>. SUFFICES ASSUME IInv, phase # "thrown", NoOp \in startblock PROVE FALSE
  OBVIOUS
<1>1. NoOp \in OpsOf(visited)
  BY DEF IInv, Ops
<1>2. PICK a \in DOMAIN visited : \E k \in DOMAIN visited[a].ops : NoOp = <<a, k>>
  BY <1>1 DEF OpsOf
<1>3. a = eaddr /\ a \in Addr /\ eaddr \in Nat
  BY <1>2, Sizes DEF NoOp, IInv, Types
<1>. QED BY <1>3, Sizes

\* What is done to the ways by one instruction more.
LEMMA WaysGrow ==
  ASSUME IInv, IInv', NEW c, NEW ins, Decodes(c, ins)
  PROVE  /\ c \in Nat /\ c + ins.size \in Nat /\ ins.ops \in Seq(PcodeOp)
         /\ Forward(visited) /\ Forward(visited')
         /\ \A a \in DOMAIN visited : a \in Nat /\ end(visited, a) \in Nat /\ end(visited', a) = end(visited, a)
         /\ end(visited', c) = c + ins.size
         /\ \A x \in Nat : Past(visited', x) = IF Past(visited, x) = c THEN Past(visited', c) ELSE Past(visited, x)
         /\ Past(visited, c) = c
         /\ ins.ops # << >> => Past(visited', c) = c
         /\ ins.ops = << >> => Past(visited', c) = Past(visited', c + ins.size)
         /\ phase' = "fallthru" => c + ins.size \notin DOMAIN visited' /\ Past(visited', c + ins.size) = c + ins.size
         /\ \A x \in Nat : target(visited', x) \in startblock' => Marked(x)'
<1>. DEFINE next == c + ins.size
<1>1. /\ c \in Nat /\ next \in Nat /\ ins.ops \in Seq(PcodeOp) /\ c \notin DOMAIN visited
      /\ DOMAIN visited' = DOMAIN visited \union {c} /\ visited'[c] = ins
      /\ \A a \in DOMAIN visited : visited'[a] = visited[a]
      /\ phase' \in {"fallthru", "generate_ops"}
      /\ phase' = "fallthru" => Last(addrlist') = next
  BY Sizes DEF Decodes
<1>2. DOMAIN visited \subseteq Addr /\ \A a \in DOMAIN visited : visited[a] \in Decodings(a)
  BY DEF IInv, Types
<1>3. DOMAIN visited' \subseteq Addr /\ \A a \in DOMAIN visited' : visited'[a] \in Decodings(a)
  BY DEF IInv, Types
<1>4. Forward(visited) /\ \A a \in DOMAIN visited : a \in Nat /\ end(visited, a) \in Nat
  BY <1>2, ForwardIf
<1>5. Forward(visited')
  BY <1>3, ForwardIf
<1>6. \A a \in DOMAIN visited : end(visited', a) = end(visited, a)
  BY <1>1 DEF end
<1>7. end(visited', c) = next
  BY <1>1 DEF end
<1>. HIDE DEF next
<1>8. \A x \in Nat : Past(visited', x) = IF Past(visited, x) = c THEN Past(visited', c) ELSE Past(visited, x)
  BY <1>1, <1>4, <1>5, PastGrows
<1>9. Past(visited, c) = c
  BY <1>1, <1>4, PastIs
<1>10. Past(visited', c) = IF ins.ops = << >> THEN Past(visited', next) ELSE c
  BY <1>1, <1>5, <1>7, PastIs
<1>11. phase' = "fallthru" => next \notin DOMAIN visited' /\ Past(visited', next) = next
  <2>1. phase' = "fallthru" => next \notin DOMAIN visited'
    BY <1>1 DEF IInv, Ahead
  <2>. QED BY <1>1, <1>5, <2>1, PastIs
<1>12. ASSUME NEW x \in Nat, target(visited', x) \in startblock' PROVE Marked(x)'
  <2>1. target(visited', x) = IF Past(visited', x) \in DOMAIN visited' THEN <<Past(visited', x), 1>> ELSE NoOp
    BY <1>5, TargetIs
  <2>2. NoOp \notin startblock'
    <3>1. (IInv /\ phase # "thrown" => NoOp \notin startblock)'
      BY NoOpIsNoStart, PTL
    <3>. QED BY <1>1, <3>1 DEF NoOp, eaddr
  <2>. QED BY <1>12, <2>1, <2>2 DEF Marked
<1>. QED BY <1>1, <1>4, <1>5, <1>6, <1>7, <1>8, <1>9, <1>10, <1>11, <1>12 DEF next

\* What is marked stays marked.
LEMMA MarkedStays ==
  ASSUME IInv, IInv', TidyCode, NEW c, NEW ins, Decodes(c, ins), NEW x \in Nat, Marked(x)
  PROVE  Marked(x)'
<1>. DEFINE y == Past(visited, x)
            next == c + ins.size
<1>1. /\ next \in Nat /\ ins.ops \in Seq(PcodeOp)
      /\ Past(visited', x) = IF y = c THEN Past(visited', c) ELSE y
      /\ ins.ops # << >> => Past(visited', c) = c
      /\ ins.ops = << >> => Past(visited', c) = Past(visited', next)
      /\ phase' = "fallthru" => Past(visited', next) = next
      /\ target(visited', next) \in startblock' => Marked(next)'
  BY WaysGrow
<1>2. /\ phase = "fallthru" /\ c = Last(addrlist) /\ c \notin DOMAIN visited /\ c \notin unknown
      /\ DOMAIN visited' = DOMAIN visited \union {c} /\ unknown' = unknown
      /\ startblock \subseteq startblock' /\ BlockStarts(c, ins.ops) \subseteq startblock'
      /\ startbasic' = StartsBasicAfter(ins.ops)
      /\ \/ phase' = "fallthru" /\ Last(addrlist') = next
         \/ FallsThrough(ins.ops) =>
              (next # bound \/ StartsBasicAfter(ins.ops) => target(visited', next) \in startblock')
      /\ Tidy(ins.ops)
  BY DEF Decodes, TidyCode
<1>. HIDE DEF y, next
<1>3. CASE y # c
  <2>1. (y \in DOMAIN visited /\ <<y, 1>> \in startblock) \/ y \in unknown
    BY <1>2, <1>3 DEF Marked, y
  <2>. QED BY <1>1, <1>2, <1>3, <2>1 DEF Marked
<1>4. CASE y = c
  <2>1. startbasic
    BY <1>2, <1>4 DEF Marked, y
  <2>2. CASE ins.ops # << >>
    <3>1. <<c, 1>> \in startblock'
      BY <1>1, <1>2, <2>1, <2>2, TidyStarts
    <3>. QED BY <1>1, <1>2, <1>4, <2>2, <3>1 DEF Marked
  <2>3. CASE ins.ops = << >>
    <3>1. StartsBasicAfter(ins.ops) = startbasic /\ FallsThrough(ins.ops)
      BY <2>3 DEF StartsBasicAfter, FallsThrough
    <3>2. Past(visited', x) = Past(visited', next)
      BY <1>1, <1>4, <2>3
    <3>3. Marked(next)'
      BY <1>1, <1>2, <2>1, <3>1 DEF Marked
    <3>. QED BY <3>2, <3>3 DEF Marked
  <2>. QED BY <2>2, <2>3
<1>. QED BY <1>3, <1>4

\* When the run ends where control falls through, a block begins there: the run has met
\* another one, and unless a block begins with it, then because something led to the bound
\* before, which cannot be in front of the run.
LEMMA NextMarked ==
  ASSUME IInv, IInv', Bounded, Cutting, TidyCode, NEW c, NEW ins, Decodes(c, ins),
         FallsThrough(ins.ops), phase' = "generate_ops"
  PROVE  Marked(c + ins.size)'
<1>. DEFINE next == c + ins.size
<1>1. /\ next \in Nat /\ c \in Nat
      /\ target(visited', next) \in startblock' => Marked(next)'
      /\ \A a \in DOMAIN visited : a \in Nat /\ end(visited, a) \in Nat
  BY WaysGrow
<1>2. /\ phase = "fallthru" /\ c = Last(addrlist) /\ c \notin DOMAIN visited /\ c < next /\ next < eaddr
      /\ next = bound \/ (next > bound /\ next \in DOMAIN visited)
      /\ next # bound \/ StartsBasicAfter(ins.ops) => target(visited', next) \in startblock'
  BY DEF Decodes
<1>3. \A a \in DOMAIN visited : c < a => bound <= a
  BY <1>2 DEF IInv, Ahead
<1>4. \A a \in DOMAIN visited : a < c => end(visited, a) <= c
  BY <1>2 DEF Cutting, Clear
<1>5. \A a \in DOMAIN visited : a < end(visited, a)
  <2>1. Forward(visited)
    BY WaysGrow
  <2>. QED BY <2>1 DEF Forward
<1>6. bound = eaddr \/ bound \in DOMAIN visited
  BY <1>2 DEF Bounded
<1>. HIDE DEF next
<1>7. CASE next = bound
  <2>1. bound \in DOMAIN visited
    <3>1. eaddr \in Nat
      BY Sizes
    <3>. QED BY <1>1, <1>2, <1>6, <1>7, <3>1
  <2>2. ASSUME NEW p \in DOMAIN visited, end(visited, p) = bound PROVE FALSE
    <3>1. p \in Nat /\ bound \in Nat /\ p < bound /\ c < bound
      BY <1>1, <1>2, <1>5, <1>7, <2>2
    <3>2. ~(c < p)
      BY <1>3, <3>1
    <3>3. p # c
      BY <1>2
    <3>4. p < c
      BY <1>1, <3>1, <3>2, <3>3
    <3>5. bound <= c
      BY <1>4, <2>2, <3>4
    <3>. QED BY <1>1, <3>1, <3>5
  <2>3. Marked(bound)
    BY <2>1, <2>2 DEF Cutting, Led
  <2>4. Marked(next)
    BY <1>7, <2>3
  <2>. QED BY <1>1, <2>4, MarkedStays DEF next
<1>8. CASE next # bound
  BY <1>1, <1>2, <1>8 DEF next
<1>. QED BY <1>7, <1>8

LEMMA ClearGrows ==
  ASSUME IInv, IInv', Cutting, NEW c, NEW ins, Decodes(c, ins)
  PROVE  Clear'
<1>. DEFINE next == c + ins.size
<1>1. /\ next \in Nat /\ c \in Nat
      /\ \A a \in DOMAIN visited : a \in Nat /\ end(visited, a) \in Nat /\ end(visited', a) = end(visited, a)
      /\ end(visited', c) = next
      /\ phase' = "fallthru" => next \notin DOMAIN visited'
  BY WaysGrow
<1>2. /\ phase = "fallthru" /\ c = Last(addrlist) /\ c \notin unknown /\ c < next
      /\ DOMAIN visited' = DOMAIN visited \union {c} /\ unknown' = unknown
      /\ phase' = "fallthru" => /\ Last(addrlist') = next
                                /\ next > bound => ~InTheMiddle(next)
  BY DEF Decodes
<1>3. unknown' \intersect DOMAIN visited' = {}
  BY <1>2 DEF Cutting, Clear
<1>4. bound \in Nat
  BY Sizes DEF IInv, Types
<1>. HIDE DEF next
<1>5. ASSUME phase' = "fallthru", NEW a \in DOMAIN visited', a < next PROVE end(visited', a) <= next
  <2>1. CASE a = c
    BY <1>1, <2>1
  <2>2. CASE a \in DOMAIN visited /\ a < c
    <3>1. end(visited, a) <= c
      BY <1>2, <2>2 DEF Cutting, Clear
    <3>. QED BY <1>1, <1>2, <2>2, <3>1
  <2>3. CASE a \in DOMAIN visited /\ c < a
    <3>1. bound <= a
      BY <1>2, <2>3 DEF IInv, Ahead
    <3>2. next > bound
      BY <1>1, <1>4, <1>5, <2>3, <3>1
    <3>3. next \notin DOMAIN visited /\ ~InTheMiddle(next)
      BY <1>1, <1>2, <1>5, <3>2
    <3>4. end(visited, a) <= next
      BY <1>1, <1>5, <2>3, <3>3, NoneInTheMiddle
    <3>. QED BY <1>1, <2>3, <3>4
  <2>. QED BY <1>1, <1>2, <2>1, <2>2, <2>3
<1>. QED BY <1>2, <1>3, <1>5 DEF Clear

LEMMA LedGrows ==
  ASSUME IInv, IInv', Cutting, TidyCode, NEW c, NEW ins, Decodes(c, ins)
  PROVE  Led'
<1>1. /\ c \in Nat /\ Past(visited, c) = c
      /\ \A a \in DOMAIN visited : a \in Nat /\ end(visited', a) = end(visited, a)
      /\ end(visited', c) = c + ins.size
  BY WaysGrow
<1>2. /\ phase = "fallthru" /\ c = Last(addrlist)
      /\ DOMAIN visited' = DOMAIN visited \union {c}
      /\ phase' = "fallthru" => Last(addrlist') = c + ins.size
  BY DEF Decodes
<1>3. ASSUME NEW b \in DOMAIN visited' PROVE Marked(b)' \/ \E p \in DOMAIN visited' : end(visited', p) = b
  <2>1. Marked(b) \/ \E p \in DOMAIN visited : end(visited, p) = b
    <3>1. CASE b \in DOMAIN visited
      BY <3>1 DEF Cutting, Led
    <3>2. CASE b = c
      <4>1. startbasic => Marked(c)
        BY <1>1, <1>2 DEF Marked
      <4>. QED BY <1>2, <3>2, <4>1 DEF Cutting, Led
    <3>. QED BY <1>2, <3>1, <3>2
  <2>2. b \in Nat
    BY <1>1, <1>2
  <2>. QED BY <1>1, <1>2, <2>1, <2>2, MarkedStays
<1>4. phase' = "fallthru" => \E p \in DOMAIN visited' : end(visited', p) = Last(addrlist')
  BY <1>1, <1>2
<1>. QED BY <1>3, <1>4 DEF Led

LEMMA DestStays ==
  ASSUME NEW c, NEW ins, Decodes(c, ins), NEW x
  PROVE  /\ Dest(x) => Dest(x)'
         /\ \A k \in JumpsAway(ins.ops) : ins.ops[k].to = x => Dest(x)'
<1>1. /\ DOMAIN visited' = DOMAIN visited \union {c} /\ visited'[c] = ins
      /\ \A a \in DOMAIN visited : visited'[a] = visited[a]
  BY DEF Decodes
<1>. QED BY <1>1 DEF Dest

LEMMA AwaitedGrows ==
  ASSUME IInv, IInv', Cutting, TidyCode, NEW c, NEW ins, Decodes(c, ins)
  PROVE  Awaited'
<1>1. /\ phase = "fallthru"
      /\ DOMAIN visited' = DOMAIN visited \union {c} /\ visited'[c] = ins
      /\ \A a \in DOMAIN visited : visited'[a] = visited[a]
      /\ \A k \in JumpsAway(ins.ops) :
           ins.ops[k].to \in DOMAIN visited' => target(visited', ins.ops[k].to) \in startblock'
      /\ \A x : x \in Waiting' <=>
                  x \in Waiting \/ \E k \in JumpsAway(ins.ops) : ins.ops[k].to = x /\ x \notin DOMAIN visited'
  BY DEF Decodes
<1>2. \A x \in Nat : target(visited', x) \in startblock' => Marked(x)'
  BY WaysGrow
<1>3. ASSUME NEW x \in Nat, Dest(x)' PROVE Marked(x)' \/ x \in Waiting'
  <2>1. PICK a \in DOMAIN visited' : \E k \in JumpsAway(visited'[a].ops) : visited'[a].ops[k].to = x
    BY <1>3 DEF Dest
  <2>2. CASE a \in DOMAIN visited
    <3>1. Dest(x)
      BY <1>1, <2>1, <2>2 DEF Dest
    <3>2. Marked(x) \/ x \in Waiting
      BY <3>1 DEF Cutting, Awaited
    <3>. QED BY <1>1, <3>2, MarkedStays
  <2>3. CASE a = c
    <3>1. PICK k \in JumpsAway(ins.ops) : ins.ops[k].to = x
      BY <1>1, <2>1, <2>3
    <3>. QED BY <1>1, <1>2, <3>1
  <2>. QED BY <1>1, <2>2, <2>3
<1>4. ASSUME NEW x \in Waiting' PROVE Dest(x)'
  <2>1. CASE x \in Waiting
    <3>1. deadlist # << >>
      BY <1>1, <2>1 DEF Cutting, Begun
    <3>2. Dest(x)
      BY <2>1, <3>1 DEF Cutting, Awaited
    <3>. QED BY <3>2, DestStays
  <2>2. CASE \E k \in JumpsAway(ins.ops) : ins.ops[k].to = x
    BY <2>2, DestStays
  <2>. QED BY <1>1, <2>1, <2>2
<1>. QED BY <1>3, <1>4 DEF Awaited

LEMMA ListFacts ==
  ASSUME IInv
  PROVE  /\ Len(deadlist) \in Nat /\ DOMAIN deadlist = 1 .. Len(deadlist)
         /\ deadlist # << >> => Len(deadlist) \in DOMAIN deadlist /\ Last(deadlist) = deadlist[Len(deadlist)]
         /\ \A n \in DOMAIN deadlist :
              LET a == deadlist[n][1]
                  k == deadlist[n][2]
              IN  /\ a \in DOMAIN visited /\ k \in DOMAIN visited[a].ops /\ deadlist[n] = <<a, k>>
                  /\ a \in Nat /\ visited[a].ops \in Seq(PcodeOp) /\ end(visited, a) \in Nat
                  /\ visited[a] \in Decodings(a) /\ a \in Addr
<1>1. deadlist \in Seq(Nat \X Nat) /\ Range(deadlist) = OpsOf(visited)
  BY DEF IInv, Ops
<1>2. Len(deadlist) \in Nat /\ DOMAIN deadlist = 1 .. Len(deadlist)
  BY <1>1
<1>3. deadlist # << >> => Len(deadlist) \in DOMAIN deadlist /\ Last(deadlist) = deadlist[Len(deadlist)]
  BY <1>1 DEF Last
<1>4. ASSUME NEW n \in DOMAIN deadlist
      PROVE  \E a \in DOMAIN visited : \E k \in DOMAIN visited[a].ops : deadlist[n] = <<a, k>>
  <2>1. deadlist[n] \in OpsOf(visited)
    BY <1>1 DEF Range
  <2>. QED BY <2>1 DEF OpsOf
<1>5. \A a \in DOMAIN visited : /\ a \in Nat /\ visited[a].ops \in Seq(PcodeOp) /\ end(visited, a) \in Nat
                                /\ visited[a] \in Decodings(a) /\ a \in Addr
  <2>1. DOMAIN visited \subseteq Addr /\ \A a \in DOMAIN visited : visited[a] \in Decodings(a)
    BY DEF IInv, Types
  <2>. QED BY <2>1, ForwardIf
<1>. QED BY <1>2, <1>3, <1>4, <1>5

LEMMA ListGrows ==
  ASSUME IInv, IInv', NEW c, NEW ins, Decodes(c, ins)
  PROVE  /\ Len(ins.ops) \in Nat /\ DOMAIN ins.ops = 1 .. Len(ins.ops)
         /\ Len(deadlist') = Len(deadlist) + Len(ins.ops) /\ DOMAIN deadlist' = 1 .. Len(deadlist) + Len(ins.ops)
         /\ \A n \in DOMAIN deadlist : deadlist'[n] = deadlist[n]
         /\ \A k \in DOMAIN ins.ops : deadlist'[Len(deadlist) + k] = <<c, k>>
         /\ ins.ops = << >> => deadlist' = deadlist
         /\ ins.ops # << >> =>
              Len(ins.ops) \in Nat \ {0} /\ deadlist' # << >> /\ Last(deadlist') = <<c, Len(ins.ops)>>
<1>. DEFINE new == [k \in DOMAIN ins.ops |-> <<c, k>>]
            N == Len(deadlist)
            M == Len(ins.ops)
<1>1. c \in Nat /\ ins.ops \in Seq(PcodeOp)
  BY WaysGrow
<1>2. deadlist' = deadlist \o new
  BY DEF Decodes
<1>3. deadlist \in Seq(Nat \X Nat)
  BY DEF IInv, Ops
<1>4. M \in Nat /\ DOMAIN ins.ops = 1 .. M /\ (ins.ops # << >> => M # 0)
  BY <1>1
<1>5. new \in Seq(Nat \X Nat) /\ Len(new) = M /\ (\A k \in 1 .. M : new[k] = <<c, k>>)
      /\ (ins.ops = << >> => new = << >>)
  <2>1. new \in [1 .. M -> Nat \X Nat]
    BY <1>1, <1>4
  <2>2. \A k \in 1 .. M : new[k] = <<c, k>>
    BY <1>4
  <2>3. DOMAIN new = 1 .. M
    BY <1>4
  <2>4. ins.ops = << >> => M = 0
    BY <1>1
  <2>. HIDE DEF new, M
  <2>5. new \in Seq(Nat \X Nat) /\ Len(new) = M
    BY <1>4, <2>1, <2>3
  <2>. QED BY <2>2, <2>4, <2>5
<1>. HIDE DEF new, M, N
<1>6. /\ Len(deadlist \o new) = N + M
      /\ \A i \in 1 .. N + M : (deadlist \o new)[i] = IF i <= N THEN deadlist[i] ELSE new[i - N]
      /\ deadlist \o new \in Seq(Nat \X Nat)
  BY <1>3, <1>5, ConcatProperties DEF N
<1>7. N \in Nat /\ DOMAIN deadlist = 1 .. N
  BY <1>3 DEF N
<1>8. Len(deadlist') = N + M /\ DOMAIN deadlist' = 1 .. N + M
  BY <1>2, <1>6
<1>9. \A n \in DOMAIN deadlist : deadlist'[n] = deadlist[n]
  BY <1>2, <1>4, <1>6, <1>7
<1>10. \A k \in 1 .. M : deadlist'[N + k] = <<c, k>>
  <2>. TAKE k \in 1 .. M
  <2>1. N + k \in 1 .. N + M /\ ~(N + k <= N) /\ (N + k) - N = k
    BY <1>4, <1>7
  <2>. QED BY <1>2, <1>5, <1>6, <2>1
<1>11. ins.ops = << >> => deadlist' = deadlist
  BY <1>2, <1>3, <1>5
<1>12. ASSUME ins.ops # << >> PROVE M \in Nat \ {0} /\ deadlist' # << >> /\ Last(deadlist') = <<c, M>>
  <2>1. M \in Nat \ {0} /\ M \in 1 .. M
    BY <1>4, <1>12
  <2>2. deadlist' # << >>
    BY <1>7, <1>8, <2>1
  <2>. QED BY <1>8, <1>10, <2>1, <2>2 DEF Last
<1>. QED BY <1>4, <1>8, <1>9, <1>10, <1>11, <1>12 DEF N, M

LEMMA AfterGrows ==
  ASSUME IInv, IInv', NEW c, NEW ins, Decodes(c, ins), NEW a \in DOMAIN visited
  PROVE  /\ After(a) # c => After(a)' = After(a)
         /\ After(a) = c /\ ins.ops # << >> => After(a)' = c
         /\ After(a) = c /\ ins.ops = << >> => After(a)' = Past(visited', c + ins.size)
         /\ LastOp(a)' = LastOp(a)
<1>1. end(visited, a) \in Nat /\ end(visited', a) = end(visited, a)
  BY WaysGrow
<1>2. Past(visited', end(visited, a)) =
        IF Past(visited, end(visited, a)) = c THEN Past(visited', c) ELSE Past(visited, end(visited, a))
  BY <1>1, WaysGrow
<1>3. /\ ins.ops # << >> => Past(visited', c) = c
      /\ ins.ops = << >> => Past(visited', c) = Past(visited', c + ins.size)
  BY WaysGrow
<1>4. visited'[a] = visited[a]
  BY DEF Decodes
<1>. QED BY <1>1, <1>2, <1>3, <1>4 DEF After, LastOp

LEMMA ArrivedGrows ==
  ASSUME IInv, IInv', Cutting, TidyCode, NEW c, NEW ins, Decodes(c, ins)
  PROVE  Arrived'
<1>. SUFFICES ASSUME phase' = "fallthru", deadlist' # << >>
              PROVE  \/ \E a \in DOMAIN visited' :
                          /\ CameFrom(a)' /\ FallsThrough(visited'[a].ops)
                          /\ startbasic' = EndsBlock(visited'[a].ops)
                     \/ /\ startbasic'
                        /\ \E x \in Nat : Dest(x)' /\ Past(visited', x) = Last(addrlist')
  BY DEF Arrived
<1>. DEFINE next == c + ins.size
<1>1. /\ phase = "fallthru" /\ c = Last(addrlist) /\ ins \in Decodings(c) /\ c \in Addr
      /\ DOMAIN visited' = DOMAIN visited \union {c} /\ visited'[c] = ins
      /\ \A a \in DOMAIN visited : visited'[a] = visited[a]
      /\ startbasic' = StartsBasicAfter(ins.ops)
      /\ Last(addrlist') = next /\ FallsThrough(ins.ops)
  BY DEF Decodes
<1>2. /\ ins.ops \in Seq(PcodeOp) /\ Past(visited', next) = next /\ end(visited', c) = next
      /\ \A x \in Nat : Past(visited', x) = IF Past(visited, x) = c THEN Past(visited', c) ELSE Past(visited, x)
      /\ ins.ops = << >> => Past(visited', c) = Past(visited', next)
  BY WaysGrow
<1>. HIDE DEF next
<1>3. CASE ins.ops # << >>
  <2>1. Last(deadlist') = <<c, Len(ins.ops)>>
    BY <1>3, ListGrows
  <2>2. startbasic' = EndsBlock(ins.ops)
    BY <1>1, <1>2, <1>3, TidyFacts DEF TidyCode
  <2>3. CameFrom(c)'
    BY <1>1, <1>2, <2>1 DEF CameFrom, LastOp, After
  <2>. QED BY <1>1, <2>1, <2>2, <2>3
<1>4. CASE ins.ops = << >>
  <2>1. deadlist' = deadlist /\ startbasic' = startbasic /\ Past(visited', c) = next
    BY <1>1, <1>2, <1>4, ListGrows DEF StartsBasicAfter
  <2>2. \/ \E a \in DOMAIN visited :
             CameFrom(a) /\ FallsThrough(visited[a].ops) /\ startbasic = EndsBlock(visited[a].ops)
        \/ startbasic /\ \E x \in Nat : Dest(x) /\ Past(visited, x) = c
    BY <1>1, <2>1 DEF Cutting, Arrived
  <2>3. ASSUME NEW a \in DOMAIN visited, CameFrom(a), FallsThrough(visited[a].ops),
               startbasic = EndsBlock(visited[a].ops)
        PROVE  CameFrom(a)' /\ FallsThrough(visited'[a].ops) /\ startbasic' = EndsBlock(visited'[a].ops)
    <3>1. After(a)' = next /\ LastOp(a)' = LastOp(a)
      <4>1. After(a) = c
        BY <1>1, <2>3 DEF CameFrom
      <4>. QED BY <1>2, <1>4, <4>1, AfterGrows DEF next
    <3>. QED BY <1>1, <2>1, <2>3, <3>1 DEF CameFrom
  <2>4. ASSUME NEW x \in Nat, Dest(x), Past(visited, x) = c PROVE Dest(x)' /\ Past(visited', x) = next
    BY <1>2, <2>1, <2>4, DestStays
  <2>. QED BY <1>1, <2>1, <2>2, <2>3, <2>4
<1>. QED BY <1>3, <1>4

LEMMA FallsOnGrows ==
  ASSUME IInv, IInv', Bounded, Cutting, TidyCode, NEW c, NEW ins, Decodes(c, ins)
  PROVE  FallsOn'
<1>. DEFINE next == c + ins.size
<1>1. /\ phase = "fallthru" /\ c = Last(addrlist) /\ ins \in Decodings(c) /\ c \in Addr
      /\ DOMAIN visited' = DOMAIN visited \union {c} /\ visited'[c] = ins
      /\ \A a \in DOMAIN visited : visited'[a] = visited[a]
      /\ startbasic' = StartsBasicAfter(ins.ops)
      /\ phase' \in {"fallthru", "generate_ops"}
      /\ phase' = "fallthru" => Last(addrlist') = next
      /\ c \notin DOMAIN visited
  BY DEF Decodes
<1>2. /\ ins.ops \in Seq(PcodeOp) /\ end(visited', c) = next /\ next \in Nat
      /\ phase' = "fallthru" => Past(visited', next) = next
      /\ \A a \in DOMAIN visited : end(visited, a) \in Nat /\ end(visited', a) = end(visited, a)
      /\ ins.ops = << >> => Past(visited', c) = Past(visited', next)
      /\ \A x \in Nat : Past(visited', x) = IF Past(visited, x) = c THEN Past(visited', c) ELSE Past(visited, x)
  BY WaysGrow
<1>3. FallsThrough(ins.ops) /\ phase' = "generate_ops" => Marked(next)'
  BY NextMarked
<1>. HIDE DEF next
<1>4. ASSUME NEW a \in DOMAIN visited, visited[a].ops # << >>, FallsThrough(visited[a].ops)
      PROVE  /\ EndsBlock(visited[a].ops) => Marked(end(visited, a))'
             /\ Marked(end(visited, a))' \/ Adjoins(a)' \/ CameFrom(a)'
  <2>. DEFINE x == end(visited, a)
  <2>1. /\ EndsBlock(visited[a].ops) => Marked(x)
        /\ Marked(x) \/ Adjoins(a) \/ CameFrom(a)
    BY <1>4 DEF Cutting, FallsOn
  <2>2. x \in Nat /\ x = end(visited', a) /\ x = end(visited, a)
    BY <1>2
  <2>. HIDE DEF x
  <2>3. Marked(x) => Marked(end(visited, a))'
    <3>1. ASSUME NEW z \in Nat, z = end(visited', a), Marked(z) PROVE Marked(end(visited, a))'
      <4>1. Marked(z)'
        BY <3>1, MarkedStays
      <4>. QED BY <3>1, <4>1 DEF Marked
    <3>. QED BY <2>2, <3>1
  <2>4. ASSUME Adjoins(a) PROVE Adjoins(a)'
    <3>1. PICK n \in 1 .. Len(deadlist) - 1 : deadlist[n] = LastOp(a) /\ deadlist[n + 1] = <<After(a), 1>>
      BY <2>4 DEF Adjoins
    <3>2. After(a) # c /\ After(a) \in DOMAIN visited
      BY <1>1, <2>4 DEF Adjoins
    <3>3. After(a)' = After(a) /\ LastOp(a)' = LastOp(a)
      BY <3>2, AfterGrows
    <3>4. n \in DOMAIN deadlist /\ n + 1 \in DOMAIN deadlist
      BY ListFacts
    <3>5. deadlist'[n] = deadlist[n] /\ deadlist'[n + 1] = deadlist[n + 1]
      BY <3>4, ListGrows
    <3>6. n \in 1 .. Len(deadlist') - 1
      <4>1. /\ Len(deadlist') = Len(deadlist) + Len(ins.ops)
            /\ Len(deadlist) \in Nat /\ Len(ins.ops) \in Nat
        BY ListFacts, ListGrows
      <4>. QED BY <4>1
    <3>. QED BY <1>1, <3>1, <3>2, <3>3, <3>5, <3>6 DEF Adjoins
  <2>5. ASSUME CameFrom(a) PROVE Marked(end(visited, a))' \/ Adjoins(a)' \/ CameFrom(a)'
    <3>1. deadlist # << >> /\ Last(deadlist) = LastOp(a) /\ After(a) = c
      BY <1>1, <2>5 DEF CameFrom
    <3>2. CASE ins.ops # << >>
      <4>1. After(a)' = c /\ LastOp(a)' = LastOp(a)
        BY <3>1, <3>2, AfterGrows
      <4>2. /\ Len(deadlist) \in DOMAIN deadlist /\ deadlist[Len(deadlist)] = LastOp(a)
        BY <3>1, ListFacts
      <4>3. /\ Len(deadlist) \in 1 .. Len(deadlist') - 1 /\ deadlist'[Len(deadlist)] = LastOp(a)
            /\ deadlist'[Len(deadlist) + 1] = <<c, 1>>
        <5>1. /\ Len(deadlist') = Len(deadlist) + Len(ins.ops) /\ Len(ins.ops) \in Nat \ {0}
              /\ Len(deadlist) \in Nat /\ DOMAIN deadlist = 1 .. Len(deadlist)
          BY <3>2, ListFacts, ListGrows
        <5>2. Len(deadlist) \in 1 .. Len(deadlist') - 1
          BY <4>2, <5>1
        <5>3. 1 \in DOMAIN ins.ops
          BY <5>1, ListGrows
        <5>4. deadlist'[Len(deadlist)] = LastOp(a) /\ deadlist'[Len(deadlist) + 1] = <<c, 1>>
          BY <4>2, <5>3, ListGrows
        <5>. QED BY <5>2, <5>4
      <4>. QED BY <1>1, <4>1, <4>3 DEF Adjoins
    <3>3. CASE ins.ops = << >>
      <4>1. After(a)' = Past(visited', next) /\ LastOp(a)' = LastOp(a) /\ deadlist' = deadlist
        BY <3>1, <3>3, AfterGrows, ListGrows DEF next
      <4>2. CASE phase' = "fallthru"
        BY <1>1, <1>2, <3>1, <4>1, <4>2 DEF CameFrom
      <4>3. CASE phase' = "generate_ops"
        <5>1. Marked(next)'
          BY <1>3, <3>3, <4>3 DEF FallsThrough
        <5>2. Past(visited', end(visited', a)) = Past(visited', next)
          BY <4>1 DEF After
        <5>. QED BY <5>1, <5>2 DEF Marked
      <4>. QED BY <1>1, <4>2, <4>3
    <3>. QED BY <3>2, <3>3
  <2>. QED BY <2>1, <2>3, <2>4, <2>5
<1>5. ASSUME ins.ops # << >>, FallsThrough(ins.ops), NEW a, a = c
      PROVE  /\ EndsBlock(ins.ops) => Marked(end(visited, a))'
             /\ Marked(end(visited, a))' \/ CameFrom(a)'
  <2>1. startbasic' = EndsBlock(ins.ops)
    BY <1>1, <1>2, <1>5, TidyFacts DEF TidyCode
  <2>2. end(visited', a) = next /\ visited'[a] = ins
    BY <1>1, <1>2, <1>5
  <2>3. CASE phase' = "generate_ops"
    BY <1>3, <1>5, <2>2, <2>3 DEF Marked
  <2>4. CASE phase' = "fallthru"
    <3>1. deadlist' # << >> /\ Last(deadlist') = <<a, Len(ins.ops)>>
      BY <1>5, ListGrows
    <3>2. CameFrom(a)'
      BY <1>1, <1>2, <2>2, <2>4, <3>1 DEF CameFrom, LastOp, After
    <3>3. EndsBlock(ins.ops) => Marked(end(visited, a))'
      BY <1>1, <1>2, <2>1, <2>2, <2>4 DEF Marked
    <3>. QED BY <3>2, <3>3
  <2>. QED BY <1>1, <2>3, <2>4
<1>6. ASSUME NEW a \in DOMAIN visited', visited'[a].ops # << >>, FallsThrough(visited'[a].ops)
      PROVE  /\ EndsBlock(visited'[a].ops) => Marked(end(visited, a))'
             /\ Marked(end(visited, a))' \/ Adjoins(a)' \/ CameFrom(a)'
  <2>1. CASE a \in DOMAIN visited
    <3>1. visited'[a] = visited[a]
      BY <1>1, <2>1
    <3>. QED BY <1>4, <1>6, <2>1, <3>1
  <2>2. CASE a = c
    BY <1>1, <1>5, <1>6, <2>2
  <2>. QED BY <1>1, <2>1, <2>2
<1>. QED BY <1>6 DEF FallsOn

LEMMA NeighboursGrow ==
  ASSUME IInv, IInv', Cutting, TidyCode, NEW c, NEW ins, Decodes(c, ins)
  PROVE  Neighbours'
<1>. DEFINE N == Len(deadlist)
            M == Len(ins.ops)
<1>1. /\ phase = "fallthru" /\ c = Last(addrlist) /\ ins \in Decodings(c) /\ c \in Addr
      /\ DOMAIN visited' = DOMAIN visited \union {c} /\ visited'[c] = ins
      /\ \A a \in DOMAIN visited : visited'[a] = visited[a]
      /\ c \notin DOMAIN visited
      /\ startblock \subseteq startblock' /\ BlockStarts(c, ins.ops) \subseteq startblock'
  BY DEF Decodes
<1>2. N \in Nat /\ DOMAIN deadlist = 1 .. N
  BY ListFacts
<1>3. /\ M \in Nat /\ DOMAIN ins.ops = 1 .. M /\ Len(deadlist') = N + M /\ DOMAIN deadlist' = 1 .. N + M
      /\ \A n \in 1 .. N : deadlist'[n] = deadlist[n]
      /\ \A k \in 1 .. M : deadlist'[N + k] = <<c, k>>
  BY <1>2, ListGrows
<1>4. ins.ops \in Seq(PcodeOp) /\ (ins.ops = << >> => M = 0)
  BY WaysGrow
<1>. HIDE DEF N, M
<1>5. ASSUME NEW n \in 1 .. N, NEW a, NEW k, a = deadlist[n][1], k = deadlist[n][2]
      PROVE  /\ k < Len(visited'[a].ops) => n < N + M /\ deadlist'[n + 1] = <<a, k + 1>>
             /\ k = Len(visited'[a].ops) /\ n < N + M =>
                  \/ deadlist'[n + 1] \in startblock'
                  \/ /\ FallsThrough(visited'[a].ops) /\ ~EndsBlock(visited'[a].ops)
                     /\ After(a)' \in DOMAIN visited' /\ deadlist'[n + 1] = <<After(a)', 1>>
  <2>1. a \in DOMAIN visited /\ visited'[a] = visited[a] /\ deadlist[n] = <<a, k>>
    BY <1>1, <1>2, <1>5, ListFacts
  <2>2. /\ k < Len(visited[a].ops) => n < N /\ deadlist[n + 1] = <<a, k + 1>>
        /\ k = Len(visited[a].ops) /\ n < N =>
             \/ deadlist[n + 1] \in startblock
             \/ /\ FallsThrough(visited[a].ops) /\ ~EndsBlock(visited[a].ops)
                /\ After(a) \in DOMAIN visited /\ deadlist[n + 1] = <<After(a), 1>>
    BY <1>2, <1>5 DEF Cutting, Neighbours, N
  <2>3. n < N => deadlist'[n + 1] = deadlist[n + 1] /\ n < N + M
    BY <1>2, <1>3
  <2>4. CASE n < N
    <3>1. After(a) \in DOMAIN visited => After(a)' = After(a)
      <4>1. After(a) \in DOMAIN visited => After(a) # c
        BY <1>1
      <4>. QED BY <2>1, <4>1, AfterGrows
    <3>. QED BY <1>1, <2>1, <2>2, <2>3, <2>4, <3>1
  <2>5. CASE n = N /\ n < N + M
    <3>1. ins.ops # << >> /\ 1 \in 1 .. M
      BY <1>2, <1>3, <1>4, <2>5
    <3>2. deadlist'[n + 1] = <<c, 1>>
      BY <1>3, <2>5, <3>1
    <3>3. deadlist # << >> /\ Last(deadlist) = <<a, k>>
      <4>1. N # 0
        BY <1>2, <2>5
      <4>2. deadlist # << >>
        BY <4>1 DEF N
      <4>. QED BY <2>1, <2>5, <4>2, ListFacts DEF N
    <3>4. \/ \E b \in DOMAIN visited :
               CameFrom(b) /\ FallsThrough(visited[b].ops) /\ startbasic = EndsBlock(visited[b].ops)
          \/ startbasic
      BY <1>1, <3>3 DEF Cutting, Arrived
    <3>5. startbasic => <<c, 1>> \in startblock'
      BY <1>1, <1>4, <3>1, TidyStarts DEF TidyCode
    <3>6. ASSUME NEW b \in DOMAIN visited, CameFrom(b), FallsThrough(visited[b].ops), ~EndsBlock(visited[b].ops)
          PROVE  /\ FallsThrough(visited'[a].ops) /\ ~EndsBlock(visited'[a].ops)
                 /\ After(a)' \in DOMAIN visited' /\ deadlist'[n + 1] = <<After(a)', 1>>
      <4>1. b = a /\ After(b) = c
        BY <1>1, <3>3, <3>6 DEF CameFrom, LastOp
      <4>2. After(a)' = c
        BY <2>1, <3>1, <4>1, AfterGrows
      <4>. QED BY <1>1, <2>1, <3>2, <3>6, <4>1, <4>2
    <3>7. ~(k < Len(visited[a].ops))
      BY <1>2, <2>2, <2>5
    <3>. QED BY <2>1, <3>2, <3>4, <3>5, <3>6, <3>7
  <2>6. CASE n = N /\ ~(n < N + M)
    BY <1>2, <2>1, <2>2, <2>6
  <2>. QED BY <1>2, <2>4, <2>5, <2>6
<1>6. ASSUME NEW m \in 1 .. M, NEW a, NEW k, a = deadlist'[N + m][1], k = deadlist'[N + m][2]
      PROVE  /\ k < Len(visited'[a].ops) => N + m < N + M /\ deadlist'[(N + m) + 1] = <<a, k + 1>>
             /\ ~(k = Len(visited'[a].ops) /\ N + m < N + M)
  <2>1. a = c /\ k = m /\ Len(visited'[a].ops) = M
    BY <1>1, <1>3, <1>6 DEF M
  <2>2. m < M => m + 1 \in 1 .. M /\ (N + m) + 1 = N + (m + 1)
    BY <1>2, <1>3
  <2>3. m < M => deadlist'[(N + m) + 1] = <<c, m + 1>>
    BY <1>3, <2>2
  <2>. QED BY <1>2, <1>3, <2>1, <2>3
<1>7. ASSUME NEW n \in DOMAIN deadlist', NEW a, NEW k, a = deadlist'[n][1], k = deadlist'[n][2]
      PROVE  /\ k < Len(visited'[a].ops) => n < Len(deadlist') /\ deadlist'[n + 1] = <<a, k + 1>>
             /\ k = Len(visited'[a].ops) /\ n < Len(deadlist') =>
                  \/ deadlist'[n + 1] \in startblock'
                  \/ /\ FallsThrough(visited'[a].ops) /\ ~EndsBlock(visited'[a].ops)
                     /\ After(a)' \in DOMAIN visited' /\ deadlist'[n + 1] = <<After(a)', 1>>
  <2>1. CASE n \in 1 .. N
    <3>1. deadlist'[n] = deadlist[n] /\ Len(deadlist') = N + M
      BY <1>3, <2>1
    <3>2. a = deadlist[n][1] /\ k = deadlist[n][2]
      BY <1>7, <3>1
    <3>. QED BY <1>5, <2>1, <3>1, <3>2
  <2>2. CASE n \notin 1 .. N
    <3>1. n \in Nat /\ Len(deadlist') = N + M
      BY <1>2, <1>3
    <3>. DEFINE m == n - N
    <3>2. m \in 1 .. M /\ n = N + m
      BY <1>2, <1>3, <2>2
    <3>. HIDE DEF m
    <3>3. a = deadlist'[N + m][1] /\ k = deadlist'[N + m][2]
      BY <1>7, <3>2
    <3>4. /\ k < Len(visited'[a].ops) => N + m < N + M /\ deadlist'[(N + m) + 1] = <<a, k + 1>>
          /\ ~(k = Len(visited'[a].ops) /\ N + m < N + M)
      BY <1>6, <3>2, <3>3
    <3>. HIDE DEF N, M
    <3>. QED BY <3>1, <3>2, <3>4
  <2>. QED BY <2>1, <2>2
<1>. QED BY <1>7 DEF Neighbours, After

LEMMA CutGrows ==
  ASSUME IInv, IInv', Cutting, TidyCode, NEW c, NEW ins, Decodes(c, ins)
  PROVE  Cut'
<1>1. /\ ins \in Decodings(c) /\ c \in Addr
      /\ DOMAIN visited' = DOMAIN visited \union {c} /\ visited'[c] = ins
      /\ \A a \in DOMAIN visited : visited'[a] = visited[a]
      /\ startblock \subseteq startblock' /\ BlockStarts(c, ins.ops) \subseteq startblock'
  BY DEF Decodes
<1>2. ins.ops \in Seq(PcodeOp)
  BY WaysGrow
<1>3. ASSUME NEW a \in DOMAIN visited', NEW ops, ops = visited'[a].ops
      PROVE  /\ \A k \in 1 .. Len(ops) - 1 : ops[k].opcode \in StartsBasic => <<a, k + 1>> \in startblock'
             /\ \A t \in RelTargets(ops, Len(ops)) \intersect DOMAIN ops : <<a, t>> \in startblock'
  <2>1. CASE a \in DOMAIN visited
    BY <1>1, <1>3, <2>1 DEF Cutting, Cut
  <2>2. CASE a = c /\ ops # << >>
    BY <1>1, <1>2, <1>3, <2>2, TidyStarts DEF TidyCode
  <2>3. CASE a = c /\ ops = << >>
    <3>1. Len(ops) = 0 /\ DOMAIN ops = {}
      BY <2>3
    <3>. QED BY <3>1
  <2>. QED BY <1>1, <2>1, <2>2, <2>3
<1>. QED BY <1>3 DEF Cut

LEMMA LeftGrows ==
  ASSUME IInv, IInv', Cutting, TidyCode, NEW c, NEW ins, Decodes(c, ins)
  PROVE  Left'
<1>1. /\ ins \in Decodings(c) /\ c \in Addr /\ c \notin unknown
      /\ DOMAIN visited' = DOMAIN visited \union {c} /\ visited'[c] = ins
      /\ \A a \in DOMAIN visited : visited'[a] = visited[a]
      /\ unknown' = unknown
      /\ exit' = exit \union {<<c, k>> : k \in ExitsOf(ins.ops)}
  BY DEF Decodes
<1>2. /\ ins.ops \in Seq(PcodeOp)
      /\ \A x \in Nat : Past(visited', x) = IF Past(visited, x) = c THEN Past(visited', c) ELSE Past(visited, x)
  BY WaysGrow
<1>3. ASSUME NEW op \in exit', opcode(op)' = "OP"
      PROVE  \/ op = LastOp(op[1])' /\ After(op[1])' \in unknown'
             \/ \E x \in Nat : Dest(x)' /\ Past(visited', x) \in unknown'
  <2>1. CASE op \in exit
    <3>1. op \in OpsOf(visited)
      BY <2>1 DEF IInv, Ops
    <3>2. op[1] \in DOMAIN visited /\ visited'[op[1]] = visited[op[1]]
      BY <1>1, <3>1 DEF OpsOf
    <3>3. opcode(op) = "OP"
      BY <1>3, <3>2 DEF opcode
    <3>4. \/ op = LastOp(op[1]) /\ After(op[1]) \in unknown
          \/ \E x \in Nat : Dest(x) /\ Past(visited, x) \in unknown
      BY <2>1, <3>3 DEF Cutting, Left
    <3>5. ASSUME NEW a, a = op[1], op = LastOp(a), After(a) \in unknown
          PROVE  op = LastOp(a)' /\ After(a)' \in unknown'
      <4>1. a \in DOMAIN visited /\ After(a) # c
        BY <1>1, <3>2, <3>5
      <4>. QED BY <1>1, <3>5, <4>1, AfterGrows
    <3>6. ASSUME NEW x \in Nat, Dest(x), Past(visited, x) \in unknown
          PROVE  Dest(x)' /\ Past(visited', x) \in unknown'
      BY <1>1, <1>2, <3>6, DestStays
    <3>. QED BY <3>4, <3>5, <3>6
  <2>2. CASE \E k \in ExitsOf(ins.ops) : op = <<c, k>>
    <3>1. opcode(op)' \in Exits
      BY <1>1, <2>2 DEF opcode, ExitsOf
    <3>. QED BY <1>3, <3>1 DEF Exits
  <2>. QED BY <1>1, <2>1, <2>2
<1>4. ASSUME NEW a \in DOMAIN visited', NEW k \in DOMAIN visited'[a].ops,
             visited'[a].ops[k].opcode = "NORETURN_CALL"
      PROVE  <<a, k>> \in exit'
  <2>1. CASE a \in DOMAIN visited
    BY <1>1, <1>4, <2>1 DEF Cutting, Left
  <2>2. CASE a = c
    <3>1. ins.ops # << >> /\ k \in DOMAIN ins.ops /\ ins.ops[k].opcode = "NORETURN_CALL"
      BY <1>1, <1>4, <2>2
    <3>2. Walked(ins.ops) = DOMAIN ins.ops
      BY <1>1, <1>2, <3>1, TidyFacts DEF TidyCode
    <3>3. k \in ExitsOf(ins.ops)
      BY <3>1, <3>2 DEF ExitsOf, Exits
    <3>. QED BY <1>1, <2>2, <3>3
  <2>. QED BY <1>1, <2>1, <2>2
<1>. QED BY <1>3, <1>4 DEF Left

LEMMA BegunGrows ==
  ASSUME IInv, IInv', Cutting, NEW c, NEW ins, Decodes(c, ins)
  PROVE  Begun'
<1>. DEFINE next == c + ins.size
<1>1. /\ phase = "fallthru" /\ c = Last(addrlist) /\ next \in Nat /\ next < eaddr /\ c \notin DOMAIN visited
      /\ DOMAIN visited' = DOMAIN visited \union {c} /\ visited'[c] = ins
      /\ startbasic' = StartsBasicAfter(ins.ops)
      /\ \A x : x \in Waiting' <=>
                  x \in Waiting \/ \E k \in JumpsAway(ins.ops) : ins.ops[k].to = x /\ x \notin DOMAIN visited'
      /\ \/ /\ phase' = "fallthru" /\ Last(addrlist') = next
            /\ bound' = IF next > bound THEN NextVisited(next) ELSE bound
         \/ FallsThrough(ins.ops) => next = bound \/ next > bound
  BY DEF Decodes
<1>2. /\ ins.ops \in Seq(PcodeOp)
      /\ \A x \in Nat : Past(visited', x) = IF Past(visited, x) = c THEN Past(visited', c) ELSE Past(visited, x)
      /\ ins.ops # << >> => Past(visited', c) = c
      /\ ins.ops = << >> => Past(visited', c) = Past(visited', next)
      /\ phase' = "fallthru" => Past(visited', next) = next
  BY WaysGrow
<1>. HIDE DEF next
<1>3. CASE deadlist # << >>
  <2>1. Past(visited, 0) \in DOMAIN visited /\ deadlist[1] = <<Past(visited, 0), 1>>
    BY <1>3 DEF Cutting, Begun
  <2>2. Past(visited', 0) = Past(visited, 0)
    BY <1>1, <1>2, <2>1
  <2>3. 1 \in DOMAIN deadlist
    <3>1. Len(deadlist) \in Nat /\ DOMAIN deadlist = 1 .. Len(deadlist) /\ Len(deadlist) \in DOMAIN deadlist
      BY <1>3, ListFacts
    <3>. QED BY <3>1
  <2>4. deadlist'[1] = deadlist[1]
    BY <2>3, ListGrows
  <2>5. deadlist' # << >>
    <3>1. 1 \in DOMAIN deadlist'
      <4>1. /\ DOMAIN deadlist' = 1 .. Len(deadlist) + Len(ins.ops) /\ Len(ins.ops) \in Nat
            /\ Len(deadlist) \in Nat /\ DOMAIN deadlist = 1 .. Len(deadlist)
        BY ListFacts, ListGrows
      <4>. QED BY <2>3, <4>1
    <3>. QED BY <3>1
  <2>. QED BY <1>1, <2>1, <2>2, <2>4, <2>5 DEF Begun
<1>4. CASE deadlist = << >>
  <2>1. Past(visited, 0) = c /\ Waiting = {} /\ startbasic /\ bound = eaddr
    BY <1>1, <1>4 DEF Cutting, Begun
  <2>2. Past(visited', 0) = Past(visited', c)
    BY <1>2, <2>1
  <2>3. CASE ins.ops # << >>
    <3>1. Len(deadlist) = 0 /\ 1 \in DOMAIN ins.ops /\ 0 + 1 = 1
      BY <1>2, <1>4, <2>3
    <3>2. deadlist'[0 + 1] = <<c, 1>> /\ deadlist' # << >>
      BY <2>3, <3>1, ListGrows
    <3>. QED BY <1>1, <1>2, <2>2, <2>3, <3>1, <3>2 DEF Begun
  <2>4. CASE ins.ops = << >>
    <3>1. deadlist' = << >> /\ startbasic' = TRUE /\ FallsThrough(ins.ops) /\ JumpsAway(ins.ops) = {}
      <4>1. DOMAIN ins.ops = {}
        BY <2>4
      <4>2. JumpsAway(ins.ops) = {}
        BY <4>1 DEF JumpsAway
      <4>3. startbasic' = startbasic
        BY <1>1, <2>4 DEF StartsBasicAfter
      <4>4. startbasic \in BOOLEAN
        BY DEF IInv, Types
      <4>. QED BY <1>4, <2>1, <2>4, <4>2, <4>3, <4>4, ListGrows DEF FallsThrough
    <3>2. ~(next > bound) /\ next # bound
      BY <1>1, <2>1, Sizes
    <3>3. phase' = "fallthru" /\ Last(addrlist') = next /\ bound' = eaddr'
      BY <1>1, <2>1, <3>1, <3>2 DEF eaddr
    <3>4. Waiting' = {}
      BY <1>1, <2>1, <3>1
    <3>5. Past(visited', 0) = Last(addrlist')
      BY <1>2, <2>2, <2>4, <3>3
    <3>. QED BY <3>1, <3>3, <3>4, <3>5 DEF Begun
  <2>. QED BY <2>3, <2>4
<1>. QED BY <1>3, <1>4

LEMMA ProcessFlow ==
  ASSUME IInv, IInv', Bounded, Flow, TidyCode, Process
  PROVE  Flow'
<1>1. phase = "fallthru" /\ phase' \in {"thrown", "fallthru", "generate_ops"}
  BY DEF Process, ProcessInstruction
<1>2. ASSUME phase' # "thrown" PROVE Cutting'
  <2>1. Cutting
    BY <1>1 DEF Flow
  <2>2. PICK c : \E ins : Decodes(c, ins)
    BY <1>2, <2>1, ProcessDecodes
  <2>3. PICK ins : Decodes(c, ins)
    BY <2>2
  <2>. QED BY <2>1, <2>3, ClearGrows, LedGrows, AwaitedGrows, FallsOnGrows, NeighboursGrow, ArrivedGrows,
              CutGrows, LeftGrows, BegunGrows DEF Cutting
<1>. QED BY <1>1, <1>2 DEF Flow, MadeBlocks

LEMMA StartRunFlow ==
  ASSUME IInv, IInv', Flow, StartRun
  PROVE  Flow'
<1>. DEFINE addr == Last(addrlist)
<1>1. /\ phase = "generate_ops" /\ addrlist \in Seq(Nat) /\ addrlist # << >>
      /\ UNCHANGED <<visited, unknown, deadlist, exit>> /\ Cutting
  BY DEF StartRun, Flow, IInv, Types
<1>2. /\ Front(addrlist) \in Seq(Nat) /\ addr \in Nat
      /\ Range(addrlist) = Range(Front(addrlist)) \union {addr}
  BY <1>1, FrontAndLast
<1>3. CASE phase' = "thrown"
  BY <1>3 DEF Flow, MadeBlocks
<1>4. CASE phase' # "thrown"
  <2>1. /\ startblock \subseteq startblock' /\ phase' \in {"generate_ops", "fallthru"}
        /\ Waiting' = Range(Front(addrlist))
        /\ addr \in DOMAIN visited => phase' = "generate_ops" /\ target(visited, addr) \in startblock'
        /\ addr \notin DOMAIN visited =>
             /\ phase' = "fallthru" /\ addrlist' = addrlist /\ ~InTheMiddle(addr)
             /\ bound' = NextVisited(addr) /\ startbasic' = TRUE
    <3>1. CASE addr \in DOMAIN visited
      <4>1. /\ addrlist' = Front(addrlist) /\ startblock' = startblock \union {target(visited, addr)}
            /\ phase' = "generate_ops"
        BY <1>1, <1>4, <3>1 DEF StartRun
      <4>. QED BY <3>1, <4>1 DEF Waiting
    <3>2. CASE addr \notin DOMAIN visited
      <4>1. /\ addrlist' = addrlist /\ startblock' = startblock
            /\ phase' = "fallthru" /\ ~InTheMiddle(addr) /\ bound' = NextVisited(addr) /\ startbasic' = TRUE
        BY <1>1, <1>4, <3>2 DEF StartRun
      <4>. QED BY <3>2, <4>1 DEF Waiting
    <3>. QED BY <3>1, <3>2
  <2>2. /\ Forward(visited) /\ \A a \in DOMAIN visited : a \in Nat
    <3>1. DOMAIN visited \subseteq Addr /\ \A a \in DOMAIN visited : visited[a] \in Decodings(a)
      BY DEF IInv, Types
    <3>. QED BY <3>1, ForwardIf
  <2>3. addr \notin DOMAIN visited => Past(visited, addr) = addr
    BY <1>2, <2>2, PastIs
  <2>4. \A x : Marked(x) => Marked(x)'
    BY <1>1, <2>1 DEF Marked
  <2>5. ASSUME NEW x \in Nat, x = addr PROVE Marked(x)'
    <3>1. CASE addr \in DOMAIN visited
      <4>1. target(visited, x) = IF Past(visited, x) \in DOMAIN visited THEN <<Past(visited, x), 1>> ELSE NoOp
        BY <2>2, TargetIs
      <4>2. NoOp \notin startblock'
        <5>1. (IInv /\ phase # "thrown" => NoOp \notin startblock)'
          BY NoOpIsNoStart, PTL
        <5>. QED BY <1>4, <5>1 DEF NoOp, eaddr
      <4>. QED BY <1>1, <2>1, <2>5, <3>1, <4>1, <4>2 DEF Marked
    <3>2. CASE addr \notin DOMAIN visited
      BY <1>1, <2>1, <2>3, <2>5, <3>2 DEF Marked
    <3>. QED BY <3>1, <3>2
  <2>. HIDE DEF addr
  <2>6. Clear'
    <3>1. unknown' \intersect DOMAIN visited' = {}
      BY <1>1 DEF Cutting, Clear
    <3>2. ASSUME phase' = "fallthru", NEW a \in DOMAIN visited, a < addr PROVE end(visited, a) <= addr
      <4>1. addr \notin DOMAIN visited /\ ~InTheMiddle(addr)
        BY <2>1, <3>2
      <4>. QED BY <1>2, <3>2, <4>1, NoneInTheMiddle
    <3>. QED BY <1>1, <2>1, <3>1, <3>2 DEF Clear, end, addr
  <2>7. Led'
    BY <1>1, <2>1, <2>4 DEF Cutting, Led, end
  <2>8. Awaited'
    <3>1. Waiting = Waiting' \union {addr}
      BY <1>1, <1>2, <2>1 DEF Waiting
    <3>2. \A x : Dest(x)' <=> Dest(x)
      BY <1>1 DEF Dest
    <3>3. ASSUME NEW x \in Nat, Dest(x) PROVE Marked(x)' \/ x \in Waiting'
      <4>1. CASE x = addr
        BY <2>5, <4>1
      <4>2. CASE x # addr
        BY <1>1, <2>4, <3>1, <3>3, <4>2 DEF Cutting, Awaited
      <4>. QED BY <4>1, <4>2
    <3>4. deadlist # << >> => \A x \in Waiting' : Dest(x)
      BY <1>1, <3>1 DEF Cutting, Awaited
    <3>. QED BY <1>1, <3>2, <3>3, <3>4 DEF Awaited
  <2>9. FallsOn'
    <3>1. ASSUME NEW a \in DOMAIN visited, visited[a].ops # << >>, FallsThrough(visited[a].ops)
          PROVE  /\ EndsBlock(visited[a].ops) => Marked(end(visited, a))
                 /\ Marked(end(visited, a)) \/ Adjoins(a)
      BY <1>1, <3>1 DEF Cutting, FallsOn, CameFrom
    <3>2. \A a \in DOMAIN visited : Marked(end(visited, a)) => Marked(end(visited, a))'
      BY <1>1, <2>1 DEF Marked, end
    <3>3. \A a \in DOMAIN visited : Adjoins(a) => Adjoins(a)'
      BY <1>1 DEF Adjoins, After, LastOp, end
    <3>. QED BY <1>1, <3>1, <3>2, <3>3 DEF FallsOn
  <2>10. Neighbours'
    BY <1>1, <2>1 DEF Cutting, Neighbours, After, end
  <2>11. Arrived'
    <3>. SUFFICES ASSUME phase' = "fallthru", deadlist # << >>
                  PROVE  startbasic' /\ \E x \in Nat : Dest(x)' /\ Past(visited', x) = Last(addrlist')
      BY <1>1 DEF Arrived
    <3>1. addr \in Waiting
      BY <1>1, <1>2 DEF Waiting
    <3>2. Dest(addr)
      BY <1>1, <3>1 DEF Cutting, Awaited
    <3>3. \A x : Dest(x) => Dest(x)'
      BY <1>1 DEF Dest
    <3>4. Past(visited, addr) = addr /\ Last(addrlist') = addr /\ startbasic'
      BY <2>1, <2>3 DEF addr
    <3>5. \A x \in Nat : x = addr => Dest(x)' /\ Past(visited', x) = Last(addrlist')
      BY <1>1, <3>2, <3>3, <3>4
    <3>. QED BY <1>2, <3>4, <3>5
  <2>12. Cut'
    BY <1>1, <2>1 DEF Cutting, Cut
  <2>13. Left'
    BY <1>1 DEF Cutting, Left, opcode, LastOp, After, Dest, end
  <2>14. Begun'
    <3>1. CASE deadlist # << >>
      BY <1>1, <3>1 DEF Cutting, Begun
    <3>2. CASE deadlist = << >>
      <4>1. DOMAIN visited = {} /\ addrlist = <<0>>
        BY <1>1, <3>2 DEF Cutting, Begun
      <4>2. addr = 0 /\ Front(addrlist) = << >>
        BY <4>1 DEF addr, Last, Front
      <4>3. Past(visited, 0) = 0 /\ phase' = "fallthru" /\ addrlist' = addrlist /\ startbasic'
            /\ bound' = NextVisited(0)
        BY <2>1, <2>3, <4>1, <4>2
      <4>4. NextVisited(0) = eaddr
        BY <4>1 DEF NextVisited, Behind
      <4>5. Waiting' = {}
        BY <2>1, <4>2 DEF Range
      <4>6. bound' = eaddr'
        BY <4>3, <4>4 DEF eaddr
      <4>7. Last(addrlist') = 0
        BY <4>2, <4>3 DEF addr
      <4>. QED BY <1>1, <3>2, <4>3, <4>5, <4>6, <4>7 DEF Begun
    <3>. QED BY <3>1, <3>2
  <2>15. MadeBlocks'
    BY <2>1 DEF MadeBlocks
  <2>. QED BY <2>6, <2>7, <2>8, <2>9, <2>10, <2>11, <2>12, <2>13, <2>14, <2>15 DEF Flow, Cutting
<1>. QED BY <1>3, <1>4

LEMMA UnknownFlow ==
  ASSUME IInv, Flow, ProcessUnknown
  PROVE  Flow'
<1>. DEFINE cur == Last(addrlist)
<1>1. /\ phase = "fallthru" /\ phase' = "generate_ops" /\ deadlist # << >>
      /\ unknown' = unknown \union {cur} /\ exit' = exit \union {Last(deadlist)}
      /\ addrlist' = Front(addrlist)
      /\ UNCHANGED <<visited, deadlist, startblock, bound, startbasic>> /\ Cutting
  BY DEF ProcessUnknown, Flow
<1>2. cur \notin DOMAIN visited
  BY <1>1 DEF IInv, Ahead
<1>3. Waiting' = Waiting
  BY <1>1 DEF Waiting
<1>4. \A x : Marked(x) => Marked(x)'
  BY <1>1 DEF Marked
<1>5. \A x : Dest(x)' <=> Dest(x)
  BY <1>1 DEF Dest
<1>. HIDE DEF cur
<1>6. Clear'
  BY <1>1, <1>2 DEF Cutting, Clear
<1>7. Led'
  BY <1>1, <1>4 DEF Cutting, Led, end
<1>8. Awaited'
  BY <1>1, <1>3, <1>4, <1>5 DEF Cutting, Awaited
<1>9. FallsOn'
  <2>1. ASSUME NEW a \in DOMAIN visited, visited[a].ops # << >>, FallsThrough(visited[a].ops)
        PROVE  /\ EndsBlock(visited[a].ops) => Marked(end(visited, a))
               /\ Marked(end(visited, a)) \/ Adjoins(a) \/ CameFrom(a)
    BY <1>1, <2>1 DEF Cutting, FallsOn
  <2>2. \A a \in DOMAIN visited : Marked(end(visited, a)) => Marked(end(visited, a))'
    BY <1>1 DEF Marked, end, cur
  <2>3. \A a \in DOMAIN visited : Adjoins(a) => Adjoins(a)'
    BY <1>1 DEF Adjoins, After, LastOp, end
  <2>4. \A a \in DOMAIN visited : CameFrom(a) => Marked(end(visited, a))'
    BY <1>1 DEF CameFrom, After, Marked, end, cur
  <2>. QED BY <1>1, <2>1, <2>2, <2>3, <2>4 DEF FallsOn
<1>10. Neighbours'
  BY <1>1 DEF Cutting, Neighbours, After, end
<1>11. Arrived' /\ MadeBlocks'
  BY <1>1 DEF Arrived, MadeBlocks
<1>12. Cut'
  BY <1>1 DEF Cutting, Cut
<1>13. Left'
  <2>1. ASSUME NEW op \in exit', opcode(op) = "OP"
        PROVE  \/ op = LastOp(op[1]) /\ After(op[1]) \in unknown'
               \/ \E x \in Nat : Dest(x) /\ Past(visited, x) \in unknown'
    <3>1. CASE op \in exit
      BY <1>1, <2>1, <3>1 DEF Cutting, Left
    <3>2. CASE op = Last(deadlist)
      <4>1. \/ \E a \in DOMAIN visited : CameFrom(a)
            \/ \E x \in Nat : Dest(x) /\ Past(visited, x) = cur
        BY <1>1 DEF Cutting, Arrived, cur
      <4>2. ASSUME NEW a \in DOMAIN visited, CameFrom(a)
            PROVE  op = LastOp(op[1]) /\ After(op[1]) \in unknown'
        <5>1. op = LastOp(a) /\ After(a) = cur
          BY <3>2, <4>2 DEF CameFrom, cur
        <5>2. op[1] = a
          BY <5>1 DEF LastOp
        <5>. QED BY <1>1, <5>1, <5>2
      <4>. QED BY <1>1, <4>1, <4>2
    <3>. QED BY <1>1, <2>1, <3>1, <3>2
  <2>2. \A op : opcode(op)' = opcode(op)
    BY <1>1 DEF opcode
  <2>3. \A op \in exit' : opcode(op) = "OP" =>
          \/ op = LastOp(op[1])' /\ After(op[1])' \in unknown'
          \/ \E x \in Nat : Dest(x)' /\ Past(visited', x) \in unknown'
    BY <1>1, <1>5, <2>1 DEF LastOp, After, end
  <2>4. \A a \in DOMAIN visited : \A k \in DOMAIN visited[a].ops :
          visited[a].ops[k].opcode = "NORETURN_CALL" => <<a, k>> \in exit'
    BY <1>1 DEF Cutting, Left
  <2>. QED BY <1>1, <2>2, <2>3, <2>4 DEF Left
<1>14. Begun'
  BY <1>1 DEF Cutting, Begun
<1>. QED BY <1>6, <1>7, <1>8, <1>9, <1>10, <1>11, <1>12, <1>13, <1>14 DEF Flow, Cutting

\* When decoding is over, the invariant speaks of nothing that changes.
LEMMA CuttingRests ==
  ASSUME Cutting, UNCHANGED decoding, phase # "fallthru", phase' # "fallthru", deadlist # << >>
  PROVE  Cutting'
<1>1. UNCHANGED <<visited, unknown, addrlist, deadlist, startblock, exit, bound, startbasic>>
  BY DEF decoding
<1>2. \A x : Marked(x)' <=> Marked(x)
  BY <1>1 DEF Marked
<1>3. \A x : Dest(x)' <=> Dest(x)
  BY <1>1 DEF Dest
<1>4. Waiting' = Waiting
  BY <1>1 DEF Waiting
<1>5. FallsOn'
  <2>1. \A a \in DOMAIN visited : Marked(end(visited, a)) => Marked(end(visited, a))'
    BY <1>1 DEF Marked, end
  <2>2. \A a \in DOMAIN visited : Adjoins(a) => Adjoins(a)'
    BY <1>1 DEF Adjoins, After, LastOp, end
  <2>3. \A a \in DOMAIN visited : ~CameFrom(a)
    BY DEF CameFrom
  <2>. QED BY <1>1, <2>1, <2>2, <2>3 DEF Cutting, FallsOn
<1>6. Neighbours' /\ Cut' /\ Begun'
  BY <1>1, <1>4 DEF Cutting, Neighbours, Cut, Begun, After, end
<1>7. Left'
  BY <1>1, <1>3 DEF Cutting, Left, opcode, LastOp, After, end
<1>8. Clear' /\ Led' /\ Awaited' /\ Arrived'
  BY <1>1, <1>2, <1>3, <1>4 DEF Cutting, Clear, Led, Awaited, Arrived, end
<1>. QED BY <1>5, <1>6, <1>7, <1>8 DEF Cutting

LEMMA BlocksRest ==
  ASSUME UNCHANGED decoding
  PROVE  /\ UNCHANGED <<collect_edges, split_basic>>
         /\ \A n : EdgesOf(n)' = EdgesOf(n)
<1>1. UNCHANGED <<visited, deadlist, startblock, exit>>
  BY DEF decoding
<1>2. \A n : EdgesOf(n)' = EdgesOf(n)
  BY <1>1 DEF EdgesOf, opcode, branch_target, fallthru_op, nextstart, end
<1>3. UNCHANGED collect_edges
  BY <1>1 DEF collect_edges, EdgesOf, opcode, branch_target, fallthru_op, nextstart, end
<1>4. UNCHANGED split_basic
  BY <1>1 DEF split_basic
<1>. QED BY <1>2, <1>3, <1>4

LEMMA NextFlow ==
  ASSUME IInv, IInv', Bounded, Flow, TidyCode, [Next]_vars
  PROVE  Flow'
<1>1. CASE StartRun
  BY <1>1, StartRunFlow
<1>2. CASE ProcessUnknown
  BY <1>2, UnknownFlow
<1>3. CASE Process
  BY <1>3, ProcessFlow
<1>4. CASE EndOps
  <2>1. /\ phase = "generate_ops" /\ phase' = "generate_blocks" /\ addrlist = << >>
        /\ UNCHANGED decoding /\ Cutting
    BY <1>4 DEF EndOps, Flow
  <2>2. deadlist # << >>
    BY <2>1 DEF Cutting, Begun
  <2>. QED BY <2>1, <2>2, CuttingRests DEF Flow, MadeBlocks
<1>5. CASE GenerateBlocks
  <2>1. /\ phase = "generate_blocks" /\ phase' \in {"done", "thrown"} /\ UNCHANGED decoding /\ Cutting
    BY <1>5 DEF GenerateBlocks, Flow
  <2>2. deadlist # << >>
    BY <2>1 DEF Cutting, Begun
  <2>3. Cutting'
    BY <2>1, <2>2, CuttingRests
  <2>4. ASSUME phase' = "done" PROVE MadeBlocks'
    <3>1. /\ ~ \E e \in Range(collect_edges) : e[2] = NoOp
          /\ block_edge' = collect_edges /\ blist' = split_basic
      BY <1>5, <2>4 DEF GenerateBlocks
    <3>2. \A n \in DOMAIN deadlist : \A e \in Range(EdgesOf(n)) : e[2] # NoOp
      BY <3>1, EdgeSource
    <3>3. /\ collect_edges' = collect_edges /\ split_basic' = split_basic /\ deadlist' = deadlist
          /\ \A n : EdgesOf(n)' = EdgesOf(n)
      BY <2>1, BlocksRest DEF decoding
    <3>. QED BY <3>1, <3>2, <3>3 DEF MadeBlocks, NoOp, eaddr
  <2>. QED BY <2>1, <2>3, <2>4 DEF Flow, MadeBlocks
<1>6. CASE UNCHANGED vars
  <2>1. UNCHANGED <<visited, unknown, addrlist, deadlist, startblock, exit, bound, startbasic, phase, block_edge, blist>>
        /\ UNCHANGED decoding
    BY <1>6 DEF vars, decoding
  <2>2. phase # "thrown" => Cutting'
    <3>. SUFFICES ASSUME Cutting PROVE Cutting'
      BY DEF Flow
    <3>1. \A x : Marked(x)' <=> Marked(x)
      BY <2>1 DEF Marked
    <3>2. \A x : Dest(x)' <=> Dest(x)
      BY <2>1 DEF Dest
    <3>3. Waiting' = Waiting
      BY <2>1 DEF Waiting
    <3>4. \A a : (Adjoins(a)' <=> Adjoins(a)) /\ (CameFrom(a)' <=> CameFrom(a))
      BY <2>1 DEF Adjoins, CameFrom, After, LastOp, end
    <3>5. \A a : Marked(end(visited, a))' <=> Marked(end(visited, a))
      BY <2>1 DEF Marked, end
    <3>6. FallsOn' /\ Arrived'
      BY <2>1, <3>2, <3>4, <3>5 DEF Cutting, FallsOn, Arrived
    <3>7. Neighbours' /\ Cut' /\ Begun'
      BY <2>1, <3>3 DEF Cutting, Neighbours, Cut, Begun, After, end
    <3>8. Left'
      BY <2>1, <3>2 DEF Cutting, Left, opcode, LastOp, After, end
    <3>9. Clear' /\ Led' /\ Awaited'
      BY <2>1, <3>1, <3>2, <3>3 DEF Cutting, Clear, Led, Awaited, end
    <3>. QED BY <3>6, <3>7, <3>8, <3>9 DEF Cutting
  <2>3. MadeBlocks'
    <3>1. /\ collect_edges' = collect_edges /\ split_basic' = split_basic
          /\ \A n : EdgesOf(n)' = EdgesOf(n)
      BY <2>1, BlocksRest
    <3>. QED BY <2>1, <3>1 DEF Flow, MadeBlocks, NoOp, eaddr
  <2>. QED BY <2>1, <2>2, <2>3 DEF Flow
<1>7. CASE ExceedMax
  BY <1>7 DEF ExceedMax, Flow, MadeBlocks
<1>. QED BY <1>1, <1>2, <1>3, <1>4, <1>5, <1>6, <1>7 DEF Next

LEMMA InitFlow == Init => Flow
<1>. SUFFICES ASSUME Init PROVE Flow
  OBVIOUS
<1>1. /\ visited = << >> /\ unknown = {} /\ addrlist = <<0>> /\ deadlist = << >> /\ exit = {}
      /\ phase = "generate_ops"
  BY DEF Init
<1>2. DOMAIN visited = {} /\ DOMAIN deadlist = {}
  BY <1>1
<1>3. Clear /\ Led /\ FallsOn /\ Neighbours /\ Arrived /\ Cut /\ Left
  BY <1>1, <1>2 DEF Clear, Led, FallsOn, Neighbours, Arrived, Cut, Left
<1>4. Awaited /\ Begun /\ MadeBlocks
  BY <1>1, <1>2 DEF Awaited, Dest, Begun, MadeBlocks
<1>. QED BY <1>3, <1>4 DEF Flow, Cutting

(***************************************************************************)
(* The blocks that generate_blocks makes of it                             *)
(***************************************************************************)

\* No way leads to where nothing is, so what is marked is the start of a block.
LEMMA MarkIsStart ==
  ASSUME IInv, Cutting, phase = "done", NEW x \in Nat, Marked(x), target(visited, x) # NoOp
  PROVE  target(visited, x) \in startblock
<1>1. Forward(visited)
  <2>1. DOMAIN visited \subseteq Addr /\ \A a \in DOMAIN visited : visited[a] \in Decodings(a)
    BY DEF IInv, Types
  <2>. QED BY <2>1, ForwardIf
<1>2. target(visited, x) = IF Past(visited, x) \in DOMAIN visited THEN <<Past(visited, x), 1>> ELSE NoOp
  BY <1>1, TargetIs
<1>3. Past(visited, x) \notin unknown
  BY <1>2 DEF Cutting, Clear
<1>. QED BY <1>2, <1>3 DEF Marked

LEMMA OpFacts ==
  ASSUME IInv, TidyCode, NEW n \in DOMAIN deadlist, NEW a, NEW k, NEW ops,
         a = deadlist[n][1], k = deadlist[n][2], ops = visited[a].ops
  PROVE  /\ deadlist[n] = <<a, k>> /\ a \in DOMAIN visited /\ k \in 1 .. Len(ops) /\ Len(ops) \in Nat
         /\ end(visited, a) \in Nat
         /\ ops \in Seq(PcodeOp) /\ ops # << >> /\ Tidy(ops) /\ DOMAIN ops = 1 .. Len(ops)
         /\ ops[k].to \in Nat /\ opcode(deadlist[n]) = ops[k].opcode /\ ops[k].opcode \in Opcodes
         /\ fallthru_op(deadlist[n]) = IF k < Len(ops) THEN <<a, k + 1>> ELSE target(visited, end(visited, a))
         /\ branch_target(deadlist[n]) =
              IF ~ops[k].rel THEN target(visited, ops[k].to)
              ELSE IF k + ops[k].to <= Len(ops) THEN <<a, k + ops[k].to>>
              ELSE target(visited, end(visited, a))
<1>1. /\ a \in DOMAIN visited /\ k \in DOMAIN ops /\ deadlist[n] = <<a, k>>
      /\ a \in Addr /\ ops \in Seq(PcodeOp) /\ end(visited, a) \in Nat /\ visited[a] \in Decodings(a)
  BY ListFacts
<1>2. ops # << >> /\ DOMAIN ops = 1 .. Len(ops) /\ Len(ops) \in Nat
  BY <1>1
<1>3. Tidy(ops)
  BY <1>1 DEF TidyCode
<1>4. ops[k].opcode \in Opcodes /\ ops[k].to \in Nat
  <2>1. ops[k] \in PcodeOp
    BY <1>1
  <2>. QED BY <2>1 DEF PcodeOp
<1>. QED BY <1>1, <1>2, <1>3, <1>4 DEF opcode, fallthru_op, branch_target

\* A jump and what comes behind a conditional one begin a block.
LEMMA JumpsToStarts ==
  ASSUME IInv, Bounded, Cutting, TidyCode, phase = "done", NEW n \in DOMAIN deadlist
  PROVE  /\ opcode(deadlist[n]) \in {"BRANCH", "CBRANCH"} /\ branch_target(deadlist[n]) # NoOp
              => branch_target(deadlist[n]) \in startblock
         /\ opcode(deadlist[n]) = "CBRANCH" /\ fallthru_op(deadlist[n]) # NoOp
              => fallthru_op(deadlist[n]) \in startblock
<1>. DEFINE op  == deadlist[n]
            a   == op[1]
            k   == op[2]
            ops == visited[a].ops
            x   == end(visited, a)
<1>1. /\ op = <<a, k>> /\ a \in DOMAIN visited /\ k \in 1 .. Len(ops) /\ Len(ops) \in Nat
      /\ x \in Nat
      /\ ops \in Seq(PcodeOp) /\ ops # << >> /\ Tidy(ops) /\ DOMAIN ops = 1 .. Len(ops)
      /\ ops[k].to \in Nat /\ opcode(op) = ops[k].opcode
      /\ fallthru_op(op) = IF k < Len(ops) THEN <<a, k + 1>> ELSE target(visited, x)
      /\ branch_target(op) = IF ~ops[k].rel THEN target(visited, ops[k].to)
                             ELSE IF k + ops[k].to <= Len(ops) THEN <<a, k + ops[k].to>>
                             ELSE target(visited, x)
  BY OpFacts
<1>. HIDE DEF op, a, k, ops, x
<1>2. ASSUME FallsThrough(ops), EndsBlock(ops), target(visited, x) # NoOp PROVE target(visited, x) \in startblock
  <2>1. Marked(end(visited, a))
    BY <1>1, <1>2 DEF Cutting, FallsOn, ops
  <2>2. Marked(x)
    BY <2>1 DEF x
  <2>. QED BY <1>1, <1>2, <2>2, MarkIsStart
<1>3. ASSUME ops[k].opcode \in {"BRANCH", "CBRANCH"}, branch_target(op) # NoOp
      PROVE  branch_target(op) \in startblock
  <2>1. CASE ~ops[k].rel
    <3>1. k \in JumpsAway(ops)
      BY <1>1, <1>3, <2>1 DEF JumpsAway
    <3>2. Dest(ops[k].to)
      BY <1>1, <3>1 DEF Dest, ops
    <3>3. Marked(ops[k].to) \/ ops[k].to \in Waiting
      BY <1>1, <3>2 DEF Cutting, Awaited
    <3>4. addrlist = << >> /\ Waiting = {}
      BY DEF Waiting, Bounded, Range
    <3>. QED BY <1>1, <1>3, <2>1, <3>3, <3>4, MarkIsStart
  <2>2. CASE ops[k].rel
    <3>1. k + ops[k].to \in RelTargets(ops, Len(ops)) /\ k + ops[k].to \in Nat
      BY <1>1, <2>2 DEF RelTargets
    <3>2. CASE k + ops[k].to <= Len(ops)
      <4>1. k + ops[k].to \in DOMAIN ops
        BY <1>1, <3>1, <3>2
      <4>2. <<a, k + ops[k].to>> \in startblock
        BY <1>1, <3>1, <4>1 DEF Cutting, Cut, ops
      <4>. QED BY <1>1, <2>2, <3>2, <4>2
    <3>3. CASE ~(k + ops[k].to <= Len(ops))
      <4>1. RelOut(ops)
        BY <1>1, <3>1, <3>3 DEF RelOut
      <4>2. FallsThrough(ops) /\ EndsBlock(ops)
        BY <1>1, <4>1, TidyFacts DEF EndsBlock
      <4>. QED BY <1>1, <1>2, <1>3, <2>2, <3>3, <4>2
    <3>. QED BY <3>2, <3>3
  <2>. QED BY <2>1, <2>2
<1>4. ASSUME ops[k].opcode = "CBRANCH", fallthru_op(op) # NoOp PROVE fallthru_op(op) \in startblock
  <2>1. CASE k < Len(ops)
    <3>1. k \in 1 .. Len(ops) - 1 /\ ops[k].opcode \in StartsBasic
      BY <1>1, <1>4, <2>1 DEF StartsBasic
    <3>2. <<a, k + 1>> \in startblock
      BY <1>1, <3>1 DEF Cutting, Cut, ops
    <3>. QED BY <1>1, <2>1, <3>2
  <2>2. CASE ~(k < Len(ops))
    <3>1. k = Len(ops)
      BY <1>1, <2>2
    <3>2. FallsThrough(ops) /\ EndsBlock(ops)
      BY <1>1, <1>4, <3>1, TidyFacts DEF EndsBlock, StartsBasic
    <3>. QED BY <1>1, <1>2, <1>4, <2>2, <3>2
  <2>. QED BY <2>1, <2>2
<1>. QED BY <1>1, <1>3, <1>4 DEF op

\* Any other op goes on to its neighbour, or to the start of a block.
LEMMA OpGoesOn ==
  ASSUME IInv, Cutting, TidyCode, phase = "done", NEW n \in DOMAIN deadlist
  PROVE  /\ ~nextstart(n) => opcode(deadlist[n]) = "OP" /\ fallthru_op(deadlist[n]) = deadlist[n + 1]
         /\ nextstart(n) /\ opcode(deadlist[n]) = "OP" /\ fallthru_op(deadlist[n]) # NoOp
              => fallthru_op(deadlist[n]) \in startblock
<1>. DEFINE op  == deadlist[n]
            a   == op[1]
            k   == op[2]
            ops == visited[a].ops
            x   == end(visited, a)
<1>1. /\ op = <<a, k>> /\ a \in DOMAIN visited /\ k \in 1 .. Len(ops) /\ Len(ops) \in Nat
      /\ x \in Nat
      /\ ops \in Seq(PcodeOp) /\ ops # << >> /\ Tidy(ops) /\ DOMAIN ops = 1 .. Len(ops)
      /\ opcode(op) = ops[k].opcode /\ ops[k].opcode \in Opcodes
      /\ fallthru_op(op) = IF k < Len(ops) THEN <<a, k + 1>> ELSE target(visited, x)
  BY OpFacts
<1>2. Len(deadlist) \in Nat /\ DOMAIN deadlist = 1 .. Len(deadlist)
  BY ListFacts
<1>3. /\ k < Len(ops) => n < Len(deadlist) /\ deadlist[n + 1] = <<a, k + 1>>
      /\ k = Len(ops) /\ n < Len(deadlist) =>
           \/ deadlist[n + 1] \in startblock
           \/ /\ FallsThrough(ops) /\ ~EndsBlock(ops)
              /\ After(a) \in DOMAIN visited /\ deadlist[n + 1] = <<After(a), 1>>
  BY DEF Cutting, Neighbours
<1>4. target(visited, x) = IF After(a) \in DOMAIN visited THEN <<After(a), 1>> ELSE NoOp
  <2>1. DOMAIN visited \subseteq Addr /\ \A b \in DOMAIN visited : visited[b] \in Decodings(b)
    BY DEF IInv, Types
  <2>2. Forward(visited)
    BY <2>1, ForwardIf
  <2>3. After(a) = Past(visited, x)
    BY DEF After
  <2>. HIDE DEF x
  <2>. QED BY <1>1, <2>2, <2>3, TargetIs
<1>5. \A b \in DOMAIN visited : LastOp(b) = <<b, Len(visited[b].ops)>>
  BY DEF LastOp
<1>6. /\ Len(ops) \in Nat \ {0}
      /\ ops[Len(ops)].opcode \in {"OP", "CBRANCH"} => FallsThrough(ops)
      /\ FallsThrough(ops) /\ ops[Len(ops)].opcode = "BRANCH_CALL" => RelOut(ops)
      /\ \A j \in DOMAIN ops :
           j < Len(ops) /\ ops[j].opcode = "BRANCH_CALL" => j + 1 \in RelTargets(ops, Len(ops))
  <2>. HIDE DEF ops
  <2>. QED BY <1>1, TidyFacts
<1>7. LastOp(a) = <<a, Len(ops)>>
  BY <1>1, <1>5
<1>8. /\ \A j \in 1 .. Len(ops) - 1 : ops[j].opcode \in StartsBasic => <<a, j + 1>> \in startblock
      /\ \A t \in RelTargets(ops, Len(ops)) \intersect DOMAIN ops : <<a, t>> \in startblock
  BY <1>1 DEF Cutting, Cut
<1>9. FallsThrough(ops) => Marked(x) \/ Adjoins(a)
  BY <1>1 DEF Cutting, FallsOn, CameFrom
<1>. HIDE DEF op, a, k, ops, x
<1>10. nextstart(n) <=> n = Len(deadlist) \/ deadlist[n + 1] \in startblock
  BY DEF nextstart
<1>11. CASE k < Len(ops)
  <2>0. n < Len(deadlist) /\ deadlist[n + 1] = <<a, k + 1>> /\ fallthru_op(op) = <<a, k + 1>>
    BY <1>1, <1>3, <1>11
  <2>1. n # Len(deadlist)
    BY <1>2, <2>0
  <2>2. k \in 1 .. Len(ops) - 1 /\ k \in DOMAIN ops /\ k + 1 \in DOMAIN ops
    BY <1>1, <1>11
  <2>3. ops[k].opcode \in StartsBasic \union {"BRANCH_CALL"} => <<a, k + 1>> \in startblock
    BY <1>6, <1>8, <1>11, <2>2
  <2>. QED BY <1>1, <1>10, <2>0, <2>1, <2>3 DEF StartsBasic, Opcodes, op
<1>12. CASE k = Len(ops)
  <2>0. fallthru_op(op) = target(visited, x)
    BY <1>1, <1>12
  <2>1. ASSUME ~nextstart(n) PROVE ops[k].opcode = "OP" /\ fallthru_op(op) = deadlist[n + 1]
    <3>1. n < Len(deadlist) /\ deadlist[n + 1] \notin startblock
      BY <1>2, <1>10, <2>1
    <3>2. /\ FallsThrough(ops) /\ ~EndsBlock(ops)
          /\ After(a) \in DOMAIN visited /\ deadlist[n + 1] = <<After(a), 1>>
      BY <1>3, <1>12, <3>1
    <3>3. ops[k].opcode \notin StartsBasic /\ ops[k].opcode # "BRANCH_CALL"
      BY <1>6, <1>12, <3>2 DEF EndsBlock
    <3>. QED BY <1>1, <1>4, <2>0, <3>2, <3>3 DEF StartsBasic, Opcodes
  <2>2. ASSUME nextstart(n), ops[k].opcode = "OP", fallthru_op(op) # NoOp PROVE fallthru_op(op) \in startblock
    <3>1. Marked(x) \/ Adjoins(a)
      BY <1>6, <1>9, <1>12, <2>2
    <3>2. CASE Marked(x)
      BY <1>1, <2>0, <2>2, <3>2, MarkIsStart
    <3>3. CASE Adjoins(a)
      <4>1. PICK m \in 1 .. Len(deadlist) - 1 : deadlist[m] = LastOp(a) /\ deadlist[m + 1] = <<After(a), 1>>
        BY <3>3 DEF Adjoins
      <4>2. deadlist[m] = deadlist[n] /\ m \in DOMAIN deadlist
        BY <1>1, <1>2, <1>7, <1>12, <4>1 DEF op
      <4>3. m = n
        BY <4>2 DEF IInv, Ops, IsInjective
      <4>4. n # Len(deadlist)
        BY <1>2, <4>1, <4>3
      <4>5. After(a) \in DOMAIN visited
        BY <3>3 DEF Adjoins
      <4>. QED BY <1>4, <1>10, <2>0, <2>2, <4>1, <4>3, <4>4, <4>5
    <3>. QED BY <3>1, <3>2, <3>3
  <2>. QED BY <1>1, <2>1, <2>2 DEF op
<1>13. k < Len(ops) \/ k = Len(ops)
  <2>1. k \in 1 .. Len(ops) /\ Len(ops) \in Nat
    BY <1>1
  <2>. QED BY <2>1
<1>. QED BY <1>11, <1>12, <1>13

LEMMA ShortLists ==
  /\ Range(<< >>) = {}
  /\ \A x : Range(<<x>>) = {x}
  /\ \A x, y : Range(<<x, y>>) = {x, y}
<1>1. Range(<< >>) = {}
  BY DEF Range
<1>2. ASSUME NEW x PROVE Range(<<x>>) = {x}
  <2>1. DOMAIN <<x>> = {1} /\ <<x>>[1] = x
    OBVIOUS
  <2>. QED BY <2>1 DEF Range
<1>3. ASSUME NEW x, NEW y PROVE Range(<<x, y>>) = {x, y}
  <2>1. DOMAIN <<x, y>> = {1, 2} /\ <<x, y>>[1] = x /\ <<x, y>>[2] = y
    OBVIOUS
  <2>. QED BY <2>1 DEF Range
<1>. QED BY <1>1, <1>2, <1>3

\* An op that is not a jump and has no edge at the end of its block goes nowhere.
LEMMA ExitsEnd ==
  ASSUME IInv, Cutting, MadeBlocks, TidyCode, phase = "done", NEW n \in DOMAIN deadlist
  PROVE  /\ opcode(deadlist[n]) = "OP" /\ deadlist[n] \in exit => fallthru_op(deadlist[n]) = NoOp
         /\ opcode(deadlist[n]) = "NORETURN_CALL" => deadlist[n] \in exit
<1>1. Forward(visited)
  <2>1. DOMAIN visited \subseteq Addr /\ \A a \in DOMAIN visited : visited[a] \in Decodings(a)
    BY DEF IInv, Types
  <2>. QED BY <2>1, ForwardIf
<1>2. ASSUME NEW x \in Nat, Past(visited, x) \in unknown PROVE target(visited, x) = NoOp
  <2>1. Past(visited, x) \notin DOMAIN visited
    BY <1>2 DEF Cutting, Clear
  <2>. QED BY <1>1, <2>1, TargetIs
<1>3. ASSUME NEW x \in Nat, Dest(x) PROVE target(visited, x) # NoOp
  <2>1. PICK a \in DOMAIN visited : \E k \in JumpsAway(visited[a].ops) : visited[a].ops[k].to = x
    BY <1>3 DEF Dest
  <2>2. PICK k \in JumpsAway(visited[a].ops) : visited[a].ops[k].to = x
    BY <2>1
  <2>3. k \in DOMAIN visited[a].ops /\ visited[a].ops[k].opcode \in {"BRANCH", "CBRANCH"} /\ ~visited[a].ops[k].rel
    BY <2>2 DEF JumpsAway
  <2>4. <<a, k>> \in Range(deadlist)
    BY <2>3 DEF IInv, Ops, OpsOf
  <2>5. PICK m \in DOMAIN deadlist : deadlist[m] = <<a, k>>
    BY <2>4 DEF Range
  <2>. DEFINE op == deadlist[m]
  <2>6. opcode(op) \in {"BRANCH", "CBRANCH"} /\ branch_target(op) = target(visited, x)
    BY <2>2, <2>3, <2>5 DEF opcode, branch_target
  <2>7. \E e \in Range(EdgesOf(m)) : e[2] = branch_target(op)
    <3>. HIDE DEF op
    <3>1. CASE opcode(op) = "BRANCH"
      <4>1. EdgesOf(m) = << <<op, branch_target(op), FALSE>> >>
        BY <3>1 DEF EdgesOf, op
      <4>2. <<op, branch_target(op), FALSE>> \in Range(EdgesOf(m))
        BY <4>1, ShortLists
      <4>. QED BY <4>2
    <3>2. CASE opcode(op) = "CBRANCH"
      <4>. DEFINE p == <<op, fallthru_op(op), FALSE>>
                  q == <<op, branch_target(op), TRUE>>
      <4>1. EdgesOf(m) = <<p, q>>
        BY <3>2 DEF EdgesOf, op
      <4>2. q \in Range(EdgesOf(m))
        <5>. HIDE DEF p, q
        <5>. QED BY <4>1, ShortLists
      <4>. QED BY <4>2
    <3>. QED BY <2>6, <3>1, <3>2
  <2>. QED BY <2>6, <2>7 DEF MadeBlocks
<1>. DEFINE op  == deadlist[n]
            a   == op[1]
            k   == op[2]
            ops == visited[a].ops
<1>4. /\ op = <<a, k>> /\ a \in DOMAIN visited /\ k \in 1 .. Len(ops) /\ Len(ops) \in Nat
      /\ end(visited, a) \in Nat /\ DOMAIN ops = 1 .. Len(ops) /\ opcode(op) = ops[k].opcode
      /\ fallthru_op(op) = IF k < Len(ops) THEN <<a, k + 1>> ELSE target(visited, end(visited, a))
  BY OpFacts
<1>5. LastOp(a) = <<a, Len(ops)>> /\ After(a) = Past(visited, end(visited, a))
  BY DEF LastOp, After
<1>. HIDE DEF op, a, k, ops
<1>6. opcode(op) = "NORETURN_CALL" => op \in exit
  BY <1>4 DEF Cutting, Left, ops
<1>7. ASSUME opcode(op) = "OP", op \in exit PROVE fallthru_op(op) = NoOp
  <2>1. op = LastOp(a) /\ After(a) \in unknown
    <3>1. \/ op = LastOp(op[1]) /\ After(op[1]) \in unknown
          \/ \E x \in Nat : Dest(x) /\ Past(visited, x) \in unknown
      BY <1>7 DEF Cutting, Left
    <3>. QED BY <1>2, <1>3, <3>1 DEF a
  <2>2. k = Len(ops)
    <3>1. op = <<a, k>>
      BY <1>4
    <3>2. op = <<a, Len(ops)>>
      BY <1>5, <2>1
    <3>. QED BY <3>1, <3>2
  <2>3. ~(k < Len(ops))
    <3>1. Len(ops) \in Nat
      BY <1>4
    <3>. QED BY <2>2, <3>1
  <2>. QED BY <1>2, <1>4, <1>5, <2>1, <2>3
<1>. QED BY <1>6, <1>7 DEF op

\* The edges of an op that ends a block go where control goes; any other op goes to the
\* next one of the list.
LEMMA OpWays ==
  ASSUME IInv, Bounded, Cutting, MadeBlocks, TidyCode, phase = "done", NEW n \in DOMAIN deadlist
  PROVE  /\ ~nextstart(n) => Range(EdgesOf(n)) = {} /\ Goes(deadlist[n]) = {<<deadlist[n + 1], FALSE>>}
         /\ nextstart(n) => {<<e[2], e[3]>> : e \in Range(EdgesOf(n))} = Goes(deadlist[n])
         /\ \A e \in Range(EdgesOf(n)) : e[1] = deadlist[n] /\ e[2] \in startblock
<1>. DEFINE op == deadlist[n]
            fall == fallthru_op(op)
            jump == branch_target(op)
            Way(e) == <<e[2], e[3]>>
<1>1. opcode(op) \in Opcodes
  <2>1. opcode(op) = visited[op[1]].ops[op[2]].opcode /\ visited[op[1]].ops[op[2]].opcode \in Opcodes
    BY OpFacts
  <2>. QED BY <2>1
<1>2. \A e \in Range(EdgesOf(n)) : e[2] # NoOp
  BY DEF MadeBlocks
<1>3. /\ opcode(op) \in {"BRANCH", "CBRANCH"} /\ jump # NoOp => jump \in startblock
      /\ opcode(op) = "CBRANCH" /\ fall # NoOp => fall \in startblock
  BY JumpsToStarts
<1>4. /\ ~nextstart(n) => opcode(op) = "OP" /\ fall = deadlist[n + 1]
      /\ nextstart(n) /\ opcode(op) = "OP" /\ fall # NoOp => fall \in startblock
  BY OpGoesOn
<1>5. /\ opcode(op) = "OP" /\ op \in exit => fall = NoOp
      /\ opcode(op) = "NORETURN_CALL" => op \in exit
  BY ExitsEnd
<1>6. ~nextstart(n) => deadlist[n + 1] # NoOp
  <2>1. ASSUME ~nextstart(n) PROVE n + 1 \in DOMAIN deadlist
    <3>1. Len(deadlist) \in Nat /\ DOMAIN deadlist = 1 .. Len(deadlist) /\ n # Len(deadlist)
      BY <2>1, ListFacts DEF nextstart
    <3>. QED BY <3>1
  <2>2. \A m \in DOMAIN deadlist : deadlist[m] # NoOp
    <3>. SUFFICES ASSUME NEW m \in DOMAIN deadlist, deadlist[m] = NoOp PROVE FALSE
      OBVIOUS
    <3>1. deadlist[m][1] \in Addr
      BY ListFacts
    <3>2. deadlist[m][1] = eaddr
      BY DEF NoOp
    <3>. QED BY <3>1, <3>2, Sizes
  <2>. QED BY <2>1, <2>2
<1>7. /\ opcode(op) = "BRANCH"  => EdgesOf(n) = << <<op, jump, FALSE>> >>
      /\ opcode(op) = "CBRANCH" => EdgesOf(n) = << <<op, fall, FALSE>>, <<op, jump, TRUE>> >>
      /\ opcode(op) \in {"RETURN", "BRANCH_CALL"} => EdgesOf(n) = << >>
      /\ opcode(op) \in {"OP", "NORETURN_CALL"} =>
           EdgesOf(n) = IF op \notin exit /\ nextstart(n) THEN << <<op, fall, FALSE>> >> ELSE << >>
  <2>1. CASE opcode(op) = "BRANCH"
    BY <2>1 DEF EdgesOf
  <2>2. CASE opcode(op) = "CBRANCH"
    BY <2>2 DEF EdgesOf
  <2>3. CASE opcode(op) \in {"RETURN", "BRANCH_CALL"}
    BY <2>3 DEF EdgesOf
  <2>4. CASE opcode(op) \in {"OP", "NORETURN_CALL"}
    BY <2>4 DEF EdgesOf
  <2>. QED BY <1>1, <2>1, <2>2, <2>3, <2>4 DEF Opcodes
<1>0. /\ opcode(op) = "BRANCH"  => Goes(op) = {g \in {<<jump, FALSE>>} : g[1] # NoOp}
      /\ opcode(op) = "CBRANCH" => Goes(op) = {g \in {<<fall, FALSE>>, <<jump, TRUE>>} : g[1] # NoOp}
      /\ opcode(op) = "OP"      => Goes(op) = {g \in {<<fall, FALSE>>} : g[1] # NoOp}
      /\ opcode(op) \in {"RETURN", "BRANCH_CALL", "NORETURN_CALL"} => Goes(op) = {}
  <2>1. CASE opcode(op) = "BRANCH"
    BY <2>1 DEF Goes
  <2>2. CASE opcode(op) = "CBRANCH"
    BY <2>2 DEF Goes
  <2>3. CASE opcode(op) = "OP"
    BY <2>3 DEF Goes
  <2>4. CASE opcode(op) \in {"RETURN", "BRANCH_CALL", "NORETURN_CALL"}
    BY <2>4 DEF Goes
  <2>. QED BY <1>1, <2>1, <2>2, <2>3, <2>4 DEF Opcodes
<1>. HIDE DEF op, fall, jump
<1>8. /\ opcode(op) = "BRANCH" /\ jump # NoOp => Goes(op) = {<<jump, FALSE>>}
      /\ opcode(op) = "CBRANCH" /\ fall # NoOp /\ jump # NoOp =>
           Goes(op) = {<<fall, FALSE>>, <<jump, TRUE>>}
      /\ opcode(op) = "OP" => Goes(op) = IF fall = NoOp THEN {} ELSE {<<fall, FALSE>>}
      /\ opcode(op) \in {"RETURN", "BRANCH_CALL", "NORETURN_CALL"} => Goes(op) = {}
  <2>1. \A x, b : <<x, b>>[1] = x
    OBVIOUS
  <2>2. \A p : {g \in {p} : g[1] # NoOp} = IF p[1] = NoOp THEN {} ELSE {p}
    OBVIOUS
  <2>3. \A p, q : p[1] # NoOp /\ q[1] # NoOp => {g \in {p, q} : g[1] # NoOp} = {p, q}
    OBVIOUS
  <2>4. CASE opcode(op) = "BRANCH"
    <3>1. {g \in {<<jump, FALSE>>} : g[1] # NoOp} = IF jump = NoOp THEN {} ELSE {<<jump, FALSE>>}
      BY <2>1, <2>2
    <3>. QED BY <1>0, <2>4, <3>1
  <2>5. CASE opcode(op) = "OP"
    <3>1. {g \in {<<fall, FALSE>>} : g[1] # NoOp} = IF fall = NoOp THEN {} ELSE {<<fall, FALSE>>}
      BY <2>1, <2>2
    <3>. QED BY <1>0, <2>5, <3>1
  <2>6. CASE opcode(op) = "CBRANCH"
    <3>1. fall # NoOp /\ jump # NoOp =>
            {g \in {<<fall, FALSE>>, <<jump, TRUE>>} : g[1] # NoOp} = {<<fall, FALSE>>, <<jump, TRUE>>}
      BY <2>1, <2>3
    <3>. QED BY <1>0, <2>6, <3>1
  <2>7. CASE opcode(op) \in {"RETURN", "BRANCH_CALL", "NORETURN_CALL"}
    BY <1>0, <2>7
  <2>. QED BY <1>1, <2>4, <2>5, <2>6, <2>7 DEF Opcodes
<1>9. \A x, b : Way(<<op, x, b>>) = <<x, b>>
  OBVIOUS
<1>10. ASSUME NEW x, NEW b, EdgesOf(n) = << <<op, x, b>> >>
       PROVE  /\ Range(EdgesOf(n)) = {<<op, x, b>>} /\ x # NoOp
              /\ {Way(e) : e \in Range(EdgesOf(n))} = {<<x, b>>}
              /\ x \in startblock => \A e \in Range(EdgesOf(n)) : e[1] = op /\ e[2] \in startblock
  <2>1. Range(EdgesOf(n)) = {<<op, x, b>>}
    <3>. DEFINE p == <<op, x, b>>
    <3>1. EdgesOf(n) = <<p>>
      BY <1>10
    <3>2. Range(EdgesOf(n)) = {p}
      <4>. HIDE DEF p
      <4>. QED BY <3>1, ShortLists
    <3>. QED BY <3>2
  <2>2. <<op, x, b>>[1] = op /\ <<op, x, b>>[2] = x /\ <<op, x, b>>[3] = b
    OBVIOUS
  <2>. QED BY <1>2, <2>1, <2>2
<1>11. CASE opcode(op) = "BRANCH"
  <2>1. EdgesOf(n) = << <<op, jump, FALSE>> >>
    BY <1>7, <1>11
  <2>2. jump # NoOp /\ {Way(e) : e \in Range(EdgesOf(n))} = {<<jump, FALSE>>}
        /\ (jump \in startblock => \A e \in Range(EdgesOf(n)) : e[1] = op /\ e[2] \in startblock)
    BY <1>10, <2>1
  <2>3. Goes(op) = {<<jump, FALSE>>}
    BY <1>8, <1>11, <2>2
  <2>. QED BY <1>3, <1>4, <1>11, <2>2, <2>3 DEF op
<1>12. CASE opcode(op) = "CBRANCH"
  <2>. DEFINE p == <<op, fall, FALSE>>
              q == <<op, jump, TRUE>>
  <2>1. Range(EdgesOf(n)) = {p, q}
    <3>1. EdgesOf(n) = <<p, q>>
      BY <1>7, <1>12
    <3>. HIDE DEF p, q
    <3>. QED BY <3>1, ShortLists
  <2>2. /\ p[1] = op /\ p[2] = fall /\ p[3] = FALSE
        /\ q[1] = op /\ q[2] = jump /\ q[3] = TRUE
    OBVIOUS
  <2>. HIDE DEF p, q
  <2>3. fall # NoOp /\ jump # NoOp /\ fall \in startblock /\ jump \in startblock
    BY <1>2, <1>3, <1>12, <2>1, <2>2
  <2>4. {Way(e) : e \in Range(EdgesOf(n))} = {<<fall, FALSE>>, <<jump, TRUE>>}
    BY <2>1, <2>2
  <2>5. Goes(op) = {<<fall, FALSE>>, <<jump, TRUE>>}
    BY <1>8, <1>12, <2>3
  <2>6. \A e \in Range(EdgesOf(n)) : e[1] = op /\ e[2] \in startblock
    BY <2>1, <2>2, <2>3
  <2>. QED BY <1>4, <1>12, <2>4, <2>5, <2>6 DEF op
<1>13. CASE opcode(op) \in {"RETURN", "BRANCH_CALL", "NORETURN_CALL"}
  <2>1. EdgesOf(n) = << >> /\ Goes(op) = {}
    BY <1>5, <1>7, <1>8, <1>13
  <2>2. Range(EdgesOf(n)) = {}
    BY <2>1, ShortLists
  <2>. QED BY <1>4, <1>13, <2>1, <2>2 DEF op
<1>14. CASE opcode(op) = "OP"
  <2>1. CASE ~nextstart(n)
    <3>1. Range(EdgesOf(n)) = {}
      BY <1>7, <1>14, <2>1, ShortLists
    <3>2. Goes(op) = {<<fall, FALSE>>} /\ fall = deadlist[n + 1]
      BY <1>4, <1>6, <1>8, <1>14, <2>1
    <3>. QED BY <2>1, <3>1, <3>2 DEF op
  <2>2. CASE nextstart(n) /\ op \in exit
    <3>1. Range(EdgesOf(n)) = {}
      BY <1>7, <1>14, <2>2, ShortLists
    <3>2. Goes(op) = {}
      BY <1>5, <1>8, <1>14, <2>2
    <3>. QED BY <2>2, <3>1, <3>2 DEF op
  <2>3. CASE nextstart(n) /\ op \notin exit
    <3>1. EdgesOf(n) = << <<op, fall, FALSE>> >>
      BY <1>7, <1>14, <2>3
    <3>2. fall # NoOp /\ {Way(e) : e \in Range(EdgesOf(n))} = {<<fall, FALSE>>}
          /\ (fall \in startblock => \A e \in Range(EdgesOf(n)) : e[1] = op /\ e[2] \in startblock)
      BY <1>10, <3>1
    <3>3. Goes(op) = {<<fall, FALSE>>}
      BY <1>8, <1>14, <3>2
    <3>. QED BY <1>4, <1>14, <2>3, <3>2, <3>3 DEF op
  <2>. QED BY <2>1, <2>2, <2>3
<1>. QED BY <1>1, <1>11, <1>12, <1>13, <1>14 DEF Opcodes

\* Where split_basic cuts: the places of the list where its blocks begin and end.
Firsts ==
  Sublist([n \in DOMAIN deadlist |-> n], {n \in DOMAIN deadlist : n = 1 \/ deadlist[n] \in startblock})

Stop(m) == IF m = Len(Firsts) THEN Len(deadlist) ELSE Firsts[m + 1] - 1

LEMMA FirstsFacts ==
  ASSUME IInv, deadlist # << >>
  PROVE  /\ Len(Firsts) \in Nat \ {0} /\ DOMAIN Firsts = 1 .. Len(Firsts)
         /\ \A n : n \in Range(Firsts) <=> n \in DOMAIN deadlist /\ (n = 1 \/ deadlist[n] \in startblock)
         /\ \A m \in 1 .. Len(Firsts) : Firsts[m] \in 1 .. Len(deadlist)
         /\ \A i, j \in 1 .. Len(Firsts) : i < j => Firsts[i] < Firsts[j]
         /\ Firsts[1] = 1
<1>. DEFINE D == DOMAIN deadlist
            N == Len(deadlist)
            T == {n \in D : n = 1 \/ deadlist[n] \in startblock}
            s == [n \in D |-> n]
<1>1. N \in Nat /\ D = 1 .. N /\ N # 0
  <2>1. deadlist \in Seq(Nat \X Nat)
    BY DEF IInv, Ops
  <2>. QED BY <2>1
<1>2. /\ s \in Seq(Nat) /\ Range(s) = D /\ Increasing(s)
  <2>1. DOMAIN s = 1 .. N /\ \A n \in 1 .. N : s[n] = n /\ n \in Nat
    BY <1>1
  <2>2. s \in Seq(Nat)
    <3>1. s \in [1 .. N -> Nat]
      BY <1>1
    <3>. HIDE DEF s
    <3>. QED BY <1>1, <3>1
  <2>3. Range(s) = D
    BY <1>1, <2>1 DEF Range
  <2>4. Increasing(s)
    <3>. HIDE DEF s, N
    <3>. QED BY <2>1 DEF Increasing
  <2>. QED BY <2>2, <2>3, <2>4
<1>3. Firsts = Sublist(s, T)
  BY DEF Firsts
<1>4. Firsts \in Seq(Nat) /\ Range(Firsts) = Range(s) \intersect T /\ Increasing(Firsts)
  <2>. HIDE DEF s, T
  <2>. QED BY <1>2, <1>3, SublistOf
<1>5. Range(Firsts) = T
  BY <1>2, <1>4
<1>. DEFINE f == Firsts
            M == Len(f)
<1>6. M \in Nat /\ DOMAIN f = 1 .. M /\ \A m \in 1 .. M : f[m] \in Nat /\ f[m] \in Range(f)
  BY <1>4 DEF Range
<1>7. \A m \in 1 .. M : f[m] \in 1 .. N
  BY <1>1, <1>5, <1>6
<1>8. PICK i \in 1 .. M : f[i] = 1
  <2>1. 1 \in D
    BY <1>1
  <2>2. 1 \in Range(f)
    BY <1>5, <2>1
  <2>. QED BY <1>6, <2>2 DEF Range
<1>9. \A j, l \in 1 .. M : j < l => f[j] < f[l]
  BY <1>4, <1>6 DEF Increasing
<1>. HIDE DEF f, D, s, M
<1>10. M \in Nat \ {0} /\ 1 \in 1 .. M
  BY <1>6, <1>8
<1>11. f[1] = 1
  <2>. SUFFICES ASSUME i # 1 PROVE FALSE
    BY <1>8
  <2>1. 1 < i
    BY <1>6, <1>8
  <2>2. f[1] < 1
    BY <1>8, <1>9, <1>10, <2>1
  <2>3. f[1] \in 1 .. N
    BY <1>7, <1>10
  <2>. HIDE DEF N
  <2>. QED BY <1>1, <2>2, <2>3
<1>. QED BY <1>5, <1>6, <1>7, <1>9, <1>10, <1>11 DEF f, M, D

\* The blocks cut the list into pieces, and only the first op of a piece begins a block.
LEMMA Pieces ==
  ASSUME IInv, deadlist # << >>
  PROVE  /\ \A m \in 1 .. Len(Firsts) : Firsts[m] <= Stop(m) /\ Stop(m) \in 1 .. Len(deadlist)
         /\ \A m \in 1 .. Len(Firsts) : nextstart(Stop(m))
         /\ \A m \in 1 .. Len(Firsts) : \A n \in Firsts[m] + 1 .. Stop(m) : deadlist[n] \notin startblock
         /\ \A n \in 1 .. Len(deadlist) : \E m \in 1 .. Len(Firsts) : Firsts[m] <= n /\ n <= Stop(m)
         /\ \A i, j \in 1 .. Len(Firsts) : i < j => Stop(i) < Firsts[j]
<1>. DEFINE N == Len(deadlist)
            f == Firsts
            M == Len(f)
<1>1. N \in Nat /\ DOMAIN deadlist = 1 .. N /\ M \in Nat \ {0}
  BY ListFacts, FirstsFacts
<1>2. /\ \A m \in 1 .. M : f[m] \in 1 .. N /\ f[m] \in Range(f)
      /\ \A i, j \in 1 .. M : i < j => f[i] < f[j]
      /\ f[1] = 1
      /\ \A n : n \in Range(f) <=> n \in 1 .. N /\ (n = 1 \/ deadlist[n] \in startblock)
      /\ \A n : n \in Range(f) <=> \E i \in 1 .. M : n = f[i]
  <2>1. DOMAIN f = 1 .. M
    BY FirstsFacts
  <2>. QED BY <1>1, <2>1, FirstsFacts DEF Range
<1>3. \A m : Stop(m) = IF m = M THEN N ELSE f[m + 1] - 1
  BY DEF Stop
<1>. HIDE DEF N, f, M
<1>4. ASSUME NEW m \in 1 .. M, m # M
      PROVE  m + 1 \in 1 .. M /\ Stop(m) = f[m + 1] - 1 /\ f[m] < f[m + 1] /\ f[m + 1] \in 1 .. N
  <2>1. m + 1 \in 1 .. M /\ m < m + 1
    BY <1>1, <1>4
  <2>. QED BY <1>2, <1>3, <1>4, <2>1
<1>5. ASSUME NEW m \in 1 .. M PROVE f[m] <= Stop(m) /\ Stop(m) \in 1 .. N
  <2>1. f[m] \in 1 .. N
    BY <1>2
  <2>2. CASE m = M
    <3>1. Stop(m) = N
      BY <1>3, <2>2
    <3>. QED BY <1>1, <2>1, <3>1
  <2>3. CASE m # M
    <3>1. Stop(m) = f[m + 1] - 1 /\ f[m] < f[m + 1] /\ f[m + 1] \in 1 .. N
      BY <1>4, <2>3
    <3>. QED BY <1>1, <2>1, <3>1
  <2>. QED BY <2>2, <2>3
<1>6. ASSUME NEW m \in 1 .. M PROVE nextstart(Stop(m))
  <2>1. CASE m = M
    BY <1>3, <2>1 DEF nextstart, N
  <2>2. CASE m # M
    <3>1. m + 1 \in 1 .. M /\ Stop(m) = f[m + 1] - 1 /\ f[m] < f[m + 1] /\ f[m + 1] \in 1 .. N /\ f[m] \in 1 .. N
      BY <1>2, <1>4, <2>2
    <3>2. Stop(m) + 1 = f[m + 1] /\ f[m + 1] # 1
      BY <1>1, <3>1
    <3>3. deadlist[f[m + 1]] \in startblock
      BY <1>2, <3>1, <3>2
    <3>. QED BY <3>2, <3>3 DEF nextstart
  <2>. QED BY <2>1, <2>2
<1>7. ASSUME NEW i \in 1 .. M, NEW j \in 1 .. M, i < j PROVE Stop(i) < f[j]
  <2>1. i # M
    BY <1>1, <1>7
  <2>2. i + 1 \in 1 .. M /\ Stop(i) = f[i + 1] - 1 /\ f[i + 1] \in 1 .. N /\ f[j] \in 1 .. N
    BY <1>2, <1>4, <2>1
  <2>3. f[i + 1] <= f[j]
    <3>1. i + 1 = j \/ i + 1 < j
      BY <1>1, <1>7
    <3>. QED BY <1>1, <1>2, <2>2, <3>1
  <2>. QED BY <1>1, <2>2, <2>3
<1>8. ASSUME NEW m \in 1 .. M, NEW n \in f[m] + 1 .. Stop(m) PROVE deadlist[n] \notin startblock
  <2>0. f[m] \in 1 .. N /\ Stop(m) \in 1 .. N
    BY <1>2, <1>5
  <2>1. n \in 1 .. N /\ f[m] < n /\ n <= Stop(m)
    BY <1>1, <2>0
  <2>. SUFFICES ASSUME deadlist[n] \in startblock PROVE FALSE
    OBVIOUS
  <2>2. PICK i \in 1 .. M : n = f[i]
    BY <1>2, <2>1
  <2>3. i < m \/ i = m \/ m < i
    BY <1>1
  <2>4. CASE i < m
    <3>1. f[i] < f[m] /\ f[i] \in 1 .. N
      BY <1>2, <2>4
    <3>. QED BY <1>1, <2>0, <2>1, <2>2, <3>1
  <2>5. CASE i = m
    BY <1>1, <2>0, <2>1, <2>2, <2>5
  <2>6. CASE m < i
    <3>1. Stop(m) < f[i]
      BY <1>7, <2>6
    <3>. QED BY <1>1, <2>0, <2>1, <2>2, <3>1
  <2>. QED BY <2>3, <2>4, <2>5, <2>6
<1>9. ASSUME NEW n \in 1 .. N PROVE \E m \in 1 .. M : f[m] <= n /\ n <= Stop(m)
  <2>. DEFINE G == {i \in 1 .. M : n < f[i]}
  <2>1. CASE G = {}
    <3>1. M \in 1 .. M /\ M \notin G
      BY <1>1, <2>1
    <3>2. ~(n < f[M]) /\ f[M] \in 1 .. N /\ Stop(M) = N
      BY <1>2, <1>3, <3>1
    <3>3. f[M] <= n /\ n <= Stop(M)
      BY <1>1, <3>2
    <3>. QED BY <3>1, <3>3
  <2>2. CASE G # {}
    <3>1. PICK g \in G : \A i \in G : g <= i
      <4>1. G \in SUBSET Nat
        OBVIOUS
      <4>. HIDE DEF G
      <4>. QED BY <2>2, <4>1, Smallest
    <3>2. g \in 1 .. M /\ n < f[g]
      BY <3>1
    <3>3. g # 1
      BY <1>1, <1>2, <3>2
    <3>4. g - 1 \in 1 .. M /\ g - 1 # M /\ (g - 1) + 1 = g /\ ~(g <= g - 1)
      BY <1>1, <3>2, <3>3
    <3>5. g - 1 \notin G
      <4>. HIDE DEF G
      <4>. QED BY <3>1, <3>4
    <3>6. f[g - 1] <= n
      <4>1. f[g - 1] \in 1 .. N /\ ~(n < f[g - 1])
        BY <1>2, <3>4, <3>5
      <4>. QED BY <1>1, <4>1
    <3>7. n <= Stop(g - 1)
      <4>1. Stop(g - 1) = f[g] - 1 /\ f[g] \in 1 .. N
        BY <1>4, <3>4
      <4>. QED BY <1>1, <3>2, <4>1
    <3>. QED BY <3>4, <3>6, <3>7
  <2>. QED BY <2>1, <2>2
<1>. QED BY <1>5, <1>6, <1>7, <1>8, <1>9 DEF N, f, M

\* The places of a piece, counted from where it begins.
LEMMA Counting ==
  ASSUME NEW N \in Nat, NEW lo \in 1 .. N, NEW hi \in 1 .. N, lo <= hi
  PROVE  /\ 1 \in 1 .. (hi - lo) + 1 /\ (hi - lo) + 1 \in 1 .. (hi - lo) + 1
         /\ (lo + 1) - 1 = lo /\ (lo + ((hi - lo) + 1)) - 1 = hi
         /\ \A n \in 1 .. N : lo <= n /\ n <= hi =>
              (n - lo) + 1 \in 1 .. (hi - lo) + 1 /\ (lo + ((n - lo) + 1)) - 1 = n
         /\ \A j \in 1 .. (hi - lo) + 1 :
              (lo + j) - 1 \in 1 .. N /\ lo <= (lo + j) - 1 /\ (lo + j) - 1 <= hi
         /\ \A n \in 1 .. N : lo <= n /\ n <= hi /\ n # hi =>
              /\ (n - lo) + 1 \in 1 .. ((hi - lo) + 1) - 1 /\ ((n - lo) + 1) + 1 \in 1 .. (hi - lo) + 1
              /\ (lo + (((n - lo) + 1) + 1)) - 1 = n + 1
         /\ \A n \in 1 .. N : \A j \in 1 .. ((hi - lo) + 1) - 1 :
              j \in 1 .. (hi - lo) + 1 /\ ((lo + j) - 1 = n => j = (n - lo) + 1)
  OBVIOUS

\* A block is the list from where it begins to where it stops, and the parent of its ops.
LEMMA BlockFacts ==
  ASSUME IInv, MadeBlocks, phase = "done", deadlist # << >>, NEW m \in 1 .. Len(Firsts)
  PROVE  /\ Len(blist[m]) = (Stop(m) - Firsts[m]) + 1
         /\ \A i \in 1 .. Len(blist[m]) : blist[m][i] = deadlist[(Firsts[m] + i) - 1]
         /\ Head(blist[m]) = deadlist[Firsts[m]] /\ Last(blist[m]) = deadlist[Stop(m)]
         /\ \A n \in DOMAIN deadlist : Firsts[m] <= n /\ n <= Stop(m) => Parent(deadlist[n]) = m
<1>. DEFINE N == Len(deadlist)
            f == Firsts
            M == Len(f)
<1>1. /\ N \in Nat /\ DOMAIN deadlist = 1 .. N /\ M \in Nat /\ DOMAIN f = 1 .. M
      /\ \A i \in 1 .. M : f[i] \in 1 .. N /\ f[i] <= Stop(i) /\ Stop(i) \in 1 .. N
      /\ \A i, j \in 1 .. M : i < j => Stop(i) < f[j]
  BY ListFacts, FirstsFacts, Pieces
<1>2. blist = [i \in 1 .. M |-> SubSeq(deadlist, f[i], Stop(i))]
  <2>1. \A i : Stop(i) = IF i = M THEN N ELSE f[i + 1] - 1
    BY DEF Stop
  <2>2. blist = [i \in DOMAIN f |-> SubSeq(deadlist, f[i], IF i = M THEN N ELSE f[i + 1] - 1)]
    BY DEF MadeBlocks, split_basic, Firsts
  <2>. HIDE DEF f, M, N
  <2>. QED BY <1>1, <2>1, <2>2
<1>. HIDE DEF f, M, N
<1>3. ASSUME NEW i \in 1 .. M
      PROVE  /\ blist[i] \in Seq(Nat \X Nat)
             /\ Len(blist[i]) = (Stop(i) - f[i]) + 1 /\ (Stop(i) - f[i]) + 1 \in Nat \ {0}
             /\ \A j \in 1 .. Len(blist[i]) : blist[i][j] = deadlist[(f[i] + j) - 1]
             /\ DOMAIN blist[i] = 1 .. Len(blist[i])
  <2>1. f[i] \in 1 .. N /\ f[i] <= Stop(i) /\ Stop(i) \in 1 .. N
    BY <1>1
  <2>2. f[i] \in Int /\ Stop(i) \in Int /\ (Stop(i) - f[i]) + 1 \in Nat \ {0}
    BY <1>1, <2>1
  <2>3. \A j \in f[i] .. Stop(i) : deadlist[j] \in Nat \X Nat
    <3>1. \A j \in f[i] .. Stop(i) : j \in 1 .. N
      BY <1>1, <2>1
    <3>2. deadlist \in Seq(Nat \X Nat)
      BY DEF IInv, Ops
    <3>. QED BY <1>1, <3>1, <3>2
  <2>. DEFINE lo == f[i]
              hi == Stop(i)
  <2>4. blist[i] = SubSeq(deadlist, lo, hi)
    BY <1>2
  <2>. HIDE DEF lo, hi
  <2>5. lo \in Int /\ hi \in Int /\ lo <= hi /\ \A j \in lo .. hi : deadlist[j] \in Nat \X Nat
    BY <2>1, <2>2, <2>3 DEF lo, hi
  <2>6. /\ SubSeq(deadlist, lo, hi) \in Seq(Nat \X Nat)
        /\ Len(SubSeq(deadlist, lo, hi)) = IF lo <= hi THEN hi - lo + 1 ELSE 0
        /\ \A j \in 1 .. hi - lo + 1 : SubSeq(deadlist, lo, hi)[j] = deadlist[lo + j - 1]
    BY <2>5, SubSeqProperties
  <2>7. blist[i] \in Seq(Nat \X Nat) /\ Len(blist[i]) = (hi - lo) + 1
        /\ \A j \in 1 .. Len(blist[i]) : blist[i][j] = deadlist[(lo + j) - 1]
    BY <2>4, <2>5, <2>6
  <2>8. DOMAIN blist[i] = 1 .. Len(blist[i])
    BY <2>7
  <2>. QED BY <2>2, <2>7, <2>8 DEF lo, hi
<1>4. \A i \in 1 .. M : \A n \in 1 .. N : deadlist[n] \in Range(blist[i]) <=> f[i] <= n /\ n <= Stop(i)
  <2>. SUFFICES ASSUME NEW i \in 1 .. M, NEW n \in 1 .. N
                PROVE  deadlist[n] \in Range(blist[i]) <=> f[i] <= n /\ n <= Stop(i)
    OBVIOUS
  <2>1. f[i] \in 1 .. N /\ Stop(i) \in 1 .. N /\ f[i] \in Nat /\ Stop(i) \in Nat /\ n \in Nat
    BY <1>1
  <2>. DEFINE L == (Stop(i) - f[i]) + 1
  <2>2. /\ L \in Nat /\ DOMAIN blist[i] = 1 .. L
        /\ \A j \in 1 .. L : blist[i][j] = deadlist[(f[i] + j) - 1]
    BY <1>3
  <2>3. ASSUME f[i] <= n, n <= Stop(i) PROVE deadlist[n] \in Range(blist[i])
    <3>1. (n - f[i]) + 1 \in 1 .. L /\ (f[i] + ((n - f[i]) + 1)) - 1 = n
      BY <2>1, <2>3, Counting
    <3>2. blist[i][(n - f[i]) + 1] = deadlist[n]
      BY <2>2, <3>1
    <3>. QED BY <2>2, <3>1, <3>2 DEF Range
  <2>4. ASSUME deadlist[n] \in Range(blist[i]) PROVE f[i] <= n /\ n <= Stop(i)
    <3>1. PICK j \in 1 .. L : deadlist[n] = deadlist[(f[i] + j) - 1]
      BY <2>2, <2>4 DEF Range
    <3>2. (f[i] + j) - 1 \in 1 .. N /\ f[i] <= (f[i] + j) - 1 /\ (f[i] + j) - 1 <= Stop(i)
      BY <1>1, <2>1, Counting
    <3>3. n = (f[i] + j) - 1
      BY <1>1, <3>1, <3>2 DEF IInv, Ops, IsInjective
    <3>. QED BY <3>2, <3>3
  <2>. QED BY <2>3, <2>4
<1>5. m \in 1 .. M
  BY DEF M, f
<1>6. Head(blist[m]) = deadlist[f[m]] /\ Last(blist[m]) = deadlist[Stop(m)]
  <2>1. /\ Len(blist[m]) = (Stop(m) - f[m]) + 1 /\ (Stop(m) - f[m]) + 1 \in Nat \ {0}
        /\ \A j \in 1 .. Len(blist[m]) : blist[m][j] = deadlist[(f[m] + j) - 1]
    BY <1>3, <1>5
  <2>2. Head(blist[m]) = blist[m][1] /\ Last(blist[m]) = blist[m][Len(blist[m])]
    <3>1. blist[m] \in Seq(Nat \X Nat) /\ blist[m] # << >>
      BY <1>3, <1>5, <2>1
    <3>. QED BY <3>1 DEF Last
  <2>3. /\ 1 \in 1 .. Len(blist[m]) /\ Len(blist[m]) \in 1 .. Len(blist[m])
        /\ (f[m] + 1) - 1 = f[m] /\ (f[m] + Len(blist[m])) - 1 = Stop(m)
    <3>. DEFINE lo == f[m]
                hi == Stop(m)
    <3>1. lo \in 1 .. N /\ lo <= hi /\ hi \in 1 .. N /\ Len(blist[m]) = (hi - lo) + 1
      BY <1>1, <1>5, <2>1
    <3>2. N \in Nat
      BY <1>1
    <3>. HIDE DEF lo, hi
    <3>3. /\ 1 \in 1 .. (hi - lo) + 1 /\ (hi - lo) + 1 \in 1 .. (hi - lo) + 1
          /\ (lo + 1) - 1 = lo /\ (lo + ((hi - lo) + 1)) - 1 = hi
      BY <3>1, <3>2, Counting
    <3>. QED BY <3>1, <3>3 DEF lo, hi
  <2>. QED BY <2>1, <2>2, <2>3
<1>7. ASSUME NEW n \in 1 .. N, f[m] <= n, n <= Stop(m) PROVE Parent(deadlist[n]) = m
  <2>1. deadlist[n] \in Range(blist[m])
    BY <1>4, <1>5, <1>7
  <2>2. ASSUME NEW i \in 1 .. M, deadlist[n] \in Range(blist[i]) PROVE i = m
    <3>1. f[i] <= n /\ n <= Stop(i)
      BY <1>4, <2>2
    <3>2. CASE i < m
      <4>1. Stop(i) < f[m] /\ f[m] \in Nat /\ Stop(i) \in Nat /\ n \in Nat
        BY <1>1, <1>5, <3>2
      <4>2. n <= Stop(i) /\ f[m] <= n
        BY <1>7, <3>1
      <4>. QED BY <4>1, <4>2
    <3>3. CASE m < i
      <4>1. Stop(m) < f[i] /\ f[i] \in 1 .. N /\ Stop(m) \in 1 .. N
        BY <1>1, <1>5, <3>3
      <4>. QED BY <1>1, <1>7, <3>1, <4>1
    <3>4. i < m \/ m < i \/ i = m
      <4>1. i \in Nat /\ m \in Nat
        BY <1>1, <1>5
      <4>. QED BY <4>1
    <3>. QED BY <3>2, <3>3, <3>4
  <2>3. DOMAIN blist = 1 .. M
    BY <1>2
  <2>. QED BY <1>5, <2>1, <2>2, <2>3 DEF Parent
<1>. QED BY <1>1, <1>3, <1>5, <1>6, <1>7 DEF f

\* The piece that holds an op: it ends with the one op that has edges, and only its first op
\* begins a block.
LEMMA PieceOf ==
  ASSUME IInv, Bounded, Cutting, MadeBlocks, TidyCode, phase = "done", NEW n \in DOMAIN deadlist
  PROVE  \E m \in 1 .. Len(Firsts) :
           /\ Firsts[m] <= n /\ n <= Stop(m) /\ Parent(deadlist[n]) = m
           /\ nextstart(n) <=> n = Stop(m)
           /\ deadlist[n] \in startblock => n = Firsts[m]
<1>. DEFINE N == Len(deadlist)
<1>1. N \in Nat /\ DOMAIN deadlist = 1 .. N /\ deadlist # << >>
  BY ListFacts
<1>2. PICK m \in 1 .. Len(Firsts) : Firsts[m] <= n /\ n <= Stop(m)
  BY <1>1, Pieces
<1>3. Firsts[m] \in 1 .. N
  BY <1>1, FirstsFacts
<1>4. /\ Stop(m) \in 1 .. N /\ nextstart(Stop(m))
      /\ \A i \in Firsts[m] + 1 .. Stop(m) : deadlist[i] \notin startblock
  BY <1>1, Pieces
<1>5. Parent(deadlist[n]) = m
  BY <1>1, <1>2, BlockFacts
<1>6. \A i : nextstart(i) <=> i = N \/ deadlist[i + 1] \in startblock
  BY DEF nextstart
<1>. HIDE DEF N
<1>7. ASSUME nextstart(n), n # Stop(m) PROVE FALSE
  <2>1. n + 1 \in Firsts[m] + 1 .. Stop(m) /\ n # N
    <3>1. n \in Nat /\ Firsts[m] \in Nat /\ Stop(m) \in Nat /\ N \in Nat /\ Stop(m) <= N
      BY <1>1, <1>3, <1>4
    <3>. QED BY <1>2, <1>7, <3>1
  <2>. QED BY <1>4, <1>6, <1>7, <2>1
<1>8. ASSUME deadlist[n] \in startblock, n # Firsts[m] PROVE FALSE
  <2>1. n \in Firsts[m] + 1 .. Stop(m)
    <3>1. n \in Nat /\ Firsts[m] \in Nat /\ Stop(m) \in Nat
      BY <1>1, <1>3, <1>4
    <3>. QED BY <1>2, <1>8, <3>1
  <2>. QED BY <1>4, <1>8, <2>1
<1>. QED BY <1>2, <1>4, <1>5, <1>7, <1>8

\* The place of a number of a run, counted from the run's first.
LEMMA PlaceInRun ==
  ASSUME NEW lo \in Nat, NEW hi \in Nat, NEW n \in Nat, lo <= n, n <= hi, n # hi
  PROVE  /\ (n - lo) + 1 \in 1 .. ((hi - lo) + 1) - 1
         /\ ((n - lo) + 1) + 1 \in 1 .. (hi - lo) + 1
         /\ (lo + ((n - lo) + 1)) - 1 = n
         /\ (lo + (((n - lo) + 1) + 1)) - 1 = n + 1
<1>1. n - lo \in Nat /\ hi - lo \in Nat /\ n - lo < hi - lo
  OBVIOUS
<1>2. (n - lo) + 1 \in 1 .. ((hi - lo) + 1) - 1
  BY <1>1
<1>3. ((n - lo) + 1) + 1 \in 1 .. (hi - lo) + 1
  BY <1>1
<1>4. (lo + ((n - lo) + 1)) - 1 = n /\ (lo + (((n - lo) + 1) + 1)) - 1 = n + 1
  OBVIOUS
<1>. QED BY <1>2, <1>3, <1>4

\* By the blocks control goes from an op where its instruction says.
LEMMA SameWays ==
  ASSUME IInv, Bounded, Cutting, MadeBlocks, TidyCode, phase = "done", NEW n \in DOMAIN deadlist
  PROVE  GoesInBlocks(deadlist[n]) = Goes(deadlist[n])
<1>. DEFINE N == Len(deadlist)
            op == deadlist[n]
            edges == {f \in Range(block_edge) : Parent(f[1]) = Parent(op)}
<1>1. N \in Nat /\ DOMAIN deadlist = 1 .. N /\ deadlist # << >> /\ IsInjective(deadlist)
  BY ListFacts DEF IInv, Ops
<1>2. PICK m \in 1 .. Len(Firsts) : /\ Firsts[m] <= n /\ n <= Stop(m) /\ Parent(op) = m
                                    /\ nextstart(n) <=> n = Stop(m)
  BY PieceOf
<1>. DEFINE bl == blist[m]
            lo == Firsts[m]
            hi == Stop(m)
            inner == {j \in 1 .. Len(bl) - 1 : bl[j] = op}
<1>3. lo \in 1 .. N /\ hi \in 1 .. N /\ lo <= hi
  BY <1>1, FirstsFacts, Pieces
<1>4. /\ Len(bl) = (hi - lo) + 1 /\ \A i \in 1 .. Len(bl) : bl[i] = deadlist[(lo + i) - 1]
      /\ Last(bl) = deadlist[hi]
  BY <1>1, BlockFacts
<1>5. GoesInBlocks(op) = IF op # Last(bl) THEN {<<bl[i + 1], FALSE>> : i \in inner}
                         ELSE {<<Head(blist[Parent(e[2])]), e[3]>> : e \in edges}
  BY <1>2 DEF GoesInBlocks
<1>6. /\ ~nextstart(n) => Goes(op) = {<<deadlist[n + 1], FALSE>>}
      /\ nextstart(n) => {<<e[2], e[3]>> : e \in Range(EdgesOf(n))} = Goes(op)
      /\ \A i \in DOMAIN deadlist : \A e \in Range(EdgesOf(i)) :
           e[1] = deadlist[i] /\ e[2] \in startblock /\ nextstart(i)
  BY OpWays
<1>7. op = Last(bl) <=> n = hi
  BY <1>1, <1>3, <1>4 DEF IsInjective
<1>8. CASE n # hi
  <2>. DEFINE j == (n - lo) + 1
  <2>1. j \in 1 .. Len(bl) - 1 /\ j + 1 \in 1 .. Len(bl) /\ (lo + j) - 1 = n /\ (lo + (j + 1)) - 1 = n + 1
    <3>1. lo <= n /\ n <= hi /\ n # hi
      BY <1>2, <1>8
    <3>2. n \in Nat /\ lo \in Nat /\ hi \in Nat
      BY <1>1, <1>3
    <3>. HIDE DEF lo, hi, N, bl
    <3>3. /\ j \in 1 .. ((hi - lo) + 1) - 1 /\ j + 1 \in 1 .. (hi - lo) + 1
          /\ (lo + j) - 1 = n /\ (lo + (j + 1)) - 1 = n + 1
      BY <3>1, <3>2, PlaceInRun
    <3>. QED BY <1>4, <3>3
  <2>2. \A i \in 1 .. Len(bl) - 1 : bl[i] = op => i = j
    <3>. SUFFICES ASSUME NEW i \in 1 .. Len(bl) - 1, bl[i] = op PROVE i = j
      OBVIOUS
    <3>1. i \in 1 .. ((hi - lo) + 1) - 1 /\ i \in 1 .. (hi - lo) + 1
      BY <1>1, <1>3, <1>4, Counting
    <3>2. (lo + i) - 1 \in 1 .. N
      BY <1>1, <1>3, <3>1, Counting
    <3>3. (lo + i) - 1 = n
      BY <1>1, <1>4, <3>1, <3>2 DEF IsInjective
    <3>. QED BY <1>1, <1>3, <3>1, <3>3, Counting
  <2>3. bl[j] = op /\ bl[j + 1] = deadlist[n + 1]
    <3>1. j \in 1 .. Len(bl)
      BY <1>4, <2>1
    <3>. HIDE DEF j
    <3>. QED BY <1>4, <2>1, <3>1
  <2>4. inner = {j}
    <3>. HIDE DEF j, bl
    <3>. QED BY <2>1, <2>2, <2>3
  <2>. HIDE DEF inner, bl, j, lo, hi, op
  <2>5. {<<bl[i + 1], FALSE>> : i \in inner} = {<<deadlist[n + 1], FALSE>>}
    BY <2>3, <2>4
  <2>6. ~nextstart(n)
    BY <1>2, <1>8 DEF hi
  <2>. QED BY <1>5, <1>6, <1>7, <1>8, <2>5, <2>6 DEF op
<1>9. CASE n = hi
  <2>1. nextstart(n)
    BY <1>2, <1>9
  <2>2. \A e : e \in Range(block_edge) <=> \E i \in DOMAIN deadlist : e \in Range(EdgesOf(i))
    BY EdgeSource DEF MadeBlocks
  <2>3. edges = Range(EdgesOf(n))
    <3>1. ASSUME NEW e \in Range(EdgesOf(n)) PROVE e \in edges
      BY <1>6, <2>2
    <3>2. ASSUME NEW e \in edges PROVE e \in Range(EdgesOf(n))
      <4>1. PICK i \in DOMAIN deadlist : e \in Range(EdgesOf(i))
        BY <2>2
      <4>2. e[1] = deadlist[i] /\ nextstart(i)
        BY <1>6, <4>1
      <4>3. Parent(deadlist[i]) = m
        BY <1>2, <3>2, <4>2
      <4>4. i = hi
        BY <4>2, <4>3, PieceOf
      <4>. QED BY <1>9, <4>1, <4>4
    <3>. QED BY <3>1, <3>2
  <2>4. ASSUME NEW e \in Range(EdgesOf(n)) PROVE Head(blist[Parent(e[2])]) = e[2]
    <3>1. e[2] \in startblock
      BY <1>6
    <3>2. PICK i \in DOMAIN deadlist : deadlist[i] = e[2]
      <4>1. e[2] \in Range(deadlist)
        BY <3>1 DEF IInv, Ops
      <4>. QED BY <4>1 DEF Range
    <3>3. PICK l \in 1 .. Len(Firsts) : Parent(deadlist[i]) = l /\ i = Firsts[l]
      BY <3>1, <3>2, PieceOf
    <3>4. Head(blist[l]) = deadlist[Firsts[l]]
      BY <1>1, BlockFacts
    <3>. QED BY <3>2, <3>3, <3>4
  <2>5. {<<Head(blist[Parent(e[2])]), e[3]>> : e \in edges} = {<<e[2], e[3]>> : e \in Range(EdgesOf(n))}
    <3>. HIDE DEF edges
    <3>. QED BY <2>3, <2>4
  <2>. HIDE DEF edges, bl
  <2>. QED BY <1>5, <1>6, <1>7, <1>9, <2>1, <2>5
<1>. QED BY <1>8, <1>9

LEMMA KeptAtEnd ==
  ASSUME IInv, Bounded, Flow, TidyCode
  PROVE  FlowKept
<1>. SUFFICES ASSUME phase = "done"
              PROVE  /\ Head(blist[1]) = target(visited, 0)
                     /\ \A op \in Reached : GoesInBlocks(op) = Goes(op)
  BY DEF FlowKept
<1>1. Cutting /\ MadeBlocks
  BY DEF Flow
<1>2. deadlist # << >>
  BY <1>1 DEF Cutting, Begun
<1>3. /\ Len(Firsts) \in Nat \ {0} /\ Firsts[1] = 1
      /\ 1 \in DOMAIN deadlist
  <2>1. 1 \in DOMAIN deadlist
    <3>1. Len(deadlist) \in Nat /\ DOMAIN deadlist = 1 .. Len(deadlist) /\ Len(deadlist) \in DOMAIN deadlist
      BY <1>2, ListFacts
    <3>. QED BY <3>1
  <2>. QED BY <1>2, <2>1, FirstsFacts
<1>4. target(visited, 0) = deadlist[1]
  <2>1. Forward(visited)
    <3>1. DOMAIN visited \subseteq Addr /\ \A a \in DOMAIN visited : visited[a] \in Decodings(a)
      BY DEF IInv, Types
    <3>. QED BY <3>1, ForwardIf
  <2>2. Past(visited, 0) \in DOMAIN visited /\ deadlist[1] = <<Past(visited, 0), 1>>
    BY <1>1, <1>2 DEF Cutting, Begun
  <2>. QED BY <2>1, <2>2, TargetIs
<1>5. Head(blist[1]) = deadlist[1]
  <2>1. 1 \in 1 .. Len(Firsts)
    BY <1>3
  <2>. QED BY <1>1, <1>2, <1>3, <2>1, BlockFacts
<1>6. \A op \in Made : GoesInBlocks(op) = Goes(op)
  BY <1>1, SameWays DEF Made, Range
<1>7. Reached \subseteq Made
  <2>. DEFINE succ == [op \in Made |-> {g[1] : g \in Goes(op)}]
  <2>1. IsFiniteSet(Made)
    <3>1. deadlist \in Seq(Nat \X Nat) /\ DOMAIN deadlist = 1 .. Len(deadlist) /\ Len(deadlist) \in Nat
      BY ListFacts DEF IInv, Ops
    <3>2. deadlist \in Surjection(1 .. Len(deadlist), Made)
      <4>1. deadlist \in [1 .. Len(deadlist) -> Made]
        BY <3>1 DEF Made, Range
      <4>. QED BY <3>1, <4>1 DEF Surjection, Made, Range
    <3>3. IsFiniteSet(1 .. Len(deadlist))
      BY <3>1, FS_Interval
    <3>. QED BY <3>2, <3>3, FS_Surjection
  <2>2. ASSUME NEW n \in DOMAIN deadlist, NEW g \in Goes(deadlist[n]) PROVE g[1] \in Made
    <3>1. CASE nextstart(n)
      <4>1. PICK e \in Range(EdgesOf(n)) : g = <<e[2], e[3]>>
        <5>1. Goes(deadlist[n]) = {<<e[2], e[3]>> : e \in Range(EdgesOf(n))}
          BY <1>1, <3>1, OpWays
        <5>. QED BY <2>2, <5>1
      <4>2. g[1] \in startblock
        BY <1>1, <4>1, OpWays
      <4>. QED BY <4>2 DEF IInv, Ops, Made
    <3>2. CASE ~nextstart(n)
      <4>1. g = <<deadlist[n + 1], FALSE>>
        <5>1. Goes(deadlist[n]) = {<<deadlist[n + 1], FALSE>>}
          BY <1>1, <3>2, OpWays
        <5>. QED BY <2>2, <5>1
      <4>2. n + 1 \in DOMAIN deadlist
        <5>1. Len(deadlist) \in Nat /\ DOMAIN deadlist = 1 .. Len(deadlist) /\ n # Len(deadlist)
          BY <3>2, ListFacts DEF nextstart
        <5>. QED BY <5>1
      <4>3. g[1] = deadlist[n + 1]
        BY <4>1
      <4>. QED BY <4>2, <4>3 DEF Made, Range
    <3>. QED BY <3>1, <3>2
  <2>3. \A op \in Made : {g[1] : g \in Goes(op)} \subseteq Made
    <3>. SUFFICES ASSUME NEW n \in DOMAIN deadlist PROVE {g[1] : g \in Goes(deadlist[n])} \subseteq Made
      BY DEF Made, Range
    <3>. QED BY <2>2
  <2>4. succ \in [Made -> SUBSET Made]
    BY <2>3
  <2>5. {target(visited, 0)} \in SUBSET Made
    BY <1>3, <1>4 DEF Made, Range
  <2>6. Reached = ReachableFrom(succ, {target(visited, 0)})
    BY DEF Reached
  <2>. HIDE DEF succ
  <2>. QED BY <2>1, <2>4, <2>5, <2>6, ReachableIsLeast
<1>. QED BY <1>4, <1>5, <1>6, <1>7

\* FlowKept holds in every reachable state, whatever the addresses and whatever SLEIGH makes
\* of the bytes, as long as it is tidy: the blocks that collect_edges, split_basic and
\* connect_basic make of the ops of generate_ops lead control from every op it reaches where
\* the instruction of the op says.
THEOREM BlocksFollowTheCode == TidyPcode => (Spec => []FlowKept)
<1>. SUFFICES ASSUME TidyPcode PROVE Spec => []FlowKept
  OBVIOUS
<1>. USE StaysTidy
<1>1. Init => Flow
  BY InitFlow
<1>2. IInv /\ IInv' /\ Bounded /\ Flow /\ [Next]_vars => Flow'
  BY NextFlow
<1>3. IInv /\ Bounded /\ Flow => FlowKept
  BY KeptAtEnd
<1>. QED BY <1>1, <1>2, <1>3, InitIInv, NextIInv, InitBounded, NextBounded, PTL DEF Spec

(***************************************************************************)
(* Nothing is decoded that control does not reach, when the ops of an      *)
(* instruction are linked.                                                 *)
(***************************************************************************)
LinkedCode == \A a \in Addr : \A ins \in Decodings(a) : Linked(ins.ops)

LEMMA StaysLinked == LinkedPcode => LinkedCode
<1>. SUFFICES ASSUME LinkedPcode, NEW a \in Addr, NEW raw \in Instructions(a), NEW F \in SUBSET Nat
              PROVE  Linked(Resolved(raw, F).ops)
  BY DEF LinkedCode, Decodings
<1>. DEFINE ops == raw.ops
            res == Resolved(raw, F).ops
<1>1. /\ DOMAIN res = 1 .. Len(ops) /\ DOMAIN ops = 1 .. Len(ops) /\ Len(ops) \in Nat
      /\ \A k \in 1 .. Len(ops) : /\ res[k].rel = ops[k].rel /\ res[k].to = ops[k].to
                                 /\ \/ res[k].opcode = ops[k].opcode
                                    \/ ops[k].opcode = "BRANCH" /\ ~ops[k].rel /\ res[k].opcode = "BRANCH_CALL"
  BY ResolvedIs
<1>2. Linked(ops)
  BY DEF LinkedPcode
<1>. HIDE DEF ops, res
<1>3. \A k \in DOMAIN res : res[k].rel => res[k].opcode \in {"BRANCH", "CBRANCH"}
  BY <1>1, <1>2 DEF Linked
<1>4. ASSUME NEW k \in DOMAIN res \ {1}
      PROVE  \/ res[k - 1].opcode \in {"OP", "CBRANCH"}
             \/ \E j \in 1 .. k - 1 : res[j].rel /\ j + res[j].to = k
  <2>1. k \in DOMAIN ops \ {1} /\ k - 1 \in 1 .. Len(ops) /\ \A j \in 1 .. k - 1 : j \in 1 .. Len(ops)
    BY <1>1
  <2>2. CASE ops[k - 1].opcode \in {"OP", "CBRANCH"}
    BY <1>1, <2>1, <2>2
  <2>3. CASE \E j \in 1 .. k - 1 : ops[j].rel /\ j + ops[j].to = k
    <3>1. PICK j \in 1 .. k - 1 : ops[j].rel /\ j + ops[j].to = k
      BY <2>3
    <3>2. res[j].rel = ops[j].rel /\ res[j].to = ops[j].to
      BY <1>1, <2>1
    <3>. QED BY <3>1, <3>2
  <2>. QED BY <1>2, <2>1, <2>2, <2>3 DEF Linked
<1>5. Linked(res)
  BY <1>3, <1>4 DEF Linked
<1>. QED BY <1>5 DEF res

\* Control goes on behind an op or where it jumps to, if something is there.
Ways(op) ==
  /\ \A g \in Goes(op) :
       /\ g[1] # NoOp
       /\ \/ opcode(op) \in {"OP", "CBRANCH"} /\ g[1] = fallthru_op(op)
          \/ opcode(op) \in {"BRANCH", "CBRANCH"} /\ g[1] = branch_target(op)
  /\ opcode(op) \in {"OP", "CBRANCH"} /\ fallthru_op(op) # NoOp =>
       \E b : <<fallthru_op(op), b>> \in Goes(op)
  /\ opcode(op) \in {"BRANCH", "CBRANCH"} /\ branch_target(op) # NoOp =>
       \E b : <<branch_target(op), b>> \in Goes(op)

\* What is reached: the start, and from there on wherever an op goes, and nothing else.
ReachedFacts ==
  /\ \A op \in Made : Ways(op) /\ \A g \in Goes(op) : g[1] \in Made
  /\ target(visited, 0) \in Made =>
       /\ target(visited, 0) \in Reached
       /\ \A op \in Reached : \A g \in Goes(op) : g[1] \in Reached
       /\ \A X \in SUBSET Made :
            target(visited, 0) \in X /\ (\A op \in X : \A g \in Goes(op) : g[1] \in X) => Reached \subseteq X

LEMMA GoesIs ==
  ASSUME NEW op
  PROVE  Ways(op)
<1>1. opcode(op) = "BRANCH" => Goes(op) = {g \in {<<branch_target(op), FALSE>>} : g[1] # NoOp}
  BY DEF Goes
<1>2. opcode(op) = "CBRANCH" =>
        Goes(op) = {g \in {<<fallthru_op(op), FALSE>>, <<branch_target(op), TRUE>>} : g[1] # NoOp}
  BY DEF Goes
<1>3. opcode(op) = "OP" => Goes(op) = {g \in {<<fallthru_op(op), FALSE>>} : g[1] # NoOp}
  BY DEF Goes
<1>4. opcode(op) \notin {"BRANCH", "CBRANCH", "OP"} => Goes(op) = {}
  BY DEF Goes
<1>5. \A x, b : <<x, b>>[1] = x
  OBVIOUS
<1>6. CASE opcode(op) = "BRANCH"
  BY <1>1, <1>5, <1>6 DEF Ways
<1>7. CASE opcode(op) = "CBRANCH"
  BY <1>2, <1>5, <1>7 DEF Ways
<1>8. CASE opcode(op) = "OP"
  BY <1>3, <1>5, <1>8 DEF Ways
<1>9. CASE opcode(op) \notin {"BRANCH", "CBRANCH", "OP"}
  BY <1>4, <1>9 DEF Ways
<1>. QED BY <1>6, <1>7, <1>8, <1>9

LEMMA MadeFinite == IInv => IsFiniteSet(Made) /\ Made = OpsOf(visited)
<1>. SUFFICES ASSUME IInv PROVE IsFiniteSet(Made) /\ Made = OpsOf(visited)
  OBVIOUS
<1>1. deadlist \in Seq(Nat \X Nat) /\ DOMAIN deadlist = 1 .. Len(deadlist) /\ Len(deadlist) \in Nat
  BY ListFacts DEF IInv, Ops
<1>2. deadlist \in Surjection(1 .. Len(deadlist), Made)
  <2>1. deadlist \in [1 .. Len(deadlist) -> Made]
    BY <1>1 DEF Made, Range
  <2>. QED BY <1>1, <2>1 DEF Surjection, Made, Range
<1>3. IsFiniteSet(1 .. Len(deadlist))
  BY <1>1, FS_Interval
<1>4. IsFiniteSet(Made)
  BY <1>2, <1>3, FS_Surjection
<1>. QED BY <1>4 DEF IInv, Ops, Made

LEMMA ReachedIs == IInv => ReachedFacts
<1>. SUFFICES ASSUME IInv PROVE ReachedFacts
  OBVIOUS
<1>1. /\ Forward(visited) /\ \A a \in DOMAIN visited : visited[a].ops \in Seq(PcodeOp)
      /\ \A a \in DOMAIN visited : a \in Nat /\ end(visited, a) \in Nat
  <2>1. DOMAIN visited \subseteq Addr /\ \A a \in DOMAIN visited : visited[a] \in Decodings(a)
    BY DEF IInv, Types
  <2>. QED BY <2>1, ForwardIf
<1>2. IsFiniteSet(Made) /\ Made = OpsOf(visited)
  BY MadeFinite
<1>3. \A x \in Nat : target(visited, x) = NoOp \/ target(visited, x) \in Made
  <2>1. \A a \in DOMAIN visited : \E S : visited[a].ops \in Seq(S)
    BY <1>1
  <2>. QED BY <1>1, <1>2, <2>1, TargetFound
<1>4. ASSUME NEW op \in Made PROVE \A g \in Goes(op) : g[1] \in Made
  <2>1. PICK a \in DOMAIN visited : \E k \in DOMAIN visited[a].ops : op = <<a, k>>
    BY <1>2 DEF OpsOf
  <2>2. PICK k \in DOMAIN visited[a].ops : op = <<a, k>>
    BY <2>1
  <2>. DEFINE ops == visited[a].ops
  <2>3. /\ DOMAIN ops = 1 .. Len(ops) /\ Len(ops) \in Nat /\ k \in 1 .. Len(ops)
        /\ end(visited, a) \in Nat /\ ops[k] \in PcodeOp
    BY <1>1, <2>2
  <2>4. ops[k].to \in Nat
    BY <2>3 DEF PcodeOp
  <2>5. \A j \in 1 .. Len(ops) : <<a, j>> \in Made
    BY <1>2, <2>3 DEF OpsOf
  <2>6. fallthru_op(op) = NoOp \/ fallthru_op(op) \in Made
    <3>1. fallthru_op(op) = IF k < Len(ops) THEN <<a, k + 1>> ELSE target(visited, end(visited, a))
      BY <2>2 DEF fallthru_op
    <3>2. k < Len(ops) => k + 1 \in 1 .. Len(ops)
      BY <2>3
    <3>. HIDE DEF ops
    <3>. QED BY <1>3, <2>3, <2>5, <3>1, <3>2
  <2>7. branch_target(op) = NoOp \/ branch_target(op) \in Made
    <3>1. branch_target(op) =
            IF ~ops[k].rel THEN target(visited, ops[k].to)
            ELSE IF k + ops[k].to <= Len(ops) THEN <<a, k + ops[k].to>> ELSE target(visited, end(visited, a))
      BY <2>2 DEF branch_target
    <3>2. k + ops[k].to <= Len(ops) => k + ops[k].to \in 1 .. Len(ops)
      BY <2>3, <2>4
    <3>. HIDE DEF ops
    <3>. QED BY <1>3, <2>3, <2>4, <2>5, <3>1, <3>2
  <2>8. \A g \in Goes(op) : g[1] # NoOp /\ (g[1] = fallthru_op(op) \/ g[1] = branch_target(op))
    BY GoesIs DEF Ways
  <2>. QED BY <2>6, <2>7, <2>8
<1>. DEFINE succ == [op \in Made |-> {g[1] : g \in Goes(op)}]
<1>5. succ \in [Made -> SUBSET Made] /\ \A op \in Made : succ[op] = {g[1] : g \in Goes(op)}
  BY <1>4
<1>6. Reached = ReachableFrom(succ, {target(visited, 0)})
  BY DEF Reached
<1>. HIDE DEF succ
<1>7. ASSUME target(visited, 0) \in Made
      PROVE  /\ target(visited, 0) \in Reached /\ Reached \subseteq Made
             /\ \A op \in Reached : succ[op] \subseteq Reached
             /\ \A X : {target(visited, 0)} \subseteq X /\ (\A op \in X : succ[op] \subseteq X) => Reached \subseteq X
  BY <1>2, <1>5, <1>6, <1>7, ReachableIsLeast
<1>8. ASSUME target(visited, 0) \in Made, NEW X \in SUBSET Made, target(visited, 0) \in X,
             \A op \in X : \A g \in Goes(op) : g[1] \in X
      PROVE  Reached \subseteq X
  <2>1. \A op \in X : succ[op] \subseteq X
    BY <1>5, <1>8
  <2>. QED BY <1>7, <1>8, <2>1
<1>9. ASSUME target(visited, 0) \in Made, NEW op \in Reached, NEW g \in Goes(op)
      PROVE  g[1] \in Reached
  <2>1. op \in Made /\ succ[op] \subseteq Reached
    BY <1>7, <1>9
  <2>. QED BY <1>5, <1>9, <2>1
<1>. QED BY <1>4, <1>7, <1>8, <1>9, GoesIs DEF ReachedFacts

\* Control leaves an instruction at its end where fallthru goes on.
LEMMA EndIsReached ==
  ASSUME NEW ops \in Seq(PcodeOp), ops # << >>, Tidy(ops), Linked(ops), FallsThrough(ops)
  PROVE  \E j \in DOMAIN ops :
           \/ j = Len(ops) /\ ops[j].opcode \in {"OP", "CBRANCH"}
           \/ ops[j].rel /\ ops[j].opcode \in {"BRANCH", "CBRANCH"} /\ ~(j + ops[j].to <= Len(ops))
<1>1. /\ Len(ops) \in Nat \ {0} /\ DOMAIN ops = 1 .. Len(ops) /\ Walked(ops) = DOMAIN ops
      /\ \A k \in DOMAIN ops : ops[k].opcode \in Opcodes /\ ops[k].to \in Nat
  BY TidyFacts
<1>2. Cardinality(Walked(ops)) = Len(ops)
  <2>1. \A m \in Nat : Cardinality(1 .. m) = m
    BY FS_Interval
  <2>. QED BY <1>1, <2>1
<1>3. CASE RelNext(ops)
  <2>1. PICK t \in RelTargets(ops, Len(ops)) : t > Len(ops)
    BY <1>2, <1>3 DEF RelNext
  <2>2. PICK j \in 1 .. Len(ops) : ops[j].rel /\ t = j + ops[j].to
    BY <2>1 DEF RelTargets
  <2>3. ops[j].to \in Nat
    BY <1>1
  <2>. QED BY <1>1, <2>1, <2>2, <2>3 DEF Linked
<1>4. CASE ~RelNext(ops)
  <2>1. LastWalked(ops) \notin Jumps /\ ~noreturn(ops, Len(ops))
    BY <1>2, <1>4 DEF FallsThrough
  <2>2. Max(Walked(ops)) = Len(ops)
    <3>1. Len(ops) \in Walked(ops) /\ \A k \in Walked(ops) : Len(ops) >= k /\ (k >= Len(ops) => k = Len(ops))
      BY <1>1
    <3>. QED BY <3>1 DEF Max
  <2>3. ops[Len(ops)].opcode \notin Jumps /\ ops[Len(ops)].opcode # "NORETURN_CALL"
    BY <1>1, <2>1, <2>2 DEF LastWalked, noreturn
  <2>4. Len(ops) \in DOMAIN ops /\ ops[Len(ops)].opcode \in {"OP", "CBRANCH"}
    BY <1>1, <2>3 DEF Jumps, Opcodes
  <2>. QED BY <2>4
<1>. QED BY <1>3, <1>4

\* One instruction more is reached when what was made before it is.
LEMMA ReachedGrows ==
  ASSUME IInv, IInv', Flow, TidyCode, LinkedCode, ReachedFacts, ReachedFacts', OnlyReached, Process
  PROVE  OnlyReached'
<1>0. PICK c : c = Last(addrlist)
  OBVIOUS
<1>1. PICK ins \in Decodings(c) : ProcessInstruction(ins)
  BY <1>0, ProcessIs
<1>2. /\ phase = "fallthru" /\ c \in Addr /\ c \notin DOMAIN visited /\ Cutting
  BY <1>0, ProcessIs DEF IInv, Ahead, Flow
<1>3. /\ DOMAIN visited' = DOMAIN visited \union {c} /\ visited'[c] = ins
      /\ \A a \in DOMAIN visited : visited'[a] = visited[a]
  BY <1>0, <1>1, <1>2 DEF ProcessInstruction
<1>4. c \in Nat /\ ins.ops \in Seq(PcodeOp) /\ Linked(ins.ops) /\ DOMAIN ins.ops = 1 .. Len(ins.ops) /\ Len(ins.ops) \in Nat
  <2>1. c \in Nat /\ ins.ops \in Seq(PcodeOp)
    BY <1>2, Sizes
  <2>. QED BY <1>2, <2>1 DEF LinkedCode
<1>5. /\ Forward(visited) /\ Forward(visited')
      /\ \A a \in DOMAIN visited : visited[a].ops \in Seq(PcodeOp)
      /\ \A a \in DOMAIN visited : a \in Nat /\ end(visited, a) \in Nat /\ end(visited', a) = end(visited, a)
      /\ end(visited', c) \in Nat
  <2>1. DOMAIN visited \subseteq Addr /\ \A a \in DOMAIN visited : visited[a] \in Decodings(a)
    BY DEF IInv, Types
  <2>2. DOMAIN visited' \subseteq Addr /\ \A a \in DOMAIN visited' : visited'[a] \in Decodings(a)
    BY DEF IInv, Types
  <2>3. \A a \in DOMAIN visited : end(visited', a) = end(visited, a)
    BY <1>3 DEF end
  <2>. QED BY <1>3, <2>1, <2>2, <2>3, ForwardIf
<1>6. \A x \in Nat : Past(visited', x) = IF Past(visited, x) = c THEN Past(visited', c) ELSE Past(visited, x)
  BY <1>2, <1>3, <1>5, PastGrows
<1>7. \A x \in Nat : target(visited, x) # NoOp => target(visited', x) = target(visited, x)
  BY <1>2, <1>3, <1>5, <1>6, TargetIs
<1>8. /\ Made = OpsOf(visited) /\ Made' = OpsOf(visited')
      /\ Made' = Made \union {<<c, k>> : k \in DOMAIN ins.ops}
  <2>1. Made = OpsOf(visited) /\ Made' = OpsOf(visited')
    BY DEF IInv, Ops, Made
  <2>2. OpsOf(visited') = OpsOf(visited) \union {<<c, k>> : k \in DOMAIN ins.ops}
    BY <1>2, <1>3 DEF OpsOf
  <2>. QED BY <2>1, <2>2
<1>9. ASSUME NEW op \in Made, NEW g \in Goes(op) PROVE \E b : <<g[1], b>> \in Goes(op)'
  <2>0. PICK a \in DOMAIN visited : \E k \in DOMAIN visited[a].ops : op = <<a, k>>
    BY <1>8 DEF OpsOf
  <2>1. PICK k \in DOMAIN visited[a].ops : op = <<a, k>>
    BY <2>0
  <2>. DEFINE ops == visited[a].ops
  <2>2. /\ visited'[a].ops = ops /\ end(visited', a) = end(visited, a) /\ end(visited, a) \in Nat
        /\ ops[k].to \in Nat
    <3>1. ops[k] \in PcodeOp
      BY <1>5
    <3>. QED BY <1>3, <1>5, <3>1 DEF PcodeOp
  <2>3. opcode(op)' = opcode(op)
    BY <2>1, <2>2 DEF opcode
  <2>4. fallthru_op(op) # NoOp => fallthru_op(op)' = fallthru_op(op)
    BY <1>7, <2>1, <2>2 DEF fallthru_op
  <2>5. branch_target(op) # NoOp => branch_target(op)' = branch_target(op)
    BY <1>7, <2>1, <2>2 DEF branch_target
  <2>6. op \in Made' /\ Ways(op) /\ Ways(op)'
    BY <1>8 DEF ReachedFacts
  <2>. HIDE DEF ops
  <2>7. CASE opcode(op) \in {"OP", "CBRANCH"} /\ g[1] = fallthru_op(op)
    BY <2>3, <2>4, <2>6, <2>7, <1>9 DEF Ways
  <2>8. CASE opcode(op) \in {"BRANCH", "CBRANCH"} /\ g[1] = branch_target(op)
    BY <2>3, <2>5, <2>6, <2>8, <1>9 DEF Ways
  <2>. QED BY <1>9, <2>6, <2>7, <2>8 DEF Ways
<1>10. CASE Made' = {}
  BY <1>10 DEF OnlyReached
<1>11. CASE Made' # {}
  <2>1. /\ deadlist # << >> => target(visited, 0) \in Made /\ target(visited', 0) = target(visited, 0)
        /\ deadlist = << >> => Made = {} /\ target(visited', 0) = <<c, 1>>
    <3>1. CASE deadlist # << >>
      <4>1. Past(visited, 0) \in DOMAIN visited /\ deadlist[1] = <<Past(visited, 0), 1>>
        BY <1>2, <3>1 DEF Cutting, Begun
      <4>2. target(visited, 0) = deadlist[1] /\ target(visited, 0) # NoOp
        <5>1. target(visited, 0) = deadlist[1]
          BY <1>5, <4>1, TargetIs
        <5>. QED BY <4>1, <5>1, Sizes DEF NoOp, IInv, Types
      <4>3. 1 \in DOMAIN deadlist
        <5>1. Len(deadlist) \in Nat /\ DOMAIN deadlist = 1 .. Len(deadlist) /\ Len(deadlist) \in DOMAIN deadlist
          BY <3>1, ListFacts
        <5>. QED BY <5>1
      <4>. QED BY <1>7, <3>1, <4>2, <4>3 DEF Made, Range
    <3>2. CASE deadlist = << >>
      <4>1. Made = {} /\ ins.ops # << >>
        <5>1. Made = {}
          BY <3>2 DEF Made, Range
        <5>. QED BY <1>8, <1>11, <5>1
      <4>2. Past(visited, 0) = c
        BY <1>0, <1>2, <3>2 DEF Cutting, Begun
      <4>3. Past(visited', c) = c
        BY <1>3, <1>4, <1>5, <4>1, PastIs
      <4>4. Past(visited', 0) = c
        BY <1>6, <4>2, <4>3
      <4>. QED BY <1>3, <1>5, <3>2, <4>1, <4>4, TargetIs
    <3>. QED BY <3>1, <3>2
  <2>2. target(visited', 0) \in Made'
    <3>1. CASE deadlist # << >>
      BY <1>8, <2>1, <3>1
    <3>2. CASE deadlist = << >>
      <4>1. DOMAIN ins.ops # {}
        BY <1>8, <1>11, <2>1, <3>2
      <4>2. 1 \in DOMAIN ins.ops
        BY <1>4, <4>1
      <4>. QED BY <1>8, <2>1, <3>2, <4>2
    <3>. QED BY <3>1, <3>2
  <2>3. /\ target(visited', 0) \in Reached'
        /\ \A op \in Reached' : \A g \in Goes(op)' : g[1] \in Reached'
    BY <2>2 DEF ReachedFacts
  <2>4. Made \subseteq Reached'
    <3>1. CASE deadlist = << >>
      BY <2>1, <3>1
    <3>2. CASE deadlist # << >>
      <4>. DEFINE X == Made \intersect Reached'
      <4>1. target(visited, 0) \in X
        BY <2>1, <2>3, <3>2
      <4>2. ASSUME NEW op \in X, NEW g \in Goes(op) PROVE g[1] \in X
        <5>1. PICK d : <<g[1], d>> \in Goes(op)'
          BY <1>9, <4>2
        <5>2. g[1] \in Reached'
          <6>1. op \in Reached'
            BY <4>2
          <6>. QED BY <2>3, <5>1, <6>1
        <5>3. g[1] \in Made
          BY <4>2 DEF ReachedFacts
        <5>. QED BY <5>2, <5>3
      <4>3. Reached \subseteq X
        <5>1. X \in SUBSET Made
          OBVIOUS
        <5>. HIDE DEF X
        <5>. QED BY <2>1, <3>2, <4>1, <4>2, <5>1 DEF ReachedFacts
      <4>. QED BY <4>3 DEF OnlyReached
    <3>. QED BY <3>1, <3>2
  <2>5. ASSUME NEW op \in Made', op \in Reached', NEW x \in Nat, Past(visited, x) = c, ins.ops # << >>,
               \/ opcode(op)' \in {"OP", "CBRANCH"} /\ fallthru_op(op)' = target(visited', x)
               \/ opcode(op)' \in {"BRANCH", "CBRANCH"} /\ branch_target(op)' = target(visited', x)
        PROVE  <<c, 1>> \in Reached'
    <3>1. Past(visited', c) = c
      BY <1>3, <1>4, <1>5, <2>5, PastIs
    <3>2. target(visited', x) = <<c, 1>>
      <4>1. Past(visited', x) = c
        BY <1>6, <2>5, <3>1
      <4>. QED BY <1>3, <1>5, <2>5, <4>1, TargetIs
    <3>3. <<c, 1>> # NoOp
      BY <1>2, Sizes DEF NoOp
    <3>4. \E b : <<<<c, 1>>, b>> \in Goes(op)'
      <4>1. Ways(op)'
        BY <2>5 DEF ReachedFacts
      <4>. QED BY <2>5, <3>2, <3>3, <4>1 DEF Ways
    <3>5. PICK b : <<<<c, 1>>, b>> \in Goes(op)'
      BY <3>4
    <3>6. <<<<c, 1>>, b>>[1] = <<c, 1>>
      OBVIOUS
    <3>. QED BY <2>3, <2>5, <3>5, <3>6
  <2>6. ASSUME ins.ops # << >> PROVE <<c, 1>> \in Reached'
    <3>1. CASE deadlist = << >>
      BY <2>1, <2>3, <3>1
    <3>2. CASE deadlist # << >> /\ \E a \in DOMAIN visited : CameFrom(a) /\ FallsThrough(visited[a].ops)
      <4>1. PICK a \in DOMAIN visited : CameFrom(a) /\ FallsThrough(visited[a].ops)
        BY <3>2
      <4>. DEFINE ops == visited[a].ops
                  x   == end(visited, a)
      <4>2. x \in Nat /\ Past(visited, x) = c /\ end(visited', a) = x /\ visited'[a].ops = ops
        BY <1>0, <1>3, <1>5, <4>1 DEF CameFrom, After
      <4>3. ops \in Seq(PcodeOp) /\ ops # << >> /\ Tidy(ops) /\ Linked(ops) /\ DOMAIN ops = 1 .. Len(ops)
        <5>1. Last(deadlist) \in Made
          BY <3>2, ListFacts DEF Made, Range
        <5>2. <<a, Len(ops)>> \in OpsOf(visited)
          BY <1>8, <4>1, <5>1 DEF CameFrom, LastOp
        <5>3. Len(ops) \in DOMAIN ops
          BY <5>2 DEF OpsOf
        <5>4. visited[a] \in Decodings(a) /\ a \in Addr
          BY DEF IInv, Types
        <5>. QED BY <1>5, <5>3, <5>4 DEF TidyCode, LinkedCode
      <4>. HIDE DEF x
      <4>4. PICK j \in DOMAIN ops :
              \/ j = Len(ops) /\ ops[j].opcode \in {"OP", "CBRANCH"}
              \/ ops[j].rel /\ ops[j].opcode \in {"BRANCH", "CBRANCH"} /\ ~(j + ops[j].to <= Len(ops))
        BY <4>1, <4>3, EndIsReached
      <4>5. <<a, j>> \in Made /\ <<a, j>> \in Made' /\ <<a, j>> \in Reached'
        BY <1>8, <2>4 DEF OpsOf
      <4>6. opcode(<<a, j>>)' = ops[j].opcode
        BY <4>2 DEF opcode
      <4>7. CASE j = Len(ops) /\ ops[j].opcode \in {"OP", "CBRANCH"}
        <5>1. fallthru_op(<<a, j>>)' = target(visited', x)
          <6>1. ~(j < Len(ops))
            BY <4>3, <4>7
          <6>. QED BY <4>2, <6>1 DEF fallthru_op
        <5>. QED BY <2>5, <2>6, <4>2, <4>5, <4>6, <4>7, <5>1
      <4>8. CASE ops[j].rel /\ ops[j].opcode \in {"BRANCH", "CBRANCH"} /\ ~(j + ops[j].to <= Len(ops))
        <5>1. branch_target(<<a, j>>)' = target(visited', x)
          BY <4>2, <4>8 DEF branch_target
        <5>. QED BY <2>5, <2>6, <4>2, <4>5, <4>6, <4>8, <5>1
      <4>. QED BY <4>4, <4>7, <4>8
    <3>3. CASE \E x \in Nat : Dest(x) /\ Past(visited, x) = c
      <4>1. PICK x \in Nat : Dest(x) /\ Past(visited, x) = c
        BY <3>3
      <4>0. PICK a \in DOMAIN visited : \E k \in JumpsAway(visited[a].ops) : visited[a].ops[k].to = x
        BY <4>1 DEF Dest
      <4>2. PICK k \in JumpsAway(visited[a].ops) : visited[a].ops[k].to = x
        BY <4>0
      <4>3. k \in DOMAIN visited[a].ops /\ visited[a].ops[k].opcode \in {"BRANCH", "CBRANCH"} /\ ~visited[a].ops[k].rel
        BY DEF JumpsAway
      <4>4. <<a, k>> \in Made /\ <<a, k>> \in Made' /\ <<a, k>> \in Reached'
        BY <1>8, <2>4, <4>3 DEF OpsOf
      <4>5. opcode(<<a, k>>)' \in {"BRANCH", "CBRANCH"} /\ branch_target(<<a, k>>)' = target(visited', x)
        BY <1>3, <4>2, <4>3 DEF opcode, branch_target
      <4>. QED BY <2>5, <2>6, <4>1, <4>4, <4>5
    <3>. QED BY <1>0, <1>2, <3>1, <3>2, <3>3 DEF Cutting, Arrived
  <2>. DEFINE Lost == {k \in DOMAIN ins.ops : <<c, k>> \notin Reached'}
  <2>7. Lost = {}
    <3>. SUFFICES ASSUME Lost # {} PROVE FALSE
      OBVIOUS
    <3>1. PICK k \in Lost : \A j \in Lost : k <= j
      <4>1. Lost \in SUBSET Nat
        BY <1>4
      <4>. HIDE DEF Lost
      <4>. QED BY <4>1, Smallest
    <3>2. k \in 1 .. Len(ins.ops) /\ <<c, k>> \notin Reached' /\ ins.ops # << >>
      BY <1>4
    <3>3. \A j \in 1 .. k - 1 : j \in DOMAIN ins.ops /\ <<c, j>> \in Reached'
      <4>1. \A j \in 1 .. k - 1 : j \in DOMAIN ins.ops /\ ~(k <= j)
        BY <1>4, <3>2
      <4>2. \A j \in DOMAIN ins.ops : j \in Lost \/ <<c, j>> \in Reached'
        OBVIOUS
      <4>. HIDE DEF Lost
      <4>. QED BY <3>1, <4>1, <4>2
    <3>. HIDE DEF Lost
    <3>4. k # 1
      BY <2>6, <3>2
    <3>5. k \in DOMAIN ins.ops \ {1} /\ k - 1 \in 1 .. k - 1 /\ k - 1 < Len(ins.ops) /\ (k - 1) + 1 = k
      BY <1>4, <3>2, <3>4
    <3>6. <<c, k>> # NoOp
      BY <1>2, Sizes DEF NoOp
    <3>7. \A j \in DOMAIN ins.ops : Ways(<<c, j>>)' /\ opcode(<<c, j>>)' = ins.ops[j].opcode
      <4>1. \A j \in DOMAIN ins.ops : <<c, j>> \in Made'
        BY <1>8
      <4>2. \A j \in DOMAIN ins.ops : opcode(<<c, j>>)' = ins.ops[j].opcode
        BY <1>3 DEF opcode
      <4>. QED BY <4>1, <4>2 DEF ReachedFacts
    <3>8. \A j \in 1 .. k - 1 : \A d : <<<<c, k>>, d>> \notin Goes(<<c, j>>)'
      <4>1. \A d : <<<<c, k>>, d>>[1] = <<c, k>>
        OBVIOUS
      <4>. QED BY <2>3, <3>2, <3>3, <4>1
    <3>9. CASE ins.ops[k - 1].opcode \in {"OP", "CBRANCH"}
      <4>1. fallthru_op(<<c, k - 1>>)' = <<c, k>>
        BY <1>3, <3>5 DEF fallthru_op
      <4>2. k - 1 \in DOMAIN ins.ops
        BY <3>3, <3>5
      <4>3. \E d : <<<<c, k>>, d>> \in Goes(<<c, k - 1>>)'
        BY <3>6, <3>7, <3>9, <4>1, <4>2 DEF Ways
      <4>. QED BY <3>5, <3>8, <4>3
    <3>10. CASE \E j \in 1 .. k - 1 : ins.ops[j].rel /\ j + ins.ops[j].to = k
      <4>1. PICK j \in 1 .. k - 1 : ins.ops[j].rel /\ j + ins.ops[j].to = k
        BY <3>10
      <4>2. j \in DOMAIN ins.ops /\ ins.ops[j].opcode \in {"BRANCH", "CBRANCH"} /\ k <= Len(ins.ops)
        BY <1>4, <3>2, <3>3, <4>1 DEF Linked
      <4>3. branch_target(<<c, j>>)' = <<c, k>>
        <5>1. branch_target(<<c, j>>)' = <<c, j + ins.ops[j].to>>
          BY <1>3, <4>1, <4>2 DEF branch_target
        <5>. QED BY <4>1, <5>1
      <4>4. \E d : <<<<c, k>>, d>> \in Goes(<<c, j>>)'
        BY <3>6, <3>7, <4>2, <4>3 DEF Ways
      <4>. QED BY <3>8, <4>4
    <3>. QED BY <1>4, <3>5, <3>9, <3>10 DEF Linked
  <2>. QED BY <1>8, <2>4, <2>7 DEF OnlyReached
<1>. QED BY <1>10, <1>11

\* OnlyReached holds in every reachable state, whatever the addresses and whatever SLEIGH makes
\* of the bytes, as long as it is tidy and linked: generate_ops decodes no address that
\* control does not reach from the start.
THEOREM NothingDecodedInVain == TidyPcode /\ LinkedPcode => (Spec => []OnlyReached)
<1>. SUFFICES ASSUME TidyPcode, LinkedPcode PROVE Spec => []OnlyReached
  OBVIOUS
<1>. USE StaysTidy, StaysLinked
<1>1. Init => Flow /\ OnlyReached
  BY InitFlow DEF Init, OnlyReached, Made, Range
<1>2. IInv /\ IInv' /\ Bounded /\ Flow /\ [Next]_vars => Flow'
  BY NextFlow
<1>3. IInv => ReachedFacts
  BY ReachedIs
<1>4. IInv /\ IInv' /\ Flow /\ ReachedFacts /\ ReachedFacts' /\ OnlyReached /\ [Next]_vars => OnlyReached'
  <2>. SUFFICES ASSUME IInv, IInv', Flow, ReachedFacts, ReachedFacts', OnlyReached, [Next]_vars PROVE OnlyReached'
    OBVIOUS
  <2>1. CASE Process
    BY <2>1, ReachedGrows
  <2>2. CASE UNCHANGED <<visited, deadlist>>
    <3>1. Made' = Made /\ Reached' = Reached
      BY <2>2 DEF Made, Reached, Goes, opcode, fallthru_op, branch_target, end
    <3>. QED BY <3>1 DEF OnlyReached
  <2>. QED BY <2>1, <2>2 DEF Next, vars, decoding, StartRun, ExceedMax, ProcessUnknown, EndOps, GenerateBlocks
<1>. QED BY <1>1, <1>2, <1>3, <1>4, InitIInv, NextIInv, InitBounded, NextBounded, PTL DEF Spec
==============================================================================
