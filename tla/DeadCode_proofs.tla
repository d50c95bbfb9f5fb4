--------------------------- MODULE DeadCode_proofs ---------------------------
(***************************************************************************)
(* What dead_code_elimination destroys, for every function and every       *)
(* choice of blocks: nothing that is left reads an op that was destroyed,  *)
(* nothing is destroyed that is needed, and nothing is left that could go. *)
(***************************************************************************)
EXTENDS DeadCode, GraphLemmas

\* The readers of phis among what is left, over which deadlist runs.
Readers == [o \in Op |-> IF kind[o] = "phi" THEN uses(o) ELSE {}]

Untouched == \A o \in alive : prog.in[o] \subseteq alive

\* topname loses only what phis alone read, and whatever acts for itself stays.
Kept ==
  /\ LiveAnyway \subseteq topname
  /\ topname \subseteq alive
  /\ {o \in Op : kind[o] \in {"call", "effect"}} \subseteq alive

\* Until the worklist is there only phis have been destroyed.
PhisGone == phase \in {"start", "phi", "collect"} => \A o \in Op \ alive : kind[o] = "phi"

\* What the caller asks for and dead_code_elimination could destroy.
Waiting(o) ==
  parent(o) \in blks /\ ~has_use(o) /\ kind[o] \notin {"call", "effect"} /\ ~is_out_live(o)

\* It is on the worklist, from the moment that there is one.
OnList ==
  /\ worklist \in Seq(Op)
  /\ phase = "work" => \A o \in alive : Waiting(o) => o \in Range(worklist)
  /\ phase = "done" => \A o \in alive : ~Waiting(o)

IInv == prog \in Programs /\ TypeOK /\ Untouched /\ Kept /\ PhisGone /\ OnList

LEMMA FirstLeftBounds ==
  ASSUME NEW list \in Seq(Op), NEW n \in 1 .. Len(list) + 1
  PROVE  FirstLeft(list, n) \in n .. Len(list) + 1
<1>. DEFINE left == {m \in n .. Len(list) : list[m] \in alive}
<1>1. CASE left = {}
  BY <1>1 DEF FirstLeft
<1>2. CASE left # {}
  <2>1. left \subseteq Nat
    OBVIOUS
  <2>2. \E m \in left : \A k \in left : m <= k
    <3>. HIDE DEF left
    <3>. QED BY <1>2, <2>1, Smallest
  <2>3. FirstLeft(list, n) \in left
    BY <1>2, <2>2 DEF FirstLeft
  <2>. QED BY <2>3
<1>. QED BY <1>1, <1>2

\* What dead_phi_detect agrees to destroy are phis, with all that reads them.
LEMMA DeadPhis ==
  ASSUME IInv, NEW p \in Op, kind[p] = "phi", dead_phi_detect(p)
  PROVE  /\ deadlist(p) \subseteq Op
         /\ \A o \in deadlist(p) : kind[o] = "phi" /\ uses(o) \subseteq deadlist(p)
<1>1. Readers \in [Op -> SUBSET Op]
  BY DEF Readers, uses, IInv, TypeOK
<1>2. deadlist(p) = ReachableFrom(Readers, {p})
  BY DEF deadlist, Readers
<1>3. /\ {p} \subseteq deadlist(p)
      /\ deadlist(p) \subseteq Op
      /\ \A o \in deadlist(p) : Readers[o] \subseteq deadlist(p)
      /\ \A X : {p} \subseteq X /\ (\A o \in X : Readers[o] \subseteq X) => deadlist(p) \subseteq X
  <2>1. IsFiniteSet(Op) /\ {p} \in SUBSET Op
    BY OpAssumption
  <2>. QED BY <1>1, <1>2, <2>1, ReachableIsLeast
<1>. DEFINE X == {o \in deadlist(p) : kind[o] = "phi"}
<1>4. {p} \subseteq X
  BY <1>3
<1>5. \A o \in X : Readers[o] \subseteq X
  BY <1>3 DEF Readers, dead_phi_detect
<1>6. deadlist(p) \subseteq X
  <2>. HIDE DEF X
  <2>. QED BY <1>3, <1>4, <1>5
<1>7. \A o \in deadlist(p) : kind[o] = "phi"
  BY <1>6
<1>. QED BY <1>3, <1>7 DEF Readers

\* So they are not what is live anyway: the phis that are gone by then, with all that read
\* them, are closed under readers.
LEMMA DeadPhisNotLive ==
  ASSUME IInv, phase = "phi", NEW p \in Op, kind[p] = "phi", dead_phi_detect(p)
  PROVE  LiveAnyway \intersect deadlist(p) = {}
<1>. SUFFICES ASSUME NEW o \in LiveAnyway, o \in deadlist(p) PROVE FALSE
  OBVIOUS
<1>. DEFINE gone == (Op \ alive) \union deadlist(p)
            succ == [q \in Op |-> IF kind[q] = "phi" THEN ReadersOf(q) ELSE {}]
<1>1. gone \subseteq Op /\ \A q \in gone : kind[q] = "phi" /\ ReadersOf(q) \subseteq gone
  <2>1. /\ deadlist(p) \subseteq Op
        /\ \A q \in deadlist(p) : kind[q] = "phi" /\ uses(q) \subseteq deadlist(p)
    BY DeadPhis
  <2>2. \A q \in Op \ alive : kind[q] = "phi" /\ \A r \in alive : q \notin prog.in[r]
    BY DEF IInv, PhisGone, Untouched
  <2>. QED BY <2>1, <2>2 DEF ReadersOf, uses
<1>2. o \in Op /\ {o} \in SUBSET Op /\ {o} \subseteq gone
  BY <1>1
<1>3. succ \in [Op -> SUBSET Op]
  BY DEF ReadersOf
<1>4. ReadOverPhis(o) = ReachableFrom(succ, {o})
  BY DEF ReadOverPhis
<1>5. \A q \in gone : succ[q] \subseteq gone
  BY <1>1
<1>6. ReadOverPhis(o) \subseteq gone
  <2>. HIDE DEF gone, succ
  <2>. QED BY <1>1, <1>2, <1>3, <1>4, <1>5, OpAssumption, ReachableIsLeast
<1>. QED BY <1>1, <1>6 DEF LiveAnyway

\* Where an op stands.
LEMMA ParentHolds ==
  ASSUME NEW o \in Op, prog \in Programs
  PROVE  parent(o) \in DOMAIN prog.ops /\ o \in Range(prog.ops[parent(o)])
<1>1. \E n \in DOMAIN prog.ops : o \in Range(prog.ops[n])
  BY ProgramsAssumption
<1> QED BY <1>1 DEF parent

\* Collect finds whatever could be destroyed.
LEMMA CollectFinds ==
  ASSUME IInv, Collect
  PROVE  worklist' \in Seq(Op) /\ \A o \in alive : Waiting(o) => o \in Range(worklist')
<1>1. prog \in Programs /\ prog.ops \in Seq(Seq(Op)) /\ alive \subseteq Op
  BY ProgramsAssumption DEF IInv, TypeOK
<1> DEFINE n == Len(prog.ops)
<1>2. n \in Nat /\ DOMAIN prog.ops = 1 .. n /\ \A m \in 1 .. n : prog.ops[m] \in Seq(Op)
  BY <1>1
<1>3. ASSUME NEW m \in 1 .. n
      PROVE  /\ UnreadIn(m) \in Seq(Op)
             /\ \A o \in Range(prog.ops[m]) :
                  m \in blks /\ o \in alive /\ kind[o] # "effect" /\ ~has_use(o) => o \in Range(UnreadIn(m))
  <2> DEFINE unread == {o \in alive : m \in blks /\ kind[o] # "effect" /\ ~has_use(o)}
  <2>1. prog.ops[m] \in Seq(Op) /\ UnreadIn(m) = Sublist(prog.ops[m], unread)
    BY <1>2 DEF UnreadIn
  <2> HIDE DEF unread
  <2>2. UnreadIn(m) \in Seq(Op) /\ Range(UnreadIn(m)) = Range(prog.ops[m]) \intersect unread
    BY <2>1, SublistOf
  <2> QED BY <2>2 DEF unread
<1> DEFINE lists == [k \in 1 .. n |-> UnreadIn(n + 1 - k)]
<1>4. lists \in Seq(Seq(Op)) /\ \A m \in 1 .. n : \E k \in DOMAIN lists : lists[k] = UnreadIn(m)
  <2>1. ASSUME NEW k \in 1 .. n PROVE UnreadIn(n + 1 - k) \in Seq(Op)
    <3>1. n + 1 - k \in 1 .. n
      BY <1>2
    <3> QED BY <1>3, <3>1
  <2>2. lists \in [1 .. n -> Seq(Op)]
    BY <2>1
  <2>3. lists \in Seq(Seq(Op))
    <3> HIDE DEF lists
    <3> QED BY <1>2, <2>2
  <2>4. ASSUME NEW m \in 1 .. n PROVE \E k \in DOMAIN lists : lists[k] = UnreadIn(m)
    <3>1. n + 1 - m \in 1 .. n /\ n + 1 - (n + 1 - m) = m
      BY <1>2
    <3> QED BY <3>1
  <2> QED BY <2>3, <2>4
<1>5. worklist' = FlattenSeq(lists)
  BY DEF Collect
<1> HIDE DEF lists
<1>6. /\ worklist' \in Seq(Op)
      /\ \A e : e \in Range(worklist') <=> \E k \in DOMAIN lists : e \in Range(lists[k])
  BY <1>4, <1>5, Flattened
<1>7. ASSUME NEW o \in alive, Waiting(o) PROVE o \in Range(worklist')
  <2>1. parent(o) \in 1 .. n /\ o \in Range(prog.ops[parent(o)])
    BY <1>1, <1>2, ParentHolds
  <2>2. o \in Range(UnreadIn(parent(o)))
    BY <1>3, <1>7, <2>1 DEF Waiting
  <2> QED BY <1>4, <1>6, <2>1, <2>2
<1> QED BY <1>6, <1>7

\* An op that is destroyed puts what it has read on the list.
LEMMA WorkHandsOn ==
  ASSUME IInv, Work
  PROVE  OnList'
<1> DEFINE op == Head(worklist)
<1>1. /\ worklist \in Seq(Op) /\ worklist # << >> /\ phase = "work" /\ alive \subseteq Op
      /\ prog.in \in [Op -> SUBSET Op]
      /\ UNCHANGED <<prog, blks, topname, phase>>
  BY ProgramsAssumption DEF IInv, OnList, Work, TypeOK
<1>2. op \in Op /\ Tail(worklist) \in Seq(Op) /\ \A o \in Range(worklist) : o = op \/ o \in Range(Tail(worklist))
  <2>1. Len(worklist) \in Nat /\ Len(worklist) > 0 /\ DOMAIN worklist = 1 .. Len(worklist)
    BY <1>1, EmptySeq
  <2>2. op = worklist[1] /\ op \in Op
    BY <1>1, <2>1
  <2>3. /\ Tail(worklist) \in Seq(Op) /\ DOMAIN Tail(worklist) = 1 .. Len(worklist) - 1
        /\ \A k \in 1 .. Len(worklist) - 1 : Tail(worklist)[k] = worklist[k + 1]
    BY <1>1, <2>1
  <2>4. ASSUME NEW o \in Range(worklist) PROVE o = op \/ o \in Range(Tail(worklist))
    <3>1. PICK k \in 1 .. Len(worklist) : worklist[k] = o
      BY <2>1 DEF Range
    <3>2. CASE k = 1
      BY <2>2, <3>1, <3>2
    <3>3. CASE k # 1
      <4>1. k - 1 \in 1 .. Len(worklist) - 1 /\ (k - 1) + 1 = k
        BY <2>1, <3>3
      <4>2. Tail(worklist)[k - 1] = o
        BY <2>3, <3>1, <4>1
      <4> QED BY <2>3, <4>1, <4>2 DEF Range
    <3> QED BY <3>2, <3>3
  <2> QED BY <2>2, <2>3, <2>4
<1>3. \A o \in alive : Waiting(o) => o \in Range(worklist)
  BY <1>1 DEF IInv, OnList
<1> HIDE DEF op
<1>4. CASE Keeps(op)
  <2>1. worklist' = Tail(worklist) /\ alive' = alive
    BY <1>4 DEF Work, op
  <2>2. op \in alive => ~Waiting(op)
    BY <1>4 DEF Keeps, Waiting
  <2>3. \A o : Waiting(o)' <=> Waiting(o)
    BY <1>1, <2>1 DEF Waiting, parent, has_use, uses, kind, is_out_live
  <2> QED BY <1>1, <1>2, <1>3, <2>1, <2>2, <2>3 DEF OnList
<1>5. CASE ~Keeps(op)
  <2>1. /\ worklist' = Tail(worklist) \o Behind(op)
        /\ alive' = IF parent(op) \in blks THEN alive \ {op} ELSE alive
    BY <1>5 DEF Work, op
  <2>2. prog.in[op] \subseteq Op /\ IsFiniteSet(prog.in[op])
    BY <1>1, <1>2, OpAssumption, FS_Subset
  <2>3. Behind(op) \in Seq(prog.in[op]) /\ Range(Behind(op)) = prog.in[op]
    BY <2>2, Listed DEF Behind
  <2>4. Behind(op) \in Seq(Op)
    BY <2>2, <2>3
  <2>5. worklist' \in Seq(Op) /\ Range(worklist') = Range(Tail(worklist)) \union prog.in[op]
    <3>1. \A u, v \in Seq(Op) : u \o v \in Seq(Op) /\ Range(u \o v) = Range(u) \union Range(v)
      BY ConcatProperties, RangeConcatenation
    <3>. QED BY <1>2, <2>1, <2>3, <2>4, <3>1
  <2>6. ASSUME NEW o \in alive', Waiting(o)' PROVE o \in Range(worklist')
    <3>1. o \in alive /\ parent(o) \in blks /\ (o = op => parent(op) \notin blks)
      BY <1>1, <2>1, <2>6 DEF Waiting, parent
    <3>2. CASE o \in prog.in[op]
      BY <2>5, <3>2
    <3>3. CASE o \notin prog.in[op]
      <4>1. uses(o)' = uses(o)
        BY <1>1, <2>1, <3>3 DEF uses
      <4>2. Waiting(o)
        BY <1>1, <2>6, <4>1 DEF Waiting, parent, has_use, kind, is_out_live
      <4> QED BY <1>2, <1>3, <2>5, <3>1, <4>2
    <3> QED BY <3>2, <3>3
  <2> QED BY <1>1, <2>5, <2>6 DEF OnList
<1> QED BY <1>4, <1>5

LEMMA InitIInv == Init => IInv
<1>. SUFFICES ASSUME Init PROVE IInv
  OBVIOUS
<1>1. prog \in Programs /\ prog.ops \in Seq(Seq(Op)) /\ prog.ops # << >>
  BY ProgramsAssumption DEF Init
<1>2. 1 \in DOMAIN prog.ops /\ prog.ops[1] \in Seq(Op)
  BY <1>1
<1>3. 1 \in 1 .. Len(prog.ops[1]) + 1
  BY <1>2
<1>4. it \in 1 .. Len(prog.ops[1]) + 1
  BY <1>2, <1>3, FirstLeftBounds DEF Init
<1>5. prog.in \in [Op -> SUBSET Op] /\ prog.live \subseteq Op
  BY <1>1, ProgramsAssumption
<1>6. TypeOK
  BY <1>1, <1>2, <1>4, <1>5 DEF Init, TypeOK
<1>7. Untouched /\ Kept /\ PhisGone
  BY <1>5 DEF Init, Untouched, Kept, PhisGone, LiveAnyway
<1>8. OnList
  <2>1. << >> \in Seq(Op)
    OBVIOUS
  <2>. QED BY <2>1 DEF Init, OnList
<1>. QED BY <1>1, <1>6, <1>7, <1>8 DEF IInv

LEMMA NextIInv == IInv /\ [Step]_vars => IInv'
<1>. SUFFICES ASSUME IInv, [Step]_vars PROVE IInv'
  OBVIOUS
<1>. USE DEF IInv
<1>0. /\ prog \in Programs /\ prog.ops \in Seq(Seq(Op)) /\ prog.in \in [Op -> SUBSET Op]
      /\ b \in DOMAIN prog.ops /\ prog.ops[b] \in Seq(Op)
  BY ProgramsAssumption DEF TypeOK
<1>1. CASE StartPhis
  BY <1>1 DEF StartPhis, TypeOK, Untouched, Kept, PhisGone, OnList, LiveAnyway, ReadOverPhis, ReadersOf, kind
<1>2. CASE SkipPhis
  BY <1>2 DEF SkipPhis, TypeOK, Untouched, Kept, PhisGone, OnList, LiveAnyway, ReadOverPhis, ReadersOf, kind
<1>3. CASE LookAtPhi
  <2>. DEFINE p == prog.ops[b][it]
  <2>1. p \in Op /\ kind[p] = "phi" /\ it \in 1 .. Len(prog.ops[b])
    BY <1>0, <1>3 DEF LookAtPhi, AtPhi, TypeOK
  <2>2. it' \in 1 .. Len(prog.ops[b]) + 1
    <3>1. it + 1 \in 1 .. Len(prog.ops[b]) + 1
      BY <1>0, <2>1
    <3>2. FirstLeft(prog.ops[b], it + 1) \in it + 1 .. Len(prog.ops[b]) + 1
      BY <1>0, <3>1, FirstLeftBounds
    <3>3. it' = FirstLeft(prog.ops[b], it + 1)
      BY <1>3 DEF LookAtPhi
    <3>. QED BY <1>0, <2>1, <3>2, <3>3
  <2>3. CASE ~dead_phi_detect(p)
    <3>1. UNCHANGED <<prog, alive, topname, i, b, phase, worklist>> /\ phase = "phi"
      BY <1>3, <2>3 DEF LookAtPhi
    <3>. QED BY <2>2, <3>1 DEF TypeOK, Untouched, Kept, PhisGone, OnList, LiveAnyway, ReadOverPhis, ReadersOf, kind
  <2>4. CASE dead_phi_detect(p)
    <3>1. /\ deadlist(p) \subseteq Op
          /\ \A o \in deadlist(p) : kind[o] = "phi" /\ uses(o) \subseteq deadlist(p)
      BY <2>1, <2>4, DeadPhis
    <3>2. /\ alive' = alive \ deadlist(p) /\ topname' = topname \ deadlist(p)
          /\ i' = Cardinality(deadlist(p)) /\ phase' \in {phase, "undefined"}
          /\ UNCHANGED <<prog, b, worklist>> /\ phase = "phi"
      BY <1>3, <2>4 DEF LookAtPhi, LiveWithout
    <3>3. i' \in Nat
      BY <3>1, <3>2, OpAssumption, FS_Subset, FS_CardinalityType
    <3>4. TypeOK'
      BY <2>2, <3>2, <3>3 DEF TypeOK, Kept
    <3>5. Untouched'
      BY <3>1, <3>2 DEF Untouched, uses
    <3>6. Kept' /\ PhisGone'
      <4>1. LiveAnyway \intersect deadlist(p) = {}
        BY <2>1, <2>4, <3>2, DeadPhisNotLive
      <4>2. LiveAnyway' = LiveAnyway /\ kind' = kind
        BY <3>2 DEF LiveAnyway, ReadOverPhis, ReadersOf, kind
      <4>. QED BY <3>1, <3>2, <4>1, <4>2 DEF Kept, PhisGone
    <3>7. OnList'
      BY <3>2 DEF OnList
    <3>. QED BY <3>2, <3>4, <3>5, <3>6, <3>7
  <2>. QED BY <2>3, <2>4
<1>4. CASE NextBlock
  <2>1. UNCHANGED <<prog, alive, topname, worklist>> /\ phase = "phi" /\ phase' \in {phase, "collect"}
    BY <1>4 DEF NextBlock
  <2>2. i' \in Nat /\ b' \in DOMAIN prog.ops /\ it' \in 1 .. Len(prog.ops[b']) + 1
    <3>1. CASE i + 1 < Len(prog.ops)
      <4>1. i' = i + 1 /\ b' = i + 2 /\ it' = FirstLeft(prog.ops[i + 2], 1)
        BY <1>4, <3>1 DEF NextBlock
      <4>2. i + 2 \in DOMAIN prog.ops /\ prog.ops[i + 2] \in Seq(Op)
        BY <1>0, <3>1 DEF TypeOK
      <4>3. 1 \in 1 .. Len(prog.ops[i + 2]) + 1
        BY <4>2
      <4>4. it' \in 1 .. Len(prog.ops[i + 2]) + 1
        BY <4>1, <4>2, <4>3, FirstLeftBounds
      <4>. QED BY <4>1, <4>2, <4>4 DEF TypeOK
    <3>2. CASE ~(i + 1 < Len(prog.ops))
      BY <1>4, <3>2 DEF NextBlock, TypeOK
    <3>. QED BY <3>1, <3>2
  <2>. QED BY <2>1, <2>2 DEF TypeOK, Untouched, Kept, PhisGone, OnList, LiveAnyway, ReadOverPhis, ReadersOf, kind
<1>5. CASE Collect
  <2>1. TypeOK' /\ Untouched' /\ Kept' /\ PhisGone' /\ prog' = prog
    BY <1>5 DEF Collect, TypeOK, Untouched, Kept, PhisGone, LiveAnyway, ReadOverPhis, ReadersOf, kind
  <2>2. \A o : Waiting(o)' <=> Waiting(o)
    BY <1>5 DEF Collect, Waiting, parent, has_use, uses, kind, is_out_live
  <2>3. alive' = alive /\ phase' = "work"
    BY <1>5 DEF Collect
  <2>4. OnList'
    BY <1>5, <2>2, <2>3, CollectFinds DEF OnList
  <2>. QED BY <2>1, <2>4
<1>6. CASE Work
  <2>. DEFINE op == Head(worklist)
  <2>1. CASE UNCHANGED alive
    <3>1. OnList'
      BY <1>6, WorkHandsOn
    <3>. QED BY <1>6, <2>1, <3>1 DEF Work, TypeOK, Untouched, Kept, PhisGone, LiveAnyway, ReadOverPhis, ReadersOf, kind
  <2>2. CASE ~ UNCHANGED alive
    <3>1. ~Keeps(op) /\ alive' = alive \ {op} /\ UNCHANGED <<prog, topname, phase, i, b, it>>
      BY <1>6, <2>2 DEF Work
    <3>2. /\ \A q \in alive : op \notin prog.in[q]
          /\ op \notin topname /\ kind[op] \notin {"call", "effect"}
      BY <3>1 DEF Keeps, has_use, uses, is_out_live
    <3>3. OnList'
      BY <1>6, WorkHandsOn
    <3>4. LiveAnyway' = LiveAnyway /\ kind' = kind
      BY <3>1 DEF LiveAnyway, ReadOverPhis, ReadersOf, kind
    <3>5. PhisGone'
      BY <1>6, <3>1 DEF Work, PhisGone
    <3>6. TypeOK' /\ Untouched'
      BY <3>1, <3>2 DEF TypeOK, Untouched
    <3>7. Kept'
      BY <3>1, <3>2, <3>4 DEF Kept
    <3>. QED BY <3>1, <3>3, <3>5, <3>6, <3>7
  <2>. QED BY <2>1, <2>2
<1>7. CASE EndWork
  <2>1. TypeOK' /\ Untouched' /\ Kept' /\ PhisGone' /\ prog' = prog
    BY <1>7 DEF EndWork, TypeOK, Untouched, Kept, PhisGone, LiveAnyway, ReadOverPhis, ReadersOf, kind
  <2>2. \A o : Waiting(o)' <=> Waiting(o)
    BY <1>7 DEF EndWork, Waiting, parent, has_use, uses, kind, is_out_live
  <2>3. alive' = alive /\ phase = "work" /\ phase' = "done" /\ worklist = << >> /\ worklist' = worklist
    BY <1>7 DEF EndWork
  <2>4. Range(worklist) = {}
    BY <2>3 DEF Range
  <2>5. OnList'
    BY <2>2, <2>3, <2>4 DEF OnList
  <2>. QED BY <2>1, <2>5
<1>8. CASE UNCHANGED vars
  <2>1. TypeOK' /\ Untouched' /\ Kept' /\ PhisGone' /\ prog' = prog
    BY <1>8 DEF vars, TypeOK, Untouched, Kept, PhisGone, LiveAnyway, ReadOverPhis, ReadersOf, kind
  <2>2. \A o : Waiting(o)' <=> Waiting(o)
    BY <1>8 DEF vars, Waiting, parent, has_use, uses, kind, is_out_live
  <2>3. OnList'
    BY <1>8, <2>2 DEF vars, OnList
  <2>. QED BY <2>1, <2>3
<1>. QED BY <1>1, <1>2, <1>3, <1>4, <1>5, <1>6, <1>7, <1>8 DEF Step

LEMMA Invariant == Spec => []IInv
<1>. QED BY InitIInv, NextIInv, PTL DEF Spec

\* No op that is left reads an op that dead_code_elimination has destroyed.
THEOREM NothingReadIsDestroyed == Spec => []NoReadOfDestroyed
<1>1. IInv => NoReadOfDestroyed
  BY DEF IInv, NoReadOfDestroyed, Untouched
<1>. QED BY <1>1, Invariant, PTL

\* Whatever a call, an effect or an op that is live at an exit is computed from is left, but for
\* phis at an exit that are read by nothing but phis.
THEOREM NeededIsKept == Spec => []NeededSurvives
<1>1. IInv => NeededSurvives
  <2>. SUFFICES ASSUME IInv PROVE Needed \subseteq alive
    BY DEF NeededSurvives
  <2>. DEFINE roots == {o \in Op : kind[o] \in {"call", "effect"}} \union LiveAnyway
  <2>1. prog.in \in [Op -> SUBSET Op] /\ roots \in SUBSET Op
    BY ProgramsAssumption DEF IInv, TypeOK, LiveAnyway
  <2>2. roots \subseteq alive
    BY DEF IInv, Kept
  <2>3. \A o \in alive : prog.in[o] \subseteq alive
    BY DEF IInv, Untouched
  <2>4. Needed = ReachableFrom(prog.in, roots)
    BY DEF Needed
  <2>. HIDE DEF roots
  <2>. QED BY <2>1, <2>2, <2>3, <2>4, OpAssumption, ReachableIsLeast
<1>. QED BY <1>1, Invariant, PTL

\* Where the caller asks for it, dead_code_elimination leaves nothing that nobody reads:
\* whatever loses its last reader has come back to the worklist by then.
THEOREM NothingIsForgotten == Spec => []NothingUnreadLeft
<1>1. IInv => NothingUnreadLeft
  BY DEF IInv, OnList, Waiting, NothingUnreadLeft
<1>. QED BY <1>1, Invariant, PTL
==============================================================================
