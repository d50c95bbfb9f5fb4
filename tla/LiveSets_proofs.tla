--------------------------- MODULE LiveSets_proofs ---------------------------
(***************************************************************************)
(* compute_global_live_sets_p ends with the live registers, and regalloc   *)
(* hands out none that is needed; and sort_blocks leaves no block out of   *)
(* the code, but for two reasons; and the branches of the code go where    *)
(* the edges of the graph go; whatever the function.                       *)
(***************************************************************************)
EXTENDS ThumbGen, SpanningTree_proofs

(***************************************************************************)
(* Places and ways between them                                            *)
(***************************************************************************)
LEMMA OpFacts ==
  ASSUME TreeTypes, prog \in Functions
  PROVE  /\ \A b \in Block : Len(body[b]) \in Nat /\ Len(body[b]) >= 1 /\ DOMAIN body[b] = 1 .. Len(body[b])
         /\ \A b \in Block : \A n \in 1 .. Len(body[b]) : <<b, n>> \in Places
         /\ \A p \in Places : p[1] \in Block /\ p[2] \in 1 .. Len(body[p[1]]) /\ p = <<p[1], p[2]>>
         /\ IsFiniteSet(Places)
         /\ \A p \in Places : live_gen(p) \subseteq Reg /\ Behind(p) \subseteq Places
         /\ succs \in [Block -> SUBSET Block]
<1>1. ASSUME NEW b \in Block
      PROVE  Len(body[b]) \in Nat /\ Len(body[b]) >= 1 /\ DOMAIN body[b] = 1 .. Len(body[b])
  <2> DEFINE s == body[b]
  <2>1. s \in Seq(Range(s)) /\ s # << >>
    BY LiveAssumption DEF body
  <2> HIDE DEF s
  <2>2. Len(s) \in Nat /\ DOMAIN s = 1 .. Len(s)
    BY <2>1
  <2>3. Len(s) # 0
    BY <2>1, EmptySeq
  <2>4. Len(s) \in Nat /\ Len(s) >= 1 /\ DOMAIN s = 1 .. Len(s)
    BY <2>2, <2>3
  <2> QED BY <2>4 DEF s
<1>2. \A b \in Block : \A n \in 1 .. Len(body[b]) : <<b, n>> \in Places
  BY <1>1 DEF Places
<1>3. \A p \in Places : p[1] \in Block /\ p[2] \in 1 .. Len(body[p[1]]) /\ p = <<p[1], p[2]>>
  BY <1>1 DEF Places
<1>4. IsFiniteSet(Places)
  <2> DEFINE Parts == {{b} \X DOMAIN body[b] : b \in Block}
  <2>1. IsFiniteSet(Parts)
    <3> DEFINE f == [b \in Block |-> {b} \X DOMAIN body[b]]
    <3>1. f \in Surjection(Block, Parts)
      BY DEF Surjection
    <3> HIDE DEF f, Parts
    <3> QED BY <3>1, BlockAssumption, FS_Surjection
  <2>2. ASSUME NEW b \in Block PROVE IsFiniteSet({b} \X DOMAIN body[b])
    <3> DEFINE n == Len(body[b])
    <3>1. IsFiniteSet({b}) /\ IsFiniteSet(1 .. n)
      <4>1. n \in Int /\ 1 \in Int
        BY <1>1
      <4> HIDE DEF n
      <4> QED BY <4>1, FS_Singleton, FS_Interval
    <3>2. IsFiniteSet(DOMAIN body[b])
      BY <3>1, <1>1
    <3> QED BY <3>1, <3>2, FS_Product
  <2>3. \A P \in Parts : IsFiniteSet(P)
    BY <2>2
  <2> HIDE DEF Parts
  <2>4. IsFiniteSet(UNION Parts)
    BY <2>1, <2>3, FS_UNION
  <2> QED BY <2>4 DEF Parts, Places
<1>5. succs \in [Block -> SUBSET Block]
  BY SuccessorsType DEF TreeTypes, TypeOK, succs
<1>6. ASSUME NEW p \in Places
      PROVE  live_gen(p) \subseteq Reg /\ Behind(p) \subseteq Places
  <2>1. p[1] \in Block /\ p[2] \in 1 .. Len(body[p[1]]) /\ p[2] \in DOMAIN body[p[1]]
    BY <1>1, <1>3
  <2>2. live_gen(p) \subseteq Reg
    BY <2>1, LiveAssumption DEF live_gen, op, body
  <2>3. CASE p[2] < Len(body[p[1]])
    <3>1. p[2] + 1 \in 1 .. Len(body[p[1]])
      BY <2>1, <2>3, <1>1
    <3> QED BY <2>1, <2>2, <2>3, <3>1, <1>2 DEF Behind
  <2>4. CASE ~(p[2] < Len(body[p[1]]))
    <3>1. \A s \in succs[p[1]] : s \in Block /\ 1 \in 1 .. Len(body[s])
      BY <2>1, <1>1, <1>5
    <3>2. \A s \in succs[p[1]] : <<s, 1>> \in Places
      BY <3>1, <1>2
    <3> QED BY <2>2, <2>4, <3>2 DEF Behind
  <2> QED BY <2>3, <2>4
<1> QED BY <1>1, <1>2, <1>3, <1>4, <1>5, <1>6

\* The parts of TrulyLive.
Clear(r) == [p \in Places |-> IF r \in live_kill(p) THEN {} ELSE Behind(p)]
AtReturn(p) == p[2] = Len(body[p[1]]) /\ is_end(p[1]) /\ ~noreturn(p[1])
Needs(r) == {p \in Places : r \in live_gen(p)} \union {p \in Places : AtReturn(p) /\ r \in Core \ live_kill(p)}

LEMMA LiveByReach == \A p, r : TrulyLive(p, r) <=> ReachableFrom(Clear(r), {p}) \intersect Needs(r) # {}
<1> SUFFICES ASSUME NEW p, NEW r PROVE TrulyLive(p, r) <=> ReachableFrom(Clear(r), {p}) \intersect Needs(r) # {}
  OBVIOUS
<1> DEFINE returns == {s \in Places : /\ s[2] = Len(body[s[1]]) /\ is_end(s[1]) /\ ~noreturn(s[1])
                                      /\ r \in Core \ live_kill(s)}
           reads == {s \in Places : r \in live_gen(s)}
<1>1. Needs(r) = reads \union returns
  BY DEF Needs, AtReturn
<1>2. TrulyLive(p, r) <=> ReachableFrom(Clear(r), {p}) \intersect (reads \union returns) # {}
  BY DEF TrulyLive, Clear
<1> HIDE DEF reads, returns
<1> QED BY <1>1, <1>2

\* The equations that the true live sets solve, and that no smaller sets do.
LEMMA LiveRules ==
  ASSUME TreeTypes, prog \in Functions
  PROVE  /\ \A p \in Places : \A r : r \in live_gen(p) => TrulyLive(p, r)
         /\ \A p \in Places : \A r : AtReturn(p) /\ r \in Core \ live_kill(p) => TrulyLive(p, r)
         /\ \A p \in Places : \A r : r \notin live_kill(p) /\ (\E s \in Behind(p) : TrulyLive(s, r)) => TrulyLive(p, r)
         /\ \A r, X : /\ X \subseteq Places /\ Needs(r) \subseteq X
                      /\ \A p \in Places \ X : r \in live_kill(p) \/ Behind(p) \intersect X = {}
                      => \A p \in Places : TrulyLive(p, r) => p \in X
<1>1. IsFiniteSet(Places) /\ \A p \in Places : Behind(p) \subseteq Places
  BY OpFacts
<1>2. ASSUME NEW r, NEW S \in SUBSET Places
      PROVE  /\ S \subseteq ReachableFrom(Clear(r), S)
             /\ ReachableFrom(Clear(r), S) \subseteq Places
             /\ \A p \in ReachableFrom(Clear(r), S) : Clear(r)[p] \subseteq ReachableFrom(Clear(r), S)
             /\ \A X : S \subseteq X /\ (\A p \in X : Clear(r)[p] \subseteq X) => ReachableFrom(Clear(r), S) \subseteq X
  <2> DEFINE c == Clear(r)
  <2>1. c \in [Places -> SUBSET Places]
    BY <1>1 DEF Clear
  <2> HIDE DEF c
  <2>2. /\ S \subseteq ReachableFrom(c, S)
        /\ ReachableFrom(c, S) \subseteq Places
        /\ \A p \in ReachableFrom(c, S) : c[p] \subseteq ReachableFrom(c, S)
        /\ \A X : S \subseteq X /\ (\A p \in X : c[p] \subseteq X) => ReachableFrom(c, S) \subseteq X
    BY <1>1, <2>1, ReachableIsLeast
  <2> QED BY <2>2 DEF c
<1>3. \A p \in Places : \A r : p \in Needs(r) => TrulyLive(p, r)
  <2> SUFFICES ASSUME NEW p \in Places, NEW r, p \in Needs(r) PROVE TrulyLive(p, r)
    OBVIOUS
  <2>1. p \in ReachableFrom(Clear(r), {p})
    BY <1>2
  <2> QED BY <2>1, LiveByReach
<1>4. \A p \in Places : \A r : r \notin live_kill(p) /\ (\E s \in Behind(p) : TrulyLive(s, r)) => TrulyLive(p, r)
  <2> SUFFICES ASSUME NEW p \in Places, NEW r, r \notin live_kill(p), NEW s \in Behind(p), TrulyLive(s, r)
               PROVE  TrulyLive(p, r)
    OBVIOUS
  <2> DEFINE R == ReachableFrom(Clear(r), {p})
  <2>1. p \in R /\ \A n \in R : Clear(r)[n] \subseteq R
    BY <1>2
  <2>2. Clear(r)[p] = Behind(p)
    BY DEF Clear
  <2>3. {s} \subseteq R /\ s \in Places
    BY <2>1, <2>2, <1>1
  <2>4. ReachableFrom(Clear(r), {s}) \subseteq R
    <3> HIDE DEF R
    <3> QED BY <2>1, <2>3, <1>2
  <2> QED BY <2>4, LiveByReach
<1>5. \A r, X : /\ X \subseteq Places /\ Needs(r) \subseteq X
                /\ \A p \in Places \ X : r \in live_kill(p) \/ Behind(p) \intersect X = {}
                => \A p \in Places : TrulyLive(p, r) => p \in X
  <2> SUFFICES ASSUME NEW r, NEW X, X \subseteq Places, Needs(r) \subseteq X,
                      \A p \in Places \ X : r \in live_kill(p) \/ Behind(p) \intersect X = {},
                      NEW p \in Places, TrulyLive(p, r), p \notin X
               PROVE  FALSE
    OBVIOUS
  <2> DEFINE Y == Places \ X
  <2>1. {p} \subseteq Y
    OBVIOUS
  <2>2. \A n \in Y : Clear(r)[n] \subseteq Y
    BY <1>1 DEF Clear
  <2> HIDE DEF Y
  <2>3. ReachableFrom(Clear(r), {p}) \subseteq Y
    BY <2>1, <2>2, <1>2
  <2>4. Y \intersect Needs(r) = {}
    BY DEF Y
  <2> QED BY <2>3, <2>4, LiveByReach
<1> QED BY <1>3, <1>4, <1>5 DEF Needs

\* None of this changes while the sweeps run.
LEMMA LiveStands ==
  ASSUME graph' = graph, prog' = prog
  PROVE  /\ Places' = Places /\ body' = body /\ succs' = succs
         /\ \A p : /\ Behind(p)' = Behind(p) /\ live_gen(p)' = live_gen(p) /\ live_kill(p)' = live_kill(p)
                   /\ AtReturn(p)' <=> AtReturn(p)
         /\ \A b : (is_end(b)' <=> is_end(b)) /\ (noreturn(b)' <=> noreturn(b))
         /\ \A p, r : TrulyLive(p, r)' <=> TrulyLive(p, r)
<1>1. body' = body /\ succs' = succs /\ Places' = Places
  BY DEF body, succs, Places
<1>2. \A b : (is_end(b)' <=> is_end(b)) /\ (noreturn(b)' <=> noreturn(b))
  BY DEF is_end, noreturn
<1>3. \A p : /\ Behind(p)' = Behind(p) /\ live_gen(p)' = live_gen(p) /\ live_kill(p)' = live_kill(p)
             /\ AtReturn(p)' <=> AtReturn(p)
  BY <1>1, <1>2 DEF Behind, live_gen, live_kill, op, AtReturn
<1>4. \A r : Needs(r)' = Needs(r)
  BY <1>1, <1>3 DEF Needs
<1>5. \A r : Clear(r)' = Clear(r)
  BY <1>1, <1>3 DEF Clear
<1>6. (\A p, r : TrulyLive(p, r) <=> ReachableFrom(Clear(r), {p}) \intersect Needs(r) # {})'
  BY LiveByReach, PTL
<1> QED BY <1>1, <1>2, <1>3, <1>4, <1>5, <1>6, LiveByReach

(***************************************************************************)
(* The sweeps                                                              *)
(***************************************************************************)
NewIn(p) == (LiveOut(p) \ live_kill(p)) \union live_gen(p)

\* r is needed behind p.
MayNeed(p, r) == (AtReturn(p) /\ r \in Core) \/ \E s \in Behind(p) : TrulyLive(s, r)

\* What this sweep has looked at.
Passed ==
  {p \in Places : index[p[1]] + 1 > bpos \/ (index[p[1]] + 1 = bpos /\ p[2] > opos)}

\* The place the sweep is at.
SweepTypes ==
  /\ live_in \in [Places -> SUBSET Reg] /\ live_out \in [Places -> SUBSET Reg]
  /\ setschanged \in BOOLEAN
  /\ bpos \in 0 .. Len(blist) /\ opos \in Nat
  /\ bpos > 0 => opos \in 1 .. Len(body[blist[bpos]])

\* The sets never hold a register that is not live ...
OnlyLive ==
  \A p \in Places :
    /\ \A r \in live_in[p] : TrulyLive(p, r)
    /\ \A r \in live_out[p] : MayNeed(p, r)

\* ... and what the sweep has passed solves the equations as long as nothing has changed.
Settled ==
  ~setschanged => \A p \in Passed : live_out[p] = LiveOut(p) /\ live_in[p] = NewIn(p)

AllLive == \A p \in Places : {r \in Reg : TrulyLive(p, r)} \subseteq live_in[p]

SweepInv == SweepTypes /\ OnlyLive /\ Settled

LEMMA BlockOrder ==
  ASSUME TreeTypes, Numbered
  PROVE  /\ Len(blist) \in Nat /\ Len(blist) > 0 /\ Last(blist) = blist[Len(blist)]
         /\ \A n \in 1 .. Len(blist) : blist[n] \in Block /\ index[blist[n]] = n - 1
         /\ \A b \in Block : index[b] \in Nat /\ index[b] + 1 \in 1 .. Len(blist) /\ blist[index[b] + 1] = b
<1>1. blist \in Seq(Block) /\ Len(blist) = Cardinality(Block) /\ 0 \in Block /\ IsFiniteSet(Block)
  BY BlockAssumption DEF TreeTypes, TypeOK
<1>2. Len(blist) \in Nat /\ DOMAIN blist = 1 .. Len(blist)
  BY <1>1
<1>3. Cardinality(Block) # 0
  BY <1>1, FS_EmptySet
<1>4. \A b \in Block : index[b] \in Block /\ index[b] + 1 \in DOMAIN blist /\ blist[index[b] + 1] = b
  BY DEF Numbered
<1>5. \A b \in Block : b \in Nat
  BY <1>1, <1>2, BlockAssumption
<1>6. \A n \in 1 .. Len(blist) : blist[n] \in Block /\ index[blist[n]] = n - 1
  BY <1>1, <1>2 DEF Numbered
<1> QED BY <1>1, <1>2, <1>3, <1>4, <1>5, <1>6 DEF Last

LEMMA SetsStart ==
  ASSUME TreeTypes, Numbered, prog \in Functions, StartSets,
         live_in = [p \in Places |-> {}], live_out = [p \in Places |-> {}]
  PROVE  SweepInv'
<1>1. /\ graph' = graph /\ prog' = prog /\ blist' = blist /\ index' = index
      /\ live_in' = live_in /\ live_out' = live_out
      /\ setschanged' = FALSE /\ bpos' = Len(blist) /\ opos' = Len(body[Last(blist)])
  BY DEF StartSets, dfsvars
<1>2. Places' = Places /\ body' = body
  BY <1>1, LiveStands
<1>3. /\ Len(blist) \in Nat /\ Len(blist) > 0 /\ Last(blist) = blist[Len(blist)]
      /\ \A n \in 1 .. Len(blist) : blist[n] \in Block /\ index[blist[n]] = n - 1
      /\ \A b \in Block : index[b] \in Nat /\ index[b] + 1 \in 1 .. Len(blist) /\ blist[index[b] + 1] = b
  BY BlockOrder
<1>4. Last(blist) \in Block /\ opos' \in Nat /\ opos' \in 1 .. Len(body[blist[Len(blist)]])
  <2>1. Last(blist) \in Block
    BY <1>3
  <2>2. Len(body[Last(blist)]) \in Nat /\ Len(body[Last(blist)]) >= 1
    BY <2>1, OpFacts
  <2> QED BY <2>1, <2>2, <1>1, <1>3
<1>5. SweepTypes'
  <2>1. Len(blist) \in 0 .. Len(blist) /\ [p \in Places |-> {}] \in [Places -> SUBSET Reg]
    BY <1>3
  <2>2. /\ live_in' \in [Places' -> SUBSET Reg] /\ live_out' \in [Places' -> SUBSET Reg]
        /\ setschanged' \in BOOLEAN /\ bpos' \in 0 .. Len(blist')
        /\ opos' \in Nat /\ opos' \in 1 .. Len(body'[blist'[bpos']])
    BY <2>1, <1>1, <1>2, <1>4
  <2> QED BY <2>2 DEF SweepTypes
<1>6. OnlyLive'
  BY <1>1, <1>2 DEF OnlyLive
<1>7. Passed' = {}
  <2> SUFFICES ASSUME NEW p \in Places,
                      index[p[1]] + 1 > Len(blist) \/ (index[p[1]] + 1 = Len(blist) /\ p[2] > opos')
               PROVE  FALSE
    BY <1>1, <1>2 DEF Passed
  <2>1. p[1] \in Block /\ p[2] \in 1 .. Len(body[p[1]]) /\ Len(body[p[1]]) \in Nat
    BY OpFacts
  <2>2. index[p[1]] + 1 = Len(blist) /\ blist[Len(blist)] = p[1]
    BY <2>1, <1>3
  <2> QED BY <2>1, <2>2, <1>1, <1>3
<1>8. Settled'
  BY <1>7 DEF Settled
<1> QED BY <1>5, <1>6, <1>8 DEF SweepInv

\* What a look at p may put into its sets.
LEMMA OutIsNeeded ==
  ASSUME TreeTypes, prog \in Functions, SweepTypes, OnlyLive, NEW p \in Places
  PROVE  /\ \A r \in LiveOut(p) : r \in Reg /\ MayNeed(p, r)
         /\ \A r \in NewIn(p) : r \in Reg /\ TrulyLive(p, r)
         /\ AtReturn(p) => Core \subseteq LiveOut(p)
         /\ \A s \in Behind(p) : live_in[s] \subseteq LiveOut(p)
<1>1. /\ p[1] \in Block /\ p[2] \in 1 .. Len(body[p[1]]) /\ Len(body[p[1]]) \in Nat
      /\ live_gen(p) \subseteq Reg /\ Behind(p) \subseteq Places
  BY OpFacts
<1>2. /\ \A s \in Places : live_in[s] \subseteq Reg /\ live_out[s] \subseteq Reg
      /\ \A s \in Places : \A r \in live_in[s] : TrulyLive(s, r)
      /\ \A r \in live_out[p] : MayNeed(p, r)
      /\ Core \subseteq Reg
  BY DEF SweepTypes, OnlyLive, Reg
<1>3. /\ \A r \in LiveOut(p) : r \in Reg /\ MayNeed(p, r)
      /\ AtReturn(p) => Core \subseteq LiveOut(p)
      /\ \A s \in Behind(p) : live_in[s] \subseteq LiveOut(p)
  <2>1. CASE p[2] < Len(body[p[1]])
    <3>1. LiveOut(p) = live_in[<<p[1], p[2] + 1>>] /\ Behind(p) = {<<p[1], p[2] + 1>>} /\ ~AtReturn(p)
      BY <2>1, <1>1 DEF LiveOut, Behind, AtReturn
    <3> QED BY <3>1, <1>1, <1>2 DEF MayNeed
  <2>2. CASE ~(p[2] < Len(body[p[1]]))
    <3> DEFINE more == UNION {live_in[<<s, 1>>] : s \in succs[p[1]]}
    <3>1. /\ Behind(p) = {<<s, 1>> : s \in succs[p[1]]} /\ p[2] = Len(body[p[1]])
          /\ AtReturn(p) <=> is_end(p[1]) /\ ~noreturn(p[1])
          /\ LiveOut(p) = live_out[p] \union (IF ~is_end(p[1]) THEN more
                                              ELSE IF noreturn(p[1]) THEN {} ELSE Core)
      BY <2>2, <1>1 DEF LiveOut, Behind, AtReturn
    <3>2. \A r \in more : r \in Reg /\ \E s \in Behind(p) : TrulyLive(s, r)
      BY <3>1, <1>1, <1>2
    <3>3. is_end(p[1]) => Behind(p) = {}
      <4> SUFFICES ASSUME is_end(p[1]) PROVE succs[p[1]] = {}
        BY <3>1
      <4>1. DOMAIN graph.out[p[1]] = {}
        BY DEF is_end
      <4> QED BY <4>1, <1>1 DEF succs, Successors
    <3>4. \A s \in Behind(p) : live_in[s] \subseteq more
      BY <3>1
    <3> HIDE DEF more
    <3>5. \A r \in LiveOut(p) : r \in Reg /\ MayNeed(p, r)
      BY <3>1, <3>2, <1>1, <1>2 DEF MayNeed
    <3>6. AtReturn(p) => Core \subseteq LiveOut(p)
      BY <3>1
    <3>7. \A s \in Behind(p) : live_in[s] \subseteq LiveOut(p)
      BY <3>1, <3>3, <3>4
    <3> QED BY <3>5, <3>6, <3>7
  <2> QED BY <2>1, <2>2
<1>4. ASSUME NEW r \in NewIn(p) PROVE r \in Reg /\ TrulyLive(p, r)
  <2>1. CASE r \in live_gen(p)
    BY <2>1, <1>1, LiveRules
  <2>2. CASE r \in LiveOut(p) /\ r \notin live_kill(p)
    BY <2>2, <1>3, LiveRules DEF MayNeed
  <2> QED BY <2>1, <2>2 DEF NewIn
<1> QED BY <1>3, <1>4

LEMMA LookAtOpSweeps ==
  ASSUME TreeTypes, Numbered, prog \in Functions, SweepInv, LookAtOp
  PROVE  SweepInv'
<1>1. /\ Len(blist) \in Nat /\ Len(blist) > 0
      /\ \A n \in 1 .. Len(blist) : blist[n] \in Block /\ index[blist[n]] = n - 1
      /\ \A b \in Block : index[b] \in Nat /\ index[b] + 1 \in 1 .. Len(blist) /\ blist[index[b] + 1] = b
  BY BlockOrder
<1>2. /\ live_in \in [Places -> SUBSET Reg] /\ live_out \in [Places -> SUBSET Reg]
      /\ setschanged \in BOOLEAN
      /\ bpos \in 1 .. Len(blist) /\ opos \in Nat /\ opos \in 1 .. Len(body[blist[bpos]])
  BY <1>1 DEF SweepInv, SweepTypes, LookAtOp
<1>3. PICK p : p = <<blist[bpos], opos>>
  OBVIOUS
<1>4. p \in Places /\ p[1] = blist[bpos] /\ p[2] = opos /\ blist[bpos] \in Block /\ index[blist[bpos]] + 1 = bpos
  BY <1>1, <1>2, <1>3, OpFacts
<1>5. /\ live_out' = [live_out EXCEPT ![p] = LiveOut(p)]
      /\ live_in' = [live_in EXCEPT ![p] = NewIn(p)]
      /\ setschanged' = (setschanged \/ live_out[p] # LiveOut(p) \/ live_in[p] # NewIn(p))
      /\ IF opos > 1 THEN opos' = opos - 1 /\ bpos' = bpos
         ELSE /\ bpos' = bpos - 1
              /\ opos' = IF bpos > 1 THEN Len(body[blist[bpos - 1]]) ELSE 0
  BY <1>3 DEF LookAtOp, NewIn
<1>6. prog' = prog /\ graph' = graph /\ blist' = blist /\ index' = index
  BY DEF LookAtOp, treevars, dfsvars
<1>7. /\ Places' = Places /\ body' = body /\ succs' = succs
      /\ \A s : /\ Behind(s)' = Behind(s) /\ live_gen(s)' = live_gen(s) /\ live_kill(s)' = live_kill(s)
                /\ AtReturn(s)' <=> AtReturn(s)
      /\ \A b : (is_end(b)' <=> is_end(b)) /\ (noreturn(b)' <=> noreturn(b))
      /\ \A s, r : TrulyLive(s, r)' <=> TrulyLive(s, r)
  BY <1>6, LiveStands
<1>8. /\ LiveOut(p) \subseteq Reg /\ \A r \in LiveOut(p) : MayNeed(p, r)
      /\ NewIn(p) \subseteq Reg /\ \A r \in NewIn(p) : TrulyLive(p, r)
  BY <1>4, OutIsNeeded DEF SweepInv
<1>9. \A s, r : MayNeed(s, r)' <=> MayNeed(s, r)
  BY <1>7 DEF MayNeed
<1>10. SweepTypes'
  <2>1. live_in' \in [Places -> SUBSET Reg] /\ live_out' \in [Places -> SUBSET Reg] /\ setschanged' \in BOOLEAN
    BY <1>2, <1>5, <1>8
  <2>2. bpos' \in 0 .. Len(blist) /\ opos' \in Nat /\ (bpos' > 0 => opos' \in 1 .. Len(body[blist[bpos']]))
    <3>1. CASE opos > 1
      <4>1. Len(body[blist[bpos]]) \in Nat /\ bpos' = bpos /\ opos' = opos - 1
        BY <3>1, <1>4, <1>5, OpFacts
      <4> QED BY <4>1, <3>1, <1>1, <1>2
    <3>2. CASE ~(opos > 1) /\ bpos > 1
      <4> DEFINE b == blist[bpos - 1]
      <4>1. b \in Block /\ bpos' = bpos - 1 /\ opos' = Len(body[b])
        BY <3>2, <1>1, <1>2, <1>5
      <4>2. Len(body[b]) \in Nat /\ Len(body[b]) >= 1
        BY <4>1, OpFacts
      <4>3. body[blist[bpos']] = body[b]
        BY <4>1
      <4> QED BY <4>1, <4>2, <4>3, <3>2, <1>1, <1>2
    <3>3. CASE ~(opos > 1) /\ ~(bpos > 1)
      BY <3>3, <1>1, <1>2, <1>5
    <3> QED BY <3>1, <3>2, <3>3
  <2> QED BY <2>1, <2>2, <1>6, <1>7 DEF SweepTypes
<1>11. OnlyLive'
  <2> SUFFICES ASSUME NEW s \in Places
               PROVE  /\ \A r \in live_in'[s] : TrulyLive(s, r)
                      /\ \A r \in live_out'[s] : MayNeed(s, r)
    BY <1>7, <1>9 DEF OnlyLive
  <2>1. CASE s = p
    <3>1. live_in'[s] = NewIn(p) /\ live_out'[s] = LiveOut(p)
      BY <2>1, <1>2, <1>4, <1>5
    <3> QED BY <3>1, <2>1, <1>8
  <2>2. CASE s # p
    <3>1. live_in'[s] = live_in[s] /\ live_out'[s] = live_out[s]
      BY <2>2, <1>2, <1>4, <1>5
    <3> QED BY <3>1 DEF SweepInv, OnlyLive
  <2> QED BY <2>1, <2>2
<1>12. Passed' \subseteq Passed \union {p}
  <2> SUFFICES ASSUME NEW s \in Places, s # p,
                      index[s[1]] + 1 > bpos' \/ (index[s[1]] + 1 = bpos' /\ s[2] > opos')
               PROVE  s \in Passed
    BY <1>6, <1>7 DEF Passed
  <2>1. /\ s[1] \in Block /\ s[2] \in 1 .. Len(body[s[1]]) /\ Len(body[s[1]]) \in Nat /\ s = <<s[1], s[2]>>
        /\ s[2] \in Nat /\ s[2] >= 1 /\ s[2] <= Len(body[s[1]])
    BY OpFacts
  <2>2. index[s[1]] \in Nat /\ index[s[1]] + 1 \in 1 .. Len(blist) /\ blist[index[s[1]] + 1] = s[1]
    BY <2>1, <1>1
  <2>3. ~(index[s[1]] + 1 = bpos /\ s[2] = opos)
    BY <2>1, <2>2, <1>3
  <2>4. CASE opos > 1
    BY <2>1, <2>2, <2>3, <2>4, <1>2, <1>5 DEF Passed
  <2>5. CASE ~(opos > 1)
    <3>1. bpos' = bpos - 1 /\ opos = 1
      BY <2>5, <1>2, <1>5
    <3>2. ~(index[s[1]] + 1 = bpos')
      <4> SUFFICES ASSUME index[s[1]] + 1 = bpos', s[2] > opos' PROVE FALSE
        BY <3>1, <2>1, <2>2, <2>3, <1>2
      <4>1. bpos > 1 /\ blist[bpos - 1] = s[1]
        BY <3>1, <2>2, <1>2
      <4>2. opos' = Len(body[s[1]])
        BY <4>1, <2>5, <1>5
      <4> QED BY <4>2, <2>1
    <3> QED BY <3>1, <3>2, <2>1, <2>2, <2>3, <1>2 DEF Passed
  <2> QED BY <2>4, <2>5
<1>13. Settled'
  <2> SUFFICES ASSUME ~setschanged', NEW s \in Passed'
               PROVE  live_out'[s] = LiveOut(s)' /\ live_in'[s] = NewIn(s)'
    BY DEF Settled
  <2>1. ~setschanged /\ live_out[p] = LiveOut(p) /\ live_in[p] = NewIn(p)
    BY <1>5
  <2>2. live_out' = live_out /\ live_in' = live_in
    BY <2>1, <1>2, <1>4, <1>5
  <2>3. LiveOut(s)' = LiveOut(s)
    BY <2>2, <1>7 DEF LiveOut
  <2>4. NewIn(s)' = NewIn(s)
    BY <2>3, <1>7 DEF NewIn
  <2> QED BY <2>1, <2>2, <2>3, <2>4, <1>12 DEF SweepInv, Settled
<1> QED BY <1>10, <1>11, <1>13 DEF SweepInv

LEMMA SetsEnd ==
  ASSUME TreeTypes, Numbered, prog \in Functions, SweepInv, EndSets
  PROVE  \/ phase' = "live" /\ SweepInv'
         \/ phase' = "sort" /\ LiveSetsExact' /\ AllLive' /\ live_in' \in [Places' -> SUBSET Reg]
<1>1. /\ Len(blist) \in Nat /\ Len(blist) > 0 /\ Last(blist) = blist[Len(blist)]
      /\ \A n \in 1 .. Len(blist) : blist[n] \in Block /\ index[blist[n]] = n - 1
      /\ \A b \in Block : index[b] \in Nat /\ index[b] + 1 \in 1 .. Len(blist) /\ blist[index[b] + 1] = b
  BY BlockOrder
<1>2. /\ prog' = prog /\ graph' = graph /\ blist' = blist /\ index' = index
      /\ live_in' = live_in /\ live_out' = live_out /\ phase = "live" /\ bpos = 0
  BY DEF EndSets, dfsvars
<1>3. /\ Places' = Places /\ body' = body
      /\ \A s : /\ Behind(s)' = Behind(s)
                /\ AtReturn(s)' <=> AtReturn(s)
      /\ \A s, r : TrulyLive(s, r)' <=> TrulyLive(s, r)
  BY <1>2, LiveStands
<1>4. CASE setschanged
  <2>1. phase' = "live" /\ setschanged' = FALSE /\ bpos' = Len(blist) /\ opos' = Len(body[Last(blist)])
    BY <1>2, <1>4 DEF EndSets
  <2>2. opos' \in Nat /\ opos' \in 1 .. Len(body[blist[Len(blist)]])
    <3>1. Last(blist) \in Block
      BY <1>1
    <3>2. Len(body[Last(blist)]) \in Nat /\ Len(body[Last(blist)]) >= 1
      BY <3>1, OpFacts
    <3> QED BY <3>2, <2>1, <1>1
  <2>3. SweepTypes'
    <3>1. Len(blist) \in 0 .. Len(blist)
      BY <1>1
    <3>2. /\ setschanged' \in BOOLEAN /\ bpos' \in 0 .. Len(blist')
          /\ opos' \in Nat /\ opos' \in 1 .. Len(body'[blist'[bpos']])
      BY <3>1, <2>1, <2>2, <1>2, <1>3
    <3>3. live_in' \in [Places' -> SUBSET Reg] /\ live_out' \in [Places' -> SUBSET Reg]
      BY <1>2, <1>3 DEF SweepInv, SweepTypes
    <3> QED BY <3>2, <3>3 DEF SweepTypes
  <2>4. OnlyLive'
    BY <1>2, <1>3 DEF SweepInv, OnlyLive, MayNeed
  <2>5. Passed' = {}
    <3> SUFFICES ASSUME NEW p \in Places,
                        index[p[1]] + 1 > Len(blist) \/ (index[p[1]] + 1 = Len(blist) /\ p[2] > opos')
                 PROVE  FALSE
      BY <2>1, <1>2, <1>3 DEF Passed
    <3>1. p[1] \in Block /\ p[2] \in 1 .. Len(body[p[1]]) /\ Len(body[p[1]]) \in Nat
      BY OpFacts
    <3>2. index[p[1]] + 1 = Len(blist) /\ blist[Len(blist)] = p[1]
      BY <3>1, <1>1
    <3> QED BY <3>1, <3>2, <2>1, <1>1
  <2>6. Settled'
    BY <2>5 DEF Settled
  <2> QED BY <2>1, <2>3, <2>4, <2>6 DEF SweepInv
<1>5. CASE ~setschanged
  <2>1. phase' = "sort"
    BY <1>2, <1>5 DEF EndSets
  <2>2. ASSUME NEW p \in Places PROVE live_out[p] = LiveOut(p) /\ live_in[p] = NewIn(p)
    <3>1. p[1] \in Block
      BY OpFacts
    <3>2. index[p[1]] + 1 > bpos
      BY <3>1, <1>1, <1>2
    <3>3. p \in Passed
      BY <3>2 DEF Passed
    <3> QED BY <3>3, <1>5 DEF SweepInv, Settled
  <2>3. /\ \A p \in Places : live_gen(p) \subseteq live_in[p]
        /\ \A p \in Places : \A r : r \notin live_kill(p) /\ r \in LiveOut(p) => r \in live_in[p]
    BY <2>2 DEF NewIn
  <2>4. /\ \A p \in Places : AtReturn(p) => Core \subseteq LiveOut(p)
        /\ \A p \in Places : \A s \in Behind(p) : live_in[s] \subseteq LiveOut(p)
    BY OutIsNeeded DEF SweepInv
  <2>5. ASSUME NEW r, NEW p \in Places, TrulyLive(p, r) PROVE r \in live_in[p]
    <3> DEFINE X == {s \in Places : r \in live_in[s]}
    <3>1. X \subseteq Places /\ Needs(r) \subseteq X
      BY <2>3, <2>4 DEF Needs
    <3>2. \A s \in Places \ X : r \in live_kill(s) \/ Behind(s) \intersect X = {}
      BY <2>3, <2>4
    <3> HIDE DEF X
    <3>3. p \in X
      BY <2>5, <3>1, <3>2, LiveRules
    <3> QED BY <3>3 DEF X
  <2>6. \A p \in Places : live_in[p] \subseteq Reg /\ \A r \in live_in[p] : TrulyLive(p, r)
    BY DEF SweepInv, SweepTypes, OnlyLive
  <2>7. \A p \in Places : live_in[p] = {r \in Reg : TrulyLive(p, r)}
    BY <2>5, <2>6
  <2>8. LiveSetsExact' /\ AllLive'
    BY <2>7, <1>2, <1>3 DEF LiveSetsExact, AllLive
  <2> QED BY <2>1, <2>8, <1>2, <1>3 DEF SweepInv, SweepTypes
<1> QED BY <1>4, <1>5, <1>2 DEF SweepInv, SweepTypes

(***************************************************************************)
(* regalloc                                                                *)
(***************************************************************************)
LEMMA LowestChosen ==
  ASSUME NEW S \in SUBSET Core, S # {}
  PROVE  Lowest(S) \in S
<1>1. S \in SUBSET Nat
  BY LiveAssumption
<1> QED BY <1>1, Smallest DEF Lowest

\* What n calls of regalloc hand out, one after the other.
Handed(g, n) ==
  g = [i \in 0 .. n |->
         IF i = 0 THEN << >> ELSE Append(g[i - 1], Lowest(FreeRegs(place) \ Range(g[i - 1])))]

LEMMA HandedExists ==
  ASSUME NEW n \in Nat
  PROVE  \E g : Handed(g, n)
<1> DEFINE D == Seq(Core \union {Lowest({})})
           Step(s) == Append(s, Lowest(FreeRegs(place) \ Range(s)))
           F == [i \in 1 .. n |-> [s \in D |-> Step(s)]]
<1>1. << >> \in D
  OBVIOUS
<1>2. \A s \in D : Step(s) \in D
  <2> SUFFICES ASSUME NEW s \in D PROVE Step(s) \in D
    OBVIOUS
  <2> DEFINE S == FreeRegs(place) \ Range(s)
  <2>1. S \in SUBSET Core
    BY DEF FreeRegs
  <2> HIDE DEF S
  <2>2. Lowest(S) \in Core \union {Lowest({})}
    BY <2>1, LowestChosen
  <2>3. Append(s, Lowest(S)) \in D
    BY <2>2
  <2> QED BY <2>3 DEF S
<1>3. F \in [1 .. n -> [D -> D]]
  <2> HIDE DEF Step, D
  <2> QED BY <1>2
<1>4. PICK u : Solves(u, D, << >>, n, F)
  <2> HIDE DEF F, D
  <2> QED BY <1>1, <1>3, RecursionExists
<1>5. \A i \in 0 .. n : u[i] = IF i = 0 THEN << >> ELSE Step(u[i - 1])
  <2> SUFFICES ASSUME NEW i \in 0 .. n PROVE u[i] = IF i = 0 THEN << >> ELSE Step(u[i - 1])
    OBVIOUS
  <2>1. \A k \in 0 .. n : u[k] \in D
    BY <1>4 DEF Solves
  <2> HIDE DEF Step, D
  <2>2. CASE i = 0
    <3> HIDE DEF F
    <3> QED BY <2>2, <1>4 DEF Solves
  <2>3. CASE i # 0
    <3>1. i \in 1 .. n /\ i - 1 \in 0 .. n
      BY <2>3
    <3>2. u[i] = F[i][u[i - 1]]
      <4> HIDE DEF F
      <4> QED BY <2>3, <1>4 DEF Solves
    <3> QED BY <3>1, <3>2, <2>1, <2>3
  <2> QED BY <2>2, <2>3
<1>6. u = [i \in 0 .. n |-> IF i = 0 THEN << >> ELSE Step(u[i - 1])]
  <2> HIDE DEF Step, F, D
  <2>1. u = [i \in 0 .. n |-> u[i]]
    BY <1>4 DEF Solves
  <2> QED BY <2>1, <1>5
<1> QED BY <1>6 DEF Handed

\* As many registers as were free are handed out, no register twice.
LEMMA HandedFree ==
  ASSUME NEW n \in Nat, Cardinality(FreeRegs(place)) >= n, NEW g, Handed(g, n)
  PROVE  /\ g[n] \in Seq(Core) /\ IsInjective(g[n])
         /\ \A i \in DOMAIN g[n] : g[n][i] \in FreeRegs(place)
<1> DEFINE free == FreeRegs(place)
           Good(s, i) == /\ s \in Seq(free) /\ Len(s) = i /\ IsInjective(s)
                         /\ IsFiniteSet(Range(s)) /\ Cardinality(Range(s)) = i
           G == {i \in 0 .. n : Good(g[i], i)}
<1>1. free \subseteq Core /\ IsFiniteSet(free) /\ Cardinality(free) \in Nat
  <2>1. free \subseteq Core
    BY DEF FreeRegs
  <2> HIDE DEF free
  <2> QED BY <2>1, LiveAssumption, FS_Subset, FS_CardinalityType
<1>2. \A i \in 0 .. n : g[i] = IF i = 0 THEN << >> ELSE Append(g[i - 1], Lowest(free \ Range(g[i - 1])))
  BY DEF Handed
<1>0. Cardinality(free) >= n
  OBVIOUS
<1> HIDE DEF free
<1>3. 0 \in G
  <2>1. << >> \in Seq(free) /\ Len(<< >>) = 0 /\ IsInjective(<< >>) /\ Range(<< >>) = {}
    BY DEF IsInjective, Range
  <2>2. IsFiniteSet({}) /\ Cardinality({}) = 0
    BY FS_EmptySet
  <2>3. Good(<< >>, 0)
    BY <2>1, <2>2
  <2>4. 0 \in 0 .. n
    OBVIOUS
  <2>5. g[0] = << >>
    BY <2>4, <1>2
  <2> HIDE DEF Good
  <2> QED BY <2>3, <2>4, <2>5
<1>4. ASSUME NEW i \in 1 .. n, i - 1 \in G PROVE i \in G
  <2> DEFINE s == g[i - 1]
             e == Lowest(free \ Range(s))
  <2>1. Good(s, i - 1) /\ i \in 0 .. n /\ i - 1 \in Nat /\ i - 1 < n
    BY <1>4
  <2>2. g[i] = Append(s, e)
    <3>1. i # 0 /\ i \in 0 .. n
      BY <2>1
    <3> QED BY <3>1, <1>2
  <2>3. Range(s) \subseteq free
    BY <2>1 DEF Range
  <2>4. free \ Range(s) # {}
    <3> SUFFICES ASSUME free = Range(s) PROVE FALSE
      BY <2>3
    <3> HIDE DEF s
    <3> QED BY <2>1, <1>0
  <2>5. free \ Range(s) \in SUBSET Core
    BY <1>1
  <2>6. e \in free \ Range(s)
    <3> DEFINE S == free \ Range(s)
    <3>1. S \in SUBSET Core /\ S # {}
      BY <2>4, <2>5
    <3> HIDE DEF S
    <3>2. Lowest(S) \in S
      BY <3>1, LowestChosen
    <3> QED BY <3>2 DEF S
  <2> HIDE DEF s, e
  <2> DEFINE t == Append(s, e)
  <2>7. /\ t \in Seq(free) /\ Len(t) = i /\ DOMAIN t = 1 .. i /\ DOMAIN s = 1 .. i - 1
        /\ t[i] = e /\ \A k \in 1 .. i - 1 : t[k] = s[k]
    BY <2>1, <2>6, AppendProperties
  <2> HIDE DEF t
  <2>8. Range(t) = Range(s) \union {e}
    <3>1. \A k \in 1 .. i : k = i \/ k \in 1 .. i - 1
      BY <2>1
    <3>2. \A k \in 1 .. i - 1 : k \in 1 .. i
      BY <2>1
    <3>3. i \in 1 .. i
      BY <2>1
    <3>4. Range(t) \subseteq Range(s) \union {e}
      BY <3>1, <2>7 DEF Range
    <3>5. Range(s) \union {e} \subseteq Range(t)
      BY <3>2, <3>3, <2>7 DEF Range
    <3> QED BY <3>4, <3>5
  <2>9. IsInjective(t)
    <3> SUFFICES ASSUME NEW j \in 1 .. i, NEW k \in 1 .. i, t[j] = t[k] PROVE j = k
      BY <2>7 DEF IsInjective
    <3>1. \A l \in 1 .. i - 1 : s[l] # e
      BY <2>6, <2>7 DEF Range
    <3>2. (j = i \/ j \in 1 .. i - 1) /\ (k = i \/ k \in 1 .. i - 1)
      BY <2>1
    <3> QED BY <3>1, <3>2, <2>1, <2>7 DEF IsInjective
  <2>10. IsFiniteSet(Range(t)) /\ Cardinality(Range(t)) = i
    <3>1. IsFiniteSet(Range(s)) /\ Cardinality(Range(s)) = i - 1 /\ e \notin Range(s)
      BY <2>1, <2>6
    <3>2. /\ IsFiniteSet(Range(s) \union {e})
          /\ Cardinality(Range(s) \union {e}) = Cardinality(Range(s)) + 1
      BY <3>1, FS_AddElement
    <3> QED BY <3>1, <3>2, <2>1, <2>8
  <2> QED BY <2>1, <2>2, <2>7, <2>9, <2>10 DEF t
<1>5. n \in G
  <2> HIDE DEF G
  <2>1. \A i \in 0 .. n : i \in G
    BY <1>3, <1>4, UpTo
  <2> QED BY <2>1
<1>6. g[n] \in Seq(free) /\ IsInjective(g[n])
  BY <1>5
<1>7. \A i \in DOMAIN g[n] : g[n][i] \in free
  BY <1>6
<1>8. g[n] \in Seq(Core)
  BY <1>1, <1>6
<1> QED BY <1>6, <1>7, <1>8 DEF free

\* The registers handed out so far: they are marked as live, and none is needed.
Handouts ==
  /\ allocated \in [Places -> Seq(Core)]
  /\ \A p \in Places :
       /\ IsInjective(allocated[p])
       /\ \A i \in DOMAIN allocated[p] : allocated[p][i] \in live_in[p] /\ ~TrulyLive(p, allocated[p][i])

LEMMA RegallocHandsOut ==
  ASSUME live_in \in [Places -> SUBSET Reg], AllLive, Handouts, prog' = prog, graph' = graph,
         NEW n \in Nat, Cardinality(FreeRegs(place)) >= n, regalloc(n)
  PROVE  live_in' \in [Places -> SUBSET Reg] /\ AllLive' /\ Handouts'
<1> DEFINE t(g) == g[n]
           v == CHOOSE g : Handed(g, n)
<1>1. Handed(v, n)
  BY HandedExists
<1>2. /\ allocated' = [allocated EXCEPT ![place] = @ \o v[n]]
      /\ live_in' = [live_in EXCEPT ![place] = @ \union Range(v[n])]
  BY DEF regalloc, Handed
<1>3. /\ v[n] \in Seq(Core) /\ IsInjective(v[n])
      /\ \A i \in DOMAIN v[n] : v[n][i] \in FreeRegs(place)
  BY <1>1, HandedFree
<1> HIDE DEF v
<1> DEFINE s == v[n]
<1>4. /\ s \in Seq(Core) /\ IsInjective(s)
      /\ \A i \in DOMAIN s : s[i] \in FreeRegs(place)
  BY <1>3
<1>5. /\ allocated' = [allocated EXCEPT ![place] = @ \o s]
      /\ live_in' = [live_in EXCEPT ![place] = @ \union Range(s)]
  BY <1>2
<1> HIDE DEF s
<1>6. Places' = Places /\ \A p, r : TrulyLive(p, r)' <=> TrulyLive(p, r)
  BY LiveStands
<1>7. Core \subseteq Reg /\ Range(s) \subseteq Core
  BY <1>4 DEF Reg, Range
<1>8. ASSUME NEW p \in Places, p # place
      PROVE  live_in'[p] = live_in[p] /\ allocated'[p] = allocated[p]
  BY <1>5, <1>8 DEF Handouts
<1>9. CASE place \notin Places
  <2>1. live_in' = live_in /\ allocated' = allocated
    BY <1>5, <1>9 DEF Handouts
  <2> QED BY <2>1, <1>6 DEF AllLive, Handouts
<1>10. CASE place \in Places
  <2> PICK p \in Places : p = place
    BY <1>10
  <2> DEFINE a == allocated[p]
  <2>1. live_in'[p] = live_in[p] \union Range(s) /\ allocated'[p] = a \o s /\ a \in Seq(Core)
    BY <1>5 DEF Handouts
  <2>2. live_in' \in [Places -> SUBSET Reg]
    BY <2>1, <1>5, <1>7
  <2>3. /\ \A i \in DOMAIN a : a[i] \in live_in[p] /\ ~TrulyLive(p, a[i])
        /\ IsInjective(a)
    BY DEF Handouts
  <2>4. \A i \in DOMAIN s : s[i] \notin live_in[p] /\ s[i] \in Reg /\ s[i] \in Core /\ s[i] \in Range(s)
    BY <1>4, <1>7 DEF FreeRegs, Range
  <2>5. \A i \in DOMAIN s : ~TrulyLive(p, s[i])
    BY <2>4 DEF AllLive
  <2> HIDE DEF a
  <2>6. AllLive'
    <3> SUFFICES ASSUME NEW x \in Places PROVE {r \in Reg : TrulyLive(x, r)} \subseteq live_in'[x]
      BY <1>6 DEF AllLive
    <3>1. {r \in Reg : TrulyLive(x, r)} \subseteq live_in[x]
      BY DEF AllLive
    <3> QED BY <3>1, <2>1, <1>8
  <2> DEFINE c == a \o s
  <2>7. /\ c \in Seq(Core) /\ Len(a) \in Nat /\ Len(s) \in Nat /\ DOMAIN c = 1 .. Len(a) + Len(s)
        /\ DOMAIN a = 1 .. Len(a) /\ DOMAIN s = 1 .. Len(s)
        /\ \A i \in 1 .. Len(a) + Len(s) : c[i] = IF i <= Len(a) THEN a[i] ELSE s[i - Len(a)]
    BY <2>1, <1>4, ConcatProperties
  <2> HIDE DEF c
  <2>8. ASSUME NEW i \in DOMAIN c
        PROVE  \/ i \in DOMAIN a /\ c[i] = a[i]
               \/ i - Len(a) \in DOMAIN s /\ c[i] = s[i - Len(a)] /\ i \in Nat
    BY <2>7
  <2>9. \A i \in DOMAIN c : (c[i] \in live_in[p] \/ c[i] \in Range(s)) /\ ~TrulyLive(p, c[i])
    BY <2>3, <2>4, <2>5, <2>8
  <2>10. IsInjective(c)
    <3> SUFFICES ASSUME NEW i \in DOMAIN c, NEW j \in DOMAIN c, c[i] = c[j] PROVE i = j
      BY DEF IsInjective
    <3>1. i \in Nat /\ j \in Nat
      BY <2>7
    <3>2. CASE i \in DOMAIN a /\ c[i] = a[i]
      BY <3>2, <2>3, <2>4, <2>8 DEF IsInjective
    <3>3. CASE i - Len(a) \in DOMAIN s /\ c[i] = s[i - Len(a)]
      <4>1. j - Len(a) \in DOMAIN s /\ c[j] = s[j - Len(a)]
        BY <3>3, <2>3, <2>4, <2>8
      <4>2. i - Len(a) = j - Len(a)
        BY <4>1, <3>3, <1>4 DEF IsInjective
      <4> QED BY <4>2, <3>1, <2>7
    <3> QED BY <3>2, <3>3, <2>8
  <2>11. Handouts'
    <3>1. allocated' \in [Places -> Seq(Core)]
      BY <2>1, <2>7, <1>5 DEF Handouts, c
    <3>2. ASSUME NEW x \in Places
          PROVE  /\ IsInjective(allocated'[x])
                 /\ \A i \in DOMAIN allocated'[x] : allocated'[x][i] \in live_in'[x] /\ ~TrulyLive(x, allocated'[x][i])
      <4>1. CASE x = p
        <5>1. allocated'[x] = c /\ live_in'[x] = live_in[p] \union Range(s)
          BY <4>1, <2>1 DEF c
        <5> QED BY <5>1, <4>1, <2>9, <2>10
      <4>2. CASE x # p
        BY <4>2, <1>8 DEF Handouts
      <4> QED BY <4>1, <4>2
    <3>3. ASSUME NEW x \in Places, NEW i \in DOMAIN allocated'[x]
          PROVE  ~TrulyLive(x, allocated[x][i])'
      <4> PICK r : r = allocated'[x][i]
        OBVIOUS
      <4>1. ~TrulyLive(x, r)'
        BY <3>2, <1>6
      <4> QED BY <4>1
    <3> QED BY <3>1, <3>2, <3>3, <1>6 DEF Handouts
  <2> QED BY <2>2, <2>6, <2>11
<1> QED BY <1>9, <1>10

(***************************************************************************)
(* The order of the blocks                                                 *)
(***************************************************************************)

\* What the walk has left, for sort_blocks to read.
Walked == TreeTypes /\ Numbered /\ OnwardInv /\ ExitInv /\ phase \notin {"edit", "tree"} /\ prog \in Functions

\* The block stands in front of an exit that does not return.
InFront(p) ==
  \E d \in Range(exitlist) \intersect Range(LastBlocks) :
    noreturn(d) /\ \E i \in DOMAIN graph.in[d] : graph.in[d][i].point = p

\* Every block is placed once, in front or behind, and a block that waits has a forward edge
\* from one that is not placed.
PlaceInv ==
  /\ blks \in Seq(Block) /\ IsInjective(blks) /\ q \in Seq(Block)
  /\ Range(blks) \intersect Range(LastBlocks) = {}
  /\ mark = Range(blks) \union Range(LastBlocks)
  /\ 0 \in mark \union Range(q)
  /\ \A b \in Range(blks) : \A s \in succs[b] \ (mark \union Range(q)) :
       incoming_forward_branches(s, mark) # {}

SortInv ==
  /\ phase \in {"edit", "tree", "done", "live", "sort"} => blks = << >>
  /\ phase = "place" => PlaceInv
  /\ phase \in {"emit", "vldr", "fix", "finished", "error"} => Range(blks) = Block
  /\ phase = "crash" => Relabeled \/ SetAside

\* The two halves of an edge.
OtherHalf(s, i, x, j) ==
  /\ x \in Block /\ s \in succs[x] /\ j \in DOMAIN graph.out[x]
  /\ graph.out[x][j].point = s /\ graph.out[x][j].label = graph.in[s][i].label

LEMMA InEdge ==
  ASSUME Walked, NEW s \in Block, NEW i \in DOMAIN graph.in[s],
         NEW x, x = graph.in[s][i].point, NEW j, j = graph.in[s][i].rev
  PROVE  OtherHalf(s, i, x, j)
<1>1. graph \in Graph(Block, Labels) /\ Coupled(Block, graph)
  BY DEF Walked, TreeTypes, TypeOK
<1>2. graph.in[s] \in Seq(HalfEdge(Block, Labels))
  BY <1>1 DEF Graph
<1>3. graph.in[s][i] \in HalfEdge(Block, Labels)
  BY <1>2, ListTypes
<1>4. x \in Block
  BY <1>3 DEF HalfEdge
<1>5. j \in DOMAIN graph.out[x] /\ graph.out[x][j] = blockedge(s, graph.in[s][i].label, i)
  BY <1>1 DEF Coupled, Partner
<1>6. graph.out[x][j].point = s /\ graph.out[x][j].label = graph.in[s][i].label
  BY <1>5, HalfFields
<1>7. succs[x] = {graph.out[x][k].point : k \in DOMAIN graph.out[x]}
  BY <1>4 DEF succs, Successors
<1>8. s \in succs[x]
  <2>1. ASSUME NEW h, NEW k \in DOMAIN h PROVE h[k].point \in {h[n].point : n \in DOMAIN h}
    OBVIOUS
  <2>2. graph.out[x][j].point \in {graph.out[x][n].point : n \in DOMAIN graph.out[x]}
    BY <1>5, <2>1, Zenon
  <2> QED BY <2>2, <1>6, <1>7, Zenon
<1> QED BY <1>4, <1>5, <1>6, <1>8 DEF OtherHalf

\* Places in preorder are numbers.
LEMMA Numbers ==
  ASSUME Walked
  PROVE  \A b \in Block : dfnum[b] \in Int /\ dfnum[b] + 1 \in Nat
<1>1. dfnum \in [Block -> Block \union {-1}]
  BY DEF Walked, TreeTypes, TypeOK
<1>2. \A n \in Block \union {-1} : n \in Int /\ n + 1 \in Nat
  BY Blocks
<1> QED BY <1>1, <1>2

LEMMA OutsAre ==
  ASSUME Walked, NEW b \in Block
  PROVE  /\ outs(b) \in Seq(Block) /\ Range(outs(b)) = succs[b]
         /\ DOMAIN outs(b) = DOMAIN graph.out[b] /\ Len(outs(b)) \in Nat
<1>1. graph \in Graph(Block, Labels)
  BY DEF Walked, TreeTypes, TypeOK
<1>2. graph.out[b] \in Seq(HalfEdge(Block, Labels)) /\ DOMAIN graph.out[b] = 1 .. Len(graph.out[b])
      /\ Len(graph.out[b]) \in Nat
  BY <1>1 DEF Graph
<1> DEFINE o == [i \in DOMAIN graph.out[b] |-> graph.out[b][i].point]
<1>3. \A i \in DOMAIN graph.out[b] : graph.out[b][i].point \in Block
  BY <1>1, GraphOf
<1>4. o \in [1 .. Len(graph.out[b]) -> Block] /\ DOMAIN o = DOMAIN graph.out[b]
  BY <1>2, <1>3
<1>5. Range(o) = succs[b]
  BY DEF Range, succs, Successors
<1> HIDE DEF o
<1>6. o \in Seq(Block) /\ Len(o) \in Nat
  BY <1>2, <1>4
<1>7. outs(b) = o
  BY DEF outs, o
<1> QED BY <1>4, <1>5, <1>6, <1>7

\* LastBlocks holds exits, and the block in front of one that does not return.
LEMMA LastBlocksAre ==
  ASSUME Walked
  PROVE  /\ LastBlocks \in Seq(Block) /\ IsInjective(LastBlocks)
         /\ \A b \in Range(LastBlocks) : graph.out[b] = << >> \/ InFront(b)
<1>1. /\ exitlist \in Seq(Block) /\ IsInjective(exitlist)
      /\ Range(exitlist) = {b \in Block : graph.out[b] = << >>}
  BY DEF Walked, ExitInv
<1> DEFINE dead == Sublist(exitlist, prog.noreturn)
           live == Sublist(exitlist, Block \ prog.noreturn)
           back_to_front == Reverse(live)
<1>2. /\ dead \in Seq(Block) /\ Range(dead) = Range(exitlist) \intersect prog.noreturn
  BY <1>1, SublistOf, Zenon
<1>3. /\ live \in Seq(Block) /\ IsInjective(live)
      /\ Range(live) = Range(exitlist) \intersect (Block \ prog.noreturn)
  BY <1>1, SublistOf, Zenon
<1>4. /\ LastBlocks = IF dead = << >> THEN back_to_front
                      ELSE <<graph.in[dead[1]][1].point>> \o back_to_front \o <<dead[1]>>
  BY DEF LastBlocks
<1> HIDE DEF live
<1>5. /\ back_to_front \in Seq(Block) /\ IsInjective(back_to_front) /\ Range(back_to_front) = Range(live)
  BY <1>3, Reversed, Zenon
<1> HIDE DEF dead, back_to_front
<1>6. CASE dead = << >>
  BY <1>1, <1>3, <1>4, <1>5, <1>6
<1>7. CASE dead # << >>
  <2> DEFINE d == dead[1]
             p == graph.in[d][1].point
             one == <<p>> \o back_to_front
  <2>1. 1 \in DOMAIN dead
    BY <1>2, <1>7, EmptySeq
  <2>2. d \in Block /\ d \in Range(exitlist) /\ d \in prog.noreturn /\ noreturn(d) /\ graph.out[d] = << >>
    BY <2>1, <1>1, <1>2 DEF Range, noreturn
  <2>3. d # 0
    BY <2>2, LiveAssumption DEF Walked
  <2>4. 1 \in DOMAIN graph.in[d]
    <3>1. PICK x \in Block : d \in succs[x]
      BY <2>2, <2>3 DEF Walked, Numbered
    <3>2. PICK k \in DOMAIN graph.out[x] : graph.out[x][k].point = d
      BY <3>1 DEF succs, Successors
    <3>3. graph.out[x][k].rev \in DOMAIN graph.in[d]
      BY <3>2 DEF Walked, TreeTypes, Coupled, Partner
    <3>4. graph.in[d] \in Seq(HalfEdge(Block, Labels))
      BY <2>2 DEF Walked, TreeTypes, TypeOK, Graph
    <3> QED BY <3>3, <3>4, EmptySeq
  <2>5. p \in Block /\ d \in succs[p] /\ graph.out[p] # << >>
    <3>1. p \in Block /\ d \in succs[p] /\ graph.in[d][1].rev \in DOMAIN graph.out[p]
      <4> HIDE DEF d
      <4> QED BY <2>2, <2>4, InEdge DEF OtherHalf
    <3> QED BY <3>1
  <2> HIDE DEF d, p
  <2>6. <<p>> \in Seq(Block) /\ IsInjective(<<p>>) /\ Range(<<p>>) = {p}
    BY <2>5 DEF IsInjective, Range
  <2>7. <<d>> \in Seq(Block) /\ IsInjective(<<d>>) /\ Range(<<d>>) = {d}
    BY <2>2 DEF IsInjective, Range
  <2>8. {p} \intersect Range(back_to_front) = {} /\ p # d
    BY <2>2, <2>5, <1>1, <1>3, <1>5
  <2>9. one \in Seq(Block) /\ IsInjective(one) /\ Range(one) = {p} \union Range(live)
    <3>1. Range(<<p>>) \intersect Range(back_to_front) = {}
      BY <2>6, <2>8
    <3>2. one \in Seq(Block) /\ IsInjective(one) /\ Range(one) = Range(<<p>>) \union Range(back_to_front)
      <4> DEFINE first == <<p>>
      <4>1. /\ first \in Seq(Block) /\ IsInjective(first)
            /\ Range(first) \intersect Range(back_to_front) = {}
        BY <3>1, <2>6
      <4> HIDE DEF first
      <4>2. /\ first \o back_to_front \in Seq(Block) /\ IsInjective(first \o back_to_front)
            /\ Range(first \o back_to_front) = Range(first) \union Range(back_to_front)
        BY <4>1, <1>5, Joined
      <4> QED BY <4>2 DEF first
    <3> QED BY <3>2, <2>6, <1>5
  <2>10. Range(one) \intersect Range(<<d>>) = {}
    BY <2>2, <2>7, <2>8, <2>9, <1>3
  <2> HIDE DEF one
  <2>11. /\ one \o <<d>> \in Seq(Block) /\ IsInjective(one \o <<d>>)
         /\ Range(one \o <<d>>) = Range(one) \union {d}
    <3> DEFINE final == <<d>>
    <3>0. /\ final \in Seq(Block) /\ IsInjective(final) /\ Range(one) \intersect Range(final) = {}
      BY <2>7, <2>10
    <3> HIDE DEF final
    <3>1. /\ one \o final \in Seq(Block) /\ IsInjective(one \o final)
          /\ Range(one \o final) = Range(one) \union Range(final)
      BY <2>9, <3>0, Joined
    <3> USE DEF final
    <3> QED BY <3>1, <2>7
  <2>12. LastBlocks = one \o <<d>>
    BY <1>4, <1>7 DEF one, p, d
  <2>13. InFront(p)
    <3>1. d \in Range(LastBlocks)
      BY <2>11, <2>12
    <3> QED BY <3>1, <2>2, <2>4 DEF InFront, p
  <2>14. ASSUME NEW b \in Range(LastBlocks) PROVE graph.out[b] = << >> \/ InFront(b)
    <3>1. b = p \/ b \in Range(live) \/ b = d
      BY <2>9, <2>11, <2>12
    <3> QED BY <3>1, <2>2, <2>13, <1>1, <1>3
  <2> QED BY <2>11, <2>12, <2>14
<1> QED BY <1>6, <1>7

\* When the queue is empty everything is placed, but for the two reasons.
LEMMA AllPlaced ==
  ASSUME Walked, PlaceInv, q = << >>, ~Relabeled, ~SetAside
  PROVE  mark = Block
<1> DEFINE left == Block \ mark
<1>1. mark \subseteq Block
  BY LastBlocksAre DEF PlaceInv, Range
<1> SUFFICES ASSUME left # {} PROVE FALSE
  BY <1>1
<1>2. Range(q) = {}
  BY DEF Range
<1>3. PICK s \in left : \A x \in left : dfnum[s] <= dfnum[x]
  <2> DEFINE numbers == {dfnum[x] + 1 : x \in left}
  <2>1. \A x \in Block : dfnum[x] \in Int /\ dfnum[x] + 1 \in Nat
    BY Numbers
  <2>2. numbers \in SUBSET Nat /\ numbers # {}
    BY <2>1
  <2>3. PICK n \in numbers : \A m \in numbers : n <= m
    <3> HIDE DEF numbers
    <3> QED BY <2>2, Smallest
  <2>4. PICK s \in left : n = dfnum[s] + 1
    OBVIOUS
  <2>5. ASSUME NEW x \in left PROVE dfnum[s] <= dfnum[x]
    <3>1. n <= dfnum[x] + 1
      BY <2>3
    <3> QED BY <3>1, <2>1, <2>4
  <2> QED BY <2>5
<1>4. s \in Block /\ s \notin mark /\ s # 0
  BY <1>2, <1>3 DEF PlaceInv
<1>5. PICK p \in Block : s \in succs[p] /\ dfnum[p] < dfnum[s]
  BY <1>4 DEF Walked, Numbered
<1>6. p \in mark
  <2>1. dfnum[p] \in Int /\ dfnum[s] \in Int
    BY <1>4, <1>5, Numbers
  <2> QED BY <2>1, <1>3, <1>5
<1>7. CASE p \in Range(blks)
  <2>1. incoming_forward_branches(s, mark) # {}
    BY <1>2, <1>4, <1>5, <1>7 DEF PlaceInv
  <2>2. PICK i \in DOMAIN graph.in[s] : forward \in graph.in[s][i].label /\ graph.in[s][i].point \notin mark
    BY <2>1 DEF incoming_forward_branches
  <2> DEFINE x == graph.in[s][i].point
             j == graph.in[s][i].rev
  <2>3. /\ x \in Block /\ x \notin mark /\ j \in DOMAIN graph.out[x]
        /\ graph.out[x][j].point = s /\ graph.out[x][j].label = graph.in[s][i].label
    <3>1. Walked /\ s \in Block /\ i \in DOMAIN graph.in[s]
      BY <1>4
    <3> HIDE DEF x, j
    <3>2. x = graph.in[s][i].point /\ j = graph.in[s][i].rev
      BY DEF x, j
    <3>3. OtherHalf(s, i, x, j)
      BY ONLY <3>1, <3>2, InEdge
    <3>4. x \notin mark
      BY <2>2 DEF x
    <3> QED BY <3>3, <3>4 DEF OtherHalf
  <2> HIDE DEF x, j
  <2>4. Onward(x, j)
    BY <2>3 DEF Walked, OnwardInv
  <2>5. dfnum[s] <= dfnum[x] /\ dfnum[s] \in Int /\ dfnum[x] \in Int
    BY <2>3, <1>3, <1>4, Numbers
  <2>6. graph.in[s][i].label \intersect {back, cross} # {}
    BY <2>3, <2>4, <2>5 DEF Onward
  <2> QED BY <2>2, <2>6, <1>4 DEF Relabeled
<1>8. CASE p \in Range(LastBlocks)
  <2>1. InFront(p)
    BY <1>5, <1>8, LastBlocksAre, OutsAre DEF succs, Successors
  <2>2. PICK d \in Range(exitlist) \intersect Range(LastBlocks) :
          noreturn(d) /\ \E i \in DOMAIN graph.in[d] : graph.in[d][i].point = p
    BY <2>1 DEF InFront
  <2>3. PICK i \in DOMAIN graph.in[d] : graph.in[d][i].point = p
    BY <2>2
  <2>4. d \in Block /\ d \in mark /\ d # s
    BY <2>2, <1>1, <1>4 DEF PlaceInv
  <2>5. d \in succs[p]
    BY <2>3, <2>4, InEdge DEF OtherHalf
  <2>6. /\ d \in Range(outs(p)) /\ s \in Range(outs(p)) /\ outs(p) \in Seq(Block) /\ Len(outs(p)) \in Nat
    BY <2>5, <1>5, OutsAre
  <2>7. PICK k, l \in DOMAIN outs(p) : outs(p)[k] = d /\ outs(p)[l] = s
    BY <2>6 DEF Range
  <2>8. k # l /\ k \in 1 .. Len(outs(p)) /\ l \in 1 .. Len(outs(p))
    BY <2>4, <2>6, <2>7
  <2>9. Len(outs(p)) > 1
    BY <2>6, <2>8
  <2> QED BY <2>2, <2>3, <2>9 DEF SetAside
<1> QED BY <1>6, <1>7, <1>8 DEF PlaceInv

\* What sort_blocks reads stands while it runs.
LEMMA OrderStands ==
  ASSUME prog' = prog, graph' = graph, exitlist' = exitlist
  PROVE  /\ LastBlocks' = LastBlocks /\ succs' = succs
         /\ (Relabeled' <=> Relabeled) /\ (SetAside' <=> SetAside)
         /\ \A s : incoming_forward_branches(s, mark)' = incoming_forward_branches(s, mark')
<1>1. succs' = succs
  BY DEF succs, Successors
<1>2. \A d : (noreturn(d)' <=> noreturn(d)) /\ outs(d)' = outs(d)
  BY DEF noreturn, outs
<1>3. LastBlocks' = LastBlocks
  BY DEF LastBlocks
<1>4. Relabeled' <=> Relabeled
  BY DEF Relabeled
<1>5. SetAside' <=> SetAside
  BY <1>2 DEF SetAside
<1> QED BY <1>1, <1>3, <1>4, <1>5 DEF incoming_forward_branches

LEMMA PlaceStarts ==
  ASSUME Walked, SortInv, StartSort
  PROVE  SortInv'
<1>1. /\ blks = << >> /\ blks' = blks /\ q' = <<blist[1]>> /\ mark' = Range(LastBlocks) /\ phase' = "place"
      /\ prog' = prog /\ graph' = graph /\ exitlist' = exitlist
  BY DEF SortInv, StartSort, livevars, dfsvars
<1>2. LastBlocks' = LastBlocks
  BY <1>1, OrderStands
<1>3. 0 \in Block /\ blist[1] = 0
  BY BlockAssumption DEF Walked, TreeTypes
<1>4. Range(blks') = {} /\ blks' \in Seq(Block) /\ IsInjective(blks')
  BY <1>1 DEF Range, IsInjective
<1>5. q' \in Seq(Block) /\ 0 \in Range(q')
  BY <1>1, <1>3 DEF Range
<1>6. PlaceInv'
  BY <1>1, <1>2, <1>4, <1>5 DEF PlaceInv
<1> QED BY <1>1, <1>6 DEF SortInv

\* What is not put in the queue behind a block has a forward edge from one that is not placed.
LEMMA PlaceGoesOn ==
  ASSUME Walked, PlaceInv, PlaceBlock
  PROVE  PlaceInv'
<1> DEFINE b == Head(q)
           ready == {s \in Block : incoming_forward_branches(s, mark') = {}}
           next == Sublist(outs(b), ready)
<1>1. /\ prog' = prog /\ graph' = graph /\ exitlist' = exitlist
      /\ \/ b \in mark /\ q' = Tail(q) /\ blks' = blks /\ mark' = mark
         \/ /\ b \notin mark /\ blks' = Append(blks, b) /\ mark' = mark \union {b}
            /\ q' = Tail(q) \o next
  BY DEF PlaceBlock, livevars, treevars, dfsvars
<1>2. /\ LastBlocks' = LastBlocks /\ succs' = succs
      /\ \A s : incoming_forward_branches(s, mark)' = incoming_forward_branches(s, mark')
  BY <1>1, OrderStands
<1>3. q # << >> /\ q \in Seq(Block)
  BY DEF PlaceBlock, PlaceInv
<1>4. b \in Block /\ Tail(q) \in Seq(Block) /\ Range(q) = Range(Tail(q)) \union {b}
  <2>1. b = q[1] /\ Len(q) \in Nat /\ Len(q) > 0 /\ DOMAIN q = 1 .. Len(q)
    BY <1>3
  <2>2. /\ Tail(q) \in Seq(Block) /\ DOMAIN Tail(q) = 1 .. Len(q) - 1
        /\ \A n \in 1 .. Len(q) - 1 : Tail(q)[n] = q[n + 1]
    BY <1>3
  <2>3. b \in Block /\ b \in Range(q)
    BY <1>3, <2>1 DEF Range
  <2>4. ASSUME NEW e \in Range(q), e # b PROVE e \in Range(Tail(q))
    <3>1. PICK n \in 1 .. Len(q) : q[n] = e
      BY <2>1 DEF Range
    <3>2. n - 1 \in 1 .. Len(q) - 1 /\ Tail(q)[n - 1] = e
      BY <3>1, <2>1, <2>2, <2>4
    <3> QED BY <3>2, <2>2 DEF Range
  <2>5. ASSUME NEW e \in Range(Tail(q)) PROVE e \in Range(q)
    <3>1. PICK n \in 1 .. Len(q) - 1 : Tail(q)[n] = e
      BY <2>2 DEF Range
    <3>2. n + 1 \in 1 .. Len(q) /\ q[n + 1] = e
      BY <3>1, <2>1, <2>2
    <3> QED BY <3>2, <2>1 DEF Range
  <2> QED BY <2>2, <2>3, <2>4, <2>5
<1>5. CASE b \in mark
  <2>1. mark' = mark /\ q' = Tail(q) /\ blks' = blks
    BY <1>1, <1>5
  <2>2. mark' \union Range(q') = mark \union Range(q)
    BY <2>1, <1>4, <1>5
  <2>3. \A s : incoming_forward_branches(s, mark)' = incoming_forward_branches(s, mark)
    BY <2>1, <1>1 DEF incoming_forward_branches
  <2>4. q' \in Seq(Block)
    BY <2>1, <1>4
  <2>5. ASSUME NEW c \in Range(blks'), NEW s \in succs'[c] \ (mark' \union Range(q'))
        PROVE  incoming_forward_branches(s, mark)' # {}
    <3>1. c \in Range(blks) /\ s \in succs[c] \ (mark \union Range(q))
      BY <2>1, <2>2, <1>2
    <3> QED BY <3>1, <2>3 DEF PlaceInv
  <2>6. /\ blks' \in Seq(Block) /\ IsInjective(blks') /\ 0 \in mark' \union Range(q')
        /\ Range(blks') \intersect Range(LastBlocks') = {}
        /\ mark' = Range(blks') \union Range(LastBlocks')
    BY <2>1, <2>2, <1>2 DEF PlaceInv
  <2> QED BY <2>4, <2>5, <2>6 DEF PlaceInv
<1>6. CASE b \notin mark
  <2>1. blks' = Append(blks, b) /\ mark' = mark \union {b} /\ q' = Tail(q) \o next
    BY <1>1, <1>6
  <2>2. outs(b) \in Seq(Block) /\ Range(outs(b)) = succs[b]
    BY <1>4, OutsAre
  <2> HIDE DEF ready, b
  <2>3. next \in Seq(Block) /\ Range(next) = succs[b] \intersect ready
    BY <2>2, SublistOf
  <2> HIDE DEF next
  <2>4. q' \in Seq(Block) /\ Range(q') = Range(Tail(q)) \union Range(next)
    <3>1. \A s, t \in Seq(Block) : s \o t \in Seq(Block) /\ Range(s \o t) = Range(s) \union Range(t)
      BY ConcatProperties, RangeConcatenation
    <3> QED BY <2>1, <2>3, <1>4, <3>1
  <2>5. /\ blks' \in Seq(Block) /\ Range(blks') = Range(blks) \union {b} /\ IsInjective(blks')
    BY <2>1, <1>4, <1>6, Appended DEF PlaceInv
  <2>6. /\ Range(blks') \intersect Range(LastBlocks) = {}
        /\ mark' = Range(blks') \union Range(LastBlocks)
        /\ 0 \in mark' \union Range(q')
    BY <2>1, <2>4, <2>5, <1>4, <1>6 DEF PlaceInv
  <2>7. ASSUME NEW c \in Range(blks'), NEW s \in succs[c] \ (mark' \union Range(q'))
        PROVE  incoming_forward_branches(s, mark') # {}
    <3>1. c \in Block /\ s \in Block
      <4>1. c \in Block
        BY <2>5 DEF Range
      <4>2. outs(c) \in Seq(Block) /\ Range(outs(c)) = succs[c]
        BY <4>1, OutsAre
      <4> QED BY <4>1, <4>2 DEF Range
    <3>2. CASE c = b
      BY <3>1, <3>2, <2>3, <2>4 DEF ready
    <3>3. CASE c # b
      <4>1. s \in succs[c] \ (mark \union Range(q)) /\ c \in Range(blks) /\ s # b
        BY <3>3, <2>1, <2>4, <2>5, <1>4
      <4>2. PICK i \in DOMAIN graph.in[s] : forward \in graph.in[s][i].label /\ graph.in[s][i].point \notin mark
        BY <4>1 DEF PlaceInv, incoming_forward_branches
      <4>3. CASE graph.in[s][i].point # b
        BY <4>2, <4>3, <2>1 DEF incoming_forward_branches
      <4>4. CASE graph.in[s][i].point = b
        <5>1. s \in succs[b]
          BY <4>4, <3>1, InEdge DEF OtherHalf
        <5> QED BY <5>1, <3>1, <2>3, <2>4 DEF ready
      <4> QED BY <4>3, <4>4
    <3> QED BY <3>2, <3>3
  <2> QED BY <1>2, <2>4, <2>5, <2>6, <2>7 DEF PlaceInv
<1> QED BY <1>5, <1>6

LEMMA PlaceEnds ==
  ASSUME Walked, PlaceInv, EndSort
  PROVE  SortInv'
<1>1. /\ q = << >> /\ blks' = blks \o LastBlocks
      /\ phase' = IF Len(blks \o LastBlocks) = Cardinality(Block) THEN "emit" ELSE "crash"
      /\ prog' = prog /\ graph' = graph /\ exitlist' = exitlist
  BY DEF EndSort, livevars, dfsvars
<1>2. /\ blks \in Seq(Block) /\ IsInjective(blks) /\ Range(blks) \intersect Range(LastBlocks) = {}
      /\ mark = Range(blks) \union Range(LastBlocks)
  BY DEF PlaceInv
<1>3. LastBlocks \in Seq(Block) /\ IsInjective(LastBlocks)
  BY LastBlocksAre
<1>4. /\ blks \o LastBlocks \in Seq(Block) /\ IsInjective(blks \o LastBlocks)
      /\ Range(blks \o LastBlocks) = Range(blks) \union Range(LastBlocks)
  <2> HIDE DEF LastBlocks
  <2> QED BY <1>2, <1>3, Joined
<1>5. Len(blks \o LastBlocks) = Cardinality(Block) <=> mark = Block
  BY <1>2, <1>4, Blocks, Enumerated
<1>6. CASE mark = Block
  BY <1>1, <1>2, <1>4, <1>5, <1>6 DEF SortInv
<1>7. CASE mark # Block
  <2>1. Relabeled \/ SetAside
    BY <1>1, <1>7, AllPlaced
  <2>2. phase' = "crash" /\ (Relabeled \/ SetAside)'
    BY <2>1, <1>1, <1>5, <1>7, OrderStands
  <2> QED BY <2>2 DEF SortInv
<1> QED BY <1>6, <1>7

\* Later the list stands.
LEMMA SortStands ==
  ASSUME SortInv, prog' = prog, graph' = graph, exitlist' = exitlist, blks' = blks,
         \/ phase' = phase /\ q' = q /\ mark' = mark
         \/ {phase, phase'} \subseteq {"emit", "vldr", "fix", "finished", "error"}
  PROVE  SortInv'
<1>1. /\ LastBlocks' = LastBlocks /\ succs' = succs
      /\ (Relabeled' <=> Relabeled) /\ (SetAside' <=> SetAside)
      /\ \A s : incoming_forward_branches(s, mark)' = incoming_forward_branches(s, mark')
  BY OrderStands
<1>2. q' = q /\ mark' = mark /\ PlaceInv => PlaceInv'
  BY <1>1 DEF PlaceInv
<1> QED BY <1>1, <1>2 DEF SortInv

(***************************************************************************)
(* The run of thumb_gen                                                    *)
(***************************************************************************)
Structuring == {"edit", "tree", "done"}

LiveInv ==
  /\ prog \in Functions
  /\ phase \in Structuring => live_in = [p \in Places |-> {}] /\ live_out = [p \in Places |-> {}]
  /\ phase = "live" => SweepInv
  /\ phase \in Structuring \union {"live"} => allocated = [p \in Places |-> << >>]
  /\ phase \notin Structuring \union {"live"} => /\ live_in \in [Places -> SUBSET Reg]
                                                 /\ AllLive /\ Handouts
  /\ LiveSetsExact

Inv == TreeInv /\ LiveInv /\ SortInv

LEMMA GenStarts ==
  ASSUME GenInit
  PROVE  Inv
<1>1. prog \in Functions /\ TreeInitOf(prog.succ)
  BY DEF GenInit, LiveInit
<1>2. TreeInv
  BY <1>1, LiveAssumption, TreeInvStarts
<1>3. phase = "edit"
  BY <1>1 DEF TreeInitOf
<1>4. SortInv
  BY <1>3 DEF GenInit, SortInv
<1> QED BY <1>1, <1>2, <1>3, <1>4 DEF Inv, LiveInv, GenInit, LiveInit, Structuring, LiveSetsExact

\* While structure_reset runs there are no live sets.
LEMMA StructureSteps ==
  ASSUME Inv, Structure, UNCHANGED <<livevars, genvars>>
  PROVE  Inv'
<1>1. prog' = prog /\ live_in' = live_in /\ live_out' = live_out /\ allocated' = allocated /\ blks' = blks
  BY DEF livevars, genvars
<1>2. phase \in Structuring /\ phase' \in Structuring
  BY DEF Structure, Decided, RemoveEdge, StartTree, Discover, Classify, Finish, Take, EndTree, Structuring
<1>3. Places' = Places
  BY <1>1 DEF Places, body
<1>4. TreeInv'
  <2>1. CASE Decided
    <3>1. PICK b \in Block : \E s \in succs[b] : RemoveEdge(b, s)
      BY <2>1 DEF Decided
    <3>2. succs[b] \subseteq Block
      BY SuccessorsType DEF Inv, TreeInv, TreeTypes, TypeOK, succs
    <3>3. Edit
      BY <3>1, <3>2 DEF Edit
    <3> QED BY <3>3, TreeInvEdited DEF Inv
  <2>2. CASE StartTree \/ Discover \/ Classify \/ Finish
    BY <2>2, TreeInvWalks DEF Inv
  <2>3. CASE EndTree("done")
    BY <2>3, TreeInvEnds DEF Inv
  <2> QED BY <2>1, <2>2, <2>3 DEF Structure
<1>5. LiveInv'
  <2>1. live_in' = [p \in Places' |-> {}] /\ live_out' = [p \in Places' |-> {}] /\ allocated' = [p \in Places' |-> << >>]
    BY <1>1, <1>2, <1>3 DEF Inv, LiveInv
  <2>2. phase' # "live" /\ phase' # "sort"
    BY <1>2 DEF Structuring
  <2> QED BY <2>1, <2>2, <1>1, <1>2 DEF Inv, LiveInv, LiveSetsExact
<1>6. SortInv'
  BY <1>1, <1>2 DEF Inv, SortInv, Structuring
<1> QED BY <1>4, <1>5, <1>6 DEF Inv

LEMMA SetsSteps ==
  ASSUME Inv, Sets, UNCHANGED genvars
  PROVE  Inv'
<1>1. /\ prog' = prog /\ allocated' = allocated /\ blks' = blks /\ UNCHANGED <<graph, edits, dfsvars>>
      /\ phase \in {"done", "live"} /\ phase' \in {"live", "sort"}
  BY DEF Sets, StartSets, LookAtOp, EndSets, livevars, genvars, treevars, Done
<1>2. TreeInv'
  BY <1>1, TreeInvStands DEF Inv
<1>3. TreeTypes /\ Numbered /\ prog \in Functions
  BY <1>1 DEF Inv, TreeInv, LiveInv
<1>4. allocated' = [p \in Places' |-> << >>] /\ Places' = Places
  BY <1>1 DEF Inv, LiveInv, Structuring, Places, body
<1>5. \/ phase' = "live" /\ SweepInv'
      \/ phase' = "sort" /\ LiveSetsExact' /\ AllLive' /\ live_in' \in [Places' -> SUBSET Reg]
  <2>1. CASE StartSets
    <3>1. live_in = [p \in Places |-> {}] /\ live_out = [p \in Places |-> {}] /\ phase' = "live"
      BY <2>1, <1>1 DEF Inv, LiveInv, StartSets, Structuring, Done
    <3> QED BY <3>1, <2>1, <1>3, SetsStart
  <2>2. CASE LookAtOp
    <3>1. SweepInv /\ phase' = "live"
      BY <2>2 DEF Inv, LiveInv, LookAtOp, treevars
    <3> QED BY <3>1, <2>2, <1>3, LookAtOpSweeps
  <2>3. CASE EndSets
    <3>1. SweepInv
      BY <2>3 DEF Inv, LiveInv, EndSets
    <3> QED BY <3>1, <2>3, <1>3, SetsEnd
  <2> QED BY <2>1, <2>2, <2>3 DEF Sets
<1>6. Handouts'
  <2>1. \A p \in Places : allocated'[p] = << >>
    BY <1>4
  <2>2. allocated' \in [Places -> Seq(Core)]
    BY <1>4
  <2>3. IsInjective(<< >>) /\ DOMAIN << >> = {}
    BY DEF IsInjective
  <2> QED BY <2>1, <2>2, <2>3, <1>4 DEF Handouts
<1>7. LiveSetsExact'
  BY <1>5 DEF LiveSetsExact
<1>8. SortInv'
  BY <1>1 DEF Inv, SortInv
<1> QED BY <1>1, <1>2, <1>3, <1>4, <1>5, <1>6, <1>7, <1>8 DEF Inv, LiveInv, Structuring

LEMMA InstructionsAtOps ==
  ASSUME Instructions
  PROVE  prog' = prog /\ UNCHANGED <<graph, edits, dfsvars, blks>> /\ phase = "emit"
<1>1. \A kind : AtOp(kind) => prog' = prog /\ UNCHANGED <<graph, edits, dfsvars, blks>> /\ phase = "emit"
  BY DEF AtOp
<1>2. /\ EmitCopy => AtOp("copy")
      /\ EmitCall => AtOp("call")
      /\ EmitMov => AtOp("mov")
      /\ EmitCmp => AtOp("cmp")
  BY Zenon DEF EmitCopy, EmitCall, EmitMov, EmitCmp
<1>3. /\ EmitUse => AtOp("use")
      /\ EmitVldr => AtOp("vldr")
  BY Zenon DEF EmitUse, EmitVldr
<1>4. EmitAddPc => AtOp("addpc")
  BY DEF EmitAddPc
<1> QED BY <1>1, <1>2, <1>3, <1>4 DEF Instructions

\* The instructions that hand out registers, and those that hand out none.
LEMMA InstructionSteps ==
  ASSUME live_in \in [Places -> SUBSET Reg], AllLive, Handouts, Instructions
  PROVE  /\ prog' = prog /\ UNCHANGED <<graph, edits, dfsvars>>
         /\ phase = "emit" /\ phase' \in {"emit", "error"}
         /\ live_in' \in [Places -> SUBSET Reg] /\ AllLive' /\ Handouts'
<1>1. prog' = prog /\ UNCHANGED <<graph, edits, dfsvars>> /\ phase = "emit"
  BY InstructionsAtOps
<1>2. \A list : Emit(list) => phase' = phase \/ phase' = "error"
  BY DEF Emit
<1>3. ASSUME prog' = prog, graph' = graph, live_in' = live_in, allocated' = allocated
      PROVE  live_in' \in [Places -> SUBSET Reg] /\ AllLive' /\ Handouts'
  <2>1. Places' = Places /\ \A p, r : TrulyLive(p, r)' <=> TrulyLive(p, r)
    BY <1>3, LiveStands
  <2> QED BY <2>1, <1>3 DEF AllLive, Handouts
<1>4. CASE EmitCopy \/ EmitCall \/ EmitMov \/ EmitAddPc \/ EmitVldr
  <2> DEFINE Goal == (phase' = phase \/ phase' = "error") /\ live_in' = live_in /\ allocated' = allocated
  <2>1. EmitCopy \/ EmitVldr => Goal
    BY Zenon DEF EmitCopy, EmitVldr
  <2>2. EmitCall \/ EmitMov => Goal
    BY <1>2, Zenon DEF EmitCall, EmitMov
  <2>3. EmitAddPc => Goal
    BY <1>2 DEF EmitAddPc
  <2> QED BY <2>1, <2>2, <2>3, <1>1, <1>3, <1>4
<1>5. CASE EmitCmp \/ EmitUse
  <2>2. /\ phase' = phase \/ phase' = "error"
        /\ \/ live_in' = live_in /\ allocated' = allocated
           \/ Cardinality(FreeRegs(place)) >= 1 /\ regalloc(1)
           \/ Cardinality(FreeRegs(place)) >= 2 /\ regalloc(2)
    BY <1>5, <1>2 DEF EmitCmp, EmitUse, NoRegister
  <2>3. ASSUME NEW n \in Nat, Cardinality(FreeRegs(place)) >= n, regalloc(n)
        PROVE  live_in' \in [Places -> SUBSET Reg] /\ AllLive' /\ Handouts'
    BY <1>1, <2>3, RegallocHandsOut
  <2>4. live_in' \in [Places -> SUBSET Reg] /\ AllLive' /\ Handouts'
    BY <2>2, <2>3, <1>1, <1>3
  <2> QED BY <2>2, <2>4, <1>1
<1> QED BY <1>4, <1>5 DEF Instructions

LEMMA GenerateSteps ==
  ASSUME Inv, Generate
  PROVE  Inv'
<1>1. /\ prog' = prog /\ UNCHANGED <<graph, edits, dfsvars>>
      /\ phase \notin Structuring \union {"live"} /\ phase' \notin Structuring \union {"live", "sort"}
      /\ Instructions \/ (live_in' = live_in /\ allocated' = allocated)
  <2>1. CASE StartSort \/ PlaceBlock \/ EndSort
    BY <2>1 DEF StartSort, PlaceBlock, EndSort, livevars, treevars, Structuring
  <2>2. CASE EndExit \/ EndBlock
    BY <2>2 DEF EndExit, EndBlock, NextBlock, livevars, Structuring
  <2>3. CASE fix_vldr
    BY <2>3 DEF fix_vldr, NextBlock, livevars, Structuring
  <2>4. CASE Fix \/ Finished
    BY <2>4 DEF Fix, Finished, livevars, genvars, Structuring
  <2>5. CASE Instructions
    <3>1. phase = "emit"
      BY <2>5, InstructionsAtOps
    <3>2. live_in \in [Places -> SUBSET Reg] /\ AllLive /\ Handouts
      BY <3>1 DEF Inv, LiveInv, Structuring
    <3>3. prog' = prog /\ UNCHANGED <<graph, edits, dfsvars>> /\ phase' \in {"emit", "error"}
      BY <3>2, <2>5, InstructionSteps
    <3> QED BY <2>5, <3>1, <3>3 DEF Structuring
  <2> QED BY <2>1, <2>2, <2>3, <2>4, <2>5 DEF Generate
<1>2. TreeInv'
  BY <1>1, TreeInvStands DEF Inv, Structuring
<1>3. live_in \in [Places -> SUBSET Reg] /\ AllLive /\ Handouts /\ prog \in Functions
  BY <1>1 DEF Inv, LiveInv
<1>4. Places' = Places /\ \A p, r : TrulyLive(p, r)' <=> TrulyLive(p, r)
  BY <1>1, LiveStands
<1>5. live_in' \in [Places -> SUBSET Reg] /\ AllLive' /\ Handouts'
  <2>1. CASE Instructions
    BY <2>1, <1>3, InstructionSteps
  <2>2. CASE live_in' = live_in /\ allocated' = allocated
    BY <2>2, <1>3, <1>4 DEF AllLive, Handouts
  <2> QED BY <2>1, <2>2, <1>1
<1>6. LiveSetsExact'
  BY <1>1 DEF LiveSetsExact
<1>7. SortInv'
  <2>1. prog' = prog /\ graph' = graph /\ exitlist' = exitlist
    BY <1>1 DEF dfsvars
  <2>2. phase \notin {"edit", "tree"} => Walked
    BY <1>1 DEF Walked, Inv, TreeInv, LiveInv
  <2>3. SortInv
    BY DEF Inv
  <2>4. CASE StartSort
    BY <2>2, <2>3, <2>4, PlaceStarts DEF StartSort
  <2>5. CASE PlaceBlock
    <3>1. phase = "place" /\ phase' = "place" /\ PlaceInv
      BY <2>3, <2>5 DEF PlaceBlock, treevars, SortInv
    <3> QED BY <2>2, <2>5, <3>1, PlaceGoesOn DEF SortInv
  <2>6. CASE EndSort
    BY <2>2, <2>3, <2>6, PlaceEnds DEF EndSort, SortInv
  <2>7. CASE ~(StartSort \/ PlaceBlock \/ EndSort)
    <3>1. blks' = blks /\ {phase, phase'} \subseteq {"emit", "vldr", "fix", "finished", "error"}
      <4>1. CASE EndExit \/ EndBlock
        BY <4>1 DEF EndExit, EndBlock, NextBlock
      <4>2. CASE fix_vldr
        BY <4>2 DEF fix_vldr, NextBlock
      <4>3. CASE Fix \/ Finished
        BY <4>3 DEF Fix, Finished, genvars
      <4>4. CASE Instructions
        BY <4>4, <1>3, InstructionsAtOps, InstructionSteps
      <4> QED BY <2>7, <4>1, <4>2, <4>3, <4>4 DEF Generate
    <3> QED BY <2>1, <2>3, <3>1, SortStands
  <2> QED BY <2>4, <2>5, <2>6, <2>7
<1> QED BY <1>1, <1>2, <1>3, <1>4, <1>5, <1>6, <1>7 DEF Inv, LiveInv, Structuring

LEMMA GenStutters ==
  ASSUME Inv, UNCHANGED allvars
  PROVE  Inv'
<1>1. /\ UNCHANGED treevars /\ graph' = graph /\ phase' = phase /\ blist' = blist /\ index' = index
      /\ prog' = prog /\ live_in' = live_in /\ live_out' = live_out /\ setschanged' = setschanged
      /\ bpos' = bpos /\ opos' = opos /\ allocated' = allocated
      /\ exitlist' = exitlist /\ blks' = blks /\ q' = q /\ mark' = mark
  BY DEF allvars, treevars, dfsvars, livevars, genvars
<1>2. TreeInv'
  BY <1>1, TreeInvStutters DEF Inv
<1>3. /\ Places' = Places /\ body' = body /\ succs' = succs
      /\ \A p : /\ Behind(p)' = Behind(p) /\ live_gen(p)' = live_gen(p) /\ live_kill(p)' = live_kill(p)
                /\ AtReturn(p)' <=> AtReturn(p)
      /\ \A b : (is_end(b)' <=> is_end(b)) /\ (noreturn(b)' <=> noreturn(b))
      /\ \A p, r : TrulyLive(p, r)' <=> TrulyLive(p, r)
  BY <1>1, LiveStands
<1>4. SweepInv => SweepInv'
  <2>1. /\ SweepTypes => SweepTypes'
        /\ OnlyLive => OnlyLive'
        /\ Passed' = Passed
    BY <1>1, <1>3 DEF SweepTypes, OnlyLive, MayNeed, Passed
  <2>2. \A p : LiveOut(p)' = LiveOut(p)
    BY <1>1, <1>3 DEF LiveOut
  <2>3. \A p : NewIn(p)' = NewIn(p)
    BY <1>3, <2>2 DEF NewIn
  <2>4. Settled => Settled'
    BY <1>1, <2>1, <2>2, <2>3 DEF Settled
  <2> QED BY <2>1, <2>4 DEF SweepInv
<1>5. (AllLive => AllLive') /\ (Handouts => Handouts') /\ (LiveSetsExact => LiveSetsExact')
  BY <1>1, <1>3 DEF AllLive, Handouts, LiveSetsExact
<1>6. SortInv'
  BY <1>1, SortStands DEF Inv
<1> QED BY <1>1, <1>2, <1>3, <1>4, <1>5, <1>6 DEF Inv, LiveInv

LEMMA GenSteps ==
  ASSUME Inv, [GenNext]_allvars
  PROVE  Inv'
BY StructureSteps, SetsSteps, GenerateSteps, GenStutters DEF GenNext

LEMMA GenInvariant == GenSpec => []Inv
<1> QED BY GenStarts, GenSteps, PTL DEF GenSpec

\* compute_global_live_sets_p (block.cc): when the sweeps end, the set in front of an op holds
\* the registers that are live there and no others, whatever the function, its calls and exits.
THEOREM LiveSetsCorrect == GenSpec => []LiveSetsExact
<1>1. Inv => LiveSetsExact
  BY DEF Inv, LiveInv
<1> QED BY <1>1, GenInvariant, PTL

\* regalloc (thumb_gen.cc) never hands out a register whose value is still needed, nor the same
\* one twice at an op, whatever the number of registers.
THEOREM ScratchCorrect == GenSpec => []ScratchIsFree
<1>1. Inv => ScratchIsFree
  <2> SUFFICES ASSUME Inv PROVE ScratchIsFree
    OBVIOUS
  <2>1. CASE phase \in Structuring \union {"live"}
    <3>1. \A p \in Places : allocated[p] = << >>
      BY <2>1 DEF Inv, LiveInv
    <3>2. IsInjective(<< >>) /\ DOMAIN << >> = {}
      BY DEF IsInjective
    <3> QED BY <3>1, <3>2 DEF ScratchIsFree
  <2>2. CASE phase \notin Structuring \union {"live"}
    BY <2>2 DEF Inv, LiveInv, Handouts, ScratchIsFree
  <2> QED BY <2>1, <2>2
<1> QED BY <1>1, GenInvariant, PTL

\* codegen::sort_blocks: no block is left out of the code, but for a forward label from an earlier
\* walk, or a block that is set aside with an exit that does not return and has other successors.
THEOREM BlocksAreSorted == GenSpec => []BlocksPlaced
<1>1. Inv => BlocksPlaced
  BY DEF Inv, SortInv, BlocksPlaced
<1> QED BY <1>1, GenInvariant, PTL

(***************************************************************************)
(* The code.  A block has code from its first instruction on, and is       *)
(* closed when its branches are written.                                   *)
(***************************************************************************)
Jumps == {"bcond", "b"}
Writing == {"emit", "vldr", "fix", "finished"}

\* The out edge that a branch stands for.
Taken(g, i) == g.out[i.place[1]][IF i.kind = "bcond" THEN 2 ELSE 1].point

\* The branch i goes to the address.
Aimed(i, addr) ==
  /\ i.kind = "bcond" => i.arg = encbranch(i.at, addr) /\ ~TooFar(i.at, addr)
  /\ i.kind = "b" => i.arg = encbranch2(i.at, addr)

Mine(c, b) == {n \in DOMAIN c : c[n].place[1] = b /\ c[n].kind # "data"}
HasCode(k) == k < bi \/ (k = bi /\ oi > 1)
IsClosed(k) == k < bi \/ (k = bi /\ phase = "vldr")

Even(n) == n \in Nat /\ n % 2 = 0

\* What is written is a record with these fields.
Item(i) == i = [kind |-> i.kind, size |-> i.size, arg |-> i.arg, place |-> i.place, at |-> i.at]

CodeTypes ==
  /\ code \in Seq(Range(code)) /\ blks \in Seq(Block) /\ IsInjective(blks) /\ Range(blks) = Block
  /\ bi \in Nat \ {0} /\ oi \in Nat \ {0} /\ bi <= Len(blks) + 1
  /\ phase \in {"emit", "vldr"} <=> bi <= Len(blks)
  /\ phase = "vldr" => oi > 1
  /\ Even(ind) /\ Start <= ind
  /\ cg \in [Block -> Nat]
  /\ \A n \in DOMAIN code :
       /\ Item(code[n]) /\ Even(code[n].at) /\ Start <= code[n].at
       /\ code[n].size \in Nat /\ code[n].at + code[n].size <= ind

\* A block with code begins where cg says.
StartsInv ==
  /\ \A n \in DOMAIN code : code[n].kind # "data" =>
       \E k \in 1 .. Len(blks) : HasCode(k) /\ code[n].place[1] = blks[k]
  /\ \A k \in 1 .. Len(blks) :
       IF HasCode(k)
       THEN /\ cg[blks[k]] # 0 /\ Even(cg[blks[k]]) /\ Start <= cg[blks[k]] /\ cg[blks[k]] <= ind
            /\ \E n \in Mine(code, blks[k]) : code[n].at = cg[blks[k]] /\ \A m \in Mine(code, blks[k]) : n <= m
       ELSE cg[blks[k]] = 0

\* Where the code of the k-th block ends, the next one begins that it goes on with.
FallsThrough(k) ==
  /\ k < bi /\ k + 1 <= Len(blks) /\ blks[k + 1] = outs(blks[k])[1]
  /\ \E n \in Mine(code, blks[k]) :
       /\ \A m \in Mine(code, blks[k]) : m <= n
       /\ code[n].at + code[n].size = IF HasCode(k + 1) THEN cg[blks[k + 1]] ELSE ind

\* The last instruction ends where the next one will begin.
TailInv ==
  phase = "emit" /\ oi > 1 => Len(code) \in Mine(code, blk) /\ code[Len(code)].at + code[Len(code)].size = ind

\* The code of the k-th block ends with its branches.
Ends(k) ==
  /\ Len(outs(blks[k])) = 2 => \E n \in Mine(code, blks[k]) : code[n].kind = "bcond"
  /\ (\E n \in Mine(code, blks[k]) : code[n].kind = "b") \/ FallsThrough(k)

EndsInv == \A k \in 1 .. Len(blks) : IsClosed(k) /\ ~is_end(blks[k]) => Ends(k)

\* A branch goes where its edge goes, or waits on the list.
BranchInv ==
  /\ \A n \in DOMAIN code : code[n].kind \in Jumps =>
       /\ code[n].size = 4 /\ Taken(graph, code[n]) \in Block
       /\ \/ \E f \in Range(flist) : f.at = n
          \/ cg[Taken(graph, code[n])] # 0 /\ Aimed(code[n], cg[Taken(graph, code[n])])
  /\ flist \in Seq(Range(flist))
  /\ \A f \in Range(flist) : f.at \in DOMAIN code /\ code[f.at].kind \in Jumps /\ f.to = Taken(graph, code[f.at])
  /\ phase = "finished" => flist = << >>

\* The vldrs that wait for their data.
PoolsInv ==
  /\ pools \in Seq(Nat) /\ (phase = "vldr" => pools # << >>)
  /\ \A v \in Range(pools) :
       /\ v \in DOMAIN code /\ code[v].kind = "vldr"
       /\ code[v].place \in Places /\ op(code[v].place).kind = "vldr"

Blank ==
  /\ code = << >> /\ pools = << >> /\ flist = << >> /\ cg = [b \in Block |-> 0]
  /\ bi = 1 /\ oi = 1 /\ ind = Start

CodeInv ==
  /\ phase \in {"edit", "tree", "done", "live", "sort", "place"} => Blank
  /\ phase \in Writing => CodeTypes /\ StartsInv /\ TailInv /\ EndsInv /\ BranchInv /\ PoolsInv

(***************************************************************************)
(* Lists of instructions                                                   *)
(***************************************************************************)
\* What is written at an op: no branch and no data.
Straight(list) ==
  /\ list \in Seq(Range(list)) /\ list # << >>
  /\ \A n \in DOMAIN list : list[n].kind \notin Jumps \union {"data"} /\ Even(list[n].size)

\* Sums of halfwords are halfwords.
LEMMA EvenSum == \A m, n : Even(m) /\ Even(n) => Even(m + n)
  BY DEF Even

\* A function on 1 .. N is a sequence.
LEMMA MakesSeq ==
  \A N \in Nat : \A f, S : f = [n \in 1 .. N |-> f[n]] /\ (\A n \in 1 .. N : f[n] \in S)
                         => f \in Seq(S) /\ Len(f) = N
  OBVIOUS

\* Offset sums up the sizes.
LEMMA OffsetFacts ==
  ASSUME NEW list, list \in Seq(Range(list)), \A n \in DOMAIN list : list[n].size \in Nat
  PROVE  /\ Offset(list)[0] = 0 /\ \A n \in 0 .. Len(list) : Offset(list)[n] \in Nat
         /\ \A n \in 1 .. Len(list) : Offset(list)[n] = Offset(list)[n - 1] + list[n].size
<1> DEFINE N == Len(list)
           F == [n \in 1 .. N |-> [h \in Nat |-> h + list[n].size]]
           Summed(w) == w = [n \in 0 .. N |-> IF n = 0 THEN 0 ELSE w[n - 1] + list[n].size]
<1>1. N \in Nat /\ DOMAIN list = 1 .. N /\ \A n \in 1 .. N : list[n].size \in Nat
  OBVIOUS
<1>2. F \in [1 .. N -> [Nat -> Nat]] /\ 0 \in Nat
  BY <1>1
<1>3. PICK u : Solves(u, Nat, 0, N, F)
  <2> HIDE DEF F, N
  <2> QED BY <1>1, <1>2, RecursionExists
<1>4. /\ u = [n \in 0 .. N |-> u[n]] /\ \A n \in 0 .. N : u[n] \in Nat
      /\ \A n \in 0 .. N : u[n] = IF n = 0 THEN 0 ELSE F[n][u[n - 1]]
  <2> HIDE DEF F, N
  <2> QED BY <1>3 DEF Solves
<1>5. \A n \in 0 .. N : u[n] = IF n = 0 THEN 0 ELSE u[n - 1] + list[n].size
  <2> SUFFICES ASSUME NEW n \in 0 .. N, n # 0 PROVE u[n] = u[n - 1] + list[n].size
    BY <1>4
  <2>1. n \in 1 .. N /\ n - 1 \in 0 .. N
    BY <1>1
  <2>2. u[n] = F[n][u[n - 1]] /\ u[n - 1] \in Nat
    <3> HIDE DEF F, N
    <3> QED BY <2>1, <1>4
  <2>3. F[n] = [h \in Nat |-> h + list[n].size]
    BY <2>1
  <2> HIDE DEF F, N
  <2> QED BY <2>2, <2>3
<1>6. Summed(u)
  <2> DEFINE v == [n \in 0 .. N |-> IF n = 0 THEN 0 ELSE u[n - 1] + list[n].size]
  <2>1. \A n \in 0 .. N : u[n] = v[n]
    BY <1>5
  <2> HIDE DEF F, N
  <2>2. u = v
    BY <1>4, <2>1
  <2> QED BY <2>2
<1> DEFINE f == CHOOSE w : Summed(w)
<1>7. Summed(f)
  <2> HIDE DEF Summed
  <2> QED BY <1>6
<1>8. Offset(list) = f
  BY DEF Offset
<1> HIDE DEF f, F
<1>9. /\ f[0] = 0
      /\ \A n \in 1 .. N : f[n] = f[n - 1] + list[n].size
  <2>1. 0 \in 0 .. N /\ \A n \in 1 .. N : n \in 0 .. N /\ n # 0
    BY <1>1
  <2> HIDE DEF N
  <2> QED BY <1>7, <2>1
<1> DEFINE G == {n \in 0 .. N : f[n] \in Nat}
<1>10. 0 \in G
  BY <1>1, <1>9
<1>11. ASSUME NEW n \in 1 .. N, n - 1 \in G PROVE n \in G
  <2>1. n \in 0 .. N /\ f[n - 1] \in Nat /\ f[n] = f[n - 1] + list[n].size /\ list[n].size \in Nat
    BY <1>1, <1>9, <1>11
  <2> HIDE DEF N
  <2> QED BY <2>1
<1> HIDE DEF G, Summed
<1>12. \A n \in 0 .. N : n \in G
  <2> HIDE DEF N
  <2> QED BY <1>1, <1>10, <1>11, UpTo
<1> QED BY <1>8, <1>9, <1>12 DEF G

\* lay is the list from address ind on, up to address end.
Lies(list, lay, N, from, end) ==
  /\ N \in Nat /\ lay \in Seq(Range(lay)) /\ Len(lay) = N /\ Even(end) /\ from <= end
  /\ \A n \in 1 .. N :
       /\ lay[n].kind = list[n].kind /\ lay[n].size = list[n].size /\ lay[n].arg = list[n].arg
       /\ Item(lay[n]) /\ lay[n].size \in Nat /\ Even(lay[n].at) /\ from <= lay[n].at /\ lay[n].at + lay[n].size <= end
  /\ N >= 1 => lay[1].at = from /\ lay[N].at + lay[N].size = end
  /\ \A n \in 2 .. N : lay[n].at = lay[n - 1].at + lay[n - 1].size

\* A list of instructions of whole halfwords lies one behind the other.
LEMMA LaidOut ==
  ASSUME NEW list, list \in Seq(Range(list)), \A n \in DOMAIN list : Even(list[n].size), Even(ind)
  PROVE  /\ Lies(list, Layout(list), Len(list), ind, After(list))
         /\ \A n \in 1 .. Len(list) : Layout(list)[n].place = place
<1> DEFINE N == Len(list)
           lay == Layout(list)
<1> DEFINE off == Offset(list)
<1>1. N \in Nat /\ DOMAIN list = 1 .. N /\ \A n \in 1 .. N : list[n].size \in Nat /\ list[n].size % 2 = 0
  BY DEF Even
<1>2. /\ off[0] = 0 /\ \A n \in 0 .. N : off[n] \in Nat
      /\ \A n \in 1 .. N : off[n] = off[n - 1] + list[n].size
  BY <1>1, OffsetFacts
<1>3. After(list) = ind + off[N]
  BY DEF After
<1>4. /\ DOMAIN lay = 1 .. N
      /\ \A n \in 1 .. N :
           /\ lay[n].kind = list[n].kind /\ lay[n].size = list[n].size /\ lay[n].arg = list[n].arg
           /\ lay[n].place = place /\ lay[n].at = ind + off[n - 1] /\ Item(lay[n])
  BY <1>1 DEF Layout, Item
<1> HIDE DEF off, lay
<1>5. lay \in Seq(Range(lay)) /\ Len(lay) = N
  <2>1. lay = [n \in 1 .. N |-> lay[n]]
    BY <1>1 DEF Layout, lay
  <2>2. \A n \in 1 .. N : lay[n] \in Range(lay)
    BY <1>4 DEF Range
  <2> QED BY ONLY <2>1, <2>2, <1>1, MakesSeq
<1> DEFINE G == {k \in 0 .. N : off[k] % 2 = 0 /\ \A m \in 0 .. k : off[m] <= off[k]}
<1>6. 0 \in G
  <2>1. 0 \in 0 .. N /\ \A m \in 0 .. 0 : m = 0
    BY <1>1
  <2> QED BY <2>1, <1>2
<1>7. ASSUME NEW n \in 1 .. N, n - 1 \in G PROVE n \in G
  <2>1. /\ n \in 0 .. N /\ n - 1 \in 0 .. N /\ off[n - 1] % 2 = 0 /\ off[n] = off[n - 1] + list[n].size
        /\ off[n - 1] \in Nat /\ list[n].size \in Nat /\ list[n].size % 2 = 0
    BY <1>1, <1>2, <1>7
  <2>2. off[n] % 2 = 0
    BY ONLY <2>1, EvenSum DEF Even
  <2>3. ASSUME NEW m \in 0 .. n PROVE off[m] <= off[n]
    <3>1. m = n \/ m \in 0 .. n - 1
      BY <1>1
    <3>2. m \in 0 .. N /\ off[m] \in Nat
      BY <1>1, <1>2
    <3>3. m \in 0 .. n - 1 => off[m] <= off[n - 1]
      BY <1>7
    <3> QED BY <2>1, <3>1, <3>2, <3>3
  <2> QED BY <2>1, <2>2, <2>3
<1> HIDE DEF G
<1>8. \A n \in 0 .. N : n \in G
  BY <1>1, <1>6, <1>7, UpTo
<1>9. \A k \in 0 .. N : off[k] % 2 = 0 /\ off[k] <= off[N]
  <2>1. N \in 0 .. N /\ \A k \in 0 .. N : k \in 0 .. N
    BY <1>1
  <2> QED BY <2>1, <1>8 DEF G
<1>10. ASSUME NEW n \in 1 .. N
       PROVE  Even(lay[n].at) /\ ind <= lay[n].at /\ lay[n].at + lay[n].size <= After(list)
  <2>1. n \in 0 .. N /\ n - 1 \in 0 .. N /\ lay[n].at = ind + off[n - 1] /\ lay[n].size = list[n].size
    BY <1>1, <1>4
  <2>2. /\ off[n - 1] \in Nat /\ off[n] = off[n - 1] + list[n].size /\ off[n] <= off[N] /\ off[N] \in Nat
        /\ off[n - 1] % 2 = 0 /\ list[n].size \in Nat
    BY <2>1, <1>1, <1>2, <1>9
  <2>3. Even(ind) /\ ind \in Nat
    BY DEF Even
  <2>4. Even(ind + off[n - 1])
    BY ONLY <2>2, <2>3, EvenSum DEF Even
  <2>5. ind <= ind + off[n - 1] /\ ind + off[n - 1] + list[n].size <= ind + off[N]
    <3> DEFINE x == off[n - 1]
               y == off[n]
               z == off[N]
               m == list[n].size
    <3>1. x \in Nat /\ y = x + m /\ y <= z /\ z \in Nat /\ m \in Nat /\ ind \in Nat
      BY ONLY <2>2, <2>3
    <3> HIDE DEF x, y, z, m
    <3>2. ind <= ind + x /\ ind + x + m <= ind + z
      BY ONLY <3>1
    <3> QED BY ONLY <3>2 DEF x, z, m
  <2> QED BY ONLY <2>1, <2>4, <2>5, <1>3
<1>11. Even(After(list)) /\ ind <= After(list)
  <2>1. N \in 0 .. N /\ off[N] \in Nat /\ off[N] % 2 = 0
    BY <1>1, <1>2, <1>9
  <2> QED BY <2>1, <1>3 DEF Even
<1>12. ASSUME N >= 1 PROVE lay[1].at = ind /\ lay[N].at + lay[N].size = After(list)
  <2>1. 1 \in 1 .. N /\ N \in 1 .. N /\ N - 1 \in 0 .. N /\ 1 - 1 = 0
    BY <1>1, <1>12
  <2>2. lay[1].at = ind + off[0] /\ lay[N].at = ind + off[N - 1] /\ off[N] = off[N - 1] + list[N].size
        /\ lay[N].size = list[N].size /\ off[N - 1] \in Nat /\ list[N].size \in Nat
    BY <2>1, <1>1, <1>2, <1>4
  <2> QED BY <2>2, <1>2, <1>3 DEF Even
<1>13. ASSUME NEW n \in 2 .. N PROVE lay[n].at = lay[n - 1].at + lay[n - 1].size
  <2>1. n \in 1 .. N /\ n - 1 \in 1 .. N /\ n - 1 - 1 \in 0 .. N
    BY <1>1
  <2>2. /\ lay[n].at = ind + off[n - 1] /\ lay[n - 1].at = ind + off[n - 1 - 1]
        /\ off[n - 1] = off[n - 1 - 1] + list[n - 1].size /\ lay[n - 1].size = list[n - 1].size
        /\ off[n - 1 - 1] \in Nat /\ list[n - 1].size \in Nat
    BY <2>1, <1>1, <1>2, <1>4
  <2> QED BY <2>2 DEF Even
<1>14. Lies(list, lay, N, ind, After(list))
  BY <1>1, <1>4, <1>5, <1>10, <1>11, <1>12, <1>13 DEF Lies
<1> QED BY <1>4, <1>14 DEF lay

\* d is c with lay behind it.
Glued(c, lay, d, L, N) ==
  /\ L \in Nat /\ N \in Nat /\ DOMAIN c = 1 .. L /\ DOMAIN lay = 1 .. N
  /\ d \in Seq(Range(d)) /\ Len(d) = L + N /\ DOMAIN d = 1 .. L + N
  /\ \A n \in 1 .. L : d[n] = c[n]
  /\ \A n \in 1 .. N : d[L + n] = lay[n]
  /\ \A n \in 1 .. L + N : n \in 1 .. L \/ (n - L \in 1 .. N /\ d[n] = lay[n - L])

\* What the concatenation of the code and a list looks like.
LEMMA CodeGrows ==
  ASSUME NEW c, c \in Seq(Range(c)), NEW lay, lay \in Seq(Range(lay))
  PROVE  Glued(c, lay, c \o lay, Len(c), Len(lay))
<1> DEFINE S == Range(c) \union Range(lay)
           d == c \o lay
<1>1. c \in Seq(S) /\ lay \in Seq(S)
  OBVIOUS
<1>2. /\ d \in Seq(S) /\ Len(c) \in Nat /\ Len(lay) \in Nat /\ DOMAIN c = 1 .. Len(c) /\ DOMAIN lay = 1 .. Len(lay)
      /\ Len(d) = Len(c) + Len(lay) /\ DOMAIN d = 1 .. Len(c) + Len(lay)
  <2> HIDE DEF S
  <2> QED BY <1>1
<1>3. /\ \A n \in 1 .. Len(c) : d[n] = c[n]
      /\ \A n \in 1 .. Len(lay) : d[Len(c) + n] = lay[n]
  <2> HIDE DEF S
  <2> QED BY <1>1, ConcatProperties
<1>4. d \in Seq(Range(d))
  <2> HIDE DEF S, d
  <2>1. Len(d) \in Nat /\ DOMAIN d = 1 .. Len(d) /\ d = [n \in 1 .. Len(d) |-> d[n]]
    BY <1>2
  <2>2. \A n \in 1 .. Len(d) : d[n] \in Range(d)
    BY <2>1 DEF Range
  <2>3. d \in [1 .. Len(d) -> Range(d)]
    BY <2>1, <2>2
  <2> QED BY <2>1, <2>3
<1>5. ASSUME NEW n \in 1 .. Len(c) + Len(lay), n \notin 1 .. Len(c)
      PROVE  n - Len(c) \in 1 .. Len(lay) /\ d[n] = lay[n - Len(c)]
  <2>1. n - Len(c) \in 1 .. Len(lay) /\ Len(c) + (n - Len(c)) = n
    BY <1>2, <1>5
  <2> HIDE DEF d
  <2> QED BY <2>1, <1>3
<1> HIDE DEF d
<1> HIDE DEF S
<1>6. \A n \in 1 .. Len(c) + Len(lay) :
        n \in 1 .. Len(c) \/ (n - Len(c) \in 1 .. Len(lay) /\ d[n] = lay[n - Len(c)])
  BY <1>5
<1>7. Glued(c, lay, d, Len(c), Len(lay))
  BY <1>2, <1>3, <1>4, <1>6 DEF Glued
<1> QED BY <1>7 DEF d

\* An even number is a natural one.
LEMMA EvenIsNat == \A n : Even(n) => n \in Nat
  BY DEF Even

\* d is the code c with the instructions of the list behind it, written at the op p of the block b
\* up to address end.
Longer(c, d, list, L, N, p, b, from, end) ==
  /\ L \in Nat /\ N \in Nat /\ DOMAIN c = 1 .. L /\ DOMAIN d = 1 .. L + N /\ Len(d) = L + N
  /\ d \in Seq(Range(d)) /\ Even(end) /\ Start <= end /\ from <= end
  /\ \A n \in 1 .. L : d[n] = c[n] /\ n \in 1 .. L + N
  /\ \A n \in L + 1 .. L + N :
       /\ n \in 1 .. L + N /\ n \notin 1 .. L /\ n - L \in 1 .. N /\ d[n].place = p
       /\ d[n].kind = list[n - L].kind /\ d[n].size = list[n - L].size /\ d[n].arg = list[n - L].arg
  /\ \A n \in 1 .. L + N : n \in 1 .. L \/ n \in L + 1 .. L + N
  /\ \A n \in 1 .. L + N :
       Item(d[n]) /\ Even(d[n].at) /\ Start <= d[n].at /\ d[n].size \in Nat /\ d[n].at + d[n].size <= end
  /\ N >= 1 => d[L + 1].at = from /\ d[L + N].at + d[L + N].size = end
  /\ N >= 2 => d[L + 2].at = from + list[1].size
  /\ \A a : a # b => Mine(d, a) = Mine(c, a)
  /\ Mine(d, b) = Mine(c, b) \union (L + 1 .. L + N)

\* A list that is written lies behind the code, up to the new ind.
LEMMA Written ==
  ASSUME CodeTypes, NEW list, list \in Seq(Range(list)),
         \A n \in DOMAIN list : Even(list[n].size) /\ list[n].kind # "data",
         code' = code \o Layout(list), ind' = After(list)
  PROVE  Longer(code, code', list, Len(code), Len(list), place, blk, ind, ind')
<1> DEFINE lay == Layout(list)
           N == Len(list)
           L == Len(code)
<1>1. Even(ind) /\ ind \in Nat /\ Start \in Nat /\ Start <= ind /\ code \in Seq(Range(code))
  BY CodeAssumption, EvenIsNat DEF CodeTypes
<1>2. Lies(list, lay, N, ind, ind') /\ \A n \in 1 .. N : lay[n].place = place
  BY <1>1, LaidOut
<1> HIDE DEF lay
<1>3. code' = code \o lay
  BY DEF lay
<1>a. N \in Nat /\ lay \in Seq(Range(lay)) /\ Len(lay) = N /\ Even(ind') /\ ind <= ind' /\ ind' \in Nat
  BY <1>2, EvenIsNat DEF Lies
<1>4. /\ L \in Nat /\ DOMAIN code = 1 .. L /\ DOMAIN lay = 1 .. N
      /\ code' \in Seq(Range(code')) /\ Len(code') = L + N /\ DOMAIN code' = 1 .. L + N
      /\ \A n \in 1 .. L : code'[n] = code[n]
      /\ \A n \in 1 .. N : code'[L + n] = lay[n]
      /\ \A n \in 1 .. L + N : n \in 1 .. L \/ (n - L \in 1 .. N /\ code'[n] = lay[n - L])
  <2>1. Glued(code, lay, code', L, N)
    BY <1>1, <1>3, <1>a, CodeGrows
  <2> QED BY <2>1, <1>a DEF Glued
<1>5. DOMAIN list = 1 .. N
  OBVIOUS
<1> HIDE DEF N, L
<1>6. ASSUME NEW n \in L + 1 .. L + N
      PROVE  n - L \in 1 .. N /\ code'[n] = lay[n - L] /\ n \in 1 .. L + N /\ n \notin 1 .. L
  BY <1>a, <1>4
<1>7. ASSUME NEW n \in 1 .. L + N
      PROVE  /\ Item(code'[n]) /\ Even(code'[n].at) /\ Start <= code'[n].at
             /\ code'[n].size \in Nat /\ code'[n].at + code'[n].size <= ind'
  <2>1. CASE n \in 1 .. L
    <3>1. /\ Item(code[n]) /\ Even(code[n].at) /\ Start <= code[n].at
          /\ code[n].size \in Nat /\ code[n].at + code[n].size <= ind
      BY <2>1, <1>4 DEF CodeTypes
    <3>2. code[n].at \in Nat /\ code'[n] = code[n]
      BY <2>1, <3>1, <1>4, EvenIsNat
    <3> QED BY <3>1, <3>2, <1>1, <1>a
  <2>2. CASE n - L \in 1 .. N /\ code'[n] = lay[n - L]
    <3>1. /\ Item(lay[n - L]) /\ Even(lay[n - L].at) /\ ind <= lay[n - L].at
          /\ lay[n - L].at + lay[n - L].size <= ind' /\ lay[n - L].size \in Nat
      BY <2>2, <1>2 DEF Lies
    <3>2. lay[n - L].at \in Nat
      BY <3>1, EvenIsNat
    <3> QED BY <2>2, <3>1, <3>2, <1>1, <1>a
  <2> QED BY <2>1, <2>2, <1>4
<1>8. ASSUME N >= 1
      PROVE  code'[L + 1].at = ind /\ code'[L + N].at + code'[L + N].size = ind'
  <2>1. 1 \in 1 .. N /\ N \in 1 .. N
    BY <1>a, <1>8
  <2>2. code'[L + 1] = lay[1] /\ code'[L + N] = lay[N]
    BY <2>1, <1>4
  <2>3. lay[1].at = ind /\ lay[N].at + lay[N].size = ind'
    BY <1>2, <1>8 DEF Lies
  <2> QED BY <2>2, <2>3
<1>9. ASSUME N >= 2 PROVE code'[L + 2].at = ind + list[1].size
  <2>1. 1 \in 1 .. N /\ 2 \in 1 .. N /\ 2 \in 2 .. N /\ 2 - 1 = 1 /\ N >= 1
    BY <1>a, <1>9
  <2>2. code'[L + 2] = lay[2]
    BY <2>1, <1>4
  <2>3. lay[1].at = ind /\ lay[2].at = lay[2 - 1].at + lay[2 - 1].size /\ lay[1].size = list[1].size
    BY <2>1, <1>2 DEF Lies
  <2> QED BY <2>1, <2>2, <2>3
<1>10. \A n \in L + 1 .. L + N :
         /\ n \in 1 .. L + N /\ n \notin 1 .. L /\ n - L \in 1 .. N /\ code'[n].place = place
         /\ code'[n].kind = list[n - L].kind /\ code'[n].size = list[n - L].size
         /\ code'[n].arg = list[n - L].arg
  <2> SUFFICES ASSUME NEW n \in L + 1 .. L + N
               PROVE  /\ code'[n].place = place /\ code'[n].kind = list[n - L].kind
                      /\ code'[n].size = list[n - L].size /\ code'[n].arg = list[n - L].arg
    BY <1>6
  <2>1. n - L \in 1 .. N /\ code'[n] = lay[n - L]
    BY <1>6
  <2> QED BY <2>1, <1>2 DEF Lies
<1>11. \A n \in L + 1 .. L + N : code'[n].kind # "data" /\ code'[n].place[1] = blk
  <2> SUFFICES ASSUME NEW n \in L + 1 .. L + N PROVE code'[n].kind # "data" /\ code'[n].place[1] = blk
    OBVIOUS
  <2>1. code'[n].place = <<blk, oi>> /\ code'[n].kind = list[n - L].kind /\ n - L \in DOMAIN list
    BY <1>5, <1>10 DEF place
  <2> QED BY <2>1
<1>12. /\ \A n \in 1 .. L + N : n \in 1 .. L \/ n \in L + 1 .. L + N
       /\ \A n \in 1 .. L : n \in 1 .. L + N
  BY <1>a, <1>4
<1>13. \A a : a # blk => Mine(code', a) = Mine(code, a)
  BY <1>4, <1>11, <1>12 DEF Mine
<1>14. Mine(code', blk) = Mine(code, blk) \union (L + 1 .. L + N)
  <2>1. \A n : n \in Mine(code', blk) <=> n \in 1 .. L + N /\ code'[n].place[1] = blk /\ code'[n].kind # "data"
    BY <1>4 DEF Mine
  <2>2. \A n : n \in Mine(code, blk) <=> n \in 1 .. L /\ code[n].place[1] = blk /\ code[n].kind # "data"
    BY <1>4 DEF Mine
  <2>3. ASSUME NEW n PROVE n \in Mine(code', blk) <=> n \in Mine(code, blk) \/ n \in L + 1 .. L + N
    <3>1. CASE n \in 1 .. L
      <4>1. n \in 1 .. L + N /\ code'[n] = code[n] /\ n \notin L + 1 .. L + N
        BY <3>1, <1>4, <1>6, <1>12
      <4> QED BY ONLY <2>1, <2>2, <3>1, <4>1
    <3>2. CASE n \in L + 1 .. L + N
      <4>1. n \in 1 .. L + N
        BY <3>2, <1>4, <1>6, <1>12
      <4> QED BY ONLY <2>1, <3>2, <4>1, <1>11
    <3>3. CASE n \notin 1 .. L /\ n \notin L + 1 .. L + N
      BY ONLY <2>1, <2>2, <3>3, <1>12
    <3> QED BY ONLY <3>1, <3>2, <3>3
  <2> QED BY ONLY <2>3
<1>15. Start <= ind'
  BY <1>1, <1>a
<1>16. Longer(code, code', list, L, N, place, blk, ind, ind')
  BY <1>15, <1>a, <1>4, <1>7, <1>8, <1>9, <1>10, <1>12, <1>13, <1>14 DEF Longer
<1> QED BY <1>16 DEF N, L

\* The places of the blocks in blks.
LEMMA BlockPlaces ==
  ASSUME CodeTypes, \/ bi <= Len(blks) \/ phase \in {"emit", "vldr"}
  PROVE  /\ Len(blks) \in Nat /\ DOMAIN blks = 1 .. Len(blks) /\ bi \in 1 .. Len(blks)
         /\ blk = blks[bi] /\ blk \in Block
         /\ \A j, k \in 1 .. Len(blks) : blks[j] = blks[k] => j = k
         /\ \A k \in 1 .. Len(blks) : blks[k] \in Block
<1>1. blks \in Seq(Block) /\ IsInjective(blks) /\ bi \in Nat \ {0} /\ bi <= Len(blks)
  BY DEF CodeTypes
<1>2. Len(blks) \in Nat /\ DOMAIN blks = 1 .. Len(blks) /\ \A k \in 1 .. Len(blks) : blks[k] \in Block
  BY <1>1
<1> QED BY <1>1, <1>2 DEF IsInjective, blk

\* The instructions of an op are written, none of them a branch: the code keeps its invariant,
\* and the first ones of a block begin where its address is kept.
LEMMA OpWritten ==
  ASSUME CodeTypes, StartsInv, EndsInv, BranchInv, phase = "emit", NEW list, Straight(list),
         code' = code \o Layout(list), ind' = After(list), phase' = phase, bi' = bi, oi' = oi + 1,
         cg' = IF oi = 1 THEN [cg EXCEPT ![blk] = ind] ELSE cg,
         blks' = blks, graph' = graph, flist' = flist
  PROVE  CodeTypes' /\ StartsInv' /\ TailInv' /\ EndsInv' /\ BranchInv'
<1> DEFINE N == Len(list)
           L == Len(code)
<1>1. /\ list \in Seq(Range(list)) /\ N \in Nat /\ N >= 1
      /\ \A n \in DOMAIN list : Even(list[n].size) /\ list[n].kind # "data" /\ list[n].kind \notin Jumps
      /\ DOMAIN list = 1 .. N
  <2>1. list \in Seq(Range(list)) /\ list # << >>
    BY DEF Straight
  <2>2. N # 0
    BY <2>1, EmptySeq
  <2> QED BY <2>1, <2>2 DEF Straight
<1>0. Longer(code, code', list, Len(code), Len(list), place, blk, ind, ind')
  BY <1>1, Written
<1>2. /\ L \in Nat /\ DOMAIN code = 1 .. L /\ Len(code') = L + N /\ DOMAIN code' = 1 .. L + N
      /\ code' \in Seq(Range(code'))
      /\ \A n \in 1 .. L : code'[n] = code[n] /\ n \in 1 .. L + N
      /\ \A n \in L + 1 .. L + N : n - L \in 1 .. N /\ code'[n].kind = list[n - L].kind /\ code'[n].place = place
      /\ \A n \in 1 .. L + N : n \in 1 .. L \/ n \in L + 1 .. L + N
      /\ Even(ind') /\ Start <= ind' /\ ind <= ind'
      /\ code'[L + 1].at = ind /\ code'[L + N].at + code'[L + N].size = ind'
  BY <1>0, <1>1 DEF Longer
<1>a. \A n \in 1 .. L + N :
        /\ Item(code'[n]) /\ Even(code'[n].at) /\ Start <= code'[n].at
        /\ code'[n].size \in Nat /\ code'[n].at + code'[n].size <= ind'
  BY <1>0 DEF Longer
<1>b. /\ \A a : a # blk => Mine(code', a) = Mine(code, a)
      /\ Mine(code', blk) = Mine(code, blk) \union (L + 1 .. L + N)
  BY <1>0 DEF Longer
<1> HIDE DEF N, L
<1>3. /\ Len(blks) \in Nat /\ DOMAIN blks = 1 .. Len(blks) /\ bi \in 1 .. Len(blks)
      /\ blk = blks[bi] /\ blk \in Block
      /\ \A j, k \in 1 .. Len(blks) : blks[j] = blks[k] => j = k
      /\ \A k \in 1 .. Len(blks) : blks[k] \in Block
  BY BlockPlaces
<1>4. oi \in Nat \ {0} /\ oi' > 1 /\ oi' \in Nat \ {0} /\ ind \in Nat /\ Even(ind) /\ Start <= ind /\ Start \in Nat \ {0}
  BY CodeAssumption, EvenIsNat DEF CodeTypes
<1>5. cg \in [Block -> Nat] /\ cg' \in [Block -> Nat]
  BY <1>3, <1>4 DEF CodeTypes
<1>6. \A k \in 1 .. Len(blks) : (HasCode(k)' <=> k <= bi) /\ (k < bi => HasCode(k)) /\ (HasCode(k) => k <= bi)
  BY <1>3, <1>4 DEF HasCode
<1>7. blk' = blk
  BY DEF blk
<1>8. \A n \in L + 1 .. L + N : code'[n].place[1] = blk /\ code'[n].kind \notin Jumps
  <2> SUFFICES ASSUME NEW n \in L + 1 .. L + N PROVE code'[n].place[1] = blk /\ code'[n].kind \notin Jumps
    OBVIOUS
  <2>1. code'[n].place = <<blk, oi>> /\ code'[n].kind = list[n - L].kind /\ n - L \in DOMAIN list
    BY <1>1, <1>2 DEF place
  <2> QED BY <2>1, <1>1
<1>9. \A k \in 1 .. Len(blks) : k # bi => Mine(code', blks[k]) = Mine(code, blks[k]) /\ cg'[blks[k]] = cg[blks[k]]
  BY <1>b, <1>3, <1>5
<1>10. CodeTypes'
  BY <1>1, <1>2, <1>a, <1>3, <1>4, <1>5 DEF CodeTypes
<1>11. StartsInv'
  <2>1. ASSUME NEW n \in DOMAIN code', code'[n].kind # "data"
        PROVE  \E k \in 1 .. Len(blks) : HasCode(k)' /\ code'[n].place[1] = blks[k]
    <3>1. CASE n \in 1 .. L
      BY <3>1, <2>1, <1>2, <1>6 DEF StartsInv
    <3>2. CASE n \in L + 1 .. L + N
      <4> PICK k \in 1 .. Len(blks) : k = bi
        BY <1>3
      <4>1. code'[n].place[1] = blks[k]
        BY <3>2, <1>3, <1>8
      <4>2. k \in Nat /\ HasCode(k)'
        BY <1>3, <1>6
      <4> QED BY ONLY <4>1, <4>2
    <3> QED BY <3>1, <3>2, <1>2, <1>7
  <2>2. ASSUME NEW k \in 1 .. Len(blks)
        PROVE  IF HasCode(k)'
               THEN /\ cg'[blks[k]] # 0 /\ Even(cg'[blks[k]]) /\ Start <= cg'[blks[k]] /\ cg'[blks[k]] <= ind'
                    /\ \E n \in Mine(code', blks[k]) : code'[n].at = cg'[blks[k]] /\ \A m \in Mine(code', blks[k]) : n <= m
               ELSE cg'[blks[k]] = 0
    <3>1. CASE k # bi /\ ~HasCode(k)
      BY <3>1, <1>3, <1>6, <1>9 DEF StartsInv
    <3>2. CASE HasCode(k)
      <4>1. PICK n \in Mine(code, blks[k]) : code[n].at = cg[blks[k]] /\ \A m \in Mine(code, blks[k]) : n <= m
        BY <3>2 DEF StartsInv
      <4>2. cg[blks[k]] # 0 /\ Even(cg[blks[k]]) /\ Start <= cg[blks[k]] /\ cg[blks[k]] <= ind /\ cg[blks[k]] \in Nat
        BY <3>2, <1>3, <1>5 DEF StartsInv
      <4>3. cg'[blks[k]] = cg[blks[k]]
        <5>1. k = bi => oi # 1
          BY <3>2, <1>4 DEF HasCode
        <5> QED BY <5>1, <1>9
      <4>4. n \in 1 .. L /\ code'[n] = code[n] /\ n \in Mine(code', blks[k])
        BY <4>1, <1>2 DEF Mine
      <4>5. \A m \in Mine(code', blks[k]) : n <= m
        <5>1. \A m \in L + 1 .. L + N : n <= m
          BY <4>4, <1>1, <1>2
        <5> QED BY <5>1, <4>1, <1>b
      <4>6. ind' \in Nat
        BY <1>2, EvenIsNat
      <4>7. \E m \in Mine(code', blks[k]) : code'[m].at = cg'[blks[k]] /\ \A j \in Mine(code', blks[k]) : m <= j
        BY <4>1, <4>3, <4>4, <4>5
      <4>8. cg'[blks[k]] # 0 /\ Even(cg'[blks[k]]) /\ Start <= cg'[blks[k]] /\ cg'[blks[k]] <= ind'
        BY <4>2, <4>3, <4>6, <1>2, <1>4
      <4>9. HasCode(k)'
        BY <3>2, <1>6
      <4> QED BY <4>7, <4>8, <4>9
    <3>3. CASE k = bi /\ ~HasCode(k)
      <4>1. oi = 1 /\ cg' = [cg EXCEPT ![blk] = ind] /\ cg'[blk] = ind
        BY <3>3, <1>3, <1>4, <1>5 DEF HasCode
      <4>2. Mine(code, blk) = {}
        <5> SUFFICES ASSUME NEW n \in Mine(code, blk) PROVE FALSE
          OBVIOUS
        <5>1. PICK j \in 1 .. Len(blks) : HasCode(j) /\ blk = blks[j]
          BY DEF StartsInv, Mine
        <5>2. j = k
          BY <5>1, <3>3, <1>3
        <5> QED BY <5>1, <5>2, <3>3
      <4>3. Mine(code', blk) = L + 1 .. L + N
        BY <4>2, <1>b
      <4>4. L + 1 \in L + 1 .. L + N /\ \A m \in L + 1 .. L + N : L + 1 <= m
        BY <1>1, <1>2
      <4>5. ind # 0 /\ ind' \in Nat
        BY <1>2, <1>4, EvenIsNat
      <4>6. HasCode(k)'
        BY <3>3, <1>3, <1>6
      <4> QED BY <3>3, <4>1, <4>3, <4>4, <4>5, <4>6, <1>2, <1>3, <1>4
    <3> QED BY <3>1, <3>2, <3>3
  <2>3. blks' = blks
    OBVIOUS
  <2> QED BY ONLY <2>1, <2>2, <2>3 DEF StartsInv
<1>12. TailInv'
  <2>1. L + N \in L + 1 .. L + N
    BY <1>1, <1>2
  <2>2. Len(code') \in Mine(code', blk)
    BY <2>1, <1>2, <1>b
  <2> QED BY <2>2, <1>2, <1>7 DEF TailInv
<1>13. EndsInv'
  <2>0. \A b : (is_end(b)' <=> is_end(b)) /\ outs(b)' = outs(b)
    BY DEF is_end, outs
  <2> SUFFICES ASSUME NEW k \in 1 .. Len(blks), IsClosed(k)', ~is_end(blks[k])'
               PROVE  /\ Len(outs(blks[k])) = 2 => \E n \in Mine(code', blks[k]) : code'[n].kind = "bcond"
                      /\ (\E n \in Mine(code', blks[k]) : code'[n].kind = "b") \/ FallsThrough(k)'
    BY <2>0 DEF EndsInv, Ends
  <2>1. k < bi /\ IsClosed(k) /\ ~is_end(blks[k]) /\ k # bi
    BY <2>0, <1>3 DEF IsClosed
  <2>2. Mine(code', blks[k]) = Mine(code, blks[k]) /\ \A n \in Mine(code, blks[k]) : n \in 1 .. L /\ code'[n] = code[n]
    BY <2>1, <1>2, <1>9 DEF Mine
  <2>3. FallsThrough(k) => FallsThrough(k)'
    <3> SUFFICES ASSUME FallsThrough(k) PROVE FallsThrough(k)'
      OBVIOUS
    <3>1. k + 1 \in 1 .. Len(blks) /\ k + 1 <= bi /\ blks[k + 1] = outs(blks[k])[1]
      BY <2>1, <1>3 DEF FallsThrough
    <3>2. PICK n \in Mine(code, blks[k]) :
             /\ \A m \in Mine(code, blks[k]) : m <= n
             /\ code[n].at + code[n].size = IF HasCode(k + 1) THEN cg[blks[k + 1]] ELSE ind
      BY DEF FallsThrough
    <3>3. HasCode(k + 1)'
      BY <3>1, <1>6
    <3>4. (IF HasCode(k + 1) THEN cg[blks[k + 1]] ELSE ind) = cg'[blks[k + 1]]
      <4>1. CASE k + 1 = bi
        BY <4>1, <1>3, <1>4, <1>5 DEF HasCode
      <4>2. CASE k + 1 # bi
        BY <4>2, <3>1, <1>3, <1>6, <1>9
      <4> QED BY <4>1, <4>2
    <3>5. n \in Mine(code', blks[k]) /\ (\A m \in Mine(code', blks[k]) : m <= n)
          /\ code'[n].at + code'[n].size = IF HasCode(k + 1)' THEN cg'[blks'[k + 1]] ELSE ind'
      BY <2>2, <3>2, <3>3, <3>4
    <3> QED BY <2>0, <2>1, <3>1, <3>5 DEF FallsThrough
  <2> QED BY <2>1, <2>2, <2>3 DEF EndsInv, Ends
<1>14. BranchInv'
  <2>1. ASSUME NEW n \in DOMAIN code', code'[n].kind \in Jumps
        PROVE  /\ code'[n].size = 4 /\ Taken(graph, code'[n]) \in Block
               /\ \/ \E f \in Range(flist) : f.at = n
                  \/ cg'[Taken(graph, code'[n])] # 0 /\ Aimed(code'[n], cg'[Taken(graph, code'[n])])
    <3>1. n \in 1 .. L /\ code'[n] = code[n] /\ n \in DOMAIN code /\ Taken(graph, code'[n]) = Taken(graph, code[n])
      BY <2>1, <1>2, <1>7, <1>8 DEF Taken, outs
    <3>2. /\ code[n].size = 4 /\ Taken(graph, code[n]) \in Block
          /\ \/ \E f \in Range(flist) : f.at = n
             \/ cg[Taken(graph, code[n])] # 0 /\ Aimed(code[n], cg[Taken(graph, code[n])])
      BY <2>1, <3>1 DEF BranchInv
    <3>3. oi = 1 => cg[blk] = 0
      BY <1>3 DEF StartsInv, HasCode
    <3>4. \A t \in Block : cg[t] # 0 => cg'[t] = cg[t]
      BY <3>3, <1>3, <1>5
    <3> QED BY <3>1, <3>2, <3>4
  <2>2. /\ flist \in Seq(Range(flist))
        /\ \A f \in Range(flist) : f.at \in DOMAIN code /\ code[f.at].kind \in Jumps /\ f.to = Taken(graph, code[f.at])
    BY DEF BranchInv
  <2>3. \A f \in Range(flist) : f.at \in DOMAIN code' /\ code'[f.at].kind \in Jumps /\ f.to = Taken(graph, code'[f.at])
    <3> SUFFICES ASSUME NEW f \in Range(flist)
                 PROVE  f.at \in DOMAIN code' /\ code'[f.at].kind \in Jumps /\ f.to = Taken(graph, code'[f.at])
      OBVIOUS
    <3>1. f.at \in 1 .. L /\ code'[f.at] = code[f.at] /\ f.at \in 1 .. L + N
      BY <2>2, <1>1, <1>2
    <3>2. Taken(graph, code'[f.at]) = Taken(graph, code[f.at])
      BY <3>1 DEF Taken, outs
    <3> QED BY <2>2, <3>1, <3>2, <1>2
  <2> QED BY <2>1, <2>2, <2>3 DEF BranchInv, Aimed
<1> QED BY <1>10, <1>11, <1>12, <1>13, <1>14

\* One instruction that is no branch.
LEMMA StraightOne ==
  ASSUME NEW kind, kind \notin Jumps \union {"data"}, NEW size, Even(size), NEW arg
  PROVE  Straight(<<Instr(kind, size, arg)>>)
<1> DEFINE i == Instr(kind, size, arg)
<1>1. i.kind = kind /\ i.size = size
  BY DEF Instr
<1> HIDE DEF i
<1>2. <<i>> \in Seq(Range(<<i>>)) /\ <<i>> # << >> /\ \A n \in DOMAIN <<i>> : <<i>>[n] = i
  BY DEF Range
<1>3. Straight(<<i>>)
  BY <1>1, <1>2 DEF Straight
<1> QED BY <1>3 DEF i

\* Two lists behind one another without a branch.
LEMMA StraightBoth ==
  ASSUME NEW l, Straight(l), NEW m, Straight(m)
  PROVE  Straight(l \o m)
<1> DEFINE d == l \o m
           L == Len(l)
           N == Len(m)
<1>1. /\ l \in Seq(Range(l)) /\ l # << >> /\ m \in Seq(Range(m))
      /\ \A n \in DOMAIN l : l[n].kind \notin Jumps \union {"data"} /\ Even(l[n].size)
      /\ \A n \in DOMAIN m : m[n].kind \notin Jumps \union {"data"} /\ Even(m[n].size)
  BY DEF Straight
<1>2. Glued(l, m, d, L, N)
  BY <1>1, CodeGrows
<1>3. L # 0
  BY <1>1, EmptySeq
<1> HIDE DEF d, L, N
<1>4. /\ L \in Nat /\ N \in Nat /\ DOMAIN l = 1 .. L /\ DOMAIN m = 1 .. N
      /\ d \in Seq(Range(d)) /\ Len(d) = L + N /\ DOMAIN d = 1 .. L + N
      /\ \A n \in 1 .. L : d[n] = l[n]
      /\ \A n \in 1 .. L + N : n \in 1 .. L \/ (n - L \in 1 .. N /\ d[n] = m[n - L])
  BY <1>2 DEF Glued
<1>5. d # << >>
  BY <1>3, <1>4
<1>6. ASSUME NEW n \in DOMAIN d PROVE d[n].kind \notin Jumps \union {"data"} /\ Even(d[n].size)
  <2>1. CASE n \in 1 .. L
    BY <2>1, <1>1, <1>4
  <2>2. CASE n - L \in 1 .. N /\ d[n] = m[n - L]
    BY <2>2, <1>1, <1>4
  <2> QED BY <2>1, <2>2, <1>4
<1>7. Straight(d)
  BY <1>4, <1>5, <1>6 DEF Straight
<1> QED BY <1>7 DEF d

\* The sizes there are.
LEMMA HalfwordSizes == Even(2) /\ Even(4)
  BY DEF Even

\* _mov_imm writes no branch.
LEMMA MovStraight == \A v, dead : Straight(Mov(v, dead))
<1> SUFFICES ASSUME NEW v, NEW dead PROVE Straight(Mov(v, dead))
  OBVIOUS
<1>1. \A kind, size, arg : kind \notin Jumps \union {"data"} /\ Even(size) => Straight(<<Instr(kind, size, arg)>>)
  BY StraightOne
<1>2. \A arg : /\ Straight(<<Instr("movs", 2, arg)>>) /\ Straight(<<Instr("movw", 4, arg)>>)
               /\ Straight(<<Instr("mov", 4, arg)>>) /\ Straight(<<Instr("movt", 4, arg)>>)
  BY <1>1, HalfwordSizes DEF Jumps
<1>3. \A low, high : Straight(<<Instr("movw", 4, low), Instr("movt", 4, high)>>)
  <2> SUFFICES ASSUME NEW low, NEW high PROVE Straight(<<Instr("movw", 4, low), Instr("movt", 4, high)>>)
    OBVIOUS
  <2> DEFINE i == Instr("movw", 4, low)
             j == Instr("movt", 4, high)
  <2> HIDE DEF i, j
  <2>1. /\ <<i, j>> \in Seq(Range(<<i, j>>)) /\ <<i, j>> # << >>
        /\ \A n \in DOMAIN <<i, j>> : <<i, j>>[n] = i \/ <<i, j>>[n] = j
    BY DEF Range
  <2>2. Straight(<<i, j>>)
    <3>1. /\ i.kind \notin Jumps \union {"data"} /\ Even(i.size)
          /\ j.kind \notin Jumps \union {"data"} /\ Even(j.size)
      BY HalfwordSizes DEF i, j, Instr, Jumps
    <3> QED BY <2>1, <3>1 DEF Straight
  <2> QED BY <2>2 DEF i, j
<1> DEFINE low == v % 65536
           high == (v \div 65536) % 65536
           part == CHOOSE c \in stuff_const(Bits(v)) : TRUE
           two == <<Instr("movw", 4, low), Instr("movt", 4, high)>>
           one == <<Instr("mov", 4, part)>>
           movw == <<Instr("movw", 4, v)>>
           movs == <<Instr("movs", 2, v)>>
           long == IF stuff_const(Bits(v)) # {} THEN one ELSE two
           fits == v \in 0 .. 65535
           wide == IF fits THEN movw ELSE long
<1>4. Mov(v, dead) = IF dead /\ v \in 0 .. 255 THEN movs ELSE wide
  BY DEF Mov
<1>5. Straight(one) /\ Straight(two) /\ Straight(movw) /\ Straight(movs)
  <2> HIDE DEF low, high, part
  <2> QED BY <1>2, <1>3, Zenon
<1> HIDE DEF one, two, movw, movs, low, high, part
<1>6. Straight(long)
  BY <1>5
<1> HIDE DEF long, fits
<1>7. Straight(wide)
  BY <1>5, <1>6
<1> HIDE DEF wide
<1>8. Mov(v, dead) = movs \/ Mov(v, dead) = wide
  BY <1>4, Zenon
<1> QED BY <1>5, <1>7, <1>8

\* What is copied has the length of its op.
LEMMA AfterOne ==
  ASSUME NEW i, i.size \in Nat
  PROVE  After(<<i>>) = ind + i.size
<1> DEFINE list == <<i>>
           f == Offset(list)
<1>1. list \in Seq(Range(list)) /\ Len(list) = 1 /\ list[1] = i /\ \A n \in DOMAIN list : list[n].size \in Nat
  BY DEF Range
<1> HIDE DEF list
<1>2. f[0] = 0 /\ \A n \in 1 .. Len(list) : f[n] = f[n - 1] + list[n].size
  BY <1>1, OffsetFacts
<1> HIDE DEF f
<1>3. f[1] = f[0] + list[1].size
  BY <1>1, <1>2
<1>4. f[1] = i.size
  BY <1>1, <1>2, <1>3
<1>5. After(list) = ind + f[1]
  BY <1>1 DEF After, f
<1> QED BY <1>4, <1>5 DEF list

\* An op gives up, or writes instructions that are no branches.
Writes(list) == Straight(list) /\ code' = code \o Layout(list) /\ ind' = After(list) /\ phase' = phase

\* o writes the whole list, or throws.
LEMMA EmitWrites ==
  ASSUME NEW list, Straight(list), Emit(list)
  PROVE  phase' = "error" \/ Writes(list)
BY DEF Emit, Writes

\* Every handler of an op throws, or writes a list without a branch.
LEMMA InstructionLists ==
  ASSUME TreeTypes, oi \in Nat \ {0}, prog \in Functions, blk \in Block, Instructions
  PROVE  \/ phase' = "error"
         \/ /\ \E list : Writes(list)
            /\ \/ pools' = pools
               \/ /\ op(place).kind = "vldr" /\ pools' = Append(pools, Len(code) + 1)
                  /\ code' = code \o Layout(<<Instr("vldr", 4, -1)>>)
<1> DEFINE Goal == \/ phase' = "error"
                   \/ /\ \E list : Writes(list)
                      /\ \/ pools' = pools
                         \/ /\ op(place).kind = "vldr" /\ pools' = Append(pools, Len(code) + 1)
                            /\ code' = code \o Layout(<<Instr("vldr", 4, -1)>>)
<1>0. \A list : Straight(list) /\ Emit(list) /\ pools' = pools => Goal
  BY EmitWrites
<1>1. \A kind, size, arg : kind \notin Jumps \union {"data"} /\ Even(size) => Straight(<<Instr(kind, size, arg)>>)
  BY StraightOne
<1>2. \A arg : /\ Straight(<<Instr("bl", 4, arg)>>) /\ Straight(<<Instr("cmps", 2, arg)>>)
               /\ Straight(<<Instr("cmp", 4, arg)>>) /\ Straight(<<Instr("cmpreg", 2, arg)>>)
               /\ Straight(<<Instr("ldr", 2, arg)>>) /\ Straight(<<Instr("addpc", 2, arg)>>)
               /\ Straight(<<Instr("vldr", 4, arg)>>)
  BY <1>1, HalfwordSizes DEF Jumps
<1>3. \A l, m : Straight(l) /\ Straight(m) => Straight(l \o m)
  BY StraightBoth
<1>4. CASE EmitCopy
  <2> DEFINE size == op(place).size
             i == Instr("copy", size, 0)
  <2>1. /\ phase = "emit" /\ bi <= Len(blks) /\ oi <= Len(body[blk]) /\ op(place).kind = "copy"
        /\ code' = code \o Layout(<<i>>) /\ ind' = ind + size /\ phase' = phase /\ pools' = pools
    BY <1>4 DEF EmitCopy, AtOp
  <2>2. Even(size)
    <3>1. Len(body[blk]) \in Nat /\ DOMAIN body[blk] = 1 .. Len(body[blk])
      BY OpFacts
    <3>2. oi \in DOMAIN body[blk]
      BY <3>1, <2>1
    <3>3. place = <<blk, oi>> /\ op(place) = prog.body[blk][oi]
      BY DEF place, op, body
    <3>4. prog.body[blk][oi].kind = "copy" => Even(prog.body[blk][oi].size)
      BY <3>2, CodeAssumption DEF body, Even
    <3> QED BY <2>1, <3>3, <3>4
  <2>3. i.size = size /\ size \in Nat /\ Straight(<<i>>)
    BY <2>2, <1>1, EvenIsNat DEF Instr, Jumps
  <2> HIDE DEF i, size
  <2>4. After(<<i>>) = ind + size
    BY <2>3, AfterOne
  <2>5. Writes(<<i>>)
    BY <2>1, <2>3, <2>4 DEF Writes
  <2> QED BY <2>1, <2>5
<1>5. CASE EmitCall
  BY <1>5, <1>0, <1>2 DEF EmitCall
<1>6. CASE EmitMov
  <2>1. Straight(Mov(op(place).imm, op(place).dead))
    BY MovStraight
  <2> QED BY <2>1, <1>6, <1>0 DEF EmitMov
<1>7. CASE EmitCmp
  <2>1. PICK v : v = op(place).imm
    OBVIOUS
  <2>2. Straight(Mov(v, FALSE) \o <<Instr("cmpreg", 2, 0)>>)
    BY <1>2, <1>3, MovStraight
  <2>3. \/ Emit(<<Instr("cmps", 2, v)>>) /\ pools' = pools
        \/ Emit(<<Instr("cmp", 4, CHOOSE c \in stuff_const(Bits(v)) : TRUE)>>) /\ pools' = pools
        \/ phase' = "error"
        \/ Emit(Mov(v, FALSE) \o <<Instr("cmpreg", 2, 0)>>) /\ pools' = pools
    BY <1>7, <2>1 DEF EmitCmp, NoRegister
  <2> QED BY <2>2, <2>3, <1>0, <1>2
<1>8. CASE EmitUse
  <2>1. PICK v : v = op(place).imm
    OBVIOUS
  <2>2. Straight(<<Instr("ldr", 2, 0)>> \o Mov(v, FALSE) \o <<Instr("cmpreg", 2, 0)>>)
    BY <1>2, <1>3, MovStraight
  <2>3. \/ phase' = "error"
        \/ Emit(<<Instr("ldr", 2, 0)>> \o Mov(v, FALSE) \o <<Instr("cmpreg", 2, 0)>>) /\ pools' = pools
    BY <1>8, <2>1 DEF EmitUse, NoRegister
  <2> QED BY <2>2, <2>3, <1>0
<1>9. CASE EmitAddPc
  <2>1. PICK v : Emit(Mov(v, FALSE) \o <<Instr("addpc", 2, v)>>) /\ pools' = pools
    BY <1>9 DEF EmitAddPc
  <2>2. Straight(Mov(v, FALSE) \o <<Instr("addpc", 2, v)>>)
    BY <1>2, <1>3, MovStraight
  <2> QED BY <2>1, <2>2, <1>0
<1>10. CASE EmitVldr
  <2>1. /\ op(place).kind = "vldr" /\ pools' = Append(pools, Len(code) + 1) /\ phase' = phase
        /\ code' = code \o Layout(<<Instr("vldr", 4, -1)>>) /\ ind' = ind + 4
    BY <1>10 DEF EmitVldr, AtOp
  <2>2. After(<<Instr("vldr", 4, -1)>>) = ind + 4
    BY AfterOne DEF Instr
  <2>3. Writes(<<Instr("vldr", 4, -1)>>)
    BY <2>1, <2>2, <1>2 DEF Writes
  <2> QED BY <2>1, <2>3
<1> QED BY <1>4, <1>5, <1>6, <1>7, <1>8, <1>9, <1>10 DEF Instructions

\* The handlers of the ops.
LEMMA InstructionsKeepCode ==
  ASSUME TreeTypes, prog \in Functions, CodeInv, Instructions
  PROVE  CodeInv'
<1>1. /\ phase = "emit" /\ bi <= Len(blks) /\ oi <= Len(body[blk]) /\ bi' = bi /\ oi' = oi + 1
      /\ cg' = IF oi = 1 THEN [cg EXCEPT ![blk] = ind] ELSE cg
      /\ blks' = blks /\ graph' = graph /\ flist' = flist /\ prog' = prog
  <2>1. \A kind : AtOp(kind) =>
          /\ phase = "emit" /\ bi <= Len(blks) /\ oi <= Len(body[blk]) /\ bi' = bi /\ oi' = oi + 1
          /\ cg' = IF oi = 1 THEN [cg EXCEPT ![blk] = ind] ELSE cg
          /\ blks' = blks /\ graph' = graph /\ flist' = flist /\ prog' = prog
    BY DEF AtOp
  <2>2. \E kind : AtOp(kind)
    <3>1. EmitCopy \/ EmitCall \/ EmitMov \/ EmitCmp => \E kind : AtOp(kind)
      BY Zenon DEF EmitCopy, EmitCall, EmitMov, EmitCmp
    <3>2. EmitUse \/ EmitVldr => \E kind : AtOp(kind)
      BY Zenon DEF EmitUse, EmitVldr
    <3>3. EmitAddPc => AtOp("addpc")
      BY DEF EmitAddPc
    <3> QED BY <3>1, <3>2, <3>3 DEF Instructions
  <2> QED BY <2>1, <2>2
<1>2. CodeTypes /\ StartsInv /\ EndsInv /\ BranchInv /\ PoolsInv
  BY <1>1 DEF CodeInv, Writing
<1>3. blk \in Block /\ oi \in Nat \ {0}
  BY <1>1, <1>2, BlockPlaces DEF CodeTypes
<1>4. CASE phase' = "error"
  BY <1>4 DEF CodeInv, Writing
<1>5. CASE /\ \E list : Writes(list)
           /\ \/ pools' = pools
              \/ /\ op(place).kind = "vldr" /\ pools' = Append(pools, Len(code) + 1)
                 /\ code' = code \o Layout(<<Instr("vldr", 4, -1)>>)
  <2>1. PICK list : Straight(list) /\ code' = code \o Layout(list) /\ ind' = After(list) /\ phase' = phase
    BY <1>5 DEF Writes
  <2>2. CodeTypes' /\ StartsInv' /\ TailInv' /\ EndsInv' /\ BranchInv'
    BY <2>1, <1>1, <1>2, OpWritten
  <2>3. PoolsInv'
    <3> DEFINE L == Len(code)
    <3>1. L \in Nat /\ DOMAIN code = 1 .. L /\ pools \in Seq(Nat)
      BY <1>2 DEF CodeTypes, PoolsInv
    <3>2. DOMAIN code \subseteq DOMAIN code' /\ \A n \in DOMAIN code : code'[n] = code[n]
      <4>1. Longer(code, code', list, L, Len(list), place, blk, ind, ind')
        BY <2>1, <1>2, Written DEF Straight
      <4> QED BY <4>1, <3>1 DEF Longer
    <3>3. Places' = Places /\ \A p : op(p)' = op(p)
      BY <1>1 DEF Places, op, body
    <3> HIDE DEF L
    <3>4. \A v \in Range(pools) :
            /\ v \in DOMAIN code' /\ code'[v].kind = "vldr"
            /\ code'[v].place \in Places /\ op(code'[v].place).kind = "vldr"
      BY <1>2, <3>2 DEF PoolsInv
    <3>5. CASE pools' = pools
      BY <3>1, <3>3, <3>4, <3>5, <2>1, <1>1 DEF PoolsInv
    <3>6. CASE /\ op(place).kind = "vldr" /\ pools' = Append(pools, L + 1)
               /\ code' = code \o Layout(<<Instr("vldr", 4, -1)>>)
      <4>1. /\ L + 1 \in DOMAIN code' /\ code'[L + 1].kind = "vldr" /\ code'[L + 1].place = place
        <5> DEFINE i == Instr("vldr", 4, -1)
        <5>1. i.kind = "vldr" /\ i.size = 4
          BY DEF Instr
        <5>2. code' = code \o Layout(<<i>>)
          BY <3>6
        <5> HIDE DEF i
        <5>3. /\ <<i>> \in Seq(Range(<<i>>)) /\ Len(<<i>>) = 1 /\ <<i>>[1] = i
              /\ \A n \in DOMAIN <<i>> : Even(<<i>>[n].size)
          BY <5>1, HalfwordSizes DEF Range
        <5>4. Lies(<<i>>, Layout(<<i>>), 1, ind, After(<<i>>)) /\ Layout(<<i>>)[1].place = place
          <6>1. Even(ind)
            BY <1>2 DEF CodeTypes
          <6> DEFINE l == <<i>>
          <6>2. l \in Seq(Range(l)) /\ Len(l) = 1 /\ \A n \in DOMAIN l : Even(l[n].size)
            BY <5>3
          <6> HIDE DEF l
          <6>3. Lies(l, Layout(l), Len(l), ind, After(l)) /\ \A n \in 1 .. Len(l) : Layout(l)[n].place = place
            BY <6>1, <6>2, LaidOut
          <6>4. Lies(l, Layout(l), 1, ind, After(l)) /\ Layout(l)[1].place = place
            BY <6>2, <6>3
          <6> QED BY <6>4 DEF l
        <5>5. /\ Layout(<<i>>) \in Seq(Range(Layout(<<i>>))) /\ Len(Layout(<<i>>)) = 1
              /\ Layout(<<i>>)[1].kind = "vldr"
          BY <5>1, <5>3, <5>4 DEF Lies
        <5>6. Glued(code, Layout(<<i>>), code', L, 1)
          <6>1. code \in Seq(Range(code))
            BY <1>2 DEF CodeTypes
          <6> QED BY <6>1, <5>2, <5>5, CodeGrows DEF L
        <5> QED BY <5>4, <5>5, <5>6 DEF Glued
      <4>2. place \in Places
        <5>1. oi \in 1 .. Len(body[blk])
          BY <1>1, <1>3, OpFacts
        <5> QED BY <5>1, <1>3, OpFacts DEF place
      <4>3. pools' \in Seq(Nat) /\ Range(pools') = Range(pools) \union {L + 1}
        <5>1. L + 1 \in Nat /\ pools' = Append(pools, L + 1)
          BY <3>1, <3>6
        <5> QED BY <3>1, <5>1, Appended
      <4>4. \A v \in Range(pools') :
              /\ v \in DOMAIN code' /\ code'[v].kind = "vldr"
              /\ code'[v].place \in Places /\ op(code'[v].place).kind = "vldr"
        BY <4>1, <4>2, <4>3, <3>4, <3>6
      <4> QED BY <4>3, <4>4, <3>3, <2>1, <1>1 DEF PoolsInv
    <3> QED BY <1>5, <3>5, <3>6 DEF L
  <2> QED BY <2>1, <2>2, <2>3, <1>1 DEF CodeInv, Writing
<1> QED BY <1>3, <1>4, <1>5, InstructionLists

(***************************************************************************)
(* The other steps                                                         *)
(***************************************************************************)
\* What has been written stays, but for the distances and offsets.
Carried(c, d) ==
  /\ DOMAIN c \subseteq DOMAIN d
  /\ \A n \in DOMAIN c : /\ d[n].kind = c[n].kind /\ d[n].place = c[n].place
                         /\ d[n].at = c[n].at /\ d[n].size = c[n].size
  /\ \A n \in DOMAIN d \ DOMAIN c : \A m \in DOMAIN c : m <= n

\* The instructions of a block stay its own.
LEMMA CarriedMine ==
  ASSUME NEW c, NEW d, Carried(c, d), NEW b
  PROVE  /\ Mine(c, b) \subseteq Mine(d, b)
         /\ \A n \in Mine(d, b) \ Mine(c, b) : n \in DOMAIN d \ DOMAIN c
BY DEF Carried, Mine

\* A step that starts no block leaves the blocks where they begin.
LEMMA StartsKept ==
  ASSUME CodeTypes, StartsInv, blks' = blks, cg' = cg, \A k \in 1 .. Len(blks) : HasCode(k)' <=> HasCode(k),
         ind' \in Nat, ind <= ind', Carried(code, code'),
         \A n \in DOMAIN code' \ DOMAIN code : code'[n].kind # "data" =>
           \E k \in 1 .. Len(blks) : HasCode(k) /\ code'[n].place[1] = blks[k]
  PROVE  StartsInv'
<1>1. ASSUME NEW n \in DOMAIN code', code'[n].kind # "data"
      PROVE  \E k \in 1 .. Len(blks) : HasCode(k)' /\ code'[n].place[1] = blks[k]
  <2>1. CASE n \in DOMAIN code
    <3>1. code[n].kind # "data" /\ code'[n].place = code[n].place
      BY <1>1, <2>1 DEF Carried
    <3> QED BY <2>1, <3>1 DEF StartsInv
  <2> QED BY <1>1, <2>1
<1>2. ASSUME NEW k \in 1 .. Len(blks), HasCode(k)
      PROVE  /\ cg[blks[k]] # 0 /\ Even(cg[blks[k]]) /\ Start <= cg[blks[k]] /\ cg[blks[k]] <= ind'
             /\ \E n \in Mine(code', blks[k]) : code'[n].at = cg[blks[k]] /\ \A m \in Mine(code', blks[k]) : n <= m
  <2>1. /\ cg[blks[k]] # 0 /\ Even(cg[blks[k]]) /\ Start <= cg[blks[k]] /\ cg[blks[k]] <= ind
    BY <1>2 DEF StartsInv
  <2>2. PICK n \in Mine(code, blks[k]) : code[n].at = cg[blks[k]] /\ \A m \in Mine(code, blks[k]) : n <= m
    BY <1>2 DEF StartsInv
  <2>3. n \in DOMAIN code /\ code'[n].at = code[n].at
    BY DEF Mine, Carried
  <2>4. \A m \in Mine(code', blks[k]) : n <= m
    BY <2>2, <2>3, CarriedMine DEF Carried
  <2>5. n \in Mine(code', blks[k])
    BY CarriedMine
  <2>6. ind \in Nat /\ cg[blks[k]] \in Nat
    BY <2>1, EvenIsNat DEF CodeTypes
  <2>7. cg[blks[k]] <= ind'
    BY <2>1, <2>6
  <2> QED BY <2>1, <2>2, <2>3, <2>4, <2>5, <2>7
<1>3. \A k \in 1 .. Len(blks) : ~HasCode(k) => cg[blks[k]] = 0
  BY DEF StartsInv
<1> QED BY <1>1, <1>2, <1>3 DEF StartsInv

\* A block that was closed before has its branches where they were.
LEMMA EndsKept ==
  ASSUME NEW k \in 1 .. Len(blks), Ends(k), blks' = blks, graph' = graph, cg' = cg, Len(blks) \in Nat,
         bi \in Nat, bi' \in Nat, bi <= bi', \A j \in 1 .. Len(blks) : HasCode(j)' <=> HasCode(j),
         \A j \in 1 .. Len(blks) : j <= bi => HasCode(j),
         Carried(code, code'), Mine(code', blks[k]) = Mine(code, blks[k])
  PROVE  Ends(k)'
<1>1. \A b : outs(b)' = outs(b)
  BY DEF outs
<1>2. \A n \in Mine(code, blks[k]) : code'[n].kind = code[n].kind /\ code'[n].at = code[n].at /\ code'[n].size = code[n].size
  BY DEF Carried, Mine
<1>3. ASSUME FallsThrough(k) PROVE FallsThrough(k)'
  <2>1. k < bi /\ k + 1 <= Len(blks) /\ blks[k + 1] = outs(blks[k])[1]
    BY <1>3 DEF FallsThrough
  <2>2. k + 1 \in 1 .. Len(blks) /\ HasCode(k + 1) /\ HasCode(k + 1)' /\ k < bi'
    BY <2>1
  <2>3. PICK n \in Mine(code, blks[k]) :
           /\ \A m \in Mine(code, blks[k]) : m <= n
           /\ code[n].at + code[n].size = cg[blks[k + 1]]
    BY <1>3, <2>2 DEF FallsThrough
  <2>4. /\ n \in Mine(code', blks[k]) /\ \A m \in Mine(code', blks[k]) : m <= n
        /\ code'[n].at + code'[n].size = cg'[blks'[k + 1]]
    BY <2>3, <1>2
  <2> QED BY <1>1, <2>1, <2>2, <2>4 DEF FallsThrough
<1>4. (\E n \in Mine(code, blks[k]) : code[n].kind = "b") => \E n \in Mine(code', blks[k]) : code'[n].kind = "b"
  BY <1>2
<1>5. (\E n \in Mine(code, blks[k]) : code[n].kind = "bcond") => \E n \in Mine(code', blks[k]) : code'[n].kind = "bcond"
  BY <1>2
<1> QED BY <1>1, <1>3, <1>4, <1>5 DEF Ends

\* The branch i goes to its block, or waits on the list l, where it has the place n.
Settles(n, i, l) ==
  /\ i.size = 4 /\ Taken(graph, i) \in Block
  /\ (\E f \in Range(l) : f.at = n) \/ (cg[Taken(graph, i)] # 0 /\ Aimed(i, cg[Taken(graph, i)]))

\* A step keeps the branches when every one it writes goes to its block or on the list.
LEMMA BranchesKept ==
  ASSUME BranchInv, graph' = graph, cg' = cg, phase' # "finished", Carried(code, code'),
         \A n \in DOMAIN code : code[n].kind \in Jumps => code'[n] = code[n] \/ Settles(n, code'[n], flist'),
         \A f \in Range(flist) : f \in Range(flist') \/ Settles(f.at, code'[f.at], flist'),
         \A n \in DOMAIN code' \ DOMAIN code : code'[n].kind \in Jumps => Settles(n, code'[n], flist'),
         flist' \in Seq(Range(flist')),
         \A f \in Range(flist') \ Range(flist) :
           f.at \in DOMAIN code' /\ code'[f.at].kind \in Jumps /\ f.to = Taken(graph, code'[f.at])
  PROVE  BranchInv'
<1>1. ASSUME NEW n \in DOMAIN code', code'[n].kind \in Jumps
      PROVE  Settles(n, code'[n], flist')
  <2>1. CASE n \in DOMAIN code /\ code'[n] = code[n]
    <3>1. Settles(n, code[n], flist)
      BY <1>1, <2>1 DEF BranchInv, Settles
    <3>2. CASE \E f \in Range(flist) : f.at = n
      BY <2>1, <3>1, <3>2 DEF Settles
    <3>3. CASE ~\E f \in Range(flist) : f.at = n
      BY <2>1, <3>1, <3>3 DEF Settles
    <3> QED BY <3>2, <3>3
  <2>2. CASE n \in DOMAIN code /\ code'[n] # code[n]
    <3>1. code[n].kind \in Jumps
      BY <1>1, <2>2 DEF Carried
    <3> QED BY <2>2, <3>1
  <2> QED BY <1>1, <2>1, <2>2
<1>2. ASSUME NEW f \in Range(flist')
      PROVE  f.at \in DOMAIN code' /\ code'[f.at].kind \in Jumps /\ f.to = Taken(graph, code'[f.at])
  <2>1. CASE f \in Range(flist)
    <3>1. f.at \in DOMAIN code /\ code[f.at].kind \in Jumps /\ f.to = Taken(graph, code[f.at])
      BY <2>1 DEF BranchInv
    <3> QED BY <3>1 DEF Carried, Taken
  <2> QED BY <2>1
<1> QED BY <1>1, <1>2 DEF BranchInv, Settles

\* A field of one item is written.
SetsArg(c, v, x, d) == d = [c EXCEPT ![v].arg = x]
HasArg(c, v, x, d) ==
  /\ d \in Seq(Range(d)) /\ Len(d) = Len(c) /\ DOMAIN d = DOMAIN c /\ Carried(c, d)
  /\ Item(d[v]) /\ d[v].arg = x /\ \A n \in DOMAIN c : n # v => d[n] = c[n]

\* A distance or an offset is filled in: the rest of the code stays.
LEMMA ArgSet ==
  ASSUME NEW c, c \in Seq(Range(c)), NEW v \in DOMAIN c, Item(c[v]), NEW x, NEW d, SetsArg(c, v, x, d)
  PROVE  HasArg(c, v, x, d)
<1>0. d = [c EXCEPT ![v].arg = x]
  BY DEF SetsArg
<1>1. DOMAIN d = DOMAIN c /\ d[v] = [c[v] EXCEPT !.arg = x] /\ \A n \in DOMAIN c : n # v => d[n] = c[n]
  BY <1>0
<1>2. /\ d[v].kind = c[v].kind /\ d[v].place = c[v].place /\ d[v].at = c[v].at /\ d[v].size = c[v].size
      /\ d[v].arg = x /\ Item(d[v])
  BY <1>1 DEF Item
<1>3. Len(c) \in Nat /\ DOMAIN c = 1 .. Len(c)
  OBVIOUS
<1>4. d \in Seq(Range(d)) /\ Len(d) = Len(c)
  <2>1. d = [n \in 1 .. Len(c) |-> d[n]]
    BY <1>0, <1>3
  <2>2. \A n \in 1 .. Len(c) : d[n] \in Range(d)
    BY <1>1, <1>3 DEF Range
  <2> QED BY ONLY <1>3, <2>1, <2>2, MakesSeq
<1>5. Carried(c, d)
  BY <1>1, <1>2 DEF Carried
<1> QED BY <1>1, <1>2, <1>4, <1>5 DEF HasArg

\* One more item is written behind.
Added(c, i, d) ==
  /\ d \in Seq(Range(d)) /\ Len(c) \in Nat /\ DOMAIN c = 1 .. Len(c) /\ Len(d) = Len(c) + 1
  /\ DOMAIN d = 1 .. Len(c) + 1 /\ d[Len(c) + 1] = i /\ \A n \in 1 .. Len(c) : d[n] = c[n]

\* One more item: the others stay.
LEMMA ItemAdded ==
  ASSUME NEW c, c \in Seq(Range(c)), NEW i, NEW d, d = Append(c, i)
  PROVE  Added(c, i, d)
<1>1. /\ Len(c) \in Nat /\ DOMAIN c = 1 .. Len(c) /\ Len(d) = Len(c) + 1
      /\ DOMAIN d = 1 .. Len(c) + 1 /\ d[Len(c) + 1] = i /\ \A n \in 1 .. Len(c) : d[n] = c[n]
  OBVIOUS
<1>2. d \in Seq(Range(c) \union {i})
  OBVIOUS
<1>3. d \in Seq(Range(d))
  BY <1>1, <1>2 DEF Range
<1> QED BY <1>1, <1>3 DEF Added

\* The branches are written: the next block begins, or the data of the vldrs comes.
LEMMA CountsKept ==
  ASSUME CodeTypes, blks' = blks, oi > 1 \/ bi = Len(blks) + 1,
         \/ bi <= Len(blks) /\ NextBlock
         \/ bi' = bi /\ oi' = oi /\ phase' \in Writing /\ (phase' \in {"emit", "vldr"} <=> bi <= Len(blks))
  PROVE  /\ bi' \in Nat \ {0} /\ oi' \in Nat \ {0} /\ bi' <= Len(blks) + 1 /\ Len(blks) \in Nat /\ bi \in Nat
         /\ phase' \in {"emit", "vldr"} <=> bi' <= Len(blks)
         /\ phase' \in Writing /\ bi <= bi'
         /\ \A k \in 1 .. Len(blks) : (HasCode(k)' <=> HasCode(k)) /\ (HasCode(k) <=> k <= bi)
<1>1. bi \in Nat \ {0} /\ oi \in Nat \ {0} /\ bi <= Len(blks) + 1 /\ Len(blks) \in Nat
  BY DEF CodeTypes
<1>2. CASE bi <= Len(blks) /\ NextBlock
  <2>1. bi' = bi + 1 /\ oi' = 1 /\ phase' = IF bi = Len(blks) THEN "fix" ELSE "emit"
    BY <1>2 DEF NextBlock
  <2>2. \A k \in 1 .. Len(blks) : (HasCode(k)' <=> k <= bi) /\ (HasCode(k) <=> k <= bi)
    BY <2>1, <1>1, <1>2 DEF HasCode
  <2> QED BY <2>1, <2>2, <1>1, <1>2 DEF Writing
<1>3. CASE bi' = bi /\ oi' = oi /\ phase' \in Writing /\ (phase' \in {"emit", "vldr"} <=> bi <= Len(blks))
  <2>1. \A k \in 1 .. Len(blks) : (HasCode(k)' <=> HasCode(k)) /\ (HasCode(k) <=> k <= bi)
    BY <1>1, <1>3 DEF HasCode
  <2> QED BY <2>1, <1>1, <1>3
<1> QED BY <1>2, <1>3

\* The end of a block without out edges.
LEMMA ExitKeepsCode ==
  ASSUME TreeTypes, prog \in Functions, CodeInv, EndExit
  PROVE  CodeInv'
<1>1. /\ phase = "emit" /\ bi <= Len(blks) /\ oi > Len(body[blk]) /\ is_end(blk) /\ pools' = << >> /\ NextBlock
      /\ prog' = prog /\ graph' = graph /\ blks' = blks /\ cg' = cg /\ code' = code /\ ind' = ind /\ flist' = flist
  BY DEF EndExit, livevars
<1>2. CodeTypes /\ StartsInv /\ EndsInv /\ BranchInv
  BY <1>1 DEF CodeInv, Writing
<1>3. blk \in Block /\ blk = blks[bi] /\ bi \in 1 .. Len(blks)
  BY <1>1, <1>2, BlockPlaces
<1>4. oi > 1 /\ oi \in Nat
  BY <1>1, <1>2, <1>3, OpFacts DEF CodeTypes
<1>5. /\ bi' \in Nat \ {0} /\ oi' \in Nat \ {0} /\ bi' <= Len(blks) + 1 /\ Len(blks) \in Nat /\ bi \in Nat
      /\ phase' \in {"emit", "vldr"} <=> bi' <= Len(blks)
      /\ phase' \in Writing /\ bi <= bi'
      /\ \A k \in 1 .. Len(blks) : (HasCode(k)' <=> HasCode(k)) /\ (HasCode(k) <=> k <= bi)
  BY <1>1, <1>2, <1>4, CountsKept
<1>6. bi' = bi + 1 /\ oi' = 1 /\ phase' \in {"fix", "emit"}
  BY <1>1 DEF NextBlock
<1>7. Carried(code, code)
  BY DEF Carried
<1>8. CodeTypes'
  BY <1>1, <1>2, <1>5, <1>6 DEF CodeTypes
<1>9. StartsInv'
  <2>1. ind \in Nat
    BY <1>2, EvenIsNat DEF CodeTypes
  <2> QED BY <2>1, <1>1, <1>2, <1>5, <1>7, StartsKept
<1>10. EndsInv'
  <2>1. \A b : is_end(b)' <=> is_end(b)
    BY <1>1 DEF is_end
  <2>2. ASSUME NEW k \in 1 .. Len(blks), IsClosed(k)', ~is_end(blks[k]) PROVE Ends(k)'
    <3>1. k < bi
      BY <2>2, <1>1, <1>3, <1>5, <1>6 DEF IsClosed
    <3>2. Ends(k)
      BY <2>2, <3>1, <1>2 DEF EndsInv, IsClosed
    <3> QED BY <3>2, <1>1, <1>5, <1>7, EndsKept
  <2> QED BY <2>1, <2>2, <1>1 DEF EndsInv
<1>11. BranchInv'
  BY <1>1, <1>2, <1>6 DEF BranchInv, Taken, Aimed
<1>12. PoolsInv' /\ TailInv'
  BY <1>1, <1>6 DEF PoolsInv, TailInv, Range
<1> QED BY <1>5, <1>8, <1>9, <1>10, <1>11, <1>12 DEF CodeInv, Writing

(***************************************************************************)
(* The branches at the end of a block                                      *)
(***************************************************************************)
\* The branch i, written at an address, is one of block b's; or else it waits for its distance.
Turn(i, b, at) ==
  LET t == outs(b)[IF i.kind = "bcond" THEN 2 ELSE 1]
  IN  /\ i.size = 4 /\ i.kind \in Jumps /\ t \in Block
      /\ (IF i.kind = "bcond" THEN 2 ELSE 1) \in 1 .. Len(outs(b))
      /\ i.arg = -1 \/ (/\ cg[t] # 0
                        /\ i.kind = "bcond" => i.arg = encbranch(at, cg[t]) /\ ~TooFar(at, cg[t])
                        /\ i.kind = "b" => i.arg = encbranch2(at, cg[t]))

Uncond(at) == IF add_jmp THEN <<Branch("b", at, outs(blk)[1])>> ELSE << >>

\* The branches that run_block writes behind a block: they go to its successors, and there is
\* one for the second edge, and one for the first unless that block comes next.
LEMMA EndBranches ==
  ASSUME outs(blk) \in Seq(Block), outs(blk) # << >>, ind \in Nat,
         NEW list, list = Conditional \o Uncond(ind + 4 * Len(Conditional)),
         ~(Conditional # << >> /\ Refused("bcond", ind, outs(blk)[2]))
  PROVE  /\ list \in Seq(Range(list)) /\ Len(list) \in 0 .. 2
         /\ \A n \in 1 .. Len(list) : Turn(list[n], blk, ind + 4 * (n - 1))
         /\ Len(outs(blk)) = 2 => \E n \in 1 .. Len(list) : list[n].kind = "bcond"
         /\ add_jmp => \E n \in 1 .. Len(list) : list[n].kind = "b"
<1> DEFINE c == Branch("bcond", ind, outs(blk)[2])
           at == ind + 4 * Len(Conditional)
           j == Branch("b", at, outs(blk)[1])
           C == Conditional
           U == Uncond(at)
<1>1. Len(outs(blk)) \in Nat /\ Len(outs(blk)) # 0 /\ \A n \in 1 .. Len(outs(blk)) : outs(blk)[n] \in Block
  BY EmptySeq
<1>2. C = IF Len(outs(blk)) = 2 THEN <<c>> ELSE << >>
  BY DEF Conditional
<1>3. U = IF add_jmp THEN <<j>> ELSE << >>
  BY DEF Uncond
<1>4. ASSUME Len(outs(blk)) = 2 PROVE c.kind = "bcond" /\ Turn(c, blk, ind)
  <2>1. C # << >>
    BY <1>4, <1>2
  <2>2. ~Refused("bcond", ind, outs(blk)[2]) /\ outs(blk)[2] \in Block /\ 2 \in 1 .. Len(outs(blk))
    BY <2>1, <1>1, <1>4
  <2> HIDE DEF C
  <2> QED BY <2>2 DEF Branch, Instr, Refused, Turn, Jumps
<1>5. j.kind = "b" /\ Turn(j, blk, at)
  <2>1. outs(blk)[1] \in Block /\ 1 \in 1 .. Len(outs(blk))
    BY <1>1
  <2> HIDE DEF at
  <2> QED BY <2>1 DEF Branch, Instr, Turn, Jumps
<1> HIDE DEF c, j
<1>6. /\ C \in Seq(Range(C)) /\ Len(C) \in 0 .. 1 /\ U \in Seq(Range(U)) /\ Len(U) \in 0 .. 1
      /\ Len(C) = 1 => C[1] = c /\ Len(outs(blk)) = 2
      /\ Len(U) = 1 => U[1] = j
      /\ Len(outs(blk)) = 2 => Len(C) = 1
      /\ add_jmp => Len(U) = 1
  <2>1. \A x : <<x>> \in Seq(Range(<<x>>)) /\ Len(<<x>>) = 1 /\ <<x>>[1] = x
    BY DEF Range
  <2>2. << >> \in Seq(Range(<< >>)) /\ Len(<< >>) = 0
    OBVIOUS
  <2>3. (C = <<c>> /\ Len(outs(blk)) = 2) \/ (C = << >> /\ Len(outs(blk)) # 2)
    BY <1>2
  <2>4. U = <<j>> \/ (U = << >> /\ ~add_jmp)
    BY <1>3
  <2> HIDE DEF C, U
  <2>5. /\ C \in Seq(Range(C)) /\ Len(C) \in 0 .. 1
        /\ Len(C) = 1 => C[1] = c /\ Len(outs(blk)) = 2
        /\ Len(outs(blk)) = 2 => Len(C) = 1
    <3>1. CASE C = <<c>> /\ Len(outs(blk)) = 2
      <4>1. <<c>> \in Seq(Range(<<c>>)) /\ Len(<<c>>) = 1 /\ <<c>>[1] = c
        BY <2>1
      <4> QED BY ONLY <3>1, <4>1
    <3>2. CASE C = << >> /\ Len(outs(blk)) # 2
      BY ONLY <3>2, <2>2
    <3> QED BY ONLY <3>1, <3>2, <2>3
  <2>6. /\ U \in Seq(Range(U)) /\ Len(U) \in 0 .. 1
        /\ Len(U) = 1 => U[1] = j
        /\ add_jmp => Len(U) = 1
    <3>1. CASE U = <<j>>
      <4>1. <<j>> \in Seq(Range(<<j>>)) /\ Len(<<j>>) = 1 /\ <<j>>[1] = j
        BY <2>1
      <4> QED BY ONLY <3>1, <4>1
    <3>2. CASE U = << >> /\ ~add_jmp
      BY ONLY <3>2, <2>2
    <3> QED BY ONLY <3>1, <3>2, <2>4
  <2> QED BY ONLY <2>5, <2>6
<1>7. at = ind + 4 * Len(C) /\ list = C \o U
  OBVIOUS
<1> DEFINE K == Len(C)
           M == Len(U)
<1> HIDE DEF C, U, at
<1>8. Glued(C, U, list, K, M)
  BY <1>6, <1>7, CodeGrows
<1>9. /\ K \in 0 .. 1 /\ M \in 0 .. 1 /\ at = ind + 4 * K
      /\ K = 1 => C[1] = c /\ Len(outs(blk)) = 2
      /\ M = 1 => U[1] = j
      /\ Len(outs(blk)) = 2 => K = 1
      /\ add_jmp => M = 1
  BY <1>6, <1>7
<1> HIDE DEF K, M
<1>10. /\ list \in Seq(Range(list)) /\ Len(list) = K + M
       /\ \A n \in 1 .. K : list[n] = C[n]
       /\ \A n \in 1 .. M : list[K + n] = U[n]
  BY <1>8 DEF Glued
<1>11. ASSUME K = 1 PROVE 1 \in 1 .. Len(list) /\ list[1] = c /\ Len(outs(blk)) = 2
  <2>1. 1 \in 1 .. K /\ 1 \in 1 .. Len(list)
    BY <1>9, <1>10, <1>11
  <2> QED BY <2>1, <1>9, <1>10, <1>11
<1>12. ASSUME M = 1 PROVE K + 1 \in 1 .. Len(list) /\ list[K + 1] = j
  <2>1. 1 \in 1 .. M /\ K + 1 \in 1 .. Len(list)
    BY <1>9, <1>10, <1>12
  <2> QED BY <2>1, <1>9, <1>10, <1>12
<1>13. ASSUME NEW n \in 1 .. Len(list) PROVE Turn(list[n], blk, ind + 4 * (n - 1))
  <2>1. (K = 1 /\ n = 1) \/ (M = 1 /\ n = K + 1)
    BY <1>9, <1>10
  <2>2. CASE K = 1 /\ n = 1
    <3>1. ind + 4 * (n - 1) = ind
      BY <2>2
    <3> QED BY <2>2, <3>1, <1>4, <1>11
  <2>3. CASE M = 1 /\ n = K + 1
    <3>1. ind + 4 * (n - 1) = at
      BY <2>3, <1>9
    <3> QED BY <2>3, <3>1, <1>5, <1>12
  <2> QED BY <2>1, <2>2, <2>3
<1>14. Len(outs(blk)) = 2 => \E n \in 1 .. Len(list) : list[n].kind = "bcond"
  BY <1>4, <1>9, <1>11
<1>15. add_jmp => \E n \in 1 .. Len(list) : list[n].kind = "b"
  BY <1>5, <1>9, <1>12
<1>16. Len(list) \in 0 .. 2
  BY <1>9, <1>10
<1> QED BY <1>10, <1>13, <1>14, <1>15, <1>16

\* The branches of the list that have no distance go on fix_list.
Entry(list, i) ==
  [at |-> Len(code) + i, to |-> outs(blk)[IF list[i].kind = "bcond" THEN 2 ELSE 1]]

\* What is on the list behind a block.
LEMMA Listing ==
  ASSUME NEW list, list \in Seq(Range(list)), flist \in Seq(Range(flist)),
         NEW open, open = Sublist([i \in DOMAIN list |-> i], {i \in DOMAIN list : list[i].arg = -1}),
         NEW l, l = flist \o [k \in DOMAIN open |-> Entry(list, open[k])]
  PROVE  /\ l \in Seq(Range(l))
         /\ Range(l) = Range(flist) \union {Entry(list, i) : i \in {i \in 1 .. Len(list) : list[i].arg = -1}}
<1> DEFINE N == Len(list)
           s == [i \in DOMAIN list |-> i]
           T == {i \in DOMAIN list : list[i].arg = -1}
           e == [k \in DOMAIN open |-> Entry(list, open[k])]
<1>1. N \in Nat /\ DOMAIN list = 1 .. N
  OBVIOUS
<1>2. s \in Seq(Nat) /\ Range(s) = 1 .. N /\ T \subseteq 1 .. N
  BY <1>1 DEF Range
<1> HIDE DEF s
<1>3. open \in Seq(Nat) /\ Range(open) = T
  <2>1. open = Sublist(s, T)
    BY DEF s
  <2>2. T \subseteq 1 .. N
    BY <1>2
  <2> HIDE DEF T, N, e
  <2>3. open \in Seq(Nat) /\ Range(open) = Range(s) \intersect T
    BY ONLY <2>1, <1>2, SublistOf
  <2> QED BY <2>2, <2>3, <1>2
<1>4. e \in Seq(Range(e)) /\ Range(e) = {Entry(list, i) : i \in T}
  <2>1. Len(open) \in Nat /\ DOMAIN open = 1 .. Len(open)
    BY <1>3
  <2>2. e = [n \in 1 .. Len(open) |-> e[n]] /\ \A n \in 1 .. Len(open) : e[n] = Entry(list, open[n])
    BY <2>1
  <2>3. DOMAIN e = 1 .. Len(open)
    BY <2>1
  <2> HIDE DEF e, T
  <2>4. e \in Seq(Range(e))
    <3>1. \A n \in 1 .. Len(open) : e[n] \in Range(e)
      BY <2>3 DEF Range
    <3> QED BY ONLY <2>1, <2>2, <3>1, MakesSeq
  <2>5. Range(e) = {e[n] : n \in 1 .. Len(open)}
    BY <2>3 DEF Range
  <2>6. Range(open) = {open[n] : n \in 1 .. Len(open)}
    BY <2>1 DEF Range
  <2>7. {e[n] : n \in 1 .. Len(open)} = {Entry(list, i) : i \in T}
    <3>1. \A n \in 1 .. Len(open) : open[n] \in T /\ e[n] = Entry(list, open[n])
      BY <2>2, <2>6, <1>3
    <3>2. \A i \in T : \E n \in 1 .. Len(open) : open[n] = i
      BY <2>6, <1>3
    <3> DEFINE D == 1 .. Len(open)
               h(i) == Entry(list, i)
    <3>3. \A n \in D : open[n] \in T /\ e[n] = h(open[n])
      BY <3>1
    <3>4. \A i \in T : \E n \in D : open[n] = i
      BY <3>2
    <3> HIDE DEF D, h
    <3>5. {e[n] : n \in D} = {h(i) : i \in T}
      BY ONLY <3>3, <3>4
    <3> QED BY <3>5 DEF D, h
  <2> QED BY <2>4, <2>5, <2>7
<1>5. l = flist \o e
  OBVIOUS
<1> HIDE DEF e
<1>6. Range(l) = Range(flist) \union Range(e)
  <2> DEFINE S == Range(flist) \union Range(e)
  <2>1. flist \in Seq(S) /\ e \in Seq(S)
    BY <1>4
  <2> HIDE DEF S
  <2>2. Range(flist \o e) = Range(flist) \union Range(e)
    BY ONLY <2>1, RangeConcatenation
  <2> QED BY ONLY <2>2, <1>5
<1>7. l \in Seq(Range(l))
  <2>1. Glued(flist, e, l, Len(flist), Len(e))
    BY <1>4, <1>5, CodeGrows
  <2> QED BY <2>1 DEF Glued
<1>8. T = {i \in 1 .. Len(list) : list[i].arg = -1}
  BY <1>1
<1> QED BY <1>4, <1>6, <1>7, <1>8

\* The branches that have no distance yet.
Waits(list) == Sublist([i \in DOMAIN list |-> i], {i \in DOMAIN list : list[i].arg = -1})

\* The branches of the list are written behind the code.
Closes(list) ==
  /\ list = Conditional \o Uncond(ind + 4 * Len(Conditional))
  /\ ~(Conditional # << >> /\ Refused("bcond", ind, outs(blk)[2]))
  /\ code' = code \o Layout(list) /\ ind' = After(list)
  /\ flist' = flist \o [k \in DOMAIN Waits(list) |-> Entry(list, Waits(list)[k])]

\* What a step of EndBlock does.
LEMMA BlockWrites ==
  ASSUME EndBlock
  PROVE  /\ phase = "emit" /\ bi <= Len(blks) /\ oi > Len(body[blk]) /\ ~is_end(blk)
         /\ graph' = graph /\ blks' = blks /\ cg' = cg /\ pools' = pools /\ prog' = prog
         /\ phase' = "error" \/ ((\E list : Closes(list)) /\ IF pools = << >> THEN NextBlock ELSE phase' = "vldr" /\ UNCHANGED <<bi, oi>>)
<1>1. /\ phase = "emit" /\ bi <= Len(blks) /\ oi > Len(body[blk]) /\ ~is_end(blk)
      /\ graph' = graph /\ blks' = blks /\ cg' = cg /\ pools' = pools /\ prog' = prog
  BY DEF EndBlock, livevars
<1> DEFINE list == Conditional \o Uncond(ind + 4 * Len(Conditional))
<1>2. ASSUME phase' # "error"
      PROVE  Closes(list) /\ IF pools = << >> THEN NextBlock ELSE phase' = "vldr" /\ UNCHANGED <<bi, oi>>
  BY <1>2 DEF EndBlock, Closes, Uncond, Waits, Entry
<1> QED BY <1>1, <1>2

\* The end of a block with out edges.
LEMMA BlockKeepsCode ==
  ASSUME Walked, CodeInv, EndBlock
  PROVE  CodeInv'
<1>1. /\ phase = "emit" /\ bi <= Len(blks) /\ oi > Len(body[blk]) /\ ~is_end(blk)
      /\ graph' = graph /\ blks' = blks /\ cg' = cg /\ pools' = pools /\ prog' = prog
      /\ phase' = "error" \/ ((\E list : Closes(list)) /\ IF pools = << >> THEN NextBlock ELSE phase' = "vldr" /\ UNCHANGED <<bi, oi>>)
  BY BlockWrites
<1>2. CASE phase' = "error"
  BY <1>2 DEF CodeInv, Writing
<1>3. CASE phase' # "error"
  <2> PICK list : Closes(list)
    BY <1>1, <1>3
  <2>1. IF pools = << >> THEN NextBlock ELSE phase' = "vldr" /\ UNCHANGED <<bi, oi>>
    BY <1>1, <1>3
  <2>2. CodeTypes /\ StartsInv /\ TailInv /\ EndsInv /\ BranchInv /\ PoolsInv
    BY <1>1 DEF CodeInv, Writing
  <2>3. /\ Len(blks) \in Nat /\ DOMAIN blks = 1 .. Len(blks) /\ bi \in 1 .. Len(blks)
        /\ blk = blks[bi] /\ blk \in Block
        /\ \A j, k \in 1 .. Len(blks) : blks[j] = blks[k] => j = k
        /\ \A k \in 1 .. Len(blks) : blks[k] \in Block
    BY <1>1, <2>2, BlockPlaces
  <2>4. oi > 1 /\ oi \in Nat /\ ind \in Nat /\ Even(ind) /\ Start <= ind
    BY <1>1, <2>2, <2>3, OpFacts, EvenIsNat DEF CodeTypes, Walked
  <2>5. outs(blk) \in Seq(Block) /\ outs(blk) # << >> /\ DOMAIN outs(blk) = 1 .. Len(outs(blk)) /\ Len(outs(blk)) \in Nat
    <3>1. outs(blk) \in Seq(Block) /\ DOMAIN outs(blk) = DOMAIN graph.out[blk] /\ Len(outs(blk)) \in Nat
      BY <2>3, OutsAre
    <3>2. graph.out[blk] # << >> /\ graph.out[blk] \in Seq(HalfEdge(Block, Labels))
      BY <1>1, <2>3 DEF is_end, Walked, TreeTypes, TypeOK, Graph
    <3> QED BY <3>1, <3>2
  <2> DEFINE L == Len(code)
             N == Len(list)
  <2>6. /\ list \in Seq(Range(list)) /\ N \in 0 .. 2
        /\ \A n \in 1 .. N : Turn(list[n], blk, ind + 4 * (n - 1))
        /\ Len(outs(blk)) = 2 => \E n \in 1 .. N : list[n].kind = "bcond"
        /\ add_jmp => \E n \in 1 .. N : list[n].kind = "b"
    BY <2>4, <2>5, EndBranches DEF Closes
  <2>7. \A n \in 1 .. N : list[n].size = 4 /\ list[n].kind \in Jumps
    BY <2>6 DEF Turn
  <2>8. Longer(code, code', list, L, N, place, blk, ind, ind')
    <3>1. \A n \in DOMAIN list : Even(list[n].size) /\ list[n].kind # "data"
      BY <2>6, <2>7, HalfwordSizes DEF Jumps
    <3> QED BY <3>1, <2>2, <2>6, Written DEF Closes
  <2>9. /\ flist' \in Seq(Range(flist'))
        /\ Range(flist') = Range(flist) \union {Entry(list, i) : i \in {i \in 1 .. N : list[i].arg = -1}}
    <3>1. flist \in Seq(Range(flist)) /\ flist' = flist \o [k \in DOMAIN Waits(list) |-> Entry(list, Waits(list)[k])]
      BY <2>2 DEF BranchInv, Closes
    <3> QED BY <3>1, <2>6, Listing DEF Waits
  <2>10. /\ bi' \in Nat \ {0} /\ oi' \in Nat \ {0} /\ bi' <= Len(blks) + 1
         /\ phase' \in {"emit", "vldr"} <=> bi' <= Len(blks)
         /\ phase' \in Writing /\ bi <= bi'
         /\ \A k \in 1 .. Len(blks) : (HasCode(k)' <=> HasCode(k)) /\ (HasCode(k) <=> k <= bi)
    <3>1. CASE pools = << >>
      BY <3>1, <1>1, <2>1, <2>2, <2>4, CountsKept
    <3>2. CASE pools # << >>
      BY <3>2, <1>1, <2>1, <2>2, <2>4, CountsKept DEF Writing
    <3> QED BY <3>1, <3>2
  <2>11. \/ pools = << >> /\ bi' = bi + 1 /\ oi' = 1 /\ phase' \in {"fix", "emit"}
         \/ pools # << >> /\ bi' = bi /\ oi' = oi /\ phase' = "vldr"
    BY <2>1 DEF NextBlock
  <2> HIDE DEF L, N
  <2>12. /\ L \in Nat /\ N \in 0 .. 2 /\ DOMAIN code = 1 .. L /\ DOMAIN code' = 1 .. L + N /\ Len(code') = L + N
         /\ code' \in Seq(Range(code')) /\ Even(ind') /\ Start <= ind' /\ ind <= ind'
         /\ \A n \in 1 .. L : code'[n] = code[n] /\ n \in 1 .. L + N
         /\ \A n \in L + 1 .. L + N :
              /\ n \in 1 .. L + N /\ n \notin 1 .. L /\ n - L \in 1 .. N /\ code'[n].place = place
              /\ code'[n].kind = list[n - L].kind /\ code'[n].size = list[n - L].size /\ code'[n].arg = list[n - L].arg
         /\ \A n \in 1 .. L + N : n \in 1 .. L \/ n \in L + 1 .. L + N
         /\ \A n \in 1 .. L + N :
              /\ Item(code'[n]) /\ Even(code'[n].at) /\ Start <= code'[n].at
              /\ code'[n].size \in Nat /\ code'[n].at + code'[n].size <= ind'
    BY <2>6, <2>8 DEF Longer
  <2>13. /\ \A a : a # blk => Mine(code', a) = Mine(code, a)
         /\ Mine(code', blk) = Mine(code, blk) \union (L + 1 .. L + N)
    BY <2>8 DEF Longer
  <2>14. /\ N >= 1 => code'[L + 1].at = ind /\ code'[L + N].at + code'[L + N].size = ind'
         /\ N >= 2 => code'[L + 2].at = ind + list[1].size
    BY <2>8 DEF Longer
  <2>15. Carried(code, code')
    BY <2>12 DEF Carried
  <2>16. \A n \in L + 1 .. L + N : Turn(list[n - L], blk, code'[n].at)
    <3> SUFFICES ASSUME NEW n \in L + 1 .. L + N PROVE Turn(list[n - L], blk, code'[n].at)
      OBVIOUS
    <3>1. n - L \in 1 .. N /\ Turn(list[n - L], blk, ind + 4 * (n - L - 1))
      BY <2>6, <2>12 DEF N
    <3>2. (n = L + 1 /\ N >= 1) \/ (n = L + 2 /\ N >= 2)
      BY <2>12
    <3>3. N >= 2 => list[1].size = 4
      BY <2>7, <2>12 DEF N
    <3>4. code'[n].at = ind + 4 * (n - L - 1)
      BY <3>2, <3>3, <2>4, <2>12, <2>14
    <3> QED BY <3>1, <3>4
  <2>17. \A n \in L + 1 .. L + N :
            /\ code'[n].kind \in Jumps /\ code'[n].place[1] = blk
            /\ Taken(graph, code'[n]) = outs(blk)[IF list[n - L].kind = "bcond" THEN 2 ELSE 1]
    <3> SUFFICES ASSUME NEW n \in L + 1 .. L + N
                 PROVE  /\ code'[n].kind \in Jumps /\ code'[n].place[1] = blk
                        /\ Taken(graph, code'[n]) = outs(blk)[IF list[n - L].kind = "bcond" THEN 2 ELSE 1]
      OBVIOUS
    <3>1. code'[n].kind = list[n - L].kind /\ code'[n].place[1] = blk
      BY <2>12 DEF place
    <3>2. list[n - L].kind \in Jumps /\ (IF list[n - L].kind = "bcond" THEN 2 ELSE 1) \in DOMAIN outs(blk)
      BY <2>5, <2>16 DEF Turn
    <3> QED BY <3>1, <3>2 DEF Taken, outs
  <2>18. \A n \in L + 1 .. L + N : list[n - L].arg = -1 => \E f \in Range(flist') : f.at = n
    <3> SUFFICES ASSUME NEW n \in L + 1 .. L + N, list[n - L].arg = -1 PROVE \E f \in Range(flist') : f.at = n
      OBVIOUS
    <3>1. n - L \in 1 .. N /\ L + (n - L) = n
      BY <2>12
    <3>2. Entry(list, n - L) \in Range(flist')
      BY <3>1, <2>9 DEF N
    <3>3. Entry(list, n - L).at = n
      BY <3>1 DEF Entry, L
    <3> QED BY <3>2, <3>3
  <2>19. \A n \in L + 1 .. L + N : Settles(n, code'[n], flist')
    <3> SUFFICES ASSUME NEW n \in L + 1 .. L + N PROVE Settles(n, code'[n], flist')
      OBVIOUS
    <3> DEFINE i == list[n - L]
               t == outs(blk)[IF i.kind = "bcond" THEN 2 ELSE 1]
    <3>1. /\ i.size = 4 /\ t \in Block
          /\ i.arg = -1 \/ (/\ cg[t] # 0
                            /\ i.kind = "bcond" => i.arg = encbranch(code'[n].at, cg[t]) /\ ~TooFar(code'[n].at, cg[t])
                            /\ i.kind = "b" => i.arg = encbranch2(code'[n].at, cg[t]))
      BY <2>16 DEF Turn
    <3>2. code'[n].kind = i.kind /\ code'[n].size = i.size /\ code'[n].arg = i.arg /\ Taken(graph, code'[n]) = t
      BY <2>12, <2>17
    <3>3. i.arg = -1 => \E f \in Range(flist') : f.at = n
      BY <2>18
    <3> HIDE DEF i, t
    <3> QED BY <3>1, <3>2, <3>3 DEF Settles, Aimed
  <2>20. CodeTypes'
    BY <1>1, <2>2, <2>10, <2>11, <2>12, <2>4 DEF CodeTypes
  <2>21. StartsInv'
    <3>1. \A n \in DOMAIN code' \ DOMAIN code : code'[n].kind # "data" =>
            \E k \in 1 .. Len(blks) : HasCode(k) /\ code'[n].place[1] = blks[k]
      <4>1. \A n \in DOMAIN code' \ DOMAIN code : code'[n].place[1] = blks[bi]
        BY <2>3, <2>12, <2>17
      <4>2. HasCode(bi)
        BY <2>3, <2>10
      <4> QED BY <4>1, <4>2, <2>3
    <3>2. ind' \in Nat
      BY <2>12, EvenIsNat
    <3> QED BY <3>1, <3>2, <1>1, <2>2, <2>10, <2>12, <2>15, StartsKept
  <2>22. BranchInv'
    <3>1. phase' # "finished"
      BY <2>11
    <3>2. \A n \in DOMAIN code' \ DOMAIN code : code'[n].kind \in Jumps => Settles(n, code'[n], flist')
      BY <2>12, <2>19
    <3>3. \A f \in Range(flist') \ Range(flist) :
             f.at \in DOMAIN code' /\ code'[f.at].kind \in Jumps /\ f.to = Taken(graph, code'[f.at])
      <4> SUFFICES ASSUME NEW j \in 1 .. N, NEW f, f = Entry(list, j)
                   PROVE  f.at \in DOMAIN code' /\ code'[f.at].kind \in Jumps /\ f.to = Taken(graph, code'[f.at])
        BY <2>9 DEF N
      <4>1. f.at = L + j /\ f.to = outs(blk)[IF list[j].kind = "bcond" THEN 2 ELSE 1]
        BY DEF Entry, L
      <4>2. L + j \in L + 1 .. L + N /\ L + j - L = j
        BY <2>12
      <4>3. /\ code'[L + j].kind \in Jumps /\ L + j \in DOMAIN code'
            /\ Taken(graph, code'[L + j]) = outs(blk)[IF list[j].kind = "bcond" THEN 2 ELSE 1]
        BY <4>2, <2>12, <2>17
      <4> QED BY ONLY <4>1, <4>3
    <3>4. \A n \in DOMAIN code : code'[n] = code[n]
      BY <2>12
    <3>5. \A f \in Range(flist) : f \in Range(flist')
      BY <2>9
    <3> QED BY <3>1, <3>2, <3>3, <3>4, <3>5, <1>1, <2>2, <2>9, <2>15, BranchesKept
  <2>23. PoolsInv'
    <3>1. Places' = Places /\ \A p : op(p)' = op(p)
      BY <1>1 DEF Places, op, body
    <3>2. \A v \in Range(pools) :
            /\ v \in DOMAIN code' /\ code'[v].kind = "vldr"
            /\ code'[v].place \in Places /\ op(code'[v].place).kind = "vldr"
      BY <2>2, <2>12 DEF PoolsInv
    <3>3. pools \in Seq(Nat) /\ (phase' = "vldr" => pools # << >>)
      BY <2>2, <2>11 DEF PoolsInv
    <3> QED BY <3>1, <3>2, <3>3, <1>1 DEF PoolsInv
  <2>24. TailInv'
    BY <2>11 DEF TailInv
  <2>25. ASSUME NEW k \in 1 .. Len(blks), k = bi PROVE Ends(k)'
    <3>0. \A b : outs(b)' = outs(b)
      BY <1>1 DEF outs
    <3>z. /\ bi # Len(blks) => bi + 1 <= Len(blks)
          /\ blk = blks[k] /\ Len(blks) \in Nat
      <4>1. bi \in 1 .. Len(blks) /\ Len(blks) \in Nat /\ blk = blks[bi]
        BY <2>3
      <4> QED BY ONLY <4>1, <2>25
    <3>1. \A n \in 1 .. N : L + n \in L + 1 .. L + N /\ L + n - L = n
      BY <2>12
    <3>2. \A n \in 1 .. N : L + n \in Mine(code', blks[k]) /\ code'[L + n].kind = list[n].kind
      BY <3>1, <3>z, <2>12, <2>13
    <3>3. Len(outs(blks[k])) = 2 => \E n \in Mine(code', blks[k]) : code'[n].kind = "bcond"
      BY <3>2, <3>z, <2>6 DEF N
    <3>4. add_jmp => \E n \in Mine(code', blks[k]) : code'[n].kind = "b"
      BY <3>2, <2>6 DEF N
    <3>5. ASSUME ~add_jmp PROVE FallsThrough(k)'
      <4>1. bi # Len(blks) /\ blks[k + 1] = outs(blks[k])[1] /\ pools = << >>
        BY <3>5, <2>25, <3>z DEF add_jmp, Follows
      <4>2. bi' = bi + 1 /\ oi' = 1 /\ bi + 1 <= Len(blks)
        BY <4>1, <3>z, <2>11
      <4>3. Len(code') \in Mine(code', blks[k]) /\ code'[L + N].at + code'[L + N].size = ind'
        <5>1. CASE N >= 1
          BY <5>1, <3>z, <2>12, <2>13, <2>14
        <5>2. CASE N = 0
          <6>1. L \in Mine(code, blk) /\ code[L].at + code[L].size = ind
            BY <1>1, <2>2, <2>4 DEF TailInv, L
          <6>2. ind' = ind
            <7>1. Offset(list)[0] = 0
              <8>1. \A n \in DOMAIN list : list[n].size \in Nat
                <9>1. \A n \in 1 .. N : list[n].size = 4
                  BY <2>7
                <9>2. DOMAIN list = 1 .. N
                  BY <2>6 DEF N
                <9> QED BY ONLY <9>1, <9>2
              <8> QED BY <8>1, <2>6, OffsetFacts
            <7>2. ind' = ind + Offset(list)[N]
              BY DEF Closes, After, N
            <7> QED BY <5>2, <7>1, <7>2, <2>4
          <6>3. L \in 1 .. L /\ L + N = L
            BY <6>1, <5>2, <2>12 DEF Mine
          <6> QED BY <6>1, <6>2, <6>3, <3>z, <2>12, <2>13
        <5> QED BY <5>1, <5>2, <2>12
      <4>4. \A m \in Mine(code', blks[k]) : m <= Len(code')
        BY <2>12 DEF Mine
      <4>5. ~HasCode(k + 1)'
        BY <4>2, <2>25 DEF HasCode
      <4>6. k < bi' /\ k + 1 <= Len(blks)
        BY <4>2, <2>3, <2>25
      <4>7. \E n \in Mine(code', blks[k]) :
               (\A m \in Mine(code', blks[k]) : m <= n) /\ code'[n].at + code'[n].size = ind'
        BY <4>3, <4>4, <2>12
      <4> QED BY <4>1, <4>5, <4>6, <4>7, <1>1, <3>0 DEF FallsThrough
    <3> QED BY <3>0, <3>3, <3>4, <3>5, <1>1 DEF Ends
  <2>26. EndsInv'
    <3>1. \A b : is_end(b)' <=> is_end(b)
      BY <1>1 DEF is_end
    <3>2. ASSUME NEW k \in 1 .. Len(blks), IsClosed(k)', ~is_end(blks[k]) PROVE Ends(k)'
      <4>1. k < bi \/ k = bi
        <5>1. k \in Nat /\ bi \in Nat
          BY <2>3
        <5> QED BY <5>1, <3>2, <2>11 DEF IsClosed
      <4>2. CASE k < bi
        <5>1. Ends(k)
          BY <3>2, <4>2, <2>2 DEF EndsInv, IsClosed
        <5>2. Mine(code', blks[k]) = Mine(code, blks[k])
          BY <4>2, <2>3, <2>13
        <5> QED BY <5>1, <5>2, <1>1, <2>3, <2>10, <2>15, EndsKept
      <4> QED BY <4>1, <4>2, <2>25
    <3> QED BY <3>1, <3>2, <1>1 DEF EndsInv
  <2> QED BY <2>10, <2>20, <2>21, <2>22, <2>23, <2>24, <2>26 DEF CodeInv, Writing
<1> QED BY <1>2, <1>3

\* When a step leaves every block the same instructions, the blocks that were closed end as before.
LEMMA EndsStay ==
  ASSUME EndsInv, blks' = blks, graph' = graph, cg' = cg, Len(blks) \in Nat,
         bi \in Nat, bi' \in Nat, bi <= bi', \A k \in 1 .. Len(blks) : HasCode(k)' <=> HasCode(k),
         \A k \in 1 .. Len(blks) : k <= bi => HasCode(k),
         \A k \in 1 .. Len(blks) : IsClosed(k)' => IsClosed(k),
         Carried(code, code'), \A b : Mine(code', b) = Mine(code, b)
  PROVE  EndsInv'
<1>1. \A b : is_end(b)' <=> is_end(b)
  BY DEF is_end
<1>2. ASSUME NEW k \in 1 .. Len(blks), IsClosed(k)', ~is_end(blks[k]) PROVE Ends(k)'
  <2>1. Ends(k) /\ Mine(code', blks[k]) = Mine(code, blks[k])
    BY <1>2 DEF EndsInv
  <2> QED BY <2>1, EndsKept
<1> QED BY <1>1, <1>2 DEF EndsInv

\* The data of a vldr is aligned with at most three bytes, an even number.
LEMMA Padded ==
  ASSUME NEW i, Even(i), NEW a, Even(a), NEW pad, pad = (i - ((a + 4) \div 4) * 4) % 4
  PROVE  Even(pad) /\ pad \in 0 .. 3
<1>1. i \in Nat /\ a \in Nat /\ i % 2 = 0
  BY DEF Even
<1>2. PICK k \in Nat : k = (a + 4) \div 4
  BY <1>1
<1>3. PICK m \in Nat : i = 2 * m
  BY <1>1
<1>4. pad = (2 * m - 4 * k) % 4
  BY <1>1, <1>2, <1>3
<1>5. pad \in 0 .. 3 /\ pad % 2 = 0
  BY ONLY <1>4, k \in Nat, m \in Nat
<1> QED BY <1>5 DEF Even

\* A list is its head and its tail.
LEMMA Headed ==
  ASSUME NEW s, s \in Seq(Range(s)), s # << >>
  PROVE  /\ Head(s) \in Range(s) /\ Tail(s) \in Seq(Range(Tail(s)))
         /\ Range(s) = {Head(s)} \union Range(Tail(s))
         /\ Len(s) # 1 => Tail(s) # << >>
<1> DEFINE S == Range(s)
           N == Len(s)
           t == Tail(s)
<1>1. N \in Nat /\ N # 0 /\ DOMAIN s = 1 .. N /\ Head(s) = s[1]
  BY EmptySeq
<1>2. t \in Seq(S) /\ Len(t) = N - 1 /\ DOMAIN t = 1 .. N - 1 /\ \A n \in 1 .. N - 1 : t[n] = s[n + 1]
  BY <1>1
<1> HIDE DEF t, N
<1>3. S = {s[n] : n \in 1 .. N}
  BY <1>1 DEF Range
<1>4. Range(t) = {t[n] : n \in 1 .. N - 1}
  BY <1>2 DEF Range
<1>5. ASSUME NEW n \in 1 .. N PROVE s[n] = s[1] \/ s[n] \in Range(t)
  <2>1. n = 1 \/ (n - 1 \in 1 .. N - 1 /\ n - 1 + 1 = n)
    BY <1>1
  <2> QED BY <2>1, <1>2, <1>4
<1>6. \A n \in 1 .. N - 1 : t[n] = s[n + 1] /\ n + 1 \in 1 .. N
  BY <1>1, <1>2
<1>7. 1 \in 1 .. N
  BY <1>1
<1>8. S = {s[1]} \union Range(t)
  BY <1>3, <1>4, <1>5, <1>6, <1>7
<1>9. t \in Seq(Range(t))
  <2>1. N - 1 \in Nat /\ t = [n \in 1 .. N - 1 |-> t[n]]
    BY <1>1, <1>2
  <2>2. \A n \in 1 .. N - 1 : t[n] \in Range(t)
    BY <1>4
  <2> QED BY ONLY <2>1, <2>2, MakesSeq
<1>10. N # 1 => t # << >>
  BY <1>1, <1>2
<1> QED BY <1>1, <1>3, <1>7, <1>8, <1>9, <1>10 DEF t, N

\* A step of fix_vldr that throws nothing puts the data x behind the code and the offset a into v.
Puts(v, a, x) ==
  /\ v = Head(pools)
  /\ x.kind = "data" /\ Item(x) /\ Even(x.at) /\ Start <= x.at /\ x.size \in Nat /\ x.at + x.size = ind'
  /\ ind <= ind' /\ Even(ind') /\ Start <= ind'
  /\ code' = Append([code EXCEPT ![v].arg = a], x)
  /\ pools' = Tail(pools)

\* What a step of fix_vldr does.
LEMMA VldrPuts ==
  ASSUME Walked, CodeTypes, PoolsInv, fix_vldr
  PROVE  /\ phase = "vldr" /\ graph' = graph /\ blks' = blks /\ cg' = cg /\ flist' = flist /\ prog' = prog
         /\ phase' = "error" \/ ((\E v, a, x : Puts(v, a, x)) /\ IF Len(pools) = 1 THEN NextBlock ELSE UNCHANGED <<phase, bi, oi>>)
<1>1. phase = "vldr" /\ graph' = graph /\ blks' = blks /\ cg' = cg /\ flist' = flist /\ prog' = prog
  BY DEF fix_vldr, livevars
<1> DEFINE v == Head(pools)
           offset == ind - ((code[v].at + 4) \div 4) * 4
           pad == offset % 4
           siz == op(code[v].place).imm
           a == (offset + pad) \div 4
           x == [kind |-> "data", size |-> siz, arg |-> 0, place |-> code[v].place, at |-> ind + pad]
<1>2. ASSUME phase' # "error"
      PROVE  /\ code' = Append([code EXCEPT ![v].arg = a], x)
             /\ ind' = ind + pad + siz /\ pools' = Tail(pools)
             /\ IF Len(pools) = 1 THEN NextBlock ELSE UNCHANGED <<phase, bi, oi>>
  BY <1>2 DEF fix_vldr
<1>3. v \in DOMAIN code /\ code[v].place \in Places /\ op(code[v].place).kind = "vldr"
  <2>1. pools \in Seq(Range(pools)) /\ pools # << >>
    BY <1>1 DEF PoolsInv, Range
  <2>2. v \in Range(pools)
    BY <2>1, Headed
  <2> QED BY <2>2 DEF PoolsInv
<1>4. siz \in Nat /\ Even(siz)
  <2> DEFINE p == code[v].place
  <2>1. p[1] \in Block /\ p[2] \in DOMAIN prog.body[p[1]] /\ op(p) = prog.body[p[1]][p[2]] /\ prog \in Functions
    BY <1>3, OpFacts DEF Walked, op, body
  <2>2. op(p).imm \in Nat /\ op(p).imm % 2 = 0
    BY <2>1, <1>3, CodeAssumption
  <2> QED BY <2>2 DEF Even
<1>5. Even(code[v].at) /\ Even(ind) /\ Start <= ind /\ ind \in Nat /\ Start \in Nat
  BY <1>3, CodeAssumption, EvenIsNat DEF CodeTypes
<1>6. Even(pad) /\ pad \in 0 .. 3
  <2> HIDE DEF v
  <2> QED BY <1>5, Padded
<1> HIDE DEF v, pad, siz, a
<1>7. x.kind = "data" /\ Item(x) /\ x.at = ind + pad /\ x.size = siz
  BY DEF Item
<1> HIDE DEF x
<1>8. Even(ind + pad) /\ Even(ind + pad + siz)
  BY <1>4, <1>5, <1>6, EvenSum
<1>9. ASSUME phase' # "error" PROVE Puts(v, a, x)
  <2>1. code' = Append([code EXCEPT ![v].arg = a], x) /\ ind' = ind + pad + siz /\ pools' = Tail(pools)
    BY <1>2, <1>9
  <2>2. ind <= ind + pad + siz /\ Start <= ind + pad /\ Start <= ind + pad + siz
    BY <1>4, <1>5, <1>6
  <2> QED BY <2>1, <2>2, <1>4, <1>7, <1>8 DEF Puts, v
<1> QED BY <1>1, <1>2, <1>9

\* The data of a vldr comes behind its block, and branches stay as they are.
LEMMA VldrKeepsCode ==
  ASSUME Walked, CodeInv, fix_vldr
  PROVE  CodeInv'
<1>1. phase = "vldr"
  BY DEF fix_vldr
<1>2. CodeTypes /\ StartsInv /\ TailInv /\ EndsInv /\ BranchInv /\ PoolsInv
  BY <1>1 DEF CodeInv, Writing
<1>3. /\ graph' = graph /\ blks' = blks /\ cg' = cg /\ flist' = flist /\ prog' = prog
      /\ phase' = "error" \/ ((\E v, a, x : Puts(v, a, x)) /\ IF Len(pools) = 1 THEN NextBlock ELSE UNCHANGED <<phase, bi, oi>>)
  BY <1>2, VldrPuts
<1>4. CASE phase' = "error"
  BY <1>4 DEF CodeInv, Writing
<1>5. CASE phase' # "error"
  <2> PICK v, a, x : Puts(v, a, x)
    BY <1>3, <1>5
  <2>1. IF Len(pools) = 1 THEN NextBlock ELSE UNCHANGED <<phase, bi, oi>>
    BY <1>3, <1>5
  <2>2. /\ v = Head(pools) /\ code' = Append([code EXCEPT ![v].arg = a], x) /\ pools' = Tail(pools)
        /\ x.kind = "data" /\ Item(x) /\ Even(x.at) /\ Start <= x.at /\ x.size \in Nat /\ x.at + x.size = ind'
        /\ ind <= ind' /\ Even(ind') /\ Start <= ind'
    BY DEF Puts
  <2>3. /\ pools # << >> /\ v \in Range(pools) /\ pools' \in Seq(Nat) /\ Range(pools') \subseteq Range(pools)
        /\ Len(pools) # 1 => pools' # << >>
    <3>1. pools \in Seq(Range(pools)) /\ pools # << >> /\ pools \in Seq(Nat)
      BY <1>1, <1>2 DEF PoolsInv, Range
    <3>2. /\ v \in Range(pools) /\ Range(pools') \subseteq Range(pools)
          /\ Len(pools) # 1 => pools' # << >>
      BY <3>1, <2>2, Headed
    <3>3. Tail(pools) \in Seq(Nat)
      BY ONLY <3>1, \A S : \A w \in Seq(S) : w # << >> => Tail(w) \in Seq(S)
    <3> QED BY ONLY <3>1, <3>2, <3>3, <2>2
  <2>4. v \in DOMAIN code /\ code[v].kind = "vldr" /\ Item(code[v])
    BY <2>3, <1>2 DEF PoolsInv, CodeTypes
  <2> DEFINE d == [code EXCEPT ![v].arg = a]
             L == Len(code)
  <2>5. /\ d \in Seq(Range(d)) /\ Len(d) = L /\ DOMAIN d = DOMAIN code /\ Carried(code, d)
        /\ Item(d[v]) /\ \A n \in DOMAIN code : n # v => d[n] = code[n]
    <3>1. code \in Seq(Range(code))
      BY <1>2 DEF CodeTypes
    <3>2. d = [code EXCEPT ![v].arg = a]
      OBVIOUS
    <3> HIDE DEF d
    <3>3. SetsArg(code, v, a, d)
      BY <3>2 DEF SetsArg
    <3>4. HasArg(code, v, a, d)
      BY ONLY <3>1, <3>3, <2>4, ArgSet
    <3> QED BY <3>4 DEF HasArg
  <2>6. code' = Append(d, x)
    BY <2>2
  <2> HIDE DEF d
  <2>7. /\ code' \in Seq(Range(code')) /\ L \in Nat /\ DOMAIN d = 1 .. L /\ DOMAIN code' = 1 .. L + 1
        /\ code'[L + 1] = x /\ \A n \in 1 .. L : code'[n] = d[n]
    <3>1. /\ code' \in Seq(Range(code')) /\ Len(d) \in Nat /\ DOMAIN d = 1 .. Len(d)
          /\ DOMAIN code' = 1 .. Len(d) + 1 /\ code'[Len(d) + 1] = x /\ \A n \in 1 .. Len(d) : code'[n] = d[n]
      <4>1. Added(d, x, code')
        BY ONLY <2>5, <2>6, ItemAdded
      <4> QED BY <4>1 DEF Added
    <3> QED BY <3>1, <2>5
  <2> HIDE DEF L
  <2>8. /\ DOMAIN code = 1 .. L /\ \A n \in 1 .. L : n \in 1 .. L + 1
        /\ \A n \in 1 .. L + 1 : n \in 1 .. L \/ n = L + 1
        /\ L + 1 \in 1 .. L + 1 /\ L + 1 \notin 1 .. L
        /\ \A m \in 1 .. L : m <= L + 1
    BY <2>5, <2>7
  <2>9. Carried(code, code')
    BY <2>5, <2>7, <2>8 DEF Carried
  <2>10. \A b : Mine(code', b) = Mine(code, b)
    BY <2>2, <2>7, <2>8, <2>9 DEF Mine, Carried
  <2>11. oi > 1 /\ oi \in Nat /\ bi <= Len(blks) /\ Len(blks) \in Nat /\ ind \in Nat /\ ind' \in Nat
    BY <1>1, <1>2, <2>2, EvenIsNat DEF CodeTypes
  <2>12. /\ bi' \in Nat \ {0} /\ oi' \in Nat \ {0} /\ bi' <= Len(blks) + 1 /\ bi \in Nat
         /\ phase' \in {"emit", "vldr"} <=> bi' <= Len(blks)
         /\ phase' \in Writing /\ bi <= bi'
         /\ \A k \in 1 .. Len(blks) : (HasCode(k)' <=> HasCode(k)) /\ (HasCode(k) <=> k <= bi)
    <3>1. CASE Len(pools) = 1
      BY <3>1, <1>2, <1>3, <2>1, <2>11, CountsKept
    <3>2. CASE Len(pools) # 1
      BY <3>2, <1>1, <1>2, <1>3, <2>1, <2>11, CountsKept DEF Writing
    <3> QED BY <3>1, <3>2
  <2>13. \/ Len(pools) = 1 /\ bi' = bi + 1 /\ oi' = 1 /\ phase' \in {"fix", "emit"}
         \/ Len(pools) # 1 /\ bi' = bi /\ oi' = oi /\ phase' = "vldr"
    BY <1>1, <2>1 DEF NextBlock
  <2>14. CodeTypes'
    <3>1. ASSUME NEW n \in DOMAIN code'
          PROVE  /\ Item(code'[n]) /\ Even(code'[n].at) /\ Start <= code'[n].at
                 /\ code'[n].size \in Nat /\ code'[n].at + code'[n].size <= ind'
      <4>1. CASE n = L + 1
        BY <4>1, <2>2, <2>7, <2>11
      <4>2. CASE n \in 1 .. L
        <5>1. /\ Even(code[n].at) /\ Start <= code[n].at /\ Item(code[n])
              /\ code[n].size \in Nat /\ code[n].at + code[n].size <= ind
          BY <4>2, <1>2, <2>8 DEF CodeTypes
        <5>2. code'[n].at = code[n].at /\ code'[n].size = code[n].size
          BY <4>2, <2>8, <2>9 DEF Carried
        <5>3. Item(code'[n])
          BY <5>1, <4>2, <2>5, <2>7, <2>8
        <5>4. code[n].at \in Nat
          BY <5>1, EvenIsNat
        <5> QED BY <5>1, <5>2, <5>3, <5>4, <2>2, <2>11
      <4> QED BY <4>1, <4>2, <2>7, <2>8
    <3>2. /\ blks \in Seq(Block) /\ IsInjective(blks) /\ Range(blks) = Block /\ cg \in [Block -> Nat]
          /\ (phase' = "vldr" => oi' > 1)
      BY <1>2, <2>11, <2>13 DEF CodeTypes
    <3> QED BY <3>1, <3>2, <1>3, <2>2, <2>7, <2>12 DEF CodeTypes
  <2>15. StartsInv'
    <3>1. \A n \in DOMAIN code' \ DOMAIN code : code'[n].kind = "data"
      BY <2>2, <2>7, <2>8
    <3> QED BY <3>1, <1>2, <1>3, <2>2, <2>9, <2>11, <2>12, StartsKept
  <2>16. BranchInv'
    <3>1. \A n \in DOMAIN code : code[n].kind \in Jumps => code'[n] = code[n]
      <4>1. code[v].kind \notin Jumps
        BY <2>4 DEF Jumps
      <4> QED BY <4>1, <2>5, <2>7, <2>8
    <3>2. \A n \in DOMAIN code' \ DOMAIN code : code'[n].kind \notin Jumps
      BY <2>2, <2>7, <2>8 DEF Jumps
    <3>3. phase' # "finished" /\ flist' \in Seq(Range(flist'))
      BY <2>13, <1>2, <1>3 DEF BranchInv
    <3> QED BY <3>1, <3>2, <3>3, <1>2, <1>3, <2>9, BranchesKept
  <2>17. PoolsInv'
    <3>1. Places' = Places /\ \A p : op(p)' = op(p)
      BY <1>3 DEF Places, op, body
    <3>2. \A w \in Range(pools) :
            /\ w \in DOMAIN code' /\ code'[w].kind = "vldr"
            /\ code'[w].place \in Places /\ op(code'[w].place).kind = "vldr"
      BY <1>2, <2>9 DEF PoolsInv, Carried
    <3>3. phase' = "vldr" => pools' # << >>
      BY <2>3, <2>13
    <3> QED BY <3>1, <3>2, <3>3, <2>3 DEF PoolsInv
  <2>18. TailInv'
    BY <2>13 DEF TailInv
  <2>19. EndsInv'
    <3>1. ASSUME NEW k \in 1 .. Len(blks), IsClosed(k)' PROVE IsClosed(k)
      <4>1. k \in Nat /\ bi \in Nat
        BY <2>12
      <4> QED BY <4>1, <3>1, <1>1, <2>13 DEF IsClosed
    <3> QED BY <3>1, <1>2, <1>3, <2>9, <2>10, <2>11, <2>12, EndsStay
  <2> QED BY <2>12, <2>14, <2>15, <2>16, <2>17, <2>18, <2>19 DEF CodeInv, Writing
<1> QED BY <1>4, <1>5

\* At the end every block has an address, and the branch at the head of the list gets it.
LEMMA FixKeepsCode ==
  ASSUME Walked, CodeInv, Fix
  PROVE  CodeInv'
<1> DEFINE at == Head(flist).at
           b == Head(flist).to
<1>1. /\ phase = "fix" /\ flist # << >> /\ graph' = graph /\ blks' = blks /\ cg' = cg /\ prog' = prog
      /\ bi' = bi /\ oi' = oi /\ ind' = ind /\ pools' = pools
      /\ \/ phase' = "error"
         \/ /\ ~Refused(code[at].kind, code[at].at, b)
            /\ code' = [code EXCEPT ![at].arg = Branch(code[at].kind, code[at].at, b).arg]
            /\ flist' = Tail(flist) /\ phase' = phase
  BY DEF Fix, livevars
<1>2. CodeTypes /\ StartsInv /\ TailInv /\ EndsInv /\ BranchInv /\ PoolsInv
  BY <1>1 DEF CodeInv, Writing
<1>3. CASE phase' = "error"
  BY <1>3 DEF CodeInv, Writing
<1>4. CASE phase' # "error"
  <2>1. /\ Head(flist) \in Range(flist) /\ Range(flist) = {Head(flist)} \union Range(Tail(flist))
        /\ Tail(flist) \in Seq(Range(Tail(flist)))
    BY <1>1, <1>2, Headed DEF BranchInv
  <2>2. at \in DOMAIN code /\ code[at].kind \in Jumps /\ b = Taken(graph, code[at])
    BY <2>1, <1>2 DEF BranchInv
  <2>3. b \in Block /\ code[at].size = 4 /\ Item(code[at])
    BY <2>2, <1>2 DEF BranchInv, CodeTypes
  <2>4. bi = Len(blks) + 1 /\ Len(blks) \in Nat /\ bi \in Nat /\ ind \in Nat
    BY <1>1, <1>2, EvenIsNat DEF CodeTypes
  <2>5. \A k \in 1 .. Len(blks) : HasCode(k) /\ k <= bi
    BY <2>4 DEF HasCode
  <2>6. cg[b] # 0
    <3>1. PICK k \in 1 .. Len(blks) : b = blks[k]
      <4>1. DOMAIN blks = 1 .. Len(blks) /\ Range(blks) = Block
        BY <1>2 DEF CodeTypes
      <4> QED BY <4>1, <2>3 DEF Range
    <3> QED BY <3>1, <2>5, <1>2 DEF StartsInv
  <2> DEFINE i == code[at]
             x == Branch(i.kind, i.at, b).arg
  <2>7. /\ i.kind = "bcond" => x = encbranch(i.at, cg[b]) /\ ~TooFar(i.at, cg[b])
        /\ i.kind = "b" => x = encbranch2(i.at, cg[b])
    <3>1. ~Refused(i.kind, i.at, b)
      BY <1>1, <1>4
    <3> HIDE DEF i
    <3>2. i.kind = "bcond" => x = encbranch(i.at, cg[b])
      BY <2>6 DEF Branch, Instr
    <3>3. i.kind = "b" => x = encbranch2(i.at, cg[b])
      BY <2>6 DEF Branch, Instr
    <3> QED BY <3>1, <3>2, <3>3, <2>6 DEF Refused
  <2>8. code' = [code EXCEPT ![at].arg = x] /\ flist' = Tail(flist) /\ phase' = "fix"
    BY <1>1, <1>4
  <2> HIDE DEF x, at, b
  <2>9. /\ code' \in Seq(Range(code')) /\ Len(code') = Len(code) /\ DOMAIN code' = DOMAIN code /\ Carried(code, code')
        /\ Item(code'[at]) /\ code'[at].arg = x /\ \A n \in DOMAIN code : n # at => code'[n] = code[n]
    <3>1. code \in Seq(Range(code))
      BY <1>2 DEF CodeTypes
    <3>2. SetsArg(code, at, x, code')
      BY <2>8 DEF SetsArg
    <3>3. HasArg(code, at, x, code')
      BY ONLY <3>1, <3>2, <2>2, <2>3, ArgSet DEF i
    <3> QED BY <3>3 DEF HasArg
  <2>10. Settles(at, code'[at], flist')
    <3>1. code'[at].kind = i.kind /\ code'[at].at = i.at /\ code'[at].size = 4 /\ code'[at].place = i.place
      BY <2>2, <2>3, <2>9 DEF Carried
    <3>2. Taken(graph, code'[at]) = b
      BY <3>1, <2>2 DEF Taken
    <3> HIDE DEF i
    <3> QED BY <3>1, <3>2, <2>3, <2>6, <2>7, <2>9 DEF Settles, Aimed
  <2>11. \A a : Mine(code', a) = Mine(code, a)
    BY <2>9 DEF Mine, Carried
  <2>12. \A k : (HasCode(k)' <=> HasCode(k)) /\ (IsClosed(k)' <=> IsClosed(k))
    BY <1>1, <2>8 DEF HasCode, IsClosed
  <2>13. CodeTypes'
    <3>1. ASSUME NEW n \in DOMAIN code'
          PROVE  /\ Item(code'[n]) /\ Even(code'[n].at) /\ Start <= code'[n].at
                 /\ code'[n].size \in Nat /\ code'[n].at + code'[n].size <= ind
      <4>1. /\ Even(code[n].at) /\ Start <= code[n].at /\ Item(code[n])
            /\ code[n].size \in Nat /\ code[n].at + code[n].size <= ind
        BY <2>9, <1>2 DEF CodeTypes
      <4>2. code'[n].at = code[n].at /\ code'[n].size = code[n].size /\ Item(code'[n])
        BY <4>1, <2>9 DEF Carried
      <4> QED BY <4>1, <4>2
    <3> QED BY <3>1, <1>1, <1>2, <2>8, <2>9 DEF CodeTypes
  <2>14. StartsInv'
    BY <1>1, <1>2, <2>4, <2>9, <2>12, StartsKept
  <2>15. BranchInv'
    <3>1. \A n \in DOMAIN code : code'[n] = code[n] \/ Settles(n, code'[n], flist')
      BY <2>9, <2>10
    <3>2. \A f \in Range(flist) : f \in Range(flist') \/ Settles(f.at, code'[f.at], flist')
      BY <2>1, <2>8, <2>10 DEF at
    <3>3. flist' \in Seq(Range(flist')) /\ Range(flist') \subseteq Range(flist) /\ phase' # "finished"
      BY <2>1, <2>8
    <3> QED BY <3>1, <3>2, <3>3, <1>1, <1>2, <2>9, BranchesKept
  <2>16. PoolsInv'
    <3>1. Places' = Places /\ \A p : op(p)' = op(p)
      BY <1>1 DEF Places, op, body
    <3>2. \A w \in Range(pools) :
            /\ w \in DOMAIN code' /\ code'[w].kind = "vldr"
            /\ code'[w].place \in Places /\ op(code'[w].place).kind = "vldr"
      BY <1>2, <2>9 DEF PoolsInv, Carried
    <3> QED BY <3>1, <3>2, <1>1, <1>2, <2>8 DEF PoolsInv
  <2>17. TailInv'
    BY <2>8 DEF TailInv
  <2>18. EndsInv'
    BY <1>1, <1>2, <2>4, <2>5, <2>9, <2>11, <2>12, EndsStay
  <2> QED BY <2>8, <2>13, <2>14, <2>15, <2>16, <2>17, <2>18 DEF CodeInv, Writing
<1> QED BY <1>3, <1>4

\* The list is empty.
LEMMA FinishedKeepsCode ==
  ASSUME CodeInv, Finished
  PROVE  CodeInv'
<1>1. /\ phase = "fix" /\ phase' = "finished" /\ flist = << >>
      /\ UNCHANGED <<livevars, graph, edits, dfsvars, genvars>>
  BY DEF Finished
<1>2. CodeTypes /\ StartsInv /\ TailInv /\ EndsInv /\ BranchInv /\ PoolsInv
  BY <1>1 DEF CodeInv, Writing
<1>3. /\ code' = code /\ blks' = blks /\ bi' = bi /\ oi' = oi /\ ind' = ind /\ cg' = cg /\ pools' = pools
      /\ flist' = flist /\ graph' = graph /\ prog' = prog
  BY <1>1 DEF genvars, livevars
<1>4. \A k : (HasCode(k)' <=> HasCode(k)) /\ (IsClosed(k)' <=> IsClosed(k))
  BY <1>1, <1>3 DEF HasCode, IsClosed
<1>5. \A b : (is_end(b)' <=> is_end(b)) /\ outs(b)' = outs(b)
  BY <1>3 DEF is_end, outs
<1>6. CodeTypes'
  BY <1>1, <1>2, <1>3 DEF CodeTypes
<1>7. StartsInv'
  BY <1>2, <1>3, <1>4 DEF StartsInv
<1>8. EndsInv'
  <2>1. \A k : FallsThrough(k)' <=> FallsThrough(k)
    BY <1>3, <1>4, <1>5 DEF FallsThrough
  <2> QED BY <2>1, <1>2, <1>3, <1>4, <1>5 DEF EndsInv, Ends
<1>9. BranchInv'
  BY <1>1, <1>2, <1>3 DEF BranchInv, Aimed
<1>10. PoolsInv' /\ TailInv'
  <2>1. Places' = Places /\ \A p : op(p)' = op(p)
    BY <1>3 DEF Places, op, body
  <2> QED BY <2>1, <1>1, <1>2, <1>3 DEF PoolsInv, TailInv
<1> QED BY <1>1, <1>6, <1>7, <1>8, <1>9, <1>10 DEF CodeInv, Writing

(***************************************************************************)
(* Every step of the run                                                   *)
(***************************************************************************)
\* The order of the blocks is found, and nothing is written yet.
LEMMA SortedHasNoCode ==
  ASSUME Walked, PlaceInv, CodeInv, EndSort
  PROVE  CodeInv'
<1>1. /\ phase = "place" /\ blks' = blks \o LastBlocks
      /\ phase' = IF Len(blks \o LastBlocks) = Cardinality(Block) THEN "emit" ELSE "crash"
      /\ bi' = bi /\ oi' = oi /\ ind' = ind /\ code' = code /\ cg' = cg /\ pools' = pools /\ flist' = flist
  BY DEF EndSort
<1>2. Blank
  BY <1>1 DEF CodeInv
<1>3. blks' \in Seq(Block) /\ IsInjective(blks')
  <2>1. LastBlocks \in Seq(Block) /\ IsInjective(LastBlocks)
    BY LastBlocksAre
  <2> HIDE DEF LastBlocks
  <2> QED BY <2>1, <1>1, Joined DEF PlaceInv
<1>4. CASE phase' = "emit"
  <2>1. Len(blks') = Cardinality(Block)
    BY <1>1, <1>4
  <2>2. Range(blks') = Block
    BY <2>1, <1>3, Blocks, Enumerated
  <2>3. Len(blks') \in Nat /\ Len(blks') # 0
    <3>1. 0 \in Range(blks')
      BY <2>2, Blocks
    <3> QED BY <3>1, <1>3 DEF Range
  <2>4. /\ code' = << >> /\ pools' = << >> /\ flist' = << >> /\ cg' = [b \in Block |-> 0]
        /\ bi' = 1 /\ oi' = 1 /\ ind' = Start
    BY <1>1, <1>2 DEF Blank
  <2>5. /\ << >> \in Seq(Range(<< >>)) /\ DOMAIN << >> = {} /\ Range(<< >>) = {} /\ << >> \in Seq(Nat)
    BY DEF Range
  <2>6. \A k \in 1 .. Len(blks') : ~HasCode(k)' /\ ~IsClosed(k)'
    BY <1>4, <2>3, <2>4 DEF HasCode, IsClosed
  <2>7. CodeTypes'
    <3>1. Even(ind') /\ Start <= ind'
      BY <2>4, CodeAssumption DEF Even
    <3>2. cg' \in [Block -> Nat]
      BY <2>4
    <3>3. bi' \in Nat \ {0} /\ oi' \in Nat \ {0} /\ bi' <= Len(blks') + 1 /\ bi' <= Len(blks')
      BY <2>3, <2>4
    <3>4. code' \in Seq(Range(code')) /\ DOMAIN code' = {}
      BY <2>4, <2>5
    <3> HIDE DEF Even
    <3> QED BY <1>3, <1>4, <2>2, <3>1, <3>2, <3>3, <3>4 DEF CodeTypes
  <2>8. StartsInv'
    <3>1. \A k \in 1 .. Len(blks') : cg'[blks'[k]] = 0
      BY <1>3, <2>4
    <3>2. DOMAIN code' = {}
      BY <2>4, <2>5
    <3> QED BY <3>1, <3>2, <2>6 DEF StartsInv
  <2>9. TailInv' /\ EndsInv'
    BY <2>4, <2>6 DEF TailInv, EndsInv
  <2>10. BranchInv' /\ PoolsInv'
    BY <1>4, <2>4, <2>5 DEF BranchInv, PoolsInv
  <2> QED BY <1>4, <2>7, <2>8, <2>9, <2>10 DEF CodeInv
<1>5. CASE phase' # "emit"
  BY <1>1, <1>5 DEF CodeInv, Writing
<1> QED BY <1>4, <1>5

\* A step that changes nothing of this.
LEMMA CodeStands ==
  ASSUME CodeInv, UNCHANGED <<phase, code, pools, flist, cg, bi, oi, ind, blks, graph, prog>>
  PROVE  CodeInv'
<1>1. \A k : (HasCode(k)' <=> HasCode(k)) /\ (IsClosed(k)' <=> IsClosed(k))
  BY DEF HasCode, IsClosed
<1>2. \A b : (is_end(b)' <=> is_end(b)) /\ outs(b)' = outs(b)
  BY DEF is_end, outs
<1>3. CodeTypes => CodeTypes'
  BY DEF CodeTypes
<1>4. StartsInv => StartsInv'
  BY <1>1 DEF StartsInv
<1>5. EndsInv => EndsInv'
  <2>1. \A k : FallsThrough(k)' <=> FallsThrough(k)
    BY <1>1, <1>2 DEF FallsThrough
  <2> QED BY <2>1, <1>1, <1>2 DEF EndsInv, Ends
<1>6. BranchInv => BranchInv'
  BY DEF BranchInv, Aimed
<1>7. (PoolsInv => PoolsInv') /\ (TailInv => TailInv')
  <2>1. Places' = Places /\ \A p : op(p)' = op(p)
    BY DEF Places, op, body
  <2>2. blk' = blk
    BY DEF blk
  <2> QED BY <2>1, <2>2 DEF PoolsInv, TailInv
<1>8. Blank => Blank'
  BY DEF Blank
<1> QED BY <1>3, <1>4, <1>5, <1>6, <1>7, <1>8 DEF CodeInv

\* A step in front of run_block leaves nothing written.
LEMMA BlankStands ==
  ASSUME CodeInv, UNCHANGED <<code, pools, flist, cg, bi, oi, ind>>,
         phase \in {"edit", "tree", "done", "live", "sort", "place"}, phase' \notin Writing
  PROVE  CodeInv'
BY DEF CodeInv, Blank, Writing

\* Every step of the run.
LEMMA CodeSteps ==
  ASSUME Inv, CodeInv, [GenNext]_allvars
  PROVE  CodeInv'
<1>1. phase \notin {"edit", "tree"} => Walked
  BY DEF Walked, Inv, TreeInv, LiveInv
<1>2. TreeTypes /\ prog \in Functions
  BY DEF Inv, TreeInv, LiveInv
<1>3. CASE Structure /\ UNCHANGED <<livevars, genvars>>
  <2>1. phase \in Structuring /\ phase' \in Structuring
    BY <1>3 DEF Structure, Decided, RemoveEdge, StartTree, Discover, Classify, Finish, Take, EndTree, Structuring
  <2> QED BY <2>1, <1>3, BlankStands DEF Structuring, Writing, genvars
<1>4. CASE Sets /\ UNCHANGED genvars
  <2>1. phase \in {"done", "live"} /\ phase' \in {"live", "sort"}
    BY <1>4 DEF Sets, StartSets, LookAtOp, EndSets, livevars, treevars, Done
  <2> QED BY <2>1, <1>4, BlankStands DEF Writing, genvars
<1>5. CASE StartSort \/ PlaceBlock
  BY <1>5, BlankStands DEF StartSort, PlaceBlock, treevars, Writing
<1>6. CASE EndSort
  <2>1. Walked /\ PlaceInv
    BY <1>1, <1>6 DEF EndSort, Inv, SortInv
  <2> QED BY <2>1, <1>6, SortedHasNoCode
<1>7. CASE Instructions
  BY <1>2, <1>7, InstructionsKeepCode
<1>8. CASE EndExit
  BY <1>2, <1>8, ExitKeepsCode
<1>9. CASE EndBlock
  <2>1. phase = "emit"
    BY <1>9 DEF EndBlock
  <2> QED BY <2>1, <1>1, <1>9, BlockKeepsCode
<1>10. CASE fix_vldr
  <2>1. phase = "vldr"
    BY <1>10 DEF fix_vldr
  <2> QED BY <2>1, <1>1, <1>10, VldrKeepsCode
<1>11. CASE Fix
  <2>1. phase = "fix"
    BY <1>11 DEF Fix
  <2> QED BY <2>1, <1>1, <1>11, FixKeepsCode
<1>12. CASE Finished
  BY <1>12, FinishedKeepsCode
<1>13. CASE UNCHANGED allvars
  BY <1>13, CodeStands DEF allvars, treevars, dfsvars, livevars, genvars
<1> QED BY <1>3, <1>4, <1>5, <1>6, <1>7, <1>8, <1>9, <1>10, <1>11, <1>12, <1>13 DEF GenNext, Generate

\* The code keeps its invariant.
LEMMA CodeInvariant == GenSpec => [](Inv /\ CodeInv)
<1>1. ASSUME GenInit PROVE Inv /\ CodeInv
  <2>1. phase = "edit" /\ Blank
    BY <1>1 DEF GenInit, LiveInit, TreeInitOf, Blank
  <2> QED BY <1>1, <2>1, GenStarts DEF CodeInv, Writing
<1>2. ASSUME Inv /\ CodeInv, [GenNext]_allvars PROVE (Inv /\ CodeInv)'
  BY <1>2, GenSteps, CodeSteps
<1> QED BY <1>1, <1>2, PTL DEF GenSpec

(***************************************************************************)
(* Where the branches go                                                   *)
(***************************************************************************)
\* Where the processor goes, for a distance that fits.
LEMMA BranchLands ==
  ASSUME NEW p, Even(p), NEW a, Even(a), p + 4 - Start <= 16777216, a - Start <= 16777216, Start <= p, Start <= a
  PROVE  /\ p + 4 + 2 * Unpacked(encbranch2(p, a), 23) = a
         /\ ~TooFar(p, a) => p + 4 + 2 * Unpacked(encbranch(p, a), 19) = a
<1> DEFINE d == Distance(p, a)
<1>1. p \in Nat /\ a \in Nat /\ p % 2 = 0 /\ a % 2 = 0 /\ Start \in Nat
  BY CodeAssumption DEF Even
<1>2. p + 4 + 2 * d = a /\ d \in Int
  BY <1>1 DEF Distance
<1>3. -8388608 <= d /\ d < 8388608
  BY <1>1 DEF Distance
<1>4. ~TooFar(p, a) => -61439 <= d /\ d < 61439
  BY <1>2 DEF TooFar
<1> HIDE DEF d
<1>5. Unpacked(Packed(d, 23), 23) = d
  <2>1. 2^23 = 8388608
    OBVIOUS
  <2>2. d % 8388608 = IF d < 0 THEN d + 8388608 ELSE d
    BY <1>2, <1>3
  <2> QED BY <1>2, <1>3, <2>1, <2>2 DEF Unpacked, Packed
<1>6. -61439 <= d /\ d < 61439 => Unpacked(Packed(d, 19), 19) = d
  <2> SUFFICES ASSUME -61439 <= d, d < 61439 PROVE Unpacked(Packed(d, 19), 19) = d
    OBVIOUS
  <2>1. 2^19 = 524288
    OBVIOUS
  <2>2. d % 524288 = IF d < 0 THEN d + 524288 ELSE d
    BY <1>2
  <2> QED BY <1>2, <2>1, <2>2 DEF Unpacked, Packed
<1>7. encbranch2(p, a) = Packed(d, 23) /\ encbranch(p, a) = Packed(d, 19)
  BY DEF encbranch, encbranch2, d
<1> QED BY <1>2, <1>4, <1>5, <1>6, <1>7

\* What a sublist begins with.
LEMMA SublistHead ==
  ASSUME NEW S, NEW s \in Seq(S), NEW T
  PROVE  /\ Sublist(s, T) # << >> => Sublist(s, T)[1] \in Range(s) \intersect T
         /\ Range(s) \intersect T # {} => Sublist(s, T) # << >>
<1> DEFINE u == Sublist(s, T)
<1>1. u \in Seq(S) /\ Range(u) = Range(s) \intersect T
  BY SublistOf
<1> HIDE DEF u
<1>2. u # << >> => u[1] \in Range(u)
  <2> SUFFICES ASSUME u # << >> PROVE u[1] \in Range(u)
    OBVIOUS
  <2>1. Len(u) # 0 /\ Len(u) \in Nat /\ DOMAIN u = 1 .. Len(u)
    BY <1>1, EmptySeq
  <2>2. 1 \in DOMAIN u
    BY <2>1
  <2> QED BY <2>2 DEF Range
<1>3. u = << >> => Range(u) = {}
  BY DEF Range
<1> QED BY <1>1, <1>2, <1>3 DEF u

\* The farthest that encbranch2 can reach, in bytes.
Reach == 16777216

\* thumb_gen::run and run_block (thumb_gen.cc): whatever the function, the code of every block
\* begins where the block's address is kept, its conditional branch goes to the block of the
\* true edge, and its unconditional branch, or what comes behind it, is the block of the other
\* edge.  The unconditional branch is the one whose distance nothing looks at, so the code must
\* not be longer than it reaches.
THEOREM BranchesCorrect == GenSpec => [](ind - Start <= Reach => CodeMatchesFlow)
<1>1. ASSUME Inv, CodeInv, ind - Start <= Reach PROVE CodeMatchesFlow
  <2> SUFFICES ASSUME phase = "finished", NEW b \in Block
               PROVE  /\ CodeOf(b)[1].at = cg[b]
                      /\ ~is_end(b) => Otherwise(b) = cg[outs(b)[1]]
                      /\ Len(outs(b)) = 2 => Target(OfKind(CodeOf(b), "bcond")[1], 19) = cg[outs(b)[2]]
    BY DEF CodeMatchesFlow
  <2> DEFINE is == CodeOf(b)
             cond == OfKind(is, "bcond")
             jmp == OfKind(is, "b")
  <2> DEFINE T == {i \in Range(code) : i.place[1] = b /\ i.kind # "data"}
             M == Mine(code, b)
  <2>1. CodeTypes /\ StartsInv /\ EndsInv /\ BranchInv
    BY <1>1 DEF CodeInv, Writing
  <2>2. Walked
    BY <1>1 DEF Walked, Inv, TreeInv, LiveInv
  <2>3. code \in Seq(Range(code)) /\ DOMAIN code = 1 .. Len(code) /\ Len(code) \in Nat
    BY <2>1 DEF CodeTypes
  <2>4. Len(blks) \in Nat /\ DOMAIN blks = 1 .. Len(blks) /\ bi \in Nat /\ bi = Len(blks) + 1
        /\ \A k \in 1 .. Len(blks) : blks[k] \in Block
    BY <2>1 DEF CodeTypes
  <2>5. \A k \in 1 .. Len(blks) : HasCode(k) /\ IsClosed(k)
    BY <2>4 DEF HasCode, IsClosed
  <2>6. \A t \in Block : \E k \in 1 .. Len(blks) : t = blks[k]
    BY <2>1, <2>4 DEF CodeTypes, Range
  <2>7. /\ \A n \in DOMAIN code : code[n] \in T <=> n \in M
        /\ \A i \in T : \E n \in M : i = code[n]
    BY DEF Mine, Range
  <2>8. \A t \in Block : cg[t] # 0 /\ Even(cg[t]) /\ Start <= cg[t] /\ cg[t] <= ind
    BY <2>1, <2>5, <2>6 DEF StartsInv
  <2>9. PICK k \in 1 .. Len(blks) : b = blks[k]
    BY <2>6
  <2>10. PICK n \in M : code[n].at = cg[b] /\ \A m \in M : n <= m
    BY <2>1, <2>5, <2>9 DEF StartsInv
  <2> DEFINE S == Range(code)
  <2>11. code \in Seq(S) /\ n \in DOMAIN code
    BY <2>3 DEF Mine
  <2> HIDE DEF T, M, S, is, cond, jmp
  <2>12. is \in Seq(S) /\ is # << >> /\ Range(is) = T /\ is[1] = code[n]
    <3>1. \A m \in DOMAIN code : code[m] \in T => n <= m
      BY <2>7, <2>10
    <3>2. is = Sublist(code, T)
      BY DEF T, is, CodeOf
    <3>3. code[n] \in T
      BY <2>7, <2>11
    <3>4. is \in Seq(S) /\ is # << >> /\ is[1] = code[n]
      BY ONLY <2>11, <3>1, <3>2, <3>3, SublistEnds
    <3>5. Range(is) = Range(code) \intersect T
      BY ONLY <2>11, <3>2, SublistOf
    <3>6. T \subseteq Range(code)
      BY DEF T
    <3> QED BY <3>4, <3>5, <3>6
  <2>13. ASSUME NEW m \in M, code[m].kind \in Jumps
         PROVE  /\ code[m].kind = "bcond" /\ Len(outs(b)) = 2 => Target(code[m], 19) = cg[outs(b)[2]]
                /\ code[m].kind = "b" /\ ~is_end(b) => Target(code[m], 23) = cg[outs(b)[1]]
    <3> DEFINE i == code[m]
               t == Taken(graph, i)
    <3>1. m \in DOMAIN code /\ i.place[1] = b
      BY DEF M, Mine
    <3>2. i.size = 4 /\ t \in Block /\ Aimed(i, cg[t])
      BY <2>1, <2>13, <3>1 DEF CodeInv, BranchInv, Writing, Range
    <3>3. Even(i.at) /\ Start <= i.at /\ i.at + 4 <= ind
      BY <2>1, <3>1, <3>2 DEF CodeTypes
    <3>4. Even(cg[t]) /\ Start <= cg[t] /\ cg[t] <= ind
      BY <2>8, <3>2
    <3>5. ind \in Nat /\ Start \in Nat /\ i.at \in Nat /\ cg[t] \in Nat
      BY <2>1, <3>3, <3>4, CodeAssumption, EvenIsNat DEF CodeTypes
    <3>6. /\ DOMAIN outs(b) = DOMAIN graph.out[b] /\ Len(outs(b)) \in Nat /\ DOMAIN outs(b) = 1 .. Len(outs(b))
      BY <2>2, OutsAre
    <3>7. i.kind = "bcond" /\ Len(outs(b)) = 2 => t = outs(b)[2]
      BY <3>1, <3>6 DEF Taken, outs
    <3>8. i.kind = "b" /\ ~is_end(b) => t = outs(b)[1]
      <4>1. ~is_end(b) => 1 \in DOMAIN graph.out[b]
        <5>1. graph.out[b] \in Seq(HalfEdge(Block, Labels)) /\ (~is_end(b) => graph.out[b] # << >>)
          BY <2>2 DEF is_end, Walked, TreeTypes, TypeOK, Graph
        <5>2. Len(graph.out[b]) \in Nat /\ DOMAIN graph.out[b] = 1 .. Len(graph.out[b])
              /\ (~is_end(b) => Len(graph.out[b]) # 0)
          BY <5>1, EmptySeq
        <5> QED BY <5>2
      <4> QED BY <4>1, <3>1, <3>6 DEF Taken, outs
    <3> HIDE DEF i, t
    <3>9. i.at + 4 - Start <= 16777216 /\ cg[t] - Start <= 16777216
      BY <1>1, <3>3, <3>4, <3>5 DEF Reach
    <3>10. /\ i.at + 4 + 2 * Unpacked(encbranch2(i.at, cg[t]), 23) = cg[t]
           /\ ~TooFar(i.at, cg[t]) => i.at + 4 + 2 * Unpacked(encbranch(i.at, cg[t]), 19) = cg[t]
      BY <3>3, <3>4, <3>9, BranchLands
    <3>11. i.kind = "bcond" => Target(i, 19) = cg[t]
      BY <3>2, <3>10 DEF Target, Aimed
    <3>12. i.kind = "b" => Target(i, 23) = cg[t]
      BY <3>2, <3>10 DEF Target, Aimed
    <3> QED BY <3>7, <3>8, <3>11, <3>12 DEF i
  <2>14. ASSUME Len(outs(b)) = 2 PROVE Target(cond[1], 19) = cg[outs(b)[2]]
    <3>1. ~is_end(b)
      <4>1. DOMAIN outs(b) = DOMAIN graph.out[b] /\ outs(b) \in Seq(Block)
        BY <2>2, OutsAre
      <4>2. 1 \in DOMAIN outs(b)
        BY <4>1, <2>14
      <4> QED BY <4>1, <4>2 DEF is_end
    <3>2. PICK m \in M : code[m].kind = "bcond"
      BY <2>1, <2>5, <2>9, <2>14, <3>1 DEF EndsInv, Ends, M
    <3> DEFINE U == {i \in Range(is) : i.kind = "bcond"}
    <3>3. code[m] \in Range(is) \intersect U
      BY <3>2, <2>7, <2>12 DEF M, Mine
    <3>4. cond = Sublist(is, U)
      BY DEF cond, jmp, OfKind
    <3>5. cond[1] \in Range(is) \intersect U
      <4> HIDE DEF U
      <4> QED BY <2>12, <3>3, <3>4, SublistHead
    <3>6. PICK j \in M : cond[1] = code[j]
      BY <2>7, <2>12, <3>5
    <3>7. code[j].kind = "bcond" /\ code[j].kind \in Jumps
      BY <3>5, <3>6 DEF Jumps
    <3> QED BY <2>13, <2>14, <3>6, <3>7
  <2>15. ASSUME ~is_end(b), jmp # << >> PROVE Target(jmp[1], 23) = cg[outs(b)[1]]
    <3> DEFINE U == {i \in Range(is) : i.kind = "b"}
    <3>1. jmp = Sublist(is, U)
      BY DEF cond, jmp, OfKind
    <3>2. jmp[1] \in Range(is) \intersect U
      <4> HIDE DEF U
      <4> QED BY <2>12, <2>15, <3>1, SublistHead
    <3>3. PICK j \in M : jmp[1] = code[j]
      BY <2>7, <2>12, <3>2
    <3>4. code[j].kind = "b" /\ code[j].kind \in Jumps
      BY <3>2, <3>3 DEF Jumps
    <3> QED BY <2>13, <2>15, <3>3, <3>4
  <2>16. ASSUME ~is_end(b), jmp = << >> PROVE Last(is).at + Last(is).size = cg[outs(b)[1]]
    <3> DEFINE U == {i \in Range(is) : i.kind = "b"}
    <3>1. jmp = Sublist(is, U)
      BY DEF cond, jmp, OfKind
    <3>2. Range(is) \intersect U = {}
      <4> HIDE DEF U
      <4> QED BY <2>12, <2>16, <3>1, SublistHead
    <3>3. ~\E m \in M : code[m].kind = "b"
      BY <3>2, <2>7, <2>12 DEF M, Mine
    <3>4. FallsThrough(k)
      BY <3>3, <2>1, <2>5, <2>9, <2>16 DEF EndsInv, Ends, M
    <3>5. k + 1 \in 1 .. Len(blks) /\ blks[k + 1] = outs(b)[1]
      BY <3>4, <2>4, <2>9 DEF FallsThrough
    <3>6. PICK l \in M : (\A m \in M : m <= l) /\ code[l].at + code[l].size = cg[outs(b)[1]]
      BY <3>4, <3>5, <2>5, <2>9 DEF FallsThrough, M
    <3>7. is[Len(is)] = code[l]
      <4>1. l \in DOMAIN code /\ code[l] \in T
        BY <2>7 DEF M, Mine
      <4>2. \A m \in DOMAIN code : code[m] \in T => m <= l
        BY <2>7, <3>6
      <4>3. is = Sublist(code, T)
        BY DEF T, is, CodeOf
      <4> QED BY ONLY <2>11, <4>1, <4>2, <4>3, SublistEnds
    <3> QED BY <3>6, <3>7 DEF Last
  <2>17. ~is_end(b) => Otherwise(b) = cg[outs(b)[1]]
    BY <2>15, <2>16 DEF Otherwise, is, jmp
  <2> QED BY <2>10, <2>12, <2>14, <2>17 DEF is, cond
<1> QED BY <1>1, CodeInvariant, PTL
==============================================================================
