------------------------ MODULE StructureReset_proofs ------------------------
(***************************************************************************)
(* structure_reset, whatever the graph and however often it runs: the      *)
(* numbers and labels of the walk stay right while the loops and the       *)
(* dominators are looked for, find_irreducible finds the loops, and the    *)
(* sweeps of calc_forward_dominator and of calc_post_dominator end with    *)
(* the immediate dominators.                                               *)
(***************************************************************************)
EXTENDS PostDominators, SpanningTree_proofs

(***************************************************************************)
(* Sweeps for dominators on any flow graph: D its blocks, S the successors *)
(* of a block, root where the paths begin, rank the order of the sweeps,   *)
(* idom what they have found so far.                                       *)
(***************************************************************************)
Ranked(D, S, root, rank) ==
  /\ IsFiniteSet(D) /\ root \in D /\ NONE \notin D /\ S \in [D -> SUBSET D]
  /\ rank[root] = 0
  /\ \A b \in D : rank[b] \in Nat /\ rank[b] < Cardinality(D)
  /\ \A b, c \in D : rank[b] = rank[c] => b = c
  /\ \A c \in D \ {root} : \E p \in D : c \in S[p] /\ rank[p] < rank[c]

Having(D, idom) == {b \in D : idom[b] # NONE}

\* idom is a tree that grows from the root; no dominator has been climbed past.
Climbs(D, S, root, rank, idom) ==
  /\ idom \in [D -> D \union {NONE}] /\ idom[root] = root
  /\ \A b \in Having(D, idom) \ {root} :
       /\ idom[b] \in Having(D, idom) /\ rank[idom[b]] < rank[b]
       /\ StrictDominators(S, root, b) \subseteq Dominators(S, root, idom[b])

\* The blocks on the way up from b: what every set holds that holds b and is closed upwards.
UpClosed(idom, X) == \A b \in X : idom[b] # NONE => idom[b] \in X
Above(D, idom, b) == {a \in D : \A X \in SUBSET D : b \in X /\ UpClosed(idom, X) => a \in X}

\* Where the fingers meet: above both blocks, and below whatever dominates both.
Met(D, S, root, rank, idom, a, b, r) ==
  /\ r \in Having(D, idom) /\ rank[r] <= rank[a] /\ rank[r] <= rank[b]
  /\ r \in Above(D, idom, a) /\ r \in Above(D, idom, b)
  /\ Dominators(S, root, a) \intersect Dominators(S, root, b) \subseteq Dominators(S, root, r)

\* The two fingers: the one of the higher rank climbs.
Meets(D, rank, idom, meet) ==
  \A a, b \in Having(D, idom) :
    meet[<<a, b>>] = IF a = b THEN a
                     ELSE IF rank[a] > rank[b] THEN meet[<<idom[a], b>>]
                     ELSE meet[<<a, idom[b]>>]

\* The recursion the fingers follow, ended where one has nowhere to climb to.
Climbing(D, rank, idom, meet) ==
  meet = [f \in (D \union {NONE}) \X (D \union {NONE}) |->
            IF f[1] = f[2] THEN f[1]
            ELSE IF NONE \in {f[1], f[2]} THEN NONE
            ELSE IF rank[f[1]] > rank[f[2]] THEN meet[<<idom[f[1]], f[2]>>]
            ELSE meet[<<f[1], idom[f[2]]>>]]

\* What is left after some of the edges into b, of which those from the blocks of P counted.
Chosen(D, S, root, rank, idom, b, P, a) ==
  /\ P = {} => a = NONE
  /\ P # {} => /\ a \in Having(D, idom) /\ StrictDominators(S, root, b) \subseteq Dominators(S, root, a)
               /\ \A p \in P : rank[a] <= rank[p] /\ a \in Above(D, idom, p)

\* One edge into a block, from p; the blocks of K have an idom already.
TakeEdge(K, meet, p, was) ==
  IF p \notin K THEN was ELSE IF was = NONE THEN p ELSE meet[<<p, was>>]

Folds(K, meet, point, L, u) ==
  u = [j \in 0 .. L |-> IF j = 0 THEN NONE ELSE TakeEdge(K, meet, point[j], u[j - 1])]

\* The edges into b come from point[1], ..., point[L]; P is what K has of these blocks.
Enter(S, K, point, L, b, P) ==
  /\ \A j \in 1 .. L : point[j] \in K => b \in S[point[j]]
  /\ \A p : p \in P <=> p \in K /\ \E j \in 1 .. L : point[j] = p

Changed(idom, b, new) == [idom EXCEPT ![b] = new]

\* What a sweep ends with.
Settled(D, S, root, rank, idom) ==
  \A b \in D \ {root} :
    idom[b] = root \/ Chosen(D, S, root, rank, idom, b, {p \in D : b \in S[p]}, idom[b])

LEMMA RankedDominators ==
  ASSUME NEW D, NEW S, NEW root, NEW rank, Ranked(D, S, root, rank)
  PROVE  /\ \A b \in D : /\ Dominators(S, root, b) \subseteq D
                         /\ b \in Dominators(S, root, b) /\ root \in Dominators(S, root, b)
         /\ Dominators(S, root, root) = {root}
         /\ \A p \in D : \A b \in S[p] : StrictDominators(S, root, b) \subseteq Dominators(S, root, p)
         /\ \A b \in D : \A a \in Dominators(S, root, b) : a \in D /\ rank[a] <= rank[b]
         /\ \A b \in D : \A a \in StrictDominators(S, root, b) : a \in D /\ rank[a] < rank[b]
         /\ \A b \in D : StrictDominators(S, root, b) = Dominators(S, root, b) \ {b}
<1>1. S \in [D -> SUBSET D] /\ IsFiniteSet(D) /\ root \in D
  BY DEF Ranked
<1>2. /\ \A b \in D : rank[b] \in Nat
      /\ \A b, c \in D : rank[b] = rank[c] => b = c
      /\ \A c \in D : c # root => \E p \in D : c \in S[p] /\ rank[p] < rank[c]
  BY DEF Ranked
<1> DEFINE Dom(b) == Dominators(S, root, b)
<1>3. /\ \A b \in D : Dom(b) \subseteq D
      /\ \A b \in D : b \in Dom(b) /\ root \in Dom(b)
      /\ Dom(root) = {root}
      /\ \A p \in D : \A b \in S[p] : \A a \in Dom(b) : a # b => a \in Dom(p)
  BY <1>1, DominatorRules
<1>4. \A b \in D : \A a \in Dom(b) : a # b => rank[a] < rank[b]
  BY <1>1, <1>2, DominatorOrder
<1>5. \A b : StrictDominators(S, root, b) = Dom(b) \ {b}
  BY DEF StrictDominators
<1> HIDE DEF Dom
<1>6. \A b \in D : \A a \in Dom(b) : a \in D /\ rank[a] <= rank[b]
  <2> SUFFICES ASSUME NEW b \in D, NEW a \in Dom(b) PROVE a \in D /\ rank[a] <= rank[b]
    OBVIOUS
  <2>1. a \in D /\ rank[a] \in Nat /\ rank[b] \in Nat
    BY <1>2, <1>3
  <2> QED BY <2>1, <1>4
<1>7. \A p \in D : \A b \in S[p] : Dom(b) \ {b} \subseteq Dom(p)
  BY <1>3
<1>8. \A b \in D : \A a \in Dom(b) \ {b} : a \in D /\ rank[a] < rank[b]
  BY <1>3, <1>4
<1> QED BY <1>3, <1>5, <1>6, <1>7, <1>8 DEF Dom

(***************************************************************************)
(* The fingers                                                             *)
(***************************************************************************)
LEMMA AboveFacts ==
  ASSUME NEW D, NEW idom, idom \in [D -> D \union {NONE}]
  PROVE  /\ \A b \in D : b \in Above(D, idom, b)
         /\ \A b \in D : \A a \in Above(D, idom, b) :
              a \in Having(D, idom) /\ idom[a] \in D => idom[a] \in Above(D, idom, b)
         /\ \A b \in D : \A a \in Above(D, idom, b) : Above(D, idom, a) \subseteq Above(D, idom, b)
<1>1. \A b \in D : b \in Above(D, idom, b)
  BY DEF Above
<1>2. \A b \in D : \A a \in Above(D, idom, b) :
        a \in Having(D, idom) /\ idom[a] \in D => idom[a] \in Above(D, idom, b)
  BY DEF Above, UpClosed, Having
<1>3. \A b \in D : \A a \in Above(D, idom, b) : Above(D, idom, a) \subseteq Above(D, idom, b)
  BY DEF Above
<1> QED BY <1>1, <1>2, <1>3

\* The recursion that the fingers follow has a solution: the sum of their ranks gets smaller.
LEMMA FingersDefined ==
  ASSUME NEW D, NEW S, NEW root, NEW rank, NEW idom,
         Ranked(D, S, root, rank), Climbs(D, S, root, rank, idom)
  PROVE  \E meet : Climbing(D, rank, idom, meet)
<1> DEFINE F == D \union {NONE}
           K == Having(D, idom)
           P == F \X F
           stop == {f \in P : f[1] = f[2] \/ NONE \in {f[1], f[2]}}
           next == [f \in P |-> IF f \in stop THEN f
                                ELSE IF rank[f[1]] > rank[f[2]] THEN <<idom[f[1]], f[2]>>
                                ELSE <<f[1], idom[f[2]]>>]
           r == [f \in P |-> IF f[1] = f[2] THEN f[1] ELSE NONE]
           N == Cardinality(D)
           m == [f \in P |-> IF f \in stop THEN 0 ELSE 1 + rank[f[1]] + rank[f[2]]]
<1>1. /\ N \in Nat /\ NONE \notin D /\ root \in D /\ rank[root] = 0
      /\ \A b \in D : rank[b] \in Nat /\ rank[b] < N
      /\ \A b, c \in D : rank[b] = rank[c] => b = c
  BY FS_CardinalityType DEF Ranked
<1>2. /\ idom \in [D -> F] /\ idom[root] = root
      /\ \A b \in K \ {root} : idom[b] \in K /\ rank[idom[b]] < rank[b]
  BY DEF Climbs
<1>3. r \in [P -> F]
  OBVIOUS
<1>4. \A f \in P : f \notin stop => /\ f[1] \in D /\ f[2] \in D /\ f[1] # f[2]
                                     /\ rank[f[1]] # rank[f[2]]
  BY <1>1
<1>5. next \in [P -> P]
  <2>1. ASSUME NEW f \in P, f \notin stop
        PROVE  <<idom[f[1]], f[2]>> \in P /\ <<f[1], idom[f[2]]>> \in P
    <3>1. f[1] \in D /\ f[2] \in D /\ f[1] \in F /\ f[2] \in F
      BY <2>1, <1>4
    <3> QED BY <3>1, <1>2
  <2> HIDE DEF stop, P
  <2> QED BY <2>1
<1>6. m \in [P -> 0 .. N + N]
  <2>1. ASSUME NEW f \in P, f \notin stop PROVE 1 + rank[f[1]] + rank[f[2]] \in 0 .. N + N
    <3>1. f[1] \in D /\ f[2] \in D
      BY <2>1, <1>4
    <3>2. /\ rank[f[1]] \in Nat /\ rank[f[1]] < N
          /\ rank[f[2]] \in Nat /\ rank[f[2]] < N
      BY <3>1, <1>1
    <3> HIDE DEF N
    <3> QED BY <3>2, <1>1
  <2>2. 0 \in 0 .. N + N
    BY <1>1
  <2> HIDE DEF stop, P, N
  <2> QED BY <2>1, <2>2
\* A finger that climbs, from any block but the root, ends lower or nowhere.
<1>7. ASSUME NEW a \in D, a # root
      PROVE  idom[a] = NONE \/ (idom[a] \in D /\ rank[idom[a]] < rank[a])
  BY <1>2, <1>7 DEF Having
<1>8. ASSUME NEW f \in P, f \notin stop PROVE m[next[f]] < m[f]
  <2>1. /\ f[1] \in D /\ f[2] \in D
        /\ rank[f[1]] # rank[f[2]] /\ rank[f[1]] \in Nat /\ rank[f[2]] \in Nat
    BY <1>1, <1>4, <1>8
  <2>2. m[f] = 1 + rank[f[1]] + rank[f[2]]
    BY <1>8
  <2>3. next[f] \in P
    BY <1>5
  <2>4. m[next[f]] = IF next[f] \in stop THEN 0 ELSE 1 + rank[next[f][1]] + rank[next[f][2]]
    BY <2>3
  <2>5. next[f] \in stop => m[next[f]] < m[f]
    <3> HIDE DEF m, next, stop
    <3>1. next[f] \in stop => m[next[f]] = 0
      BY <2>4
    <3> QED BY <3>1, <2>1, <2>2
  <2>6. CASE rank[f[1]] > rank[f[2]]
    <3>1. next[f] = <<idom[f[1]], f[2]>>
      BY <2>6, <1>8
    <3>2. next[f][1] = idom[f[1]] /\ next[f][2] = f[2]
      BY <3>1
    <3>3. f[1] # root
      BY <2>1, <2>6, <1>1
    <3>4. next[f] \notin stop => idom[f[1]] \in D
      <4>1. next[f] \notin stop => next[f][1] \in D
        BY <2>3, <1>4
      <4> QED BY <4>1, <3>2
    <3>5. next[f] \notin stop => rank[idom[f[1]]] < rank[f[1]] /\ rank[idom[f[1]]] \in Nat
      <4> HIDE DEF stop, next
      <4> QED BY <3>3, <3>4, <2>1, <1>1, <1>7
    <3> HIDE DEF m, next, stop
    <3>6. next[f] \notin stop => m[next[f]] = 1 + rank[idom[f[1]]] + rank[f[2]]
      BY <2>4, <3>2
    <3> QED BY <3>5, <3>6, <2>1, <2>2, <2>5
  <2>7. CASE ~(rank[f[1]] > rank[f[2]])
    <3>1. next[f] = <<f[1], idom[f[2]]>>
      BY <2>7, <1>8
    <3>2. next[f][1] = f[1] /\ next[f][2] = idom[f[2]]
      BY <3>1
    <3>3. f[2] # root
      BY <2>1, <2>7, <1>1
    <3>4. next[f] \notin stop => idom[f[2]] \in D
      <4>1. next[f] \notin stop => next[f][2] \in D
        BY <2>3, <1>4
      <4> QED BY <4>1, <3>2
    <3>5. next[f] \notin stop => rank[idom[f[2]]] < rank[f[2]] /\ rank[idom[f[2]]] \in Nat
      <4> HIDE DEF stop, next
      <4> QED BY <3>3, <3>4, <2>1, <1>1, <1>7
    <3> HIDE DEF m, next, stop
    <3>6. next[f] \notin stop => m[next[f]] = 1 + rank[f[1]] + rank[idom[f[2]]]
      BY <2>4, <3>2
    <3> QED BY <3>5, <3>6, <2>1, <2>2, <2>5
  <2> QED BY <2>6, <2>7
<1>9. PICK h \in [P -> F] : \A f \in P : h[f] = IF f \in stop THEN r[f] ELSE h[next[f]]
  <2> DEFINE M == N + N
  <2>1. M \in Nat /\ m \in [P -> 0 .. M]
    BY <1>1, <1>6
  <2>2. \A f \in P : f \notin stop => m[next[f]] < m[f]
    BY <1>8
  <2> HIDE DEF P, stop, next, r, m, N, M
  <2>3. Falls(P, F, stop, r, next, M, m)
    BY <2>1, <2>2, <1>3, <1>5 DEF Falls
  <2> QED BY <2>3, DescentExists
<1> DEFINE Step1(w, f) == IF f[1] = f[2] THEN f[1]
                          ELSE IF NONE \in {f[1], f[2]} THEN NONE
                          ELSE IF rank[f[1]] > rank[f[2]] THEN w[<<idom[f[1]], f[2]>>]
                          ELSE w[<<f[1], idom[f[2]]>>]
<1>10. ASSUME NEW f \in P PROVE h[f] = Step1(h, f)
  <2>1. CASE f \in stop
    <3>1. h[f] = r[f]
      BY <2>1, <1>9
    <3> QED BY <3>1, <2>1
  <2>2. CASE f \notin stop
    <3>1. h[f] = h[next[f]]
      BY <2>2, <1>9
    <3>2. h[next[f]] = Step1(h, f)
      BY <2>2
    <3> QED BY <3>1, <3>2
  <2> QED BY <2>1, <2>2
<1>11. h = [f \in F \X F |-> Step1(h, f)]
  <2>1. h = [f \in P |-> h[f]]
    BY <1>9
  <2> HIDE DEF Step1
  <2> QED BY <2>1, <1>10
<1> QED BY <1>11 DEF Climbing

LEMMA FingersMeet ==
  ASSUME NEW D, NEW S, NEW root, NEW rank, NEW idom, NEW meet,
         Ranked(D, S, root, rank), Climbs(D, S, root, rank, idom), Meets(D, rank, idom, meet)
  PROVE  \A a, b \in Having(D, idom) : Met(D, S, root, rank, idom, a, b, meet[<<a, b>>])
<1> DEFINE K == Having(D, idom)
           Dom(b) == Dominators(S, root, b)
           Up(b) == Above(D, idom, b)
           MetAt(a, b, r) == /\ r \in K /\ rank[r] <= rank[a] /\ rank[r] <= rank[b]
                             /\ r \in Up(a) /\ r \in Up(b)
                             /\ Dom(a) \intersect Dom(b) \subseteq Dom(r)
           Bad == {n \in Nat : \E a, b \in K : rank[a] + rank[b] = n /\ ~MetAt(a, b, meet[<<a, b>>])}
<1>1. /\ rank[root] = 0
      /\ \A b \in D : rank[b] \in Nat
      /\ \A b, c \in D : rank[b] = rank[c] => b = c
      /\ K \subseteq D
  BY DEF Ranked, Having
<1>2. /\ idom \in [D -> D \union {NONE}]
      /\ \A b \in K \ {root} : /\ idom[b] \in K /\ rank[idom[b]] < rank[b]
                                 /\ StrictDominators(S, root, b) \subseteq Dom(idom[b])
  BY DEF Climbs
<1>3. /\ \A b \in D : \A d \in Dom(b) : rank[d] <= rank[b] /\ d \in D
      /\ \A b \in D : StrictDominators(S, root, b) = Dom(b) \ {b}
  BY RankedDominators
<1>4. /\ \A b \in D : b \in Up(b)
      /\ \A b \in K \ {root} : Up(idom[b]) \subseteq Up(b)
  <2>1. /\ \A b \in D : b \in Up(b)
        /\ \A b \in D : \A y \in Up(b) : y \in K /\ idom[y] \in D => idom[y] \in Up(b)
        /\ \A b \in D : \A y \in Up(b) : Up(y) \subseteq Up(b)
    BY <1>2, AboveFacts
  <2> HIDE DEF K, Up
  <2> QED BY <2>1, <1>1, <1>2
<1>5. \A a, b \in K : meet[<<a, b>>] = IF a = b THEN a
                                       ELSE IF rank[a] > rank[b] THEN meet[<<idom[a], b>>]
                                       ELSE meet[<<a, idom[b]>>]
  BY DEF Meets
<1>6. \A a, b, r : Met(D, S, root, rank, idom, a, b, r) <=> MetAt(a, b, r)
  <2> HIDE DEF Bad
  <2> QED BY DEF Met, K
<1> HIDE DEF MetAt
<1> SUFFICES \A a, b \in K : MetAt(a, b, meet[<<a, b>>])
  BY <1>6
<1> HIDE DEF K, Dom, Up
<1> SUFFICES ASSUME NEW a0 \in K, NEW b0 \in K, ~MetAt(a0, b0, meet[<<a0, b0>>])
             PROVE  FALSE
  OBVIOUS
<1>7. PICK n \in Bad : \A k \in Bad : n <= k
  <2>1. rank[a0] + rank[b0] \in Bad /\ Bad \in SUBSET Nat
    BY <1>1
  <2> HIDE DEF Bad
  <2> QED BY <2>1, Smallest
<1>8. PICK a \in K, b \in K : rank[a] + rank[b] = n /\ ~MetAt(a, b, meet[<<a, b>>])
  BY <1>7
<1>9. \A c, d \in K : rank[c] + rank[d] < n => MetAt(c, d, meet[<<c, d>>])
  <2> SUFFICES ASSUME NEW c \in K, NEW d \in K, rank[c] + rank[d] < n,
                      ~MetAt(c, d, meet[<<c, d>>])
               PROVE  FALSE
    OBVIOUS
  <2>1. rank[c] + rank[d] \in Nat
    BY <1>1
  <2>2. rank[c] + rank[d] \in Bad
    BY <2>1
  <2>3. n <= rank[c] + rank[d] /\ n \in Nat
    BY <2>2, <1>7
  <2> QED BY <2>1, <2>3
<1> HIDE DEF Bad
<1>10. a \in D /\ b \in D /\ rank[a] \in Nat /\ rank[b] \in Nat
  BY <1>1
<1>11. CASE a = b
  <2>1. MetAt(a, a, a)
    BY <1>4, <1>10 DEF MetAt
  <2> QED BY <2>1, <1>5, <1>8, <1>11
<1>12. CASE rank[a] > rank[b]
  <2> DEFINE c == idom[a]
             r == meet[<<c, b>>]
  <2>1. a # root /\ a # b
    BY <1>1, <1>10, <1>12
  <2>2. /\ c \in K /\ c \in D /\ rank[c] < rank[a] /\ rank[c] \in Nat
        /\ Dom(a) \ {a} \subseteq Dom(c) /\ Up(c) \subseteq Up(a)
    BY <2>1, <1>1, <1>2, <1>3, <1>4, <1>10
  <2>3. meet[<<a, b>>] = r
    BY <2>1, <1>5, <1>12
  <2>4. rank[c] + rank[b] < n
    BY <2>2, <1>8, <1>10
  <2> HIDE DEF c
  <2>5. MetAt(c, b, r)
    BY <2>2, <2>4, <1>9
  <2> HIDE DEF r
  <2>6. r \in D /\ rank[r] \in Nat
    BY <2>5, <1>1 DEF MetAt
  <2>7. a \notin Dom(b)
    BY <1>3, <1>10, <1>12
  <2>8. Dom(a) \intersect Dom(b) \subseteq Dom(r)
    BY <2>2, <2>5, <2>7 DEF MetAt
  <2>9. rank[r] <= rank[a]
    BY <2>2, <2>5, <2>6, <1>10 DEF MetAt
  <2>10. MetAt(a, b, r)
    BY <2>2, <2>5, <2>8, <2>9 DEF MetAt
  <2> QED BY <2>3, <2>10, <1>8
<1>13. CASE a # b /\ ~(rank[a] > rank[b])
  <2> DEFINE c == idom[b]
             r == meet[<<a, c>>]
  <2>1. rank[b] > rank[a] /\ b # root
    BY <1>1, <1>10, <1>13
  <2>2. /\ c \in K /\ c \in D /\ rank[c] < rank[b] /\ rank[c] \in Nat
        /\ Dom(b) \ {b} \subseteq Dom(c) /\ Up(c) \subseteq Up(b)
    BY <2>1, <1>1, <1>2, <1>3, <1>4, <1>10
  <2>3. meet[<<a, b>>] = r
    BY <1>5, <1>13
  <2>4. rank[a] + rank[c] < n
    BY <2>2, <1>8, <1>10
  <2> HIDE DEF c
  <2>5. MetAt(a, c, r)
    BY <2>2, <2>4, <1>9
  <2> HIDE DEF r
  <2>6. r \in D /\ rank[r] \in Nat
    BY <2>5, <1>1 DEF MetAt
  <2>7. b \notin Dom(a)
    BY <2>1, <1>3, <1>10
  <2>8. Dom(a) \intersect Dom(b) \subseteq Dom(r)
    BY <2>2, <2>5, <2>7 DEF MetAt
  <2>9. rank[r] <= rank[b]
    BY <2>2, <2>5, <2>6, <1>10 DEF MetAt
  <2>10. MetAt(a, b, r)
    BY <2>2, <2>5, <2>8, <2>9 DEF MetAt
  <2> QED BY <2>3, <2>10, <1>8
<1> QED BY <1>11, <1>12, <1>13


(***************************************************************************)
(* One block of a sweep                                                    *)
(***************************************************************************)
LEMMA EdgesFold ==
  ASSUME NEW D, NEW S, NEW root, NEW rank, NEW idom, NEW meet,
         Ranked(D, S, root, rank), Climbs(D, S, root, rank, idom), Meets(D, rank, idom, meet),
         NEW K, K = Having(D, idom), NEW L \in Nat, NEW point
  PROVE  \E u : Folds(K, meet, point, L, u)
<1> DEFINE R == K \union {NONE}
           Take1(j, was) == TakeEdge(K, meet, point[j], was)
           F == [j \in 1 .. L |-> [was \in R |-> Take1(j, was)]]
<1>1. \A p, a \in K : meet[<<p, a>>] \in K
  BY FingersMeet DEF Met
<1>2. \A j \in 1 .. L : \A was \in R : Take1(j, was) \in R
  BY <1>1 DEF TakeEdge
<1>3. F \in [1 .. L -> [R -> R]]
  <2> HIDE DEF Take1, R
  <2> QED BY <1>2
<1>4. PICK u : Solves(u, R, NONE, L, F)
  <2>1. NONE \in R
    OBVIOUS
  <2> HIDE DEF F, R
  <2> QED BY <2>1, <1>3, RecursionExists
<1>5. \A j \in 0 .. L : u[j] = IF j = 0 THEN NONE ELSE Take1(j, u[j - 1])
  <2>1. \A j \in 0 .. L : u[j] \in R
    BY <1>4 DEF Solves
  <2> SUFFICES ASSUME NEW j \in 0 .. L PROVE u[j] = IF j = 0 THEN NONE ELSE Take1(j, u[j - 1])
    OBVIOUS
  <2> HIDE DEF Take1, R
  <2>2. CASE j = 0
    <3> HIDE DEF F
    <3> QED BY <2>2, <1>4 DEF Solves
  <2>3. CASE j # 0
    <3>1. j \in 1 .. L /\ j - 1 \in 0 .. L
      BY <2>3
    <3>2. u[j] = F[j][u[j - 1]]
      <4> HIDE DEF F
      <4> QED BY <2>3, <1>4 DEF Solves
    <3> QED BY <3>1, <3>2, <2>1, <2>3
  <2> QED BY <2>2, <2>3
<1> HIDE DEF Take1, F, R
<1>6. u = [j \in 0 .. L |-> IF j = 0 THEN NONE ELSE Take1(j, u[j - 1])]
  <2>1. u = [j \in 0 .. L |-> u[j]]
    BY <1>4 DEF Solves
  <2> QED BY <2>1, <1>5
<1> QED BY <1>6 DEF Take1, Folds

\* What is left after all of the edges into b.
LEMMA EdgesFolded ==
  ASSUME NEW D, NEW S, NEW root, NEW rank, NEW idom, NEW meet,
         Ranked(D, S, root, rank), Climbs(D, S, root, rank, idom), Meets(D, rank, idom, meet),
         NEW K, K = Having(D, idom), NEW L \in Nat, NEW point, NEW b \in D,
         NEW P, Enter(S, K, point, L, b, P), NEW v, Folds(K, meet, point, L, v)
  PROVE  Chosen(D, S, root, rank, idom, b, P, v[L])
<1> DEFINE Dom(c) == Dominators(S, root, c)
           Up(c) == Above(D, idom, c)
           SD == StrictDominators(S, root, b)
           Seen(j) == {p \in K : \E k \in 1 .. j : point[k] = p}
           Best(T, a) == /\ T = {} => a = NONE
                         /\ T # {} => /\ a \in K /\ SD \subseteq Dom(a)
                                      /\ \A p \in T : rank[a] <= rank[p] /\ a \in Up(p)
           G == {j \in 0 .. L : Best(Seen(j), v[j])}
<1>1. /\ NONE \notin D /\ K \subseteq D
      /\ \A c \in D : rank[c] \in Nat
  BY DEF Ranked, Having
<1>2. \A p, a \in K : LET r == meet[<<p, a>>]
                      IN  /\ r \in K /\ rank[r] <= rank[p] /\ rank[r] <= rank[a]
                          /\ r \in Up(p) /\ r \in Up(a) /\ Dom(p) \intersect Dom(a) \subseteq Dom(r)
  <2> HIDE DEF G, Seen, Best
  <2>1. \A p, a \in K : Met(D, S, root, rank, idom, p, a, meet[<<p, a>>])
    BY FingersMeet
  <2>2. ASSUME NEW p \in K, NEW a \in K
        PROVE  LET r == meet[<<p, a>>]
               IN  /\ r \in K /\ rank[r] <= rank[p] /\ rank[r] <= rank[a]
                   /\ r \in Up(p) /\ r \in Up(a) /\ Dom(p) \intersect Dom(a) \subseteq Dom(r)
    <3>1. Met(D, S, root, rank, idom, p, a, meet[<<p, a>>])
      BY <2>1
    <3> QED BY <3>1 DEF Met
  <2> QED BY <2>2
<1>3. \A p \in D : b \in S[p] => SD \subseteq Dom(p)
  <2> HIDE DEF G, Seen, Best
  <2>1. \A p \in D : \A c \in S[p] : StrictDominators(S, root, c) \subseteq Dominators(S, root, p)
    BY RankedDominators
  <2> QED BY <2>1
<1>4. /\ \A p \in D : p \in Up(p)
      /\ \A p \in D : \A a \in Up(p) : Up(a) \subseteq Up(p)
  BY AboveFacts DEF Climbs
<1>5. \A T, a : Chosen(D, S, root, rank, idom, b, T, a) <=> Best(T, a)
  <2> HIDE DEF G, Seen
  <2> QED BY DEF Chosen
<1>6. v[0] = NONE /\ \A j \in 1 .. L : v[j] = TakeEdge(K, meet, point[j], v[j - 1])
  <2>1. 0 \in 0 .. L /\ \A j \in 1 .. L : j \in 0 .. L /\ j # 0
    OBVIOUS
  <2> HIDE DEF G, Seen
  <2> QED BY <2>1 DEF Folds
<1>11. /\ \A j \in 1 .. L : point[j] \in K => b \in S[point[j]]
       /\ \A p : p \in P <=> p \in K /\ \E j \in 1 .. L : point[j] = p
  BY DEF Enter
<1> HIDE DEF Dom, Up, SD
<1>7. 0 \in G
  <2>1. Seen(0) = {} /\ 0 \in 0 .. L
    OBVIOUS
  <2> HIDE DEF Seen
  <2> QED BY <2>1, <1>6
<1>8. ASSUME NEW j \in 1 .. L, j - 1 \in G PROVE j \in G
  <2> DEFINE p == point[j]
             was == v[j - 1]
             Q == Seen(j - 1)
  <2>1. j \in 0 .. L /\ Best(Q, was) /\ v[j] = TakeEdge(K, meet, p, was) /\ (p \in K => b \in S[p])
    BY <1>6, <1>8, <1>11
  <2>2. Seen(j) = IF p \in K THEN Q \union {p} ELSE Q
    <3>1. \A k : k \in 1 .. j <=> k \in 1 .. j - 1 \/ k = j
      OBVIOUS
    <3> QED BY <3>1
  <2>3. Q \subseteq K
    OBVIOUS
  <2> HIDE DEF Q, was, p, G, Seen
  <2>4. Best(Seen(j), v[j])
    <3>1. CASE p \notin K
      <4>1. v[j] = was /\ Seen(j) = Q
        BY <3>1, <2>1, <2>2 DEF TakeEdge
      <4> QED BY <4>1, <2>1
    <3>2. CASE p \in K /\ Q = {}
      <4>1. v[j] = p /\ Seen(j) = {p}
        BY <3>2, <2>1, <2>2 DEF TakeEdge
      <4>2. p \in D /\ rank[p] <= rank[p] /\ p \in Up(p) /\ SD \subseteq Dom(p)
        BY <3>2, <2>1, <1>1, <1>3, <1>4
      <4> QED BY <4>1, <4>2, <3>2
    <3>3. CASE p \in K /\ Q # {}
      <4> DEFINE a == meet[<<p, was>>]
      <4>1. was \in K /\ SD \subseteq Dom(was) /\ \A c \in Q : rank[was] <= rank[c] /\ was \in Up(c)
        BY <3>3, <2>1
      <4>2. v[j] = a /\ Seen(j) = Q \union {p}
        BY <3>3, <4>1, <2>1, <2>2, <1>1 DEF TakeEdge
      <4>3. /\ a \in K /\ rank[a] <= rank[p] /\ rank[a] <= rank[was]
            /\ a \in Up(p) /\ a \in Up(was) /\ Dom(p) \intersect Dom(was) \subseteq Dom(a)
        BY <3>3, <4>1, <1>2
      <4> HIDE DEF a
      <4>4. SD \subseteq Dom(a)
        BY <3>3, <4>1, <4>3, <2>1, <1>1, <1>3
      <4>5. ASSUME NEW c \in Q PROVE rank[a] <= rank[c] /\ a \in Up(c)
        <5>1. c \in D /\ rank[a] \in Nat /\ rank[c] \in Nat /\ rank[was] \in Nat
          BY <2>3, <4>1, <4>3, <1>1
        <5>2. rank[a] <= rank[c]
          BY <5>1, <4>1, <4>3
        <5>3. a \in Up(c)
          BY <5>1, <4>1, <4>3, <1>4
        <5> QED BY <5>2, <5>3
      <4> QED BY <4>2, <4>3, <4>4, <4>5
    <3> QED BY <3>1, <3>2, <3>3
  <2> HIDE DEF Best
  <2> QED BY <2>1, <2>4 DEF G
<1>9. L \in G
  <2>1. L \in 0 .. L
    OBVIOUS
  <2> HIDE DEF G
  <2> QED BY <2>1, <1>7, <1>8, UpTo
<1> HIDE DEF Best
<1>10. P = Seen(L)
  BY <1>11 DEF Seen
<1> QED BY <1>5, <1>9, <1>10 DEF G

(***************************************************************************)
(* The sweeps                                                              *)
(***************************************************************************)
LEMMA ClimbStarts ==
  ASSUME NEW D, NEW S, NEW root, NEW rank, NEW idom, Ranked(D, S, root, rank),
         idom = [b \in D |-> IF b \in {root} \union S[root] THEN root ELSE NONE]
  PROVE  Climbs(D, S, root, rank, idom) /\ Having(D, idom) = {root} \union S[root]
<1>1. /\ NONE \notin D /\ root \in D /\ rank[root] = 0 /\ S[root] \subseteq D
      /\ \A b \in D : rank[b] \in Nat
      /\ \A b, c \in D : rank[b] = rank[c] => b = c
  BY DEF Ranked
<1>2. Having(D, idom) = {root} \union S[root]
  BY <1>1 DEF Having
<1>3. \A b \in S[root] : StrictDominators(S, root, b) \subseteq Dominators(S, root, root)
  BY <1>1, RankedDominators
<1>4. idom \in [D -> D \union {NONE}] /\ idom[root] = root
  BY <1>1
<1>5. ASSUME NEW b \in Having(D, idom) \ {root}
      PROVE  /\ idom[b] \in Having(D, idom) /\ rank[idom[b]] < rank[b]
             /\ StrictDominators(S, root, b) \subseteq Dominators(S, root, idom[b])
  <2>1. b \in S[root] /\ b \in D /\ b # root /\ idom[b] = root
    BY <1>1, <1>2
  <2>2. rank[root] < rank[b]
    <3>1. rank[b] \in Nat /\ rank[b] # 0
      BY <2>1, <1>1
    <3> QED BY <3>1, <1>1
  <2> QED BY <2>1, <2>2, <1>2, <1>3
<1> QED BY <1>2, <1>4, <1>5 DEF Climbs

LEMMA ClimbGoesOn ==
  ASSUME NEW D, NEW S, NEW root, NEW rank, NEW idom,
         Ranked(D, S, root, rank), Climbs(D, S, root, rank, idom),
         NEW b \in D, b # root, NEW P, NEW new, Chosen(D, S, root, rank, idom, b, P, new),
         NEW p \in P, p \in D, rank[p] < rank[b],
         NEW next, next = Changed(idom, b, new)
  PROVE  /\ new \in D /\ new # NONE
         /\ Climbs(D, S, root, rank, next) /\ Having(D, next) = Having(D, idom) \union {b}
<1> DEFINE K == Having(D, idom)
<1>1. /\ idom \in [D -> D \union {NONE}] /\ idom[root] = root
      /\ \A c \in K \ {root} :
           /\ idom[c] \in K /\ rank[idom[c]] < rank[c]
           /\ StrictDominators(S, root, c) \subseteq Dominators(S, root, idom[c])
  BY DEF Climbs
<1>2. K \subseteq D /\ NONE \notin D /\ \A c \in D : rank[c] \in Nat
  BY DEF Having, Ranked
<1>3. new \in K /\ rank[new] < rank[b] /\ StrictDominators(S, root, b) \subseteq Dominators(S, root, new)
  <2>1. new \in K /\ rank[new] <= rank[p] /\ StrictDominators(S, root, b) \subseteq Dominators(S, root, new)
    BY DEF Chosen
  <2> HIDE DEF K
  <2>2. rank[new] \in Nat /\ rank[p] \in Nat /\ rank[b] \in Nat
    BY <2>1, <1>2
  <2> QED BY <2>1, <2>2
<1>4. /\ next \in [D -> D \union {NONE}] /\ next[b] = new
      /\ \A c \in D : c # b => next[c] = idom[c]
  BY <1>1, <1>2, <1>3 DEF Changed
<1>5. Having(D, next) = K \union {b}
  BY <1>2, <1>3, <1>4 DEF Having
<1> HIDE DEF K
<1>6. ASSUME NEW c \in Having(D, next) \ {root}
      PROVE  /\ next[c] \in Having(D, next) /\ rank[next[c]] < rank[c]
             /\ StrictDominators(S, root, c) \subseteq Dominators(S, root, next[c])
  <2>1. CASE c = b
    BY <2>1, <1>3, <1>4, <1>5
  <2>2. CASE c # b
    <3>1. c \in K \ {root} /\ next[c] = idom[c]
      BY <2>2, <1>2, <1>4, <1>5
    <3> QED BY <3>1, <1>1, <1>5
  <2> QED BY <2>1, <2>2
<1>7. next[root] = root
  <2>1. root \in D
    BY DEF Ranked
  <2> QED BY <2>1, <1>1, <1>4
<1>8. Climbs(D, S, root, rank, next)
  BY <1>4, <1>6, <1>7 DEF Climbs
<1> QED BY <1>2, <1>3, <1>5, <1>8 DEF K

\* i is the strict dominator of b, and the only one, that all the others dominate.
OnlyIdom(S, root, b, i) ==
  /\ i \in StrictDominators(S, root, b)
  /\ \A a \in StrictDominators(S, root, b) :
       StrictDominators(S, root, b) \subseteq Dominators(S, root, a) <=> a = i

LEMMA IdomIs ==
  ASSUME NEW S, NEW root, NEW b, NEW i, OnlyIdom(S, root, b, i)
  PROVE  Idom(S, root, b) = i
<1> DEFINE SD == StrictDominators(S, root, b)
           Dom(a) == Dominators(S, root, a)
<1>1. i \in SD /\ \A a \in SD : SD \subseteq Dom(a) <=> a = i
  BY DEF OnlyIdom
<1>2. Idom(S, root, b) = CHOOSE a \in SD : SD \subseteq Dom(a)
  BY DEF Idom
<1> HIDE DEF SD, Dom
<1>3. (CHOOSE a \in SD : SD \subseteq Dom(a)) = i
  BY <1>1
<1> QED BY <1>2, <1>3

\* A part of a graph that no edge leaves, and that can be reached, has the dominators it has in
\* the whole graph.
LEMMA PartDominators ==
  ASSUME NEW A, IsFiniteSet(A), NEW T \in [A -> SUBSET A], NEW root \in A,
         NEW D \in SUBSET A, root \in D,
         D \subseteq ReachableFrom(T, {root}),
         NEW S \in [D -> SUBSET D], \A b \in D : S[b] = T[b]
  PROVE  \A b \in D : Dominators(T, root, b) = Dominators(S, root, b)
<1>1. \A b \in D : S[b] = T[b] /\ T[b] \subseteq D
  OBVIOUS
<1>2. IsFiniteSet(D)
  BY FS_Subset
<1>3. \A b : Dominators(T, root, b) = {a \in A : b \notin ReachableAvoiding(T, root, a)}
  BY DEF Dominators
<1>4. \A b : Dominators(S, root, b) = {a \in D : b \notin ReachableAvoiding(S, root, a)}
  BY DEF Dominators
<1>5. ASSUME NEW a \in A \ D, NEW b \in D PROVE b \in ReachableAvoiding(T, root, a)
  <2> DEFINE R == ReachableAvoiding(T, root, a)
  <2>1. root \in R /\ R \subseteq A /\ \A c \in R : T[c] \ {a} \subseteq R
    BY AvoidingIsLeast
  <2> HIDE DEF R
  <2>2. D \subseteq R
    <3> DEFINE Y == R \intersect D
    <3>1. {root} \subseteq Y /\ \A c \in Y : T[c] \subseteq Y
      BY <2>1
    <3>2. {root} \in SUBSET A
      OBVIOUS
    <3> HIDE DEF Y
    <3>3. ReachableFrom(T, {root}) \subseteq Y
      BY <3>1, <3>2, ReachableIsLeast
    <3> QED BY <3>3 DEF Y
  <2> QED BY <2>2 DEF R
<1>6. ASSUME NEW a \in D PROVE ReachableAvoiding(T, root, a) = ReachableAvoiding(S, root, a)
  <2>1. CASE a = root
    BY <2>1 DEF ReachableAvoiding
  <2>2. CASE a # root
    <3> DEFINE R == ReachableAvoiding(T, root, a)
               Q == ReachableAvoiding(S, root, a)
    <3>1. /\ root \in R /\ \A c \in R : T[c] \ {a} \subseteq R
          /\ \A X : root \in X /\ (\A c \in X : T[c] \ {a} \subseteq X) => R \subseteq X
      BY <2>2, AvoidingIsLeast
    <3>2. /\ root \in Q /\ Q \subseteq D /\ \A c \in Q : S[c] \ {a} \subseteq Q
          /\ \A X : root \in X /\ (\A c \in X : S[c] \ {a} \subseteq X) => Q \subseteq X
      BY <2>2, <1>2, AvoidingIsLeast
    <3> HIDE DEF R, Q
    <3>3. R \subseteq Q
      BY <3>1, <3>2, <1>1
    <3>4. \A c \in R : S[c] \ {a} \subseteq R
      BY <3>1, <3>2, <3>3, <1>1
    <3>5. Q \subseteq R
      BY <3>1, <3>2, <3>4
    <3> QED BY <3>3, <3>5 DEF R, Q
  <2> QED BY <2>1, <2>2
<1> SUFFICES ASSUME NEW b \in D PROVE Dominators(T, root, b) = Dominators(S, root, b)
  OBVIOUS
<1>7. \A a : a \in A /\ b \notin ReachableAvoiding(T, root, a) <=> a \in D /\ b \notin ReachableAvoiding(S, root, a)
  BY <1>5, <1>6
<1> QED BY <1>3, <1>4, <1>7

\* Once every block is known and settled, idom holds the immediate dominators: the blocks
\* above a block are its dominators.
LEMMA DominatorsFound ==
  ASSUME NEW D, NEW S, NEW root, NEW rank, NEW idom,
         Ranked(D, S, root, rank), Climbs(D, S, root, rank, idom), Having(D, idom) = D,
         Settled(D, S, root, rank, idom)
  PROVE  \A b \in D \ {root} : OnlyIdom(S, root, b, idom[b])
<1> DEFINE Dom(b) == Dominators(S, root, b)
           Up(b) == Above(D, idom, b)
<1>1. /\ root \in D /\ S \in [D -> SUBSET D] /\ IsFiniteSet(D) /\ NONE \notin D
      /\ \A c \in D : rank[c] \in Nat
      /\ \A b, c \in D : rank[b] = rank[c] => b = c
  BY DEF Ranked
<1>2. /\ idom \in [D -> D \union {NONE}] /\ idom[root] = root
      /\ \A c \in D : idom[c] \in D
      /\ \A c \in D \ {root} : /\ rank[idom[c]] < rank[c]
                                /\ StrictDominators(S, root, c) \subseteq Dom(idom[c])
  BY <1>1 DEF Climbs, Having
<1>3. /\ \A c \in D : \A a \in Dom(c) : rank[a] <= rank[c] /\ a \in D
      /\ \A c \in D : root \in Dom(c) /\ StrictDominators(S, root, c) = Dom(c) \ {c}
  BY RankedDominators
<1>4. /\ \A c \in D : c \in Up(c) /\ Up(c) \subseteq D
      /\ \A c \in D : \A a \in Up(c) : idom[a] \in Up(c)
      /\ \A c \in D : \A a \in Up(c) : Up(a) \subseteq Up(c)
  <2>1. \A c : Up(c) \subseteq D
    BY DEF Above
  <2> QED BY <2>1, <1>2, AboveFacts
<1>5. \A c, X : c \in X /\ X \subseteq D /\ (\A a \in X : idom[a] \in X) => Up(c) \subseteq X
  BY DEF Above, UpClosed
<1> HIDE DEF Up
<1>6. ASSUME NEW c \in D PROVE root \in Up(c)
  <2> DEFINE H == {n \in Nat : \E a \in Up(c) : rank[a] = n}
  <2>1. rank[c] \in H /\ H \in SUBSET Nat
    BY <1>1, <1>4
  <2>2. PICK n \in H : \A k \in H : n <= k
    <3> HIDE DEF H
    <3> QED BY <2>1, Smallest
  <2>3. PICK a \in Up(c) : rank[a] = n
    BY <2>2
  <2>4. a \in D /\ idom[a] \in Up(c) /\ idom[a] \in D
    BY <1>2, <1>4
  <2>5. rank[idom[a]] \in H /\ rank[idom[a]] \in Nat
    BY <2>4, <1>1
  <2>6. n <= rank[idom[a]]
    BY <2>2, <2>5
  <2>7. a = root
    <3> SUFFICES ASSUME a # root PROVE FALSE
      OBVIOUS
    <3>1. rank[idom[a]] < n
      BY <2>3, <2>4, <1>2
    <3> QED BY <3>1, <2>2, <2>5, <2>6
  <2> QED BY <2>7
<1>7. ASSUME NEW c \in D, NEW d \in S[c], d # root PROVE idom[d] \in Up(c)
  <2>1. d \in D /\ d \in D \ {root}
    BY <1>1, <1>7
  <2>2. CASE idom[d] = root
    BY <2>2, <1>6
  <2>3. CASE idom[d] # root
    <3> DEFINE P == {p \in D : d \in S[p]}
    <3>1. Chosen(D, S, root, rank, idom, d, P, idom[d]) /\ c \in P
      BY <2>1, <2>3 DEF Settled
    <3> HIDE DEF P
    <3>2. idom[d] \in Above(D, idom, c)
      BY <3>1 DEF Chosen
    <3> QED BY <3>2 DEF Up
  <2> QED BY <2>2, <2>3
<1>8. Up(root) \subseteq {root}
  <2> DEFINE X == {root}
  <2>1. root \in X /\ X \subseteq D /\ \A a \in X : idom[a] \in X
    BY <1>1, <1>2
  <2> HIDE DEF X
  <2>2. Up(root) \subseteq X
    BY <2>1, <1>5
  <2> QED BY <2>2 DEF X
<1>9. ASSUME NEW c \in D, NEW d \in S[c] PROVE Up(d) \subseteq {d} \union Up(c)
  <2>1. CASE d = root
    BY <2>1, <1>8
  <2>2. CASE d # root
    <3> DEFINE X == {d} \union Up(c)
    <3>1. d \in X /\ X \subseteq D /\ d \in D
      BY <1>1, <1>4
    <3>2. \A a \in X : idom[a] \in X
      BY <2>2, <1>4, <1>7
    <3> HIDE DEF X
    <3>3. Up(d) \subseteq X
      BY <3>1, <3>2, <1>5
    <3> QED BY <3>3 DEF X
  <2> QED BY <2>1, <2>2
<1>10. ASSUME NEW b \in D, NEW a \in Up(b) PROVE a \in Dom(b)
  <2> DEFINE R == ReachableAvoiding(S, root, a)
             X == {c \in D : a \notin Up(c)}
  <2>1. CASE a = root
    BY <2>1, <1>3
  <2>2. CASE a # root
    <3>1. root \in X
      BY <2>2, <1>1, <1>8
    <3>2. \A c \in X : S[c] \ {a} \subseteq X
      BY <1>1, <1>9
    <3>3. a \in D /\ S \in [D -> SUBSET D]
      BY <1>1, <1>4
    <3> HIDE DEF X
    <3>4. R \subseteq X
      BY <2>2, <3>1, <3>2, <3>3, <1>1, AvoidingIsLeast
    <3>5. b \notin R
      BY <3>4 DEF X
    <3>6. a \in Dominators(S, root, b)
      <4> HIDE DEF R
      <4>1. b \notin ReachableAvoiding(S, root, a)
        BY <3>5 DEF R
      <4> QED BY <4>1, <3>3 DEF Dominators
    <3> QED BY <3>6 DEF Dom
  <2> QED BY <2>1, <2>2
<1>11. ASSUME NEW b \in D \ {root} PROVE OnlyIdom(S, root, b, idom[b])
  <2> DEFINE i == idom[b]
             SD == StrictDominators(S, root, b)
  <2>1. i \in D /\ rank[i] < rank[b] /\ SD \subseteq Dom(i) /\ SD = Dom(b) \ {b}
    BY <1>2, <1>3
  <2>2. i \in Dom(b)
    BY <1>4, <1>10
  <2>3. i \in SD
    <3>1. rank[b] \in Nat
      BY <1>1
    <3>2. i # b
      <4> HIDE DEF i
      <4> QED BY <2>1, <3>1
    <3> QED BY <2>1, <2>2, <3>2
  <2>4. \A a \in SD : SD \subseteq Dom(a) => a = i
    <3> SUFFICES ASSUME NEW a \in SD, SD \subseteq Dom(a) PROVE a = i
      OBVIOUS
    <3> HIDE DEF i, SD
    <3>1. a \in D /\ a \in Dom(i) /\ i \in Dom(a)
      BY <2>1, <2>3, <1>3
    <3>2. rank[a] <= rank[i] /\ rank[i] <= rank[a] /\ rank[a] \in Nat /\ rank[i] \in Nat
      BY <2>1, <3>1, <1>1, <1>3
    <3> QED BY <2>1, <3>1, <3>2, <1>1
  <2>5. OnlyIdom(S, root, b, i)
    <3> HIDE DEF i
    <3>1. \A a \in SD : SD \subseteq Dominators(S, root, a) <=> a = i
      BY <2>1, <2>4
    <3> QED BY <3>1, <2>3 DEF OnlyIdom
  <2> QED BY <2>5
<1> QED BY <1>11

\* structure_reset: the blocks in reverse postorder, their successors, the entry.
Known == Having(Block, immed_dom)
ClimbInv == Climbs(Block, succs, 0, index, immed_dom)

\* What the sweep has passed is known, and settled as long as nothing has changed.
SweptInv ==
  /\ pos \in 2 .. Len(blist) + 1
  /\ changed \in BOOLEAN
  /\ \A n \in 1 .. pos - 1 :
       /\ blist[n] \in Known
       /\ n > 1 /\ ~changed => immed_dom[blist[n]] = 0 \/ immed_dom[blist[n]] = NewIdom(blist[n])

DomInv == phase = "dominators" => ClimbInv /\ SweptInv

Inv == TreeInv /\ DomInv /\ DominatorsExact

(***************************************************************************)
(* What a finished walk says about the order of the sweeps                 *)
(***************************************************************************)
LEMMA Order ==
  ASSUME TreeTypes, Numbered
  PROVE  /\ succs \in [Block -> SUBSET Block] /\ IsFiniteSet(Block)
         /\ 0 \in Block /\ NONE \notin Block /\ index[0] = 0 /\ blist[1] = 0
         /\ \A b \in Block : index[b] \in Nat /\ index[b] \in Block
         /\ \A b, c \in Block : index[b] = index[c] => b = c
         /\ Len(blist) = Cardinality(Block) /\ Len(blist) \in Nat /\ Len(blist) > 0
         /\ DOMAIN blist = 1 .. Len(blist)
         /\ \A n \in 1 .. Len(blist) : blist[n] \in Block /\ index[blist[n]] = n - 1
         /\ \A b \in Block : index[b] + 1 \in 1 .. Len(blist) /\ blist[index[b] + 1] = b
         /\ \A c \in Block \ {0} : \E p \in Block : c \in succs[p] /\ index[p] < index[c]
<1>1. TypeOK /\ blist \in Seq(Block) /\ blist[1] = 0
  BY DEF TreeTypes
<1>2. succs \in [Block -> SUBSET Block]
  BY <1>1, SuccessorsType DEF TypeOK, succs
<1>3. NONE \notin Block
  BY Blocks DEF NONE
<1>4. \A b \in Block : index[b] \in Block /\ index[b] + 1 \in DOMAIN blist /\ blist[index[b] + 1] = b
  BY DEF Numbered
<1>5. \A b, c \in Block : index[b] = index[c] => b = c
  <2> SUFFICES ASSUME NEW b \in Block, NEW c \in Block, index[b] = index[c] PROVE b = c
    OBVIOUS
  <2>1. blist[index[b] + 1] = b /\ blist[index[c] + 1] = c
    BY <1>4
  <2> QED BY <2>1
<1>6. Len(blist) = Cardinality(Block) /\ Len(blist) \in Nat /\ Len(blist) > 0 /\ DOMAIN blist = 1 .. Len(blist)
  BY <1>1, Blocks DEF TypeOK
<1>7. \A n \in 1 .. Len(blist) : blist[n] \in Block /\ index[blist[n]] = n - 1
  BY <1>1, <1>6 DEF Numbered
<1>8. index[0] = 0
  <2>1. 1 \in 1 .. Len(blist)
    BY <1>6
  <2> QED BY <2>1, <1>1, <1>7
<1> QED BY <1>1, <1>2, <1>3, <1>4, <1>5, <1>6, <1>7, <1>8, Blocks DEF Numbered

LEMMA WalkRanks ==
  ASSUME TreeTypes, Numbered
  PROVE  Ranked(Block, succs, 0, index)
<1>1. \A b \in Block : index[b] \in Nat /\ index[b] < Cardinality(Block)
  BY Order, Blocks
<1> QED BY <1>1, Order DEF Ranked

\* The half edges that enter a block name the blocks it succeeds.
LEMMA Predecessors ==
  ASSUME TreeTypes, NEW b \in Block
  PROVE  /\ Len(graph.in[b]) \in Nat /\ DOMAIN graph.in[b] = 1 .. Len(graph.in[b])
         /\ \A j \in 1 .. Len(graph.in[b]) : graph.in[b][j].point \in Block /\ b \in succs[graph.in[b][j].point]
         /\ \A p \in Block : b \in succs[p] => \E j \in 1 .. Len(graph.in[b]) : graph.in[b][j].point = p
<1>1. graph \in Graph(Block, Labels) /\ Coupled(Block, graph)
  BY DEF TreeTypes, TypeOK
<1>2. Len(graph.in[b]) \in Nat /\ DOMAIN graph.in[b] = 1 .. Len(graph.in[b])
  BY <1>1, ListTypes
<1>3. ASSUME NEW j \in DOMAIN graph.in[b]
      PROVE  graph.in[b][j].point \in Block /\ b \in succs[graph.in[b][j].point]
  <2> DEFINE e == graph.in[b][j]
             p == e.point
  <2>1. p \in Block
    BY <1>1, ListTypes, HalfTypes
  <2>2. e.rev \in DOMAIN graph.out[p] /\ graph.out[p][e.rev] = blockedge(b, e.label, j)
    BY <1>1 DEF Coupled, Partner
  <2>3. graph.out[p][e.rev].point = b
    BY <2>2, HalfFields
  <2>4. b \in Successors(graph)[p]
    <3>1. \A i \in DOMAIN graph.out[p] : graph.out[p][i].point \in Successors(graph)[p]
      BY <2>1, <1>1, GraphOf
    <3>2. e.rev \in DOMAIN graph.out[p]
      BY <2>2
    <3> HIDE DEF e, p
    <3> QED BY <3>1, <3>2, <2>3
  <2> QED BY <2>1, <2>4 DEF succs
<1>4. ASSUME NEW p \in Block, b \in succs[p] PROVE \E j \in DOMAIN graph.in[b] : graph.in[b][j].point = p
  <2>1. b \in Successors(graph)[p]
    BY <1>4 DEF succs
  <2>2. \E i \in DOMAIN graph.out[p] : graph.out[p][i].point = b
    <3>1. graph \in Graph(Block, Labels) /\ p \in Block
      BY <1>1, <1>4
    <3>2. \A c \in Successors(graph)[p] : \E i \in DOMAIN graph.out[p] : graph.out[p][i].point = c
      BY <3>1, GraphOf
    <3> QED BY <3>2, <2>1
  <2>3. PICK i \in DOMAIN graph.out[p] : graph.out[p][i].point = b
    BY <2>2
  <2> DEFINE e == graph.out[p][i]
  <2>4. e.rev \in DOMAIN graph.in[b] /\ graph.in[b][e.rev] = blockedge(p, e.label, i)
    BY <2>3, <1>1 DEF Coupled, Partner
  <2>5. graph.in[b][e.rev].point = p
    BY <2>4, HalfFields
  <2> QED BY <2>4, <2>5
<1> QED BY <1>2, <1>3, <1>4

(***************************************************************************)
(* Intersect and NewIdom                                                   *)
(***************************************************************************)
LEMMA IntersectMeets ==
  ASSUME TreeTypes, Numbered, ClimbInv
  PROVE  Meets(Block, index, immed_dom, Intersect)
<1> DEFINE Step1(w, f) == IF f[1] = f[2] THEN f[1]
                          ELSE IF NONE \in {f[1], f[2]} THEN NONE
                          ELSE IF index[f[1]] > index[f[2]] THEN w[<<immed_dom[f[1]], f[2]>>]
                          ELSE w[<<f[1], immed_dom[f[2]]>>]
<1>1. PICK w : Climbing(Block, index, immed_dom, w)
  BY WalkRanks, FingersDefined DEF ClimbInv
<1>2. w = [f \in Finger \X Finger |-> Step1(w, f)]
  BY <1>1 DEF Climbing, Finger
<1>3. Intersect = [f \in Finger \X Finger |-> Step1(Intersect, f)]
  BY <1>2 DEF Intersect
<1> HIDE DEF Step1
<1>4. \A f \in Finger \X Finger : Intersect[f] = Step1(Intersect, f)
  BY <1>3
<1> SUFFICES ASSUME NEW a \in Known, NEW b \in Known
             PROVE  Intersect[<<a, b>>] = IF a = b THEN a
                                          ELSE IF index[a] > index[b] THEN Intersect[<<immed_dom[a], b>>]
                                          ELSE Intersect[<<a, immed_dom[b]>>]
  BY DEF Meets, Known
<1> DEFINE f == <<a, b>>
<1>5. f \in Finger \X Finger /\ f[1] = a /\ f[2] = b /\ NONE \notin {f[1], f[2]}
  BY Order DEF Finger, Known, Having
<1> HIDE DEF f
<1>6. Intersect[f] = Step1(Intersect, f)
  BY <1>4, <1>5
<1> QED BY <1>5, <1>6 DEF Step1, f

LEMMA NewIdomChosen ==
  ASSUME TreeTypes, Numbered, ClimbInv, NEW b \in Block
  PROVE  Chosen(Block, succs, 0, index, immed_dom, b, {p \in Known : b \in succs[p]}, NewIdom(b))
<1> DEFINE L == Len(graph.in[b])
           point == [j \in 1 .. L |-> graph.in[b][j].point]
           Take1(j, was) == IF immed_dom[graph.in[b][j].point] = NONE THEN was
                            ELSE IF was = NONE THEN graph.in[b][j].point
                            ELSE Intersect[<<graph.in[b][j].point, was>>]
<1>1. /\ L \in Nat
      /\ \A j \in 1 .. L : point[j] \in Block /\ b \in succs[point[j]]
      /\ \A p \in Block : b \in succs[p] => \E j \in 1 .. L : point[j] = p
  BY Predecessors
<1>2. /\ Ranked(Block, succs, 0, index) /\ Climbs(Block, succs, 0, index, immed_dom)
      /\ Meets(Block, index, immed_dom, Intersect) /\ Known = Having(Block, immed_dom)
  BY WalkRanks, IntersectMeets DEF ClimbInv, Known
<1>3. \A j \in 1 .. L : \A was : Take1(j, was) = TakeEdge(Known, Intersect, point[j], was)
  <2> SUFFICES ASSUME NEW j \in 1 .. L, NEW was
               PROVE  Take1(j, was) = TakeEdge(Known, Intersect, point[j], was)
    OBVIOUS
  <2>1. graph.in[b][j].point = point[j]
    OBVIOUS
  <2>2. point[j] \notin Known <=> immed_dom[point[j]] = NONE
    BY <1>1 DEF Known, Having
  <2> HIDE DEF L, point
  <2> QED BY <2>1, <2>2 DEF TakeEdge
<1> HIDE DEF L, point
<1>4. PICK u : Folds(Known, Intersect, point, L, u)
  BY <1>1, <1>2, EdgesFold
<1>5. u = [j \in 0 .. L |-> IF j = 0 THEN NONE ELSE Take1(j, u[j - 1])]
  <2>1. \A j \in 0 .. L : j # 0 => j \in 1 .. L
    BY <1>1
  <2> HIDE DEF Take1
  <2> QED BY <2>1, <1>3, <1>4 DEF Folds
<1> DEFINE v == CHOOSE w : w = [j \in 0 .. L |-> IF j = 0 THEN NONE ELSE Take1(j, w[j - 1])]
<1>6. v = [j \in 0 .. L |-> IF j = 0 THEN NONE ELSE Take1(j, v[j - 1])]
  BY <1>5
<1>7. NewIdom(b) = v[L]
  BY DEF NewIdom, L
<1> HIDE DEF v, Take1
<1>8. Folds(Known, Intersect, point, L, v)
  <2>1. \A j \in 0 .. L : j # 0 => j \in 1 .. L
    BY <1>1
  <2> QED BY <2>1, <1>3, <1>6 DEF Folds
<1> DEFINE P == {p \in Known : b \in succs[p]}
<1>9. Enter(succs, Known, point, L, b, P)
  BY <1>1 DEF Known, Having, Enter
<1> HIDE DEF P
<1>10. Chosen(Block, succs, 0, index, immed_dom, b, P, v[L])
  BY <1>1, <1>2, <1>8, <1>9, EdgesFolded
<1> QED BY <1>7, <1>10 DEF P

(***************************************************************************)
(* The sweeps of calc_forward_dominator                                    *)
(***************************************************************************)
LEMMA NewIdomSame ==
  ASSUME graph' = graph, index' = index, immed_dom' = immed_dom
  PROVE  \A b : NewIdom(b)' = NewIdom(b)
<1>1. Intersect' = Intersect
  BY DEF Intersect
<1> QED BY <1>1 DEF NewIdom

LEMMA StartDominatorsClimb ==
  ASSUME TreeTypes, Numbered, StartDominators
  PROVE  ClimbInv' /\ SweptInv'
<1>1. 0 \in Block /\ blist[1] = 0 /\ Len(blist) \in Nat /\ Len(blist) > 0
  BY Order
<1>2. /\ graph' = graph /\ blist' = blist /\ index' = index /\ succs' = succs
      /\ immed_dom' = [b \in Block |-> IF b \in {0} \union succs[0] THEN 0 ELSE NONE]
      /\ changed' = FALSE /\ pos' = 2
  BY <1>1 DEF StartDominators, dfsvars, succs, entry
<1>3. Climbs(Block, succs, 0, index, immed_dom') /\ Having(Block, immed_dom') = {0} \union succs[0]
  BY <1>2, WalkRanks, ClimbStarts
<1>4. ClimbInv' /\ Known' = {0} \union succs[0]
  BY <1>2, <1>3 DEF ClimbInv, Known
<1>5. SweptInv'
  <2>1. pos' \in 2 .. Len(blist') + 1 /\ changed' \in BOOLEAN
    <3>1. 2 \in 2 .. Len(blist) + 1
      BY <1>1
    <3> QED BY <3>1, <1>2
  <2>2. ASSUME NEW n \in 1 .. pos' - 1 PROVE n = 1 /\ ~(n > 1)
    BY <1>2
  <2>3. blist'[1] \in Known'
    BY <1>1, <1>2, <1>4
  <2> QED BY <2>1, <2>2, <2>3 DEF SweptInv
<1> QED BY <1>4, <1>5

LEMMA SweepClimbs ==
  ASSUME TreeTypes, Numbered, ClimbInv, SweptInv, Sweep
  PROVE  ClimbInv' /\ SweptInv'
<1> DEFINE b == blist[pos]
           idom == NewIdom(b)
<1>1. /\ NONE \notin Block /\ 0 \in Block /\ index[0] = 0 /\ entry = 0
      /\ succs \in [Block -> SUBSET Block]
      /\ \A c \in Block : index[c] \in Nat
      /\ Len(blist) \in Nat /\ Len(blist) > 0
      /\ \A n \in 1 .. Len(blist) : blist[n] \in Block /\ index[blist[n]] = n - 1
      /\ \A c \in Block : index[c] + 1 \in 1 .. Len(blist) /\ blist[index[c] + 1] = c
      /\ \A c \in Block \ {0} : \E p \in Block : c \in succs[p] /\ index[p] < index[c]
  BY Order DEF entry
<1>2. immed_dom \in [Block -> Finger] /\ Known \subseteq Block
  BY DEF ClimbInv, Climbs, Finger, Known, Having
<1>3. /\ pos \in Nat /\ pos >= 2 /\ pos <= Len(blist)
      /\ changed \in BOOLEAN
      /\ \A n \in 1 .. pos - 1 :
           /\ blist[n] \in Known
           /\ n > 1 /\ ~changed => immed_dom[blist[n]] = 0 \/ immed_dom[blist[n]] = NewIdom(blist[n])
  BY <1>1 DEF SweptInv, Sweep
<1>4. /\ graph' = graph /\ blist' = blist /\ index' = index /\ succs' = succs /\ pos' = pos + 1
  BY DEF Sweep, treevars, dfsvars, succs
<1>5. pos \in 1 .. Len(blist) /\ b \in Block /\ index[b] = pos - 1 /\ b # 0
  <2>1. pos \in 1 .. Len(blist)
    BY <1>3
  <2>2. b \in Block /\ index[b] = pos - 1
    BY <2>1, <1>1
  <2> QED BY <2>1, <2>2, <1>1, <1>3
<1>6. pos' \in 2 .. Len(blist') + 1 /\ \A n : n \in 1 .. pos' - 1 <=> n \in 1 .. pos - 1 \/ n = pos
  BY <1>1, <1>3, <1>4
<1>7. CASE immed_dom[b] = entry
  <2>1. immed_dom' = immed_dom /\ changed' = changed
    BY <1>7 DEF Sweep
  <2>2. Known' = Known /\ \A c : NewIdom(c)' = NewIdom(c)
    BY <2>1, <1>4, NewIdomSame DEF Known
  <2>3. ClimbInv'
    BY <2>1, <1>4 DEF ClimbInv
  <2>4. blist[pos] \in Known /\ immed_dom[blist[pos]] = 0
    BY <1>1, <1>5, <1>7 DEF Known, Having
  <2>5. ASSUME NEW n \in 1 .. pos' - 1
        PROVE  /\ blist'[n] \in Known'
               /\ n > 1 /\ ~changed' => immed_dom'[blist'[n]] = 0 \/ immed_dom'[blist'[n]] = NewIdom(blist[n])'
    <3>1. CASE n = pos
      BY <3>1, <2>1, <2>2, <2>4, <1>4
    <3>2. CASE n \in 1 .. pos - 1
      <4>1. NewIdom(blist[n])' = NewIdom(blist[n])
        BY <2>2, <1>4
      <4> QED BY <4>1, <3>2, <2>1, <2>2, <1>3, <1>4
    <3> QED BY <3>1, <3>2, <1>6
  <2> QED BY <2>1, <2>3, <2>5, <1>3, <1>6 DEF SweptInv
<1>8. CASE immed_dom[b] # entry
  <2>1. immed_dom' = [immed_dom EXCEPT ![b] = idom] /\ changed' = (changed \/ immed_dom[b] # idom)
    BY <1>8 DEF Sweep
  <2> DEFINE P == {p \in Known : b \in succs[p]}
  <2>2. PICK p \in P : index[p] < index[b]
    <3>1. PICK p \in Block : b \in succs[p] /\ index[p] < index[b]
      BY <1>1, <1>5
    <3>2. index[p] + 1 \in 1 .. pos - 1
      BY <3>1, <1>1, <1>3, <1>5
    <3>3. blist[index[p] + 1] \in Known
      BY <3>2, <1>3
    <3> QED BY <3>1, <3>3, <1>1
  <2>3. Chosen(Block, succs, 0, index, immed_dom, b, P, idom) /\ p \in Block
    BY <1>2, <1>5, NewIdomChosen
  <2>4. immed_dom' = Changed(immed_dom, b, idom)
    BY <2>1 DEF Changed
  <2> HIDE DEF P, idom, b
  <2>5. /\ Climbs(Block, succs, 0, index, immed_dom')
        /\ Having(Block, immed_dom') = Having(Block, immed_dom) \union {b}
    <3>1. Ranked(Block, succs, 0, index) /\ Climbs(Block, succs, 0, index, immed_dom)
      BY WalkRanks DEF ClimbInv
    <3> QED BY <3>1, <2>2, <2>3, <2>4, <1>5, ClimbGoesOn
  <2>6. ClimbInv' /\ Known' = Known \union {b}
    BY <2>5, <1>4 DEF ClimbInv, Known
  <2>7. ASSUME NEW n \in 1 .. pos' - 1
        PROVE  /\ blist'[n] \in Known'
               /\ n > 1 /\ ~changed' => immed_dom'[blist'[n]] = 0 \/ immed_dom'[blist'[n]] = NewIdom(blist[n])'
    <3>1. blist'[n] \in Known'
      <4>1. CASE n = pos
        BY <4>1, <2>6, <1>4 DEF b
      <4>2. CASE n \in 1 .. pos - 1
        BY <4>2, <2>6, <1>3, <1>4
      <4> QED BY <4>1, <4>2, <1>6
    <3>2. ASSUME n > 1, ~changed'
          PROVE  immed_dom'[blist'[n]] = 0 \/ immed_dom'[blist'[n]] = NewIdom(blist[n])'
      <4>1. ~changed /\ immed_dom[b] = idom
        BY <3>2, <2>1
      <4>2. immed_dom' = immed_dom
        BY <4>1, <2>1, <1>2, <1>5
      <4>3. NewIdom(blist[n])' = NewIdom(blist[n])
        BY <4>2, <1>4, NewIdomSame
      <4>4. CASE n = pos
        BY <4>1, <4>2, <4>3, <4>4, <1>4 DEF b, idom
      <4>5. CASE n \in 1 .. pos - 1
        BY <4>1, <4>2, <4>3, <4>5, <3>2, <1>3, <1>4
      <4> QED BY <4>4, <4>5, <1>6
    <3> QED BY <3>1, <3>2
  <2>8. changed' \in BOOLEAN
    BY <2>1, <1>3
  <2> QED BY <2>6, <2>7, <2>8, <1>6 DEF SweptInv
<1> QED BY <1>7, <1>8

(***************************************************************************)
(* The run of structure_reset                                              *)
(***************************************************************************)
LEMMA SweepEnds ==
  ASSUME TreeTypes, Numbered, ClimbInv, SweptInv, EndSweep
  PROVE  \/ phase' = "dominators" /\ ClimbInv' /\ SweptInv'
         \/ phase' = "done" /\ DominatorsExact'
<1>1. /\ NONE \notin Block /\ 0 \in Block /\ index[0] = 0 /\ entry = 0
      /\ Len(blist) \in Nat /\ Len(blist) > 0
      /\ \A n \in 1 .. Len(blist) : blist[n] \in Block /\ index[blist[n]] = n - 1
      /\ \A c \in Block : index[c] + 1 \in 1 .. Len(blist) /\ blist[index[c] + 1] = c
  BY Order DEF entry
<1>2. /\ pos = Len(blist) + 1 /\ phase = "dominators" /\ changed \in BOOLEAN
      /\ \A n \in 1 .. Len(blist) :
           /\ blist[n] \in Known
           /\ n > 1 /\ ~changed => immed_dom[blist[n]] = 0 \/ immed_dom[blist[n]] = NewIdom(blist[n])
  BY <1>1 DEF SweptInv, EndSweep
<1>3. graph' = graph /\ blist' = blist /\ index' = index /\ succs' = succs /\ entry' = entry
  BY DEF EndSweep, dfsvars, succs, entry
<1>4. CASE changed
  <2>1. phase' = "dominators" /\ pos' = 2 /\ changed' = FALSE /\ immed_dom' = immed_dom
    BY <1>2, <1>4 DEF EndSweep
  <2>2. Known' = Known
    BY <2>1 DEF Known
  <2>3. ClimbInv'
    BY <2>1, <1>3 DEF ClimbInv
  <2>4. blist[1] \in Known
    BY <1>1, <1>2
  <2>5. 2 \in 2 .. Len(blist) + 1
    BY <1>1
  <2>6. \A n \in 1 .. pos' - 1 : n = 1 /\ ~(n > 1)
    BY <2>1
  <2>7. SweptInv'
    BY <2>1, <2>2, <2>4, <2>5, <2>6, <1>3 DEF SweptInv
  <2> QED BY <2>1, <2>3, <2>7
<1>5. CASE ~changed
  <2>1. phase' = "done" /\ immed_dom' = [immed_dom EXCEPT ![0] = NONE]
    BY <1>1, <1>2, <1>5 DEF EndSweep
  <2>2. \A b \in Block : b \in Known /\ (b # 0 => immed_dom[b] = 0 \/ immed_dom[b] = NewIdom(b))
    <3> SUFFICES ASSUME NEW b \in Block
                 PROVE  b \in Known /\ (b # 0 => immed_dom[b] = 0 \/ immed_dom[b] = NewIdom(b))
      OBVIOUS
    <3>1. PICK n \in 1 .. Len(blist) : blist[n] = b /\ index[b] = n - 1
      BY <1>1
    <3>2. b # 0 => n > 1
      <4> SUFFICES ASSUME n = 1 PROVE index[b] = 0 /\ b = 0
        BY <1>1
      <4>1. index[b] = 0 /\ blist[index[0] + 1] = 0
        BY <3>1, <1>1
      <4> QED BY <4>1, <3>1, <1>1
    <3> QED BY <3>1, <3>2, <1>2, <1>5
  <2>3. Known = Block
    BY <2>2 DEF Known, Having
  <2>4. \A b \in Block \ {0} : immed_dom[b] = Idom(succs, 0, b)
    <3>1. Settled(Block, succs, 0, index, immed_dom)
      BY <2>2, <2>3, NewIdomChosen DEF Settled
    <3>2. /\ Ranked(Block, succs, 0, index) /\ Climbs(Block, succs, 0, index, immed_dom)
          /\ Having(Block, immed_dom) = Block
      BY <2>3, WalkRanks DEF ClimbInv, Known
    <3>3. \A b \in Block \ {0} : OnlyIdom(succs, 0, b, immed_dom[b])
      BY <3>1, <3>2, DominatorsFound
    <3> QED BY <3>3, IdomIs
  <2>5. immed_dom'[0] = NONE /\ \A b \in Block \ {0} : immed_dom'[b] = immed_dom[b]
    BY <2>1, <1>1 DEF ClimbInv, Climbs, Climbs
  <2>6. \A b \in Block \ {0} : immed_dom'[b] = Idom(succs', entry', b)
    BY <2>4, <2>5, <1>1, <1>3
  <2>7. DominatorsExact'
    BY <2>5, <2>6, <1>1, <1>3 DEF DominatorsExact
  <2> QED BY <2>1, <2>7
<1> QED BY <1>2, <1>4, <1>5

LEMMA ResetStarts ==
  ASSUME Init
  PROVE  Inv
<1>1. PICK succ \in Programs : TreeInitOf(succ)
  BY DEF Init, TreeInit
<1>2. TreeInv
  BY <1>1, ProgramsAssumption, TreeInvStarts
<1>3. phase = "edit"
  BY <1>1 DEF TreeInitOf
<1> QED BY <1>2, <1>3 DEF Inv, DomInv, DominatorsExact, Done

LEMMA ResetStands ==
  ASSUME Inv, UNCHANGED <<treevars, domvars>>
  PROVE  Inv'
<1>1. TreeInv'
  BY TreeInvStutters DEF Inv
<1>2. /\ graph' = graph /\ blist' = blist /\ index' = index /\ succs' = succs /\ phase' = phase
      /\ immed_dom' = immed_dom /\ changed' = changed /\ pos' = pos
  BY DEF treevars, dfsvars, domvars, succs
<1>3. Known' = Known /\ \A b : NewIdom(b)' = NewIdom(b)
  BY <1>2, NewIdomSame DEF Known
<1>4. ClimbInv => ClimbInv'
  BY <1>2, <1>3 DEF ClimbInv
<1>5. SweptInv => SweptInv'
  BY <1>2, <1>3 DEF SweptInv
<1>6. DominatorsExact'
  BY <1>2 DEF Inv, DominatorsExact, Done, entry
<1> QED BY <1>1, <1>2, <1>4, <1>5, <1>6 DEF Inv, DomInv

LEMMA ResetSteps ==
  ASSUME Inv, [Next]_vars
  PROVE  Inv'
<1> USE DEF Inv
<1>1. ASSUME TreeInv', phase' \notin {"dominators", "done"} PROVE Inv'
  BY <1>1 DEF DomInv, DominatorsExact, Done
<1>2. phase = "dominators" => TreeTypes /\ Numbered /\ ClimbInv /\ SweptInv
  BY DEF TreeInv, DomInv
<1>3. CASE StartTree \/ Discover \/ Classify \/ Finish
  <2>1. phase' = "tree"
    BY <1>3 DEF StartTree, Discover, Classify, Finish, Take
  <2> QED BY <2>1, <1>1, <1>3, TreeInvWalks
<1>4. CASE StartLoops
  <2>1. EndTree("loop") /\ phase' = "loop"
    BY <1>4 DEF StartLoops, EndTree
  <2>2. TreeInv'
    BY <2>1, TreeInvEnds
  <2> QED BY <2>1, <2>2, <1>1
<1>5. CASE CollectSources \/ Expand \/ Collapse
  <2>1. UNCHANGED <<treevars, domvars>>
    BY <1>5 DEF CollectSources, Expand, Collapse
  <2> QED BY <2>1, ResetStands
<1>6. CASE StartDominators
  <2>1. phase = "loop" /\ phase' = "dominators" /\ UNCHANGED <<graph, edits, dfsvars>>
    BY <1>6 DEF StartDominators
  <2>2. TreeInv'
    BY <2>1, TreeInvStands
  <2>3. TreeTypes /\ Numbered
    BY <2>1 DEF TreeInv
  <2>4. ClimbInv' /\ SweptInv'
    BY <2>3, <1>6, StartDominatorsClimb
  <2> QED BY <2>1, <2>2, <2>4 DEF DomInv, DominatorsExact, Done
<1>7. CASE Sweep
  <2>1. phase = "dominators" /\ UNCHANGED treevars /\ phase' = phase
    BY <1>7 DEF Sweep, treevars
  <2>2. TreeInv'
    BY <2>1, TreeInvStutters
  <2>3. ClimbInv' /\ SweptInv'
    BY <2>1, <1>2, <1>7, SweepClimbs
  <2> QED BY <2>1, <2>2, <2>3 DEF DomInv, DominatorsExact, Done
<1>8. CASE EndSweep
  <2>1. phase = "dominators" /\ UNCHANGED <<graph, edits, dfsvars>>
    BY <1>8 DEF EndSweep
  <2>2. \/ phase' = "dominators" /\ ClimbInv' /\ SweptInv'
        \/ phase' = "done" /\ DominatorsExact'
    BY <2>1, <1>2, <1>8, SweepEnds
  <2>3. TreeInv'
    BY <2>1, <2>2, TreeInvStands
  <2> QED BY <2>2, <2>3 DEF DomInv, DominatorsExact, Done
<1>9. CASE Edit
  <2>1. phase' = "edit"
    BY <1>9 DEF Edit, RemoveEdge
  <2> QED BY <2>1, <1>1, <1>9, TreeInvEdited
<1>10. CASE UNCHANGED vars
  BY <1>10, ResetStands DEF vars
<1> QED BY <1>3, <1>4, <1>5, <1>6, <1>7, <1>8, <1>9, <1>10 DEF Next, Step

LEMMA ResetInvariant == Spec => []Inv
<1> QED BY ResetStarts, ResetSteps, PTL DEF Spec

\* find_spanning_tree (block.cc) numbers the blocks as its readers take the numbers: blist is
\* a reverse postorder from the entry, and the descendants of a block are one interval of
\* dfnum, in every run of structure_reset, whatever the earlier runs and edits left behind.
THEOREM TreeNumbered == Spec => []Numbering
<1>1. Inv => Numbering
  BY TreeInvNumbers DEF Inv
<1> QED BY <1>1, ResetInvariant, PTL

\* An edge whose end dominates its begin is labelled a back edge by the first walk, and on a
\* reducible graph no other edge is.
THEOREM BackEdgesFound == Spec => []BackEdgesLabelled
<1>1. Inv => BackEdgesLabelled
  BY TreeInvNumbers DEF Inv
<1> QED BY <1>1, ResetInvariant, PTL

\* The sweeps of calc_forward_dominator (block.cc) can only end with immed_dom the immediate
\* dominators of the graph as it is, reducible or not.
THEOREM DominatorsCorrect == Spec => []DominatorsExact
<1>1. Inv => DominatorsExact
  BY DEF Inv
<1> QED BY <1>1, ResetInvariant, PTL

\* The climb in calc_forward_dominator tests no pointer: started from two blocks that have
\* an immed_dom, it meets at such a block, and no finger runs into a block without one.
THEOREM NoFingerLost == Spec => [](phase = "dominators" => \A a, b \in Known : Intersect[<<a, b>>] \in Known)
<1>1. Inv => (phase = "dominators" => \A a, b \in Known : Intersect[<<a, b>>] \in Known)
  <2> SUFFICES ASSUME Inv, phase = "dominators", NEW a \in Known, NEW b \in Known
               PROVE  Intersect[<<a, b>>] \in Known
    OBVIOUS
  <2>1. TreeTypes /\ Numbered /\ ClimbInv
    BY DEF Inv, TreeInv, DomInv
  <2> QED BY <2>1, WalkRanks, IntersectMeets, FingersMeet DEF ClimbInv, Known, Met
<1> QED BY <1>1, ResetInvariant, PTL

(***************************************************************************)
(* The loops.  What find_irreducible says is about a first walk: later     *)
(* ones add their labels to the old ones.                                  *)
(***************************************************************************)

\* The sources of the edges into h that are labelled back.
BackInto(h) == {graph.in[h][i].point : i \in {j \in DOMAIN graph.in[h] : back \in graph.in[h][j].label}}

\* Nothing leads to the entry once the walk has begun.
NoWayBack == phase # "edit" => \A p \in Block : 0 \notin succs[p]

\* No loop has an entry beside its header so far.
Clean == \A b \in Block : irreducibles[b] = {}

LoopTypes ==
  /\ xi \in 0 .. Cardinality(Block) /\ q \in Nat
  /\ reachunder # << >> => xi > 0
  /\ irreducibles = [b \in Block |-> irreducibles[b]]

CollectTypes ==
  /\ reachunder \in Seq(Block) /\ (reachunder # << >> => q <= Len(reachunder))
  /\ mark \subseteq Range(reachunder)
  /\ copymap \in [Block -> Block]
  /\ loopheader = [b \in Block |-> IF copymap[b] = b THEN NONE ELSE copymap[b]]
  /\ loopheaders \in Seq(Block)

\* A block stands for blocks it dominates, once the search is through with it; and back edges
\* lead to it from such blocks only.
CopyInv ==
  /\ \A b \in Block :
       /\ copymap[b] \in Dominators(succs, 0, b)
       /\ copymap[b] # b => dfnum[copymap[b]] >= xi
  /\ \A h \in Block : dfnum[h] >= xi => \A y \in BackInto(h) : h \in Dominators(succs, 0, y)
  /\ \A h \in Block :
       h \in Range(loopheaders) <=> BackInto(h) # {} /\ (dfnum[h] >= xi \/ (reachunder # << >> /\ h = x))

\* What reachunder holds lies below x, and it holds what leads to its expanded part.
UnderInv ==
  reachunder # << >> =>
    /\ xi > 0 /\ x # 0
    /\ \A t \in Range(reachunder) : t # x /\ Descends(t, x)
    /\ \A y \in BackInto(x) : y # x => copymap[y] \in Range(reachunder)
    /\ \A k \in 1 .. q : \A z \in Block :
         reachunder[k] \in succs[z] => copymap[z] \in Range(reachunder) \union {x}

\* On a reducible graph, the loops are natural loops, and a block of one that is done is in copymap.
NaturalInv ==
  /\ \A t \in Range(reachunder) : t \in NaturalLoop(succs, 0, x)
  /\ \A b \in Block : b \in NaturalLoop(succs, 0, copymap[b])
  /\ \A h \in Block : dfnum[h] >= xi => \A b \in NaturalLoop(succs, 0, h) \ {h} : copymap[b] # b

Sound == CollectTypes /\ CopyInv /\ UnderInv

LoopInv ==
  phase = "loop" =>
    /\ LoopTypes
    /\ edits = 0 /\ Clean => Sound
    /\ edits = 0 /\ Reducible(succs, 0) => Clean /\ NaturalInv

\* What the search leaves.
LoopsFound ==
  phase \in {"dominators", "done"} /\ edits = 0 =>
    /\ Clean => \A h \in Block : \A y \in BackInto(h) : h \in Dominators(succs, 0, y)
    /\ Reducible(succs, 0) =>
         /\ Clean /\ Range(loopheaders) = Headers
         /\ \A b \in Block : /\ loopheader[b] # NONE => loopheader[b] \in LoopsAround(b)
                             /\ LoopsAround(b) # {} => loopheader[b] # NONE

ResetInv == Inv /\ PlacedInv /\ RetreatInv /\ NoWayBack /\ LoopInv /\ LoopsFound

\* The two work lists, as they grow.
Gathered == [under : Seq(Block), mark : SUBSET Block]
Pulled == [under : Seq(Block), mark : SUBSET Block, entries : SUBSET Block]

\* The test of find_irreducible for a source outside the loop.
Outside(t) == dfnum[x] > dfnum[t] \/ dfnum[x] + numdesc[x] <= dfnum[t]

\* A loop without irreducibles adds its header alone.
LEMMA SourcePushed ==
  ASSUME NEW acc \in Gathered, NEW y, NEW c \in Block, c = copymap[y], irreducibles[c] = {}
  PROVE  /\ PushSource(acc, y) \in Gathered
         /\ PushSource(acc, y).under = Append(acc.under, c)
         /\ PushSource(acc, y).mark = acc.mark \union {c}
<1>1. acc.under \in Seq(Block) /\ acc.mark \in SUBSET Block
  BY DEF Gathered
<1>2. irreducibles[c] \ (acc.mark \union {c}) = {}
  OBVIOUS
<1>3. SetToSeq({}) = << >>
  <2>1. SetToSeq({}) \in Seq({})
    BY Listed, FS_EmptySet
  <2> QED BY <2>1
<1>4. Append(acc.under, c) \in Seq(Block) /\ Append(acc.under, c) \o << >> = Append(acc.under, c)
  BY <1>1
<1>5. PushSource(acc, y) = [under |-> Append(acc.under, c), mark |-> acc.mark \union {c}]
  BY <1>2, <1>3, <1>4 DEF PushSource
<1> QED BY <1>1, <1>4, <1>5 DEF Gathered

\* What the sources of the back edges bring: their copymaps.
LEMMA SourcesPushed ==
  ASSUME copymap \in [Block -> Block], Clean, NEW sources \in Seq(Block)
  PROVE  LET acc == PushSources(sources)
         IN  /\ acc.under \in Seq(Block) /\ acc.mark = Range(acc.under)
             /\ Range(acc.under) = {copymap[y] : y \in Range(sources)}
             /\ acc.under = << >> <=> sources = << >>
<1> DEFINE N == Len(sources)
           none == [under |-> << >>, mark |-> {}]
           F == [n \in 1 .. N |-> [acc \in Gathered |-> PushSource(acc, sources[n])]]
<1>1. /\ N \in Nat /\ DOMAIN sources = 1 .. N
      /\ \A n \in 1 .. N : sources[n] \in Block /\ copymap[sources[n]] \in Block
      /\ \A c \in Block : irreducibles[c] = {}
  BY DEF Clean
<1>2. none \in Gathered
  BY DEF Gathered
<1> HIDE DEF N, none
<1>3. F \in [1 .. N -> [Gathered -> Gathered]]
  BY <1>1, SourcePushed
<1>4. PICK u : Solves(u, Gathered, none, N, F)
  <2> HIDE DEF F
  <2> QED BY <1>1, <1>2, <1>3, RecursionExists
<1>5. u = [n \in 0 .. N |-> IF n = 0 THEN none ELSE PushSource(u[n - 1], sources[n])]
  <2>1. \A n \in 0 .. N : u[n] = IF n = 0 THEN none ELSE PushSource(u[n - 1], sources[n])
    BY <1>1, <1>4 DEF Solves
  <2> HIDE DEF F
  <2>2. u = [n \in 0 .. N |-> u[n]]
    BY <1>4 DEF Solves
  <2> QED BY <2>1, <2>2
<1> HIDE DEF F
<1> DEFINE f == CHOOSE w : w = [n \in 0 .. N |-> IF n = 0 THEN none ELSE PushSource(w[n - 1], sources[n])]
<1>6. f = [n \in 0 .. N |-> IF n = 0 THEN none ELSE PushSource(f[n - 1], sources[n])]
  BY <1>5
<1>7. PushSources(sources) = f[N]
  BY DEF PushSources, N, none
<1> HIDE DEF f
<1> DEFINE First(n) == {copymap[sources[k]] : k \in 1 .. n}
           Good(n) == /\ f[n] \in Gathered /\ f[n].mark = First(n) /\ Range(f[n].under) = First(n)
                      /\ Len(f[n].under) = n
           G == {n \in 0 .. N : Good(n)}
<1>8. 0 \in G
  <2>1. f[0] = none /\ First(0) = {} /\ 0 \in 0 .. N
    BY <1>1, <1>6
  <2>2. none.mark = {} /\ none.under = << >> /\ Range(<< >>) = {} /\ Len(<< >>) = 0
    BY DEF none, Range
  <2> HIDE DEF First
  <2> QED BY <2>1, <2>2, <1>2
<1>9. ASSUME NEW n \in 1 .. N, n - 1 \in G PROVE n \in G
  <2> DEFINE c == copymap[sources[n]]
             h == f[n - 1]
  <2>1. n \in 0 .. N /\ n # 0 /\ c \in Block /\ irreducibles[c] = {} /\ f[n] = PushSource(h, sources[n])
    BY <1>1, <1>6
  <2>2. Good(n - 1) /\ First(n) = First(n - 1) \union {c}
    <3>1. 1 .. n = 1 .. n - 1 \union {n}
      BY <1>1
    <3> QED BY <3>1, <1>9
  <2> HIDE DEF First, h, c
  <2>3. h \in Gathered /\ h.mark = First(n - 1) /\ Range(h.under) = First(n - 1) /\ Len(h.under) = n - 1
    BY <2>2 DEF h
  <2>4. f[n] \in Gathered /\ f[n].under = Append(h.under, c) /\ f[n].mark = h.mark \union {c}
    <3>1. /\ c = copymap[sources[n]] /\ c \in Block /\ irreducibles[c] = {} /\ h \in Gathered
      BY <2>1, <2>3 DEF c
    <3>2. /\ PushSource(h, sources[n]) \in Gathered
          /\ PushSource(h, sources[n]).under = Append(h.under, c)
          /\ PushSource(h, sources[n]).mark = h.mark \union {c}
      BY ONLY <3>1, SourcePushed
    <3> QED BY <3>2, <2>1
  <2>5. Range(Append(h.under, c)) = Range(h.under) \union {c} /\ Len(Append(h.under, c)) = Len(h.under) + 1
    <3>1. h.under \in Seq(Block)
      BY <2>3 DEF Gathered
    <3>2. Range(Append(h.under, c)) = Range(h.under) \union {c}
      BY <3>1, <2>1, Appended
    <3> QED BY <3>1, <3>2
  <2>6. n - 1 + 1 = n
    BY <1>1
  <2> QED BY <2>1, <2>2, <2>3, <2>4, <2>5, <2>6
<1>10. N \in G
  <2> HIDE DEF G
  <2>1. N \in Nat /\ \A n \in 1 .. N : n - 1 \in G => n \in G
    BY <1>1, <1>9
  <2>2. \A n \in 0 .. N : n \in G
    BY ONLY <2>1, <1>8, UpTo
  <2> QED BY <2>1, <2>2
<1>11. First(N) = {copymap[y] : y \in Range(sources)}
  BY <1>1 DEF Range
<1> HIDE DEF First
<1>12. f[N].under \in Seq(Block) /\ f[N].mark = Range(f[N].under) /\ Len(f[N].under) = N
  BY <1>10 DEF Gathered
<1>13. f[N].under = << >> <=> sources = << >>
  BY <1>12 DEF N
<1> QED BY <1>7, <1>10, <1>11, <1>12, <1>13

\* One in edge of a block of the loop.
LEMMA SourcePulled ==
  ASSUME NEW acc \in Pulled, NEW y, NEW c \in Block, c = copymap[y]
  PROVE  LET to == PullSource(acc, y)
         IN  /\ to \in Pulled
             /\ Outside(c) => to.under = acc.under /\ to.mark = acc.mark /\ c \in to.entries
             /\ ~Outside(c) => to.entries = acc.entries
             /\ ~Outside(c) /\ c \in acc.mark \union {x} => to = acc
             /\ ~Outside(c) /\ c \notin acc.mark \union {x} =>
                  to.under = Append(acc.under, c) /\ to.mark = acc.mark \union {c}
<1>1. /\ acc.under \in Seq(Block) /\ acc.mark \in SUBSET Block /\ acc.entries \in SUBSET Block
      /\ acc = [under |-> acc.under, mark |-> acc.mark, entries |-> acc.entries]
  BY DEF Pulled
<1>2. CASE Outside(c)
  <2>1. PullSource(acc, y) = [acc EXCEPT !.entries = @ \union {c}]
    BY <1>2 DEF PullSource, Outside
  <2> QED BY <2>1, <1>1, <1>2 DEF Pulled
<1>3. CASE ~Outside(c) /\ c \in acc.mark \union {x}
  <2>1. PullSource(acc, y) = acc
    BY <1>3 DEF PullSource, Outside
  <2> QED BY <2>1, <1>3
<1>4. CASE ~Outside(c) /\ c \notin acc.mark \union {x}
  <2>1. PullSource(acc, y) = [acc EXCEPT !.under = Append(@, c), !.mark = @ \union {c}]
    BY <1>4 DEF PullSource, Outside
  <2>2. Append(acc.under, c) \in Seq(Block)
    BY <1>1
  <2>3. PullSource(acc, y) =
          [under |-> Append(acc.under, c), mark |-> acc.mark \union {c}, entries |-> acc.entries]
    BY <2>1, <1>1 DEF Pulled
  <2>4. PullSource(acc, y) \in Pulled
    BY <2>2, <2>3, <1>1 DEF Pulled
  <2> QED BY <2>3, <2>4, <1>4
<1> QED BY <1>2, <1>3, <1>4

\* What the in edges of a block of the loop bring: no entry beside the header when none of
\* their sources lies outside, and then the copymaps of all of them but the header.
LEMMA SourcesPulled ==
  ASSUME copymap \in [Block -> Block], reachunder \in Seq(Block), mark \subseteq Range(reachunder),
         NEW in, NEW L \in Nat, L = Len(in), \A j \in 1 .. L : in[j].point \in Block
  PROVE  LET acc == PullSources(in)
             old == Len(reachunder)
         IN  /\ acc \in Pulled /\ Len(acc.under) >= old
             /\ \A k \in 1 .. old : acc.under[k] = reachunder[k]
             /\ acc.mark \subseteq Range(acc.under)
             /\ acc.entries = {} <=> \A j \in 1 .. L : ~Outside(copymap[in[j].point])
             /\ \A t \in Range(acc.under) :
                  \/ t \in Range(reachunder)
                  \/ t # x /\ ~Outside(t) /\ \E j \in 1 .. L : t = copymap[in[j].point]
             /\ \A j \in 1 .. L : LET c == copymap[in[j].point]
                                  IN  Outside(c) \/ c = x \/ c \in Range(acc.under)
<1> DEFINE start == [under |-> reachunder, mark |-> mark, entries |-> {}]
           old == Len(reachunder)
           F == [n \in 1 .. L |-> [acc \in Pulled |-> PullSource(acc, in[n].point)]]
           C(j) == copymap[in[j].point]
<1>1. \A j \in 1 .. L : C(j) \in Block
  OBVIOUS
<1>2. start \in Pulled
  <2>1. Range(reachunder) \subseteq Block
    BY DEF Range
  <2> QED BY <2>1 DEF Pulled
<1> HIDE DEF start
<1>3. F \in [1 .. L -> [Pulled -> Pulled]]
  BY <1>1, SourcePulled
<1>4. PICK u : Solves(u, Pulled, start, L, F)
  <2> HIDE DEF F
  <2> QED BY <1>1, <1>2, <1>3, RecursionExists
<1>5. u = [n \in 0 .. L |-> IF n = 0 THEN start ELSE PullSource(u[n - 1], in[n].point)]
  <2>1. \A n \in 0 .. L : u[n] = IF n = 0 THEN start ELSE PullSource(u[n - 1], in[n].point)
    <3> SUFFICES ASSUME NEW n \in 0 .. L
                 PROVE  u[n] = IF n = 0 THEN start ELSE PullSource(u[n - 1], in[n].point)
      OBVIOUS
    <3>1. u[n] = IF n = 0 THEN start ELSE F[n][u[n - 1]]
      <4> HIDE DEF F
      <4> QED BY <1>4 DEF Solves
    <3>2. n # 0 => n \in 1 .. L /\ u[n - 1] \in Pulled
      <4>1. n # 0 => n \in 1 .. L /\ n - 1 \in 0 .. L
        OBVIOUS
      <4> HIDE DEF F
      <4> QED BY <4>1, <1>4 DEF Solves
    <3> QED BY <3>1, <3>2
  <2> HIDE DEF F
  <2>2. u = [n \in 0 .. L |-> u[n]]
    BY <1>4 DEF Solves
  <2> QED BY <2>1, <2>2
<1> HIDE DEF F
<1> DEFINE f == CHOOSE w : w = [n \in 0 .. L |-> IF n = 0 THEN start ELSE PullSource(w[n - 1], in[n].point)]
<1>6. f = [n \in 0 .. L |-> IF n = 0 THEN start ELSE PullSource(f[n - 1], in[n].point)]
  BY <1>5
<1>7. PullSources(in) = f[L]
  BY DEF PullSources, start
<1> HIDE DEF f
<1> DEFINE Grown(a) == /\ Len(a.under) >= old
                       /\ \A k \in 1 .. old : a.under[k] = reachunder[k]
                       /\ a.mark \subseteq Range(a.under)
           Fair(a, n) == /\ a.entries = {} <=> \A j \in 1 .. n : ~Outside(C(j))
                         /\ \A t \in Range(a.under) :
                              \/ t \in Range(reachunder)
                              \/ t # x /\ ~Outside(t) /\ \E j \in 1 .. n : t = C(j)
                         /\ \A j \in 1 .. n : Outside(C(j)) \/ C(j) = x \/ C(j) \in Range(a.under)
           G == {n \in 0 .. L : f[n] \in Pulled /\ Grown(f[n]) /\ Fair(f[n], n)}
<1>8. 0 \in G
  <2>1. f[0] = start /\ 0 \in 0 .. L
    BY <1>6
  <2>2. start.under = reachunder /\ start.mark = mark /\ start.entries = {}
    BY DEF start
  <2>3. Grown(start) /\ Fair(start, 0)
    BY <2>2
  <2> QED BY <2>1, <2>3, <1>2
<1>9. ASSUME NEW n \in 1 .. L, n - 1 \in G PROVE n \in G
  <2> DEFINE c == C(n)
             a == f[n - 1]
             b == f[n]
  <2>1. n \in 0 .. L /\ n # 0 /\ n - 1 \in Nat /\ c \in Block /\ b = PullSource(a, in[n].point)
    <3>1. n \in 0 .. L /\ n # 0 /\ n - 1 \in Nat
      OBVIOUS
    <3>2. c \in Block
      BY <1>1
    <3> HIDE DEF G
    <3> QED BY <3>1, <3>2, <1>6
  <2>2. a \in Pulled /\ Grown(a) /\ Fair(a, n - 1)
    BY <1>9
  <2>3. \A j : j \in 1 .. n <=> j \in 1 .. n - 1 \/ j = n
    BY <2>1
  <2>4. /\ b \in Pulled
        /\ Outside(c) => b.under = a.under /\ b.mark = a.mark /\ c \in b.entries
        /\ ~Outside(c) => b.entries = a.entries
        /\ ~Outside(c) /\ c \in a.mark \union {x} => b = a
        /\ ~Outside(c) /\ c \notin a.mark \union {x} =>
             b.under = Append(a.under, c) /\ b.mark = a.mark \union {c}
    <3> HIDE DEF a, b
    <3> QED BY <2>1, <2>2, SourcePulled
  <2>5. a.under \in Seq(Block) /\ old \in Nat
    BY <2>2 DEF Pulled
  <2> HIDE DEF a, b, G
  <2>6. CASE Outside(c)
    <3>1. Grown(b)
      BY <2>2, <2>4, <2>6
    <3>2. Fair(b, n)
      <4> HIDE DEF C
      <4> QED BY <2>2, <2>3, <2>4, <2>6
    <3> QED BY <3>1, <3>2, <2>1, <2>4 DEF G, b
  <2>7. CASE ~Outside(c) /\ c \in a.mark \union {x}
    <3>1. b = a /\ (c = x \/ c \in Range(a.under))
      BY <2>2, <2>4, <2>7
    <3>2. Fair(b, n)
      <4> HIDE DEF C
      <4> QED BY <2>2, <2>3, <3>1, <2>7
    <3> QED BY <3>1, <3>2, <2>1, <2>2, <2>4 DEF G, b
  <2>8. CASE ~Outside(c) /\ c \notin a.mark \union {x}
    <3>1. b.under = Append(a.under, c) /\ b.mark = a.mark \union {c} /\ b.entries = a.entries
      BY <2>4, <2>8
    <3>2. /\ Range(b.under) = Range(a.under) \union {c} /\ Len(b.under) = Len(a.under) + 1
          /\ \A k \in 1 .. Len(a.under) : b.under[k] = a.under[k]
      <4> HIDE DEF c
      <4> QED BY <3>1, <2>1, <2>5, Appended, AppendFacts
    <3>3. Grown(b)
      <4>1. Len(a.under) \in Nat /\ Len(a.under) >= old
        BY <2>2, <2>5
      <4> HIDE DEF old, c
      <4> QED BY <3>1, <3>2, <4>1, <2>2, <2>5
    <3>4. Fair(b, n)
      <4> HIDE DEF C
      <4> QED BY <3>1, <3>2, <2>2, <2>3, <2>8
    <3> QED BY <3>3, <3>4, <2>1, <2>4 DEF G, b
  <2> QED BY <2>6, <2>7, <2>8
<1>10. L \in G
  <2> HIDE DEF G
  <2>1. \A n \in 0 .. L : n \in G
    BY <1>8, <1>9, UpTo
  <2> QED BY <2>1
<1> QED BY <1>7, <1>10

(***************************************************************************)
(* What the search for loops can count on                                  *)
(***************************************************************************)
Searching == TreeInv /\ PlacedInv /\ RetreatInv /\ NoWayBack /\ phase \notin {"edit", "tree"}

\* What the walk has left to the search, in one place.
LEMMA SearchFacts ==
  ASSUME Searching
  PROVE  /\ succs \in [Block -> SUBSET Block] /\ IsFiniteSet(Block) /\ 0 \in Block
         /\ ReachableFrom(succs, {0}) = Block
         /\ \A b \in Block : dfnum[b] \in Nat /\ index[b] \in Nat /\ numdesc[b] \in Nat
         /\ \A b, c \in Block : dfnum[b] = dfnum[c] => b = c
         /\ \A b \in Block \ {0}, c \in Block : Descends(c, b) <=>
              ~(dfnum[b] > dfnum[c] \/ dfnum[b] + numdesc[b] <= dfnum[c])
         /\ \A b \in Block : \A a \in Dominators(succs, 0, b) : a \in Block /\ Descends(b, a)
         /\ \A n \in 1 .. Cardinality(Block) : preorder[n] \in Block /\ dfnum[preorder[n]] = n - 1
         /\ \A b \in Block : dfnum[b] < Cardinality(Block)
         /\ Cardinality(Block) \in Nat /\ dfnum[0] = 0
<1>1. TreeTypes /\ Numbered /\ PlacedInv /\ phase \notin {"edit", "tree"}
  BY DEF Searching, TreeInv
<1>2. /\ succs \in [Block -> SUBSET Block] /\ IsFiniteSet(Block) /\ 0 \in Block
      /\ Cardinality(Block) \in Nat /\ \A b \in Block : index[b] \in Nat
  BY <1>1, Order, Blocks
<1>3. /\ ReachableFrom(succs, {0}) = Block
      /\ \A b \in Block : numdesc[b] \in Nat
  BY <1>1 DEF TreeTypes, TypeOK
<1>4. /\ \A n \in 1 .. Cardinality(Block) : preorder[n] \in Block /\ dfnum[preorder[n]] = n - 1
      /\ \A b \in Block : dfnum[b] \in Nat /\ dfnum[b] < Cardinality(Block) /\ preorder[dfnum[b] + 1] = b
  BY <1>1 DEF PlacedInv
<1>5. \A b, c \in Block : dfnum[b] = dfnum[c] => b = c
  BY <1>4
<1>6. \A c \in Block \ {0} : \E p \in Block : c \in succs[p] /\ dfnum[p] < dfnum[c]
  BY <1>1 DEF Numbered
<1>7. dfnum[0] = 0
  <2>1. PICK b \in Block : dfnum[b] = 0
    <3>1. 1 \in 1 .. Cardinality(Block)
      BY <1>2, Blocks
    <3> QED BY <3>1, <1>4
  <2>2. b = 0
    <3> SUFFICES ASSUME b # 0 PROVE FALSE
      OBVIOUS
    <3>1. PICK p \in Block : dfnum[p] < dfnum[b]
      BY <1>6
    <3> QED BY <3>1, <2>1, <1>4
  <2> QED BY <2>1, <2>2
<1>8. NONE \notin Block
  BY Blocks DEF NONE
<1>9. Ranked(Block, succs, 0, dfnum)
  BY <1>2, <1>4, <1>5, <1>6, <1>7, <1>8 DEF Ranked
<1>10. \A b \in Block : \A a \in Dominators(succs, 0, b) : a \in Block /\ Descends(b, a)
  <2>1. \A b \in Block : \A a \in Dominators(succs, 0, b) : a \in Block /\ dfnum[a] <= dfnum[b]
    BY <1>9, RankedDominators
  <2>2. \A b \in Block : \A a \in Dominators(succs, 0, b) : a \in Block /\ index[a] <= index[b]
    BY <1>1, WalkRanks, RankedDominators
  <2> QED BY <2>1, <2>2 DEF Descends
<1>11. \A b \in Block \ {0}, c \in Block : Descends(c, b) <=>
         ~(dfnum[b] > dfnum[c] \/ dfnum[b] + numdesc[b] <= dfnum[c])
  <2> SUFFICES ASSUME NEW b \in Block \ {0}, NEW c \in Block
               PROVE  Descends(c, b) <=> ~(dfnum[b] > dfnum[c] \/ dfnum[b] + numdesc[b] <= dfnum[c])
    OBVIOUS
  <2>1. Descends(c, b) <=> dfnum[c] \in dfnum[b] .. dfnum[b] + numdesc[b] - 1
    BY <1>1 DEF Numbered
  <2>2. dfnum[c] \in Nat /\ dfnum[b] \in Nat /\ numdesc[b] \in Nat
    BY <1>3, <1>4
  <2> QED BY <2>1, <2>2
<1> QED BY <1>2, <1>3, <1>4, <1>5, <1>7, <1>10, <1>11

\* Each half of an edge tells what the other one says.
LEMMA BackFacts ==
  ASSUME Searching, NEW h \in Block
  PROVE  /\ BackInto(h) \subseteq Block
         /\ \A y \in BackInto(h) : h \in succs[y]
         /\ \A y \in Block : \A i \in DOMAIN graph.out[y] :
              graph.out[y][i].point = h /\ back \in graph.out[y][i].label => y \in BackInto(h)
         /\ edits = 0 =>
              /\ \A y \in BackInto(h) : Descends(y, h)
              /\ \A y \in Block : IsBackEdge(succs, 0, y, h) => y \in BackInto(h)
              /\ Reducible(succs, 0) => \A y \in BackInto(h) : IsBackEdge(succs, 0, y, h)
<1>1. TreeTypes /\ Numbered /\ LabelInv /\ RetreatInv /\ phase \notin {"edit", "tree"}
  BY DEF Searching, TreeInv
<1>2. graph \in Graph(Block, Labels) /\ Coupled(Block, graph)
  BY <1>1 DEF TreeTypes, TypeOK
<1>3. ASSUME NEW y \in BackInto(h)
      PROVE  y \in Block /\ h \in succs[y] /\ \E i \in DOMAIN graph.out[y] :
               graph.out[y][i].point = h /\ back \in graph.out[y][i].label
  <2>1. PICK j \in DOMAIN graph.in[h] : back \in graph.in[h][j].label /\ y = graph.in[h][j].point
    BY DEF BackInto
  <2> DEFINE e == graph.in[h][j]
  <2>2. y \in Block /\ h \in succs[y]
    BY <2>1, <1>1, Predecessors
  <2>3. e.rev \in DOMAIN graph.out[y] /\ graph.out[y][e.rev] = blockedge(h, e.label, j)
    BY <2>1, <1>2 DEF Coupled, Partner
  <2>4. graph.out[y][e.rev].point = h /\ graph.out[y][e.rev].label = e.label
    BY <2>3, HalfFields
  <2> QED BY <2>1, <2>2, <2>3, <2>4
<1>4. ASSUME NEW y \in Block, NEW i \in DOMAIN graph.out[y], graph.out[y][i].point = h,
             back \in graph.out[y][i].label
      PROVE  y \in BackInto(h)
  <2> DEFINE e == graph.out[y][i]
  <2>1. e.rev \in DOMAIN graph.in[h] /\ graph.in[h][e.rev] = blockedge(y, e.label, i)
    BY <1>2, <1>4 DEF Coupled, Partner
  <2>2. graph.in[h][e.rev].point = y /\ graph.in[h][e.rev].label = e.label
    BY <2>1, HalfFields
  <2> QED BY <2>1, <2>2, <1>4 DEF BackInto
<1>5. ASSUME edits = 0, NEW y \in BackInto(h) PROVE Descends(y, h)
  <2>1. PICK i \in DOMAIN graph.out[y] : graph.out[y][i].point = h /\ back \in graph.out[y][i].label
    BY <1>3
  <2>2. Retreats(y, i) /\ y \in Block
    BY <1>1, <1>3, <1>5 DEF RetreatInv
  <2>3. h \in Black
    <3>1. index[h] \in Nat
      BY <1>1, Order
    <3> QED BY <3>1 DEF Black
  <2> QED BY <2>1, <2>2, <2>3 DEF Retreats, Descends
<1>6. ASSUME edits = 0, NEW y \in Block, IsBackEdge(succs, 0, y, h) PROVE y \in BackInto(h)
  <2>1. h \in succs[y]
    BY <1>6 DEF IsBackEdge
  <2>2. PICK i \in DOMAIN graph.out[y] : graph.out[y][i].point = h
    <3>1. \A c \in Successors(graph)[y] : \E i \in DOMAIN graph.out[y] : graph.out[y][i].point = c
      BY <1>2, GraphOf
    <3> QED BY <3>1, <2>1 DEF succs
  <2>3. WellLabelled(y, i)
    BY <1>1, <1>6 DEF LabelInv
  <2> QED BY <2>2, <2>3, <1>4, <1>6 DEF WellLabelled
<1>7. ASSUME edits = 0, Reducible(succs, 0), NEW y \in BackInto(h) PROVE IsBackEdge(succs, 0, y, h)
  <2>1. PICK i \in DOMAIN graph.out[y] : graph.out[y][i].point = h /\ back \in graph.out[y][i].label
    BY <1>3
  <2>2. WellLabelled(y, i)
    BY <1>1, <1>3, <1>7 DEF LabelInv
  <2> QED BY <2>1, <2>2, <1>7 DEF WellLabelled
<1> QED BY <1>3, <1>4, <1>5, <1>6, <1>7

\* The list of back edges into a block, as the code gathers it.
LEMMA SourcesListed ==
  ASSUME TreeTypes, NEW b \in Block
  PROVE  /\ BackSources(b) \in Seq(Block)
         /\ Range(BackSources(b)) = BackInto(b) \ {b}
<1> DEFINE s == graph.in[b]
           T == {e \in Range(s) : back \in e.label /\ e.point # b}
           in == Sublist(s, T)
           H == HalfEdge(Block, Labels)
<1>1. s \in Seq(H) /\ DOMAIN s = 1 .. Len(s)
  BY ListTypes DEF TreeTypes, TypeOK
<1> HIDE DEF s, H
<1>2. in \in Seq(H) /\ Range(in) = Range(s) \intersect T
  BY <1>1, SublistOf
<1>3. BackSources(b) = [i \in DOMAIN in |-> in[i].point]
  BY DEF BackSources, s
<1> HIDE DEF in
<1>4. \A i \in DOMAIN in : in[i] \in H /\ in[i].point \in Block
  BY <1>2, HalfTypes DEF H
<1>5. BackSources(b) \in Seq(Block)
  <2>1. DOMAIN in = 1 .. Len(in) /\ Len(in) \in Nat
    BY <1>2
  <2> QED BY <2>1, <1>3, <1>4
<1>6. Range(BackSources(b)) = {in[i].point : i \in DOMAIN in}
  BY <1>3 DEF Range
<1>7. {in[i].point : i \in DOMAIN in} = {e.point : e \in Range(in)}
  BY DEF Range
<1>8. BackInto(b) = {e.point : e \in {e \in Range(s) : back \in e.label}}
  BY DEF BackInto, Range, s
<1>9. {e.point : e \in T} = BackInto(b) \ {b}
  BY <1>8
<1> QED BY <1>2, <1>5, <1>6, <1>7, <1>9

\* A step of the search leaves what is known of the graph and the walk.
LEMMA SearchStands ==
  ASSUME UNCHANGED treevars
  PROVE  /\ graph' = graph /\ succs' = succs /\ dfnum' = dfnum /\ index' = index /\ numdesc' = numdesc
         /\ preorder' = preorder /\ edits' = edits /\ phase' = phase
         /\ \A b : BackInto(b)' = BackInto(b)
         /\ \A b, c : Descends(c, b)' <=> Descends(c, b)
<1>1. /\ graph' = graph /\ dfnum' = dfnum /\ index' = index /\ numdesc' = numdesc
      /\ preorder' = preorder /\ edits' = edits /\ phase' = phase
  BY DEF treevars, dfsvars
<1> QED BY <1>1 DEF succs, BackInto, Descends

\* The header in turn is the block numbered xi - 1.
LEMMA HeaderPlace ==
  ASSUME Searching, LoopTypes, xi > 0
  PROVE  x \in Block /\ xi \in Nat /\ dfnum[x] = xi - 1
<1>1. Cardinality(Block) \in Nat /\ xi \in 1 .. Cardinality(Block)
  BY SearchFacts DEF LoopTypes
<1> QED BY <1>1, SearchFacts DEF x

\* A block dominated by its copymap lies below x only if the copymap does: with x still to
\* come, the copymap is the block itself or was a header before.
LEMMA CopyBelow ==
  ASSUME Searching, LoopTypes, CopyInv, xi > 0, x # 0,
         NEW y \in Block, y # x, Descends(y, x)
  PROVE  copymap[y] \in Block /\ copymap[y] # x /\ Descends(copymap[y], x)
<1> DEFINE c == copymap[y]
<1>1. c \in Dominators(succs, 0, y) /\ (c # y => dfnum[c] >= xi)
  BY DEF CopyInv
<1>2. c \in Block /\ dfnum[c] \in Nat /\ dfnum[y] \in Nat /\ dfnum[c] <= dfnum[y]
  BY <1>1, SearchFacts DEF Descends
<1>3. x \in Block /\ xi \in Nat /\ dfnum[x] = xi - 1 /\ numdesc[x] \in Nat
  BY HeaderPlace, SearchFacts
<1> HIDE DEF c
<1>4. CASE c = y
  BY <1>2, <1>4 DEF c
<1>5. CASE c # y
  <2>1. dfnum[c] >= xi
    BY <1>1, <1>5
  <2>2. ~(dfnum[x] > dfnum[y] \/ dfnum[x] + numdesc[x] <= dfnum[y])
    BY <1>3, SearchFacts
  <2>3. ~(dfnum[x] > dfnum[c] \/ dfnum[x] + numdesc[x] <= dfnum[c]) /\ c # x
    BY <2>1, <2>2, <1>2, <1>3
  <2>4. Descends(c, x)
    BY <2>3, <1>2, <1>3, SearchFacts
  <2> QED BY <2>3, <2>4, <1>2 DEF c
<1> QED BY <1>4, <1>5

\* CollectSources: the first work list of a header.
LEMMA SourcesCollected ==
  ASSUME Searching, LoopTypes, Clean, CollectTypes, CollectSources
  PROVE  /\ xi > 0 /\ x \in Block /\ reachunder = << >> /\ q' = 0
         /\ UNCHANGED <<copymap, irreducibles, loopheader, treevars>>
         /\ loopheaders' \in Seq(Block)
         /\ Range(loopheaders') = Range(loopheaders) \union {h \in {x} : BackInto(h) # {}}
         /\ \/ BackInto(x) \subseteq {x} /\ reachunder' = << >> /\ mark' = {} /\ xi' = xi - 1
            \/ /\ reachunder' \in Seq(Block) /\ reachunder' # << >> /\ mark' = Range(reachunder') /\ xi' = xi
               /\ Range(reachunder') = {copymap[y] : y \in BackInto(x) \ {x}}
<1> DEFINE acc == PushSources(BackSources(x))
           header == \E i \in DOMAIN graph.in[x] : back \in graph.in[x][i].label
<1>1. /\ xi > 0 /\ reachunder = << >> /\ q' = 0
      /\ UNCHANGED <<copymap, irreducibles, loopheader, treevars>>
      /\ IF acc.under # << >>
         THEN reachunder' = acc.under /\ mark' = acc.mark /\ xi' = xi
         ELSE xi' = xi - 1 /\ UNCHANGED <<reachunder, mark>>
      /\ loopheaders' = IF header THEN Append(loopheaders, x) ELSE loopheaders
  BY DEF CollectSources
<1>2. x \in Block
  BY <1>1, HeaderPlace
<1>3. header <=> BackInto(x) # {}
  BY DEF BackInto
<1>4. BackSources(x) \in Seq(Block) /\ Range(BackSources(x)) = BackInto(x) \ {x}
  <2>1. TreeTypes
    BY DEF Searching, TreeInv
  <2> QED BY <2>1, <1>2, SourcesListed
<1>5. /\ acc.under \in Seq(Block) /\ acc.mark = Range(acc.under)
      /\ Range(acc.under) = {copymap[y] : y \in BackInto(x) \ {x}}
      /\ acc.under = << >> <=> BackSources(x) = << >>
  BY <1>4, SourcesPushed DEF CollectTypes
<1>6. loopheaders \in Seq(Block) /\ mark \subseteq Range(reachunder)
  BY DEF CollectTypes
<1> HIDE DEF header
<1>7. /\ loopheaders' \in Seq(Block)
      /\ Range(loopheaders') = Range(loopheaders) \union {h \in {x} : BackInto(h) # {}}
  <2>1. CASE header
    <3>1. loopheaders' = Append(loopheaders, x)
      BY <2>1, <1>1
    <3>2. {h \in {x} : BackInto(h) # {}} = {x}
      BY <2>1, <1>3
    <3> QED BY <3>1, <3>2, <1>2, <1>6, Appended
  <2>2. CASE ~header
    BY <2>2, <1>1, <1>3, <1>6
  <2> QED BY <2>1, <2>2
<1> HIDE DEF acc
<1>8. CASE acc.under = << >>
  <2>1. BackInto(x) \subseteq {x}
    <3>1. Range(BackSources(x)) = {}
      BY <1>5, <1>8 DEF Range
    <3> QED BY <3>1, <1>4
  <2>2. mark' = {}
    BY <1>1, <1>6, <1>8 DEF Range
  <2> QED BY <2>1, <2>2, <1>1, <1>2, <1>7, <1>8
<1>9. CASE acc.under # << >>
  BY <1>1, <1>2, <1>5, <1>7, <1>9
<1> QED BY <1>8, <1>9

\* The first work list holds what the sources of back edges stand for, all below the header.
LEMMA CollectSound ==
  ASSUME Searching, edits = 0, LoopTypes, Clean, Sound, CollectSources
  PROVE  Sound'
<1>0. CollectTypes /\ CopyInv
  BY DEF Sound
<1>1. /\ xi > 0 /\ x \in Block /\ reachunder = << >> /\ q' = 0
      /\ copymap' = copymap /\ loopheader' = loopheader
      /\ UNCHANGED treevars
      /\ loopheaders' \in Seq(Block)
      /\ Range(loopheaders') = Range(loopheaders) \union {h \in {x} : BackInto(h) # {}}
      /\ \/ BackInto(x) \subseteq {x} /\ reachunder' = << >> /\ mark' = {} /\ xi' = xi - 1
         \/ /\ reachunder' \in Seq(Block) /\ reachunder' # << >> /\ mark' = Range(reachunder') /\ xi' = xi
            /\ Range(reachunder') = {copymap[y] : y \in BackInto(x) \ {x}}
  BY <1>0, SourcesCollected
<1>2. /\ succs' = succs /\ dfnum' = dfnum /\ preorder' = preorder
      /\ \A b : BackInto(b)' = BackInto(b)
      /\ \A b, c : Descends(c, b)' <=> Descends(c, b)
  BY <1>1, SearchStands
<1>3. /\ xi \in Nat /\ dfnum[x] = xi - 1
      /\ \A b \in Block : dfnum[b] \in Nat /\ (dfnum[b] = dfnum[x] => b = x)
      /\ \A b \in Block : b \in Dominators(succs, 0, b)
  BY <1>1, HeaderPlace, SearchFacts, DominatorRules
<1>4. /\ \A b \in Block : copymap[b] \in Dominators(succs, 0, b) /\ (copymap[b] # b => dfnum[copymap[b]] >= xi)
      /\ \A h \in Block : dfnum[h] >= xi => \A y \in BackInto(h) : h \in Dominators(succs, 0, y)
      /\ \A h \in Block : h \in Range(loopheaders) <=> BackInto(h) # {} /\ dfnum[h] >= xi
  BY <1>0, <1>1 DEF CopyInv
<1>5. CASE BackInto(x) \subseteq {x} /\ reachunder' = << >> /\ mark' = {} /\ xi' = xi - 1
  <2>1. CollectTypes'
    BY <1>0, <1>1, <1>5 DEF CollectTypes
  <2>2. UnderInv'
    BY <1>5 DEF UnderInv
  <2>3. \A h \in Block : dfnum[h] >= xi - 1 <=> dfnum[h] >= xi \/ h = x
    BY <1>1, <1>3
  <2>4. \A b \in Block : copymap[b] \in Block
    BY <1>0 DEF CollectTypes
  <2>5. CopyInv'
    <3>1. ASSUME NEW b \in Block, copymap[b] # b PROVE dfnum[copymap[b]] >= xi - 1
      BY <2>3, <2>4, <1>4, <3>1
    <3>2. ASSUME NEW h \in Block, dfnum[h] >= xi - 1, NEW y \in BackInto(h)
          PROVE  h \in Dominators(succs, 0, y)
      BY <2>3, <1>3, <1>4, <1>5, <3>2
    <3>3. \A h \in Block : h \in Range(loopheaders') <=> BackInto(h) # {} /\ dfnum[h] >= xi - 1
      BY <2>3, <1>1, <1>4
    <3> QED BY <3>1, <3>2, <3>3, <1>1, <1>2, <1>4, <1>5 DEF CopyInv
  <2> QED BY <2>1, <2>2, <2>5 DEF Sound
<1>6. CASE /\ reachunder' \in Seq(Block) /\ reachunder' # << >> /\ mark' = Range(reachunder') /\ xi' = xi
           /\ Range(reachunder') = {copymap[y] : y \in BackInto(x) \ {x}}
  <2>1. CollectTypes'
    <3>1. Len(reachunder') \in Nat
      BY <1>6
    <3> QED BY <3>1, <1>0, <1>1, <1>6 DEF CollectTypes
  <2>2. x' = x
    BY <1>2, <1>6 DEF x
  <2>3. CopyInv'
    <3>1. \A h \in Block : h \in Range(loopheaders') <=> BackInto(h) # {} /\ (dfnum[h] >= xi \/ h = x)
      BY <1>1, <1>4
    <3> QED BY <3>1, <2>2, <1>1, <1>2, <1>4, <1>6 DEF CopyInv
  <2>4. x # 0
    <3>1. PICK y \in BackInto(x) : TRUE
      <4>1. Range(reachunder') # {}
        BY <1>6 DEF Range
      <4> QED BY <4>1, <1>6
    <3>2. y \in Block /\ x \in succs[y]
      BY <3>1, <1>1, BackFacts
    <3> QED BY <3>2 DEF Searching, NoWayBack
  <2>5. ASSUME NEW t \in Range(reachunder') PROVE t # x /\ Descends(t, x)
    <3>1. PICK y \in BackInto(x) \ {x} : t = copymap[y]
      BY <1>6
    <3>2. y \in Block /\ Descends(y, x)
      BY <3>1, <1>1, BackFacts
    <3> QED BY <3>1, <3>2, <2>4, <1>0, <1>1, CopyBelow
  <2>6. UnderInv'
    <3>1. \A k : k \notin 1 .. 0
      OBVIOUS
    <3>2. /\ xi' > 0 /\ x' # 0
          /\ \A t \in Range(reachunder') : t # x' /\ Descends(t, x)'
          /\ \A y \in BackInto(x)' : y # x' => copymap'[y] \in Range(reachunder')
      BY <2>2, <2>4, <2>5, <1>1, <1>2, <1>6
    <3> QED BY <3>1, <3>2, <2>2, <1>1 DEF UnderInv
  <2> QED BY <2>1, <2>3, <2>6 DEF Sound
<1> QED BY <1>1, <1>5, <1>6

\* Expand: what leads to the next block of the work list is put on it.
LEMMA SourcesExpanded ==
  ASSUME Searching, LoopTypes, Clean, CollectTypes, Expand
  PROVE  /\ xi > 0 /\ x \in Block /\ reachunder # << >> /\ q' = q + 1
         /\ q + 1 \in 1 .. Len(reachunder) /\ reachunder[q + 1] \in Block
         /\ UNCHANGED <<xi, copymap, loopheader, loopheaders, treevars>>
         /\ reachunder' \in Seq(Block) /\ Len(reachunder') >= Len(reachunder)
         /\ \A k \in 1 .. Len(reachunder) : reachunder'[k] = reachunder[k]
         /\ mark' \subseteq Range(reachunder')
         /\ Clean' <=> \A z \in Block : reachunder[q + 1] \in succs[z] => ~Outside(copymap[z])
         /\ \A t \in Range(reachunder') :
              \/ t \in Range(reachunder)
              \/ /\ t # x /\ ~Outside(t)
                 /\ \E z \in Block : reachunder[q + 1] \in succs[z] /\ t = copymap[z]
         /\ \A z \in Block : reachunder[q + 1] \in succs[z] =>
              Outside(copymap[z]) \/ copymap[z] = x \/ copymap[z] \in Range(reachunder')
<1> DEFINE r == reachunder[q + 1]
           in == graph.in[r]
           L == Len(in)
           acc == PullSources(in)
           C(j) == copymap[in[j].point]
<1>1. /\ q < Len(reachunder) /\ q' = q + 1
      /\ UNCHANGED <<xi, copymap, loopheader, loopheaders, treevars>>
      /\ reachunder' = acc.under /\ mark' = acc.mark
      /\ irreducibles' = [irreducibles EXCEPT ![x] = @ \union acc.entries]
  BY DEF Expand
<1>2. /\ q \in Nat /\ reachunder \in Seq(Block) /\ mark \subseteq Range(reachunder)
      /\ copymap \in [Block -> Block]
  BY DEF LoopTypes, CollectTypes
<1>3. q + 1 \in 1 .. Len(reachunder) /\ r \in Block /\ reachunder # << >>
  BY <1>1, <1>2
<1>4. xi > 0 /\ x \in Block
  BY <1>3, HeaderPlace DEF LoopTypes
<1>5. /\ L \in Nat
      /\ \A j \in 1 .. L : in[j].point \in Block /\ r \in succs[in[j].point]
      /\ \A z \in Block : r \in succs[z] => \E j \in 1 .. L : in[j].point = z
  <2>1. TreeTypes
    BY DEF Searching, TreeInv
  <2> QED BY <2>1, <1>3, Predecessors
<1> HIDE DEF r, in, acc
<1>6. /\ acc \in Pulled /\ Len(acc.under) >= Len(reachunder)
      /\ \A k \in 1 .. Len(reachunder) : acc.under[k] = reachunder[k]
      /\ acc.mark \subseteq Range(acc.under)
      /\ acc.entries = {} <=> \A j \in 1 .. L : ~Outside(C(j))
      /\ \A t \in Range(acc.under) :
           t \in Range(reachunder) \/ (t # x /\ ~Outside(t) /\ \E j \in 1 .. L : t = C(j))
      /\ \A j \in 1 .. L : Outside(C(j)) \/ C(j) = x \/ C(j) \in Range(acc.under)
  BY <1>2, <1>5, SourcesPulled DEF acc
<1>7. acc.entries = {} <=> \A z \in Block : r \in succs[z] => ~Outside(copymap[z])
  BY <1>5, <1>6
<1>8. Clean' <=> acc.entries = {}
  <2>1. irreducibles = [b \in Block |-> irreducibles[b]] /\ \A b \in Block : irreducibles[b] = {}
    BY DEF LoopTypes, Clean
  <2>2. irreducibles'[x] = acc.entries /\ \A b \in Block : b # x => irreducibles'[b] = {}
    BY <2>1, <1>1, <1>4
  <2> QED BY <2>2, <1>4 DEF Clean
<1>9. acc.under \in Seq(Block)
  BY <1>6 DEF Pulled
<1>10. /\ \A t \in Range(acc.under) :
            \/ t \in Range(reachunder)
            \/ t # x /\ ~Outside(t) /\ \E z \in Block : r \in succs[z] /\ t = copymap[z]
       /\ \A z \in Block : r \in succs[z] =>
            Outside(copymap[z]) \/ copymap[z] = x \/ copymap[z] \in Range(acc.under)
  BY <1>5, <1>6
<1> QED BY <1>1, <1>3, <1>4, <1>6, <1>7, <1>8, <1>9, <1>10 DEF r

\* What leads to a block below the header is below the header too, or the loop has another entry.
LEMMA ExpandSound ==
  ASSUME Searching, edits = 0, LoopTypes, Clean, Sound, Expand, Clean'
  PROVE  Sound'
<1>0. CollectTypes /\ CopyInv /\ UnderInv
  BY DEF Sound
<1> DEFINE r == reachunder[q + 1]
<1>1. /\ xi > 0 /\ x \in Block /\ reachunder # << >> /\ q' = q + 1
      /\ q + 1 \in 1 .. Len(reachunder) /\ r \in Block
      /\ xi' = xi /\ copymap' = copymap /\ loopheader' = loopheader /\ loopheaders' = loopheaders
      /\ UNCHANGED treevars
      /\ reachunder' \in Seq(Block) /\ Len(reachunder') >= Len(reachunder)
      /\ \A k \in 1 .. Len(reachunder) : reachunder'[k] = reachunder[k]
      /\ mark' \subseteq Range(reachunder')
  BY <1>0, SourcesExpanded
<1>2. /\ \A t \in Range(reachunder') : t \in Range(reachunder) \/ (t # x /\ ~Outside(t) /\ t \in Block)
      /\ \A z \in Block : r \in succs[z] => copymap[z] \in Range(reachunder') \union {x}
  <2>1. \A z \in Block : copymap[z] \in Block
    BY <1>0 DEF CollectTypes
  <2> QED BY <2>1, <1>0, SourcesExpanded
<1>3. /\ succs' = succs /\ dfnum' = dfnum /\ preorder' = preorder
      /\ \A b : BackInto(b)' = BackInto(b)
      /\ \A b, c : Descends(c, b)' <=> Descends(c, b)
  BY <1>1, SearchStands
<1>4. x' = x
  BY <1>1, <1>3 DEF x
<1>5. reachunder' # << >> /\ q \in Nat /\ reachunder \in Seq(Block) /\ Len(reachunder) \in Nat /\ Len(reachunder') \in Nat
  BY <1>0, <1>1 DEF LoopTypes, CollectTypes
<1>6. CollectTypes'
  <2>1. q + 1 <= Len(reachunder')
    BY <1>1, <1>5
  <2> QED BY <2>1, <1>0, <1>1 DEF CollectTypes
<1>7. CopyInv'
  BY <1>0, <1>1, <1>3, <1>4, <1>5 DEF CopyInv
<1>8. UnderInv'
  <2>1. /\ x # 0
        /\ \A t \in Range(reachunder) : t # x /\ Descends(t, x)
        /\ \A y \in BackInto(x) : y # x => copymap[y] \in Range(reachunder)
        /\ \A k \in 1 .. q : \A z \in Block :
             reachunder[k] \in succs[z] => copymap[z] \in Range(reachunder) \union {x}
    BY <1>0, <1>1 DEF UnderInv
  <2>2. Range(reachunder) \subseteq Range(reachunder')
    <3>1. DOMAIN reachunder = 1 .. Len(reachunder) /\ DOMAIN reachunder' = 1 .. Len(reachunder')
      BY <1>1, <1>5
    <3>2. \A k \in DOMAIN reachunder : k \in DOMAIN reachunder' /\ reachunder'[k] = reachunder[k]
      BY <3>1, <1>1, <1>5
    <3> QED BY <3>2 DEF Range
  <2>3. ASSUME NEW t \in Range(reachunder') PROVE t # x /\ Descends(t, x)
    <3>1. CASE t \in Range(reachunder)
      BY <3>1, <2>1
    <3>2. CASE t # x /\ ~Outside(t) /\ t \in Block
      BY <3>2, <2>1, <1>1, SearchFacts DEF Outside
    <3> QED BY <3>1, <3>2, <1>2
  <2>4. ASSUME NEW k \in 1 .. q + 1, NEW z \in Block, reachunder'[k] \in succs[z]
        PROVE  copymap[z] \in Range(reachunder') \union {x}
    <3>1. reachunder'[k] = reachunder[k]
      BY <1>1, <1>5
    <3>2. CASE k = q + 1
      BY <3>1, <3>2, <2>4, <1>2
    <3>3. CASE k # q + 1
      <4>1. k \in 1 .. q
        BY <3>3, <1>5
      <4> QED BY <4>1, <3>1, <2>1, <2>2, <2>4
    <3> QED BY <3>2, <3>3
  <2>5. /\ xi' > 0 /\ x' # 0
        /\ \A t \in Range(reachunder') : t # x' /\ Descends(t, x)'
        /\ \A y \in BackInto(x)' : y # x' => copymap'[y] \in Range(reachunder')
    BY <2>1, <2>2, <2>3, <1>1, <1>3, <1>4
  <2>6. \A k \in 1 .. q' : \A z \in Block :
          reachunder'[k] \in succs'[z] => copymap'[z] \in Range(reachunder') \union {x'}
    BY <2>4, <1>1, <1>3, <1>4
  <2> QED BY <2>5, <2>6 DEF UnderInv
<1> QED BY <1>6, <1>7, <1>8 DEF Sound

\* Collapse: the blocks of the loop are merged into its header.
LEMMA LoopCollapsed ==
  ASSUME Searching, LoopTypes, Collapse
  PROVE  /\ xi > 0 /\ xi \in Nat /\ x \in Block /\ dfnum[x] = xi - 1 /\ xi' = xi - 1
         /\ reachunder # << >> /\ reachunder' = << >> /\ q = Len(reachunder) /\ q' = q
         /\ copymap' = [b \in Block |-> IF b \in Range(reachunder) THEN x ELSE copymap[b]]
         /\ loopheader' = [b \in Block |-> IF b \in Range(reachunder) THEN x ELSE loopheader[b]]
         /\ mark' = mark \ Range(reachunder)
         /\ UNCHANGED <<irreducibles, loopheaders, treevars>>
<1>1. reachunder # << >> /\ xi > 0
  BY DEF Collapse, LoopTypes
<1> QED BY <1>1, HeaderPlace DEF Collapse

\* With no other entry found, the header dominates all that is merged into it.
LEMMA CollapseSound ==
  ASSUME Searching, edits = 0, LoopTypes, Clean, Sound, Collapse
  PROVE  Sound'
<1>0. CollectTypes /\ CopyInv /\ UnderInv
  BY DEF Sound
<1> DEFINE T == Range(reachunder)
<1>1. /\ xi > 0 /\ xi \in Nat /\ x \in Block /\ dfnum[x] = xi - 1 /\ xi' = xi - 1
      /\ reachunder # << >> /\ reachunder' = << >> /\ q = Len(reachunder)
      /\ copymap' = [b \in Block |-> IF b \in T THEN x ELSE copymap[b]]
      /\ loopheader' = [b \in Block |-> IF b \in T THEN x ELSE loopheader[b]]
      /\ mark' = mark \ T /\ loopheaders' = loopheaders
      /\ UNCHANGED treevars
  BY LoopCollapsed
<1>2. /\ succs' = succs /\ dfnum' = dfnum /\ preorder' = preorder
      /\ \A b : BackInto(b)' = BackInto(b)
  BY <1>1, SearchStands
<1>3. /\ x # 0
      /\ \A t \in T : t # x /\ Descends(t, x)
      /\ \A y \in BackInto(x) : y # x => copymap[y] \in T
      /\ \A k \in 1 .. q : \A z \in Block : reachunder[k] \in succs[z] => copymap[z] \in T \union {x}
  BY <1>0, <1>1 DEF UnderInv
<1>4. /\ reachunder \in Seq(Block) /\ mark \subseteq T /\ copymap \in [Block -> Block]
      /\ loopheader = [b \in Block |-> IF copymap[b] = b THEN NONE ELSE copymap[b]]
      /\ loopheaders \in Seq(Block)
  BY <1>0 DEF CollectTypes
<1>5. T \in SUBSET Block /\ \A t \in T : \A z \in Block : t \in succs[z] => copymap[z] \in T \union {x}
  <2>1. DOMAIN reachunder = 1 .. q
    BY <1>1, <1>4
  <2>2. \A k \in DOMAIN reachunder : reachunder[k] \in Block
    BY <1>4
  <2>3. \A t : t \in T <=> \E k \in DOMAIN reachunder : reachunder[k] = t
    BY DEF Range
  <2> HIDE DEF T
  <2> QED BY <2>1, <2>2, <2>3, <1>3
<1>6. /\ succs \in [Block -> SUBSET Block] /\ IsFiniteSet(Block) /\ 0 \in Block
      /\ \A b \in Block : dfnum[b] \in Nat /\ (dfnum[b] = dfnum[x] => b = x)
      /\ dfnum[0] = 0
      /\ \A b \in Block : b \in Dominators(succs, 0, b)
  BY <1>1, SearchFacts, DominatorRules
<1>7. /\ \A b \in Block : copymap[b] \in Dominators(succs, 0, b) /\ (copymap[b] # b => dfnum[copymap[b]] >= xi)
      /\ \A h \in Block : dfnum[h] >= xi => \A y \in BackInto(h) : h \in Dominators(succs, 0, y)
      /\ \A h \in Block : h \in Range(loopheaders) <=> BackInto(h) # {} /\ (dfnum[h] >= xi \/ h = x)
  BY <1>0, <1>1 DEF CopyInv
<1>8. 0 \notin T
  <2> SUFFICES ASSUME 0 \in T PROVE FALSE
    OBVIOUS
  <2>1. Descends(0, x)
    BY <1>3
  <2>2. dfnum[x] <= 0
    BY <2>1, <1>6 DEF Descends
  <2>3. dfnum[x] = dfnum[0]
    BY <2>2, <1>1, <1>6
  <2> QED BY <2>3, <1>3, <1>6
<1> HIDE DEF T
<1>9. \A t \in T : x \in Dominators(succs, 0, t)
  BY <1>1, <1>3, <1>5, <1>6, <1>7, <1>8, HeaderDominates
<1>10. \A h \in Block : dfnum[h] >= xi - 1 <=> dfnum[h] >= xi \/ h = x
  BY <1>1, <1>6
<1>11. CollectTypes'
  <2>1. mark' \subseteq Range(reachunder')
    BY <1>1, <1>4
  <2>2. copymap' \in [Block -> Block]
    BY <1>1, <1>4
  <2>3. loopheader' = [b \in Block |-> IF copymap'[b] = b THEN NONE ELSE copymap'[b]]
    BY <1>1, <1>3, <1>4
  <2> QED BY <2>1, <2>2, <2>3, <1>1, <1>4 DEF CollectTypes
<1>12. CopyInv'
  <2>1. ASSUME NEW b \in Block
        PROVE  copymap'[b] \in Dominators(succs, 0, b) /\ (copymap'[b] # b => dfnum[copymap'[b]] >= xi - 1)
    <3>1. CASE b \in T
      BY <3>1, <1>1, <1>9
    <3>2. CASE b \notin T
      <4>1. copymap'[b] = copymap[b] /\ copymap[b] \in Block
        BY <3>2, <1>1, <1>4
      <4> QED BY <4>1, <1>7, <1>10
    <3> QED BY <3>1, <3>2
  <2>2. ASSUME NEW h \in Block, dfnum[h] >= xi - 1, NEW y \in BackInto(h)
        PROVE  h \in Dominators(succs, 0, y)
    <3>1. CASE dfnum[h] >= xi
      BY <3>1, <1>7
    <3>2. CASE h = x
      <4>1. y \in Block
        BY BackFacts
      <4>2. CASE y = x
        BY <4>2, <3>2, <1>1, <1>6
      <4>3. CASE y # x
        <5>1. copymap[y] \in T /\ copymap[y] \in Dominators(succs, 0, y)
          BY <4>1, <4>3, <3>2, <1>3, <1>7
        <5>2. x \in Dominators(succs, 0, copymap[y])
          BY <5>1, <1>9
        <5> QED BY <5>1, <5>2, <4>1, <3>2, <1>6, DominatorChain
      <4> QED BY <4>2, <4>3
    <3> QED BY <3>1, <3>2, <2>2, <1>10
  <2>3. \A h \in Block : h \in Range(loopheaders) <=> BackInto(h) # {} /\ dfnum[h] >= xi - 1
    BY <1>7, <1>10
  <2> QED BY <2>1, <2>2, <2>3, <1>1, <1>2 DEF CopyInv
<1>13. UnderInv'
  BY <1>1 DEF UnderInv
<1> QED BY <1>11, <1>12, <1>13 DEF Sound

(***************************************************************************)
(* On a reducible graph                                                    *)
(***************************************************************************)

\* What a block of a loop still to come has for a copymap lies in that loop.
LEMMA CopyInLoop ==
  ASSUME Searching, LoopTypes, CopyInv, xi > 0, NEW z \in NaturalLoop(succs, 0, x)
  PROVE  z \in Block /\ copymap[z] \in NaturalLoop(succs, 0, x)
<1>1. /\ succs \in [Block -> SUBSET Block] /\ IsFiniteSet(Block) /\ 0 \in Block
      /\ ReachableFrom(succs, {0}) = Block
      /\ x \in Block /\ xi \in Nat /\ dfnum[x] = xi - 1
  BY SearchFacts, HeaderPlace
<1>2. z \in Block
  BY <1>1, LoopFacts
<1> DEFINE c == copymap[z]
<1>3. c \in Dominators(succs, 0, z) /\ (c # z => dfnum[c] >= xi)
  BY <1>2 DEF CopyInv
<1>4. CASE c = z
  BY <1>2, <1>4
<1>5. CASE c # z
  <2>1. c \notin Dominators(succs, 0, x)
    <3> SUFFICES ASSUME c \in Dominators(succs, 0, x) PROVE FALSE
      OBVIOUS
    <3>1. c \in Block /\ dfnum[c] <= dfnum[x] /\ dfnum[c] \in Nat
      BY <1>1, SearchFacts DEF Descends
    <3> QED BY <3>1, <1>1, <1>3, <1>5
  <2> HIDE DEF c
  <2>2. c \in NaturalLoop(succs, 0, x)
    BY <2>1, <1>1, <1>3, DominatorInLoop
  <2> QED BY <2>2, <1>2 DEF c
<1> QED BY <1>4, <1>5

\* On a reducible graph, CollectSources starts with the sources of the natural loop.
LEMMA CollectNatural ==
  ASSUME Searching, edits = 0, Reducible(succs, 0), LoopTypes, Clean, Sound, NaturalInv, CollectSources
  PROVE  Clean' /\ NaturalInv'
<1>0. CollectTypes /\ CopyInv
  BY DEF Sound
<1>1. /\ xi > 0 /\ x \in Block /\ reachunder = << >>
      /\ copymap' = copymap /\ irreducibles' = irreducibles
      /\ UNCHANGED treevars
      /\ \/ BackInto(x) \subseteq {x} /\ reachunder' = << >> /\ mark' = {} /\ xi' = xi - 1
         \/ /\ reachunder' \in Seq(Block) /\ reachunder' # << >> /\ mark' = Range(reachunder') /\ xi' = xi
            /\ Range(reachunder') = {copymap[y] : y \in BackInto(x) \ {x}}
  BY <1>0, SourcesCollected
<1>2. succs' = succs /\ dfnum' = dfnum /\ preorder' = preorder
  BY <1>1, SearchStands
<1>3. /\ succs \in [Block -> SUBSET Block] /\ IsFiniteSet(Block) /\ 0 \in Block
      /\ xi \in Nat /\ dfnum[x] = xi - 1
      /\ \A b \in Block : dfnum[b] \in Nat /\ (dfnum[b] = dfnum[x] => b = x)
  BY <1>1, HeaderPlace, SearchFacts
<1>4. /\ \A b \in Block : b \in NaturalLoop(succs, 0, copymap[b])
      /\ \A h \in Block : dfnum[h] >= xi => \A b \in NaturalLoop(succs, 0, h) \ {h} : copymap[b] # b
  BY DEF NaturalInv
<1>5. Clean'
  BY <1>1 DEF Clean
<1>6. CASE BackInto(x) \subseteq {x} /\ reachunder' = << >> /\ xi' = xi - 1
  <2>1. NaturalLoop(succs, 0, x) \subseteq {x}
    <3>1. \A u \in Block : IsBackEdge(succs, 0, u, x) => u = x
      BY <1>1, <1>6, BackFacts
    <3>2. Encloses(Block, succs, 0, x, {})
      BY <3>1 DEF Encloses
    <3>3. NaturalLoop(succs, 0, x) \subseteq {} \union {x}
      BY <3>2, <1>1, <1>3, LoopWithin
    <3> QED BY <3>3
  <2>2. ASSUME NEW h \in Block, dfnum[h] >= xi - 1, NEW b \in NaturalLoop(succs, 0, h) \ {h}
        PROVE  copymap[b] # b
    <3>1. dfnum[h] >= xi \/ h = x
      BY <2>2, <1>3
    <3> QED BY <3>1, <2>1, <1>4
  <2>3. Range(reachunder') = {}
    BY <1>6 DEF Range
  <2> QED BY <2>2, <2>3, <1>1, <1>2, <1>4, <1>5, <1>6 DEF NaturalInv
<1>7. CASE xi' = xi /\ Range(reachunder') = {copymap[y] : y \in BackInto(x) \ {x}}
  <2>1. x' = x
    BY <1>2, <1>7 DEF x
  <2>2. ASSUME NEW t \in Range(reachunder') PROVE t \in NaturalLoop(succs, 0, x)
    <3>1. PICK y \in BackInto(x) : t = copymap[y]
      BY <1>7
    <3>2. y \in Block /\ IsBackEdge(succs, 0, y, x)
      BY <3>1, <1>1, BackFacts
    <3>3. y \in NaturalLoop(succs, 0, x)
      BY <3>2, <1>1, <1>3, LoopFacts
    <3> QED BY <3>1, <3>3, <1>0, <1>1, CopyInLoop
  <2> QED BY <2>1, <2>2, <1>1, <1>2, <1>4, <1>5, <1>7 DEF NaturalInv
<1> QED BY <1>1, <1>6, <1>7

\* On a reducible graph, Expand stays in the natural loop and finds no other entry.
LEMMA ExpandNatural ==
  ASSUME Searching, edits = 0, Reducible(succs, 0), LoopTypes, Clean, Sound, NaturalInv, Expand
  PROVE  Clean' /\ NaturalInv'
<1>0. CollectTypes /\ CopyInv /\ UnderInv
  BY DEF Sound
<1> DEFINE r == reachunder[q + 1]
           N == NaturalLoop(succs, 0, x)
<1>1. /\ xi > 0 /\ x \in Block /\ reachunder # << >>
      /\ q + 1 \in 1 .. Len(reachunder) /\ r \in Block
      /\ xi' = xi /\ copymap' = copymap
      /\ UNCHANGED treevars
      /\ Clean' <=> \A z \in Block : r \in succs[z] => ~Outside(copymap[z])
      /\ \A t \in Range(reachunder') :
           \/ t \in Range(reachunder)
           \/ \E z \in Block : r \in succs[z] /\ t = copymap[z]
  BY <1>0, SourcesExpanded
<1>2. succs' = succs /\ dfnum' = dfnum /\ preorder' = preorder /\ x' = x
  BY <1>1, SearchStands DEF x
<1>3. /\ succs \in [Block -> SUBSET Block] /\ IsFiniteSet(Block) /\ 0 \in Block
  BY SearchFacts
<1>4. /\ \A t \in Range(reachunder) : t \in N
      /\ \A b \in Block : b \in NaturalLoop(succs, 0, copymap[b])
      /\ \A h \in Block : dfnum[h] >= xi => \A b \in NaturalLoop(succs, 0, h) \ {h} : copymap[b] # b
  BY DEF NaturalInv
<1>5. r \in Range(reachunder)
  BY <1>0, <1>1 DEF CollectTypes, Range
<1>6. x # 0 /\ r # x
  BY <1>0, <1>1, <1>5 DEF UnderInv
<1>7. ASSUME NEW z \in Block, r \in succs[z] PROVE copymap[z] \in N
  <2>1. z \in N
    BY <1>1, <1>3, <1>4, <1>5, <1>6, <1>7, LoopFacts
  <2> QED BY <2>1, <1>0, <1>1, CopyInLoop
<1>8. \A t \in N : t \in Block /\ x \in Dominators(succs, 0, t)
  BY <1>1, <1>3, LoopFacts
<1> HIDE DEF N, r
<1>9. \A t \in N : ~Outside(t)
  <2>1. \A t \in N : t \in Block /\ Descends(t, x)
    BY <1>8, SearchFacts
  <2> QED BY <2>1, <1>1, <1>6, SearchFacts DEF Outside
<1>10. Clean'
  BY <1>1, <1>7, <1>9
<1>11. \A t \in Range(reachunder') : t \in N
  BY <1>1, <1>4, <1>7
<1> QED BY <1>1, <1>2, <1>4, <1>10, <1>11 DEF NaturalInv, N

\* On a reducible graph, the blocks merged into the header are all of its natural loop.
LEMMA CollapseNatural ==
  ASSUME Searching, edits = 0, Reducible(succs, 0), LoopTypes, Clean, Sound, NaturalInv, Collapse
  PROVE  Clean' /\ NaturalInv'
<1>0. CollectTypes /\ CopyInv /\ UnderInv
  BY DEF Sound
<1> DEFINE T == Range(reachunder)
           N(h) == NaturalLoop(succs, 0, h)
<1>1. /\ xi > 0 /\ xi \in Nat /\ x \in Block /\ dfnum[x] = xi - 1 /\ xi' = xi - 1
      /\ reachunder # << >> /\ reachunder' = << >> /\ q = Len(reachunder)
      /\ copymap' = [b \in Block |-> IF b \in T THEN x ELSE copymap[b]]
      /\ irreducibles' = irreducibles
      /\ UNCHANGED treevars
  BY LoopCollapsed
<1>2. succs' = succs /\ dfnum' = dfnum
  BY <1>1, SearchStands
<1>3. /\ \A t \in T : t # x /\ Descends(t, x)
      /\ \A y \in BackInto(x) : y # x => copymap[y] \in T
      /\ \A k \in 1 .. q : \A z \in Block : reachunder[k] \in succs[z] => copymap[z] \in T \union {x}
  BY <1>0, <1>1 DEF UnderInv
<1>4. reachunder \in Seq(Block) /\ copymap \in [Block -> Block]
  BY <1>0 DEF CollectTypes
<1>5. T \subseteq Block /\ \A t \in T : \A z \in Block : t \in succs[z] => copymap[z] \in T \union {x}
  <2>1. DOMAIN reachunder = 1 .. q
    BY <1>1, <1>4
  <2>2. \A k \in DOMAIN reachunder : reachunder[k] \in Block
    BY <1>4
  <2>3. \A t : t \in T <=> \E k \in DOMAIN reachunder : reachunder[k] = t
    BY DEF Range
  <2> HIDE DEF T
  <2> QED BY <2>1, <2>2, <2>3, <1>3
<1>6. /\ succs \in [Block -> SUBSET Block] /\ IsFiniteSet(Block) /\ 0 \in Block
      /\ \A b \in Block : dfnum[b] \in Nat /\ (dfnum[b] = dfnum[x] => b = x)
  BY <1>1, SearchFacts
<1>7. \A b \in Block : copymap[b] # b => dfnum[copymap[b]] >= xi
  BY <1>0 DEF CopyInv
<1>8. /\ \A t \in T : t \in N(x)
      /\ \A b \in Block : b \in N(copymap[b])
      /\ \A h \in Block : dfnum[h] >= xi => \A b \in N(h) \ {h} : copymap[b] # b
  BY DEF NaturalInv
<1>9. \A h \in Block :
        /\ h \in N(h) /\ N(h) \subseteq Block
        /\ \A b \in N(h) : \A p \in Block : b # h /\ b \in succs[p] => p \in N(h)
  BY <1>6, LoopFacts
<1> DEFINE G == UNION {N(t) : t \in T}
<1> HIDE DEF N, T
<1>10. \A b : b \in G <=> \E t \in T : b \in N(t)
  OBVIOUS
<1> HIDE DEF G
<1>11. N(x) \subseteq G \union {x}
  <2>1. ASSUME NEW u \in Block, IsBackEdge(succs, 0, u, x), u # x PROVE u \in G
    <3>1. u \in BackInto(x)
      BY <2>1, <1>1, BackFacts
    <3>2. copymap[u] \in T /\ u \in N(copymap[u])
      BY <3>1, <2>1, <1>3, <1>8
    <3> QED BY <3>2, <1>10
  <2>2. ASSUME NEW b \in G, NEW p \in Block, b \in succs[p] PROVE p = x \/ p \in G
    <3>1. PICK t \in T : b \in N(t)
      BY <1>10
    <3>2. CASE b # t
      <4>1. p \in N(t)
        BY <3>1, <3>2, <2>2, <1>5, <1>9
      <4> QED BY <4>1, <1>10
    <3>3. CASE b = t
      <4>1. copymap[p] \in T \union {x} /\ p \in N(copymap[p])
        BY <3>1, <3>3, <2>2, <1>5, <1>8
      <4>2. copymap[p] = x => p = x
        BY <1>1, <1>7
      <4> QED BY <4>1, <4>2, <1>10
    <3> QED BY <3>2, <3>3
  <2>3. NaturalLoop(succs, 0, x) \subseteq G \union {x}
    <3>1. Encloses(Block, succs, 0, x, G)
      BY <2>1, <2>2 DEF Encloses
    <3> QED BY <3>1, <1>1, <1>6, LoopWithin
  <2> QED BY <2>3 DEF N
<1>12. \A t \in T : dfnum[t] >= xi
  <2> SUFFICES ASSUME NEW t \in T PROVE dfnum[t] >= xi
    OBVIOUS
  <2>1. t # x /\ dfnum[x] <= dfnum[t] /\ t \in Block
    BY <1>3, <1>5 DEF Descends
  <2> QED BY <2>1, <1>1, <1>6
<1>13. ASSUME NEW h \in Block, dfnum[h] >= xi - 1, NEW b \in N(h) \ {h} PROVE copymap'[b] # b
  <2>1. b \in Block /\ copymap'[b] = IF b \in T THEN x ELSE copymap[b]
    BY <1>1, <1>9
  <2>2. b \in T => b # x
    BY <1>3
  <2>3. CASE dfnum[h] >= xi
    BY <2>1, <2>2, <2>3, <1>8, <1>13
  <2>4. CASE h = x
    <3>1. PICK t \in T : b \in N(t)
      BY <2>4, <1>10, <1>11, <1>13
    <3>2. CASE b = t
      BY <3>1, <3>2, <2>1, <2>2
    <3>3. CASE b # t
      <4>1. copymap[b] # b
        BY <3>1, <3>3, <1>5, <1>8, <1>12
      <4> QED BY <4>1, <2>1, <2>2
    <3> QED BY <3>2, <3>3
  <2> QED BY <2>3, <2>4, <1>1, <1>6, <1>13
<1>14. Clean'
  BY <1>1 DEF Clean
<1>15. \A b \in Block : b \in N(copymap'[b])
  BY <1>1, <1>8
<1>16. Range(reachunder') = {}
  BY <1>1 DEF Range
<1> QED BY <1>1, <1>2, <1>13, <1>14, <1>15, <1>16 DEF NaturalInv, N

\* structure_reset starts its walk only if the entry, and no other block, has no in edge.
LEMMA EntryFound ==
  ASSUME TreeTypes, StartTree
  PROVE  \A p \in Block : 0 \notin succs[p]
<1>1. graph \in Graph(Block, Labels) /\ 0 \in Block /\ IsFiniteSet(Block) /\ ReachableFrom(succs, {0}) = Block
  BY Blocks DEF TreeTypes, TypeOK
<1>2. succs \in [Block -> SUBSET Block]
  BY <1>1, SuccessorsType DEF succs
<1> DEFINE Bare1 == {b \in Block : graph.in[b] = << >>}
<1>3. ASSUME NEW b \in Block, b # 0 PROVE \E p \in Block : b \in succs[p]
  <2> SUFFICES ASSUME \A p \in Block : b \notin succs[p] PROVE FALSE
    OBVIOUS
  <2> DEFINE X == Block \ {b}
  <2>1. {0} \subseteq X /\ {0} \in SUBSET Block /\ \A p \in X : succs[p] \subseteq X
    BY <1>1, <1>2, <1>3
  <2> HIDE DEF X
  <2>2. Block \subseteq X
    BY <2>1, <1>1, <1>2, ReachableIsLeast
  <2> QED BY <2>2 DEF X
<1>4. Bare1 \subseteq {0}
  <2> SUFFICES ASSUME NEW b \in Block, graph.in[b] = << >>, b # 0 PROVE FALSE
    OBVIOUS
  <2>1. PICK p \in Block : b \in succs[p]
    BY <1>3
  <2>2. \E j \in 1 .. Len(graph.in[b]) : graph.in[b][j].point = p
    BY <2>1, Predecessors
  <2>3. Len(graph.in[b]) = 0
    OBVIOUS
  <2> QED BY <2>2, <2>3
<1>5. Bare1 # {}
  <2>1. Cardinality(Bare1) = 1
    BY DEF StartTree
  <2> HIDE DEF Bare1
  <2> QED BY <2>1, FS_EmptySet
<1>6. graph.in[0] = << >>
  BY <1>4, <1>5
<1> SUFFICES ASSUME NEW p \in Block, 0 \in succs[p] PROVE FALSE
  OBVIOUS
<1>7. \E j \in 1 .. Len(graph.in[0]) : graph.in[0][j].point = p
  BY <1>1, Predecessors
<1>8. Len(graph.in[0]) = 0
  BY <1>6
<1> QED BY <1>7, <1>8

(***************************************************************************)
(* The run of find_irreducible                                             *)
(***************************************************************************)
LEMMA WalkPlaced ==
  ASSUME Inv, PlacedInv, RetreatInv, NoWayBack, Next
  PROVE  PlacedInv' /\ RetreatInv' /\ NoWayBack'
<1>1. TreeInv /\ TreeTypes
  BY DEF Inv, TreeInv
<1>2. CASE StartTree
  <2>1. phase' = "tree" /\ succs' = succs
    BY <1>2 DEF StartTree, succs
  <2>2. NoWayBack'
    BY <2>1, <1>1, <1>2, EntryFound DEF NoWayBack
  <2>3. PlacedInv'
    BY <2>1 DEF PlacedInv
  <2> QED BY <2>2, <2>3, <1>1, <1>2, RetreatWalks
<1>3. CASE Discover \/ Classify \/ Finish
  <2>1. phase = "tree" /\ phase' = "tree" /\ succs' = succs
    <3>1. phase = "tree" /\ phase' = "tree"
      BY <1>3 DEF Discover, Classify, Finish, Take
    <3>2. TreeTypes /\ WalkInv
      BY <3>1, <1>1 DEF TreeInv
    <3>3. CASE Discover
      BY <3>1, <3>2, <3>3, DiscoverChanges, EdgeTaken
    <3>4. CASE Classify
      BY <3>1, <3>2, <3>4, ClassifyTaken, EdgeTaken
    <3>5. CASE Finish
      BY <3>1, <3>2, <3>5, FinishChanges
    <3> QED BY <3>1, <3>3, <3>4, <3>5, <1>3
  <2>2. NoWayBack' /\ PlacedInv'
    BY <2>1 DEF NoWayBack, PlacedInv
  <2> QED BY <2>2, <1>1, <1>3, RetreatWalks
<1>4. CASE StartLoops
  <2>1. EndTree("loop") /\ succs' = succs /\ phase = "tree" /\ phase' = "loop"
    BY <1>4 DEF StartLoops, EndTree, succs
  <2>2. NoWayBack'
    BY <2>1 DEF NoWayBack
  <2> QED BY <2>1, <2>2, <1>1, RetreatEnds
<1>5. CASE CollectSources \/ Expand \/ Collapse \/ StartDominators \/ Sweep \/ EndSweep
  <2>1. /\ UNCHANGED <<graph, edits, dfsvars>> /\ phase \notin {"edit", "tree"}
        /\ phase' \notin {"edit", "tree"}
    BY <1>5 DEF CollectSources, Expand, Collapse, StartDominators, Sweep, EndSweep, treevars
  <2>2. NoWayBack'
    BY <2>1 DEF NoWayBack, succs
  <2> QED BY <2>1, <2>2, RetreatStands
<1>6. CASE Edit
  <2>1. phase' = "edit"
    BY <1>6 DEF Edit, RemoveEdge
  <2> QED BY <2>1 DEF PlacedInv, RetreatInv, NoWayBack
<1> QED BY <1>2, <1>3, <1>4, <1>5, <1>6 DEF Next, Step

\* A first search starts with nothing merged and nothing found.
LEMMA LoopsStart ==
  ASSUME Inv, NoWayBack, StartLoops, PlacedInv', RetreatInv', NoWayBack', Inv'
  PROVE  LoopInv'
<1>1. /\ xi' = Cardinality(Block) /\ reachunder' = << >> /\ q' = 0 /\ mark' = {}
      /\ copymap' = [b \in Block |-> b] /\ irreducibles' = [b \in Block |-> {}]
      /\ loopheader' = [b \in Block |-> NONE] /\ loopheaders' = << >>
      /\ phase' = "loop" /\ graph' = graph /\ succs' = succs
  BY DEF StartLoops, EndTree, succs
<1>2. Cardinality(Block) \in Nat
  BY Blocks
<1>3. LoopTypes'
  BY <1>1, <1>2 DEF LoopTypes
<1>4. /\ succs \in [Block -> SUBSET Block] /\ IsFiniteSet(Block) /\ 0 \in Block
  <2>1. graph \in Graph(Block, Labels)
    BY DEF Inv, TreeInv, TreeTypes, TypeOK
  <2> QED BY <2>1, Blocks, SuccessorsType DEF succs
<1>5. \A h \in Block : ~(dfnum'[h] >= xi')
  <2>1. \A h \in Block : dfnum'[h] \in Nat /\ dfnum'[h] < Cardinality(Block)
    BY <1>1 DEF PlacedInv
  <2> QED BY <2>1, <1>1, <1>2
<1>6. CollectTypes'
  BY <1>1 DEF CollectTypes
<1>7. CopyInv'
  <2>1. \A b \in Block : b \in Dominators(succs, 0, b)
    BY <1>4, DominatorRules
  <2>2. Range(<< >>) = {}
    BY DEF Range
  <2> QED BY <2>1, <2>2, <1>1, <1>5 DEF CopyInv
<1>8. UnderInv' /\ Clean'
  BY <1>1 DEF UnderInv, Clean
<1>9. NaturalInv'
  <2>1. \A b \in Block : b \in NaturalLoop(succs, 0, b)
    BY <1>4, LoopFacts
  <2>2. Range(<< >>) = {}
    BY DEF Range
  <2> QED BY <2>1, <2>2, <1>1, <1>5 DEF NaturalInv
<1> QED BY <1>3, <1>6, <1>7, <1>8, <1>9 DEF LoopInv, Sound

\* The search leaves its work list, its numbers and its findings well formed.
LEMMA LoopTyped ==
  ASSUME Searching, LoopTypes, CollectSources \/ Expand \/ Collapse
  PROVE  LoopTypes' /\ (Clean' => Clean)
<1>1. xi \in Nat /\ xi <= Cardinality(Block) /\ Cardinality(Block) \in Nat /\ q \in Nat
  BY SearchFacts DEF LoopTypes
<1>2. CASE CollectSources
  <2>1. /\ xi > 0 /\ q' = 0 /\ irreducibles' = irreducibles /\ reachunder = << >>
        /\ xi' = xi \/ (xi' = xi - 1 /\ reachunder' = reachunder)
    BY <1>2 DEF CollectSources
  <2>2. xi' \in 0 .. Cardinality(Block) /\ (reachunder' # << >> => xi' > 0)
    BY <2>1, <1>1
  <2> QED BY <2>1, <2>2 DEF LoopTypes, Clean
<1>3. CASE Expand
  <2> DEFINE acc == PullSources(graph.in[reachunder[q + 1]])
  <2>1. /\ q < Len(reachunder) /\ xi' = xi /\ q' = q + 1
        /\ irreducibles' = [irreducibles EXCEPT ![x] = @ \union acc.entries]
    BY <1>3 DEF Expand
  <2> HIDE DEF acc
  <2>2. reachunder # << >>
    BY <2>1, <1>1
  <2>3. xi' > 0
    BY <2>1, <2>2 DEF LoopTypes
  <2>4. /\ irreducibles' = [b \in Block |-> irreducibles'[b]]
        /\ \A b \in Block : irreducibles[b] \subseteq irreducibles'[b]
    <3>1. irreducibles = [b \in Block |-> irreducibles[b]]
      BY DEF LoopTypes
    <3> QED BY <3>1, <2>1
  <2>5. LoopTypes'
    BY <2>1, <2>3, <2>4, <1>1 DEF LoopTypes
  <2> QED BY <2>4, <2>5 DEF Clean
<1>4. CASE Collapse
  <2>1. /\ xi > 0 /\ xi' = xi - 1 /\ reachunder' = << >> /\ q' = q /\ irreducibles' = irreducibles
    BY <1>4, LoopCollapsed
  <2>2. xi' \in 0 .. Cardinality(Block)
    BY <2>1, <1>1
  <2> QED BY <2>1, <2>2, <1>1 DEF LoopTypes, Clean
<1> QED BY <1>2, <1>3, <1>4

\* Each step of the search keeps what it relies on.
LEMMA LoopsGoOn ==
  ASSUME Searching, LoopInv, CollectSources \/ Expand \/ Collapse
  PROVE  LoopInv'
<1>1. phase = "loop" /\ UNCHANGED treevars
  BY DEF CollectSources, Expand, Collapse
<1>2. /\ LoopTypes
      /\ edits = 0 /\ Clean => Sound
      /\ edits = 0 /\ Reducible(succs, 0) => Clean /\ NaturalInv
  BY <1>1 DEF LoopInv
<1>3. phase' = phase /\ edits' = edits /\ succs' = succs
  BY <1>1, SearchStands
<1>4. LoopTypes' /\ (Clean' => Clean)
  BY <1>2, LoopTyped
<1>5. ASSUME edits = 0, Clean' PROVE Sound'
  <2>1. Clean /\ Sound
    BY <1>2, <1>4, <1>5
  <2> QED BY <2>1, <1>2, <1>5, CollectSound, ExpandSound, CollapseSound
<1>6. ASSUME edits = 0, Reducible(succs, 0) PROVE Clean' /\ NaturalInv'
  <2>1. Clean /\ Sound /\ NaturalInv
    BY <1>2, <1>6
  <2> QED BY <2>1, <1>2, <1>6, CollectNatural, ExpandNatural, CollapseNatural
<1> QED BY <1>3, <1>4, <1>5, <1>6 DEF LoopInv

\* When every header has had its turn, the loops have been found.
LEMMA LoopsEnd ==
  ASSUME Searching, LoopInv, StartDominators
  PROVE  LoopsFound'
<1>1. /\ phase = "loop" /\ xi = 0 /\ phase' = "dominators"
      /\ UNCHANGED <<graph, edits, dfsvars, irreducibles, loopheader, loopheaders>>
  BY DEF StartDominators
<1>2. succs' = succs /\ Headers' = Headers /\ \A b : BackInto(b)' = BackInto(b) /\ LoopsAround(b)' = LoopsAround(b)
  BY <1>1 DEF succs, Headers, BackInto, LoopsAround
<1>3. /\ LoopTypes
      /\ edits = 0 /\ Clean => Sound
      /\ edits = 0 /\ Reducible(succs, 0) => Clean /\ NaturalInv
  BY <1>1 DEF LoopInv
<1>4. /\ succs \in [Block -> SUBSET Block] /\ IsFiniteSet(Block) /\ 0 \in Block /\ NONE \notin Block
      /\ \A b \in Block : dfnum[b] >= xi
  <2>1. \A b \in Block : dfnum[b] \in Nat
    BY SearchFacts
  <2> QED BY <2>1, <1>1, SearchFacts, Blocks DEF NONE
<1>5. reachunder = << >>
  BY <1>1, <1>3 DEF LoopTypes
<1>6. ASSUME edits = 0, Clean, NEW h \in Block, NEW y \in BackInto(h) PROVE h \in Dominators(succs, 0, y)
  BY <1>3, <1>4, <1>6 DEF Sound, CopyInv
<1>7. ASSUME edits = 0, Reducible(succs, 0)
      PROVE  /\ Clean /\ Range(loopheaders) = Headers
             /\ \A b \in Block : /\ loopheader[b] # NONE => loopheader[b] \in LoopsAround(b)
                                 /\ LoopsAround(b) # {} => loopheader[b] # NONE
  <2>1. Clean /\ NaturalInv /\ CollectTypes /\ CopyInv
    BY <1>3, <1>7 DEF Sound
  <2>2. \A h : h \in Headers <=> h \in Block /\ \E u \in Block : IsBackEdge(succs, 0, u, h)
    BY DEF Headers
  <2>3. \A h \in Block : h \in Headers <=> BackInto(h) # {}
    BY <2>2, <1>7, BackFacts
  <2>4. Range(loopheaders) \subseteq Block
    BY <2>1 DEF CollectTypes, Range
  <2>5. Range(loopheaders) = Headers
    <3>1. \A h \in Block : h \in Range(loopheaders) <=> BackInto(h) # {}
      BY <2>1, <1>4, <1>5 DEF CopyInv
    <3> QED BY <3>1, <2>2, <2>3, <2>4
  <2>6. \A b, h : h \in LoopsAround(b) <=> h \in Headers /\ h # b /\ b \in NaturalLoop(succs, 0, h)
    BY DEF LoopsAround
  <2>7. ASSUME NEW b \in Block
        PROVE  /\ loopheader[b] # NONE => loopheader[b] \in LoopsAround(b)
               /\ LoopsAround(b) # {} => loopheader[b] # NONE
    <3> DEFINE c == copymap[b]
    <3>1. c \in Block /\ loopheader[b] = IF c = b THEN NONE ELSE c
      BY <2>1 DEF CollectTypes
    <3>2. b \in NaturalLoop(succs, 0, c) /\ \A h \in Block : b \in NaturalLoop(succs, 0, h) \ {h} => c # b
      BY <2>1, <1>4 DEF NaturalInv
    <3> HIDE DEF c
    <3>3. ASSUME c # b PROVE c \in LoopsAround(b)
      <4>1. c \in Headers
        <5> SUFFICES ASSUME \A u \in Block : ~IsBackEdge(succs, 0, u, c) PROVE FALSE
          BY <2>2, <3>1
        <5>1. \A u \in Block : ~IsBackEdge(succs, 0, u, c)
          OBVIOUS
        <5>2. /\ succs \in [Block -> SUBSET Block] /\ IsFiniteSet(Block)
              /\ 0 \in Block /\ c \in Block
          BY <3>1, <1>4
        <5>3. Encloses(Block, succs, 0, c, {})
          BY <5>1 DEF Encloses
        <5>4. NaturalLoop(succs, 0, c) \subseteq {} \union {c}
          BY ONLY <5>2, <5>3, LoopWithin
        <5> QED BY <5>4, <3>2, <3>3
      <4> QED BY <4>1, <3>2, <3>3, <2>6
    <3>4. ASSUME NEW h \in LoopsAround(b) PROVE c # b
      BY <3>2, <2>2, <2>6
    <3> QED BY <3>1, <3>3, <3>4, <1>4
  <2> QED BY <2>1, <2>5, <2>7
<1>8. Clean' <=> Clean
  BY <1>1 DEF Clean
<1> QED BY <1>1, <1>2, <1>6, <1>7, <1>8 DEF LoopsFound

\* The dominators are looked for without a change to the loops.
LEMMA LoopsStay ==
  ASSUME LoopsFound, phase \in {"dominators", "done"},
         UNCHANGED <<graph, edits, irreducibles, loopheader, loopheaders>>
  PROVE  LoopsFound'
<1>1. /\ succs' = succs /\ Headers' = Headers /\ (Clean' <=> Clean)
      /\ \A b : BackInto(b)' = BackInto(b) /\ LoopsAround(b)' = LoopsAround(b)
  BY DEF succs, Headers, Clean, BackInto, LoopsAround
<1> QED BY <1>1 DEF LoopsFound

\* Every step of structure_reset keeps the invariant of the search.
LEMMA SearchSteps ==
  ASSUME ResetInv, Next
  PROVE  ResetInv'
<1>1. Inv /\ PlacedInv /\ RetreatInv /\ NoWayBack /\ LoopInv /\ LoopsFound
  BY DEF ResetInv
<1>2. Inv' /\ PlacedInv' /\ RetreatInv' /\ NoWayBack'
  <2>1. Inv'
    BY <1>1, ResetSteps
  <2> QED BY <2>1, <1>1, WalkPlaced
<1>3. phase \notin {"edit", "tree"} => Searching
  BY <1>1 DEF Inv, Searching
<1>4. CASE (StartTree \/ Discover \/ Classify \/ Finish) \/ Edit
  <2>1. phase' \in {"edit", "tree"}
    BY <1>4 DEF StartTree, Discover, Classify, Finish, Take, Edit, RemoveEdge
  <2> QED BY <2>1, <1>2 DEF ResetInv, LoopInv, LoopsFound
<1>5. CASE StartLoops
  <2>1. phase' = "loop"
    BY <1>5 DEF StartLoops, EndTree
  <2>2. LoopInv'
    BY <1>1, <1>2, <1>5, LoopsStart
  <2> QED BY <2>1, <2>2, <1>2 DEF ResetInv, LoopsFound
<1>6. CASE CollectSources \/ Expand \/ Collapse
  <2>1. phase = "loop" /\ phase' = "loop"
    BY <1>6 DEF CollectSources, Expand, Collapse, treevars
  <2>2. LoopInv'
    BY <2>1, <1>1, <1>3, <1>6, LoopsGoOn
  <2> QED BY <2>1, <2>2, <1>2 DEF ResetInv, LoopsFound
<1>7. CASE StartDominators
  <2>1. phase = "loop" /\ phase' = "dominators"
    BY <1>7 DEF StartDominators
  <2>2. LoopsFound'
    BY <2>1, <1>1, <1>3, <1>7, LoopsEnd
  <2> QED BY <2>1, <2>2, <1>2 DEF ResetInv, LoopInv
<1>8. CASE Sweep \/ EndSweep
  <2>1. /\ phase = "dominators" /\ phase' \in {"dominators", "done"}
        /\ UNCHANGED <<graph, edits, irreducibles, loopheader, loopheaders>>
    BY <1>8 DEF Sweep, EndSweep, treevars, loopvars
  <2>2. LoopsFound'
    BY <2>1, <1>1, LoopsStay
  <2> QED BY <2>1, <2>2, <1>2 DEF ResetInv, LoopInv
<1> QED BY <1>4, <1>5, <1>6, <1>7, <1>8 DEF Next, Step

\* So does a step that changes nothing.
LEMMA SearchStutters ==
  ASSUME ResetInv, UNCHANGED vars
  PROVE  ResetInv'
<1>1. Inv'
  BY ResetSteps DEF ResetInv
<1>2. UNCHANGED treevars /\ UNCHANGED loopvars
  BY DEF vars
<1>3. /\ graph' = graph /\ succs' = succs /\ dfnum' = dfnum /\ index' = index /\ numdesc' = numdesc
      /\ preorder' = preorder /\ edits' = edits /\ phase' = phase /\ visitcount' = visitcount
      /\ \A b : BackInto(b)' = BackInto(b)
      /\ \A b, c : Descends(c, b)' <=> Descends(c, b)
  BY <1>2, SearchStands DEF treevars, dfsvars
<1>4. /\ xi' = xi /\ reachunder' = reachunder /\ q' = q /\ mark' = mark /\ copymap' = copymap
      /\ irreducibles' = irreducibles /\ loopheader' = loopheader /\ loopheaders' = loopheaders
      /\ x' = x /\ Black' = Black
  BY <1>2, <1>3 DEF loopvars, x, Black
<1>5. PlacedInv' /\ RetreatInv' /\ NoWayBack'
  BY <1>3, <1>4 DEF ResetInv, PlacedInv, RetreatInv, Retreats, NoWayBack
<1>6. (Clean' <=> Clean) /\ (CollectTypes => CollectTypes') /\ (LoopTypes => LoopTypes')
  BY <1>3, <1>4 DEF Clean, CollectTypes, LoopTypes
<1>7. (CopyInv => CopyInv') /\ (NaturalInv => NaturalInv')
  BY <1>3, <1>4 DEF CopyInv, NaturalInv
<1>8. UnderInv => UnderInv'
  BY <1>3, <1>4 DEF UnderInv
<1>9. LoopInv'
  BY <1>3, <1>6, <1>7, <1>8 DEF ResetInv, LoopInv, Sound
<1>10. LoopsFound'
  <2>1. Headers' = Headers /\ \A b : LoopsAround(b)' = LoopsAround(b)
    BY <1>3 DEF Headers, LoopsAround
  <2> QED BY <2>1, <1>3, <1>4, <1>6 DEF ResetInv, LoopsFound
<1> QED BY <1>1, <1>5, <1>9, <1>10 DEF ResetInv

\* The inductive invariant of structure_reset with its search for loops.
LEMMA SearchInvariant == Spec => []ResetInv
<1>1. Init => ResetInv
  <2> SUFFICES ASSUME Init PROVE ResetInv
    OBVIOUS
  <2>1. phase = "edit"
    BY DEF Init, TreeInit, TreeInitOf
  <2> QED BY <2>1, ResetStarts DEF ResetInv, PlacedInv, RetreatInv, NoWayBack, LoopInv, LoopsFound
<1>2. ResetInv /\ [Next]_vars => ResetInv'
  BY SearchSteps, SearchStutters
<1> QED BY <1>1, <1>2, PTL DEF Spec

\* find_irreducible (block.cc) finds an entry beside the header of some loop exactly when the
\* graph is irreducible, whatever the graph: the passes that take a loop without irreducibles
\* for a natural loop are right to.
THEOREM IrreducibleExact == Spec => []IrreducibleFound
<1>1. ASSUME ResetInv PROVE IrreducibleFound
  <2> SUFFICES ASSUME phase = "done", edits = 0 PROVE Reducible(succs, 0) <=> Clean
    BY DEF IrreducibleFound, Done, Clean
  <2>1. Searching /\ TreeTypes /\ Numbered /\ RetreatInv /\ LoopsFound
    BY <1>1 DEF ResetInv, Inv, TreeInv, Searching
  <2>2. /\ Clean => \A h \in Block : \A y \in BackInto(h) : h \in Dominators(succs, 0, y)
        /\ Reducible(succs, 0) => Clean
    BY <2>1 DEF LoopsFound
  <2>3. /\ succs \in [Block -> SUBSET Block] /\ IsFiniteSet(Block) /\ 0 \in Block
        /\ \A b \in Block : index[b] \in Nat /\ dfnum[b] \in Nat /\ b \in Black
    <3>1. \A b \in Block : index[b] \in Nat
      BY <2>1, SearchFacts
    <3> QED BY <3>1, <2>1, SearchFacts DEF Black
  <2>4. ASSUME Clean PROVE Reducible(succs, 0)
    <3>1. ASSUME NEW u \in Block, NEW v \in succs[u]
          PROVE  IsBackEdge(succs, 0, u, v) \/ index[u] < index[v]
      <4>1. v \in Block
        BY <2>3
      <4>2. PICK i \in DOMAIN graph.out[u] : graph.out[u][i].point = v
        <5>1. graph \in Graph(Block, Labels)
          BY <2>1 DEF TreeTypes, TypeOK
        <5>2. \A c \in Successors(graph)[u] : \E i \in DOMAIN graph.out[u] : graph.out[u][i].point = c
          BY <5>1, GraphOf
        <5> QED BY <5>2 DEF succs
      <4>3. CASE back \in graph.out[u][i].label
        <5>1. u \in BackInto(v)
          BY <4>1, <4>2, <4>3, <2>1, BackFacts
        <5> QED BY <5>1, <4>1, <2>2, <2>4 DEF IsBackEdge
      <4>4. CASE back \notin graph.out[u][i].label
        <5>1. Retreats(u, i)
          BY <2>1 DEF RetreatInv
        <5>2. dfnum[u] < dfnum[v] \/ index[u] < index[v]
          BY <5>1, <4>1, <4>2, <4>4, <2>3 DEF Retreats
        <5>3. index[u] < index[v] \/ dfnum[v] <= dfnum[u]
          BY <2>1 DEF Numbered, Descends
        <5> QED BY <5>2, <5>3, <4>1, <2>3
      <4> QED BY <4>3, <4>4
    <3> QED BY <3>1, <2>3, NumberedReducible
  <2> QED BY <2>2, <2>4
<1> QED BY <1>1, SearchInvariant, PTL

\* On every reducible graph the headers find_irreducible lists are the targets of the back
\* edges, and a block has a loopheader exactly when a natural loop lies around it, which is
\* then the loop of that header.
THEOREM LoopsCorrect == Spec => []LoopMembership
<1>1. ASSUME ResetInv PROVE LoopMembership
  BY <1>1 DEF ResetInv, LoopsFound, LoopMembership, Done
<1> QED BY <1>1, SearchInvariant, PTL

(***************************************************************************)
(* calc_post_dominator.  The invariant of its walk: what it has reached,   *)
(* in which order, and over which edges.                                   *)
(***************************************************************************)
\* The reversed graph; the walk never takes the entry for a block it has not met.
Before == [b \in AllBlocks |-> Range(Ins(b)) \ {0}]

Calling == Range(poststate)
Returned == Range(postorder)
Called == Calling \union Returned

\* The calls that have not returned are a path from exit.
CallingInv ==
  /\ poststate \in Seq(AllBlocks) /\ IsInjective(poststate)
  /\ poststate # << >> => poststate[1] = exit
  /\ \A k \in DOMAIN poststate : k > 1 => poststate[k] \in Before[poststate[k - 1]]

\* The others are in the order of their return; but for exit, a call was made by one that
\* returns later.
ReturnedInv ==
  /\ postorder \in Seq(AllBlocks) /\ IsInjective(postorder)
  /\ Calling \intersect Returned = {}
  /\ poststate = << >> => postorder # << >> /\ postorder[Len(postorder)] = exit
  /\ \A i \in DOMAIN postorder :
       /\ rindex[postorder[i]] = i
       /\ \/ postorder[i] = exit
          \/ \E p \in Called : postorder[i] \in Before[p] /\ (p \in Returned => rindex[p] > i)

\* The in edges taken lead to blocks that have been met, or to the entry.
TakenInv ==
  /\ postcount \in [AllBlocks -> Nat]
  /\ \A b \in AllBlocks \ Called : postcount[b] = 0
  /\ \A b \in Called : \A i \in DOMAIN Ins(b) : i <= postcount[b] => Ins(b)[i] \in Called \union {0}
  /\ \A b \in Returned : postcount[b] >= Len(Ins(b))

WithinInv == exit \in Called /\ 0 \notin Called /\ Called \subseteq ReachableFrom(Before, {exit})

PostWalkInv == CallingInv /\ ReturnedInv /\ TakenInv /\ WithinInv

\* The sweeps: the blocks met, their in edges, their order, and what has been found.
PostSuccs == [b \in Returned |-> Before[b]]
PostRank == [b \in Returned |-> Len(postorder) - rindex[b]]
PostIdoms == [b \in Returned |-> post_immed_dom[b]]
PostKnown == Having(Returned, PostIdoms)

PostClimbInv == Climbs(Returned, PostSuccs, exit, PostRank, PostIdoms)

PostSweptInv ==
  /\ posti \in 0 .. Len(postorder) - 1
  /\ postchanged \in BOOLEAN
  /\ \A n \in posti + 1 .. Len(postorder) :
       /\ postorder[n] \in PostKnown
       /\ n < Len(postorder) /\ ~postchanged =>
            \/ post_immed_dom[postorder[n]] = exit
            \/ post_immed_dom[postorder[n]] = NewPostIdom(postorder[n])

\* The blocks that the walk has missed.
MissedInv ==
  \A b \in AllBlocks \ Returned :
    IF b \in Range(exitlist) THEN post_immed_dom[b] = exit ELSE calls = 0 => post_immed_dom[b] = NONE

\* What stays from call to call.
PostTypes ==
  /\ post \in {"none", "walk", "sweep", "lost", "done"} /\ calls \in Nat
  /\ post_immed_dom \in [AllBlocks -> AllBlocks \union {NONE}]
  /\ rindex \in [AllBlocks -> Nat]
  /\ post # "none" => Done

\* The entry, which nothing leads to, gets a post_immed_dom only in a function of one block.
EntryInv ==
  /\ NoWayBack
  /\ post_immed_dom[0] # NONE => Block = {0}

FreshInv ==
  calls = 0 =>
    /\ post \in {"none", "walk", "sweep"}
    /\ post # "sweep" => \A b \in AllBlocks : post_immed_dom[b] = NONE

PostInv ==
  /\ Inv /\ PostTypes /\ EntryInv /\ FreshInv
  /\ post \in {"walk", "sweep"} => PostWalkInv
  /\ post = "sweep" => poststate = << >> /\ PostClimbInv /\ PostSweptInv /\ MissedInv
  /\ PostDominatorsExact

LEMMA AllBlocksFacts ==
  /\ IsFiniteSet(AllBlocks) /\ Block \subseteq AllBlocks /\ exit \in AllBlocks /\ exit \notin Block
  /\ 0 \in Block /\ exit # 0 /\ NONE \notin AllBlocks /\ exit \in Nat
  /\ \A b \in AllBlocks : b # exit => b \in Block
<1>1. exit \notin Block /\ exit \in Nat /\ exit # 0 /\ 0 \in Block
  BY Blocks DEF exit
<1>2. IsFiniteSet({exit}) /\ IsFiniteSet(Block)
  BY Blocks, FS_Singleton
<1>3. IsFiniteSet(AllBlocks)
  BY <1>2, FS_Union DEF AllBlocks
<1>4. NONE \notin AllBlocks
  BY <1>1, Blocks DEF AllBlocks, NONE
<1> QED BY <1>1, <1>3, <1>4 DEF AllBlocks

\* The lists that get_in and get_out of a block yield.
LEMMA InsAndOuts ==
  ASSUME TreeTypes, ExitInv, phase # "edit"
  PROVE  /\ \A b \in AllBlocks : Ins(b) \in Seq(Block)
         /\ \A b \in Block : /\ Len(Outs(b)) \in Nat /\ DOMAIN Outs(b) = 1 .. Len(Outs(b))
                             /\ Range(Outs(b)) \subseteq AllBlocks
         /\ \A b \in Block, p \in AllBlocks : b \in Range(Ins(p)) <=> p \in Range(Outs(b))
         /\ \A b \in Block : Range(Outs(b)) = IF b \in Range(exitlist) THEN {exit} ELSE succs[b]
<1>1. /\ graph \in Graph(Block, Labels)
      /\ exitlist \in Seq(Block) /\ Range(exitlist) = {b \in Block : graph.out[b] = << >>}
  BY DEF TreeTypes, TypeOK, ExitInv
<1>2. ASSUME NEW b \in Block
      PROVE  /\ Ins(b) \in Seq(Block) /\ DOMAIN Ins(b) = DOMAIN graph.in[b]
             /\ \A i \in DOMAIN graph.in[b] : Ins(b)[i] = graph.in[b][i].point
  <2>1. Ins(b) = [i \in DOMAIN graph.in[b] |-> graph.in[b][i].point]
    BY AllBlocksFacts DEF Ins
  <2>2. Len(graph.in[b]) \in Nat /\ DOMAIN graph.in[b] = 1 .. Len(graph.in[b])
        /\ \A i \in DOMAIN graph.in[b] : graph.in[b][i].point \in Block
    BY Predecessors
  <2> QED BY <2>1, <2>2
<1>3. Ins(exit) = exitlist
  BY DEF Ins
<1>4. \A b \in AllBlocks : Ins(b) \in Seq(Block)
  BY <1>1, <1>2, <1>3, AllBlocksFacts
<1>5. \A b \in Block : \A c \in Range(exitlist) : b = c => succs[b] = {}
  <2> SUFFICES ASSUME NEW b \in Block, graph.out[b] = << >> PROVE succs[b] = {}
    BY <1>1
  <2> QED BY DEF succs, Successors
<1>6. ASSUME NEW b \in Block
      PROVE  /\ Len(Outs(b)) \in Nat /\ DOMAIN Outs(b) = 1 .. Len(Outs(b))
             /\ Range(Outs(b)) = IF b \in Range(exitlist) THEN {exit} ELSE succs[b]
  <2>1. CASE b \in Range(exitlist)
    <3>1. Outs(b) = <<exit>>
      BY <2>1 DEF Outs
    <3> QED BY <2>1, <3>1 DEF Range
  <2>2. CASE b \notin Range(exitlist)
    <3>1. Outs(b) = [i \in DOMAIN graph.out[b] |-> graph.out[b][i].point]
      BY <2>2 DEF Outs
    <3>2. DOMAIN graph.out[b] = 1 .. Len(graph.out[b]) /\ Len(graph.out[b]) \in Nat
      BY <1>1, GraphOf
    <3>3. Len(Outs(b)) = Len(graph.out[b]) /\ DOMAIN Outs(b) = 1 .. Len(graph.out[b])
      BY <3>1, <3>2
    <3>4. Range(Outs(b)) = {graph.out[b][i].point : i \in DOMAIN graph.out[b]}
      BY <3>1 DEF Range
    <3>5. succs[b] = {graph.out[b][i].point : i \in DOMAIN graph.out[b]}
      BY DEF succs, Successors
    <3> QED BY <2>2, <3>2, <3>3, <3>4, <3>5
  <2> QED BY <2>1, <2>2
<1>7. succs \in [Block -> SUBSET Block]
  BY <1>1, SuccessorsType DEF succs
<1>8. \A b \in Block : Range(Outs(b)) \subseteq AllBlocks
  BY <1>6, <1>7, AllBlocksFacts
<1>9. ASSUME NEW b \in Block, NEW p \in AllBlocks PROVE b \in Range(Ins(p)) <=> p \in Range(Outs(b))
  <2>1. CASE p = exit
    <3>1. exit \notin succs[b]
      BY <1>7, AllBlocksFacts
    <3> QED BY <2>1, <3>1, <1>3, <1>6
  <2>2. CASE p # exit
    <3>1. p \in Block
      BY <2>2, AllBlocksFacts
    <3>2. b \in Range(Ins(p)) => p \in succs[b]
      <4> SUFFICES ASSUME b \in Range(Ins(p)) PROVE p \in succs[b]
        OBVIOUS
      <4>1. PICK i \in DOMAIN graph.in[p] : graph.in[p][i].point = b
        BY <3>1, <1>2 DEF Range
      <4> QED BY <4>1, <3>1, Predecessors
    <3>3. p \in succs[b] => b \in Range(Ins(p))
      <4> SUFFICES ASSUME p \in succs[b] PROVE b \in Range(Ins(p))
        OBVIOUS
      <4>1. PICK i \in DOMAIN graph.in[p] : graph.in[p][i].point = b
        BY <3>1, Predecessors
      <4> QED BY <4>1, <3>1, <1>2 DEF Range
    <3> QED BY <2>2, <3>2, <3>3, <1>5, <1>6
  <2> QED BY <2>1, <2>2
<1> QED BY <1>4, <1>6, <1>8, <1>9

\* The reversed graph; no in edge leads the walk on from the entry.
LEMMA BeforeFacts ==
  ASSUME TreeTypes, ExitInv, EntryInv, phase # "edit"
  PROVE  /\ Before \in [AllBlocks -> SUBSET AllBlocks]
         /\ \A b \in AllBlocks : Before[b] = Range(Ins(b)) \ {0} /\ Before[b] \subseteq Block
         /\ Ins(0) = << >>
<1>1. \A b \in AllBlocks : Ins(b) \in Seq(Block) /\ Range(Ins(b)) \subseteq Block
  BY InsAndOuts DEF Range
<1>2. Before \in [AllBlocks -> SUBSET AllBlocks] /\ \A b \in AllBlocks : Before[b] = Range(Ins(b)) \ {0}
  BY <1>1, AllBlocksFacts DEF Before
<1>3. Ins(0) = << >>
  <2> SUFFICES ASSUME Ins(0) # << >> PROVE FALSE
    OBVIOUS
  <2>1. Ins(0) = [i \in DOMAIN graph.in[0] |-> graph.in[0][i].point]
    BY AllBlocksFacts DEF Ins
  <2>2. 1 \in DOMAIN Ins(0)
    BY <1>1, AllBlocksFacts, EmptySeq
  <2>3. \A j \in DOMAIN graph.in[0] : graph.in[0][j].point \in Block /\ 0 \in succs[graph.in[0][j].point]
    BY Predecessors, Blocks
  <2> QED BY <2>1, <2>2, <2>3 DEF EntryInv, NoWayBack
<1> QED BY <1>1, <1>2, <1>3

LEMMA MarksDiffer ==
  ASSUME TreeTypes, Numbered
  PROVE  /\ MarkOf(exit) = 0 /\ MarkOf(0) = 0
         /\ \A b, c \in Block : MarkOf(b) = MarkOf(c) => b = c
<1>1. MarkOf(exit) = 0
  BY DEF MarkOf, exitindex
<1>2. \A b \in Block : MarkOf(b) = index[b]
  BY AllBlocksFacts DEF MarkOf
<1> QED BY <1>1, <1>2, Order

LEMMA PostGraphSame ==
  ASSUME UNCHANGED vars
  PROVE  /\ \A b : Ins(b)' = Ins(b) /\ Outs(b)' = Outs(b) /\ MarkOf(b)' = MarkOf(b)
         /\ Before' = Before
<1>1. graph' = graph /\ exitlist' = exitlist /\ index' = index
  BY DEF vars, treevars, dfsvars
<1>2. \A b : Ins(b)' = Ins(b) /\ Outs(b)' = Outs(b) /\ MarkOf(b)' = MarkOf(b)
  BY <1>1 DEF Ins, Outs, MarkOf
<1> QED BY <1>2 DEF Before

(***************************************************************************)
(* The walk of calc_post_dominator                                         *)
(***************************************************************************)
LEMMA PostWalkStarts ==
  ASSUME TreeTypes, ExitInv, EntryInv, phase # "edit", StartPost
  PROVE  PostWalkInv'
<1>1. /\ poststate' = <<exit>> /\ postorder' = << >> /\ postcount' = [b \in AllBlocks |-> 0]
      /\ \A b : Ins(b)' = Ins(b) /\ Before' = Before
  BY PostGraphSame DEF StartPost
<1>2. Calling' = {exit} /\ Returned' = {} /\ Called' = {exit}
  <2>1. Calling' = {exit} /\ Returned' = {}
    BY <1>1 DEF Calling, Returned, Range
  <2> QED BY <2>1 DEF Called
<1>3. exit \in AllBlocks /\ 0 # exit
  BY AllBlocksFacts
<1>4. CallingInv'
  <2>1. <<exit>> \in Seq(AllBlocks) /\ IsInjective(<<exit>>) /\ DOMAIN <<exit>> = {1}
    BY <1>3 DEF IsInjective
  <2> QED BY <2>1, <1>1 DEF CallingInv
<1>5. ReturnedInv'
  <2>1. << >> \in Seq(AllBlocks) /\ IsInjective(<< >>) /\ DOMAIN << >> = {}
    BY DEF IsInjective
  <2>2. <<exit>> # << >>
    OBVIOUS
  <2> QED BY <2>1, <2>2, <1>1, <1>2 DEF ReturnedInv
<1>6. TakenInv'
  <2>1. \A i \in DOMAIN Ins(exit) : ~(i <= 0)
    <3>1. Ins(exit) \in Seq(Block)
      BY <1>3, InsAndOuts
    <3> QED BY <3>1
  <2> QED BY <2>1, <1>1, <1>2, <1>3 DEF TakenInv
<1>7. WithinInv'
  <2>1. {exit} \subseteq ReachableFrom(Before, {exit})
    <3>1. Before \in [AllBlocks -> SUBSET AllBlocks] /\ IsFiniteSet(AllBlocks) /\ {exit} \in SUBSET AllBlocks
      BY BeforeFacts, AllBlocksFacts
    <3> QED BY <3>1, ReachableIsLeast
  <2> QED BY <2>1, <1>1, <1>2, <1>3 DEF WithinInv
<1> QED BY <1>4, <1>5, <1>6, <1>7 DEF PostWalkInv

\* The call that is on top, and the in edge it is at.
LEMMA TopCall ==
  ASSUME TreeTypes, ExitInv, EntryInv, phase # "edit", PostWalkInv, poststate # << >>
  PROVE  /\ Len(poststate) \in Nat /\ Len(poststate) > 0 /\ DOMAIN poststate = 1 .. Len(poststate)
         /\ reached = poststate[Len(poststate)] /\ reached \in Calling /\ reached \in AllBlocks
         /\ Called \subseteq AllBlocks /\ postcount[reached] \in Nat
         /\ Len(Ins(reached)) \in Nat /\ DOMAIN Ins(reached) = 1 .. Len(Ins(reached))
         /\ postcount[reached] < Len(Ins(reached)) =>
              /\ postcount[reached] + 1 \in DOMAIN Ins(reached)
              /\ source \in Block /\ source \in AllBlocks
              /\ source # 0 => source \in Before[reached]
<1>1. poststate \in Seq(AllBlocks) /\ postorder \in Seq(AllBlocks) /\ postcount \in [AllBlocks -> Nat]
  BY DEF PostWalkInv, CallingInv, ReturnedInv, TakenInv
<1>2. /\ Len(poststate) \in Nat /\ Len(poststate) > 0 /\ DOMAIN poststate = 1 .. Len(poststate)
      /\ reached = poststate[Len(poststate)] /\ reached \in AllBlocks
  BY <1>1, LastOf DEF reached
<1>3. reached \in Calling /\ Called \subseteq AllBlocks
  <2>1. Len(poststate) \in DOMAIN poststate
    BY <1>2
  <2>2. reached \in Range(poststate)
    BY <2>1, <1>2 DEF Range
  <2>3. Range(poststate) \subseteq AllBlocks /\ Range(postorder) \subseteq AllBlocks
    BY <1>1 DEF Range
  <2> QED BY <2>2, <2>3 DEF Calling, Called, Returned
<1>4. Ins(reached) \in Seq(Block)
  BY <1>2, InsAndOuts
<1>5. Len(Ins(reached)) \in Nat /\ DOMAIN Ins(reached) = 1 .. Len(Ins(reached)) /\ postcount[reached] \in Nat
  BY <1>1, <1>2, <1>4
<1>6. ASSUME postcount[reached] < Len(Ins(reached))
      PROVE  /\ postcount[reached] + 1 \in DOMAIN Ins(reached)
             /\ source \in Block /\ source \in AllBlocks
             /\ source # 0 => source \in Before[reached]
  <2>1. postcount[reached] + 1 \in DOMAIN Ins(reached)
    BY <1>5, <1>6
  <2>2. source \in Block /\ source \in Range(Ins(reached))
    BY <2>1, <1>4 DEF source, Range
  <2> QED BY <2>1, <2>2, <1>2, BeforeFacts, AllBlocksFacts
<1> QED BY <1>2, <1>3, <1>5, <1>6

LEMMA PostWalkGoesIn ==
  ASSUME TreeTypes, Numbered, ExitInv, EntryInv, phase # "edit", PostWalkInv, WalkIn
  PROVE  PostWalkInv'
<1>1. /\ poststate # << >> /\ postcount[reached] < Len(Ins(reached))
      /\ poststate' = IF MarkOf(source) \in Marks THEN poststate ELSE Append(poststate, source)
      /\ postcount' = [postcount EXCEPT ![reached] = @ + 1]
      /\ postorder' = postorder /\ rindex' = rindex /\ Returned' = Returned
      /\ Before' = Before /\ \A b : Ins(b)' = Ins(b)
  BY PostGraphSame DEF WalkIn, Returned
<1>2. /\ reached \in Calling /\ reached \in AllBlocks /\ Called \subseteq AllBlocks
      /\ postcount[reached] \in Nat
      /\ postcount[reached] + 1 \in DOMAIN Ins(reached)
      /\ source \in Block /\ source \in AllBlocks /\ (source # 0 => source \in Before[reached])
      /\ Len(poststate) \in Nat /\ Len(poststate) > 0 /\ DOMAIN poststate = 1 .. Len(poststate)
      /\ reached = poststate[Len(poststate)]
  BY <1>1, TopCall
<1>3. CallingInv /\ ReturnedInv /\ TakenInv /\ WithinInv
  BY DEF PostWalkInv
<1>4. Ins(reached)[postcount[reached] + 1] = source
  BY DEF source
<1>5. Marks = {MarkOf(b) : b \in Called}
  BY DEF Marks, Called, Calling, Returned
<1>6. /\ postcount' \in [AllBlocks -> Nat] /\ postcount'[reached] = postcount[reached] + 1
      /\ \A b \in AllBlocks : b # reached => postcount'[b] = postcount[b]
  BY <1>1, <1>2, <1>3 DEF TakenInv
\* What holds once source is called, or need not be.
<1>7. ASSUME Called' \subseteq AllBlocks, Called \subseteq Called', source \in Called' \union {0},
             \A b \in Called' : b \in Called \/ (b = source /\ postcount[b] = 0)
      PROVE  TakenInv'
  <2>1. \A b \in AllBlocks \ Called' : postcount'[b] = 0
    BY <1>2, <1>3, <1>6, <1>7 DEF TakenInv, Called
  <2>2. ASSUME NEW b \in Called', NEW i \in DOMAIN Ins(b), i <= postcount'[b]
        PROVE  Ins(b)[i] \in Called' \union {0}
    <3>0. b \in AllBlocks /\ Ins(b) \in Seq(Block) /\ i \in Nat /\ i # 0
      <4>1. b \in AllBlocks
        BY <1>7
      <4> QED BY <4>1, InsAndOuts
    <3>1. CASE b = reached /\ i = postcount[reached] + 1
      BY <3>1, <1>4, <1>7
    <3>2. CASE ~(b = reached /\ i = postcount[reached] + 1)
      <4>1. i <= postcount[b]
        <5>1. postcount[b] \in Nat
          BY <3>0, <1>3 DEF TakenInv
        <5> QED BY <5>1, <3>0, <3>2, <2>2, <1>2, <1>6
      <4>2. b \in Called
        <5>1. postcount[b] # 0
          BY <4>1, <3>0
        <5> QED BY <5>1, <1>7
      <4> QED BY <4>1, <4>2, <1>3, <1>7 DEF TakenInv
    <3> QED BY <3>1, <3>2
  <2>3. ASSUME NEW b \in Returned PROVE postcount'[b] >= Len(Ins(b))
    <3>1. b # reached
      BY <1>2, <1>3 DEF ReturnedInv
    <3>2. b \in AllBlocks
      BY <1>2 DEF Called
    <3> QED BY <3>1, <3>2, <1>3, <1>6 DEF TakenInv
  <2> QED BY <2>1, <2>2, <2>3, <1>1, <1>6 DEF TakenInv
<1>8. CASE MarkOf(source) \in Marks
  <2>1. poststate' = poststate /\ Calling' = Calling /\ Called' = Called
    BY <1>1, <1>8 DEF Calling, Called
  <2>2. source \in Called \union {0}
    <3>1. PICK d \in Called : MarkOf(d) = MarkOf(source)
      BY <1>5, <1>8
    <3>2. CASE d = exit
      BY <3>1, <3>2, <1>2, MarksDiffer, AllBlocksFacts
    <3>3. CASE d # exit
      <4>1. d \in Block
        BY <3>3, <1>2, AllBlocksFacts
      <4> QED BY <4>1, <3>1, <1>2, MarksDiffer
    <3> QED BY <3>2, <3>3
  <2>3. TakenInv'
    BY <2>1, <2>2, <1>2, <1>7
  <2>4. CallingInv' /\ WithinInv'
    BY <2>1, <1>1, <1>3 DEF CallingInv, WithinInv
  <2>5. ReturnedInv'
    BY <2>1, <1>1, <1>3 DEF ReturnedInv
  <2> QED BY <2>3, <2>4, <2>5 DEF PostWalkInv
<1>9. CASE MarkOf(source) \notin Marks
  <2>1. source \notin Called /\ source # 0
    <3>1. \A b \in Called : MarkOf(b) \in Marks
      BY <1>5
    <3>2. exit \in Called
      BY <1>3 DEF WithinInv
    <3> QED BY <3>1, <3>2, <1>9, MarksDiffer
  <2>2. /\ poststate' \in Seq(AllBlocks) /\ Calling' = Calling \union {source} /\ IsInjective(poststate')
        /\ Len(poststate') = Len(poststate) + 1 /\ poststate'[Len(poststate) + 1] = source
        /\ \A k \in 1 .. Len(poststate) : poststate'[k] = poststate[k]
        /\ DOMAIN poststate' = 1 .. Len(poststate) + 1
    <3>1. poststate \in Seq(AllBlocks) /\ IsInjective(poststate) /\ source \notin Range(poststate)
      BY <2>1, <1>3 DEF CallingInv, Called, Calling
    <3>2. poststate' = Append(poststate, source)
      BY <1>1, <1>9
    <3>3. /\ Append(poststate, source) \in Seq(AllBlocks) /\ IsInjective(Append(poststate, source))
          /\ Range(Append(poststate, source)) = Range(poststate) \union {source}
      BY <3>1, <1>2, Appended
    <3>4. /\ Len(Append(poststate, source)) = Len(poststate) + 1
          /\ Append(poststate, source)[Len(poststate) + 1] = source
          /\ \A k \in 1 .. Len(poststate) : Append(poststate, source)[k] = poststate[k]
          /\ DOMAIN Append(poststate, source) = 1 .. Len(poststate) + 1
      BY <3>1, <1>2
    <3> QED BY <3>2, <3>3, <3>4 DEF Calling
  <2>3. Called' = Called \union {source}
    BY <2>2, <1>1 DEF Called
  <2>4. TakenInv'
    <3>1. postcount[source] = 0
      BY <2>1, <1>2, <1>3 DEF TakenInv
    <3> QED BY <3>1, <2>3, <1>2, <1>7
  <2>5. CallingInv'
    <3>1. poststate'[1] = exit
      BY <2>2, <1>1, <1>2, <1>3 DEF CallingInv
    <3>2. ASSUME NEW k \in 1 .. Len(poststate) + 1, k > 1
          PROVE  poststate'[k] \in Before[poststate'[k - 1]]
      <4>1. CASE k = Len(poststate) + 1
        BY <4>1, <2>1, <2>2, <1>2
      <4>2. CASE k # Len(poststate) + 1
        <5>1. k \in 1 .. Len(poststate) /\ k - 1 \in 1 .. Len(poststate)
          BY <4>2, <3>2, <1>2
        <5> QED BY <5>1, <3>2, <2>2, <1>2, <1>3 DEF CallingInv
      <4> QED BY <4>1, <4>2
    <3> QED BY <3>1, <3>2, <2>2, <1>1 DEF CallingInv
  <2>6. ReturnedInv'
    <3>1. poststate' # << >>
      BY <2>2, <1>2
    <3>2. source \notin Returned
      BY <2>1 DEF Called
    <3> QED BY <3>1, <3>2, <2>2, <2>3, <1>1, <1>3 DEF ReturnedInv
  <2>7. WithinInv'
    <3>1. source \in ReachableFrom(Before, {exit})
      <4>1. Before \in [AllBlocks -> SUBSET AllBlocks] /\ IsFiniteSet(AllBlocks) /\ {exit} \in SUBSET AllBlocks
        BY BeforeFacts, AllBlocksFacts
      <4>2. reached \in ReachableFrom(Before, {exit})
        BY <1>2, <1>3 DEF WithinInv, Called
      <4>3. \A b \in ReachableFrom(Before, {exit}) : Before[b] \subseteq ReachableFrom(Before, {exit})
        BY <4>1, ReachableIsLeast
      <4> QED BY <4>2, <4>3, <2>1, <1>2
    <3> QED BY <3>1, <2>1, <2>3, <1>1, <1>3 DEF WithinInv
  <2> QED BY <2>4, <2>5, <2>6, <2>7 DEF PostWalkInv
<1> QED BY <1>8, <1>9

LEMMA PostWalkReturns ==
  ASSUME TreeTypes, ExitInv, EntryInv, phase # "edit", PostWalkInv, rindex \in [AllBlocks -> Nat], WalkBack
  PROVE  PostWalkInv' /\ rindex' \in [AllBlocks -> Nat]
<1> DEFINE n == Len(postorder)
           m == Len(poststate)
<1>1. /\ poststate # << >> /\ postcount[reached] = Len(Ins(reached))
      /\ poststate' = Front(poststate) /\ postorder' = Append(postorder, reached)
      /\ rindex' = [rindex EXCEPT ![reached] = n + 1]
      /\ postcount' = postcount
      /\ Before' = Before /\ \A b : Ins(b)' = Ins(b)
  BY PostGraphSame DEF WalkBack
<1>2. /\ reached \in Calling /\ reached \in AllBlocks /\ Called \subseteq AllBlocks
      /\ m \in Nat /\ m > 0 /\ DOMAIN poststate = 1 .. m /\ reached = poststate[m]
  BY <1>1, TopCall
<1>3. CallingInv /\ ReturnedInv /\ TakenInv /\ WithinInv
  BY DEF PostWalkInv
<1>4. /\ poststate' \in Seq(AllBlocks) /\ Len(poststate') = m - 1 /\ DOMAIN poststate' = 1 .. m - 1
      /\ \A k \in 1 .. m - 1 : poststate'[k] = poststate[k]
  BY <1>1, <1>3, LastOf DEF CallingInv
<1>5. /\ postorder' \in Seq(AllBlocks) /\ Returned' = Returned \union {reached}
      /\ n \in Nat /\ DOMAIN postorder = 1 .. n /\ Len(postorder') = n + 1 /\ DOMAIN postorder' = 1 .. n + 1
      /\ postorder'[n + 1] = reached /\ \A k \in 1 .. n : postorder'[k] = postorder[k]
  <2>1. postorder \in Seq(AllBlocks)
    BY <1>3 DEF ReturnedInv
  <2>2. Append(postorder, reached) \in Seq(AllBlocks)
        /\ Range(Append(postorder, reached)) = Range(postorder) \union {reached}
    BY <2>1, <1>2, Appended
  <2>3. /\ n \in Nat /\ DOMAIN postorder = 1 .. n /\ Len(Append(postorder, reached)) = n + 1
        /\ DOMAIN Append(postorder, reached) = 1 .. n + 1
        /\ Append(postorder, reached)[n + 1] = reached
        /\ \A k \in 1 .. n : Append(postorder, reached)[k] = postorder[k]
    BY <2>1, <1>2
  <2> QED BY <2>2, <2>3, <1>1 DEF Returned
<1>6. IsInjective(postorder')
  <2>1. reached \notin Range(postorder) /\ IsInjective(postorder) /\ postorder \in Seq(AllBlocks)
    BY <1>2, <1>3 DEF ReturnedInv, Returned
  <2> QED BY <2>1, <1>1, <1>2, Appended
<1> HIDE DEF n, m
<1>7. Calling' = Calling \ {reached}
  <2>1. Calling = {poststate[k] : k \in 1 .. m}
    BY <1>2 DEF Calling, Range
  <2>2. Calling' = {poststate[k] : k \in 1 .. m - 1}
    BY <1>4 DEF Calling, Range
  <2>3. \A k \in 1 .. m - 1 : k \in 1 .. m /\ poststate[k] # reached
    <3>1. IsInjective(poststate) /\ \A k \in 1 .. m - 1 : k \in 1 .. m /\ k # m
      BY <1>2, <1>3 DEF CallingInv
    <3>2. m \in 1 .. m
      BY <1>2
    <3> QED BY <3>1, <3>2, <1>2 DEF IsInjective
  <2>4. \A k \in 1 .. m : k \in 1 .. m - 1 \/ k = m
    BY <1>2
  <2> QED BY <2>1, <2>2, <2>3, <2>4, <1>2
<1>8. Called' = Called
  BY <1>2, <1>5, <1>7 DEF Called
<1>9. /\ rindex' \in [AllBlocks -> Nat] /\ rindex'[reached] = n + 1
      /\ \A b \in AllBlocks : b # reached => rindex'[b] = rindex[b]
  BY <1>1, <1>2, <1>5
<1>10. CallingInv'
  <2>1. IsInjective(poststate')
    <3>1. IsInjective(poststate) /\ \A k \in 1 .. m - 1 : k \in 1 .. m
      BY <1>2, <1>3 DEF CallingInv
    <3> QED BY <3>1, <1>2, <1>4 DEF IsInjective
  <2>2. poststate' # << >> => poststate'[1] = exit
    <3> SUFFICES ASSUME poststate' # << >> PROVE poststate'[1] = exit
      OBVIOUS
    <3>1. m - 1 > 0
      BY <1>2, <1>4, EmptySeq
    <3>2. 1 \in 1 .. m - 1
      BY <3>1, <1>2
    <3> QED BY <3>2, <1>1, <1>3, <1>4 DEF CallingInv
  <2>3. ASSUME NEW k \in 1 .. m - 1, k > 1 PROVE poststate'[k] \in Before[poststate'[k - 1]]
    <3>1. k - 1 \in 1 .. m - 1 /\ k \in 1 .. m
      BY <2>3, <1>2
    <3> QED BY <3>1, <2>3, <1>2, <1>3, <1>4 DEF CallingInv
  <2> QED BY <2>1, <2>2, <2>3, <1>1, <1>4 DEF CallingInv
<1>11. ReturnedInv'
  <2>1. Calling' \intersect Returned' = {}
    BY <1>3, <1>5, <1>7 DEF ReturnedInv
  <2>2. poststate' = << >> => postorder' # << >> /\ postorder'[Len(postorder')] = exit
    <3> SUFFICES ASSUME poststate' = << >> PROVE postorder' # << >> /\ postorder'[Len(postorder')] = exit
      OBVIOUS
    <3>1. m = 1
      BY <1>2, <1>4
    <3>2. reached = exit
      BY <3>1, <1>1, <1>2, <1>3 DEF CallingInv
    <3>3. postorder' # << >>
      BY <1>5
    <3> QED BY <3>2, <3>3, <1>5
  <2>3. ASSUME NEW i \in 1 .. n + 1
        PROVE  /\ rindex'[postorder'[i]] = i
               /\ \/ postorder'[i] = exit
                  \/ \E p \in Called' : postorder'[i] \in Before[p] /\ (p \in Returned' => rindex'[p] > i)
    <3>1. CASE i = n + 1
      <4>1. rindex'[postorder'[i]] = i /\ postorder'[i] = reached
        BY <3>1, <1>5, <1>9
      <4>2. CASE m = 1
        <5>1. reached = exit
          BY <4>2, <1>1, <1>2, <1>3 DEF CallingInv
        <5> QED BY <4>1, <5>1
      <4>3. CASE m # 1
        <5> DEFINE p == poststate[m - 1]
        <5>1. m \in 1 .. m /\ m > 1 /\ m - 1 \in 1 .. m - 1 /\ m - 1 \in 1 .. m
          BY <4>3, <1>2
        <5>2. reached \in Before[p]
          BY <5>1, <1>2, <1>3 DEF CallingInv
        <5>3. p \in Calling'
          <6>1. p \in Range(poststate')
            BY <5>1, <1>4 DEF Range
          <6> QED BY <6>1 DEF Calling
        <5>4. p \in Called' /\ p \notin Returned'
          BY <5>3, <2>1 DEF Called
        <5> QED BY <4>1, <5>2, <5>4
      <4> QED BY <4>2, <4>3
    <3>2. CASE i # n + 1
      <4>1. i \in 1 .. n /\ postorder'[i] = postorder[i]
        BY <3>2, <1>5
      <4>2. postorder[i] \in Returned /\ postorder[i] \in AllBlocks /\ postorder[i] # reached
        <5>1. postorder[i] \in Returned
          BY <4>1, <1>5 DEF Returned, Range
        <5> QED BY <5>1, <1>2, <1>3 DEF ReturnedInv, Called
      <4>3. rindex'[postorder'[i]] = i
        BY <4>1, <4>2, <1>3, <1>5, <1>9 DEF ReturnedInv
      <4>4. CASE postorder[i] = exit
        BY <4>1, <4>3, <4>4
      <4>5. CASE postorder[i] # exit
        <5>1. PICK p \in Called : postorder[i] \in Before[p] /\ (p \in Returned => rindex[p] > i)
          BY <4>1, <4>5, <1>3, <1>5 DEF ReturnedInv
        <5>2. p \in Returned' => rindex'[p] > i
          <6>1. CASE p = reached
            <7>1. rindex'[p] = n + 1
              BY <6>1, <1>9
            <7> QED BY <7>1, <4>1, <1>5
          <6>2. CASE p # reached
            BY <6>2, <5>1, <1>2, <1>5, <1>9
          <6> QED BY <6>1, <6>2
        <5> QED BY <4>1, <4>3, <5>1, <5>2, <1>8
      <4> QED BY <4>4, <4>5
    <3> QED BY <3>1, <3>2
  <2> QED BY <2>1, <2>2, <2>3, <1>1, <1>5, <1>6 DEF ReturnedInv
<1>12. TakenInv'
  <2>1. postcount[reached] \in Nat
    BY <1>2, <1>3 DEF TakenInv
  <2>2. postcount[reached] >= Len(Ins(reached))
    BY <2>1, <1>1
  <2>3. \A b \in Returned' : postcount[b] >= Len(Ins(b))
    BY <2>2, <1>3, <1>5 DEF TakenInv
  <2> QED BY <2>3, <1>1, <1>3, <1>8 DEF TakenInv
<1>13. WithinInv'
  BY <1>1, <1>3, <1>8 DEF WithinInv
<1> QED BY <1>9, <1>10, <1>11, <1>12, <1>13 DEF PostWalkInv

\* What the walk leaves: the blocks that lead to an exit, exit last, every other block before
\* one of those its out edges lead to.
PostWalked ==
  TreeTypes /\ ExitInv /\ EntryInv /\ phase # "edit" /\ PostWalkInv /\ poststate = << >>

LEMMA PostWalkEnds ==
  ASSUME PostWalked
  PROVE  /\ Returned \subseteq AllBlocks /\ exit \in Returned /\ 0 \notin Returned
         /\ Len(postorder) \in Nat /\ Len(postorder) > 0 /\ postorder[Len(postorder)] = exit
         /\ \A n \in 1 .. Len(postorder) : postorder[n] \in Returned /\ rindex[postorder[n]] = n
         /\ \A b \in Returned : rindex[b] \in 1 .. Len(postorder) /\ postorder[rindex[b]] = b
         /\ Len(postorder) = Cardinality(Returned) /\ IsFiniteSet(Returned)
         /\ \A b \in Returned : Before[b] \subseteq Returned
         /\ \A c \in Returned \ {exit} : \E p \in Returned : c \in Before[p] /\ rindex[p] > rindex[c]
         /\ Returned \subseteq ReachableFrom(Before, {exit})
         /\ ReachExit = Returned
<1> USE DEF PostWalked
<1>1. ReturnedInv /\ TakenInv /\ WithinInv
  BY DEF PostWalkInv
<1>2. Calling = {} /\ Called = Returned
  <2>1. Calling = {}
    BY DEF Calling, Range
  <2> QED BY <2>1 DEF Called
<1>3. postorder \in Seq(AllBlocks) /\ IsInjective(postorder)
  BY <1>1 DEF ReturnedInv
<1>4. /\ Len(postorder) \in Nat /\ DOMAIN postorder = 1 .. Len(postorder)
      /\ Returned \subseteq AllBlocks /\ \A n \in 1 .. Len(postorder) : postorder[n] \in Returned
  BY <1>3 DEF Returned, Range
<1>5. Len(postorder) > 0 /\ postorder[Len(postorder)] = exit
  BY <1>1, <1>3, EmptySeq DEF ReturnedInv
<1>6. \A n \in 1 .. Len(postorder) : rindex[postorder[n]] = n
  BY <1>1, <1>4 DEF ReturnedInv
<1>7. ASSUME NEW b \in Returned PROVE rindex[b] \in 1 .. Len(postorder) /\ postorder[rindex[b]] = b
  <2>1. PICK n \in 1 .. Len(postorder) : postorder[n] = b
    BY <1>4 DEF Returned, Range
  <2> QED BY <2>1, <1>6
<1>8. Len(postorder) = Cardinality(Returned) /\ IsFiniteSet(Returned)
  <2>1. Cardinality(Range(postorder)) = Len(postorder)
    BY <1>3, LengthCounts
  <2>2. IsFiniteSet(Returned)
    BY <1>4, AllBlocksFacts, FS_Subset
  <2> QED BY <2>1, <2>2 DEF Returned
<1>9. exit \in Returned /\ 0 \notin Returned /\ Returned \subseteq ReachableFrom(Before, {exit})
  BY <1>1, <1>2 DEF WithinInv
<1>10. \A b \in AllBlocks : Ins(b) \in Seq(Block)
  BY InsAndOuts
<1>11. ASSUME NEW b \in Returned PROVE Range(Ins(b)) \subseteq Returned \union {0}
  <2>1. ASSUME NEW i \in DOMAIN Ins(b) PROVE Ins(b)[i] \in Returned \union {0}
    <3>1. postcount[b] \in Nat /\ postcount[b] >= Len(Ins(b)) /\ Ins(b) \in Seq(Block)
      BY <1>1, <1>4, <1>10 DEF TakenInv
    <3>2. i <= postcount[b]
      BY <3>1
    <3> QED BY <3>2, <1>1, <1>2 DEF TakenInv
  <2> QED BY <2>1 DEF Range
<1>12. /\ Before \in [AllBlocks -> SUBSET AllBlocks] /\ Ins(0) = << >>
       /\ \A b \in AllBlocks : Before[b] = Range(Ins(b)) \ {0}
  BY BeforeFacts
<1>13. \A b \in Returned : Before[b] \subseteq Returned
  BY <1>4, <1>11, <1>12
<1>14. ASSUME NEW c \in Returned \ {exit} PROVE \E p \in Returned : c \in Before[p] /\ rindex[p] > rindex[c]
  <2>1. rindex[c] \in DOMAIN postorder /\ postorder[rindex[c]] = c
    BY <1>4, <1>7
  <2> QED BY <2>1, <1>1, <1>2 DEF ReturnedInv
<1>15. ReachExit = Returned
  <2> DEFINE T == [b \in AllBlocks |-> Range(Ins(b))]
             R == ReachableFrom(T, {exit})
  <2>1. T \in [AllBlocks -> SUBSET AllBlocks] /\ \A b \in AllBlocks : T[b] = Range(Ins(b))
    <3>1. \A b \in AllBlocks : Range(Ins(b)) \subseteq Block
      BY <1>10 DEF Range
    <3> QED BY <3>1, AllBlocksFacts
  <2>2. ReachExit = R \ {0}
    BY DEF ReachExit
  <2>3. IsFiniteSet(AllBlocks) /\ {exit} \in SUBSET AllBlocks /\ 0 \in AllBlocks
    BY AllBlocksFacts
  <2> HIDE DEF T
  <2>4. /\ {exit} \subseteq R /\ R \subseteq AllBlocks /\ \A b \in R : T[b] \subseteq R
        /\ \A X : {exit} \subseteq X /\ (\A b \in X : T[b] \subseteq X) => R \subseteq X
    BY <2>1, <2>3, ReachableIsLeast
  <2> HIDE DEF R
  <2>5. T[0] = {}
    BY <2>1, <2>3, <1>12 DEF Range
  <2>6. R \subseteq Returned \union {0}
    <3> DEFINE X == Returned \union {0}
    <3>1. {exit} \subseteq X /\ \A b \in X : T[b] \subseteq X
      BY <2>1, <2>5, <1>4, <1>9, <1>11
    <3> HIDE DEF X
    <3>2. R \subseteq X
      BY <3>1, <2>4
    <3> QED BY <3>2 DEF X
  <2>7. ReachableFrom(Before, {exit}) \subseteq R
    <3>1. \A b \in R : Before[b] \subseteq R
      BY <2>1, <2>4, <1>12
    <3> QED BY <3>1, <2>3, <2>4, <1>12, ReachableIsLeast
  <2> QED BY <2>2, <2>6, <2>7, <1>9
<1> QED BY <1>4, <1>5, <1>6, <1>7, <1>8, <1>9, <1>13, <1>14, <1>15

(***************************************************************************)
(* The sweeps of calc_post_dominator                                       *)
(***************************************************************************)
LEMMA PostRanked ==
  ASSUME PostWalked
  PROVE  /\ Ranked(Returned, PostSuccs, exit, PostRank)
         /\ \A b \in Returned : /\ PostSuccs[b] = Before[b] /\ rindex[b] \in Nat
                                /\ PostRank[b] = Len(postorder) - rindex[b]
         /\ \A a, b \in Returned : rindex[a] < rindex[b] <=> PostRank[a] > PostRank[b]
         /\ NONE \notin Returned
<1>1. /\ IsFiniteSet(Returned) /\ exit \in Returned /\ Returned \subseteq AllBlocks
      /\ Len(postorder) \in Nat /\ Len(postorder) > 0 /\ postorder[Len(postorder)] = exit
      /\ \A n \in 1 .. Len(postorder) : rindex[postorder[n]] = n
      /\ \A b \in Returned : rindex[b] \in 1 .. Len(postorder) /\ postorder[rindex[b]] = b
      /\ Len(postorder) = Cardinality(Returned)
      /\ \A b \in Returned : Before[b] \subseteq Returned
      /\ \A c \in Returned \ {exit} : \E p \in Returned : c \in Before[p] /\ rindex[p] > rindex[c]
  BY PostWalkEnds
<1>2. /\ \A b \in Returned : PostSuccs[b] = Before[b] /\ PostRank[b] = Len(postorder) - rindex[b]
      /\ PostSuccs \in [Returned -> SUBSET Returned]
  BY <1>1 DEF PostSuccs, PostRank
<1>3. NONE \notin Returned
  BY <1>1, AllBlocksFacts
<1>4. PostRank[exit] = 0
  <2>1. Len(postorder) \in 1 .. Len(postorder)
    BY <1>1
  <2>2. rindex[exit] = Len(postorder)
    BY <2>1, <1>1
  <2> QED BY <2>2, <1>1, <1>2
<1>5. ASSUME NEW b \in Returned PROVE PostRank[b] \in Nat /\ PostRank[b] < Cardinality(Returned) /\ rindex[b] \in Nat
  <2>1. rindex[b] \in 1 .. Len(postorder) /\ PostRank[b] = Len(postorder) - rindex[b]
    BY <1>1, <1>2
  <2> QED BY <2>1, <1>1
<1>6. ASSUME NEW a \in Returned, NEW b \in Returned
      PROVE  /\ rindex[a] < rindex[b] <=> PostRank[a] > PostRank[b]
             /\ PostRank[a] = PostRank[b] => a = b
  <2>1. rindex[a] \in Nat /\ rindex[b] \in Nat /\ Len(postorder) \in Nat
        /\ PostRank[a] = Len(postorder) - rindex[a] /\ PostRank[b] = Len(postorder) - rindex[b]
    BY <1>1, <1>2, <1>5
  <2>2. rindex[a] = rindex[b] => a = b
    BY <1>1
  <2> QED BY <2>1, <2>2
<1>7. ASSUME NEW c \in Returned \ {exit} PROVE \E p \in Returned : c \in PostSuccs[p] /\ PostRank[p] < PostRank[c]
  <2>1. PICK p \in Returned : c \in Before[p] /\ rindex[p] > rindex[c]
    BY <1>1
  <2>2. rindex[c] < rindex[p]
    BY <2>1, <1>5
  <2>3. PostRank[c] > PostRank[p] /\ PostRank[c] \in Nat /\ PostRank[p] \in Nat
    BY <2>2, <1>5, <1>6
  <2>4. PostRank[p] < PostRank[c]
    BY <2>3
  <2> QED BY <2>1, <2>4, <1>2
<1>8. Ranked(Returned, PostSuccs, exit, PostRank)
  BY <1>1, <1>2, <1>3, <1>4, <1>5, <1>6, <1>7 DEF Ranked
<1> QED BY <1>2, <1>3, <1>5, <1>6, <1>8

LEMMA PostIntersectMeets ==
  ASSUME PostWalked, PostClimbInv
  PROVE  Meets(Returned, PostRank, PostIdoms, PostIntersect)
<1> DEFINE Step1(w, f) == IF f[1] = f[2] THEN f[1]
                          ELSE IF NONE \in {f[1], f[2]} THEN NONE
                          ELSE IF rindex[f[1]] < rindex[f[2]] THEN w[<<post_immed_dom[f[1]], f[2]>>]
                          ELSE w[<<f[1], post_immed_dom[f[2]]>>]
           Step2(w, f) == IF f[1] = f[2] THEN f[1]
                          ELSE IF NONE \in {f[1], f[2]} THEN NONE
                          ELSE IF PostRank[f[1]] > PostRank[f[2]] THEN w[<<PostIdoms[f[1]], f[2]>>]
                          ELSE w[<<f[1], PostIdoms[f[2]]>>]
           Pairs == (Returned \union {NONE}) \X (Returned \union {NONE})
<1>1. PICK w : Climbing(Returned, PostRank, PostIdoms, w)
  BY PostRanked, FingersDefined DEF PostClimbInv
<1>2. ASSUME NEW v PROVE \A f \in Pairs : Step1(v, f) = Step2(v, f)
  <2>1. \A a \in Returned : PostIdoms[a] = post_immed_dom[a]
    BY DEF PostIdoms
  <2>2. \A a, b \in Returned : rindex[a] < rindex[b] <=> PostRank[a] > PostRank[b]
    BY PostRanked
  <2> QED BY <2>1, <2>2
<1>3. w = [f \in Pairs |-> Step2(w, f)]
  BY <1>1 DEF Climbing
<1> HIDE DEF Step1, Step2, Pairs
<1>4. w = [f \in Pairs |-> Step1(w, f)]
  BY <1>2, <1>3
<1>5. PostFinger \X PostFinger = Pairs
  BY DEF PostFinger, Returned, Pairs
<1>6. PostIntersect = CHOOSE v : v = [f \in PostFinger \X PostFinger |-> Step1(v, f)]
  BY DEF PostIntersect, Step1
<1>7. PostIntersect = [f \in Pairs |-> Step1(PostIntersect, f)]
  BY <1>4, <1>5, <1>6
<1>8. \A f \in Pairs : PostIntersect[f] = Step2(PostIntersect, f)
  BY <1>2, <1>7
<1> SUFFICES ASSUME NEW a \in PostKnown, NEW b \in PostKnown
             PROVE  PostIntersect[<<a, b>>] = IF a = b THEN a
                                              ELSE IF PostRank[a] > PostRank[b] THEN PostIntersect[<<PostIdoms[a], b>>]
                                              ELSE PostIntersect[<<a, PostIdoms[b]>>]
  BY DEF Meets, PostKnown
<1> DEFINE f == <<a, b>>
<1>9. f \in Pairs /\ f[1] = a /\ f[2] = b /\ NONE \notin {f[1], f[2]}
  BY PostRanked DEF Pairs, PostKnown, Having
<1> HIDE DEF f
<1>10. PostIntersect[f] = Step2(PostIntersect, f)
  BY <1>8, <1>9
<1> QED BY <1>9, <1>10 DEF Step2, f

LEMMA NewPostIdomChosen ==
  ASSUME PostWalked, PostClimbInv, ~Stale, NEW b \in Returned, b # exit
  PROVE  Chosen(Returned, PostSuccs, exit, PostRank, PostIdoms, b, {p \in PostKnown : b \in PostSuccs[p]}, NewPostIdom(b))
<1> DEFINE L == Len(Outs(b))
           point == [j \in 1 .. L |-> Outs(b)[j]]
           Take1(j, was) == IF post_immed_dom[Outs(b)[j]] = NONE THEN was
                            ELSE IF was = NONE THEN Outs(b)[j]
                            ELSE PostIntersect[<<Outs(b)[j], was>>]
<1>1. /\ Returned \subseteq AllBlocks /\ b \in Block /\ b # 0
      /\ \A c \in Returned : PostSuccs[c] = Range(Ins(c)) \ {0}
  <2>1. Returned \subseteq AllBlocks /\ 0 \notin Returned
    BY PostWalkEnds
  <2>2. \A c \in Returned : PostSuccs[c] = Range(Ins(c)) \ {0}
    BY <2>1, PostRanked, BeforeFacts DEF PostWalked
  <2> QED BY <2>1, <2>2, AllBlocksFacts
<1>2. /\ L \in Nat /\ DOMAIN Outs(b) = 1 .. L
      /\ \A p \in AllBlocks : b \in Range(Ins(p)) <=> p \in Range(Outs(b))
      /\ Range(Outs(b)) \subseteq AllBlocks
  BY <1>1, InsAndOuts DEF PostWalked
<1>3. \A o \in Range(Outs(b)) : post_immed_dom[o] = NONE <=> o \notin PostKnown
  <2>1. \A o \in Returned : post_immed_dom[o] = NONE <=> o \notin PostKnown
    BY DEF PostKnown, PostIdoms, Having
  <2>2. \A o \in Range(Outs(b)) \ Returned : post_immed_dom[o] = NONE /\ o \notin PostKnown
    BY DEF Stale, Returned, PostKnown, Having
  <2> QED BY <2>1, <2>2
<1>4. \A j \in 1 .. L : point[j] = Outs(b)[j] /\ point[j] \in Range(Outs(b))
  BY <1>2 DEF Range
<1>5. /\ Ranked(Returned, PostSuccs, exit, PostRank)
      /\ Climbs(Returned, PostSuccs, exit, PostRank, PostIdoms)
      /\ Meets(Returned, PostRank, PostIdoms, PostIntersect) /\ PostKnown = Having(Returned, PostIdoms)
  BY PostRanked, PostIntersectMeets DEF PostClimbInv, PostKnown
<1>6. \A j \in 1 .. L : \A was : Take1(j, was) = TakeEdge(PostKnown, PostIntersect, point[j], was)
  <2> SUFFICES ASSUME NEW j \in 1 .. L, NEW was
               PROVE  Take1(j, was) = TakeEdge(PostKnown, PostIntersect, point[j], was)
    OBVIOUS
  <2>1. Outs(b)[j] = point[j] /\ (point[j] \notin PostKnown <=> post_immed_dom[point[j]] = NONE)
    BY <1>3, <1>4
  <2> HIDE DEF L, point
  <2> QED BY <2>1 DEF TakeEdge
<1> DEFINE P == {p \in PostKnown : b \in PostSuccs[p]}
<1>7. Enter(PostSuccs, PostKnown, point, L, b, P)
  <2>1. PostKnown \subseteq Returned
    BY DEF PostKnown, Having
  <2>2. \A p \in PostKnown : b \in PostSuccs[p] <=> p \in Range(Outs(b))
    BY <2>1, <1>1, <1>2
  <2>3. \A p : p \in Range(Outs(b)) <=> \E j \in 1 .. L : point[j] = p
    BY <1>2, <1>4 DEF Range
  <2> HIDE DEF L, point
  <2> QED BY <2>2, <2>3 DEF Enter
<1> HIDE DEF L, point, P
<1>8. PICK u : Folds(PostKnown, PostIntersect, point, L, u)
  BY <1>2, <1>5, EdgesFold
<1>9. u = [j \in 0 .. L |-> IF j = 0 THEN NONE ELSE Take1(j, u[j - 1])]
  <2>1. \A j \in 0 .. L : j # 0 => j \in 1 .. L
    BY <1>2
  <2> HIDE DEF Take1
  <2> QED BY <2>1, <1>6, <1>8 DEF Folds
<1> DEFINE v == CHOOSE w : w = [j \in 0 .. L |-> IF j = 0 THEN NONE ELSE Take1(j, w[j - 1])]
<1>10. v = [j \in 0 .. L |-> IF j = 0 THEN NONE ELSE Take1(j, v[j - 1])]
  BY <1>9
<1>11. NewPostIdom(b) = v[L]
  BY DEF NewPostIdom, L
<1> HIDE DEF v, Take1
<1>12. Folds(PostKnown, PostIntersect, point, L, v)
  <2>1. \A j \in 0 .. L : j # 0 => j \in 1 .. L
    BY <1>2
  <2> QED BY <2>1, <1>6, <1>10 DEF Folds
<1>13. Chosen(Returned, PostSuccs, exit, PostRank, PostIdoms, b, P, v[L])
  BY <1>2, <1>5, <1>7, <1>12, EdgesFolded
<1> QED BY <1>11, <1>13 DEF P

LEMMA PostOrderSame ==
  ASSUME UNCHANGED vars, UNCHANGED walkvars
  PROVE  /\ Returned' = Returned /\ PostSuccs' = PostSuccs /\ PostRank' = PostRank
         /\ PostWalkInv => PostWalkInv'
         /\ post_immed_dom' = post_immed_dom => \A b : NewPostIdom(b)' = NewPostIdom(b)
<1>1. /\ poststate' = poststate /\ postcount' = postcount /\ postorder' = postorder /\ rindex' = rindex
      /\ Before' = Before /\ \A b : Ins(b)' = Ins(b) /\ Outs(b)' = Outs(b)
  BY PostGraphSame DEF walkvars
<1>2. Calling' = Calling /\ Returned' = Returned /\ Called' = Called
  BY <1>1 DEF Calling, Returned, Called
<1>3. PostSuccs' = PostSuccs /\ PostRank' = PostRank
  BY <1>1, <1>2 DEF PostSuccs, PostRank
<1>4. (CallingInv => CallingInv') /\ (ReturnedInv => ReturnedInv')
  BY <1>1, <1>2 DEF CallingInv, ReturnedInv
<1>5. (TakenInv => TakenInv') /\ (WithinInv => WithinInv')
  BY <1>1, <1>2 DEF TakenInv, WithinInv
<1>6. ASSUME post_immed_dom' = post_immed_dom PROVE \A b : NewPostIdom(b)' = NewPostIdom(b)
  <2>1. PostIntersect' = PostIntersect
    BY <1>1, <1>6 DEF PostIntersect, PostFinger
  <2>2. graph' = graph /\ exitlist' = exitlist
    BY DEF vars, treevars, dfsvars
  <2> QED BY <2>1, <2>2, <1>6 DEF NewPostIdom, Outs
<1> QED BY <1>2, <1>3, <1>4, <1>5, <1>6 DEF PostWalkInv

\* An entry without out edges is all there is.
LEMMA LonelyEntry ==
  ASSUME TreeTypes, ExitInv, phase # "edit", 0 \in Range(exitlist)
  PROVE  Block = {0}
<1>1. graph \in Graph(Block, Labels) /\ 0 \in Block /\ graph.out[0] = << >> /\ ReachableFrom(succs, {0}) = Block
  BY Blocks DEF TreeTypes, TypeOK, ExitInv
<1>2. succs \in [Block -> SUBSET Block] /\ IsFiniteSet(Block)
  BY <1>1, SuccessorsType, Blocks DEF succs
<1>3. succs[0] = {}
  BY <1>1 DEF succs, Successors
<1> DEFINE X == {0}
<1>4. X \in SUBSET Block /\ X \subseteq X /\ \A b \in X : succs[b] \subseteq X
  BY <1>1, <1>3
<1> HIDE DEF X
<1>5. ReachableFrom(succs, X) \subseteq X
  BY <1>2, <1>4, ReachableIsLeast
<1> QED BY <1>1, <1>5 DEF X

LEMMA PostSweepsStart ==
  ASSUME PostWalked, PostTypes, FreshInv, post = "walk", StartPostSweeps
  PROVE  /\ PostClimbInv' /\ PostSweptInv' /\ MissedInv' /\ PostWalkInv'
         /\ post_immed_dom' \in [AllBlocks -> AllBlocks \union {NONE}]
         /\ post_immed_dom'[0] # NONE => Block = {0}
<1>1. /\ UNCHANGED vars /\ UNCHANGED walkvars /\ calls' = calls
      /\ posti' = Len(postorder) - 1 /\ postchanged' = FALSE
      /\ postorder' = postorder /\ exitlist' = exitlist
      /\ post_immed_dom' = [b \in AllBlocks |->
                              IF b \in {exit} \union Range(exitlist) THEN exit
                              ELSE IF b \in Returned THEN NONE ELSE post_immed_dom[b]]
  BY DEF StartPostSweeps, walkvars, vars, treevars, dfsvars, Returned
<1>2. Returned' = Returned /\ PostSuccs' = PostSuccs /\ PostRank' = PostRank /\ PostWalkInv'
  BY <1>1, PostOrderSame DEF PostWalked
<1>3. /\ Returned \subseteq AllBlocks /\ exit \in Returned /\ 0 \notin Returned
      /\ Len(postorder) \in Nat /\ Len(postorder) > 0 /\ postorder[Len(postorder)] = exit
  BY PostWalkEnds
<1>4. PostSuccs[exit] = Range(exitlist) \ {0}
  <2>1. PostSuccs[exit] = Range(Ins(exit)) \ {0}
    BY <1>3, PostRanked, BeforeFacts, AllBlocksFacts DEF PostWalked
  <2> QED BY <2>1 DEF Ins
<1>5. PostIdoms' = [b \in Returned |-> IF b \in {exit} \union PostSuccs[exit] THEN exit ELSE NONE]
  <2>1. PostIdoms' = [b \in Returned |-> post_immed_dom'[b]]
    BY <1>2 DEF PostIdoms
  <2>2. \A b \in Returned : post_immed_dom'[b] = IF b \in {exit} \union PostSuccs[exit] THEN exit ELSE NONE
    BY <1>1, <1>3, <1>4
  <2> QED BY <2>1, <2>2
<1>6. /\ Climbs(Returned, PostSuccs, exit, PostRank, PostIdoms')
      /\ Having(Returned, PostIdoms') = {exit} \union PostSuccs[exit]
  BY <1>5, PostRanked, ClimbStarts
<1>7. PostClimbInv' /\ exit \in PostKnown'
  BY <1>2, <1>6 DEF PostClimbInv, PostKnown
<1>8. PostSweptInv'
  <2>1. posti' \in 0 .. Len(postorder') - 1
    BY <1>1, <1>3
  <2>2. ASSUME NEW n \in posti' + 1 .. Len(postorder')
        PROVE  n = Len(postorder) /\ ~(n < Len(postorder'))
    BY <1>1, <1>3
  <2>3. postorder'[Len(postorder)] \in PostKnown'
    BY <1>1, <1>3, <1>7
  <2> QED BY <2>1, <2>2, <2>3, <1>1 DEF PostSweptInv
<1>9. MissedInv'
  <2> SUFFICES ASSUME NEW b \in AllBlocks \ Returned
               PROVE  IF b \in Range(exitlist) THEN post_immed_dom'[b] = exit
                      ELSE calls = 0 => post_immed_dom'[b] = NONE
    BY <1>1, <1>2 DEF MissedInv
  <2>1. b # exit /\ b \notin Range(exitlist) => post_immed_dom'[b] = post_immed_dom[b]
    BY <1>1
  <2>2. b # exit
    BY <1>3
  <2>3. calls = 0 => post_immed_dom[b] = NONE
    BY DEF FreshInv
  <2> QED BY <2>1, <2>2, <2>3, <1>1
<1>10. post_immed_dom' \in [AllBlocks -> AllBlocks \union {NONE}]
  BY <1>1, AllBlocksFacts DEF PostTypes
<1>11. post_immed_dom'[0] # NONE => Block = {0}
  <2> SUFFICES ASSUME post_immed_dom'[0] # NONE PROVE Block = {0}
    OBVIOUS
  <2>1. CASE 0 \in Range(exitlist)
    BY <2>1, LonelyEntry DEF PostWalked
  <2>2. CASE 0 \notin Range(exitlist)
    <3>1. post_immed_dom'[0] = post_immed_dom[0]
      BY <2>2, <1>1, <1>3, AllBlocksFacts
    <3> QED BY <3>1 DEF PostWalked, EntryInv, NoWayBack
  <2> QED BY <2>1, <2>2
<1> QED BY <1>2, <1>7, <1>8, <1>9, <1>10, <1>11

LEMMA PostSweepClimbs ==
  ASSUME PostWalked, PostTypes, PostClimbInv, PostSweptInv, MissedInv, PostSweep
  PROVE  /\ PostClimbInv' /\ PostSweptInv' /\ MissedInv' /\ PostWalkInv'
         /\ post_immed_dom' \in [AllBlocks -> AllBlocks \union {NONE}]
         /\ post_immed_dom'[0] = post_immed_dom[0]
<1> DEFINE b == postorder[posti]
           new == NewPostIdom(b)
           N == Len(postorder)
<1>1. /\ UNCHANGED vars /\ UNCHANGED walkvars /\ calls' = calls
      /\ posti' = posti - 1 /\ posti > 0 /\ ~Stale
      /\ postorder' = postorder /\ rindex' = rindex /\ exitlist' = exitlist
  BY DEF PostSweep, walkvars, vars, treevars, dfsvars
<1>2. Returned' = Returned /\ PostSuccs' = PostSuccs /\ PostRank' = PostRank /\ PostWalkInv'
  BY <1>1, PostOrderSame DEF PostWalked
<1>3. /\ Returned \subseteq AllBlocks /\ exit \in Returned /\ 0 \notin Returned
      /\ N \in Nat /\ N > 0 /\ postorder[N] = exit
      /\ \A n \in 1 .. N : postorder[n] \in Returned /\ rindex[postorder[n]] = n
      /\ \A c \in Returned : rindex[c] \in 1 .. N /\ postorder[rindex[c]] = c
      /\ \A c \in Returned \ {exit} : \E p \in Returned : c \in Before[p] /\ rindex[p] > rindex[c]
  BY PostWalkEnds
<1>4. /\ posti \in Nat /\ posti < N /\ posti \in 1 .. N /\ postchanged \in BOOLEAN
      /\ \A n \in posti + 1 .. N :
           /\ postorder[n] \in PostKnown
           /\ n < N /\ ~postchanged =>
                \/ post_immed_dom[postorder[n]] = exit
                \/ post_immed_dom[postorder[n]] = NewPostIdom(postorder[n])
  BY <1>1, <1>3 DEF PostSweptInv
<1>5. /\ b \in Returned /\ rindex[b] = posti /\ b # exit /\ b \in AllBlocks
  <2>1. b \in Returned /\ rindex[b] = posti
    BY <1>3, <1>4
  <2>2. rindex[exit] = N
    <3>1. N \in 1 .. N
      BY <1>3
    <3> QED BY <3>1, <1>3
  <2>3. rindex[b] # N
    BY <2>1, <1>4
  <2> QED BY <2>1, <2>2, <2>3, <1>3
<1>6. posti' \in 0 .. N - 1 /\ \A n : n \in posti' + 1 .. N <=> n \in posti + 1 .. N \/ n = posti
  BY <1>1, <1>3, <1>4
<1>7. post_immed_dom \in [AllBlocks -> AllBlocks \union {NONE}] /\ NONE \notin AllBlocks
      /\ \A c \in Returned : PostIdoms[c] = post_immed_dom[c]
  BY AllBlocksFacts DEF PostTypes, PostIdoms
<1>8. CASE post_immed_dom[b] = exit
  <2>1. post_immed_dom' = post_immed_dom /\ postchanged' = postchanged
    BY <1>8 DEF PostSweep
  <2>2. PostKnown' = PostKnown /\ PostIdoms' = PostIdoms /\ \A c : NewPostIdom(c)' = NewPostIdom(c)
    BY <2>1, <1>1, <1>2, PostOrderSame DEF PostKnown, PostIdoms
  <2>3. PostClimbInv'
    BY <2>2, <1>2 DEF PostClimbInv
  <2>4. postorder[posti] \in PostKnown /\ post_immed_dom[postorder[posti]] = exit
    BY <1>3, <1>5, <1>7, <1>8 DEF PostKnown, Having
  <2>5. ASSUME NEW n \in posti' + 1 .. N
        PROVE  /\ postorder'[n] \in PostKnown'
               /\ n < N /\ ~postchanged' =>
                    \/ post_immed_dom'[postorder'[n]] = exit
                    \/ post_immed_dom'[postorder'[n]] = NewPostIdom(postorder[n])'
    <3>1. CASE n = posti
      BY <3>1, <2>1, <2>2, <2>4, <1>1
    <3>2. CASE n \in posti + 1 .. N
      <4>1. NewPostIdom(postorder[n])' = NewPostIdom(postorder[n])
        BY <2>2, <1>1
      <4> QED BY <4>1, <3>2, <2>1, <2>2, <1>1, <1>4
    <3> QED BY <3>1, <3>2, <1>6
  <2>6. PostSweptInv'
    BY <2>1, <2>5, <1>1, <1>4, <1>6 DEF PostSweptInv
  <2>7. MissedInv'
    BY <2>1, <1>1, <1>2 DEF MissedInv
  <2> QED BY <2>1, <2>3, <2>6, <2>7, <1>2, <1>7
<1>9. CASE post_immed_dom[b] # exit
  <2>1. post_immed_dom' = [post_immed_dom EXCEPT ![b] = new] /\ postchanged' = (postchanged \/ post_immed_dom[b] # new)
    BY <1>9 DEF PostSweep
  <2> DEFINE P == {p \in PostKnown : b \in PostSuccs[p]}
  <2>2. PICK p \in P : p \in Returned /\ PostRank[p] < PostRank[b]
    <3>1. PICK p \in Returned : b \in Before[p] /\ rindex[p] > rindex[b]
      BY <1>3, <1>5
    <3>2. rindex[p] \in posti + 1 .. N
      BY <3>1, <1>3, <1>4, <1>5
    <3>3. p \in PostKnown
      BY <3>1, <3>2, <1>3, <1>4
    <3>4. rindex[b] < rindex[p]
      BY <3>1, <3>2, <1>4, <1>5
    <3>5. PostRank[b] > PostRank[p] /\ PostSuccs[p] = Before[p]
      BY <3>1, <3>4, <1>5, PostRanked
    <3>6. PostRank[b] \in Nat /\ PostRank[p] \in Nat
      BY <3>1, <1>5, PostRanked DEF Ranked
    <3>7. PostRank[p] < PostRank[b]
      BY <3>5, <3>6
    <3> QED BY <3>1, <3>3, <3>5, <3>7
  <2>3. Chosen(Returned, PostSuccs, exit, PostRank, PostIdoms, b, P, new)
    BY <1>1, <1>5, NewPostIdomChosen
  <2>4. PostIdoms' = Changed(PostIdoms, b, new)
    <3>1. PostIdoms' = [c \in Returned |-> post_immed_dom'[c]]
      BY <1>2 DEF PostIdoms
    <3>2. \A c \in Returned : post_immed_dom'[c] = IF c = b THEN new ELSE post_immed_dom[c]
      BY <2>1, <1>3, <1>7
    <3>3. PostIdoms = [c \in Returned |-> post_immed_dom[c]]
      BY DEF PostIdoms
    <3> HIDE DEF b, new
    <3>4. PostIdoms' = [c \in Returned |-> IF c = b THEN new ELSE post_immed_dom[c]]
      BY <3>1, <3>2
    <3>5. [PostIdoms EXCEPT ![b] = new] = [c \in Returned |-> IF c = b THEN new ELSE post_immed_dom[c]]
      BY <3>3
    <3> QED BY <3>4, <3>5 DEF Changed
  <2> HIDE DEF P, new, b
  <2>5. /\ new \in Returned
        /\ Climbs(Returned, PostSuccs, exit, PostRank, PostIdoms')
        /\ Having(Returned, PostIdoms') = Having(Returned, PostIdoms) \union {b}
    <3>1. Ranked(Returned, PostSuccs, exit, PostRank) /\ Climbs(Returned, PostSuccs, exit, PostRank, PostIdoms)
      BY PostRanked DEF PostClimbInv
    <3> QED BY <3>1, <2>2, <2>3, <2>4, <1>5, ClimbGoesOn
  <2>6. PostClimbInv' /\ PostKnown' = PostKnown \union {b}
    BY <2>5, <1>2 DEF PostClimbInv, PostKnown
  <2>7. ASSUME NEW n \in posti' + 1 .. N
        PROVE  /\ postorder'[n] \in PostKnown'
               /\ n < N /\ ~postchanged' =>
                    \/ post_immed_dom'[postorder'[n]] = exit
                    \/ post_immed_dom'[postorder'[n]] = NewPostIdom(postorder[n])'
    <3>1. postorder'[n] \in PostKnown'
      <4>1. CASE n = posti
        BY <4>1, <2>6, <1>1 DEF b
      <4>2. CASE n \in posti + 1 .. N
        BY <4>2, <2>6, <1>1, <1>4
      <4> QED BY <4>1, <4>2, <1>6
    <3>2. ASSUME n < N, ~postchanged'
          PROVE  \/ post_immed_dom'[postorder'[n]] = exit
                 \/ post_immed_dom'[postorder'[n]] = NewPostIdom(postorder[n])'
      <4>1. ~postchanged /\ post_immed_dom[b] = new
        BY <3>2, <2>1
      <4>2. post_immed_dom' = post_immed_dom
        BY <4>1, <2>1, <1>5, <1>7
      <4>3. NewPostIdom(postorder[n])' = NewPostIdom(postorder[n])
        BY <4>2, <1>1, PostOrderSame
      <4>4. CASE n = posti
        BY <4>1, <4>2, <4>3, <4>4, <1>1 DEF b, new
      <4>5. CASE n \in posti + 1 .. N
        BY <4>1, <4>2, <4>3, <4>5, <3>2, <1>1, <1>4
      <4> QED BY <4>4, <4>5, <1>6
    <3> QED BY <3>1, <3>2
  <2>8. postchanged' \in BOOLEAN
    BY <2>1, <1>4
  <2>9. PostSweptInv'
    BY <2>7, <2>8, <1>1, <1>6 DEF PostSweptInv
  <2>10. /\ post_immed_dom' \in [AllBlocks -> AllBlocks \union {NONE}]
         /\ \A c \in AllBlocks \ Returned : post_immed_dom'[c] = post_immed_dom[c]
         /\ post_immed_dom'[0] = post_immed_dom[0]
    <3>1. new \in AllBlocks /\ 0 \in AllBlocks
      BY <2>5, <1>3, AllBlocksFacts
    <3> QED BY <3>1, <2>1, <1>3, <1>5, <1>7
  <2>11. MissedInv'
    BY <2>10, <1>1, <1>2 DEF MissedInv
  <2> QED BY <2>6, <2>9, <2>10, <2>11, <1>2
<1> QED BY <1>8, <1>9

\* A function of one block ends with it.
LEMMA LonelyExit ==
  ASSUME TreeTypes, ExitInv, EntryInv, phase # "edit", Block = {0}
  PROVE  0 \in Range(exitlist)
<1>1. graph \in Graph(Block, Labels) /\ 0 \in Block /\ 0 \notin succs[0]
  BY Blocks DEF TreeTypes, TypeOK, EntryInv, NoWayBack
<1>2. succs[0] \subseteq Block
  BY <1>1, SuccessorsType DEF succs
<1>3. succs[0] = {}
  BY <1>1, <1>2
<1>4. graph.out[0] = << >>
  <2>1. graph.out[0] \in Seq(HalfEdge(Block, Labels))
    BY <1>1, ListTypes
  <2>2. \A i \in DOMAIN graph.out[0] : graph.out[0][i].point \in succs[0]
    BY <1>1, GraphOf DEF succs
  <2>3. DOMAIN graph.out[0] = {}
    BY <2>2, <1>3
  <2>4. DOMAIN graph.out[0] = 1 .. Len(graph.out[0]) /\ Len(graph.out[0]) \in Nat
    BY <1>1, GraphOf
  <2>5. Len(graph.out[0]) = 0
    <3> DEFINE n == Len(graph.out[0])
    <3>1. n \in Nat /\ 1 .. n = {}
      BY <2>3, <2>4
    <3> HIDE DEF n
    <3>2. n = 0
      <4> SUFFICES ASSUME n # 0 PROVE FALSE
        OBVIOUS
      <4>1. 1 \in 1 .. n
        BY <3>1
      <4> QED BY <4>1, <3>1
    <3> QED BY <3>2 DEF n
  <2> QED BY <2>1, <2>5, EmptySeq
<1> QED BY <1>1, <1>4 DEF ExitInv

\* A first call finds no block with something left over.
LEMMA FirstCallFinds ==
  ASSUME PostWalked, MissedInv, calls = 0
  PROVE  ~Stale
<1> SUFFICES ASSUME NEW b \in Returned \ {exit}, NEW o \in Range(Outs(b)) \ Returned, post_immed_dom[o] # NONE
             PROVE  FALSE
  BY DEF Stale, Returned
<1>1. /\ Returned \subseteq AllBlocks /\ exit \in Returned /\ \A c \in Returned : Before[c] \subseteq Returned
  BY PostWalkEnds
<1>2. b \in Block
  BY <1>1, AllBlocksFacts
<1>3. o \in AllBlocks /\ Range(Outs(b)) = IF b \in Range(exitlist) THEN {exit} ELSE succs[b]
  BY <1>2, InsAndOuts DEF PostWalked
<1>4. o \in Range(exitlist)
  BY <1>3 DEF MissedInv
<1>5. Before[exit] = Range(exitlist) \ {0}
  <2>1. Before[exit] = Range(Ins(exit)) \ {0}
    BY BeforeFacts, AllBlocksFacts DEF PostWalked
  <2> QED BY <2>1 DEF Ins
<1>6. o = 0
  BY <1>1, <1>4, <1>5
<1> QED BY <1>1, <1>2, <1>3, <1>6 DEF PostWalked, EntryInv, NoWayBack

\* What has been settled are the immediate dominators in the whole of the reversed graph.
LEMMA PostDominatorsFound ==
  ASSUME PostWalked, PostClimbInv, ~Stale, PostKnown = Returned,
         \A b \in Returned \ {exit} : post_immed_dom[b] = exit \/ post_immed_dom[b] = NewPostIdom(b)
  PROVE  \A b \in Returned \ {exit} : post_immed_dom[b] = Idom(Before, exit, b)
<1>1. \A b \in Returned : PostIdoms[b] = post_immed_dom[b]
  BY DEF PostIdoms
<1>2. Ranked(Returned, PostSuccs, exit, PostRank)
  BY PostRanked
<1>3. Settled(Returned, PostSuccs, exit, PostRank, PostIdoms)
  BY <1>1, NewPostIdomChosen DEF Settled
<1>4. \A b \in Returned \ {exit} : OnlyIdom(PostSuccs, exit, b, PostIdoms[b])
  BY <1>2, <1>3, DominatorsFound DEF PostClimbInv, PostKnown
<1>5. \A b \in Returned : Dominators(Before, exit, b) = Dominators(PostSuccs, exit, b)
  <2>1. /\ Returned \in SUBSET AllBlocks /\ exit \in Returned /\ exit \in AllBlocks
        /\ Returned \subseteq ReachableFrom(Before, {exit})
    BY PostWalkEnds, AllBlocksFacts
  <2>2. /\ PostSuccs \in [Returned -> SUBSET Returned]
        /\ \A b \in Returned : PostSuccs[b] = Before[b]
    BY <1>2, PostRanked DEF Ranked
  <2>3. Before \in [AllBlocks -> SUBSET AllBlocks] /\ IsFiniteSet(AllBlocks)
    BY BeforeFacts, AllBlocksFacts DEF PostWalked
  <2> QED BY <2>1, <2>2, <2>3, PartDominators
<1>6. \A b \in Returned : StrictDominators(PostSuccs, exit, b) \subseteq Returned
  BY <1>2, RankedDominators
<1>7. ASSUME NEW b \in Returned \ {exit} PROVE OnlyIdom(Before, exit, b, PostIdoms[b])
  <2>1. StrictDominators(Before, exit, b) = StrictDominators(PostSuccs, exit, b)
    BY <1>5 DEF StrictDominators
  <2>2. \A a \in StrictDominators(Before, exit, b) : Dominators(Before, exit, a) = Dominators(PostSuccs, exit, a)
    BY <2>1, <1>5, <1>6
  <2> QED BY <2>1, <2>2, <1>4 DEF OnlyIdom
<1> QED BY <1>1, <1>7, IdomIs

\* PostDominatorsExact, with a name for the reversed graph.
Exact ==
  /\ post_immed_dom[exit] = NONE
  /\ \A b \in ReachExit \ {exit} : post_immed_dom[b] = Idom(Before, exit, b)
  /\ calls = 1 \/ ReachExit \union {0, exit} = AllBlocks =>
       \A b \in AllBlocks \ (ReachExit \union {exit}) :
         post_immed_dom[b] = IF b \in Range(exitlist) THEN exit ELSE NONE

LEMMA ExactMeans ==
  /\ PostDominatorsExact <=> (post = "done" => Exact)
  /\ PostDominatorsExact' <=> (post' = "done" => Exact')
<1>1. PostDominatorsExact <=> (post = "done" => Exact)
  BY DEF PostDominatorsExact, Exact, Before
<1>2. PostDominatorsExact' <=> (post' = "done" => Exact')
  BY DEF PostDominatorsExact, Exact, Before
<1> QED BY <1>1, <1>2

LEMMA ReachExitSame ==
  ASSUME UNCHANGED vars
  PROVE  ReachExit' = ReachExit
<1>1. graph' = graph /\ exitlist' = exitlist
  BY DEF vars, treevars, dfsvars
<1> QED BY <1>1 DEF ReachExit, Ins

LEMMA PostSweepEnds ==
  ASSUME PostWalked, PostTypes, PostClimbInv, PostSweptInv, MissedInv, EndPostSweep
  PROVE  \/ /\ post' = "sweep" /\ calls' = calls /\ post_immed_dom' = post_immed_dom
            /\ PostClimbInv' /\ PostSweptInv' /\ MissedInv' /\ PostWalkInv'
         \/ /\ post' = "done" /\ calls' = calls + 1 /\ Exact'
            /\ post_immed_dom' \in [AllBlocks -> AllBlocks \union {NONE}]
            /\ post_immed_dom'[0] = post_immed_dom[0]
<1> DEFINE N == Len(postorder)
<1>1. /\ UNCHANGED vars /\ UNCHANGED walkvars /\ post = "sweep" /\ posti = 0 /\ ~Stale
      /\ postorder' = postorder /\ exitlist' = exitlist
  BY DEF EndPostSweep, walkvars, vars, treevars, dfsvars
<1>2. /\ Returned' = Returned /\ PostSuccs' = PostSuccs /\ PostRank' = PostRank /\ PostWalkInv'
      /\ Before' = Before /\ ReachExit' = ReachExit
  BY <1>1, PostOrderSame, PostGraphSame, ReachExitSame DEF PostWalked
<1>3. /\ Returned \subseteq AllBlocks /\ exit \in Returned /\ 0 \notin Returned
      /\ N \in Nat /\ N > 0 /\ postorder[N] = exit
      /\ \A c \in Returned : rindex[c] \in 1 .. N /\ postorder[rindex[c]] = c
      /\ ReachExit = Returned
  BY PostWalkEnds
<1>4. /\ postchanged \in BOOLEAN
      /\ \A n \in 1 .. N :
           /\ postorder[n] \in PostKnown
           /\ n < N /\ ~postchanged =>
                \/ post_immed_dom[postorder[n]] = exit
                \/ post_immed_dom[postorder[n]] = NewPostIdom(postorder[n])
  BY <1>1, <1>3 DEF PostSweptInv
<1>5. CASE postchanged
  <2>1. /\ posti' = N - 1 /\ postchanged' = FALSE
        /\ post' = "sweep" /\ calls' = calls /\ post_immed_dom' = post_immed_dom
    BY <1>1, <1>5 DEF EndPostSweep
  <2>2. PostKnown' = PostKnown /\ PostIdoms' = PostIdoms
    BY <2>1, <1>2 DEF PostKnown, PostIdoms
  <2>3. PostClimbInv'
    BY <2>2, <1>2 DEF PostClimbInv
  <2>4. PostSweptInv'
    <3>1. posti' \in 0 .. Len(postorder') - 1
      BY <2>1, <1>1, <1>3
    <3>2. ASSUME NEW n \in posti' + 1 .. Len(postorder')
          PROVE  n = N /\ ~(n < Len(postorder'))
      BY <2>1, <1>1, <1>3
    <3>3. N \in 1 .. N
      BY <1>3
    <3>4. postorder'[N] \in PostKnown'
      BY <3>3, <2>2, <1>1, <1>4
    <3> QED BY <3>1, <3>2, <3>4, <2>1 DEF PostSweptInv
  <2>5. MissedInv'
    BY <2>1, <1>1, <1>2 DEF MissedInv
  <2> QED BY <2>1, <2>3, <2>4, <2>5, <1>2
<1>6. CASE ~postchanged
  <2>1. /\ post' = "done" /\ calls' = calls + 1
        /\ post_immed_dom' = [post_immed_dom EXCEPT ![exit] = NONE]
    BY <1>1, <1>6 DEF EndPostSweep
  <2>2. /\ post_immed_dom'[exit] = NONE
        /\ \A b \in AllBlocks : b # exit => post_immed_dom'[b] = post_immed_dom[b]
        /\ post_immed_dom' \in [AllBlocks -> AllBlocks \union {NONE}]
    BY <2>1, AllBlocksFacts DEF PostTypes
  <2>3. ASSUME NEW b \in Returned
        PROVE  /\ b \in PostKnown
               /\ b # exit => post_immed_dom[b] = exit \/ post_immed_dom[b] = NewPostIdom(b)
    <3>1. rindex[b] \in 1 .. N /\ postorder[rindex[b]] = b
      BY <1>3
    <3>2. b # exit => rindex[b] < N
      BY <3>1, <1>3
    <3> QED BY <3>1, <3>2, <1>4, <1>6
  <2>4. PostKnown = Returned
    BY <2>3 DEF PostKnown, Having
  <2>5. \A b \in Returned \ {exit} : post_immed_dom[b] = Idom(Before, exit, b)
    BY <2>3, <2>4, <1>1, PostDominatorsFound
  <2>6. \A b \in ReachExit' \ {exit} : post_immed_dom'[b] = Idom(Before', exit, b)
    BY <2>2, <2>5, <1>2, <1>3
  <2>7. ASSUME calls' = 1 \/ ReachExit' \union {0, exit} = AllBlocks,
               NEW b \in AllBlocks \ (ReachExit' \union {exit})
        PROVE  post_immed_dom'[b] = IF b \in Range(exitlist) THEN exit ELSE NONE
    <3>1. b \in AllBlocks \ Returned /\ post_immed_dom'[b] = post_immed_dom[b]
      BY <2>2, <1>2, <1>3
    <3>2. CASE b \in Range(exitlist)
      BY <3>1, <3>2 DEF MissedInv
    <3>3. CASE b \notin Range(exitlist)
      <4>1. CASE calls' = 1
        <5>1. calls = 0
          BY <4>1, <2>1 DEF PostTypes
        <5> QED BY <5>1, <3>1, <3>3 DEF MissedInv
      <4>2. CASE ReachExit' \union {0, exit} = AllBlocks
        <5>1. b = 0
          BY <4>2, <2>7
        <5>2. Block # {0}
          BY <5>1, <3>3, LonelyExit DEF PostWalked
        <5> QED BY <5>1, <5>2, <3>1, <3>3 DEF PostWalked, EntryInv, NoWayBack
      <4> QED BY <4>1, <4>2, <2>7
    <3> QED BY <3>2, <3>3
  <2>8. Exact'
    BY <2>2, <2>6, <2>7, <1>1 DEF Exact
  <2>9. post_immed_dom'[0] = post_immed_dom[0]
    BY <2>2, AllBlocksFacts
  <2> QED BY <2>1, <2>2, <2>8, <2>9
<1> QED BY <1>4, <1>5, <1>6

(***************************************************************************)
(* The run of structure_reset and calc_post_dominator                      *)
(***************************************************************************)
LEMMA EntryStands ==
  ASSUME Inv, EntryInv, Step, post_immed_dom' = post_immed_dom
  PROVE  EntryInv' /\ phase # "done"
<1> SUFFICES /\ phase # "done"
             /\ \/ succs' = succs /\ phase # "edit"
                \/ \A p \in Block : 0 \notin succs'[p]
  BY DEF EntryInv, NoWayBack
<1>1. TreeTypes /\ (phase = "tree" => WalkInv)
  BY DEF Inv, TreeInv
<1>2. CASE StartTree
  <2>1. phase = "edit" /\ graph' = graph
    BY <1>2 DEF StartTree
  <2>2. succs' = succs
    BY <2>1 DEF succs
  <2> QED BY <2>1, <2>2, <1>1, <1>2, EntryFound
<1>3. CASE Discover
  <2>1. phase = "tree"
    BY <1>3 DEF Discover
  <2>2. state # << >> /\ slot <= Len(graph.out[bl]) /\ Take(tree) /\ tree \in Labels
    BY <2>1, <1>1, <1>3, DiscoverChanges
  <2>3. succs' = succs
    BY <2>1, <2>2, <1>1, EdgeTaken
  <2> QED BY <2>1, <2>3
<1>4. CASE Classify
  <2> DEFINE lab == IF index[child] = -1 THEN back
                    ELSE IF dfnum[bl] < dfnum[child] THEN forward ELSE cross
  <2>1. phase = "tree" /\ state # << >> /\ slot <= Len(graph.out[bl]) /\ Take(lab)
    BY <1>4 DEF Classify
  <2>2. lab \in Labels
    BY DEF Labels
  <2> HIDE DEF lab
  <2>3. succs' = succs
    BY <2>1, <2>2, <1>1, EdgeTaken
  <2> QED BY <2>1, <2>3
<1>5. CASE Finish
  <2>1. phase = "tree" /\ graph' = graph
    BY <1>5 DEF Finish
  <2> QED BY <2>1 DEF succs
<1>6. CASE StartLoops
  <2>1. phase = "tree" /\ graph' = graph
    BY <1>6 DEF StartLoops, EndTree
  <2> QED BY <2>1 DEF succs
<1>7. CASE CollectSources \/ Expand \/ Collapse
  <2>1. phase = "loop" /\ graph' = graph
    BY <1>7 DEF CollectSources, Expand, Collapse, treevars
  <2> QED BY <2>1 DEF succs
<1>8. CASE StartDominators
  <2>1. phase = "loop" /\ graph' = graph
    BY <1>8 DEF StartDominators
  <2> QED BY <2>1 DEF succs
<1>9. CASE Sweep \/ EndSweep
  <2>1. phase = "dominators" /\ graph' = graph
    BY <1>9 DEF Sweep, EndSweep, treevars
  <2> QED BY <2>1 DEF succs
<1> QED BY <1>2, <1>3, <1>4, <1>5, <1>6, <1>7, <1>8, <1>9 DEF Step

LEMMA PostStarts ==
  ASSUME PostInit
  PROVE  PostInv
<1>1. /\ Init /\ post = "none" /\ calls = 0
      /\ post_immed_dom = [b \in AllBlocks |-> NONE] /\ rindex = [b \in AllBlocks |-> 0]
  BY DEF PostInit
<1>2. Inv
  BY <1>1, ResetStarts
<1>3. phase = "edit"
  BY <1>1 DEF Init, TreeInit, TreeInitOf
<1>4. PostTypes /\ FreshInv
  BY <1>1 DEF PostTypes, FreshInv
<1>5. EntryInv
  BY <1>1, <1>3, AllBlocksFacts DEF EntryInv, NoWayBack
<1> QED BY <1>1, <1>2, <1>4, <1>5 DEF PostInv, PostDominatorsExact

\* A step of calc_post_dominator leaves everything else as it is.
LEMMA PostSteps ==
  ASSUME PostInv, PostStep
  PROVE  PostInv'
<1>1. UNCHANGED vars
  BY DEF PostStep, StartPost, WalkIn, WalkBack, StartPostSweeps, PostSweep, PostLost, EndPostSweep
<1>2. Inv' /\ phase' = phase /\ succs' = succs /\ (Done' <=> Done)
  <2>1. Inv'
    BY <1>1, ResetSteps DEF PostInv
  <2>2. phase' = phase /\ graph' = graph
    BY <1>1 DEF vars, treevars
  <2> QED BY <2>1, <2>2 DEF succs, Done
<1>3. Inv /\ PostTypes /\ EntryInv /\ FreshInv
  BY DEF PostInv
\* Every call runs on a graph that structure_reset is through with.
<1>4. ASSUME Done PROVE TreeTypes /\ Numbered /\ ExitInv /\ phase # "edit"
  BY <1>3, <1>4 DEF Inv, TreeInv, Done
<1>5. post_immed_dom'[0] = post_immed_dom[0] => EntryInv'
  BY <1>2, <1>3 DEF EntryInv, NoWayBack
<1>6. CASE StartPost
  <2>1. /\ Done /\ post = "none" /\ post' = "walk"
        /\ rindex' = rindex /\ post_immed_dom' = post_immed_dom /\ calls' = calls
    BY <1>6 DEF StartPost
  <2>2. PostWalkInv'
    BY <2>1, <1>3, <1>4, <1>6, PostWalkStarts
  <2>3. PostTypes' /\ FreshInv' /\ EntryInv'
    BY <2>1, <1>2, <1>3, <1>5 DEF PostTypes, FreshInv
  <2> QED BY <2>1, <2>2, <2>3, <1>2 DEF PostInv, PostDominatorsExact
<1>7. CASE WalkIn \/ WalkBack
  <2>1. /\ post = "walk" /\ post' = "walk" /\ Done
        /\ post_immed_dom' = post_immed_dom /\ calls' = calls
    BY <1>3, <1>7 DEF WalkIn, WalkBack, PostTypes
  <2>2. PostWalkInv /\ rindex \in [AllBlocks -> Nat]
    BY <2>1, <1>3 DEF PostInv, PostTypes
  <2>3. PostWalkInv' /\ rindex' \in [AllBlocks -> Nat]
    <3>1. CASE WalkIn
      <4>1. rindex' = rindex
        BY <3>1 DEF WalkIn
      <4> QED BY <4>1, <3>1, <2>1, <2>2, <1>3, <1>4, PostWalkGoesIn
    <3>2. CASE WalkBack
      BY <3>2, <2>1, <2>2, <1>3, <1>4, PostWalkReturns
    <3> QED BY <3>1, <3>2, <1>7
  <2>4. PostTypes' /\ FreshInv' /\ EntryInv'
    BY <2>1, <2>3, <1>2, <1>3, <1>5 DEF PostTypes, FreshInv
  <2> QED BY <2>1, <2>3, <2>4, <1>2 DEF PostInv, PostDominatorsExact
<1>8. CASE StartPostSweeps
  <2>1. /\ post = "walk" /\ poststate = << >> /\ post' = "sweep" /\ Done
        /\ poststate' = poststate /\ rindex' = rindex /\ calls' = calls
    BY <1>3, <1>8 DEF StartPostSweeps, walkvars, PostTypes
  <2>2. PostWalked
    BY <2>1, <1>3, <1>4 DEF PostInv, PostWalked
  <2>3. /\ PostClimbInv' /\ PostSweptInv' /\ MissedInv' /\ PostWalkInv'
        /\ post_immed_dom' \in [AllBlocks -> AllBlocks \union {NONE}]
        /\ post_immed_dom'[0] # NONE => Block = {0}
    BY <2>1, <2>2, <1>3, <1>8, PostSweepsStart
  <2>4. PostTypes' /\ FreshInv' /\ EntryInv'
    BY <2>1, <2>3, <1>2, <1>3 DEF PostTypes, FreshInv, EntryInv, NoWayBack
  <2> QED BY <2>1, <2>3, <2>4, <1>2 DEF PostInv, PostDominatorsExact
<1>9. ASSUME post = "sweep"
      PROVE  /\ PostWalked /\ Done /\ poststate = << >>
             /\ PostWalkInv /\ PostClimbInv /\ PostSweptInv /\ MissedInv
  BY <1>3, <1>4, <1>9 DEF PostInv, PostWalked, PostTypes
<1>10. CASE PostSweep
  <2>1. /\ post = "sweep" /\ post' = "sweep" /\ poststate' = poststate /\ rindex' = rindex /\ calls' = calls
    BY <1>10 DEF PostSweep, walkvars
  <2>2. /\ PostClimbInv' /\ PostSweptInv' /\ MissedInv' /\ PostWalkInv'
        /\ post_immed_dom' \in [AllBlocks -> AllBlocks \union {NONE}]
        /\ post_immed_dom'[0] = post_immed_dom[0]
    BY <2>1, <1>3, <1>9, <1>10, PostSweepClimbs
  <2>3. PostTypes' /\ FreshInv' /\ EntryInv'
    BY <2>1, <2>2, <1>2, <1>3, <1>5, <1>9 DEF PostTypes, FreshInv
  <2> QED BY <2>1, <2>2, <2>3, <1>2, <1>9 DEF PostInv, PostDominatorsExact
<1>11. CASE PostLost
  <2>1. /\ post = "sweep" /\ Stale /\ post' = "lost" /\ rindex' = rindex
        /\ post_immed_dom' = post_immed_dom /\ calls' = calls
    BY <1>11 DEF PostLost, walkvars
  <2>2. calls # 0
    BY <2>1, <1>9, FirstCallFinds
  <2>3. PostTypes' /\ FreshInv' /\ EntryInv'
    BY <2>1, <2>2, <1>2, <1>3, <1>5, <1>9 DEF PostTypes, FreshInv
  <2> QED BY <2>1, <2>3, <1>2 DEF PostInv, PostDominatorsExact
<1>12. CASE EndPostSweep
  <2>1. post = "sweep" /\ poststate' = poststate /\ rindex' = rindex
    BY <1>12 DEF EndPostSweep, walkvars
  <2>2. \/ /\ post' = "sweep" /\ calls' = calls /\ post_immed_dom' = post_immed_dom
           /\ PostClimbInv' /\ PostSweptInv' /\ MissedInv' /\ PostWalkInv'
        \/ /\ post' = "done" /\ calls' = calls + 1 /\ Exact'
           /\ post_immed_dom' \in [AllBlocks -> AllBlocks \union {NONE}]
           /\ post_immed_dom'[0] = post_immed_dom[0]
    BY <2>1, <1>3, <1>9, <1>12, PostSweepEnds
  <2>3. PostTypes' /\ FreshInv' /\ EntryInv'
    BY <2>1, <2>2, <1>2, <1>3, <1>5, <1>9 DEF PostTypes, FreshInv
  <2>4. PostDominatorsExact'
    BY <2>2, ExactMeans
  <2> QED BY <2>1, <2>2, <2>3, <2>4, <1>2, <1>9 DEF PostInv
<1> QED BY <1>6, <1>7, <1>8, <1>10, <1>11, <1>12 DEF PostStep

LEMMA PostStands ==
  ASSUME PostInv, UNCHANGED <<vars, postvars>>
  PROVE  PostInv'
<1>1. UNCHANGED vars /\ UNCHANGED walkvars
  BY DEF postvars
<1>2. /\ post' = post /\ poststate' = poststate /\ postorder' = postorder /\ rindex' = rindex
      /\ post_immed_dom' = post_immed_dom /\ posti' = posti /\ postchanged' = postchanged /\ calls' = calls
  BY DEF postvars, walkvars
<1>3. /\ Inv' /\ phase' = phase /\ succs' = succs /\ exitlist' = exitlist /\ (Done' <=> Done)
  <2>1. Inv'
    BY <1>1, ResetSteps DEF PostInv
  <2>2. phase' = phase /\ graph' = graph /\ exitlist' = exitlist
    BY <1>1 DEF vars, treevars, dfsvars
  <2> QED BY <2>1, <2>2 DEF succs, Done
<1>4. /\ Returned' = Returned /\ PostSuccs' = PostSuccs /\ PostRank' = PostRank
      /\ PostWalkInv => PostWalkInv'
      /\ \A b : NewPostIdom(b)' = NewPostIdom(b)
      /\ ReachExit' = ReachExit /\ Before' = Before
  BY <1>1, <1>2, PostOrderSame, ReachExitSame, PostGraphSame
<1>5. PostIdoms' = PostIdoms /\ PostKnown' = PostKnown
  BY <1>2, <1>4 DEF PostIdoms, PostKnown
<1>6. PostTypes' /\ EntryInv' /\ FreshInv'
  BY <1>2, <1>3 DEF PostInv, PostTypes, EntryInv, NoWayBack, FreshInv
<1>7. (PostClimbInv => PostClimbInv') /\ (MissedInv => MissedInv')
  BY <1>2, <1>3, <1>4, <1>5 DEF PostClimbInv, MissedInv
<1>8. PostSweptInv => PostSweptInv'
  BY <1>2, <1>4, <1>5 DEF PostSweptInv
<1>9. PostDominatorsExact'
  <2>1. Exact => Exact'
    BY <1>2, <1>3, <1>4 DEF Exact
  <2> QED BY <2>1, <1>2, ExactMeans DEF PostInv
<1> QED BY <1>2, <1>3, <1>4, <1>6, <1>7, <1>8, <1>9 DEF PostInv

LEMMA PostKeeps ==
  ASSUME PostInv, [PostNext]_<<vars, postvars>>
  PROVE  PostInv'
<1>1. CASE Step /\ UNCHANGED postvars
  <2>1. /\ post' = post /\ rindex' = rindex /\ post_immed_dom' = post_immed_dom /\ calls' = calls
    BY <1>1 DEF postvars, walkvars
  <2>2. Inv'
    BY <1>1, ResetSteps DEF PostInv, Next
  <2>3. EntryInv' /\ phase # "done"
    BY <2>1, <1>1, EntryStands DEF PostInv
  <2>4. post = "none"
    BY <2>3 DEF PostInv, PostTypes, Done
  <2>5. PostTypes' /\ FreshInv'
    BY <2>1, <2>4 DEF PostInv, PostTypes, FreshInv
  <2> QED BY <2>1, <2>2, <2>3, <2>4, <2>5 DEF PostInv, PostDominatorsExact
<1>2. CASE PostEdit
  <2>1. /\ Edit /\ UNCHANGED <<loopvars, domvars>> /\ post \notin {"walk", "sweep"} /\ post' = "none"
        /\ rindex' = rindex /\ post_immed_dom' = post_immed_dom /\ calls' = calls
    BY <1>2 DEF PostEdit, walkvars
  <2>2. Inv'
    BY <2>1, ResetSteps DEF PostInv, Next
  <2>3. phase' = "edit"
    BY <2>1 DEF Edit, RemoveEdge
  <2>4. EntryInv'
    BY <2>1, <2>3 DEF PostInv, EntryInv, NoWayBack
  <2>5. PostTypes'
    BY <2>1 DEF PostInv, PostTypes
  <2>6. FreshInv'
    BY <2>1 DEF PostInv, FreshInv
  <2> QED BY <2>1, <2>2, <2>4, <2>5, <2>6 DEF PostInv, PostDominatorsExact
<1>3. CASE PostStep
  BY <1>3, PostSteps
<1>4. CASE UNCHANGED <<vars, postvars>>
  BY <1>4, PostStands
<1> QED BY <1>1, <1>2, <1>3, <1>4 DEF PostNext, Run

LEMMA PostInvariant == PostSpec => []PostInv
<1> QED BY PostStarts, PostKeeps, PTL DEF PostSpec

\* Whenever calc_post_dominator (block.cc) comes to an end, and however often it has run
\* before on other graphs, the blocks that lead to an exit have the immediate dominators of
\* the reversed graph.
THEOREM PostDominatorsCorrect == PostSpec => []PostDominatorsExact
<1>1. PostInv => PostDominatorsExact
  BY DEF PostInv
<1> QED BY <1>1, PostInvariant, PTL

\* The first call of calc_post_dominator on a function (block.cc) meets no block that has a
\* post dominator left over, whatever the passes have done to the graph before.
THEOREM FirstCallSafe == PostSpec => [](calls = 0 => post # "lost" /\ ~(post = "sweep" /\ Stale))
<1>1. PostInv => (calls = 0 => post # "lost" /\ ~(post = "sweep" /\ Stale))
  <2> SUFFICES ASSUME PostInv, calls = 0 PROVE post # "lost" /\ ~(post = "sweep" /\ Stale)
    OBVIOUS
  <2>1. post # "lost"
    BY DEF PostInv, FreshInv
  <2>2. ASSUME post = "sweep" PROVE ~Stale
    <3>1. PostWalked /\ MissedInv
      BY <2>2 DEF PostInv, PostWalked, Inv, TreeInv, PostTypes, Done
    <3> QED BY <3>1, FirstCallFinds
  <2> QED BY <2>1, <2>2
<1> QED BY <1>1, PostInvariant, PTL
==============================================================================
