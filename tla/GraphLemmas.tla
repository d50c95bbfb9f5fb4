------------------------------ MODULE GraphLemmas ------------------------------
(***************************************************************************)
(* Mathematics that the modules of proofs share: sets of positions and     *)
(* lists that lose an element; what ReachableFrom stands for; and that the *)
(* primitives of EdgeOps keep edge lists paired, for any set of blocks and *)
(* of label bits.                                                          *)
(***************************************************************************)
EXTENDS EdgeOps, FlowGraphs, Integers, SequenceTheorems, FiniteSetTheorems, WellFoundedInduction, TLAPS

\* A nonempty set of naturals has a least element.
LEMMA Smallest ==
  ASSUME NEW S \in SUBSET Nat, S # {}
  PROVE  \E m \in S : \A k \in S : m <= k
<1> DEFINE R == OpToRel(<, Nat)
<1>1. \A x \in Nat, y \in Nat : <<x, y>> \in R <=> x < y
  BY DEF OpToRel
<1>2. IsWellFoundedOn(R, Nat)
  BY NatLessThanWellFounded
<1> HIDE DEF R
<1>3. \E m \in S : \A k \in S : <<k, m>> \notin R
  BY <1>2, WFMin
<1>4. PICK m \in S : \A k \in S : <<k, m>> \notin R
  BY <1>3
<1>5. ASSUME NEW k \in S PROVE m <= k
  <2>1. k \in Nat /\ m \in Nat /\ <<k, m>> \notin R
    BY <1>4
  <2>2. ~(k < m)
    BY <2>1, <1>1
  <2> QED BY <2>1, <2>2
<1> QED BY <1>5

\* What RemoveAt of the community modules returns.
LEMMA RemoveAtFacts ==
  ASSUME NEW S, NEW s \in Seq(S), NEW i \in 1 .. Len(s)
  PROVE  /\ RemoveAt(s, i) \in Seq(S)
         /\ Len(RemoveAt(s, i)) = Len(s) - 1
         /\ DOMAIN RemoveAt(s, i) = 1 .. Len(s) - 1
         /\ \A k \in 1 .. Len(s) - 1 : RemoveAt(s, i)[k] = IF k < i THEN s[k] ELSE s[k + 1]
<1> DEFINE lo == SubSeq(s, 1, i - 1)
           hi == SubSeq(s, i + 1, Len(s))
<1>0. Len(s) \in Nat /\ i \in Nat
  OBVIOUS
<1>1. \A k \in 1 .. Len(s) : s[k] \in S
  OBVIOUS
<1>2. /\ lo \in Seq(S) /\ Len(lo) = i - 1
      /\ \A k \in 1 .. i - 1 : lo[k] = s[k]
  BY <1>1, SubSeqProperties
<1>3. /\ hi \in Seq(S) /\ Len(hi) = Len(s) - i
      /\ \A k \in 1 .. Len(s) - i : hi[k] = s[i + k]
  BY <1>1, SubSeqProperties
<1>5. RemoveAt(s, i) = lo \o hi
  BY DEF RemoveAt
<1> HIDE DEF lo, hi
<1>4. /\ lo \o hi \in Seq(S)
      /\ Len(lo \o hi) = Len(s) - 1
      /\ \A k \in 1 .. Len(s) - 1 : (lo \o hi)[k] = IF k < i THEN s[k] ELSE s[k + 1]
  <2>1. lo \o hi \in Seq(S) /\ Len(lo \o hi) = Len(lo) + Len(hi)
    BY <1>2, <1>3, ConcatProperties
  <2>2. ASSUME NEW k \in 1 .. Len(s) - 1
        PROVE  (lo \o hi)[k] = IF k <= i - 1 THEN lo[k] ELSE hi[k - (i - 1)]
    <3>1. k \in 1 .. Len(lo) + Len(hi)
      BY <1>2, <1>3
    <3>2. (lo \o hi)[k] = IF k <= Len(lo) THEN lo[k] ELSE hi[k - Len(lo)]
      BY <1>2, <1>3, <3>1, ConcatProperties
    <3> QED BY <3>2, <1>2
  <2>3. ASSUME NEW k \in 1 .. Len(s) - 1
        PROVE  (lo \o hi)[k] = IF k < i THEN s[k] ELSE s[k + 1]
    <3>1. CASE k < i
      <4>1. k \in 1 .. i - 1 /\ k <= i - 1
        BY <3>1, <1>0
      <4> QED BY <4>1, <3>1, <2>2, <1>2
    <3>2. CASE ~(k < i)
      <4>1. /\ k - (i - 1) \in 1 .. Len(s) - i
            /\ i + (k - (i - 1)) = k + 1
            /\ ~(k <= i - 1)
        BY <3>2, <1>0
      <4>2. hi[k - (i - 1)] = s[k + 1]
        BY <4>1, <1>3
      <4> QED BY <3>2, <4>1, <4>2, <2>2
    <3> QED BY <3>1, <3>2
  <2> QED BY <2>1, <2>3, <1>0, <1>2, <1>3
<1> QED BY <1>4, <1>5

\* A set of positions has as many elements when those behind a gap move down by one.
LEMMA ClosedGap ==
  ASSUME NEW n \in Nat, NEW S \in SUBSET (1 .. n), NEW gap \in 1 .. n, gap \notin S,
         NEW T \in SUBSET (1 .. n - 1),
         \A k \in 1 .. n - 1 : k \in T <=> (IF k < gap THEN k ELSE k + 1) \in S
  PROVE  Cardinality(T) = Cardinality(S)
<1> DEFINE F == [k \in T |-> IF k < gap THEN k ELSE k + 1]
<1>1. F \in [T -> S]
  OBVIOUS
<1>2. \A a, b \in T : F[a] = F[b] => a = b
  OBVIOUS
<1>3. \A s \in S : \E k \in T : F[k] = s
  <2> TAKE s \in S
  <2> DEFINE k == IF s < gap THEN s ELSE s - 1
  <2>1. k \in 1 .. n - 1 /\ (IF k < gap THEN k ELSE k + 1) = s
    OBVIOUS
  <2>2. k \in T
    BY <2>1
  <2> QED BY <2>1, <2>2
<1>4. IsFiniteSet(1 .. n) /\ IsFiniteSet(1 .. n - 1)
  BY FS_Interval
<1>5. IsFiniteSet(S) /\ IsFiniteSet(T)
  BY <1>4, FS_Subset
<1>6. F \in Bijection(T, S)
  BY <1>1, <1>2, <1>3 DEF Bijection, Injection, Surjection, IsInjective
<1>7. ExistsBijection(T, S)
  BY <1>6 DEF ExistsBijection
<1> QED BY <1>5, <1>7, FS_Bijection

\* Counting a set that gains or loses one element, on a condition.
LEMMA GainOne ==
  ASSUME NEW P, IsFiniteSet(P), Cardinality(P) \in Nat, NEW k, k \notin P, NEW Q, NEW c \in BOOLEAN,
         Q = IF c THEN P \union {k} ELSE P
  PROVE  Cardinality(Q) = Cardinality(P) + (IF c THEN 1 ELSE 0)
<1>1. Cardinality(P \union {k}) = Cardinality(P) + 1
  BY FS_AddElement
<1>2. CASE c
  BY <1>1, <1>2
<1>3. CASE ~c
  BY <1>3
<1> QED BY <1>2, <1>3

LEMMA LoseOne ==
  ASSUME NEW P, IsFiniteSet(P), Cardinality(P) \in Nat, NEW k, NEW Q, Q = P \ {k}
  PROVE  /\ IsFiniteSet(Q) /\ Cardinality(Q) \in Nat
         /\ Cardinality(Q) = Cardinality(P) - (IF k \in P THEN 1 ELSE 0)
<1>1. IsFiniteSet(Q)
  BY FS_RemoveElement
<1>2. Cardinality(Q) = IF k \in P THEN Cardinality(P) - 1 ELSE Cardinality(P)
  BY FS_RemoveElement
<1>3. CASE k \in P
  BY <1>1, <1>2, <1>3, FS_CardinalityType
<1>4. CASE k \notin P
  BY <1>1, <1>2, <1>4, FS_CardinalityType
<1> QED BY <1>3, <1>4

\* How often a list has an element.
Occurrences(s, x) == Cardinality({i \in DOMAIN s : s[i] = x})

LEMMA PlacesFinite ==
  ASSUME NEW S, NEW s \in Seq(S), NEW x
  PROVE  /\ IsFiniteSet({i \in DOMAIN s : s[i] = x})
         /\ Occurrences(s, x) \in Nat
         /\ Occurrences(s, x) = 0 <=> \A i \in DOMAIN s : s[i] # x
<1> DEFINE P == {i \in DOMAIN s : s[i] = x}
<1>1. P \subseteq 1 .. Len(s) /\ IsFiniteSet(1 .. Len(s))
  BY FS_Interval
<1>2. IsFiniteSet(P) /\ Cardinality(P) \in Nat
  BY <1>1, FS_Subset, FS_CardinalityType
<1>3. Cardinality(P) = 0 <=> P = {}
  BY <1>2, FS_EmptySet
<1>4. P = {} <=> \A i \in DOMAIN s : s[i] # x
  OBVIOUS
<1> HIDE DEF P
<1> QED BY <1>2, <1>3, <1>4 DEF Occurrences, P

\* An element put last is counted once more.
LEMMA CountAppended ==
  ASSUME NEW S, NEW s \in Seq(S), NEW e \in S, NEW x
  PROVE  Occurrences(Append(s, e), x) = Occurrences(s, x) + (IF x = e THEN 1 ELSE 0)
<1> DEFINE t == Append(s, e)
           n == Len(s)
           P == {i \in DOMAIN s : s[i] = x}
           Q == {i \in DOMAIN t : t[i] = x}
<1>1. /\ n \in Nat /\ DOMAIN s = 1 .. n /\ DOMAIN t = 1 .. n + 1
      /\ t[n + 1] = e /\ \A k \in 1 .. n : t[k] = s[k]
  BY AppendProperties
<1>2. IsFiniteSet(P) /\ Cardinality(P) \in Nat
  BY PlacesFinite DEF Occurrences
<1> HIDE DEF t, n
<1>3. n + 1 \notin P /\ Q = IF x = e THEN P \union {n + 1} ELSE P
  BY <1>1
<1> HIDE DEF P, Q
<1>4. Cardinality(Q) = Cardinality(P) + (IF x = e THEN 1 ELSE 0)
  BY <1>2, <1>3, GainOne
<1> QED BY <1>4 DEF Occurrences, t, P, Q

\* An element that is cut out is counted once less.
LEMMA CountRemoved ==
  ASSUME NEW S, NEW s \in Seq(S), NEW j \in 1 .. Len(s), NEW x
  PROVE  Occurrences(RemoveAt(s, j), x) = Occurrences(s, x) - (IF x = s[j] THEN 1 ELSE 0)
<1> DEFINE t == RemoveAt(s, j)
           n == Len(s)
           P == {i \in DOMAIN s : s[i] = x}
           Q == {i \in DOMAIN t : t[i] = x}
<1>1. /\ DOMAIN t = 1 .. n - 1
      /\ \A k \in 1 .. n - 1 : t[k] = IF k < j THEN s[k] ELSE s[k + 1]
  BY RemoveAtFacts
<1>2. n \in Nat /\ j \in 1 .. n /\ DOMAIN s = 1 .. n
  OBVIOUS
<1>3. IsFiniteSet(P) /\ Cardinality(P) \in Nat
  BY PlacesFinite DEF Occurrences
<1> HIDE DEF t, n
<1>4. /\ P \ {j} \in SUBSET (1 .. n) /\ j \notin P \ {j} /\ Q \in SUBSET (1 .. n - 1)
      /\ j \in P <=> x = s[j]
  BY <1>1, <1>2
<1>5. \A k \in 1 .. n - 1 : k \in Q <=> (IF k < j THEN k ELSE k + 1) \in P \ {j}
  <2> TAKE k \in 1 .. n - 1
  <2>1. k \in 1 .. n /\ k + 1 \in 1 .. n /\ k \in Nat
    BY <1>2
  <2>2. CASE k < j
    BY <2>1, <2>2, <1>1, <1>2
  <2>3. CASE ~(k < j)
    BY <2>1, <2>3, <1>1, <1>2
  <2> QED BY <2>2, <2>3
<1> HIDE DEF P, Q
<1> DEFINE R == P \ {j}
<1>6. Cardinality(R) = Cardinality(P) - (IF x = s[j] THEN 1 ELSE 0)
  BY <1>3, <1>4, LoseOne
<1> HIDE DEF R
<1>7. Cardinality(Q) = Cardinality(R)
  <2>1. R \in SUBSET (1 .. n) /\ j \notin R
    BY <1>4 DEF R
  <2>2. \A k \in 1 .. n - 1 : k \in Q <=> (IF k < j THEN k ELSE k + 1) \in R
    BY <1>5 DEF R
  <2> QED BY <2>1, <2>2, <1>2, <1>4, ClosedGap
<1> QED BY <1>6, <1>7 DEF Occurrences, t, P, Q

\* Two lists of one length that differ in no other place than k.
SameBut(s, t, k) == Len(t) = Len(s) /\ \A i \in DOMAIN s : i # k => s[i] = t[i]

\* An element written over another one.
LEMMA CountWritten ==
  ASSUME NEW S, NEW s \in Seq(S), NEW t \in Seq(S), NEW j \in 1 .. Len(s), SameBut(s, t, j), NEW x
  PROVE  Occurrences(t, x) = Occurrences(s, x) - (IF x = s[j] THEN 1 ELSE 0)
                                               + (IF x = t[j] THEN 1 ELSE 0)
<1> DEFINE P == {i \in DOMAIN s : s[i] = x}
           Q == {i \in DOMAIN t : t[i] = x}
           R == P \ {j}
<1>1. IsFiniteSet(P) /\ Cardinality(P) \in Nat
  BY PlacesFinite DEF Occurrences
<1>2. /\ R = Q \ {j} /\ j \notin R
      /\ j \in P <=> x = s[j]
      /\ Q = IF x = t[j] THEN R \union {j} ELSE R
  BY DEF SameBut
<1> HIDE DEF P, Q
<1>3. /\ IsFiniteSet(R) /\ Cardinality(R) \in Nat
      /\ Cardinality(R) = Cardinality(P) - (IF x = s[j] THEN 1 ELSE 0)
  BY <1>1, <1>2, LoseOne
<1> HIDE DEF R
<1>4. Cardinality(Q) = Cardinality(R) + (IF x = t[j] THEN 1 ELSE 0)
  BY <1>2, <1>3, GainOne
<1> QED BY <1>3, <1>4 DEF Occurrences, P, Q

(***************************************************************************)
(* Reachability.  The definition of ReachableFrom counts rounds, as many   *)
(* as there are nodes; that this is always enough is proved by the         *)
(* smallest round at which a claim would fail.                             *)
(***************************************************************************)

\* What a round adds to the nodes that are known.
Around(succ, known) == known \union UNION {succ[b] : b \in known}

\* f holds the nodes known after every round up to N.
Rounds(succ, S, N, f) ==
  f = [n \in 0 .. N |-> IF n = 0 THEN S ELSE Around(succ, f[n - 1])]

Closed(succ, X) == \A b \in X : succ[b] \subseteq X

LEMMA RoundsExist ==
  ASSUME NEW succ, NEW S, NEW N \in Nat
  PROVE  \E f : Rounds(succ, S, N, f)
<1>. DEFINE Short == {n \in Nat : ~ \E f : Rounds(succ, S, n, f)}
<1>1. SUFFICES ASSUME N \in Short PROVE FALSE
  OBVIOUS
<1>2. PICK n \in Short : \A m \in Short : n <= m
  <2>1. Short \in SUBSET Nat /\ Short # {}
    BY <1>1
  <2>. HIDE DEF Short
  <2>. QED BY <2>1, Smallest
<1>3. n \in Nat /\ ~ \E f : Rounds(succ, S, n, f)
  BY <1>2
<1>4. n # 0
  <2>1. Rounds(succ, S, 0, [m \in 0 .. 0 |-> S])
    BY SMT DEF Rounds
  <2>. QED BY <2>1, <1>3
<1>5. n - 1 \in Nat /\ n - 1 \notin Short
  BY <1>2, <1>3, <1>4
<1>6. PICK f : Rounds(succ, S, n - 1, f)
  BY <1>5
<1>. DEFINE g == [m \in 0 .. n |-> IF m = n THEN Around(succ, f[n - 1]) ELSE f[m]]
<1>7. \A m \in 0 .. n - 1 : f[m] = IF m = 0 THEN S ELSE Around(succ, f[m - 1])
  BY <1>6 DEF Rounds
<1>8. \A m \in 0 .. n : g[m] = IF m = 0 THEN S ELSE Around(succ, g[m - 1])
  <2>. SUFFICES ASSUME NEW m \in 0 .. n PROVE g[m] = IF m = 0 THEN S ELSE Around(succ, g[m - 1])
    OBVIOUS
  <2>1. CASE m = n
    BY <2>1, <1>3, <1>4
  <2>2. CASE m # n
    <3>1. m \in 0 .. n - 1 /\ g[m] = f[m]
      BY <2>2, <1>3
    <3>2. m # 0 => g[m - 1] = f[m - 1]
      BY <2>2, <1>3
    <3>. HIDE DEF g
    <3>. QED BY <3>1, <3>2, <1>7
  <2>. QED BY <2>1, <2>2
<1>9. Rounds(succ, S, n, g)
  <2>1. g = [m \in 0 .. n |-> g[m]]
    OBVIOUS
  <2>. HIDE DEF g
  <2>. QED BY <2>1, <1>8 DEF Rounds
<1>. QED BY <1>3, <1>9

LEMMA ReachableRounds ==
  ASSUME NEW succ, NEW S, Cardinality(DOMAIN succ) \in Nat
  PROVE  \E f : /\ Rounds(succ, S, Cardinality(DOMAIN succ), f)
                /\ ReachableFrom(succ, S) = f[Cardinality(DOMAIN succ)]
<1>. DEFINE N == Cardinality(DOMAIN succ)
            f == CHOOSE g : Rounds(succ, S, N, g)
<1>1. Rounds(succ, S, N, f)
  BY RoundsExist
<1>2. f = CHOOSE g : g = [n \in 0 .. N |-> IF n = 0 THEN S
                           ELSE g[n - 1] \union UNION {succ[b] : b \in g[n - 1]}]
  BY DEF Rounds, Around
<1>3. ReachableFrom(succ, S) = f[N]
  BY <1>2 DEF ReachableFrom
<1>. QED BY <1>1, <1>3

(***************************************************************************)
(* The rounds only add nodes, and once a round adds none no later one does *)
(***************************************************************************)
LEMMA RoundsWithin ==
  ASSUME NEW succ, NEW S, NEW N \in Nat, NEW f, Rounds(succ, S, N, f),
         NEW X, S \subseteq X, Closed(succ, X)
  PROVE  \A n \in 0 .. N : f[n] \subseteq X
<1>. DEFINE Out == {n \in 0 .. N : ~ (f[n] \subseteq X)}
<1>. SUFFICES ASSUME Out # {} PROVE FALSE
  OBVIOUS
<1>1. PICK n \in Out : \A m \in Out : n <= m
  <2>1. Out \subseteq Nat
    OBVIOUS
  <2>. HIDE DEF Out
  <2>. QED BY <2>1, Smallest
<1>2. n \in 0 .. N /\ f[n] = IF n = 0 THEN S ELSE Around(succ, f[n - 1])
  BY DEF Rounds
<1>3. n # 0
  BY <1>2
<1>4. n - 1 \in 0 .. N /\ f[n - 1] \subseteq X
  BY <1>1, <1>2, <1>3
<1>5. Around(succ, f[n - 1]) \subseteq X
  BY <1>4 DEF Closed, Around
<1>. QED BY <1>2, <1>3, <1>5

LEMMA RoundsGrow ==
  ASSUME NEW succ, NEW S, NEW N \in Nat, NEW f, Rounds(succ, S, N, f), S # {},
         \A n \in 0 .. N : IsFiniteSet(f[n])
  PROVE  S \subseteq f[N] /\ (Closed(succ, f[N]) \/ N + 1 <= Cardinality(f[N]))
<1>. DEFINE Good(n) == /\ S \subseteq f[n]
                       /\ Closed(succ, f[n]) \/ n + 1 <= Cardinality(f[n])
            Bad == {n \in 0 .. N : ~Good(n)}
<1>. SUFFICES ASSUME Bad # {} PROVE FALSE
  OBVIOUS
<1>1. PICK n \in Bad : \A m \in Bad : n <= m
  <2>1. Bad \subseteq Nat
    OBVIOUS
  <2>. HIDE DEF Bad
  <2>. QED BY <2>1, Smallest
<1>2. n \in 0 .. N /\ f[n] = IF n = 0 THEN S ELSE Around(succ, f[n - 1])
  BY DEF Rounds
<1>3. CASE n = 0
  <2>1. f[n] = S /\ IsFiniteSet(S)
    BY <1>2, <1>3
  <2>2. Cardinality(S) \in Nat /\ Cardinality(S) # 0
    BY <2>1, FS_CardinalityType, FS_EmptySet
  <2>. QED BY <2>1, <2>2, <1>3
<1>4. CASE n # 0
  <2>1. n - 1 \in 0 .. N /\ Good(n - 1) /\ f[n] = Around(succ, f[n - 1])
    BY <1>1, <1>2, <1>4
  <2>2. f[n - 1] \subseteq f[n]
    BY <2>1 DEF Around
  <2>3. CASE Closed(succ, f[n - 1])
    <3>1. f[n] = f[n - 1]
      BY <2>1, <2>3 DEF Around, Closed
    <3>. QED BY <2>1, <2>3, <3>1, <1>2
  <2>4. CASE ~Closed(succ, f[n - 1])
    <3>1. f[n] # f[n - 1]
      BY <2>1, <2>4 DEF Around, Closed
    <3>2. /\ IsFiniteSet(f[n]) /\ Cardinality(f[n]) \in Nat /\ Cardinality(f[n - 1]) \in Nat
          /\ Cardinality(f[n - 1]) <= Cardinality(f[n])
          /\ Cardinality(f[n]) = Cardinality(f[n - 1]) => f[n] = f[n - 1]
      BY <2>1, <2>2, <1>2, FS_Subset, FS_CardinalityType
    <3>3. n <= Cardinality(f[n - 1])
      BY <2>1, <2>4, <1>2
    <3>. QED BY <2>1, <2>2, <3>1, <3>2, <3>3, <1>2
  <2>. QED BY <2>3, <2>4
<1>. QED BY <1>3, <1>4

\* ReachableFrom is the least set of nodes that holds S and is closed under succ.
THEOREM ReachableIsLeast ==
  ASSUME NEW D, IsFiniteSet(D), NEW succ \in [D -> SUBSET D], NEW S \in SUBSET D
  PROVE  /\ S \subseteq ReachableFrom(succ, S)
         /\ ReachableFrom(succ, S) \subseteq D
         /\ \A b \in ReachableFrom(succ, S) : succ[b] \subseteq ReachableFrom(succ, S)
         /\ \A X : S \subseteq X /\ (\A b \in X : succ[b] \subseteq X)
                     => ReachableFrom(succ, S) \subseteq X
<1>. DEFINE N == Cardinality(D)
<1>1. N \in Nat /\ DOMAIN succ = D
  BY FS_CardinalityType
<1>2. PICK f : Rounds(succ, S, N, f) /\ ReachableFrom(succ, S) = f[N]
  BY <1>1, ReachableRounds
<1>3. \A X : S \subseteq X /\ Closed(succ, X) => \A n \in 0 .. N : f[n] \subseteq X
  BY <1>1, <1>2, RoundsWithin
<1>4. \A n \in 0 .. N : f[n] \subseteq D
  BY <1>3 DEF Closed
<1>5. \A n \in 0 .. N : IsFiniteSet(f[n])
  BY <1>4, FS_Subset
<1>6. S \subseteq f[N] /\ Closed(succ, f[N])
  <2>1. CASE S = {}
    <3>1. f[N] = {}
      BY <1>1, <1>3, <2>1 DEF Closed
    <3>. QED BY <2>1, <3>1 DEF Closed
  <2>2. CASE S # {}
    <3>1. S \subseteq f[N] /\ (Closed(succ, f[N]) \/ N + 1 <= Cardinality(f[N]))
      BY <1>1, <1>2, <1>5, <2>2, RoundsGrow
    <3>2. Cardinality(f[N]) <= N /\ Cardinality(f[N]) \in Nat
      BY <1>1, <1>4, <1>5, FS_Subset, FS_CardinalityType
    <3>. QED BY <3>1, <3>2, <1>1
  <2>. QED BY <2>1, <2>2
<1>7. f[N] \subseteq D
  BY <1>1, <1>4
<1>8. \A X : S \subseteq X /\ Closed(succ, X) => f[N] \subseteq X
  BY <1>1, <1>3
<1>. HIDE DEF N
<1>. QED BY <1>2, <1>6, <1>7, <1>8 DEF Closed

(***************************************************************************)
(* Recursive functions.  The step from one value to the next is a function *)
(* F[n]; that the recursion has a solution is proved by the shortest       *)
(* stretch that would have none.                                           *)
(***************************************************************************)
LEMMA UpTo ==
  ASSUME NEW N \in Nat, NEW G, 0 \in G, \A n \in 1 .. N : n - 1 \in G => n \in G
  PROVE  \A n \in 0 .. N : n \in G
<1> DEFINE Bad == {n \in 0 .. N : n \notin G}
<1> SUFFICES ASSUME Bad # {} PROVE FALSE
  OBVIOUS
<1>1. PICK n \in Bad : \A m \in Bad : n <= m
  <2>1. Bad \in SUBSET Nat
    OBVIOUS
  <2> HIDE DEF Bad
  <2> QED BY <2>1, Smallest
<1>2. n \in 0 .. N /\ n # 0
  OBVIOUS
<1>3. n \in 1 .. N /\ n - 1 \in 0 .. N /\ n - 1 \notin Bad
  BY <1>1, <1>2
<1> QED BY <1>3

Solves(g, D, x, n, F) ==
  /\ g \in [0 .. n -> D]
  /\ \A m \in 0 .. n : g[m] = IF m = 0 THEN x ELSE F[m][g[m - 1]]

LEMMA RecursionExists ==
  ASSUME NEW D, NEW x \in D, NEW N \in Nat, NEW F \in [1 .. N -> [D -> D]]
  PROVE  \E g : Solves(g, D, x, N, F)
<1> DEFINE G == {n \in 0 .. N : \E g : Solves(g, D, x, n, F)}
<1>1. 0 \in G
  <2>1. Solves([m \in 0 .. 0 |-> x], D, x, 0, F)
    BY DEF Solves
  <2> QED BY <2>1
<1>2. ASSUME NEW n \in 1 .. N, n - 1 \in G PROVE n \in G
  <2>1. PICK f : Solves(f, D, x, n - 1, F)
    BY <1>2
  <2> DEFINE g == [m \in 0 .. n |-> IF m = n THEN F[n][f[n - 1]] ELSE f[m]]
  <2>2. f \in [0 .. n - 1 -> D] /\ f[n - 1] \in D /\ F[n] \in [D -> D] /\ n \in 0 .. N
    BY <2>1 DEF Solves
  <2>3. g \in [0 .. n -> D]
    BY <2>2
  <2>4. \A m \in 0 .. n : g[m] = IF m = 0 THEN x ELSE F[m][g[m - 1]]
    <3> SUFFICES ASSUME NEW m \in 0 .. n PROVE g[m] = IF m = 0 THEN x ELSE F[m][g[m - 1]]
      OBVIOUS
    <3>1. CASE m = n
      BY <3>1, <2>2
    <3>2. CASE m # n
      <4>1. m \in 0 .. n - 1 /\ g[m] = f[m]
        BY <3>2
      <4>2. m # 0 => g[m - 1] = f[m - 1]
        BY <3>2
      <4>3. f[m] = IF m = 0 THEN x ELSE F[m][f[m - 1]]
        BY <2>1, <4>1 DEF Solves
      <4> HIDE DEF g
      <4> QED BY <4>1, <4>2, <4>3
    <3> QED BY <3>1, <3>2
  <2> HIDE DEF g
  <2>5. Solves(g, D, x, n, F)
    BY <2>3, <2>4 DEF Solves
  <2> QED BY <2>2, <2>5
<1> HIDE DEF G
<1>3. N \in G
  <2>1. N \in 0 .. N
    OBVIOUS
  <2> QED BY <1>1, <1>2, <2>1, UpTo
<1> QED BY <1>3 DEF G

\* A function that answers at the stops and otherwise hands the question on: it exists when
\* a measure says that a stop is reached.
Falls(P, V, stop, r, next, N, m) ==
  /\ r \in [P -> V] /\ next \in [P -> P]
  /\ N \in Nat /\ m \in [P -> 0 .. N]
  /\ \A p \in P : p \notin stop => m[next[p]] < m[p]

LEMMA DescentExists ==
  ASSUME NEW P, NEW V, NEW stop, NEW r, NEW next, NEW N, NEW m, Falls(P, V, stop, r, next, N, m)
  PROVE  \E f \in [P -> V] : \A p \in P : f[p] = IF p \in stop THEN r[p] ELSE f[next[p]]
<1> SUFFICES ASSUME r \in [P -> V], next \in [P -> P], N \in Nat, m \in [P -> 0 .. N],
                    \A p \in P : p \notin stop => m[next[p]] < m[p]
             PROVE  \E f \in [P -> V] : \A p \in P : f[p] = IF p \in stop THEN r[p] ELSE f[next[p]]
  BY DEF Falls
<1> DEFINE D == [P -> V]
           Once(h) == [p \in P |-> IF p \in stop THEN r[p] ELSE h[next[p]]]
           F == [n \in 1 .. N |-> [h \in D |-> Once(h)]]
<1>1. F \in [1 .. N -> [D -> D]]
  <2>1. ASSUME NEW h \in D PROVE Once(h) \in D
    OBVIOUS
  <2> HIDE DEF D, Once
  <2> QED BY <2>1
<1>2. PICK g : Solves(g, D, r, N, F)
  <2> HIDE DEF F
  <2>1. r \in D
    OBVIOUS
  <2> HIDE DEF D
  <2> QED BY <1>1, <2>1, RecursionExists
<1>3. /\ \A n \in 0 .. N : g[n] \in [P -> V]
      /\ g[0] = r
      /\ \A n \in 1 .. N : \A p \in P : g[n][p] = IF p \in stop THEN r[p] ELSE g[n - 1][next[p]]
  <2>1. \A n \in 0 .. N : g[n] \in D
    BY <1>2 DEF Solves
  <2>2. g[0] = r
    <3>1. 0 \in 0 .. N
      OBVIOUS
    <3> HIDE DEF D, F
    <3> QED BY <3>1, <1>2 DEF Solves
  <2>3. ASSUME NEW n \in 1 .. N PROVE g[n] = Once(g[n - 1])
    <3>1. n \in 0 .. N /\ n # 0 /\ n - 1 \in 0 .. N
      OBVIOUS
    <3>2. g[n] = F[n][g[n - 1]] /\ g[n - 1] \in D
      BY <3>1, <2>1, <1>2 DEF Solves
    <3> HIDE DEF D, Once
    <3> QED BY <3>2
  <2>4. \A n \in 1 .. N : \A p \in P : Once(g[n - 1])[p] = IF p \in stop THEN r[p] ELSE g[n - 1][next[p]]
    OBVIOUS
  <2> HIDE DEF Once, F
  <2> QED BY <2>1, <2>2, <2>3, <2>4
<1> HIDE DEF F
\* What a stop is reached from in n steps keeps its value from then on.
<1> DEFINE G == {n \in 0 .. N : \A k \in n .. N : \A p \in P : m[p] <= n => g[k][p] = g[n][p]}
<1>4. \A p \in P : m[p] \in 0 .. N /\ next[p] \in P
  OBVIOUS
<1>5. 0 \in G
  <2> SUFFICES ASSUME NEW k \in 0 .. N, NEW p \in P, m[p] <= 0 PROVE g[k][p] = g[0][p]
    OBVIOUS
  <2>1. p \in stop
    <3> SUFFICES ASSUME p \notin stop PROVE FALSE
      OBVIOUS
    <3>1. m[next[p]] < m[p] /\ m[next[p]] \in 0 .. N
      BY <1>4
    <3> QED BY <3>1, <1>4
  <2>2. CASE k = 0
    BY <2>2
  <2>3. CASE k # 0
    BY <2>1, <2>3, <1>3
  <2> QED BY <2>2, <2>3
<1>6. ASSUME NEW n \in 1 .. N, n - 1 \in G PROVE n \in G
  <2> SUFFICES ASSUME NEW k \in n .. N, NEW p \in P, m[p] <= n PROVE g[k][p] = g[n][p]
    OBVIOUS
  <2>1. k \in 1 .. N /\ k - 1 \in n - 1 .. N
    OBVIOUS
  <2>2. CASE p \in stop
    BY <2>1, <2>2, <1>3
  <2>3. CASE p \notin stop
    <3> DEFINE w == next[p]
    <3>1. w \in P /\ m[w] <= n - 1
      BY <2>3, <1>4
    <3>2. g[k - 1][w] = g[n - 1][w]
      BY <3>1, <2>1, <1>6
    <3>3. g[k][p] = g[k - 1][w] /\ g[n][p] = g[n - 1][w]
      BY <2>1, <2>3, <1>3
    <3> QED BY <3>2, <3>3
  <2> QED BY <2>2, <2>3
<1>7. \A n \in 0 .. N : n \in G
  <2> HIDE DEF G
  <2> QED BY <1>5, <1>6, UpTo
<1>8. ASSUME NEW p \in P PROVE g[N][p] = IF p \in stop THEN r[p] ELSE g[N][next[p]]
  <2>1. CASE p \in stop
    BY <2>1, <1>3
  <2>2. CASE p \notin stop
    <3> DEFINE w == next[p]
    <3>1. w \in P /\ m[w] <= N - 1 /\ N \in 1 .. N /\ N - 1 \in 0 .. N /\ N \in N - 1 .. N
      BY <2>2, <1>4
    <3>2. g[N][w] = g[N - 1][w]
      BY <3>1, <1>7
    <3>3. g[N][p] = g[N - 1][w]
      BY <3>1, <2>2, <1>3
    <3> QED BY <3>2, <3>3, <2>2
  <2> QED BY <2>1, <2>2
<1>9. g[N] \in [P -> V]
  BY <1>3
<1> QED BY <1>8, <1>9

\* FlattenSeq puts the lists of a list together.
LEMMA Flattened ==
  ASSUME NEW S, NEW s \in Seq(Seq(S))
  PROVE  /\ FlattenSeq(s) \in Seq(S)
         /\ \A e : e \in Range(FlattenSeq(s)) <=> \E n \in DOMAIN s : e \in Range(s[n])
<1>1. Len(s) \in Nat /\ DOMAIN s = 1 .. Len(s) /\ \A n \in 1 .. Len(s) : s[n] \in Seq(S)
  OBVIOUS
<1>2. CASE Len(s) = 0
  <2>1. s = << >>
    BY <1>1, <1>2
  <2>2. FlattenSeq(s) = << >>
    BY <1>2, <2>1 DEF FlattenSeq
  <2>3. \A e : e \notin Range(FlattenSeq(s))
    BY <2>2 DEF Range
  <2>4. FlattenSeq(s) \in Seq(S) /\ DOMAIN s = {}
    <3>1. << >> \in Seq(S)
      OBVIOUS
    <3> QED BY <1>1, <1>2, <2>2, <3>1
  <2> QED BY <2>3, <2>4
<1>3. CASE Len(s) # 0
  <2> DEFINE N == Len(s)
             D == Seq(S)
             F == [n \in 1 .. N |-> [h \in D |-> h \o s[n]]]
             Flat(f) == f = [n \in 1 .. N |-> IF n = 1 THEN s[n] ELSE f[n - 1] \o s[n]]
  <2>1. F \in [1 .. N -> [D -> D]]
    <3>1. \A n \in 1 .. N : \A h \in D : h \o s[n] \in D
      BY <1>1
    <3> HIDE DEF D
    <3> QED BY <3>1
  <2>2. PICK g : Solves(g, D, << >>, N, F)
    <3>1. << >> \in D
      OBVIOUS
    <3> HIDE DEF D, F
    <3> QED BY <1>1, <2>1, <3>1, RecursionExists
  <2>3. /\ \A n \in 0 .. N : g[n] \in Seq(S)
        /\ g[0] = << >>
        /\ \A n \in 1 .. N : g[n] = g[n - 1] \o s[n]
    <3>1. \A n \in 0 .. N : g[n] \in D
      BY <2>2 DEF Solves
    <3>2. g[0] = << >>
      <4>1. 0 \in 0 .. N
        BY <1>1
      <4> HIDE DEF D, F
      <4> QED BY <4>1, <2>2 DEF Solves
    <3>3. ASSUME NEW n \in 1 .. N PROVE g[n] = g[n - 1] \o s[n]
      <4>1. n \in 0 .. N /\ n # 0 /\ n - 1 \in 0 .. N
        BY <1>1
      <4>2. g[n] = F[n][g[n - 1]] /\ g[n - 1] \in D
        BY <4>1, <3>1, <2>2 DEF Solves
      <4> HIDE DEF D
      <4> QED BY <4>2
    <3> QED BY <3>1, <3>2, <3>3
  <2> DEFINE w == [n \in 1 .. N |-> g[n]]
  <2>4. Flat(w)
    <3>1. ASSUME NEW n \in 1 .. N
          PROVE  w[n] = IF n = 1 THEN s[n] ELSE w[n - 1] \o s[n]
      <4>1. CASE n = 1
        <5>1. g[1] = << >> \o s[1] /\ s[1] \in Seq(S)
          <6>1. 1 \in 1 .. N /\ 1 - 1 = 0
            BY <1>1, <4>1
          <6>2. s[1] \in Seq(S)
            BY <1>1, <6>1
          <6>3. g[1] = g[1 - 1] \o s[1]
            BY <2>3, <6>1
          <6> HIDE DEF N
          <6> QED BY <2>3, <6>1, <6>2, <6>3
        <5>2. << >> \o s[1] = s[1]
          BY <5>1, ConcatEmptySeq
        <5> QED BY <4>1, <5>1, <5>2
      <4>2. CASE n # 1
        <5>1. n - 1 \in 1 .. N /\ w[n - 1] = g[n - 1]
          BY <1>1, <4>2
        <5> QED BY <2>3, <4>2, <5>1
      <4> QED BY <4>1, <4>2
    <3> QED BY <3>1
  <2> DEFINE f == CHOOSE h : Flat(h)
  <2>5. Flat(f)
    <3> HIDE DEF w, Flat
    <3> QED BY <2>4
  <2>6. FlattenSeq(s) = f[N]
    BY <1>3 DEF FlattenSeq
  <2>7. /\ \A n \in 1 .. N : f[n] = IF n = 1 THEN s[n] ELSE f[n - 1] \o s[n]
    <3> HIDE DEF f
    <3> QED BY <2>5
  <2> HIDE DEF f, w, F
  <2> DEFINE Right(n) == /\ f[n] \in Seq(S)
                         /\ \A e : e \in Range(f[n]) <=> \E k \in 1 .. n : e \in Range(s[k])
             G == {0} \union {n \in 1 .. N : Right(n)}
  <2>8. ASSUME NEW n \in 1 .. N, n - 1 \in G PROVE n \in G
    <3>1. CASE n = 1
      <4>1. f[1] = s[1] /\ s[1] \in Seq(S) /\ 1 .. 1 = {1}
        BY <1>1, <2>7, <3>1
      <4> QED BY <3>1, <4>1
    <3>2. CASE n # 1
      <4>1. n - 1 \in 1 .. N /\ n - 1 # 0
        BY <1>1, <3>2
      <4>2. Right(n - 1)
        BY <2>8, <4>1
      <4>3. f[n] = f[n - 1] \o s[n] /\ s[n] \in Seq(S)
        BY <1>1, <2>7, <3>2
      <4>4. f[n] \in Seq(S) /\ Range(f[n]) = Range(f[n - 1]) \union Range(s[n])
        <5>1. \A u, v \in Seq(S) : u \o v \in Seq(S) /\ Range(u \o v) = Range(u) \union Range(v)
          BY ConcatProperties, RangeConcatenation
        <5> QED BY <4>2, <4>3, <5>1
      <4>5. \A k : k \in 1 .. n <=> k \in 1 .. n - 1 \/ k = n
        BY <1>1
      <4>6. \A e : e \in Range(f[n]) <=> \E k \in 1 .. n : e \in Range(s[k])
        <5> HIDE DEF G
        <5> QED BY <4>2, <4>4, <4>5
      <4> HIDE DEF Right
      <4>7. Right(n)
        BY <4>4, <4>6 DEF Right
      <4> QED BY <4>7
    <3> QED BY <3>1, <3>2
  <2>9. N \in G
    <3>1. 0 \in G /\ N \in 0 .. N
      BY <1>1
    <3> HIDE DEF G
    <3> QED BY <1>1, <2>8, <3>1, UpTo
  <2>10. Right(N)
    BY <1>3, <2>9
  <2> QED BY <1>1, <2>6, <2>10
<1> QED BY <1>2, <1>3

\* SetToSeq lists the elements of a finite set.
LEMMA Listed ==
  ASSUME NEW S, IsFiniteSet(S)
  PROVE  SetToSeq(S) \in Seq(S) /\ Range(SetToSeq(S)) = S
<1> DEFINE N == Cardinality(S)
<1>1. N \in Nat
  BY FS_CardinalityType
<1>2. ExistsBijection(1 .. N, S)
  BY FS_CardinalityType
<1>3. PICK f : f \in Bijection(1 .. N, S)
  BY <1>2 DEF ExistsBijection
<1>4. f \in [1 .. N -> S] /\ IsInjective(f)
  BY <1>3 DEF Bijection, Injection
<1>5. SetToSeq(S) \in [1 .. N -> S] /\ IsInjective(SetToSeq(S))
  BY <1>4 DEF SetToSeq
<1> DEFINE g == SetToSeq(S)
<1> HIDE DEF g
<1>6. g \in Seq(S)
  BY <1>1, <1>5 DEF g
<1>7. IsFiniteSet(1 .. N) /\ Cardinality(1 .. N) = N
  BY <1>1, FS_Interval
<1>8. g \in Surjection(1 .. N, S)
  <2>1. g \in Injection(1 .. N, S)
    BY <1>5 DEF g, Injection
  <2> QED BY <1>7, <2>1, FS_Injection
<1>9. Range(g) = S
  BY <1>8 DEF Range, Surjection
<1> QED BY <1>6, <1>9 DEF g

\* What a list holds with one element more at its end.
LEMMA Appended ==
  ASSUME NEW S, NEW s \in Seq(S), NEW e \in S
  PROVE  /\ Append(s, e) \in Seq(S) /\ Range(Append(s, e)) = Range(s) \union {e}
         /\ IsInjective(s) /\ e \notin Range(s) => IsInjective(Append(s, e))
<1> DEFINE t == Append(s, e)
           n == Len(s)
<1>1. /\ t \in Seq(S) /\ n \in Nat /\ DOMAIN s = 1 .. n /\ DOMAIN t = 1 .. n + 1
      /\ t[n + 1] = e /\ \A k \in 1 .. n : t[k] = s[k]
  BY AppendProperties
<1> HIDE DEF t, n
<1>2. 1 .. n + 1 = 1 .. n \union {n + 1} /\ n + 1 \notin 1 .. n
  BY <1>1
<1>3. Range(t) = Range(s) \union {e}
  BY <1>1, <1>2 DEF Range
<1>4. IsInjective(s) /\ e \notin Range(s) => IsInjective(t)
  BY <1>1, <1>2 DEF Range, IsInjective
<1> QED BY <1>1, <1>3, <1>4 DEF t

Increasing(s) == \A i, j \in DOMAIN s : i < j => s[i] < s[j]

\* f makes the sublist, one element of the list after the other.
Sifts(f, s, T, S) ==
  /\ f[0] = << >> /\ Sublist(s, T) = f[Len(s)] /\ \A n \in 0 .. Len(s) : f[n] \in Seq(S)
  /\ \A n \in 1 .. Len(s) : f[n] = IF s[n] \in T THEN Append(f[n - 1], s[n]) ELSE f[n - 1]

LEMMA SublistGrows ==
  ASSUME NEW S, NEW s \in Seq(S), NEW T
  PROVE  \E f : Sifts(f, s, T, S)
<1> DEFINE N == Len(s)
           D == Seq(S)
           F == [n \in 1 .. N |-> [h \in D |-> IF s[n] \in T THEN Append(h, s[n]) ELSE h]]
           Picked(w) == w = [n \in 0 .. N |-> IF n = 0 THEN << >>
                                             ELSE IF s[n] \in T THEN Append(w[n - 1], s[n]) ELSE w[n - 1]]
<1>1. N \in Nat /\ DOMAIN s = 1 .. N /\ \A n \in 1 .. N : s[n] \in S
  OBVIOUS
<1>2. F \in [1 .. N -> [D -> D]]
  <2>1. \A n \in 1 .. N : \A h \in D : (IF s[n] \in T THEN Append(h, s[n]) ELSE h) \in D
    BY <1>1
  <2> HIDE DEF D
  <2> QED BY <2>1
<1>3. PICK u : Solves(u, D, << >>, N, F)
  <2>1. << >> \in D
    OBVIOUS
  <2> HIDE DEF D, F, N
  <2> QED BY <1>1, <1>2, <2>1, RecursionExists
<1>4. /\ u = [n \in 0 .. N |-> u[n]]
      /\ u[0] = << >>
      /\ \A n \in 1 .. N : u[n] = IF s[n] \in T THEN Append(u[n - 1], s[n]) ELSE u[n - 1]
  <2>1. u = [n \in 0 .. N |-> u[n]] /\ \A n \in 0 .. N : u[n] \in D
    <3> HIDE DEF D, F, N
    <3> QED BY <1>3 DEF Solves
  <2>2. u[0] = << >>
    <3>1. 0 \in 0 .. N
      BY <1>1
    <3> HIDE DEF D, F, N
    <3> QED BY <3>1, <1>3 DEF Solves
  <2>3. ASSUME NEW n \in 1 .. N
        PROVE  u[n] = IF s[n] \in T THEN Append(u[n - 1], s[n]) ELSE u[n - 1]
    <3>1. n \in 0 .. N /\ n # 0 /\ n - 1 \in 0 .. N
      BY <1>1
    <3>2. u[n] = F[n][u[n - 1]] /\ u[n - 1] \in D
      <4> HIDE DEF D, F, N
      <4> QED BY <3>1, <1>3, <2>1 DEF Solves
    <3>3. F[n] = [h \in D |-> IF s[n] \in T THEN Append(h, s[n]) ELSE h]
      OBVIOUS
    <3> HIDE DEF D, F, N
    <3> QED BY <3>2, <3>3
  <2> QED BY <2>1, <2>2, <2>3
<1>5. Picked(u)
  <2> DEFINE v == [n \in 0 .. N |-> IF n = 0 THEN << >>
                                   ELSE IF s[n] \in T THEN Append(u[n - 1], s[n]) ELSE u[n - 1]]
  <2>1. ASSUME NEW n \in 0 .. N PROVE u[n] = v[n]
    <3>1. n = 0 \/ n \in 1 .. N
      BY <1>1
    <3> QED BY <3>1, <1>4
  <2> HIDE DEF N
  <2>2. u = v
    BY <1>4, <2>1
  <2> QED BY <2>2
<1> DEFINE f == CHOOSE w : Picked(w)
<1>6. Picked(f)
  <2> HIDE DEF Picked
  <2> QED BY <1>5
<1>7. Sublist(s, T) = f[N]
  BY DEF Sublist
<1>8. f[0] = << >> /\ \A n \in 1 .. N : f[n] = IF s[n] \in T THEN Append(f[n - 1], s[n]) ELSE f[n - 1]
  <2> HIDE DEF f
  <2>1. 0 \in 0 .. N /\ \A n \in 1 .. N : n \in 0 .. N /\ n # 0
    BY <1>1
  <2> HIDE DEF N
  <2> QED BY <1>6, <2>1
<1> HIDE DEF f, F, D, Picked
<1>9. \A n \in 0 .. N : f[n] \in Seq(S)
  <2> DEFINE G == {n \in 0 .. N : f[n] \in Seq(S)}
  <2>1. 0 \in G
    <3>1. 0 \in 0 .. N /\ << >> \in Seq(S)
      BY <1>1
    <3> HIDE DEF N
    <3> QED BY <3>1, <1>8
  <2>2. ASSUME NEW n \in 1 .. N, n - 1 \in G PROVE n \in G
    <3>1. n \in 0 .. N /\ s[n] \in S /\ f[n - 1] \in Seq(S)
      BY <1>1, <2>2
    <3>2. f[n] \in Seq(S)
      <4>1. f[n] = IF s[n] \in T THEN Append(f[n - 1], s[n]) ELSE f[n - 1]
        BY <1>8
      <4>2. Append(f[n - 1], s[n]) \in Seq(S)
        BY ONLY <3>1
      <4> QED BY ONLY <3>1, <4>1, <4>2
    <3> QED BY <3>1, <3>2
  <2> HIDE DEF G, N
  <2>3. \A n \in 0 .. N : n \in G
    BY <1>1, <2>1, <2>2, UpTo
  <2> QED BY <2>3 DEF G
<1>10. Sifts(f, s, T, S)
  BY <1>7, <1>8, <1>9 DEF Sifts
<1> QED BY <1>10

\* The elements of a list that lie in T keep their order and come as often as before.
LEMMA SublistOf ==
  ASSUME NEW S, NEW s \in Seq(S), NEW T
  PROVE  /\ Sublist(s, T) \in Seq(S)
         /\ Range(Sublist(s, T)) = Range(s) \intersect T
         /\ IsInjective(s) => IsInjective(Sublist(s, T))
         /\ Increasing(s) => Increasing(Sublist(s, T))
<1> DEFINE N == Len(s)
<1>1. N \in Nat /\ DOMAIN s = 1 .. N /\ \A n \in 1 .. N : s[n] \in S
  OBVIOUS
<1>2. PICK f : Sifts(f, s, T, S)
  BY SublistGrows
<1>7. /\ f[0] = << >> /\ Sublist(s, T) = f[N]
      /\ \A n \in 1 .. N : f[n] = IF s[n] \in T THEN Append(f[n - 1], s[n]) ELSE f[n - 1]
  BY <1>2 DEF Sifts
<1> DEFINE Passed(n) == {s[k] : k \in 1 .. n}
           Good(n) == /\ f[n] \in Seq(S)
                      /\ Range(f[n]) = Passed(n) \intersect T
                      /\ IsInjective(s) => IsInjective(f[n])
                      /\ Increasing(s) => Increasing(f[n])
           G == {n \in 0 .. N : Good(n)}
<1>9. 0 \in G
  <2>1. << >> \in Seq(S) /\ Range(<< >>) = {} /\ IsInjective(<< >>) /\ Increasing(<< >>)
    BY DEF Range, IsInjective, Increasing
  <2>2. Passed(0) = {} /\ 0 \in 0 .. N
    BY <1>1
  <2> HIDE DEF Passed, N
  <2> QED BY <2>1, <2>2, <1>7
<1>10. ASSUME NEW n \in 1 .. N, n - 1 \in G PROVE n \in G
  <2>1. n \in 0 .. N /\ Good(n - 1) /\ s[n] \in S
    BY <1>1, <1>10
  <2>2. Passed(n) = Passed(n - 1) \union {s[n]}
    <3>1. 1 .. n = 1 .. n - 1 \union {n}
      BY <1>1
    <3> QED BY <3>1
  <2>3. CASE s[n] \notin T
    <3>1. f[n] = f[n - 1]
      BY <2>3, <1>7
    <3>2. Passed(n) \intersect T = Passed(n - 1) \intersect T
      BY <2>2, <2>3
    <3> HIDE DEF Passed, N
    <3> QED BY <2>1, <3>1, <3>2
  <2>4. CASE s[n] \in T
    <3> DEFINE t == f[n - 1]
               e == s[n]
    <3>1. f[n] = Append(t, e) /\ e \in S /\ t \in Seq(S)
      BY <2>1, <2>4, <1>7
    <3>2. IsInjective(s) => e \notin Passed(n - 1)
      BY <1>1 DEF IsInjective
    <3>3. /\ Range(t) = Passed(n - 1) \intersect T
          /\ IsInjective(s) => IsInjective(t)
          /\ Increasing(s) => Increasing(t)
      BY <2>1
    <3>0. Increasing(s) => \A x \in Passed(n - 1) : x < e
      BY <1>1 DEF Increasing
    <3>4. Passed(n) \intersect T = Range(t) \union {e}
      BY <2>2, <2>4, <3>3
    <3>5. IsInjective(s) => IsInjective(t) /\ e \notin Range(t)
      BY <3>2, <3>3
    <3> HIDE DEF t, e, Passed, N
    <3>6. /\ Append(t, e) \in Seq(S) /\ Range(Append(t, e)) = Range(t) \union {e}
          /\ IsInjective(t) /\ e \notin Range(t) => IsInjective(Append(t, e))
      BY <3>1, Appended
    <3>7. ASSUME Increasing(s) PROVE Increasing(Append(t, e))
      <4>1. /\ DOMAIN t = 1 .. Len(t) /\ DOMAIN Append(t, e) = 1 .. Len(t) + 1 /\ Len(t) \in Nat
            /\ Append(t, e)[Len(t) + 1] = e /\ \A k \in 1 .. Len(t) : Append(t, e)[k] = t[k]
        BY <3>1, AppendProperties
      <4>2. \A k \in 1 .. Len(t) : t[k] < e
        <5>1. \A k \in 1 .. Len(t) : t[k] \in Range(t)
          BY <4>1 DEF Range
        <5> QED BY <3>0, <3>3, <3>7, <5>1
      <4>3. ASSUME NEW i \in 1 .. Len(t) + 1, NEW j \in 1 .. Len(t) + 1, i < j
            PROVE  Append(t, e)[i] < Append(t, e)[j]
        <5>1. i \in 1 .. Len(t)
          BY <4>1, <4>3
        <5>2. CASE j = Len(t) + 1
          BY <4>1, <4>2, <5>1, <5>2
        <5>3. CASE j # Len(t) + 1
          <6>1. j \in 1 .. Len(t)
            BY <4>1, <5>3
          <6> QED BY <3>3, <3>7, <4>1, <4>3, <5>1, <6>1 DEF Increasing
        <5> QED BY <5>2, <5>3
      <4> QED BY <4>1, <4>3 DEF Increasing
    <3> QED BY <2>1, <3>1, <3>4, <3>5, <3>6, <3>7
  <2> QED BY <2>3, <2>4
<1>11. N \in G
  <2> HIDE DEF G, N
  <2> QED BY <1>1, <1>9, <1>10, UpTo
<1>12. Passed(N) = Range(s)
  BY <1>1 DEF Range
<1> QED BY <1>7, <1>11, <1>12

\* The first element of a list that lies in T is the first of the sublist, the last one the last.
LEMMA SublistEnds ==
  ASSUME NEW S, NEW s \in Seq(S), NEW T, NEW n \in DOMAIN s, s[n] \in T
  PROVE  /\ Sublist(s, T) \in Seq(S) /\ Sublist(s, T) # << >>
         /\ (\A m \in DOMAIN s : s[m] \in T => n <= m) => Sublist(s, T)[1] = s[n]
         /\ (\A m \in DOMAIN s : s[m] \in T => m <= n) => Sublist(s, T)[Len(Sublist(s, T))] = s[n]
<1> DEFINE N == Len(s)
           First == \A m \in DOMAIN s : s[m] \in T => n <= m
           Final == \A m \in DOMAIN s : s[m] \in T => m <= n
<1>1. N \in Nat /\ DOMAIN s = 1 .. N /\ n \in 1 .. N /\ \A m \in 1 .. N : s[m] \in S
  OBVIOUS
<1>0. PICK f : Sifts(f, s, T, S)
  BY SublistGrows
<1>2. /\ f[0] = << >> /\ Sublist(s, T) = f[N] /\ \A m \in 0 .. N : f[m] \in Seq(S)
      /\ \A m \in 1 .. N : f[m] = IF s[m] \in T THEN Append(f[m - 1], s[m]) ELSE f[m - 1]
  BY <1>0 DEF Sifts
<1> DEFINE Good(m) == /\ First /\ m < n => f[m] = << >>
                      /\ m >= n => f[m] # << >> /\ (First => f[m][1] = s[n]) /\ (Final => f[m][Len(f[m])] = s[n])
           G == {m \in 0 .. N : Good(m)}
<1>3. 0 \in G
  <2>1. 0 \in 0 .. N /\ ~(0 >= n)
    BY <1>1
  <2> HIDE DEF First, Final
  <2> QED BY <2>1, <1>2
<1>4. ASSUME NEW m \in 1 .. N, m - 1 \in G PROVE m \in G
  <2>1. /\ m \in 0 .. N /\ m - 1 \in 0 .. N /\ Good(m - 1) /\ f[m - 1] \in Seq(S) /\ s[m] \in S
        /\ f[m] = IF s[m] \in T THEN Append(f[m - 1], s[m]) ELSE f[m - 1]
    <3>1. m \in 0 .. N /\ m - 1 \in 0 .. N
      BY <1>1
    <3> HIDE DEF Good
    <3> QED BY <3>1, <1>1, <1>2, <1>4
  <2>2. /\ Append(f[m - 1], s[m]) # << >> /\ Append(f[m - 1], s[m])[Len(Append(f[m - 1], s[m]))] = s[m]
        /\ f[m - 1] # << >> => Append(f[m - 1], s[m])[1] = f[m - 1][1]
        /\ f[m - 1] = << >> => Append(f[m - 1], s[m])[1] = s[m]
    <3> DEFINE t == f[m - 1]
    <3>1. t \in Seq(S) /\ s[m] \in S
      BY <2>1
    <3> HIDE DEF t
    <3>2. /\ Append(t, s[m]) # << >> /\ Append(t, s[m])[Len(Append(t, s[m]))] = s[m]
          /\ t # << >> => Append(t, s[m])[1] = t[1]
          /\ t = << >> => Append(t, s[m])[1] = s[m]
      <4> DEFINE a == Append(t, s[m])
      <4>1. /\ Len(t) \in Nat /\ Len(a) = Len(t) + 1 /\ DOMAIN a = 1 .. Len(t) + 1
            /\ a[Len(t) + 1] = s[m] /\ \A k \in 1 .. Len(t) : a[k] = t[k]
        BY <3>1, AppendProperties
      <4>2. (t = << >> => Len(t) = 0) /\ (t # << >> => Len(t) # 0) /\ (a = << >> => Len(a) = 0)
        BY <3>1, EmptySeq
      <4> HIDE DEF a
      <4>3. a # << >> /\ a[Len(a)] = s[m] /\ (t # << >> => a[1] = t[1]) /\ (t = << >> => a[1] = s[m])
        BY <4>1, <4>2
      <4> QED BY <4>3 DEF a
    <3> QED BY <3>2 DEF t
  <2>3. First /\ m < n => s[m] \notin T /\ m - 1 < n
    BY <1>1
  <2>4. Final /\ m > n => s[m] \notin T
    BY <1>1
  <2>5. m >= n => m = n \/ (m > n /\ m - 1 >= n)
    BY <1>1
  <2>6. m = n => m - 1 < n /\ s[m] \in T
    BY <1>1
  <2> HIDE DEF First, Final
  <2>7. First /\ m < n => f[m] = << >>
    BY <2>1, <2>3
  <2>8. CASE m = n
    BY <2>1, <2>2, <2>6, <2>7, <2>8
  <2>9. CASE m > n /\ m - 1 >= n
    BY <2>1, <2>2, <2>4, <2>7, <2>9
  <2>10. CASE ~(m >= n)
    BY <2>1, <2>7, <2>10
  <2> QED BY <2>5, <2>8, <2>9, <2>10
<1>5. N \in G
  <2> HIDE DEF G, N
  <2>1. \A m \in 0 .. N : m \in G
    BY <1>1, <1>3, <1>4, UpTo
  <2>2. N \in 0 .. N
    BY <1>1
  <2> QED BY <2>1, <2>2
<1>6. N >= n
  BY <1>1
<1> HIDE DEF First, Final, N
<1>7. Good(N) /\ f[N] \in Seq(S)
  BY <1>1, <1>2, <1>5
<1>8. /\ Sublist(s, T) \in Seq(S) /\ Sublist(s, T) # << >>
      /\ First => Sublist(s, T)[1] = s[n]
      /\ Final => Sublist(s, T)[Len(Sublist(s, T))] = s[n]
  BY <1>2, <1>6, <1>7
<1> QED BY <1>8 DEF First, Final

LEMMA Reversed ==
  ASSUME NEW S, NEW s \in Seq(S)
  PROVE  /\ Reverse(s) \in Seq(S) /\ Range(Reverse(s)) = Range(s)
         /\ IsInjective(s) => IsInjective(Reverse(s))
<1> DEFINE n == Len(s)
           r == [i \in 1 .. n |-> s[(n - i) + 1]]
<1>1. n \in Nat /\ DOMAIN s = 1 .. n /\ \A i \in 1 .. n : s[i] \in S
  OBVIOUS
<1>2. Reverse(s) = r
  BY DEF Reverse
<1> HIDE DEF n
<1>3. \A i \in 1 .. n : (n - i) + 1 \in 1 .. n /\ (n - ((n - i) + 1)) + 1 = i
  BY <1>1
<1>4. DOMAIN r = 1 .. n /\ \A i \in 1 .. n : r[i] = s[(n - i) + 1]
  OBVIOUS
<1>5. r \in [1 .. n -> S]
  BY <1>1, <1>3
<1> HIDE DEF r
<1>6. r \in Seq(S)
  BY <1>1, <1>5
<1>7. Range(r) \subseteq Range(s)
  BY <1>1, <1>3, <1>4 DEF Range
<1>8. ASSUME NEW i \in 1 .. n PROVE s[i] \in Range(r)
  <2>1. (n - i) + 1 \in 1 .. n /\ r[(n - i) + 1] = s[i]
    <3> DEFINE j == (n - i) + 1
    <3>1. j \in 1 .. n /\ (n - j) + 1 = i
      BY <1>3
    <3> HIDE DEF j
    <3>2. r[j] = s[i]
      BY <3>1, <1>4
    <3> QED BY <3>1, <3>2 DEF j
  <2> QED BY <2>1, <1>4 DEF Range
<1>9. Range(s) \subseteq Range(r)
  BY <1>1, <1>8 DEF Range
<1>10. ASSUME IsInjective(s), NEW i \in 1 .. n, NEW j \in 1 .. n, r[i] = r[j] PROVE i = j
  <2>1. s[(n - i) + 1] = s[(n - j) + 1] /\ (n - i) + 1 \in 1 .. n /\ (n - j) + 1 \in 1 .. n
    BY <1>3, <1>4, <1>10
  <2>2. (n - i) + 1 = (n - j) + 1
    BY <2>1, <1>1, <1>10 DEF IsInjective
  <2> QED BY <2>2, <1>1
<1>11. IsInjective(s) => IsInjective(r)
  BY <1>10, <1>4 DEF IsInjective
<1> QED BY <1>2, <1>6, <1>7, <1>9, <1>11

LEMMA Joined ==
  ASSUME NEW S, NEW s \in Seq(S), NEW t \in Seq(S), IsInjective(s), IsInjective(t),
         Range(s) \intersect Range(t) = {}
  PROVE  /\ s \o t \in Seq(S) /\ IsInjective(s \o t)
         /\ Range(s \o t) = Range(s) \union Range(t)
<1>1. /\ Len(s) \in Nat /\ Len(t) \in Nat /\ DOMAIN s = 1 .. Len(s) /\ DOMAIN t = 1 .. Len(t)
      /\ s \o t \in Seq(S) /\ DOMAIN (s \o t) = 1 .. Len(s) + Len(t)
      /\ \A n \in 1 .. Len(s) : (s \o t)[n] = s[n]
      /\ \A n \in Len(s) + 1 .. Len(s) + Len(t) : (s \o t)[n] = t[n - Len(s)]
  OBVIOUS
<1>2. Range(s \o t) = Range(s) \union Range(t)
  BY RangeConcatenation
<1>3. ASSUME NEW m \in DOMAIN (s \o t), NEW n \in DOMAIN (s \o t), (s \o t)[m] = (s \o t)[n]
      PROVE  m = n
  <2>1. CASE m \in 1 .. Len(s) /\ n \in 1 .. Len(s)
    BY <1>1, <1>3, <2>1 DEF IsInjective
  <2>2. CASE m \notin 1 .. Len(s) /\ n \notin 1 .. Len(s)
    <3>1. /\ m - Len(s) \in DOMAIN t /\ n - Len(s) \in DOMAIN t
          /\ t[m - Len(s)] = t[n - Len(s)]
      BY <1>1, <1>3, <2>2
    <3>2. m - Len(s) = n - Len(s)
      BY <3>1 DEF IsInjective
    <3>. QED BY <1>1, <3>2
  <2>3. CASE m \in 1 .. Len(s) /\ n \notin 1 .. Len(s)
    <3>1. n - Len(s) \in DOMAIN t /\ t[n - Len(s)] = s[m]
      BY <1>1, <1>3, <2>3
    <3>. QED BY <1>1, <2>3, <3>1 DEF Range
  <2>4. CASE m \notin 1 .. Len(s) /\ n \in 1 .. Len(s)
    <3>1. m - Len(s) \in DOMAIN t /\ t[m - Len(s)] = s[n]
      BY <1>1, <1>3, <2>4
    <3>. QED BY <1>1, <2>4, <3>1 DEF Range
  <2>. QED BY <2>1, <2>2, <2>3, <2>4
<1>. QED BY <1>1, <1>2, <1>3 DEF IsInjective

\* A list of different things is as long as there are things in it.
LEMMA LengthCounts ==
  ASSUME NEW S, NEW s \in Seq(S), IsInjective(s)
  PROVE  Cardinality(Range(s)) = Len(s)
<1>1. Len(s) \in Nat /\ DOMAIN s = 1 .. Len(s)
  OBVIOUS
<1>2. s \in Bijection(1 .. Len(s), Range(s))
  <2>1. s \in [1 .. Len(s) -> Range(s)]
    BY <1>1 DEF Range
  <2>. QED BY <1>1, <2>1 DEF Range, Bijection, Injection, Surjection
<1>3. IsFiniteSet(1 .. Len(s)) /\ Cardinality(1 .. Len(s)) = Len(s)
  BY <1>1, FS_Interval
<1>4. ExistsBijection(1 .. Len(s), Range(s))
  BY <1>2 DEF ExistsBijection
<1>. QED BY <1>3, <1>4, FS_Bijection

\* A list of different elements of a set holds all of them just when it is as long as the set.
LEMMA Enumerated ==
  ASSUME NEW S, IsFiniteSet(S), NEW s \in Seq(S), IsInjective(s)
  PROVE  Len(s) = Cardinality(S) <=> Range(s) = S
<1>1. Cardinality(Range(s)) = Len(s)
  BY LengthCounts
<1>2. Range(s) \in SUBSET S
  BY DEF Range
<1> QED BY <1>1, <1>2, FS_Subset

\* A list that has every element of a set and no more places than that has each once.
LEMMA AllDifferent ==
  ASSUME NEW S, IsFiniteSet(S), NEW s \in Seq(S), Range(s) = S, Len(s) = Cardinality(S)
  PROVE  IsInjective(s)
<1> DEFINE N == Len(s)
<1>1. N \in Nat /\ DOMAIN s = 1 .. N /\ IsFiniteSet(1 .. N) /\ Cardinality(1 .. N) = N
  BY FS_Interval
<1>2. s \in [1 .. N -> S]
  BY <1>1
<1>3. \A e \in S : \E n \in 1 .. N : s[n] = e
  BY <1>1 DEF Range
<1> HIDE DEF N
<1>4. s \in Surjection(1 .. N, S)
  BY <1>2, <1>3 DEF Surjection
<1>5. Cardinality(S) = Cardinality(1 .. N)
  BY <1>1 DEF N
<1>6. s \in Injection(1 .. N, S)
  BY <1>1, <1>4, <1>5, FS_Surjection
<1> QED BY <1>1, <1>6 DEF Injection

(***************************************************************************)
(* Dominance                                                               *)
(***************************************************************************)
LEMMA AvoidingIsLeast ==
  ASSUME NEW D, IsFiniteSet(D), NEW succ \in [D -> SUBSET D], NEW root \in D, NEW a \in D, a # root
  PROVE  /\ root \in ReachableAvoiding(succ, root, a)
         /\ \A b \in ReachableAvoiding(succ, root, a) : succ[b] \ {a} \subseteq ReachableAvoiding(succ, root, a)
         /\ ReachableAvoiding(succ, root, a) \subseteq D
         /\ \A X : root \in X /\ (\A b \in X : succ[b] \ {a} \subseteq X)
                     => ReachableAvoiding(succ, root, a) \subseteq X
<1> DEFINE avoid == [b \in DOMAIN succ |-> succ[b] \ {a}]
<1>1. avoid \in [D -> SUBSET D] /\ \A b \in D : avoid[b] = succ[b] \ {a}
  OBVIOUS
<1>2. ReachableAvoiding(succ, root, a) = ReachableFrom(avoid, {root})
  BY DEF ReachableAvoiding
<1> HIDE DEF avoid
<1> DEFINE R == ReachableFrom(avoid, {root})
<1>3. /\ {root} \subseteq R /\ R \subseteq D
      /\ \A b \in R : avoid[b] \subseteq R
      /\ \A X : {root} \subseteq X /\ (\A b \in X : avoid[b] \subseteq X) => R \subseteq X
  BY <1>1, ReachableIsLeast
<1> HIDE DEF R
<1>4. ASSUME NEW X, root \in X, \A b \in X : succ[b] \ {a} \subseteq X PROVE R \subseteq X
  <2>1. {root} \subseteq X \intersect D /\ \A b \in X \intersect D : avoid[b] \subseteq X \intersect D
    BY <1>1, <1>4
  <2> QED BY <2>1, <1>3
<1>5. \A b \in R : succ[b] \ {a} \subseteq R
  BY <1>1, <1>3
<1>6. ReachableAvoiding(succ, root, a) = R /\ root \in R /\ R \subseteq D
  BY <1>2, <1>3 DEF R
<1> QED BY <1>4, <1>5, <1>6

\* Every block dominates itself, the root every block; what strictly dominates a block
\* dominates the blocks its edges come from.
LEMMA DominatorRules ==
  ASSUME NEW D, IsFiniteSet(D), NEW succ \in [D -> SUBSET D], NEW root \in D
  PROVE  /\ \A b \in D : Dominators(succ, root, b) \subseteq D
         /\ \A b \in D : b \in Dominators(succ, root, b) /\ root \in Dominators(succ, root, b)
         /\ Dominators(succ, root, root) = {root}
         /\ \A p \in D : \A b \in succ[p] : \A a \in Dominators(succ, root, b) :
              a # b => a \in Dominators(succ, root, p)
<1> DEFINE R(a) == ReachableAvoiding(succ, root, a)
<1>1. \A b : Dominators(succ, root, b) = {a \in D : b \notin R(a)}
  BY DEF Dominators
<1>2. R(root) = {}
  BY DEF ReachableAvoiding
<1>3. \A a \in D : a # root =>
        /\ root \in R(a) /\ R(a) \subseteq D
        /\ \A b \in R(a) : succ[b] \ {a} \subseteq R(a)
        /\ \A X : root \in X /\ (\A b \in X : succ[b] \ {a} \subseteq X) => R(a) \subseteq X
  BY AvoidingIsLeast
<1> HIDE DEF R
<1>4. ASSUME NEW b \in D PROVE b \notin R(b)
  <2>1. CASE b = root
    BY <2>1, <1>2
  <2>2. CASE b # root
    <3>1. root \in D \ {b} /\ \A c \in D \ {b} : succ[c] \ {b} \subseteq D \ {b}
      BY <2>2
    <3>2. R(b) \subseteq D \ {b}
      BY <3>1, <2>2, <1>3
    <3> QED BY <3>2
  <2> QED BY <2>1, <2>2
<1>5. Dominators(succ, root, root) = {root}
  BY <1>1, <1>2, <1>3
<1>6. ASSUME NEW p \in D, NEW b \in succ[p], NEW a \in Dominators(succ, root, b), a # b
      PROVE  a \in Dominators(succ, root, p)
  <2>1. a \in D /\ b \notin R(a)
    BY <1>1, <1>6
  <2>2. p \notin R(a)
    <3>1. CASE a = root
      BY <3>1, <1>2
    <3>2. CASE a # root
      BY <3>2, <2>1, <1>3, <1>6
    <3> QED BY <3>1, <3>2
  <2> QED BY <2>1, <2>2, <1>1
<1> QED BY <1>1, <1>2, <1>4, <1>5, <1>6

\* In a numbering that gives every block but the root a predecessor before it, dominators
\* come first, and two blocks that dominate each other are one.
LEMMA DominatorOrder ==
  ASSUME NEW D, IsFiniteSet(D), NEW succ \in [D -> SUBSET D], NEW root \in D,
         NEW idx, \A b \in D : idx[b] \in Nat,
         \A b, c \in D : idx[b] = idx[c] => b = c,
         \A c \in D : c # root => \E p \in D : c \in succ[p] /\ idx[p] < idx[c]
  PROVE  \A b \in D : \A a \in Dominators(succ, root, b) : a # b => idx[a] < idx[b]
<1> SUFFICES ASSUME NEW a \in D, NEW b0 \in D, a \in Dominators(succ, root, b0), a # b0, ~(idx[a] < idx[b0])
             PROVE  FALSE
  BY DominatorRules
<1> DEFINE R == ReachableAvoiding(succ, root, a)
           Bad == {n \in Nat : \E b \in D : idx[b] = n /\ n < idx[a] /\ b \notin R}
<1>1. b0 \notin R /\ idx[b0] < idx[a]
  <2>1. idx[a] # idx[b0] /\ idx[a] \in Nat /\ idx[b0] \in Nat
    OBVIOUS
  <2>2. b0 \notin R
    BY DEF Dominators
  <2> HIDE DEF R
  <2> QED BY <2>1, <2>2
<1>2. a # root
  <2> SUFFICES ASSUME a = root PROVE FALSE
    OBVIOUS
  <2> DEFINE Low == {n \in Nat : \E b \in D : idx[b] = n /\ n < idx[root]}
  <2>1. idx[b0] \in Low /\ Low \in SUBSET Nat
    BY <1>1
  <2> HIDE DEF Low
  <2>2. PICK n \in Low : \A k \in Low : n <= k
    BY <2>1, Smallest
  <2>3. PICK c \in D : idx[c] = n /\ n < idx[root]
    BY <2>2 DEF Low
  <2>4. PICK p \in D : c \in succ[p] /\ idx[p] < idx[c]
    BY <2>3
  <2>5. idx[p] \in Low
    BY <2>3, <2>4 DEF Low
  <2> QED BY <2>2, <2>3, <2>4, <2>5
<1>3. root \in R /\ \A c \in R : succ[c] \ {a} \subseteq R
  BY <1>2, AvoidingIsLeast
<1> HIDE DEF R
<1>4. idx[b0] \in Bad /\ Bad \in SUBSET Nat
  BY <1>1
<1> HIDE DEF Bad
<1>5. PICK n \in Bad : \A k \in Bad : n <= k
  BY <1>4, Smallest
<1>6. PICK c \in D : idx[c] = n /\ n < idx[a] /\ c \notin R
  BY <1>5 DEF Bad
<1>7. c # root /\ c # a
  BY <1>3, <1>6
<1>8. PICK p \in D : c \in succ[p] /\ idx[p] < idx[c]
  BY <1>7
<1>9. p \notin R
  BY <1>3, <1>6, <1>7, <1>8
<1>10. idx[p] \in Bad
  BY <1>6, <1>8, <1>9 DEF Bad
<1> QED BY <1>5, <1>6, <1>8, <1>10

(***************************************************************************)
(* Edge lists.  remove_out_edge deletes a half, renumbers the partners of  *)
(* the halves behind it, then does the same at the other end.  Between the *)
(* two deletions one half, at position j of an `in' list, has lost its     *)
(* partner; Widowed describes that graph.  LoseOut and DropIn are the two  *)
(* deletions.  remove_in_edge is the same with the lists exchanged, and    *)
(* Mirror carries the lemmas over.                                         *)
(***************************************************************************)

\* Every half but the j-th entering c has its partner, and that one has none.
Widowed(Block, g, c, j) ==
  /\ j \in DOMAIN g.in[c]
  /\ Partner(Block, g, "out", "in")
  /\ \A b \in Block : \A i \in DOMAIN g.out[b] : ~(g.out[b][i].point = c /\ g.out[b][i].rev = j)
  /\ \A b \in Block : \A i \in DOMAIN g.in[b] :
       (b # c \/ i # j) =>
         LET e == g.in[b][i]
         IN  /\ e.rev \in DOMAIN g.out[e.point]
             /\ g.out[e.point][e.rev] = blockedge(b, e.label, i)

Mirror(g) == [in |-> g.out, out |-> g.in]

\* The types of the two lists of a block.
LEMMA ListTypes ==
  ASSUME NEW Block, NEW Flag, NEW g \in Graph(Block, Flag), NEW b \in Block
  PROVE  /\ g.in[b] \in Seq(HalfEdge(Block, Flag)) /\ DOMAIN g.in[b] = 1 .. Len(g.in[b])
         /\ g.out[b] \in Seq(HalfEdge(Block, Flag)) /\ DOMAIN g.out[b] = 1 .. Len(g.out[b])
         /\ Len(g.in[b]) \in Nat /\ Len(g.out[b]) \in Nat
         /\ \A i \in DOMAIN g.in[b] : g.in[b][i] \in HalfEdge(Block, Flag)
         /\ \A i \in DOMAIN g.out[b] : g.out[b][i] \in HalfEdge(Block, Flag)
  BY DEF Graph

LEMMA HalfFields ==
  ASSUME NEW p, NEW l, NEW r
  PROVE  /\ blockedge(p, l, r).point = p /\ blockedge(p, l, r).label = l
         /\ blockedge(p, l, r).rev = r
  BY DEF blockedge

LEMMA HalfRelabelled ==
  ASSUME NEW p, NEW l, NEW r
  PROVE  \A lab : [blockedge(p, l, r) EXCEPT !.label = lab] = blockedge(p, lab, r)
  BY DEF blockedge

LEMMA HalfTypes ==
  ASSUME NEW Block, NEW Flag, NEW e \in HalfEdge(Block, Flag)
  PROVE  /\ e.point \in Block /\ e.label \in SUBSET Flag /\ e.rev \in Nat /\ e.rev > 0
         /\ e = blockedge(e.point, e.label, e.rev)
  BY DEF HalfEdge, blockedge

\* Deleting the i-th half leaving b, whose partner is the j-th half entering c, leaves c
\* with exactly that half widowed.
LEMMA LoseOut ==
  ASSUME NEW Block, NEW Flag, NEW g \in Graph(Block, Flag), Coupled(Block, g),
         NEW b \in Block, NEW i \in DOMAIN g.out[b],
         NEW c \in Block, c = g.out[b][i].point, NEW j \in Nat, j = g.out[b][i].rev
  PROVE  /\ half_delete_out_edge(g, b, i) \in Graph(Block, Flag)
         /\ Widowed(Block, half_delete_out_edge(g, b, i), c, j)
         /\ half_delete_out_edge(g, b, i).in[c][j].label = g.out[b][i].label
<1> DEFINE h == half_delete_out_edge(g, b, i)
           old(x, k) == IF x = b /\ k >= i THEN k + 1 ELSE k
           new(e) == IF e.point = b /\ e.rev > i THEN [e EXCEPT !.rev = @ - 1] ELSE e
<1>1. /\ g.out[b] \in Seq(HalfEdge(Block, Flag))
      /\ i \in 1 .. Len(g.out[b]) /\ i \in Nat
      /\ Len(g.out[b]) \in Nat
  BY ListTypes
<1>2. ASSUME NEW x \in Block, NEW k \in DOMAIN g.in[x]
      PROVE  Follower(g.out[b], i, x, k) <=> g.in[x][k].point = b /\ g.in[x][k].rev > i
  <2>1. ASSUME NEW m \in i + 1 .. Len(g.out[b]), g.out[b][m].point = x, g.out[b][m].rev = k
        PROVE  g.in[x][k].point = b /\ g.in[x][k].rev > i
    <3>1. m \in DOMAIN g.out[b]
      BY <1>1, ListTypes
    <3>2. g.in[x][k] = blockedge(b, g.out[b][m].label, m)
      BY <3>1, <2>1 DEF Coupled, Partner
    <3> QED BY <3>2, <2>1, <1>1 DEF blockedge
  <2>2. ASSUME g.in[x][k].point = b, g.in[x][k].rev > i
        PROVE  \E m \in i + 1 .. Len(g.out[b]) : g.out[b][m].point = x /\ g.out[b][m].rev = k
    <3> DEFINE m == g.in[x][k].rev
    <3>1. /\ m \in DOMAIN g.out[b]
          /\ g.out[b][m] = blockedge(x, g.in[x][k].label, k)
      BY <2>2 DEF Coupled, Partner
    <3>2. m \in i + 1 .. Len(g.out[b])
      BY <3>1, <2>2, <1>1, ListTypes, SMTT(30)
    <3> QED BY <3>1, <3>2 DEF blockedge
  <2> QED BY <2>1, <2>2 DEF Follower
<1>3. ASSUME NEW x \in Block
      PROVE  /\ h.in[x] \in Seq(HalfEdge(Block, Flag))
             /\ DOMAIN h.in[x] = DOMAIN g.in[x]
             /\ \A k \in DOMAIN g.in[x] : h.in[x][k] = new(g.in[x][k])
  <2>1. DOMAIN g.in = Block
    BY DEF Graph
  <2>2. h.in[x] = [k \in DOMAIN g.in[x] |-> new(g.in[x][k])]
    BY <2>1, <1>2 DEF half_delete_out_edge, Renumbered
  <2>3. ASSUME NEW k \in DOMAIN g.in[x] PROVE new(g.in[x][k]) \in HalfEdge(Block, Flag)
    <3> DEFINE e == g.in[x][k]
    <3>1. e \in HalfEdge(Block, Flag)
      BY ListTypes
    <3>2. e.rev \in Nat /\ (e.rev > i => e.rev - 1 \in Nat \ {0})
      BY <3>1, <1>1, HalfTypes
    <3> HIDE DEF e
    <3>3. e.rev > i => [e EXCEPT !.rev = e.rev - 1] \in HalfEdge(Block, Flag)
      BY <3>1, <3>2 DEF HalfEdge
    <3> QED BY <3>1, <3>3 DEF e
  <2>4. DOMAIN g.in[x] = 1 .. Len(g.in[x]) /\ Len(g.in[x]) \in Nat
    BY ListTypes
  <2> HIDE DEF h, new
  <2> QED BY <2>2, <2>3, <2>4
<1>4. ASSUME NEW x \in Block
      PROVE  /\ h.out[x] \in Seq(HalfEdge(Block, Flag))
             /\ DOMAIN h.out[x] = 1 .. (IF x = b THEN Len(g.out[b]) - 1 ELSE Len(g.out[x]))
             /\ \A k \in DOMAIN h.out[x] : /\ old(x, k) \in DOMAIN g.out[x]
                                           /\ h.out[x][k] = g.out[x][old(x, k)]
  <2>1. DOMAIN g.out = Block
    BY DEF Graph
  <2>2. CASE x = b
    <3>1. h.out[x] = RemoveAt(g.out[b], i)
      BY <2>1, <2>2 DEF half_delete_out_edge
    <3>2. /\ RemoveAt(g.out[b], i) \in Seq(HalfEdge(Block, Flag))
          /\ DOMAIN RemoveAt(g.out[b], i) = 1 .. Len(g.out[b]) - 1
          /\ \A k \in 1 .. Len(g.out[b]) - 1 :
               RemoveAt(g.out[b], i)[k] = IF k < i THEN g.out[b][k] ELSE g.out[b][k + 1]
      BY <1>1, RemoveAtFacts
    <3>3. ASSUME NEW k \in 1 .. Len(g.out[b]) - 1
          PROVE  old(x, k) \in DOMAIN g.out[x] /\ h.out[x][k] = g.out[x][old(x, k)]
      <4>1. DOMAIN g.out[b] = 1 .. Len(g.out[b]) /\ Len(g.out[b]) \in Nat
        BY ListTypes
      <4>2. old(x, k) = (IF k < i THEN k ELSE k + 1) /\ k \in Nat /\ i \in Nat
        BY <2>2, <1>1
      <4>3. old(x, k) \in DOMAIN g.out[b]
        <5> HIDE DEF h, old
        <5> QED BY <4>1, <4>2
      <4>4. h.out[x][k] = g.out[b][old(x, k)]
        <5> HIDE DEF h, old
        <5> QED BY <3>1, <3>2, <4>2
      <4> QED BY <4>3, <4>4, <2>2
    <3> QED BY <3>1, <3>2, <3>3, <2>2
  <2>3. CASE x # b
    BY <2>1, <2>3, ListTypes DEF half_delete_out_edge
  <2> QED BY <2>2, <2>3
<1>5. h \in Graph(Block, Flag)
  <2>1. h = [in |-> h.in, out |-> h.out]
    BY DEF half_delete_out_edge
  <2>2. h.in \in [Block -> Seq(HalfEdge(Block, Flag))]
    <3>1. h.in = [x \in Block |-> h.in[x]]
      BY DEF half_delete_out_edge, Renumbered, Graph
    <3> HIDE DEF h
    <3> QED BY <3>1, <1>3
  <2>3. h.out \in [Block -> Seq(HalfEdge(Block, Flag))]
    <3>1. h.out = [x \in Block |-> h.out[x]]
      BY DEF half_delete_out_edge, Graph
    <3> HIDE DEF h
    <3> QED BY <3>1, <1>4
  <2> HIDE DEF h
  <2> QED BY <2>1, <2>2, <2>3 DEF Graph
<1>6. g.in[c][j] = blockedge(b, g.out[b][i].label, i) /\ j \in DOMAIN g.in[c]
  BY DEF Coupled, Partner
<1> HIDE DEF h
<1>7. Partner(Block, h, "out", "in")
  <2> SUFFICES ASSUME NEW x \in Block, NEW k \in DOMAIN h.out[x]
               PROVE  /\ h.out[x][k].rev \in DOMAIN h.in[h.out[x][k].point]
                      /\ h.in[h.out[x][k].point][h.out[x][k].rev] =
                           blockedge(x, h.out[x][k].label, k)
    BY DEF Partner
  <2> DEFINE e == g.out[x][old(x, k)]
  <2>1. old(x, k) \in DOMAIN g.out[x] /\ h.out[x][k] = e /\ k \in Nat
    <3>1. old(x, k) \in DOMAIN g.out[x] /\ h.out[x][k] = e
      BY <1>4
    <3>2. k \in Nat
      BY <1>4, <1>1, ListTypes
    <3> QED BY <3>1, <3>2
  <2>2. e.point \in Block
    BY <2>1, ListTypes, HalfTypes
  <2>3. /\ e.rev \in DOMAIN g.in[e.point]
        /\ g.in[e.point][e.rev] = blockedge(x, e.label, old(x, k))
    BY <2>1 DEF Coupled, Partner
  <2>4. h.in[e.point][e.rev] = new(blockedge(x, e.label, old(x, k)))
    <3>1. h.in[e.point][e.rev] = new(g.in[e.point][e.rev])
      BY <2>2, <2>3, <1>3
    <3> HIDE DEF new, old, e
    <3> QED BY <3>1, <2>3
  <2>5. new(blockedge(x, e.label, old(x, k))) = blockedge(x, e.label, k)
    BY <1>1, <2>1 DEF blockedge
  <2> QED BY <2>1, <2>2, <2>3, <2>4, <2>5, <1>3
<1>8. ASSUME NEW x \in Block, NEW k \in DOMAIN h.out[x],
             h.out[x][k].point = c, h.out[x][k].rev = j
      PROVE  FALSE
  <2>1. old(x, k) \in DOMAIN g.out[x] /\ h.out[x][k] = g.out[x][old(x, k)] /\ k \in Nat
    BY <1>4, <1>1, ListTypes
  <2>2. g.in[c][j] = blockedge(x, g.out[x][old(x, k)].label, old(x, k))
    <3> DEFINE e == g.out[x][old(x, k)]
    <3>1. e.point = c /\ e.rev = j
      BY <2>1, <1>8
    <3>2. g.in[e.point][e.rev] = blockedge(x, e.label, old(x, k))
      BY <2>1 DEF Coupled, Partner
    <3> QED BY <3>1, <3>2
  <2>3. x = b /\ old(x, k) = i
    <3>1. g.in[c][j].point = x /\ g.in[c][j].rev = old(x, k)
      BY <2>2, HalfFields
    <3>2. g.in[c][j].point = b /\ g.in[c][j].rev = i
      BY <1>6, HalfFields
    <3> HIDE DEF old
    <3> QED BY <3>1, <3>2
  <2> QED BY <2>3, <2>1, <1>1
<1>9. ASSUME NEW x \in Block, NEW k \in DOMAIN h.in[x], x # c \/ k # j
      PROVE  /\ h.in[x][k].rev \in DOMAIN h.out[h.in[x][k].point]
             /\ h.out[h.in[x][k].point][h.in[x][k].rev] = blockedge(x, h.in[x][k].label, k)
  <2> DEFINE e == g.in[x][k]
             m == e.rev
  <2>1. k \in DOMAIN g.in[x] /\ h.in[x][k] = new(e)
    BY <1>3
  <2>2. /\ m \in DOMAIN g.out[e.point]
        /\ g.out[e.point][m] = blockedge(x, e.label, k)
    BY <2>1 DEF Coupled, Partner
  <2>3. e \in HalfEdge(Block, Flag) /\ e.point \in Block /\ m \in Nat /\ m > 0
    BY <2>1, ListTypes, HalfTypes
  <2>4. CASE e.point = b /\ m > i
    <3>1. h.in[x][k] = [e EXCEPT !.rev = m - 1]
      BY <2>1, <2>4
    <3>2. h.in[x][k].point = b /\ h.in[x][k].rev = m - 1 /\ h.in[x][k].label = e.label
      BY <3>1, <2>3, <2>4 DEF HalfEdge
    <3>3. m - 1 \in DOMAIN h.out[b] /\ old(b, m - 1) = m
      <4>1. m \in 1 .. Len(g.out[b])
        BY <2>2, <2>4 DEF Graph
      <4>2. DOMAIN h.out[b] = 1 .. Len(g.out[b]) - 1
        BY <1>4
      <4>3. m - 1 \in 1 .. Len(g.out[b]) - 1 /\ m - 1 >= i /\ (m - 1) + 1 = m
        <5>1. m > i /\ m \in Nat
          BY <2>3, <2>4
        <5> HIDE DEF m
        <5> QED BY <5>1, <4>1, <1>1
      <4> QED BY <4>2, <4>3
    <3>4. h.out[b][m - 1] = g.out[b][m]
      <4>1. \A n \in DOMAIN h.out[b] : h.out[b][n] = g.out[b][old(b, n)]
        BY <1>4
      <4> HIDE DEF m, old
      <4> QED BY <4>1, <3>3
    <3> QED BY <3>2, <3>3, <3>4, <2>2, <2>4
  <2>5. CASE e.point = b /\ ~(m > i)
    <3>1. h.in[x][k] = e
      BY <2>1, <2>5
    <3>2. m # i
      <4>1. m = i => g.out[b][i] = blockedge(x, e.label, k)
        BY <2>2, <2>5
      <4>2. m = i => x = c /\ k = j
        BY <4>1 DEF blockedge
      <4> QED BY <4>2, <1>9
    <3>3. m \in DOMAIN h.out[b] /\ old(b, m) = m
      <4>1. m \in 1 .. Len(g.out[b])
        BY <2>2, <2>5, ListTypes
      <4>2. DOMAIN h.out[b] = 1 .. Len(g.out[b]) - 1
        BY <1>4
      <4>3. m \in 1 .. Len(g.out[b]) - 1 /\ ~(m >= i)
        BY <4>1, <3>2, <1>1, <2>3, <2>5
      <4> QED BY <4>2, <4>3
    <3>4. h.out[b][m] = g.out[b][m]
      BY <3>3, <1>4
    <3> QED BY <3>1, <3>3, <3>4, <2>2, <2>5
  <2>6. CASE e.point # b
    <3>1. h.in[x][k] = e
      BY <2>1, <2>6
    <3>2. DOMAIN h.out[e.point] = DOMAIN g.out[e.point] /\ old(e.point, m) = m
      BY <2>3, <2>6, <1>4, ListTypes, SMTT(30)
    <3>3. h.out[e.point][m] = g.out[e.point][m]
      <4> HIDE DEF e, m
      <4>1. m \in DOMAIN h.out[e.point]
        BY <3>2, <2>2
      <4>2. h.out[e.point][m] = g.out[e.point][old(e.point, m)]
        BY <4>1, <2>3, <1>4
      <4> QED BY <4>2, <3>2
    <3> QED BY <3>1, <3>2, <3>3, <2>2
  <2> QED BY <2>4, <2>5, <2>6
<1>10. Widowed(Block, h, c, j)
  BY <1>3, <1>6, <1>7, <1>8, <1>9 DEF Widowed
<1>11. h.in[c][j].label = g.out[b][i].label
  <2>1. h.in[c][j] = new(blockedge(b, g.out[b][i].label, i))
    <3>1. h.in[c][j] = new(g.in[c][j])
      BY <1>3, <1>6
    <3> HIDE DEF new
    <3> QED BY <3>1, <1>6
  <2> QED BY <2>1 DEF blockedge
<1> QED BY <1>5, <1>10, <1>11 DEF h

\* Deleting the widowed half restores the pairing.
LEMMA DropIn ==
  ASSUME NEW Block, NEW Flag, NEW g \in Graph(Block, Flag), NEW c \in Block, NEW j \in Nat, Widowed(Block, g, c, j)
  PROVE  /\ half_delete_in_edge(g, c, j) \in Graph(Block, Flag)
         /\ Coupled(Block, half_delete_in_edge(g, c, j))
<1> DEFINE h == half_delete_in_edge(g, c, j)
           old(x, k) == IF x = c /\ k >= j THEN k + 1 ELSE k
           new(e) == IF e.point = c /\ e.rev > j THEN [e EXCEPT !.rev = @ - 1] ELSE e
<1>1. /\ g.in[c] \in Seq(HalfEdge(Block, Flag))
      /\ j \in 1 .. Len(g.in[c])
      /\ Len(g.in[c]) \in Nat
  BY ListTypes DEF Widowed
<1>2. ASSUME NEW x \in Block, NEW k \in DOMAIN g.out[x]
      PROVE  Follower(g.in[c], j, x, k) <=> g.out[x][k].point = c /\ g.out[x][k].rev > j
  <2>1. ASSUME NEW m \in j + 1 .. Len(g.in[c]), g.in[c][m].point = x, g.in[c][m].rev = k
        PROVE  g.out[x][k].point = c /\ g.out[x][k].rev > j
    <3>1. m \in DOMAIN g.in[c] /\ m > j /\ m # j
      BY <1>1, ListTypes
    <3>2. g.out[x][k] = blockedge(c, g.in[c][m].label, m)
      BY <3>1, <2>1 DEF Widowed
    <3> QED BY <3>1, <3>2 DEF blockedge
  <2>2. ASSUME g.out[x][k].point = c, g.out[x][k].rev > j
        PROVE  \E m \in j + 1 .. Len(g.in[c]) : g.in[c][m].point = x /\ g.in[c][m].rev = k
    <3> DEFINE m == g.out[x][k].rev
    <3>1. /\ m \in DOMAIN g.in[c]
          /\ g.in[c][m] = blockedge(x, g.out[x][k].label, k)
      BY <2>2 DEF Widowed, Partner
    <3>2. m \in j + 1 .. Len(g.in[c])
      BY <3>1, <2>2, <1>1, ListTypes, SMTT(30)
    <3> QED BY <3>1, <3>2 DEF blockedge
  <2> QED BY <2>1, <2>2 DEF Follower
<1>3. ASSUME NEW x \in Block
      PROVE  /\ h.out[x] \in Seq(HalfEdge(Block, Flag))
             /\ DOMAIN h.out[x] = DOMAIN g.out[x]
             /\ \A k \in DOMAIN g.out[x] : h.out[x][k] = new(g.out[x][k])
  <2>1. DOMAIN g.out = Block
    BY DEF Graph
  <2>2. h.out[x] = [k \in DOMAIN g.out[x] |-> new(g.out[x][k])]
    BY <2>1, <1>2 DEF half_delete_in_edge, Renumbered
  <2>3. ASSUME NEW k \in DOMAIN g.out[x] PROVE new(g.out[x][k]) \in HalfEdge(Block, Flag)
    <3> DEFINE e == g.out[x][k]
    <3>1. e \in HalfEdge(Block, Flag)
      BY ListTypes
    <3>2. e.rev \in Nat /\ (e.rev > j => e.rev - 1 \in Nat \ {0})
      BY <3>1, <1>1, HalfTypes
    <3> HIDE DEF e
    <3>3. e.rev > j => [e EXCEPT !.rev = e.rev - 1] \in HalfEdge(Block, Flag)
      BY <3>1, <3>2 DEF HalfEdge
    <3> QED BY <3>1, <3>3 DEF e
  <2>4. DOMAIN g.out[x] = 1 .. Len(g.out[x]) /\ Len(g.out[x]) \in Nat
    BY ListTypes
  <2> HIDE DEF h, new
  <2> QED BY <2>2, <2>3, <2>4
<1>4. ASSUME NEW x \in Block
      PROVE  /\ h.in[x] \in Seq(HalfEdge(Block, Flag))
             /\ DOMAIN h.in[x] = 1 .. (IF x = c THEN Len(g.in[c]) - 1 ELSE Len(g.in[x]))
             /\ \A k \in DOMAIN h.in[x] : /\ old(x, k) \in DOMAIN g.in[x]
                                          /\ h.in[x][k] = g.in[x][old(x, k)]
  <2>1. DOMAIN g.in = Block
    BY DEF Graph
  <2>2. CASE x = c
    <3>1. h.in[x] = RemoveAt(g.in[c], j)
      BY <2>1, <2>2 DEF half_delete_in_edge
    <3>2. /\ RemoveAt(g.in[c], j) \in Seq(HalfEdge(Block, Flag))
          /\ DOMAIN RemoveAt(g.in[c], j) = 1 .. Len(g.in[c]) - 1
          /\ \A k \in 1 .. Len(g.in[c]) - 1 :
               RemoveAt(g.in[c], j)[k] = IF k < j THEN g.in[c][k] ELSE g.in[c][k + 1]
      BY <1>1, RemoveAtFacts
    <3>3. ASSUME NEW k \in 1 .. Len(g.in[c]) - 1
          PROVE  old(x, k) \in DOMAIN g.in[x] /\ h.in[x][k] = g.in[x][old(x, k)]
      <4>1. DOMAIN g.in[c] = 1 .. Len(g.in[c]) /\ Len(g.in[c]) \in Nat
        BY ListTypes
      <4>2. old(x, k) = (IF k < j THEN k ELSE k + 1) /\ k \in Nat /\ j \in Nat
        BY <2>2, <1>1
      <4>3. old(x, k) \in DOMAIN g.in[c]
        <5> HIDE DEF h, old
        <5> QED BY <4>1, <4>2
      <4>4. h.in[x][k] = g.in[c][old(x, k)]
        <5> HIDE DEF h, old
        <5> QED BY <3>1, <3>2, <4>2
      <4> QED BY <4>3, <4>4, <2>2
    <3> QED BY <3>1, <3>2, <3>3, <2>2
  <2>3. CASE x # c
    BY <2>1, <2>3, ListTypes DEF half_delete_in_edge
  <2> QED BY <2>2, <2>3
<1>5. h \in Graph(Block, Flag)
  <2>1. h = [in |-> h.in, out |-> h.out]
    BY DEF half_delete_in_edge
  <2>2. h.out \in [Block -> Seq(HalfEdge(Block, Flag))]
    <3>1. h.out = [x \in Block |-> h.out[x]]
      BY DEF half_delete_in_edge, Renumbered, Graph
    <3> HIDE DEF h
    <3> QED BY <3>1, <1>3
  <2>3. h.in \in [Block -> Seq(HalfEdge(Block, Flag))]
    <3>1. h.in = [x \in Block |-> h.in[x]]
      BY DEF half_delete_in_edge, Graph
    <3> HIDE DEF h
    <3> QED BY <3>1, <1>4
  <2> HIDE DEF h
  <2> QED BY <2>1, <2>2, <2>3 DEF Graph
<1> HIDE DEF h
<1>6. Partner(Block, h, "in", "out")
  <2> SUFFICES ASSUME NEW x \in Block, NEW k \in DOMAIN h.in[x]
               PROVE  /\ h.in[x][k].rev \in DOMAIN h.out[h.in[x][k].point]
                      /\ h.out[h.in[x][k].point][h.in[x][k].rev] =
                           blockedge(x, h.in[x][k].label, k)
    BY DEF Partner
  <2> DEFINE e == g.in[x][old(x, k)]
  <2>1. /\ old(x, k) \in DOMAIN g.in[x] /\ h.in[x][k] = e /\ k \in Nat
        /\ x # c \/ old(x, k) # j
    <3>1. k \in Nat
      BY <1>4, <1>1, ListTypes
    <3>2. x # c \/ old(x, k) # j
      BY <3>1, <1>1
    <3>3. old(x, k) \in DOMAIN g.in[x] /\ h.in[x][k] = e
      BY <1>4
    <3> QED BY <3>1, <3>2, <3>3
  <2>2. e.point \in Block
    BY <2>1, ListTypes, HalfTypes
  <2>3. /\ e.rev \in DOMAIN g.out[e.point]
        /\ g.out[e.point][e.rev] = blockedge(x, e.label, old(x, k))
    BY <2>1 DEF Widowed
  <2>4. h.out[e.point][e.rev] = new(blockedge(x, e.label, old(x, k)))
    <3>1. h.out[e.point][e.rev] = new(g.out[e.point][e.rev])
      BY <2>2, <2>3, <1>3
    <3> HIDE DEF new, old, e
    <3> QED BY <3>1, <2>3
  <2>5. new(blockedge(x, e.label, old(x, k))) = blockedge(x, e.label, k)
    BY <1>1, <2>1 DEF blockedge
  <2> QED BY <2>1, <2>2, <2>3, <2>4, <2>5, <1>3
<1>7. Partner(Block, h, "out", "in")
  <2> SUFFICES ASSUME NEW x \in Block, NEW k \in DOMAIN h.out[x]
               PROVE  /\ h.out[x][k].rev \in DOMAIN h.in[h.out[x][k].point]
                      /\ h.in[h.out[x][k].point][h.out[x][k].rev] =
                           blockedge(x, h.out[x][k].label, k)
    BY DEF Partner
  <2> DEFINE e == g.out[x][k]
             m == e.rev
  <2>1. k \in DOMAIN g.out[x] /\ h.out[x][k] = new(e)
    BY <1>3
  <2>2. /\ m \in DOMAIN g.in[e.point]
        /\ g.in[e.point][m] = blockedge(x, e.label, k)
    BY <2>1 DEF Widowed, Partner
  <2>3. e \in HalfEdge(Block, Flag) /\ e.point \in Block /\ m \in Nat /\ m > 0
    BY <2>1, ListTypes, HalfTypes
  <2>4. CASE e.point = c /\ m > j
    <3>1. h.out[x][k] = [e EXCEPT !.rev = m - 1]
      BY <2>1, <2>4
    <3>2. h.out[x][k].point = c /\ h.out[x][k].rev = m - 1 /\ h.out[x][k].label = e.label
      BY <3>1, <2>3, <2>4 DEF HalfEdge
    <3>3. m - 1 \in DOMAIN h.in[c] /\ old(c, m - 1) = m
      <4>1. m \in 1 .. Len(g.in[c])
        BY <2>2, <2>4 DEF Graph
      <4>2. DOMAIN h.in[c] = 1 .. Len(g.in[c]) - 1
        BY <1>4
      <4>3. m - 1 \in 1 .. Len(g.in[c]) - 1 /\ m - 1 >= j /\ (m - 1) + 1 = m
        <5>1. m > j /\ m \in Nat
          BY <2>3, <2>4
        <5> HIDE DEF m
        <5> QED BY <5>1, <4>1, <1>1
      <4> QED BY <4>2, <4>3
    <3>4. h.in[c][m - 1] = g.in[c][m]
      BY <3>3, <1>4
    <3> QED BY <3>2, <3>3, <3>4, <2>2, <2>4
  <2>5. CASE e.point = c /\ ~(m > j)
    <3>1. h.out[x][k] = e
      BY <2>1, <2>5
    <3>2. m # j
      BY <2>1, <2>5 DEF Widowed
    <3>3. m \in DOMAIN h.in[c] /\ old(c, m) = m
      <4>1. m \in 1 .. Len(g.in[c])
        BY <2>2, <2>5, ListTypes
      <4>2. DOMAIN h.in[c] = 1 .. Len(g.in[c]) - 1
        BY <1>4
      <4>3. m \in 1 .. Len(g.in[c]) - 1 /\ ~(m >= j)
        BY <4>1, <3>2, <1>1, <2>3, <2>5
      <4> QED BY <4>2, <4>3
    <3>4. h.in[c][m] = g.in[c][m]
      BY <3>3, <1>4, SMTT(30)
    <3> QED BY <3>1, <3>3, <3>4, <2>2, <2>5
  <2>6. CASE e.point # c
    <3>1. h.out[x][k] = e
      BY <2>1, <2>6
    <3>2. DOMAIN h.in[e.point] = DOMAIN g.in[e.point] /\ old(e.point, m) = m
      BY <2>3, <2>6, <1>4, ListTypes
    <3>3. h.in[e.point][m] = g.in[e.point][m]
      <4> HIDE DEF e, m
      <4>1. m \in DOMAIN h.in[e.point]
        BY <3>2, <2>2
      <4>2. h.in[e.point][m] = g.in[e.point][old(e.point, m)]
        BY <4>1, <2>3, <1>4
      <4> QED BY <4>2, <3>2
    <3> QED BY <3>1, <3>2, <3>3, <2>2
  <2> QED BY <2>4, <2>5, <2>6
<1> QED BY <1>5, <1>6, <1>7 DEF h, Coupled

\* The two deletions in a row.
LEMMA RemoveOutEdge ==
  ASSUME NEW Block, NEW Flag, NEW g \in Graph(Block, Flag), Coupled(Block, g), NEW b \in Block, NEW i \in DOMAIN g.out[b]
  PROVE  remove_out_edge(g, b, i) \in Graph(Block, Flag) /\ Coupled(Block, remove_out_edge(g, b, i))
<1> DEFINE c == g.out[b][i].point
           j == g.out[b][i].rev
<1>1. c \in Block /\ j \in Nat
  BY ListTypes, HalfTypes
<1>2. /\ half_delete_out_edge(g, b, i) \in Graph(Block, Flag)
      /\ Widowed(Block, half_delete_out_edge(g, b, i), c, j)
  BY <1>1, LoseOut
<1>3. remove_out_edge(g, b, i) = half_delete_in_edge(half_delete_out_edge(g, b, i), c, j)
  BY DEF remove_out_edge
<1> HIDE DEF c, j
<1> QED BY <1>1, <1>2, <1>3, DropIn

\* Exchanging the lists exchanges the primitives.
LEMMA MirrorFacts ==
  ASSUME NEW Block, NEW Flag, NEW g \in Graph(Block, Flag)
  PROVE  /\ Mirror(g) \in Graph(Block, Flag)
         /\ Mirror(Mirror(g)) = g
         /\ Coupled(Block, g) => Coupled(Block, Mirror(g))
         /\ \A c, j : remove_in_edge(g, c, j) = Mirror(remove_out_edge(Mirror(g), c, j))
<1>1. Mirror(g) \in Graph(Block, Flag) /\ Mirror(Mirror(g)) = g
  BY DEF Mirror, Graph
<1>2. Coupled(Block, g) => Coupled(Block, Mirror(g))
  <2>1. Mirror(g)["in"] = g["out"] /\ Mirror(g)["out"] = g["in"]
    BY DEF Mirror
  <2> QED BY <2>1 DEF Coupled, Partner
<1>3. \A c, j : remove_in_edge(g, c, j) = Mirror(remove_out_edge(Mirror(g), c, j))
  BY DEF Mirror, remove_in_edge, remove_out_edge, half_delete_in_edge, half_delete_out_edge
<1> QED BY <1>1, <1>2, <1>3

LEMMA RemoveInEdge ==
  ASSUME NEW Block, NEW Flag, NEW g \in Graph(Block, Flag), Coupled(Block, g), NEW c \in Block, NEW j \in DOMAIN g.in[c]
  PROVE  remove_in_edge(g, c, j) \in Graph(Block, Flag) /\ Coupled(Block, remove_in_edge(g, c, j))
<1>1. Mirror(g) \in Graph(Block, Flag) /\ Coupled(Block, Mirror(g)) /\ j \in DOMAIN Mirror(g).out[c]
  BY MirrorFacts DEF Mirror
<1>2. remove_out_edge(Mirror(g), c, j) \in Graph(Block, Flag) /\ Coupled(Block, remove_out_edge(Mirror(g), c, j))
  BY <1>1, RemoveOutEdge
<1> QED BY <1>2, MirrorFacts

LEMMA AppendFacts ==
  ASSUME NEW S, NEW s \in Seq(S), NEW e \in S
  PROVE  /\ Append(s, e) \in Seq(S)
         /\ DOMAIN Append(s, e) = 1 .. Len(s) + 1
         /\ Append(s, e)[Len(s) + 1] = e
         /\ \A k \in 1 .. Len(s) : Append(s, e)[k] = s[k]
  BY AppendProperties

LEMMA BlockedgeType ==
  ASSUME NEW Block, NEW Flag, NEW b \in Block, NEW lab \in SUBSET Flag, NEW n \in Nat, n > 0
  PROVE  /\ blockedge(b, lab, n) \in HalfEdge(Block, Flag)
         /\ blockedge(b, lab, n).point = b
         /\ blockedge(b, lab, n).label = lab
         /\ blockedge(b, lab, n).rev = n
  BY DEF blockedge, HalfEdge

\* A new edge gets its two halves at the ends of two lists, each naming the other.
LEMMA AddInEdge ==
  ASSUME NEW Block, NEW Flag, NEW g \in Graph(Block, Flag), Coupled(Block, g), NEW t \in Block, NEW b \in Block, NEW lab \in SUBSET Flag
  PROVE  add_in_edge(g, t, b, lab) \in Graph(Block, Flag) /\ Coupled(Block, add_in_edge(g, t, b, lab))
<1> DEFINE h == add_in_edge(g, t, b, lab)
           n == Len(g.in[t]) + 1
           m == Len(g.out[b]) + 1
           hin == blockedge(b, lab, m)
           hout == blockedge(t, lab, n)
<1>1. /\ n \in Nat /\ n > 0 /\ m \in Nat /\ m > 0
      /\ hin \in HalfEdge(Block, Flag) /\ hout \in HalfEdge(Block, Flag)
  BY ListTypes, BlockedgeType
<1>2. /\ h.in = [g.in EXCEPT ![t] = Append(g.in[t], hin)]
      /\ h.out = [g.out EXCEPT ![b] = Append(g.out[b], hout)]
      /\ h = [in |-> h.in, out |-> h.out]
  BY DEF add_in_edge
<1>3. /\ g.in \in [Block -> Seq(HalfEdge(Block, Flag))]
      /\ g.out \in [Block -> Seq(HalfEdge(Block, Flag))]
  BY DEF Graph
<1> HIDE DEF h, hin, hout
<1>4. ASSUME NEW x \in Block
      PROVE  /\ h.in[x] \in Seq(HalfEdge(Block, Flag))
             /\ DOMAIN h.in[x] = IF x = t THEN 1 .. n ELSE DOMAIN g.in[x]
             /\ \A k \in DOMAIN g.in[x] : k \in DOMAIN h.in[x] /\ h.in[x][k] = g.in[x][k]
             /\ h.in[t][n] = hin
  BY <1>1, <1>2, <1>3, ListTypes, AppendFacts
<1>5. ASSUME NEW x \in Block
      PROVE  /\ h.out[x] \in Seq(HalfEdge(Block, Flag))
             /\ DOMAIN h.out[x] = IF x = b THEN 1 .. m ELSE DOMAIN g.out[x]
             /\ \A k \in DOMAIN g.out[x] : k \in DOMAIN h.out[x] /\ h.out[x][k] = g.out[x][k]
             /\ h.out[b][m] = hout
  BY <1>1, <1>2, <1>3, ListTypes, AppendFacts, SMTT(30)
<1>6. h \in Graph(Block, Flag)
  <2>1. h.in \in [Block -> Seq(HalfEdge(Block, Flag))] /\ h.out \in [Block -> Seq(HalfEdge(Block, Flag))]
    BY <1>2, <1>3, <1>4, <1>5
  <2> QED BY <2>1, <1>2 DEF Graph
<1>7. /\ hin.point = b /\ hin.label = lab /\ hin.rev = m
      /\ hout.point = t /\ hout.label = lab /\ hout.rev = n
      /\ hin = blockedge(b, lab, m) /\ hout = blockedge(t, lab, n)
  BY <1>1 DEF blockedge, hin, hout
<1>8. Partner(Block, h, "out", "in")
  <2> SUFFICES ASSUME NEW x \in Block, NEW k \in DOMAIN h.out[x]
               PROVE  /\ h.out[x][k].rev \in DOMAIN h.in[h.out[x][k].point]
                      /\ h.in[h.out[x][k].point][h.out[x][k].rev] =
                           blockedge(x, h.out[x][k].label, k)
    BY DEF Partner
  <2>1. CASE k \in DOMAIN g.out[x]
    <3> DEFINE e == g.out[x][k]
    <3>1. /\ e.rev \in DOMAIN g.in[e.point]
          /\ g.in[e.point][e.rev] = blockedge(x, e.label, k)
      BY <2>1 DEF Coupled, Partner
    <3>2. e.point \in Block /\ h.out[x][k] = e
      BY <2>1, <1>5, ListTypes, HalfTypes
    <3> HIDE DEF e
    <3>3. /\ e.rev \in DOMAIN h.in[e.point]
          /\ h.in[e.point][e.rev] = g.in[e.point][e.rev]
      BY <3>1, <3>2, <1>4
    <3> QED BY <3>1, <3>2, <3>3
  <2>2. CASE k \notin DOMAIN g.out[x]
    <3>1. x = b /\ k = m
      BY <2>2, <1>5, ListTypes, <1>1
    <3>2. h.out[b][m] = hout /\ h.in[t][n] = hin /\ n \in DOMAIN h.in[t]
      BY <1>1, <1>4, <1>5
    <3> QED BY <3>1, <3>2, <1>7
  <2> QED BY <2>1, <2>2
<1>9. Partner(Block, h, "in", "out")
  <2> SUFFICES ASSUME NEW x \in Block, NEW k \in DOMAIN h.in[x]
               PROVE  /\ h.in[x][k].rev \in DOMAIN h.out[h.in[x][k].point]
                      /\ h.out[h.in[x][k].point][h.in[x][k].rev] =
                           blockedge(x, h.in[x][k].label, k)
    BY DEF Partner
  <2>1. CASE k \in DOMAIN g.in[x]
    <3> DEFINE e == g.in[x][k]
    <3>1. /\ e.rev \in DOMAIN g.out[e.point]
          /\ g.out[e.point][e.rev] = blockedge(x, e.label, k)
      BY <2>1 DEF Coupled, Partner
    <3>2. e.point \in Block /\ h.in[x][k] = e
      BY <2>1, <1>4, ListTypes, HalfTypes
    <3> HIDE DEF e
    <3>3. /\ e.rev \in DOMAIN h.out[e.point]
          /\ h.out[e.point][e.rev] = g.out[e.point][e.rev]
      BY <3>1, <3>2, <1>5
    <3> QED BY <3>1, <3>2, <3>3
  <2>2. CASE k \notin DOMAIN g.in[x]
    <3>1. x = t /\ k = n
      BY <2>2, <1>4, ListTypes, <1>1
    <3>2. h.in[t][n] = hin /\ h.out[b][m] = hout /\ m \in DOMAIN h.out[b]
      BY <1>1, <1>4, <1>5
    <3> QED BY <3>1, <3>2, <1>7
  <2> QED BY <2>1, <2>2
<1> QED BY <1>6, <1>8, <1>9 DEF h, Coupled

\* A widowed half marries the new half at the end of the out list of b.
LEMMA Attach ==
  ASSUME NEW Block, NEW Flag, NEW g \in Graph(Block, Flag), NEW t \in Block, NEW num \in Nat, Widowed(Block, g, t, num),
         NEW b \in Block, NEW lab \in SUBSET Flag, lab = g.in[t][num].label
  PROVE  LET h == [ in  |-> [g.in EXCEPT ![t][num] =
                               [@ EXCEPT !.point = b, !.rev = Len(g.out[b]) + 1]],
                    out |-> [g.out EXCEPT ![b] = Append(@, blockedge(t, lab, num))] ]
         IN  h \in Graph(Block, Flag) /\ Coupled(Block, h)
<1> DEFINE m == Len(g.out[b]) + 1
           hin == [g.in[t][num] EXCEPT !.point = b, !.rev = m]
           hout == blockedge(t, lab, num)
           h == [ in  |-> [g.in EXCEPT ![t][num] = hin],
                  out |-> [g.out EXCEPT ![b] = Append(g.out[b], hout)] ]
<1>1. /\ m \in Nat /\ m > 0
      /\ num \in DOMAIN g.in[t] /\ num > 0
      /\ g.in[t][num] \in HalfEdge(Block, Flag)
      /\ hout \in HalfEdge(Block, Flag)
  BY ListTypes, BlockedgeType DEF Widowed
<1>2. hin = blockedge(b, lab, m) /\ hin \in HalfEdge(Block, Flag)
  <2> DEFINE e == g.in[t][num]
  <2>1. e = [point |-> e.point, label |-> lab, rev |-> e.rev]
    BY <1>1, HalfTypes DEF blockedge
  <2>2. hin = [e EXCEPT !.point = b, !.rev = m]
    OBVIOUS
  <2>3. hin = blockedge(b, lab, m)
    <3> DEFINE p == e.point
               r == e.rev
    <3>1. e = [point |-> p, label |-> lab, rev |-> r]
      BY <2>1
    <3> HIDE DEF e, hin, m, p, r
    <3>2. hin = [[point |-> p, label |-> lab, rev |-> r] EXCEPT !.point = b, !.rev = m]
      BY <3>1, <2>2
    <3> QED BY <3>2 DEF blockedge
  <2> QED BY <2>3, <1>1, BlockedgeType
<1>3. /\ h.in = [g.in EXCEPT ![t] = [g.in[t] EXCEPT ![num] = hin]]
      /\ h.out = [g.out EXCEPT ![b] = Append(g.out[b], hout)]
      /\ h = [in |-> h.in, out |-> h.out]
  OBVIOUS
<1>4. /\ g.in \in [Block -> Seq(HalfEdge(Block, Flag))]
      /\ g.out \in [Block -> Seq(HalfEdge(Block, Flag))]
  BY DEF Graph
<1> SUFFICES h \in Graph(Block, Flag) /\ Coupled(Block, h)
  OBVIOUS
<1>5. /\ hin.point = b /\ hin.label = lab /\ hin.rev = m
      /\ hout.point = t /\ hout.label = lab /\ hout.rev = num
      /\ hout = blockedge(t, lab, num)
  BY <1>1, <1>2 DEF blockedge
<1> HIDE DEF h, hin, hout
<1>6. ASSUME NEW x \in Block
      PROVE  /\ h.in[x] \in Seq(HalfEdge(Block, Flag))
             /\ DOMAIN h.in[x] = DOMAIN g.in[x]
             /\ \A k \in DOMAIN g.in[x] :
                  h.in[x][k] = IF x = t /\ k = num THEN hin ELSE g.in[x][k]
  <2>1. CASE x = t
    <3>1. h.in[x] = [g.in[t] EXCEPT ![num] = hin]
      BY <2>1, <1>3, <1>4
    <3> QED BY <3>1, <2>1, <1>1, <1>2, ListTypes, ExceptSeq
  <2>2. CASE x # t
    BY <2>2, <1>3, <1>4, ListTypes
  <2> QED BY <2>1, <2>2
<1>7. ASSUME NEW x \in Block
      PROVE  /\ h.out[x] \in Seq(HalfEdge(Block, Flag))
             /\ DOMAIN h.out[x] = IF x = b THEN 1 .. m ELSE DOMAIN g.out[x]
             /\ \A k \in DOMAIN g.out[x] : k \in DOMAIN h.out[x] /\ h.out[x][k] = g.out[x][k]
             /\ h.out[b][m] = hout
  BY <1>1, <1>3, <1>4, ListTypes, AppendFacts
<1>8. h \in Graph(Block, Flag)
  <2>1. h.in \in [Block -> Seq(HalfEdge(Block, Flag))] /\ h.out \in [Block -> Seq(HalfEdge(Block, Flag))]
    BY <1>3, <1>4, <1>6, <1>7
  <2> QED BY <2>1, <1>3 DEF Graph
<1>9. Partner(Block, h, "out", "in")
  <2> SUFFICES ASSUME NEW x \in Block, NEW k \in DOMAIN h.out[x]
               PROVE  /\ h.out[x][k].rev \in DOMAIN h.in[h.out[x][k].point]
                      /\ h.in[h.out[x][k].point][h.out[x][k].rev] =
                           blockedge(x, h.out[x][k].label, k)
    BY DEF Partner
  <2>1. CASE k \in DOMAIN g.out[x]
    <3> DEFINE e == g.out[x][k]
    <3>1. /\ e.rev \in DOMAIN g.in[e.point]
          /\ g.in[e.point][e.rev] = blockedge(x, e.label, k)
          /\ ~(e.point = t /\ e.rev = num)
      BY <2>1 DEF Widowed, Partner
    <3>2. e.point \in Block
      BY <2>1, ListTypes, HalfTypes
    <3>3. h.in[e.point][e.rev] = g.in[e.point][e.rev]
      BY <3>1, <3>2, <1>6
    <3>4. h.out[x][k] = e
      BY <2>1, <1>7
    <3> HIDE DEF e
    <3> QED BY <3>1, <3>2, <3>3, <3>4, <1>6
  <2>2. CASE k \notin DOMAIN g.out[x]
    <3>1. x = b /\ k = m
      BY <2>2, <1>7, ListTypes, <1>1
    <3>2. h.in[t][num] = hin /\ num \in DOMAIN h.in[t]
      BY <1>1, <1>6
    <3> QED BY <3>1, <3>2, <1>1, <1>2, <1>5, <1>7
  <2> QED BY <2>1, <2>2
<1>10. Partner(Block, h, "in", "out")
  <2> SUFFICES ASSUME NEW x \in Block, NEW k \in DOMAIN h.in[x]
               PROVE  /\ h.in[x][k].rev \in DOMAIN h.out[h.in[x][k].point]
                      /\ h.out[h.in[x][k].point][h.in[x][k].rev] =
                           blockedge(x, h.in[x][k].label, k)
    BY DEF Partner
  <2>1. CASE x = t /\ k = num
    <3>1. h.in[x][k] = hin
      BY <2>1, <1>1, <1>6
    <3>2. m \in DOMAIN h.out[b] /\ h.out[b][m] = hout
      BY <1>1, <1>7
    <3> QED BY <2>1, <3>1, <3>2, <1>5
  <2>2. CASE ~(x = t /\ k = num)
    <3> DEFINE e == g.in[x][k]
    <3>1. k \in DOMAIN g.in[x] /\ h.in[x][k] = e
      BY <2>2, <1>6
    <3>2. /\ e.rev \in DOMAIN g.out[e.point]
          /\ g.out[e.point][e.rev] = blockedge(x, e.label, k)
      BY <2>2, <3>1 DEF Widowed
    <3>3. e.point \in Block
      BY <3>1, ListTypes, HalfTypes
    <3> HIDE DEF e
    <3> QED BY <3>1, <3>2, <3>3, <1>7, SMTT(30)
  <2> QED BY <2>1, <2>2
<1> QED BY <1>8, <1>9, <1>10 DEF Coupled

LEMMA ReplaceInEdge ==
  ASSUME NEW Block, NEW Flag, NEW g \in Graph(Block, Flag), Coupled(Block, g),
         NEW t \in Block, NEW num \in DOMAIN g.in[t], NEW b \in Block
  PROVE  replace_in_edge(g, t, num, b) \in Graph(Block, Flag) /\ Coupled(Block, replace_in_edge(g, t, num, b))
<1> DEFINE e  == g.in[t][num]
           g1 == half_delete_out_edge(g, e.point, e.rev)
<1>1. /\ num \in Nat /\ e.point \in Block /\ e.label \in SUBSET Flag
  BY ListTypes, HalfTypes
<1>2. /\ e.rev \in DOMAIN g.out[e.point]
      /\ g.out[e.point][e.rev] = blockedge(t, e.label, num)
  BY DEF Coupled, Partner
<1>3. /\ g.out[e.point][e.rev].point = t
      /\ g.out[e.point][e.rev].label = e.label
      /\ g.out[e.point][e.rev].rev = num
  BY <1>2, HalfFields
<1> DEFINE lab == e.label
<1>4. g1 \in Graph(Block, Flag) /\ Widowed(Block, g1, t, num) /\ lab = g1.in[t][num].label
  <2> HIDE DEF e
  <2> QED BY <1>1, <1>2, <1>3, LoseOut
<1>5. replace_in_edge(g, t, num, b) =
        [ in  |-> [g1.in EXCEPT ![t][num] =
                     [@ EXCEPT !.point = b, !.rev = Len(g1.out[b]) + 1]],
          out |-> [g1.out EXCEPT ![b] = Append(@, blockedge(t, lab, num))] ]
  BY DEF replace_in_edge
<1> HIDE DEF e, g1, lab
<1>6. lab \in SUBSET Flag
  BY <1>1 DEF lab
<1> DEFINE h == [ in  |-> [g1.in EXCEPT ![t][num] =
                            [@ EXCEPT !.point = b, !.rev = Len(g1.out[b]) + 1]],
                 out |-> [g1.out EXCEPT ![b] = Append(@, blockedge(t, lab, num))] ]
<1>7. h \in Graph(Block, Flag) /\ Coupled(Block, h)
  BY <1>1, <1>4, <1>6, Attach
<1> HIDE DEF h
<1> QED BY <1>5, <1>7 DEF h

LEMMA MoveOutEdge ==
  ASSUME NEW Block, NEW Flag, NEW g \in Graph(Block, Flag), Coupled(Block, g),
         NEW b \in Block, NEW i \in DOMAIN g.out[b], NEW new \in Block
  PROVE  move_out_edge(g, b, i, new) \in Graph(Block, Flag) /\ Coupled(Block, move_out_edge(g, b, i, new))
<1> DEFINE t == g.out[b][i].point
           num == g.out[b][i].rev
<1>1. t \in Block /\ num \in DOMAIN g.in[t]
  <2>1. g.out[b][i] \in HalfEdge(Block, Flag)
    BY DEF Graph
  <2>2. num \in DOMAIN g.in[t]
    BY DEF Coupled, Partner
  <2> QED BY <2>1, <2>2 DEF HalfEdge
<1>2. move_out_edge(g, b, i, new) = replace_in_edge(g, t, num, new)
  BY DEF move_out_edge
<1> HIDE DEF t, num
<1> QED BY <1>1, <1>2, ReplaceInEdge

\* Writing the same label into both halves of an edge keeps the pairing.
LEMMA Relabel ==
  ASSUME NEW Block, NEW Flag, NEW g \in Graph(Block, Flag), Coupled(Block, g),
         NEW b \in Block, NEW i \in DOMAIN g.out[b], NEW lab \in SUBSET Flag,
         NEW c \in Block, c = g.out[b][i].point, NEW j \in Nat, j = g.out[b][i].rev
  PROVE  LET h == [ in  |-> [g.in  EXCEPT ![c][j].label = lab],
                    out |-> [g.out EXCEPT ![b][i].label = lab] ]
         IN  h \in Graph(Block, Flag) /\ Coupled(Block, h)
<1> DEFINE h == [ in  |-> [g.in  EXCEPT ![c][j].label = lab],
                  out |-> [g.out EXCEPT ![b][i].label = lab] ]
           hin == [g.in[c][j] EXCEPT !.label = lab]
           hout == [g.out[b][i] EXCEPT !.label = lab]
<1>1. /\ i \in 1 .. Len(g.out[b]) /\ i \in Nat /\ i > 0
      /\ g.out[b][i] = blockedge(c, g.out[b][i].label, j)
      /\ j > 0
  BY ListTypes, HalfTypes
<1>2. /\ j \in DOMAIN g.in[c] /\ j \in 1 .. Len(g.in[c])
      /\ g.in[c][j] = blockedge(b, g.out[b][i].label, i)
  <2>1. j \in DOMAIN g.in[c] /\ g.in[c][j] = blockedge(b, g.out[b][i].label, i)
    BY DEF Coupled, Partner
  <2>2. DOMAIN g.in[c] = 1 .. Len(g.in[c])
    BY DEF Graph
  <2> QED BY <2>1, <2>2
<1>3. hin = blockedge(b, lab, i) /\ hout = blockedge(c, lab, j)
  <2>1. [blockedge(b, g.out[b][i].label, i) EXCEPT !.label = lab] = blockedge(b, lab, i)
    BY HalfRelabelled
  <2>2. [blockedge(c, g.out[b][i].label, j) EXCEPT !.label = lab] = blockedge(c, lab, j)
    BY HalfRelabelled
  <2>3. hin = blockedge(b, lab, i)
    BY <2>1, <1>2
  <2>4. hout = blockedge(c, lab, j)
    BY <2>2, <1>1
  <2> QED BY <2>3, <2>4
<1> HIDE DEF hin, hout
<1>4. /\ hin \in HalfEdge(Block, Flag) /\ hin.point = b /\ hin.rev = i /\ hin.label = lab
      /\ hout \in HalfEdge(Block, Flag) /\ hout.point = c /\ hout.rev = j /\ hout.label = lab
  <2>1. /\ blockedge(b, lab, i) \in HalfEdge(Block, Flag)
        /\ blockedge(c, lab, j) \in HalfEdge(Block, Flag)
    BY <1>1, BlockedgeType
  <2> QED BY <1>3, <2>1, HalfFields
<1>5. /\ h.in = [g.in EXCEPT ![c] = [g.in[c] EXCEPT ![j] = hin]]
      /\ h.out = [g.out EXCEPT ![b] = [g.out[b] EXCEPT ![i] = hout]]
      /\ h = [in |-> h.in, out |-> h.out]
  BY DEF hin, hout
<1>6. /\ g.in \in [Block -> Seq(HalfEdge(Block, Flag))]
      /\ g.out \in [Block -> Seq(HalfEdge(Block, Flag))]
  BY DEF Graph
<1> SUFFICES h \in Graph(Block, Flag) /\ Coupled(Block, h)
  OBVIOUS
<1> HIDE DEF h
<1>7. ASSUME NEW x \in Block
      PROVE  /\ h.in[x] \in Seq(HalfEdge(Block, Flag))
             /\ DOMAIN h.in[x] = DOMAIN g.in[x]
             /\ \A k \in DOMAIN g.in[x] :
                  h.in[x][k] = IF x = c /\ k = j THEN hin ELSE g.in[x][k]
  <2>1. CASE x = c
    <3>1. h.in[x] = [g.in[c] EXCEPT ![j] = hin]
      BY <2>1, <1>5, <1>6
    <3> DEFINE s == g.in[c]
    <3>2. s \in Seq(HalfEdge(Block, Flag)) /\ j \in 1 .. Len(s) /\ DOMAIN s = 1 .. Len(s)
      BY <1>2 DEF Graph
    <3>3. h.in[x] = [s EXCEPT ![j] = hin]
      BY <3>1
    <3> HIDE DEF s
    <3>4. /\ [s EXCEPT ![j] = hin] \in Seq(HalfEdge(Block, Flag))
          /\ DOMAIN [s EXCEPT ![j] = hin] = DOMAIN s
          /\ \A k \in DOMAIN s : [s EXCEPT ![j] = hin][k] = IF k = j THEN hin ELSE s[k]
      BY <3>2, <1>4
    <3> QED BY <3>3, <3>4, <2>1 DEF s
  <2>2. CASE x # c
    BY <2>2, <1>5, <1>6, ListTypes
  <2> QED BY <2>1, <2>2
<1>8. ASSUME NEW x \in Block
      PROVE  /\ h.out[x] \in Seq(HalfEdge(Block, Flag))
             /\ DOMAIN h.out[x] = DOMAIN g.out[x]
             /\ \A k \in DOMAIN g.out[x] :
                  h.out[x][k] = IF x = b /\ k = i THEN hout ELSE g.out[x][k]
  <2>1. CASE x = b
    <3>1. h.out[x] = [g.out[b] EXCEPT ![i] = hout]
      BY <2>1, <1>5, <1>6
    <3> QED BY <3>1, <2>1, <1>1, <1>4, ListTypes, ExceptSeq
  <2>2. CASE x # b
    BY <2>2, <1>5, <1>6, ListTypes
  <2> QED BY <2>1, <2>2
<1>9. h \in Graph(Block, Flag)
  <2>1. h.in \in [Block -> Seq(HalfEdge(Block, Flag))] /\ h.out \in [Block -> Seq(HalfEdge(Block, Flag))]
    BY <1>5, <1>6, <1>7, <1>8
  <2> QED BY <2>1, <1>5 DEF Graph
<1>10. Partner(Block, h, "out", "in")
  <2> SUFFICES ASSUME NEW x \in Block, NEW k \in DOMAIN h.out[x]
               PROVE  /\ h.out[x][k].rev \in DOMAIN h.in[h.out[x][k].point]
                      /\ h.in[h.out[x][k].point][h.out[x][k].rev] =
                           blockedge(x, h.out[x][k].label, k)
    BY DEF Partner
  <2>1. CASE x = b /\ k = i
    <3>1. h.out[x][k] = hout /\ h.in[c][j] = hin /\ j \in DOMAIN h.in[c]
      BY <2>1, <1>2, <1>7, <1>8
    <3> QED BY <2>1, <3>1, <1>3, <1>4
  <2>2. CASE ~(x = b /\ k = i)
    <3> DEFINE e == g.out[x][k]
    <3>1. k \in DOMAIN g.out[x] /\ h.out[x][k] = e
      BY <2>2, <1>8
    <3>2. /\ e.rev \in DOMAIN g.in[e.point]
          /\ g.in[e.point][e.rev] = blockedge(x, e.label, k)
          /\ e.point \in Block
      BY <3>1, ListTypes, HalfTypes DEF Coupled, Partner
    <3> HIDE DEF e
    <3>3. ~(e.point = c /\ e.rev = j)
      <4>1. g.in[e.point][e.rev].point = x /\ g.in[e.point][e.rev].rev = k
        BY <3>2, HalfFields
      <4>2. g.in[c][j].point = b /\ g.in[c][j].rev = i
        BY <1>2, HalfFields
      <4> QED BY <4>1, <4>2, <2>2
    <3>4. /\ h.in[e.point][e.rev] = g.in[e.point][e.rev]
          /\ e.rev \in DOMAIN h.in[e.point]
      BY <3>2, <3>3, <1>7
    <3> QED BY <3>1, <3>2, <3>4
  <2> QED BY <2>1, <2>2
<1>11. Partner(Block, h, "in", "out")
  <2> SUFFICES ASSUME NEW x \in Block, NEW k \in DOMAIN h.in[x]
               PROVE  /\ h.in[x][k].rev \in DOMAIN h.out[h.in[x][k].point]
                      /\ h.out[h.in[x][k].point][h.in[x][k].rev] =
                           blockedge(x, h.in[x][k].label, k)
    BY DEF Partner
  <2>1. CASE x = c /\ k = j
    <3>1. h.in[x][k] = hin /\ h.out[b][i] = hout /\ i \in DOMAIN h.out[b]
      BY <2>1, <1>2, <1>7, <1>8
    <3> QED BY <2>1, <3>1, <1>3, <1>4
  <2>2. CASE ~(x = c /\ k = j)
    <3> DEFINE e == g.in[x][k]
    <3>1. k \in DOMAIN g.in[x] /\ h.in[x][k] = e
      BY <2>2, <1>7
    <3>2. /\ e.rev \in DOMAIN g.out[e.point]
          /\ g.out[e.point][e.rev] = blockedge(x, e.label, k)
          /\ e.point \in Block
      BY <3>1, ListTypes, HalfTypes DEF Coupled, Partner
    <3> HIDE DEF e
    <3>3. ~(e.point = b /\ e.rev = i)
      <4>1. g.out[e.point][e.rev].point = x /\ g.out[e.point][e.rev].rev = k
        BY <3>2, HalfFields
      <4>2. g.out[b][i].point = c /\ g.out[b][i].rev = j
        BY <1>1, HalfFields
      <4> QED BY <4>1, <4>2, <2>2
    <3>4. /\ h.out[e.point][e.rev] = g.out[e.point][e.rev]
          /\ e.rev \in DOMAIN h.out[e.point]
      BY <3>2, <3>3, <1>8
    <3> QED BY <3>1, <3>2, <3>4
  <2> QED BY <2>1, <2>2
<1> QED BY <1>9, <1>10, <1>11 DEF Coupled

LEMMA OutEdgeFlags ==
  ASSUME NEW Block, NEW Flag, NEW g \in Graph(Block, Flag), Coupled(Block, g),
         NEW b \in Block, NEW i \in DOMAIN g.out[b], NEW flags \in SUBSET Flag
  PROVE  /\ set_out_edge_flag(g, b, i, flags) \in Graph(Block, Flag)
         /\ Coupled(Block, set_out_edge_flag(g, b, i, flags))
         /\ clear_out_edge_flag(g, b, i, flags) \in Graph(Block, Flag)
         /\ Coupled(Block, clear_out_edge_flag(g, b, i, flags))
<1> DEFINE c == g.out[b][i].point
           j == g.out[b][i].rev
           old == g.out[b][i].label
           write(lab) == [ in  |-> [g.in  EXCEPT ![c][j].label = lab],
                           out |-> [g.out EXCEPT ![b][i].label = lab] ]
<1>1. c \in Block /\ j \in Nat /\ old \in SUBSET Flag
  BY ListTypes, HalfTypes
<1>2. g.in[c][j].label = old
  <2>1. g.in[c][j] = blockedge(b, old, i)
    BY DEF Coupled, Partner
  <2> QED BY <2>1 DEF blockedge
<1>3. /\ set_out_edge_flag(g, b, i, flags) = write(old \union flags)
      /\ clear_out_edge_flag(g, b, i, flags) = write(old \ flags)
  BY <1>2 DEF set_out_edge_flag, clear_out_edge_flag, Relabelled
<1>4. old \union flags \in SUBSET Flag /\ old \ flags \in SUBSET Flag
  BY <1>1
<1>5. ASSUME NEW lab \in SUBSET Flag
      PROVE  write(lab) \in Graph(Block, Flag) /\ Coupled(Block, write(lab))
  <2> HIDE DEF c, j
  <2>1. c = g.out[b][i].point /\ j = g.out[b][i].rev
    BY DEF c, j
  <2> QED BY <1>1, <2>1, Relabel
<1> HIDE DEF write, old
<1> QED BY <1>3, <1>4, <1>5

\* How long the in lists are after a removal and after a move.
LEMMA InListLengths ==
  ASSUME NEW Block, NEW Flag, NEW g \in Graph(Block, Flag), Coupled(Block, g), NEW b \in Block, NEW i \in DOMAIN g.out[b]
  PROVE  /\ Len(g.in[g.out[b][i].point]) = 1 => remove_out_edge(g, b, i).in[g.out[b][i].point] = << >>
         /\ \A new, x \in Block :
              g.in[x] = << >> => move_out_edge(g, b, i, new).in[x] = << >>
<1> DEFINE c == g.out[b][i].point
           j == g.out[b][i].rev
           h == half_delete_out_edge(g, b, i)
<1>1. /\ c \in Block /\ j \in DOMAIN g.in[c] /\ j \in 1 .. Len(g.in[c])
      /\ g.in[c][j] = blockedge(b, g.out[b][i].label, i)
  <2>1. g.out[b][i] \in HalfEdge(Block, Flag)
    BY DEF Graph
  <2>2. c \in Block
    BY <2>1 DEF HalfEdge
  <2>3. j \in DOMAIN g.in[c] /\ g.in[c][j] = blockedge(b, g.out[b][i].label, i)
    BY DEF Coupled, Partner
  <2>4. DOMAIN g.in[c] = 1 .. Len(g.in[c])
    BY <2>2 DEF Graph
  <2> QED BY <2>2, <2>3, <2>4
<1>2. \A x \in Block : DOMAIN h.in[x] = DOMAIN g.in[x]
  BY DEF half_delete_out_edge, Renumbered, Graph
<1>3. h \in Graph(Block, Flag)
  <2>1. c = g.out[b][i].point /\ j = g.out[b][i].rev /\ j \in Nat
    BY <1>1 DEF Graph, HalfEdge
  <2> HIDE DEF c, j
  <2> QED BY <1>1, <2>1, LoseOut
<1>4. ASSUME Len(g.in[c]) = 1
      PROVE  remove_out_edge(g, b, i).in[c] = << >>
  <2>1. remove_out_edge(g, b, i).in[c] = RemoveAt(h.in[c], j)
    BY <1>1, <1>3 DEF remove_out_edge, half_delete_in_edge, Graph
  <2>2. h.in[c] \in Seq(HalfEdge(Block, Flag)) /\ Len(h.in[c]) = 1 /\ j \in 1 .. Len(h.in[c])
    <3> HIDE DEF h, c, j
    <3>1. /\ h.in[c] \in Seq(HalfEdge(Block, Flag)) /\ DOMAIN h.in[c] = 1 .. Len(h.in[c])
          /\ Len(h.in[c]) \in Nat
      BY <1>1, <1>3, ListTypes
    <3>2. DOMAIN h.in[c] = 1 .. Len(g.in[c])
      BY <1>1, <1>2, ListTypes
    <3>3. 1 .. Len(h.in[c]) = 1 .. 1
      BY <3>1, <3>2, <1>4
    <3>4. Len(h.in[c]) = 1
      <4>1. \A n \in Nat : 1 .. n = 1 .. 1 => n = 1
        OBVIOUS
      <4> QED BY <4>1, <3>1, <3>3
    <3> QED BY <3>1, <3>3, <3>4, <1>1, <1>4
  <2> HIDE DEF h, c, j
  <2>3. RemoveAt(h.in[c], j) \in Seq(HalfEdge(Block, Flag)) /\ Len(RemoveAt(h.in[c], j)) = 0
    <3> DEFINE s == h.in[c]
    <3>1. s \in Seq(HalfEdge(Block, Flag)) /\ j \in 1 .. Len(s) /\ Len(s) - 1 = 0
      BY <2>2
    <3> HIDE DEF s
    <3>2. RemoveAt(s, j) \in Seq(HalfEdge(Block, Flag)) /\ Len(RemoveAt(s, j)) = 0
      BY <3>1, RemoveAtFacts
    <3> QED BY <3>2 DEF s
  <2>4. RemoveAt(h.in[c], j) = << >>
    BY <2>3, EmptySeq
  <2> QED BY <2>1, <2>4
<1>5. ASSUME NEW new \in Block, NEW x \in Block, g.in[x] = << >>
      PROVE  move_out_edge(g, b, i, new).in[x] = << >>
  <2>1. x # c
    BY <1>1, <1>5
  <2>2. move_out_edge(g, b, i, new).in[x] = h.in[x]
    <3>1. g.in[c][j].point = b /\ g.in[c][j].rev = i
      BY <1>1, HalfFields
    <3>2. x \in DOMAIN h.in
      BY <1>3 DEF Graph
    <3> QED BY <3>1, <3>2, <2>1 DEF move_out_edge, replace_in_edge
  <2>3. h.in[x] \in Seq(HalfEdge(Block, Flag)) /\ DOMAIN h.in[x] = {}
    BY <1>2, <1>3, <1>5, ListTypes
  <2>4. h.in[x] = << >>
    <3>1. Len(h.in[x]) = 0
      <4>1. DOMAIN h.in[x] = 1 .. Len(h.in[x]) /\ Len(h.in[x]) \in Nat
        BY <1>3, ListTypes
      <4>2. 1 \notin 1 .. Len(h.in[x])
        BY <4>1, <2>3
      <4> QED BY <4>1, <4>2
    <3> QED BY <3>1, <2>3, EmptySeq
  <2> QED BY <2>2, <2>4
<1> QED BY <1>4, <1>5

\* get_in_index answers with the place of an edge whenever there is one.
LEMMA EdgeFound ==
  ASSUME NEW Block, NEW Flag, NEW g \in Graph(Block, Flag), NEW begin \in Block, NEW end \in Block,
         get_in_index(g, end, begin) # 0
  PROVE  get_in_index(g, end, begin) \in DOMAIN g.in[end]
<1> DEFINE I == {i \in 1 .. Len(g.in[end]) : g.in[end][i].point = begin}
           slot == get_in_index(g, end, begin)
<1>1. slot = IF I # {} THEN Min(I) ELSE 0
  BY DEF get_in_index, SelectInSeq
<1>2. I # {}
  BY <1>1
<1>3. I \in SUBSET Nat /\ I \subseteq DOMAIN g.in[end]
  BY ListTypes
<1> HIDE DEF I, slot
<1>4. Min(I) \in I
  BY <1>2, <1>3, Smallest DEF Min
<1> QED BY <1>1, <1>2, <1>3, <1>4 DEF slot

LEMMA EdgeSeen ==
  ASSUME NEW Block, NEW Flag, NEW g \in Graph(Block, Flag), NEW begin \in Block, NEW end \in Block,
         NEW i \in DOMAIN g.in[end], g.in[end][i].point = begin
  PROVE  get_in_index(g, end, begin) \in DOMAIN g.in[end]
<1> DEFINE I == {k \in 1 .. Len(g.in[end]) : g.in[end][k].point = begin}
<1>1. get_in_index(g, end, begin) = IF I # {} THEN Min(I) ELSE 0
  BY DEF get_in_index, SelectInSeq
<1>2. I \in SUBSET Nat /\ I \subseteq DOMAIN g.in[end] /\ i \in I
  BY ListTypes
<1> HIDE DEF I
<1>3. Min(I) \in I
  BY <1>2, Smallest DEF Min
<1> QED BY <1>1, <1>2, <1>3

\* Nothing but the empty set is closed under predecessors without the root, when the root
\* reaches every block.
LEMMA NothingUnreached ==
  ASSUME NEW D, IsFiniteSet(D), NEW succ \in [D -> SUBSET D], NEW root \in D,
         ReachableFrom(succ, {root}) = D,
         NEW M \in SUBSET D, root \notin M, \A p \in D : \A b \in M : b \in succ[p] => p \in M
  PROVE  M = {}
<1> DEFINE X == D \ M
<1>1. {root} \subseteq X /\ {root} \in SUBSET D /\ \A p \in X : succ[p] \subseteq X
  OBVIOUS
<1> HIDE DEF X
<1>2. D \subseteq X
  BY <1>1, ReachableIsLeast
<1> QED BY <1>2 DEF X

\* Dominance is transitive.
LEMMA DominatorChain ==
  ASSUME NEW D, IsFiniteSet(D), NEW succ \in [D -> SUBSET D], NEW root \in D,
         NEW c \in D, NEW b \in Dominators(succ, root, c), NEW a \in Dominators(succ, root, b)
  PROVE  a \in Dominators(succ, root, c)
<1> DEFINE R(d) == ReachableAvoiding(succ, root, d)
<1>1. \A d : Dominators(succ, root, d) = {e \in D : d \notin R(e)}
  BY DEF Dominators
<1>2. R(root) = {}
  BY DEF ReachableAvoiding
<1>3. \A d \in D : d # root =>
        /\ root \in R(d) /\ R(d) \subseteq D
        /\ \A e \in R(d) : succ[e] \ {d} \subseteq R(d)
        /\ \A X : root \in X /\ (\A e \in X : succ[e] \ {d} \subseteq X) => R(d) \subseteq X
  BY AvoidingIsLeast
<1> HIDE DEF R
<1>4. a \in D /\ b \in D /\ b \notin R(a) /\ c \notin R(b)
  BY <1>1
<1>5. CASE a = root
  BY <1>1, <1>2, <1>5
<1>6. CASE a # root
  <2>1. b # root
    BY <1>3, <1>4, <1>6
  <2> DEFINE X == R(a) \intersect R(b)
  <2>2. root \in X
    BY <2>1, <1>3, <1>4, <1>6
  <2>3. ASSUME NEW e \in X PROVE succ[e] \ {a} \subseteq X
    <3>1. succ[e] \ {a} \subseteq R(a) /\ succ[e] \ {b} \subseteq R(b)
      BY <2>1, <1>3, <1>4, <1>6
    <3> QED BY <3>1, <1>4
  <2> HIDE DEF X
  <2>4. R(a) \subseteq X
    BY <2>2, <2>3, <1>3, <1>4, <1>6
  <2> QED BY <2>4, <1>1, <1>4 DEF X
<1> QED BY <1>5, <1>6

\* What is left for a root outside T and x, when every edge into T comes from a block that
\* something of T, or x, dominates: x dominates T.
LEMMA HeaderDominates ==
  ASSUME NEW D, IsFiniteSet(D), NEW succ \in [D -> SUBSET D], NEW root \in D,
         NEW x \in D, x # root, NEW T \in SUBSET D, root \notin T,
         \A z \in D : \A t \in T : t \in succ[z] => \E a \in T \union {x} : a \in Dominators(succ, root, z)
  PROVE  \A t \in T : x \in Dominators(succ, root, t)
<1> DEFINE Z == {b \in D : \A a \in T \union {x} : a \notin Dominators(succ, root, b)}
<1>1. /\ \A b \in D : b \in Dominators(succ, root, b)
      /\ Dominators(succ, root, root) = {root}
      /\ \A p \in D : \A b \in succ[p] : \A a \in Dominators(succ, root, b) :
           a # b => a \in Dominators(succ, root, p)
  BY DominatorRules
<1>2. root \in Z
  BY <1>1
<1>3. ASSUME NEW z \in Z, NEW v \in succ[z] \ {x} PROVE v \in Z
  <2>1. v \in D /\ z \in D /\ v \notin T
    OBVIOUS
  <2> QED BY <2>1, <1>1
<1> HIDE DEF Z
<1>4. ReachableAvoiding(succ, root, x) \subseteq Z
  BY <1>2, <1>3, AvoidingIsLeast
<1>5. ASSUME NEW t \in T PROVE t \notin Z
  BY <1>1 DEF Z
<1> QED BY <1>4, <1>5 DEF Dominators

\* The natural loop of h holds h and the sources of its back edges, with a block other than h
\* all it is entered from, and nothing that is not there for that reason; h dominates it.
LEMMA LoopFacts ==
  ASSUME NEW D, IsFiniteSet(D), NEW succ \in [D -> SUBSET D], NEW root \in D, NEW h \in D
  PROVE  /\ h \in NaturalLoop(succ, root, h) /\ NaturalLoop(succ, root, h) \subseteq D
         /\ \A u \in D : IsBackEdge(succ, root, u, h) => u \in NaturalLoop(succ, root, h)
         /\ \A b \in NaturalLoop(succ, root, h) : \A p \in D :
              b # h /\ b \in succ[p] => p \in NaturalLoop(succ, root, h)
         /\ \A X : /\ \A u \in D : IsBackEdge(succ, root, u, h) => u = h \/ u \in X
                   /\ \A b \in X : \A p \in D : b # h /\ b \in succ[p] => p = h \/ p \in X
                   => NaturalLoop(succ, root, h) \subseteq X \union {h}
         /\ \A b \in NaturalLoop(succ, root, h) : h \in Dominators(succ, root, b)
<1> DEFINE all == [b \in DOMAIN succ |-> {p \in DOMAIN succ \ {h} : b \in succ[p]}]
           pred == [all EXCEPT ![h] = {}]
           sources == {u \in DOMAIN succ : IsBackEdge(succ, root, u, h)}
           R == ReachableFrom(pred, sources)
           N == NaturalLoop(succ, root, h)
<1>1. N = {h} \union R
  BY DEF NaturalLoop
<1>2. /\ pred \in [D -> SUBSET D] /\ sources \in SUBSET D
      /\ pred[h] = {}
      /\ \A b \in D : b # h => pred[b] = {p \in D \ {h} : b \in succ[p]}
      /\ \A u : u \in sources <=> u \in D /\ IsBackEdge(succ, root, u, h)
  OBVIOUS
<1> HIDE DEF all, pred, sources
<1>3. /\ sources \subseteq R /\ R \subseteq D
      /\ \A b \in R : pred[b] \subseteq R
      /\ \A X : sources \subseteq X /\ (\A b \in X : pred[b] \subseteq X) => R \subseteq X
  BY <1>2, ReachableIsLeast
<1> HIDE DEF R, N
<1>4. \A u \in D : IsBackEdge(succ, root, u, h) => u \in N
  BY <1>1, <1>2, <1>3
<1>5. ASSUME NEW b \in N, NEW p \in D, b # h, b \in succ[p] PROVE p \in N
  <2>1. b \in R /\ b \in D
    BY <1>1, <1>3, <1>5
  <2>2. p = h \/ p \in pred[b]
    BY <2>1, <1>2, <1>5
  <2> QED BY <2>1, <2>2, <1>1, <1>3
<1>6. ASSUME NEW X,
             \A u \in D : IsBackEdge(succ, root, u, h) => u = h \/ u \in X,
             \A b \in X : \A p \in D : b # h /\ b \in succ[p] => p = h \/ p \in X
      PROVE  N \subseteq X \union {h}
  <2> DEFINE Y == (X \union {h}) \intersect D
  <2>1. sources \subseteq Y
    BY <1>2, <1>6
  <2>2. ASSUME NEW b \in Y PROVE pred[b] \subseteq Y
    <3>1. CASE b = h
      BY <3>1, <1>2
    <3>2. CASE b # h
      BY <3>2, <1>2, <1>6
    <3> QED BY <3>1, <3>2
  <2> HIDE DEF Y
  <2>3. R \subseteq Y
    BY <2>1, <2>2, <1>3
  <2> QED BY <2>3, <1>1 DEF Y
<1>7. N \subseteq {b \in D : h \in Dominators(succ, root, b)}
  <2> DEFINE X == {b \in D : h \in Dominators(succ, root, b)}
  <2>1. /\ \A b \in D : b \in Dominators(succ, root, b)
        /\ \A p \in D : \A b \in succ[p] : \A a \in Dominators(succ, root, b) :
             a # b => a \in Dominators(succ, root, p)
    BY DominatorRules
  <2>2. \A u \in D : IsBackEdge(succ, root, u, h) => u \in X
    BY DEF IsBackEdge
  <2>3. \A b \in X : \A p \in D : b # h /\ b \in succ[p] => p \in X
    BY <2>1
  <2>4. h \in X
    BY <2>1
  <2> HIDE DEF X
  <2>5. N \subseteq X \union {h}
    BY <2>2, <2>3, <1>6
  <2> QED BY <2>4, <2>5 DEF X
<1>8. h \in N /\ N \subseteq D
  BY <1>1, <1>3
<1> QED BY <1>4, <1>5, <1>6, <1>7, <1>8 DEF N

\* X holds the sources of the back edges into h and, with a block other than h, all it is
\* entered from.
Encloses(D, succ, root, h, X) ==
  /\ \A u \in D : IsBackEdge(succ, root, u, h) => u = h \/ u \in X
  /\ \A b \in X : \A p \in D : b # h /\ b \in succ[p] => p = h \/ p \in X

\* Such a set holds the natural loop of h.
LEMMA LoopWithin ==
  ASSUME NEW D, IsFiniteSet(D), NEW succ \in [D -> SUBSET D], NEW root \in D, NEW h \in D,
         NEW X, Encloses(D, succ, root, h, X)
  PROVE  NaturalLoop(succ, root, h) \subseteq X \union {h}
  BY LoopFacts DEF Encloses

\* A block that dominates a block of a natural loop but not its header lies in the loop.
LEMMA DominatorInLoop ==
  ASSUME NEW D, IsFiniteSet(D), NEW succ \in [D -> SUBSET D], NEW root \in D,
         ReachableFrom(succ, {root}) = D,
         NEW h \in D, NEW z \in NaturalLoop(succ, root, h),
         NEW c \in Dominators(succ, root, z), c \notin Dominators(succ, root, h)
  PROVE  c \in NaturalLoop(succ, root, h)
<1> DEFINE N == NaturalLoop(succ, root, h)
           M == {b \in N : c \in Dominators(succ, root, b)}
<1> SUFFICES ASSUME c \notin N PROVE FALSE
  OBVIOUS
<1>1. /\ N \subseteq D
      /\ \A b \in N : \A p \in D : b # h /\ b \in succ[p] => p \in N
  BY LoopFacts
<1>2. /\ Dominators(succ, root, root) = {root} /\ \A b \in D : root \in Dominators(succ, root, b)
      /\ \A p \in D : \A b \in succ[p] : \A a \in Dominators(succ, root, b) :
           a # b => a \in Dominators(succ, root, p)
  BY DominatorRules
<1> HIDE DEF N
<1>3. c # root /\ root \notin M
  BY <1>2
<1>4. ASSUME NEW p \in D, NEW b \in M, b \in succ[p] PROVE p \in M
  BY <1>1, <1>2, <1>4
<1>5. M \in SUBSET D /\ z \in M
  BY <1>1 DEF N
<1> HIDE DEF M
<1>6. M = {}
  BY <1>3, <1>4, <1>5, NothingUnreached
<1> QED BY <1>5, <1>6

\* A graph whose edges are back edges or lead on in a numbering is reducible.
LEMMA NumberedReducible ==
  ASSUME NEW D, IsFiniteSet(D), NEW succ \in [D -> SUBSET D], NEW root \in D,
         NEW idx, \A b \in D : idx[b] \in Nat,
         \A u \in D : \A v \in succ[u] : IsBackEdge(succ, root, u, v) \/ idx[u] < idx[v]
  PROVE  Reducible(succ, root)
<1> DEFINE onward == [u \in DOMAIN succ |-> {v \in succ[u] : ~IsBackEdge(succ, root, u, v)}]
<1>1. onward \in [D -> SUBSET D] /\ \A u \in D : \A v \in onward[u] : v \in D /\ idx[u] < idx[v]
  OBVIOUS
<1>2. Reducible(succ, root) <=> \A b \in D : b \notin ReachableFrom(onward, onward[b])
  BY DEF Reducible
<1> HIDE DEF onward
<1>3. ASSUME NEW b \in D PROVE b \notin ReachableFrom(onward, onward[b])
  <2> DEFINE X == {v \in D : idx[b] < idx[v]}
  <2>1. onward[b] \subseteq X /\ \A u \in X : onward[u] \subseteq X
    BY <1>1
  <2>2. onward[b] \in SUBSET D /\ b \notin X
    BY <1>1
  <2> HIDE DEF X
  <2>3. ReachableFrom(onward, onward[b]) \subseteq X
    BY <2>1, <2>2, <1>1, ReachableIsLeast
  <2> QED BY <2>2, <2>3
<1> QED BY <1>2, <1>3
================================================================================
