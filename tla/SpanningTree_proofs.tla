------------------------- MODULE SpanningTree_proofs -------------------------
(***************************************************************************)
(* find_spanning_tree, whatever the graph and however often it runs.       *)
(***************************************************************************)
EXTENDS SpanningTree, GraphLemmas

Discovered == {b \in Block : dfnum[b] # -1}
Black == {b \in Block : index[b] # -1}
Gray == Discovered \ Black
Free == Cardinality(Block \ Black)

\* What holds between any two steps.
TreeTypes ==
  /\ TypeOK
  /\ blist \in Seq(Block) /\ blist[1] = 0
  /\ Coupled(Block, graph)
  /\ ReachableFrom(succs, {0}) = Block

\* dfnum is the place in preorder.
PreorderInv ==
  /\ preorder # << >> /\ preorder[1] = 0
  /\ \A k \in DOMAIN preorder : dfnum[preorder[k]] = k - 1
  /\ \A b \in Discovered : dfnum[b] + 1 \in DOMAIN preorder /\ preorder[dfnum[b] + 1] = b

\* The stack is a path from the entry, in the order of discovery, of what is not finished.
StackInv ==
  /\ state # << >> => state[1] = 0
  /\ \A k \in DOMAIN state : state[k] \in Gray
  /\ \A j, k \in DOMAIN state : j < k => dfnum[state[j]] < dfnum[state[k]]
  /\ \A b \in Gray : \E k \in DOMAIN state : state[k] = b
  /\ \A k \in DOMAIN state : k > 1 => state[k] \in succs[state[k - 1]]

\* The finished blocks have the last places of the reverse postorder, one each.
IndexInv ==
  /\ Black \subseteq Discovered
  /\ \A b \in Black : index[b] >= Free
  /\ \A b, c \in Black : index[b] = index[c] => b = c
  /\ \A n \in Block : n >= Free => \E b \in Black : index[b] = n

\* The edges taken lead to blocks that are known, and a finished block has no other.
VisitInv ==
  /\ \A b \in Block : \A i \in DOMAIN graph.out[b] :
       i <= visitcount[b] => graph.out[b][i].point \in Discovered
  /\ \A b \in Black : visitcount[b] >= Len(graph.out[b])

OrderInv ==
  \A u \in Black : \A v \in succs[u] :
    \/ v \in Black /\ (index[u] < index[v] \/ Descends(u, v))
    \/ v \in Gray /\ dfnum[v] <= dfnum[u]

\* What has been discovered since a block of the stack is shared out among the blocks from
\* it to the top.
CountInv ==
  \A k \in DOMAIN state : k > 1 =>
    numdesc[state[k]] =
      (IF k = Len(state) THEN Len(preorder) ELSE dfnum[state[k + 1]]) - dfnum[state[k]]

IntervalInv ==
  \A b \in Black \ {0} :
    /\ dfnum[b] + numdesc[b] <= Len(preorder)
    /\ \A c \in Discovered :
         dfnum[c] \in dfnum[b] .. dfnum[b] + numdesc[b] - 1 <=> c \in Black /\ Descends(c, b)

ParentInv ==
  \A c \in Discovered \ {0} : \E p \in Discovered :
    /\ c \in succs[p] /\ dfnum[p] < dfnum[c]
    /\ p \in Black => c \in Black /\ index[p] < index[c]

WalkInv ==
  /\ PreorderInv /\ StackInv /\ IndexInv /\ VisitInv /\ OrderInv
  /\ CountInv /\ IntervalInv /\ ParentInv

\* What a finished walk leaves.
Numbered ==
  /\ \A b \in Block : index[b] \in Block /\ index[b] + 1 \in DOMAIN blist /\ blist[index[b] + 1] = b
  /\ \A n \in DOMAIN blist : index[blist[n]] = n - 1
  /\ \A u \in Block : \A v \in succs[u] : index[u] < index[v] \/ Descends(u, v)
  /\ \A b \in Block \ {0}, c \in Block :
       Descends(c, b) <=> dfnum[c] \in dfnum[b] .. dfnum[b] + numdesc[b] - 1
  /\ \A c \in Block \ {0} : \E p \in Block : c \in succs[p] /\ index[p] < index[c] /\ dfnum[p] < dfnum[c]

WellLabelled(u, i) ==
  LET e == graph.out[u][i]
  IN  /\ IsBackEdge(succs, 0, u, e.point) => back \in e.label
      /\ Reducible(succs, 0) /\ back \in e.label => IsBackEdge(succs, 0, u, e.point)

LabelInv ==
  edits = 0 =>
    \A u \in Block : \A i \in DOMAIN graph.out[u] :
      /\ phase = "edit" => graph.out[u][i].label = {}
      /\ phase = "tree" => IF i <= visitcount[u] THEN WellLabelled(u, i) ELSE graph.out[u][i].label = {}
      /\ phase \notin {"edit", "tree"} => WellLabelled(u, i)

\* Whatever labels the edge has from earlier walks, this one has seen where it leads.
Onward(u, i) ==
  LET e == graph.out[u][i]
  IN  dfnum[u] < dfnum[e.point] \/ e.label \intersect {back, cross} # {}

OnwardInv ==
  \A u \in Block : \A i \in DOMAIN graph.out[u] :
    /\ phase = "tree" /\ i <= visitcount[u] => u \in Discovered /\ Onward(u, i)
    /\ phase \notin {"edit", "tree"} => Onward(u, i)

\* exitlist names every block without out edges once.
ExitInv ==
  phase # "edit" =>
    /\ exitlist \in Seq(Block) /\ IsInjective(exitlist)
    /\ Range(exitlist) = {b \in Block : graph.out[b] = << >>}

TreeInv ==
  /\ TreeTypes
  /\ phase = "tree" => WalkInv
  /\ phase \notin {"edit", "tree"} => Numbered
  /\ LabelInv /\ OnwardInv /\ ExitInv

(***************************************************************************)
(* Lists and sets                                                          *)
(***************************************************************************)
LEMMA Blocks ==
  /\ IsFiniteSet(Block) /\ 0 \in Block
  /\ Cardinality(Block) \in Nat /\ Cardinality(Block) > 0
  /\ \A b : b \in Block <=> b \in Nat /\ b < Cardinality(Block)
<1>1. Cardinality(Block) \in Nat
  BY BlockAssumption, FS_CardinalityType
<1> QED BY <1>1, BlockAssumption

LEMMA LastOf ==
  ASSUME NEW S, NEW s \in Seq(S), s # << >>
  PROVE  /\ Len(s) \in Nat /\ Len(s) > 0 /\ Last(s) = s[Len(s)] /\ Last(s) \in S
         /\ Front(s) \in Seq(S) /\ Len(Front(s)) = Len(s) - 1
         /\ DOMAIN Front(s) = 1 .. Len(s) - 1
         /\ \A k \in 1 .. Len(s) - 1 : Front(s)[k] = s[k]
<1>1. Len(s) \in Nat /\ Len(s) > 0
  BY EmptySeq
<1>2. Front(s) \in Seq(S) /\ Len(Front(s)) = Len(s) - 1 /\ \A k \in 1 .. Len(s) - 1 : Front(s)[k] = s[k]
  <2>1. 1 \in Int /\ Len(s) - 1 \in Int /\ \A i \in 1 .. Len(s) - 1 : s[i] \in S
    BY <1>1
  <2>2. /\ SubSeq(s, 1, Len(s) - 1) \in Seq(S)
        /\ Len(SubSeq(s, 1, Len(s) - 1)) = IF 1 <= Len(s) - 1 THEN Len(s) - 1 - 1 + 1 ELSE 0
        /\ \A i \in 1 .. Len(s) - 1 - 1 + 1 : SubSeq(s, 1, Len(s) - 1)[i] = s[1 + i - 1]
    BY <2>1, SubSeqProperties
  <2> DEFINE t == SubSeq(s, 1, Len(s) - 1)
  <2>3. Front(s) = t
    BY DEF Front
  <2> HIDE DEF t
  <2>4. t \in Seq(S) /\ \A i \in 1 .. Len(s) - 1 - 1 + 1 : t[i] = s[1 + i - 1]
    BY <2>2 DEF t
  <2>5. Len(t) = Len(s) - 1
    <3> DEFINE m == Len(s)
               n == Len(t)
    <3>1. n = IF 1 <= m - 1 THEN m - 1 - 1 + 1 ELSE 0
      BY <2>2 DEF t
    <3>2. m \in Nat /\ m > 0
      BY <1>1
    <3> HIDE DEF m, n
    <3>3. n = m - 1
      BY <3>1, <3>2
    <3> QED BY <3>3 DEF m, n
  <2>6. ASSUME NEW k \in 1 .. Len(s) - 1 PROVE t[k] = s[k]
    <3>1. k \in 1 .. Len(s) - 1 - 1 + 1 /\ 1 + k - 1 = k
      BY <1>1
    <3> QED BY <3>1, <2>4
  <2> QED BY <2>3, <2>4, <2>5, <2>6
<1> QED BY <1>1, <1>2 DEF Last

(***************************************************************************)
(* connect_basic: the graph of a program                                   *)
(***************************************************************************)
Bare(g) == \A b \in Block : \A i \in DOMAIN g.out[b] : g.out[b][i].label = {}

Built == {g \in Graph(Block, Labels) : Coupled(Block, g) /\ Bare(g)}

\* h has the edges of g and those from begin to the blocks of S.
Extends(h, g, begin, S) ==
  Successors(h) = [b \in Block |-> IF b = begin THEN Successors(g)[b] \union S ELSE Successors(g)[b]]

LEMMA EdgeAdded ==
  ASSUME NEW g \in Built, NEW begin \in Block, NEW end \in Block
  PROVE  /\ add_edge(g, begin, end, {}) \in Built
         /\ Extends(add_edge(g, begin, end, {}), g, begin, {end})
<1> DEFINE h == add_edge(g, begin, end, {})
           half == blockedge(end, {}, Len(g.in[end]) + 1)
<1>1. g \in Graph(Block, Labels) /\ Coupled(Block, g) /\ Bare(g)
  BY DEF Built
<1>2. h \in Graph(Block, Labels) /\ Coupled(Block, h)
  BY <1>1, AddInEdge DEF add_edge
<1>3. /\ h.out = [g.out EXCEPT ![begin] = Append(@, half)]
      /\ half.point = end /\ half.label = {}
  BY DEF add_edge, add_in_edge, blockedge
<1>4. g.out \in [Block -> Seq(HalfEdge(Block, Labels))] /\ half \in HalfEdge(Block, Labels)
  <2>1. Len(g.in[end]) \in Nat
    BY <1>1, ListTypes
  <2> QED BY <1>1, <2>1, BlockedgeType DEF Graph
<1> HIDE DEF h, half
<1>5. \A b \in Block : b # begin => h.out[b] = g.out[b]
  BY <1>3, <1>4
<1>6. h.out[begin] = Append(g.out[begin], half)
  BY <1>3, <1>4
<1>7. /\ DOMAIN h.out[begin] = 1 .. Len(g.out[begin]) + 1
      /\ DOMAIN g.out[begin] = 1 .. Len(g.out[begin]) /\ Len(g.out[begin]) \in Nat
      /\ h.out[begin][Len(g.out[begin]) + 1] = half
      /\ \A k \in 1 .. Len(g.out[begin]) : h.out[begin][k] = g.out[begin][k]
  BY <1>4, <1>6, AppendFacts
<1>8. Bare(h)
  BY <1>1, <1>3, <1>5, <1>7 DEF Bare
<1>9. Successors(h)[begin] = Successors(g)[begin] \union {end}
  <2>1. ASSUME NEW x \in Successors(h)[begin] PROVE x \in Successors(g)[begin] \union {end}
    BY <1>3, <1>7 DEF Successors
  <2>2. ASSUME NEW x \in Successors(g)[begin] PROVE x \in Successors(h)[begin]
    <3>1. PICK i \in DOMAIN g.out[begin] : x = g.out[begin][i].point
      BY DEF Successors
    <3>2. i \in DOMAIN h.out[begin] /\ h.out[begin][i].point = x
      BY <3>1, <1>7
    <3> QED BY <3>2 DEF Successors
  <2>3. end \in Successors(h)[begin]
    <3>1. Len(g.out[begin]) + 1 \in DOMAIN h.out[begin]
      BY <1>7
    <3> QED BY <3>1, <1>3, <1>7 DEF Successors
  <2> QED BY <2>1, <2>2, <2>3
<1>10. \A b \in Block : b # begin => Successors(h)[b] = Successors(g)[b]
  BY <1>5 DEF Successors
<1>11. Successors(h) = [b \in Block |-> Successors(h)[b]]
  BY DEF Successors
<1>12. Extends(h, g, begin, {end})
  BY <1>9, <1>10, <1>11 DEF Extends
<1> QED BY <1>1, <1>2, <1>8, <1>12 DEF Built, h

LEMMA BlockConnected ==
  ASSUME NEW g \in Built, NEW begin \in Block, NEW ends \in Seq(Block)
  PROVE  /\ connect_block(g, begin, ends) \in Built
         /\ Extends(connect_block(g, begin, ends), g, begin, Range(ends))
<1> DEFINE N == Len(ends)
           F == [n \in 1 .. N |-> [h \in Built |-> add_edge(h, begin, ends[n], {})]]
<1>1. N \in Nat /\ DOMAIN ends = 1 .. N /\ \A n \in 1 .. N : ends[n] \in Block
  OBVIOUS
<1> HIDE DEF N
<1>2. F \in [1 .. N -> [Built -> Built]]
  BY <1>1, EdgeAdded
<1>3. PICK u : Solves(u, Built, g, N, F)
  <2> HIDE DEF F
  <2>1. N \in Nat /\ g \in Built
    BY <1>1
  <2> QED BY <2>1, <1>2, RecursionExists
<1>4. u = [n \in 0 .. N |-> IF n = 0 THEN g ELSE add_edge(u[n - 1], begin, ends[n], {})]
  <2>1. \A n \in 0 .. N : u[n] = IF n = 0 THEN g ELSE add_edge(u[n - 1], begin, ends[n], {})
    BY <1>1, <1>3 DEF Solves
  <2> HIDE DEF F
  <2>2. u = [n \in 0 .. N |-> u[n]]
    BY <1>3 DEF Solves
  <2> QED BY <2>1, <2>2
<1> HIDE DEF F
<1> DEFINE f == CHOOSE w : w = [n \in 0 .. N |-> IF n = 0 THEN g ELSE add_edge(w[n - 1], begin, ends[n], {})]
<1>5. f = [n \in 0 .. N |-> IF n = 0 THEN g ELSE add_edge(f[n - 1], begin, ends[n], {})]
  BY <1>4
<1>6. connect_block(g, begin, ends) = f[N]
  BY DEF connect_block, N
<1> HIDE DEF f
<1> DEFINE First(n) == {ends[k] : k \in 1 .. n}
           Points(n) == [b \in Block |-> IF b = begin THEN Successors(g)[b] \union First(n)
                                         ELSE Successors(g)[b]]
           G == {n \in 0 .. N : f[n] \in Built /\ Successors(f[n]) = Points(n)}
<1>7. 0 \in G
  <2>1. f[0] = g /\ First(0) = {} /\ 0 \in 0 .. N
    BY <1>1, <1>5
  <2>2. Successors(g) = [b \in Block |-> Successors(g)[b]]
    BY DEF Successors
  <2>3. Points(0) = Successors(g)
    BY <2>1, <2>2
  <2> QED BY <2>1, <2>3
<1>8. ASSUME NEW n \in 1 .. N, n - 1 \in G PROVE n \in G
  <2>1. /\ n - 1 \in 0 .. N /\ n \in 0 .. N /\ n # 0 /\ ends[n] \in Block
        /\ f[n] = add_edge(f[n - 1], begin, ends[n], {})
    BY <1>1, <1>5
  <2>2. f[n - 1] \in Built /\ Successors(f[n - 1]) = Points(n - 1)
    BY <1>8
  <2>3. First(n) = First(n - 1) \union {ends[n]}
    BY <2>1
  <2> HIDE DEF First, Points
  <2>4. /\ f[n] \in Built
        /\ Successors(f[n]) = [b \in Block |-> IF b = begin THEN Points(n - 1)[b] \union {ends[n]}
                                               ELSE Points(n - 1)[b]]
    <3> DEFINE h == f[n - 1]
               e == ends[n]
    <3>1. h \in Built /\ e \in Block /\ f[n] = add_edge(h, begin, e, {}) /\ Successors(h) = Points(n - 1)
      BY <2>1, <2>2
    <3> HIDE DEF h, e, G
    <3>2. f[n] \in Built /\ Extends(f[n], h, begin, {e})
      BY <3>1, EdgeAdded
    <3> QED BY <3>1, <3>2 DEF Extends, e
  <2>5. Successors(f[n]) = Points(n)
    BY <2>3, <2>4 DEF Points
  <2> QED BY <2>1, <2>4, <2>5
<1>9. N \in G
  <2> HIDE DEF G
  <2> QED BY <1>1, <1>7, <1>8, UpTo
<1>10. First(N) = Range(ends)
  BY <1>1 DEF Range
<1> QED BY <1>6, <1>9, <1>10 DEF Extends

LEMMA GraphBuilt ==
  ASSUME NEW succ, FlowGraph(succ)
  PROVE  /\ connect_basic(succ) \in Built
         /\ Successors(connect_basic(succ)) = [b \in Block |-> Range(succ[b])]
<1> DEFINE N == Cardinality(Block)
           F == [n \in 1 .. N |-> [h \in Built |-> connect_block(h, n - 1, succ[n - 1])]]
           g == Edgeless(Block)
<1>0. N \in Nat /\ Block = 0 .. N - 1 /\ succ \in [Block -> Seq(Block)]
  BY Blocks, BlockAssumption DEF FlowGraph
<1> HIDE DEF N
<1>1. \A n \in 1 .. N : n - 1 \in Block /\ succ[n - 1] \in Seq(Block)
  BY <1>0
<1>2. F \in [1 .. N -> [Built -> Built]]
  <2>1. ASSUME NEW n \in 1 .. N, NEW h \in Built PROVE connect_block(h, n - 1, succ[n - 1]) \in Built
    BY <1>1, <2>1, BlockConnected
  <2> QED BY <2>1
<1>3. g \in Built /\ Successors(g) = [b \in Block |-> {}]
  <2>1. g \in Graph(Block, Labels)
    BY DEF Edgeless, Graph
  <2>2. Coupled(Block, g) /\ Bare(g)
    BY DEF Edgeless, Coupled, Partner, Bare
  <2>3. \A b \in Block : Successors(g)[b] = {}
    BY DEF Edgeless, Successors
  <2>4. Successors(g) = [b \in Block |-> Successors(g)[b]]
    BY DEF Successors
  <2> HIDE DEF g
  <2> QED BY <2>1, <2>2, <2>3, <2>4 DEF Built
<1> HIDE DEF g
<1>4. PICK u : Solves(u, Built, g, N, F)
  <2> HIDE DEF F
  <2>1. N \in Nat /\ g \in Built
    BY <1>0, <1>3
  <2> QED BY <2>1, <1>2, RecursionExists
<1>5. u = [n \in 0 .. N |-> IF n = 0 THEN g ELSE connect_block(u[n - 1], n - 1, succ[n - 1])]
  <2>1. ASSUME NEW n \in 0 .. N
        PROVE  u[n] = IF n = 0 THEN g ELSE connect_block(u[n - 1], n - 1, succ[n - 1])
    <3>1. CASE n # 0
      <4>1. n - 1 \in 0 .. N /\ n \in 1 .. N
        BY <3>1, <1>0
      <4>2. u[n - 1] \in Built /\ u[n] = F[n][u[n - 1]]
        BY <4>1, <3>1, <1>4 DEF Solves
      <4> QED BY <4>1, <4>2, <3>1
    <3>2. CASE n = 0
      BY <3>2, <1>4 DEF Solves
    <3> QED BY <3>1, <3>2
  <2> HIDE DEF F
  <2>2. u = [n \in 0 .. N |-> u[n]]
    BY <1>4 DEF Solves
  <2> QED BY <2>1, <2>2
<1> HIDE DEF F
<1> DEFINE f == CHOOSE w : w = [n \in 0 .. N |-> IF n = 0 THEN g ELSE connect_block(w[n - 1], n - 1, succ[n - 1])]
<1>6. f = [n \in 0 .. N |-> IF n = 0 THEN g ELSE connect_block(f[n - 1], n - 1, succ[n - 1])]
  BY <1>5
<1>7. connect_basic(succ) = f[N]
  BY DEF connect_basic, N, g
<1> HIDE DEF f
<1> DEFINE Points(n) == [b \in Block |-> IF b < n THEN Range(succ[b]) ELSE {}]
           G == {n \in 0 .. N : f[n] \in Built /\ Successors(f[n]) = Points(n)}
<1>8. 0 \in G
  <2>1. f[0] = g /\ 0 \in 0 .. N
    BY <1>0, <1>6
  <2>2. Points(0) = [b \in Block |-> {}]
    BY <1>0
  <2> QED BY <2>1, <2>2, <1>3
<1>9. ASSUME NEW n \in 1 .. N, n - 1 \in G PROVE n \in G
  <2>1. /\ n - 1 \in 0 .. N /\ n \in 0 .. N /\ n # 0 /\ n - 1 \in Block /\ succ[n - 1] \in Seq(Block)
        /\ f[n] = connect_block(f[n - 1], n - 1, succ[n - 1])
    BY <1>0, <1>1, <1>6
  <2>2. f[n - 1] \in Built /\ Successors(f[n - 1]) = Points(n - 1)
    BY <1>9
  <2>3. \A b \in Block : (IF b = n - 1 THEN Points(n - 1)[b] \union Range(succ[n - 1])
                          ELSE Points(n - 1)[b]) = Points(n)[b]
    <3> TAKE b \in Block
    <3>1. b \in Nat /\ n \in Nat
      BY <1>0
    <3>2. CASE b = n - 1
      <4>1. Points(n - 1)[b] = {} /\ Points(n)[b] = Range(succ[b])
        BY <3>1, <3>2
      <4> QED BY <4>1, <3>2
    <3>3. CASE b # n - 1
      <4>1. b < n - 1 <=> b < n
        BY <3>1, <3>3
      <4> QED BY <4>1, <3>3
    <3> QED BY <3>2, <3>3
  <2> HIDE DEF Points
  <2>4. /\ f[n] \in Built
        /\ Successors(f[n]) = [b \in Block |-> IF b = n - 1 THEN Points(n - 1)[b] \union Range(succ[n - 1])
                                               ELSE Points(n - 1)[b]]
    <3> DEFINE h == f[n - 1]
               c == n - 1
               S == succ[c]
    <3>1. h \in Built /\ c \in Block /\ S \in Seq(Block) /\ f[n] = connect_block(h, c, S)
          /\ Successors(h) = Points(c)
      BY <2>1, <2>2
    <3> HIDE DEF h, c, S, G
    <3>2. f[n] \in Built /\ Extends(f[n], h, c, Range(S))
      BY <3>1, BlockConnected
    <3> QED BY <3>1, <3>2 DEF Extends, c, S
  <2>5. Points(n) = [b \in Block |-> Points(n)[b]]
    BY DEF Points
  <2> QED BY <2>1, <2>3, <2>4, <2>5
<1>10. N \in G
  <2>1. N \in Nat /\ N \in 0 .. N
    BY <1>0
  <2> HIDE DEF G
  <2> QED BY <2>1, <1>8, <1>9, UpTo, Zenon
<1>11. Points(N) = [b \in Block |-> Range(succ[b])]
  BY <1>0
<1> QED BY <1>7, <1>10, <1>11

(***************************************************************************)
(* What every step may use                                                 *)
(***************************************************************************)
LEMMA GraphOf ==
  ASSUME NEW g \in Graph(Block, Labels)
  PROVE  \A b \in Block :
           /\ DOMAIN g.out[b] = 1 .. Len(g.out[b]) /\ Len(g.out[b]) \in Nat
           /\ \A i \in DOMAIN g.out[b] :
                /\ g.out[b][i].point \in Block /\ g.out[b][i].point \in Successors(g)[b]
           /\ \A c \in Successors(g)[b] : c \in Block /\ \E i \in DOMAIN g.out[b] : g.out[b][i].point = c
<1> TAKE b \in Block
<1>1. DOMAIN g.out[b] = 1 .. Len(g.out[b]) /\ Len(g.out[b]) \in Nat
  BY ListTypes
<1>2. \A i \in DOMAIN g.out[b] : g.out[b][i].point \in Block
  BY ListTypes, HalfTypes
<1>3. Successors(g)[b] = {g.out[b][i].point : i \in DOMAIN g.out[b]}
  BY DEF Successors
<1> QED BY <1>1, <1>2, <1>3

LEMMA SuccessorsType ==
  ASSUME NEW g \in Graph(Block, Labels)
  PROVE  Successors(g) \in [Block -> SUBSET Block]
<1>1. \A b \in Block : Successors(g)[b] \subseteq Block
  BY GraphOf
<1>2. Successors(g) = [b \in Block |-> Successors(g)[b]]
  BY DEF Successors
<1> QED BY <1>1, <1>2

\* h has the edges of g, with lab added to the label of the i-th that leaves b.
Flagged(h, g, b, i, lab) ==
  /\ \A x \in Block :
       /\ DOMAIN h.out[x] = DOMAIN g.out[x] /\ Len(h.out[x]) = Len(g.out[x])
       /\ \A k \in DOMAIN g.out[x] :
            /\ h.out[x][k].point = g.out[x][k].point
            /\ x # b \/ k # i => h.out[x][k].label = g.out[x][k].label
  /\ h.out[b][i].label = g.out[b][i].label \union {lab}

LEMMA FlagSet ==
  ASSUME NEW g \in Graph(Block, Labels), Coupled(Block, g),
         NEW b \in Block, NEW i \in DOMAIN g.out[b], NEW lab \in Labels
  PROVE  /\ set_out_edge_flag(g, b, i, {lab}) \in Graph(Block, Labels)
         /\ Coupled(Block, set_out_edge_flag(g, b, i, {lab}))
         /\ Successors(set_out_edge_flag(g, b, i, {lab})) = Successors(g)
         /\ Flagged(set_out_edge_flag(g, b, i, {lab}), g, b, i, lab)
<1> DEFINE h == set_out_edge_flag(g, b, i, {lab})
<1>1. h \in Graph(Block, Labels) /\ Coupled(Block, h)
  BY OutEdgeFlags
<1> DEFINE new == g.out[b][i].label \union {lab}
<1>2. h.out = [g.out EXCEPT ![b][i].label = new]
  BY DEF set_out_edge_flag, Relabelled
<1> HIDE DEF h
<1>3. g.out \in [Block -> Seq(HalfEdge(Block, Labels))]
  BY DEF Graph
<1>4. /\ \A x \in Block : x # b => h.out[x] = g.out[x]
      /\ h.out[b] = [g.out[b] EXCEPT ![i].label = new]
  BY <1>2, <1>3
<1>5. g.out[b][i] \in HalfEdge(Block, Labels) /\ DOMAIN g.out[b] = 1 .. Len(g.out[b])
  BY ListTypes
<1>6. /\ DOMAIN h.out[b] = DOMAIN g.out[b]
      /\ \A k \in DOMAIN g.out[b] : k # i => h.out[b][k] = g.out[b][k]
      /\ h.out[b][i] = [g.out[b][i] EXCEPT !.label = new]
  BY <1>4
<1>7. h.out[b][i].point = g.out[b][i].point /\ h.out[b][i].label = new
  BY <1>5, <1>6 DEF HalfEdge
<1>8. Len(h.out[b]) = Len(g.out[b])
  BY <1>1, <1>5, <1>6, ListTypes
<1> HIDE DEF new
<1>9. Flagged(h, g, b, i, lab)
  BY <1>4, <1>6, <1>7, <1>8 DEF Flagged, new
<1>10. \A x \in Block : Successors(h)[x] = Successors(g)[x]
  <2> TAKE x \in Block
  <2>1. /\ Successors(h)[x] = {h.out[x][k].point : k \in DOMAIN h.out[x]}
        /\ Successors(g)[x] = {g.out[x][k].point : k \in DOMAIN g.out[x]}
    BY DEF Successors
  <2>2. DOMAIN h.out[x] = DOMAIN g.out[x] /\ \A k \in DOMAIN g.out[x] : h.out[x][k].point = g.out[x][k].point
    BY <1>9 DEF Flagged
  <2>3. ASSUME NEW c \in Successors(h)[x] PROVE c \in Successors(g)[x]
    BY <2>1, <2>2
  <2>4. ASSUME NEW c \in Successors(g)[x] PROVE c \in Successors(h)[x]
    BY <2>1, <2>2
  <2> QED BY <2>3, <2>4
<1>11. Successors(h) = Successors(g)
  <2>1. Successors(h) = [x \in Block |-> Successors(h)[x]] /\ Successors(g) = [x \in Block |-> Successors(g)[x]]
    BY DEF Successors
  <2> QED BY <2>1, <1>10
<1> QED BY <1>1, <1>9, <1>11 DEF h

LEMMA NumberTypes ==
  ASSUME TreeTypes, WalkInv
  PROVE  /\ Discovered \subseteq Block /\ Black \subseteq Discovered /\ Gray \subseteq Discovered
         /\ Len(preorder) \in Nat /\ Len(state) \in Nat
         /\ DOMAIN preorder = 1 .. Len(preorder) /\ DOMAIN state = 1 .. Len(state)
         /\ \A b \in Discovered : dfnum[b] \in Nat /\ dfnum[b] < Len(preorder)
         /\ \A b \in Black : index[b] \in Nat /\ index[b] \in Block
         /\ \A b \in Block : numdesc[b] \in Nat /\ numdesc[b] > 0 /\ visitcount[b] \in Nat
         /\ \A k \in DOMAIN state : state[k] \in Block
         /\ IsFiniteSet(Block \ Black) /\ Free \in Nat
<1>1. TypeOK /\ PreorderInv /\ IndexInv
  BY DEF TreeTypes, WalkInv
<1>2. Discovered \subseteq Block /\ Black \subseteq Discovered /\ Gray \subseteq Discovered
  BY <1>1 DEF Discovered, Gray, IndexInv
<1>3. /\ Len(preorder) \in Nat /\ Len(state) \in Nat
      /\ DOMAIN preorder = 1 .. Len(preorder) /\ DOMAIN state = 1 .. Len(state)
      /\ \A k \in DOMAIN state : state[k] \in Block
  BY <1>1 DEF TypeOK
<1>4. \A b \in Discovered : dfnum[b] \in Nat /\ dfnum[b] < Len(preorder)
  <2> TAKE b \in Discovered
  <2>1. dfnum[b] \in Nat
    BY <1>1, <1>2, Blocks DEF TypeOK, Discovered
  <2>2. dfnum[b] + 1 \in 1 .. Len(preorder)
    BY <1>1, <1>3 DEF PreorderInv
  <2> QED BY <1>3, <2>1, <2>2
<1>5. \A b \in Black : index[b] \in Nat /\ index[b] \in Block
  BY <1>1, <1>2, Blocks DEF TypeOK, Black
<1>6. \A b \in Block : numdesc[b] \in Nat /\ numdesc[b] > 0 /\ visitcount[b] \in Nat
  BY <1>1 DEF TypeOK
<1>7. IsFiniteSet(Block \ Black)
  BY Blocks, FS_Subset
<1>8. Free \in Nat
  BY <1>7, FS_CardinalityType DEF Free
<1> QED BY <1>2, <1>3, <1>4, <1>5, <1>6, <1>7, <1>8

LEMMA TopOfStack ==
  ASSUME TreeTypes, WalkInv, state # << >>
  PROVE  /\ Len(state) > 0 /\ Len(state) \in DOMAIN state /\ bl = state[Len(state)]
         /\ bl \in Gray /\ bl \in Block
         /\ \A b \in Gray : b # bl => dfnum[b] < dfnum[bl]
<1>1. state \in Seq(Block) /\ StackInv
  BY DEF TreeTypes, TypeOK, WalkInv
<1>2. Len(state) \in Nat /\ Len(state) > 0 /\ bl = state[Len(state)] /\ bl \in Block
  BY <1>1, LastOf DEF bl
<1>3. Len(state) \in DOMAIN state /\ DOMAIN state = 1 .. Len(state)
  BY <1>1, <1>2
<1>4. bl \in Gray
  BY <1>1, <1>2, <1>3 DEF StackInv
<1>5. ASSUME NEW b \in Gray, b # bl PROVE dfnum[b] < dfnum[bl]
  <2>1. PICK k \in DOMAIN state : state[k] = b
    BY <1>1 DEF StackInv
  <2>2. k < Len(state)
    BY <2>1, <1>2, <1>3, <1>5
  <2> QED BY <2>1, <2>2, <1>1, <1>2, <1>3 DEF StackInv
<1> QED BY <1>2, <1>3, <1>4, <1>5

LEMMA NextEdge ==
  ASSUME TreeTypes, WalkInv, state # << >>, slot <= Len(graph.out[bl])
  PROVE  /\ slot \in DOMAIN graph.out[bl] /\ slot = visitcount[bl] + 1 /\ slot \in Nat
         /\ child \in Block /\ child \in succs[bl]
<1>1. graph \in Graph(Block, Labels) /\ bl \in Block
  BY TopOfStack DEF TreeTypes, TypeOK
<1>2. DOMAIN graph.out[bl] = 1 .. Len(graph.out[bl]) /\ Len(graph.out[bl]) \in Nat
  BY <1>1, GraphOf
<1>3. visitcount[bl] \in Nat
  BY <1>1, NumberTypes
<1>4. slot \in DOMAIN graph.out[bl] /\ slot = visitcount[bl] + 1 /\ slot \in Nat
  BY <1>2, <1>3 DEF slot
<1> QED BY <1>1, <1>4, GraphOf DEF child, succs

LEMMA EdgeTaken ==
  ASSUME TreeTypes, WalkInv, state # << >>, slot <= Len(graph.out[bl]), NEW lab \in Labels, Take(lab)
  PROVE  /\ graph' \in Graph(Block, Labels) /\ Coupled(Block, graph') /\ succs' = succs
         /\ Flagged(graph', graph, bl, slot, lab)
         /\ visitcount' \in [Block -> Nat]
         /\ visitcount' = [visitcount EXCEPT ![bl] = slot]
         /\ blist' = blist /\ phase' = phase /\ edits' = edits /\ index' = index
<1>1. slot \in DOMAIN graph.out[bl] /\ slot = visitcount[bl] + 1 /\ slot \in Nat
  BY NextEdge
<1>2. bl \in Block /\ graph \in Graph(Block, Labels) /\ Coupled(Block, graph) /\ visitcount \in [Block -> Nat]
  BY TopOfStack DEF TreeTypes, TypeOK
<1>3. /\ graph' \in Graph(Block, Labels) /\ Coupled(Block, graph')
      /\ Successors(graph') = Successors(graph) /\ Flagged(graph', graph, bl, slot, lab)
  <2>1. graph' = set_out_edge_flag(graph, bl, slot, {lab})
    BY DEF Take
  <2> DEFINE h == set_out_edge_flag(graph, bl, slot, {lab})
  <2>2. /\ h \in Graph(Block, Labels) /\ Coupled(Block, h)
        /\ Successors(h) = Successors(graph) /\ Flagged(h, graph, bl, slot, lab)
    BY <1>1, <1>2, FlagSet, Zenon
  <2> HIDE DEF h
  <2>3. graph' = h
    BY <2>1 DEF h
  <2> QED BY <2>2, <2>3
<1>4. visitcount' = [visitcount EXCEPT ![bl] = slot]
  BY <1>1 DEF Take
<1>5. visitcount' \in [Block -> Nat]
  BY <1>1, <1>2, <1>4
<1> QED BY <1>3, <1>4, <1>5 DEF Take, succs

(***************************************************************************)
(* A block is discovered                                                   *)
(***************************************************************************)

\* A list without repetitions that misses a block is shorter than the set of blocks.
LEMMA RoomInPreorder ==
  ASSUME TreeTypes, WalkInv, NEW c \in Block, c \notin Discovered
  PROVE  Len(preorder) \in Block
<1> DEFINE L == Len(preorder)
           T == Block \ {c}
           f == [k \in 1 .. L |-> preorder[k]]
<1>1. preorder \in Seq(Block) /\ L \in Nat /\ DOMAIN preorder = 1 .. L /\ PreorderInv
  BY NumberTypes DEF TreeTypes, TypeOK, WalkInv
<1>2. ASSUME NEW k \in 1 .. L PROVE preorder[k] \in T /\ dfnum[preorder[k]] = k - 1
  <2>1. preorder[k] \in Block /\ dfnum[preorder[k]] = k - 1
    BY <1>1 DEF PreorderInv
  <2>2. dfnum[c] = -1
    BY DEF Discovered
  <2> QED BY <2>1, <2>2
<1>3. f \in [1 .. L -> T]
  BY <1>2
<1>4. \A j, k \in 1 .. L : f[j] = f[k] => j = k
  BY <1>2
<1>5. f \in Injection(1 .. L, T)
  BY <1>3, <1>4 DEF Injection, IsInjective
<1>6. IsFiniteSet(T) /\ Cardinality(T) = Cardinality(Block) - 1
  BY Blocks, FS_RemoveElement
<1> HIDE DEF f, T
<1>7. Cardinality(1 .. L) <= Cardinality(T)
  BY <1>5, <1>6, FS_Injection
<1> HIDE DEF L
<1>8. Cardinality(1 .. L) = L
  BY <1>1, FS_Interval
<1> QED BY <1>1, <1>6, <1>7, <1>8, Blocks DEF L

LEMMA DiscoverChanges ==
  ASSUME TreeTypes, WalkInv, Discover
  PROVE  /\ state # << >> /\ slot <= Len(graph.out[bl]) /\ Take(tree) /\ tree \in Labels
         /\ child \in Block /\ child \notin Discovered /\ child # 0 /\ Len(preorder) \in Block
         /\ state' \in Seq(Block) /\ Len(state') = Len(state) + 1
         /\ \A k \in 1 .. Len(state) : state'[k] = state[k]
         /\ state'[Len(state) + 1] = child
         /\ preorder' \in Seq(Block) /\ Len(preorder') = Len(preorder) + 1
         /\ \A k \in 1 .. Len(preorder) : preorder'[k] = preorder[k]
         /\ preorder'[Len(preorder) + 1] = child
         /\ dfnum' \in [Block -> Block \union {-1}] /\ dfnum'[child] = Len(preorder)
         /\ \A b \in Block : b # child => dfnum'[b] = dfnum[b]
         /\ numdesc' \in [Block -> Nat \ {0}] /\ numdesc'[child] = 1
         /\ \A b \in Block : b # child => numdesc'[b] = numdesc[b]
         /\ Discovered' = Discovered \union {child} /\ Black' = Black
         /\ Gray' = Gray \union {child} /\ Free' = Free
<1>1. state # << >> /\ slot <= Len(graph.out[bl]) /\ Take(tree) /\ tree \in Labels /\ dfnum[child] = -1
  BY DEF Discover, Labels
<1>2. child \in Block
  BY <1>1, NextEdge
<1>3. child \notin Discovered
  BY <1>1 DEF Discovered
<1>4. TypeOK /\ Black \subseteq Discovered
  BY DEF TreeTypes, WalkInv, IndexInv
<1>5. Len(preorder) \in Block
  BY <1>2, <1>3, RoomInPreorder
<1>6. /\ state' \in Seq(Block) /\ Len(state') = Len(state) + 1
      /\ \A k \in 1 .. Len(state) : state'[k] = state[k]
      /\ state'[Len(state) + 1] = child
  <2>1. state' = Append(state, child) /\ state \in Seq(Block)
    BY <1>4 DEF Discover, TypeOK
  <2> QED BY <1>2, <2>1, AppendProperties
<1>7. /\ preorder' \in Seq(Block) /\ Len(preorder') = Len(preorder) + 1
      /\ \A k \in 1 .. Len(preorder) : preorder'[k] = preorder[k]
      /\ preorder'[Len(preorder) + 1] = child
  <2>1. preorder' = Append(preorder, child) /\ preorder \in Seq(Block)
    BY <1>4 DEF Discover, TypeOK
  <2> QED BY <1>2, <2>1, AppendProperties
<1>8. /\ dfnum' \in [Block -> Block \union {-1}] /\ dfnum'[child] = Len(preorder)
      /\ \A b \in Block : b # child => dfnum'[b] = dfnum[b]
  <2>1. dfnum' = [dfnum EXCEPT ![child] = Len(preorder)] /\ dfnum \in [Block -> Block \union {-1}]
    BY <1>4 DEF Discover, TypeOK
  <2> QED BY <1>2, <1>5, <2>1
<1>9. /\ numdesc' \in [Block -> Nat \ {0}] /\ numdesc'[child] = 1
      /\ \A b \in Block : b # child => numdesc'[b] = numdesc[b]
  <2>1. numdesc' = [numdesc EXCEPT ![child] = 1] /\ numdesc \in [Block -> Nat \ {0}]
    BY <1>4 DEF Discover, TypeOK
  <2> QED BY <1>2, <2>1
<1>10. index' = index
  BY <1>1 DEF Take
<1>11. Black' = Black
  BY <1>10 DEF Black
<1>12. Discovered' = Discovered \union {child}
  <2>1. Len(preorder) # -1
    BY NumberTypes
  <2> QED BY <1>2, <1>8, <2>1 DEF Discovered
<1>13. Gray' = Gray \union {child}
  BY <1>3, <1>4, <1>11, <1>12 DEF Gray
<1>14. Free' = Free
  BY <1>11 DEF Free
<1>15. child # 0
  <2>1. PreorderInv /\ Len(preorder) \in Nat /\ DOMAIN preorder = 1 .. Len(preorder)
    BY NumberTypes DEF WalkInv
  <2>2. 1 \in DOMAIN preorder
    BY <2>1, <1>4, EmptySeq DEF PreorderInv, TypeOK
  <2>3. dfnum[0] = 0
    BY <2>1, <2>2 DEF PreorderInv
  <2> QED BY <2>3, <1>1
<1> QED BY <1>1, <1>2, <1>3, <1>5, <1>6, <1>7, <1>8, <1>9, <1>11, <1>12, <1>13, <1>14, <1>15

LEMMA DiscoverTypes ==
  ASSUME TreeTypes, WalkInv, Discover
  PROVE  TreeTypes'
<1>1. /\ graph' \in Graph(Block, Labels) /\ Coupled(Block, graph') /\ succs' = succs
      /\ visitcount' \in [Block -> Nat] /\ blist' = blist /\ edits' = edits /\ index' = index
  BY DiscoverChanges, EdgeTaken
<1>2. /\ state' \in Seq(Block) /\ preorder' \in Seq(Block)
      /\ dfnum' \in [Block -> Block \union {-1}] /\ numdesc' \in [Block -> Nat \ {0}]
  BY DiscoverChanges
<1> QED BY <1>1, <1>2 DEF TreeTypes, TypeOK

LEMMA DiscoverWalk ==
  ASSUME TreeTypes, WalkInv, Discover
  PROVE  WalkInv'
<1>1. /\ succs' = succs /\ Flagged(graph', graph, bl, slot, tree)
      /\ visitcount' = [visitcount EXCEPT ![bl] = slot] /\ index' = index
      /\ visitcount' \in [Block -> Nat]
  BY DiscoverChanges, EdgeTaken
<1>2. /\ child \in Block /\ child \notin Discovered /\ child # 0 /\ state # << >>
      /\ Len(state') = Len(state) + 1
      /\ \A k \in 1 .. Len(state) : state'[k] = state[k]
      /\ state'[Len(state) + 1] = child
      /\ Len(preorder') = Len(preorder) + 1
      /\ \A k \in 1 .. Len(preorder) : preorder'[k] = preorder[k]
      /\ preorder'[Len(preorder) + 1] = child
      /\ dfnum'[child] = Len(preorder)
      /\ \A b \in Block : b # child => dfnum'[b] = dfnum[b]
      /\ numdesc'[child] = 1
      /\ \A b \in Block : b # child => numdesc'[b] = numdesc[b]
  BY DiscoverChanges
<1>3. /\ Discovered' = Discovered \union {child} /\ Black' = Black
      /\ Gray' = Gray \union {child} /\ Free' = Free
  BY DiscoverChanges
<1>4. /\ Discovered \subseteq Block /\ Black \subseteq Discovered /\ Gray \subseteq Discovered
      /\ Len(preorder) \in Nat /\ Len(state) \in Nat
      /\ DOMAIN preorder = 1 .. Len(preorder) /\ DOMAIN state = 1 .. Len(state)
      /\ \A b \in Discovered : dfnum[b] \in Nat /\ dfnum[b] < Len(preorder)
      /\ \A b \in Block : numdesc[b] \in Nat /\ numdesc[b] > 0 /\ visitcount[b] \in Nat
      /\ \A k \in DOMAIN state : state[k] \in Block
  BY NumberTypes
<1>5. DOMAIN preorder' = 1 .. Len(preorder) + 1 /\ DOMAIN state' = 1 .. Len(state) + 1
  BY DiscoverTypes, <1>2 DEF TreeTypes, TypeOK
<1>6. /\ Len(state) > 0 /\ Len(state) \in DOMAIN state /\ bl = state[Len(state)]
      /\ bl \in Gray /\ bl \in Block
  BY <1>2, TopOfStack
<1>7. child \in succs[bl] /\ slot \in DOMAIN graph.out[bl] /\ slot = visitcount[bl] + 1 /\ slot \in Nat
  BY DiscoverChanges, NextEdge
<1>8. PreorderInv /\ StackInv /\ IndexInv /\ VisitInv /\ OrderInv /\ CountInv /\ IntervalInv /\ ParentInv
  BY DEF WalkInv
<1>9. PreorderInv'
  <2>1. preorder' # << >> /\ preorder'[1] = 0
    <3>1. preorder # << >> /\ preorder[1] = 0 /\ preorder \in Seq(Block)
      BY <1>8 DEF PreorderInv, TreeTypes, TypeOK
    <3>2. 1 \in 1 .. Len(preorder) /\ 1 \in DOMAIN preorder'
      BY <3>1, <1>4, <1>5, EmptySeq
    <3> QED BY <3>1, <3>2, <1>2
  <2>2. \A k \in DOMAIN preorder' : dfnum'[preorder'[k]] = k - 1
    <3> SUFFICES ASSUME NEW k \in 1 .. Len(preorder) + 1 PROVE dfnum'[preorder'[k]] = k - 1
      BY <1>5
    <3>1. CASE k = Len(preorder) + 1
      BY <3>1, <1>2, <1>4
    <3>2. CASE k # Len(preorder) + 1
      <4>1. k \in 1 .. Len(preorder) /\ preorder'[k] = preorder[k]
        BY <3>2, <1>2, <1>4
      <4>2. dfnum[preorder[k]] = k - 1 /\ preorder[k] \in Block
        <5>1. preorder \in Seq(Block)
          BY DEF TreeTypes, TypeOK
        <5>2. preorder[k] \in Block
          BY <5>1, <4>1
        <5> QED BY <5>2, <4>1, <1>4, <1>8 DEF PreorderInv
      <4>3. preorder[k] # child
        BY <4>1, <4>2, <1>2 DEF Discovered
      <4> QED BY <4>1, <4>2, <4>3, <1>2
    <3> QED BY <3>1, <3>2
  <2>3. \A b \in Discovered' : dfnum'[b] + 1 \in DOMAIN preorder' /\ preorder'[dfnum'[b] + 1] = b
    <3> SUFFICES ASSUME NEW b \in Discovered' PROVE dfnum'[b] + 1 \in DOMAIN preorder' /\ preorder'[dfnum'[b] + 1] = b
      OBVIOUS
    <3>1. CASE b = child
      BY <3>1, <1>2, <1>4, <1>5
    <3>2. CASE b # child
      <4>1. b \in Discovered /\ b \in Block /\ dfnum'[b] = dfnum[b]
        BY <3>2, <1>2, <1>3, <1>4
      <4>2. dfnum[b] + 1 \in 1 .. Len(preorder) /\ preorder[dfnum[b] + 1] = b
        BY <4>1, <1>4, <1>8 DEF PreorderInv
      <4> QED BY <4>1, <4>2, <1>2, <1>4, <1>5
    <3> QED BY <3>1, <3>2
  <2> QED BY <2>1, <2>2, <2>3 DEF PreorderInv
<1>10. StackInv'
  <2>0. /\ state[1] = 0 /\ state'[1] = 0 /\ 1 \in 1 .. Len(state)
    BY <1>2, <1>4, <1>6, <1>8 DEF StackInv
  <2>1. \A k \in DOMAIN state : state[k] \in Gray /\ state[k] # child /\ state[k] \in Discovered /\ dfnum'[state[k]] = dfnum[state[k]]
    BY <1>2, <1>4, <1>8 DEF StackInv
  <2>2. \A k \in DOMAIN state' : state'[k] \in Gray'
    BY <2>1, <1>2, <1>3, <1>4, <1>5
  <2>3. ASSUME NEW j \in DOMAIN state', NEW k \in DOMAIN state', j < k
        PROVE  dfnum'[state'[j]] < dfnum'[state'[k]]
    <3>1. j \in DOMAIN state /\ state'[j] = state[j]
      BY <2>3, <1>2, <1>4, <1>5
    <3>2. CASE k = Len(state) + 1
      BY <3>1, <3>2, <2>1, <1>2, <1>4
    <3>3. CASE k # Len(state) + 1
      <4>1. k \in DOMAIN state /\ state'[k] = state[k]
        BY <3>3, <1>2, <1>4, <1>5
      <4> QED BY <3>1, <4>1, <2>1, <2>3, <1>8 DEF StackInv
    <3> QED BY <3>2, <3>3
  <2>4. ASSUME NEW b \in Gray' PROVE \E k \in DOMAIN state' : state'[k] = b
    <3>1. CASE b = child
      <4>1. Len(state) + 1 \in DOMAIN state'
        BY <1>4, <1>5
      <4> QED BY <4>1, <3>1, <1>2
    <3>2. CASE b # child
      <4>1. PICK k \in DOMAIN state : state[k] = b
        BY <3>2, <1>3, <1>8 DEF StackInv
      <4>2. k \in DOMAIN state' /\ state'[k] = b
        BY <4>1, <1>2, <1>4, <1>5
      <4> QED BY <4>2
    <3> QED BY <3>1, <3>2
  <2>5. ASSUME NEW k \in DOMAIN state', k > 1 PROVE state'[k] \in succs'[state'[k - 1]]
    <3>1. k - 1 \in DOMAIN state /\ state'[k - 1] = state[k - 1]
      BY <2>5, <1>2, <1>4, <1>5
    <3>2. CASE k = Len(state) + 1
      BY <3>1, <3>2, <1>1, <1>2, <1>4, <1>6, <1>7
    <3>3. CASE k # Len(state) + 1
      <4>1. k \in DOMAIN state /\ state'[k] = state[k]
        BY <3>3, <1>2, <1>4, <1>5
      <4> QED BY <3>1, <4>1, <2>5, <1>1, <1>8 DEF StackInv
    <3> QED BY <3>2, <3>3
  <2> QED BY <2>0, <2>2, <2>3, <2>4, <2>5 DEF StackInv
<1>11. IndexInv'
  BY <1>1, <1>3, <1>8 DEF IndexInv
<1>12. VisitInv'
  <2>1. ASSUME NEW b \in Block, NEW i \in DOMAIN graph'.out[b], i <= visitcount'[b]
        PROVE  graph'.out[b][i].point \in Discovered'
    <3>1. /\ i \in DOMAIN graph.out[b] /\ graph'.out[b][i].point = graph.out[b][i].point
          /\ DOMAIN graph.out[b] = 1 .. Len(graph.out[b]) /\ Len(graph.out[b]) \in Nat
      <4>1. i \in DOMAIN graph.out[b] /\ graph'.out[b][i].point = graph.out[b][i].point
        BY <1>1 DEF Flagged
      <4>2. graph \in Graph(Block, Labels)
        BY DEF TreeTypes, TypeOK
      <4> QED BY <4>1, <4>2, GraphOf
    <3>2. CASE b = bl
      <4>1. i <= slot /\ i \in Nat
        BY <3>1, <3>2, <2>1, <1>1, <1>6, <1>7
      <4>2. CASE i = slot
        BY <4>2, <3>1, <3>2, <1>3 DEF child
      <4>3. CASE i # slot
        BY <4>1, <4>3, <3>1, <3>2, <1>3, <1>4, <1>6, <1>7, <1>8 DEF VisitInv
      <4> QED BY <4>2, <4>3
    <3>3. CASE b # bl
      <4>1. visitcount'[b] = visitcount[b]
        BY <3>3, <1>1, <1>6 DEF TreeTypes, TypeOK
      <4> QED BY <4>1, <3>1, <2>1, <1>3, <1>8 DEF VisitInv
    <3> QED BY <3>2, <3>3
  <2>2. ASSUME NEW b \in Black' PROVE visitcount'[b] >= Len(graph'.out[b])
    <3>1. b \in Black /\ b # bl /\ b \in Block
      BY <1>3, <1>4, <1>6 DEF Gray
    <3>2. visitcount'[b] = visitcount[b] /\ Len(graph'.out[b]) = Len(graph.out[b])
      BY <3>1, <1>1, <1>6 DEF TreeTypes, TypeOK, Flagged
    <3> QED BY <3>1, <3>2, <1>8 DEF VisitInv
  <2> QED BY <2>1, <2>2 DEF VisitInv
<1>13. OrderInv'
  <2> SUFFICES ASSUME NEW u \in Black', NEW v \in succs'[u]
               PROVE  \/ v \in Black' /\ (index'[u] < index'[v] \/ Descends(u, v)')
                      \/ v \in Gray' /\ dfnum'[v] <= dfnum'[u]
    BY DEF OrderInv
  <2>1. /\ u \in Black /\ v \in succs[u]
        /\ \/ v \in Black /\ (index[u] < index[v] \/ Descends(u, v))
           \/ v \in Gray /\ dfnum[v] <= dfnum[u]
    BY <1>1, <1>3, <1>8 DEF OrderInv
  <2>2. /\ u \in Discovered /\ v \in Discovered /\ u # child /\ v # child
        /\ dfnum'[u] = dfnum[u] /\ dfnum'[v] = dfnum[v]
    BY <2>1, <1>2, <1>4
  <2> QED BY <2>1, <2>2, <1>1, <1>3 DEF Descends
<1>14. CountInv'
  <2> SUFFICES ASSUME NEW k \in DOMAIN state', k > 1
               PROVE  numdesc'[state'[k]] =
                        (IF k = Len(state') THEN Len(preorder') ELSE dfnum'[state'[k + 1]]) - dfnum'[state'[k]]
    BY DEF CountInv
  <2>1. CASE k = Len(state) + 1
    BY <2>1, <1>2, <1>4
  <2>2. CASE k # Len(state) + 1
    <3>1. k \in DOMAIN state /\ state'[k] = state[k] /\ state[k] # child /\ state[k] \in Block /\ k \in Nat
      BY <2>2, <1>2, <1>4, <1>5, <1>8 DEF StackInv
    <3>2. numdesc'[state'[k]] = numdesc[state[k]] /\ dfnum'[state'[k]] = dfnum[state[k]]
      BY <3>1, <1>2
    <3>3. numdesc[state[k]] = (IF k = Len(state) THEN Len(preorder) ELSE dfnum[state[k + 1]]) - dfnum[state[k]]
      BY <3>1, <1>8 DEF CountInv
    <3>4. CASE k = Len(state)
      BY <3>2, <3>3, <3>4, <1>2, <1>4
    <3>5. CASE k # Len(state)
      <4>1. k + 1 \in DOMAIN state /\ state'[k + 1] = state[k + 1] /\ state[k + 1] # child /\ state[k + 1] \in Block
        BY <3>1, <3>5, <1>2, <1>4, <1>8 DEF StackInv
      <4>2. dfnum'[state'[k + 1]] = dfnum[state[k + 1]] /\ k # Len(state')
        BY <4>1, <2>2, <1>2
      <4> QED BY <3>2, <3>3, <3>5, <4>2
    <3> QED BY <3>4, <3>5
  <2> QED BY <2>1, <2>2
<1>15. IntervalInv'
  <2> SUFFICES ASSUME NEW b \in Black' \ {0}
               PROVE  /\ dfnum'[b] + numdesc'[b] <= Len(preorder')
                      /\ \A c \in Discovered' :
                           dfnum'[c] \in dfnum'[b] .. dfnum'[b] + numdesc'[b] - 1
                             <=> c \in Black' /\ Descends(c, b)'
    BY DEF IntervalInv
  <2>1. /\ b \in Black \ {0} /\ b \in Discovered /\ b # child /\ b \in Block
        /\ dfnum'[b] = dfnum[b] /\ numdesc'[b] = numdesc[b] /\ dfnum[b] \in Nat /\ numdesc[b] \in Nat
    BY <1>2, <1>3, <1>4
  <2>2. dfnum[b] + numdesc[b] <= Len(preorder)
    BY <2>1, <1>8 DEF IntervalInv
  <2>3. ASSUME NEW c \in Discovered'
        PROVE  dfnum'[c] \in dfnum'[b] .. dfnum'[b] + numdesc'[b] - 1 <=> c \in Black' /\ Descends(c, b)'
    <3>1. CASE c = child
      BY <3>1, <2>1, <2>2, <1>2, <1>3, <1>4
    <3>2. CASE c # child
      <4>1. c \in Discovered /\ dfnum'[c] = dfnum[c]
        BY <3>2, <1>2, <1>3, <1>4
      <4>2. dfnum[c] \in dfnum[b] .. dfnum[b] + numdesc[b] - 1 <=> c \in Black /\ Descends(c, b)
        BY <4>1, <2>1, <1>8 DEF IntervalInv
      <4>3. Descends(c, b)' <=> Descends(c, b)
        BY <4>1, <2>1, <1>1 DEF Descends
      <4> QED BY <4>1, <4>2, <4>3, <2>1, <1>3
    <3> QED BY <3>1, <3>2
  <2> QED BY <2>1, <2>2, <2>3, <1>2, <1>4
<1>16. ParentInv'
  <2> SUFFICES ASSUME NEW c \in Discovered' \ {0}
               PROVE  \E p \in Discovered' : /\ c \in succs'[p] /\ dfnum'[p] < dfnum'[c]
                                             /\ p \in Black' => c \in Black' /\ index'[p] < index'[c]
    BY DEF ParentInv
  <2>1. CASE c = child
    <3>1. bl \in Discovered' /\ bl # child /\ bl \notin Black' /\ dfnum'[bl] < dfnum'[child]
      BY <1>2, <1>3, <1>4, <1>6 DEF Gray
    <3> QED BY <3>1, <2>1, <1>1, <1>7
  <2>2. CASE c # child
    <3>1. PICK p \in Discovered : /\ c \in succs[p] /\ dfnum[p] < dfnum[c]
                                  /\ p \in Black => c \in Black /\ index[p] < index[c]
      BY <2>2, <1>3, <1>8 DEF ParentInv
    <3>2. c \in Discovered /\ dfnum'[c] = dfnum[c] /\ dfnum'[p] = dfnum[p] /\ p \in Discovered'
      BY <2>2, <1>2, <1>3, <1>4
    <3> QED BY <3>1, <3>2, <1>1, <1>3
  <2> QED BY <2>1, <2>2
<1> QED BY <1>9, <1>10, <1>11, <1>12, <1>13, <1>14, <1>15, <1>16 DEF WalkInv

(***************************************************************************)
(* An edge to a known block                                                *)
(***************************************************************************)
LEMMA ClassifyTaken ==
  ASSUME TreeTypes, WalkInv, Classify
  PROVE  /\ state # << >> /\ slot <= Len(graph.out[bl]) /\ child \in Discovered
         /\ \E lab \in Labels : Take(lab)
         /\ state' = state /\ preorder' = preorder /\ dfnum' = dfnum /\ numdesc' = numdesc
<1>1. state # << >> /\ slot <= Len(graph.out[bl]) /\ dfnum[child] # -1
  BY DEF Classify
<1>2. child \in Discovered
  BY <1>1, NextEdge DEF Discovered
<1>3. \E lab \in Labels : Take(lab)
  BY DEF Classify, Labels
<1> QED BY <1>1, <1>2, <1>3 DEF Classify

LEMMA ClassifyTypes ==
  ASSUME TreeTypes, WalkInv, Classify
  PROVE  TreeTypes'
<1>1. PICK lab \in Labels : Take(lab)
  BY ClassifyTaken
<1>2. /\ graph' \in Graph(Block, Labels) /\ Coupled(Block, graph') /\ succs' = succs
      /\ visitcount' \in [Block -> Nat] /\ blist' = blist /\ edits' = edits /\ index' = index
  BY <1>1, ClassifyTaken, EdgeTaken
<1> QED BY <1>2, ClassifyTaken DEF TreeTypes, TypeOK

LEMMA ClassifyWalk ==
  ASSUME TreeTypes, WalkInv, Classify
  PROVE  WalkInv'
<1>0. PICK lab \in Labels : Take(lab)
  BY ClassifyTaken
<1>1. /\ succs' = succs /\ Flagged(graph', graph, bl, slot, lab)
      /\ visitcount' = [visitcount EXCEPT ![bl] = slot] /\ index' = index
      /\ visitcount' \in [Block -> Nat]
  BY <1>0, ClassifyTaken, EdgeTaken
<1>2. /\ state # << >> /\ child \in Discovered
      /\ state' = state /\ preorder' = preorder /\ dfnum' = dfnum /\ numdesc' = numdesc
  BY ClassifyTaken
<1>3. Discovered' = Discovered /\ Black' = Black
  BY <1>1, <1>2 DEF Discovered, Black
<1>4. Gray' = Gray /\ Free' = Free
  BY <1>3 DEF Gray, Free
<1>5. PreorderInv /\ StackInv /\ IndexInv /\ VisitInv /\ OrderInv /\ CountInv /\ IntervalInv /\ ParentInv
  BY DEF WalkInv
<1>6. bl \in Gray /\ bl \in Block /\ Black \subseteq Discovered /\ Discovered \subseteq Block
  BY <1>2, TopOfStack, NumberTypes
<1>7. slot = visitcount[bl] + 1 /\ slot \in Nat /\ visitcount \in [Block -> Nat]
  BY ClassifyTaken, NextEdge DEF TreeTypes, TypeOK
<1>8. PreorderInv' /\ StackInv' /\ IndexInv' /\ CountInv'
  BY <1>1, <1>2, <1>3, <1>4, <1>5 DEF PreorderInv, StackInv, IndexInv, CountInv
<1>9. OrderInv' /\ IntervalInv' /\ ParentInv'
  BY <1>1, <1>2, <1>3, <1>4, <1>5 DEF OrderInv, IntervalInv, ParentInv, Descends
<1>10. VisitInv'
  <2>1. ASSUME NEW b \in Block, NEW i \in DOMAIN graph'.out[b], i <= visitcount'[b]
        PROVE  graph'.out[b][i].point \in Discovered'
    <3>1. /\ i \in DOMAIN graph.out[b] /\ graph'.out[b][i].point = graph.out[b][i].point
          /\ DOMAIN graph.out[b] = 1 .. Len(graph.out[b]) /\ Len(graph.out[b]) \in Nat
      <4>1. i \in DOMAIN graph.out[b] /\ graph'.out[b][i].point = graph.out[b][i].point
        BY <1>1 DEF Flagged
      <4>2. graph \in Graph(Block, Labels)
        BY DEF TreeTypes, TypeOK
      <4> QED BY <4>1, <4>2, GraphOf
    <3>2. CASE b = bl
      <4>1. i <= slot /\ i \in Nat
        BY <3>1, <3>2, <2>1, <1>1, <1>6, <1>7
      <4>2. CASE i = slot
        BY <4>2, <3>1, <3>2, <1>2, <1>3 DEF child
      <4>3. CASE i # slot
        <5>1. i <= visitcount[bl]
          BY <4>1, <4>3, <1>6, <1>7
        <5> QED BY <5>1, <3>1, <3>2, <1>3, <1>5, <1>6 DEF VisitInv
      <4> QED BY <4>2, <4>3
    <3>3. CASE b # bl
      <4>1. visitcount'[b] = visitcount[b]
        BY <3>3, <1>1, <1>6, <1>7
      <4> QED BY <4>1, <3>1, <2>1, <1>3, <1>5 DEF VisitInv
    <3> QED BY <3>2, <3>3
  <2>2. ASSUME NEW b \in Black' PROVE visitcount'[b] >= Len(graph'.out[b])
    <3>1. b \in Black /\ b # bl /\ b \in Block
      BY <1>3, <1>6 DEF Gray
    <3>2. visitcount'[b] = visitcount[b] /\ Len(graph'.out[b]) = Len(graph.out[b])
      BY <3>1, <1>1, <1>6, <1>7 DEF Flagged
    <3> QED BY <3>1, <3>2, <1>5 DEF VisitInv
  <2> QED BY <2>1, <2>2 DEF VisitInv
<1> QED BY <1>8, <1>9, <1>10 DEF WalkInv

(***************************************************************************)
(* The block on top of the stack is finished                               *)
(***************************************************************************)
LEMMA FinishChanges ==
  ASSUME TreeTypes, WalkInv, Finish
  PROVE  /\ state # << >> /\ slot > Len(graph.out[bl])
         /\ bl \in Gray /\ bl \in Block /\ Free > 0 /\ Free - 1 \in Block
         /\ index' \in [Block -> Block \union {-1}] /\ index'[bl] = Free - 1
         /\ \A b \in Block : b # bl => index'[b] = index[b]
         /\ state' \in Seq(Block) /\ Len(state') = Len(state) - 1
         /\ \A k \in 1 .. Len(state) - 1 : state'[k] = state[k]
         /\ numdesc' \in [Block -> Nat \ {0}]
         /\ Len(state) = 1 => numdesc' = numdesc
         /\ Len(state) > 1 =>
              /\ numdesc'[state[Len(state) - 1]] = numdesc[state[Len(state) - 1]] + numdesc[bl]
              /\ \A b \in Block : b # state[Len(state) - 1] => numdesc'[b] = numdesc[b]
         /\ graph' = graph /\ blist' = blist /\ edits' = edits /\ visitcount' = visitcount
         /\ preorder' = preorder /\ dfnum' = dfnum /\ succs' = succs
         /\ Discovered' = Discovered /\ Black' = Black \union {bl}
         /\ Gray' = Gray \ {bl} /\ Free' = Free - 1
<1>1. /\ state # << >> /\ slot > Len(graph.out[bl])
      /\ graph' = graph /\ blist' = blist /\ edits' = edits /\ visitcount' = visitcount
      /\ preorder' = preorder /\ dfnum' = dfnum
  BY DEF Finish
<1>2. bl \in Gray /\ bl \in Block /\ bl = state[Len(state)] /\ Len(state) > 0
  BY <1>1, TopOfStack
<1>3. TypeOK /\ state \in Seq(Block)
  BY DEF TreeTypes, TypeOK
<1>4. /\ Len(state) \in Nat /\ Black \subseteq Discovered /\ Discovered \subseteq Block
      /\ IsFiniteSet(Block \ Black) /\ Free \in Nat
  BY NumberTypes
<1>5. bl \notin Black /\ bl \in Block \ Black
  BY <1>2 DEF Gray
<1>6. Free = Cardinality({b \in Block : index[b] = -1})
  <2>1. Block \ Black = {b \in Block : index[b] = -1}
    BY DEF Black
  <2> QED BY <2>1 DEF Free
<1>7. Free > 0 /\ Free - 1 \in Block
  <2>1. Free # 0
    BY <1>4, <1>5, FS_EmptySet DEF Free
  <2>2. Free <= Cardinality(Block)
    BY Blocks, FS_Subset DEF Free
  <2> QED BY <2>1, <2>2, <1>4, Blocks
<1>8. /\ index' \in [Block -> Block \union {-1}] /\ index'[bl] = Free - 1
      /\ \A b \in Block : b # bl => index'[b] = index[b]
  <2>1. index' = [index EXCEPT ![bl] = Free - 1] /\ index \in [Block -> Block \union {-1}]
    BY <1>3, <1>6 DEF Finish, TypeOK
  <2> QED BY <2>1, <1>2, <1>7
<1>9. /\ state' \in Seq(Block) /\ Len(state') = Len(state) - 1
      /\ \A k \in 1 .. Len(state) - 1 : state'[k] = state[k]
  <2>1. state' = Front(state)
    BY DEF Finish
  <2> QED BY <2>1, <1>1, <1>3, LastOf
<1>10. Black' = Black \union {bl}
  <2>1. Free - 1 # -1
    BY <1>4, <1>7
  <2> QED BY <2>1, <1>2, <1>8 DEF Black
<1>11. Discovered' = Discovered /\ succs' = succs
  BY <1>1 DEF Discovered, succs
<1>12. Gray' = Gray \ {bl}
  BY <1>10, <1>11 DEF Gray
<1>13. Free' = Free - 1
  <2>1. Block \ Black' = (Block \ Black) \ {bl}
    BY <1>10
  <2>2. Cardinality((Block \ Black) \ {bl}) = Cardinality(Block \ Black) - 1
    BY <1>4, <1>5, FS_RemoveElement
  <2> QED BY <2>1, <2>2 DEF Free
<1>14. /\ numdesc' \in [Block -> Nat \ {0}]
       /\ Len(state) = 1 => numdesc' = numdesc
       /\ Len(state) > 1 =>
            /\ numdesc'[state[Len(state) - 1]] = numdesc[state[Len(state) - 1]] + numdesc[bl]
            /\ \A b \in Block : b # state[Len(state) - 1] => numdesc'[b] = numdesc[b]
  <2>1. numdesc \in [Block -> Nat \ {0}]
    BY <1>3 DEF TypeOK
  <2>2. CASE Len(state) = 1
    BY <2>1, <2>2 DEF Finish
  <2>3. CASE Len(state) # 1
    <3> DEFINE s == Front(state)
               p == state[Len(state) - 1]
    <3>1. s \in Seq(Block) /\ Len(s) = Len(state) - 1 /\ \A k \in 1 .. Len(state) - 1 : s[k] = state[k]
      BY <1>1, <1>3, LastOf
    <3>2. Len(s) > 0 /\ s # << >>
      BY <3>1, <2>3, <1>2, <1>4, EmptySeq
    <3>3. Last(s) = s[Len(s)] /\ Last(s) \in Block
      <4> HIDE DEF s
      <4> QED BY <3>1, <3>2, LastOf
    <3>4. Last(s) = p
      BY <3>1, <3>2, <3>3, <1>4
    <3>5. numdesc' = [numdesc EXCEPT ![p] = @ + numdesc[bl]]
      BY <3>4, <2>3 DEF Finish
    <3> HIDE DEF s, p
    <3>6. p \in Block /\ numdesc[p] + numdesc[bl] \in Nat \ {0}
      BY <3>3, <3>4, <2>1, <1>2
    <3>7. numdesc' \in [Block -> Nat \ {0}] /\ numdesc'[p] = numdesc[p] + numdesc[bl]
          /\ \A b \in Block : b # p => numdesc'[b] = numdesc[b]
      BY <3>5, <3>6, <2>1
    <3> QED BY <3>7, <2>3 DEF p
  <2> QED BY <2>2, <2>3
<1> QED BY <1>1, <1>2, <1>7, <1>8, <1>9, <1>10, <1>11, <1>12, <1>13, <1>14

LEMMA FinishTypes ==
  ASSUME TreeTypes, WalkInv, Finish
  PROVE  TreeTypes'
<1>1. /\ index' \in [Block -> Block \union {-1}] /\ state' \in Seq(Block)
      /\ numdesc' \in [Block -> Nat \ {0}]
      /\ graph' = graph /\ blist' = blist /\ edits' = edits /\ visitcount' = visitcount
      /\ preorder' = preorder /\ dfnum' = dfnum /\ succs' = succs
  BY FinishChanges
<1> QED BY <1>1 DEF TreeTypes, TypeOK

LEMMA FinishWalk ==
  ASSUME TreeTypes, WalkInv, Finish
  PROVE  WalkInv'
<1>1. /\ graph' = graph /\ visitcount' = visitcount /\ preorder' = preorder /\ dfnum' = dfnum
      /\ succs' = succs /\ Discovered' = Discovered /\ Black' = Black \union {bl}
      /\ Gray' = Gray \ {bl} /\ Free' = Free - 1
      /\ state # << >> /\ slot > Len(graph.out[bl])
  BY FinishChanges
<1>2. /\ Free > 0 /\ Free - 1 \in Block /\ index'[bl] = Free - 1
      /\ \A b \in Block : b # bl => index'[b] = index[b]
      /\ Len(state') = Len(state) - 1
      /\ \A k \in 1 .. Len(state) - 1 : state'[k] = state[k]
  BY FinishChanges
<1>3. /\ Len(state) = 1 => numdesc' = numdesc
      /\ Len(state) > 1 =>
              /\ numdesc'[state[Len(state) - 1]] = numdesc[state[Len(state) - 1]] + numdesc[bl]
              /\ \A b \in Block : b # state[Len(state) - 1] => numdesc'[b] = numdesc[b]
  BY FinishChanges
<1>4. /\ Discovered \subseteq Block /\ Black \subseteq Discovered /\ Gray \subseteq Discovered
      /\ Len(preorder) \in Nat /\ Len(state) \in Nat
      /\ DOMAIN preorder = 1 .. Len(preorder) /\ DOMAIN state = 1 .. Len(state)
      /\ \A b \in Discovered : dfnum[b] \in Nat /\ dfnum[b] < Len(preorder)
      /\ \A b \in Black : index[b] \in Nat /\ index[b] \in Block
      /\ \A b \in Block : numdesc[b] \in Nat /\ numdesc[b] > 0 /\ visitcount[b] \in Nat
      /\ \A k \in DOMAIN state : state[k] \in Block
      /\ Free \in Nat
  BY NumberTypes
<1>5. DOMAIN state' = 1 .. Len(state) - 1
  BY FinishTypes, <1>2 DEF TreeTypes, TypeOK
<1>6. /\ Len(state) > 0 /\ Len(state) \in DOMAIN state /\ bl = state[Len(state)]
      /\ bl \in Gray /\ bl \in Block /\ bl \notin Black /\ bl \in Discovered
      /\ \A b \in Gray : b # bl => dfnum[b] < dfnum[bl]
  BY <1>1, TopOfStack DEF Gray
<1>7. PreorderInv /\ StackInv /\ IndexInv /\ VisitInv /\ OrderInv /\ CountInv /\ IntervalInv /\ ParentInv
  BY DEF WalkInv
<1>8. \A b \in Black : b # bl /\ b \in Block /\ index'[b] = index[b] /\ index[b] > index'[bl] /\ index[b] \in Nat
  BY <1>2, <1>4, <1>6, <1>7 DEF IndexInv
<1>9. PreorderInv'
  BY <1>1, <1>7 DEF PreorderInv
<1>10. StackInv'
  <2>1. \A k \in DOMAIN state' : k \in DOMAIN state /\ state'[k] = state[k] /\ k < Len(state)
    BY <1>2, <1>4, <1>5
  <2>2. ASSUME NEW k \in DOMAIN state' PROVE state[k] # bl
    <3>1. k \in DOMAIN state /\ k < Len(state) /\ state[k] \in Discovered
      BY <2>1, <1>4, <1>7 DEF StackInv
    <3>2. dfnum[state[k]] < dfnum[state[Len(state)]]
      BY <3>1, <1>6, <1>7 DEF StackInv
    <3>3. dfnum[state[k]] \in Nat
      BY <3>1, <1>4
    <3> QED BY <3>2, <3>3, <1>6
  <2>3. \A k \in DOMAIN state' : state'[k] \in Gray'
    BY <2>1, <2>2, <1>1, <1>7 DEF StackInv
  <2>4. \A j, k \in DOMAIN state' : j < k => dfnum'[state'[j]] < dfnum'[state'[k]]
    BY <2>1, <1>1, <1>7 DEF StackInv
  <2>5. ASSUME NEW b \in Gray' PROVE \E k \in DOMAIN state' : state'[k] = b
    <3>1. PICK k \in DOMAIN state : state[k] = b
      BY <1>1, <1>7 DEF StackInv
    <3>2. k # Len(state)
      BY <3>1, <1>1, <1>6
    <3>3. k \in DOMAIN state' /\ state'[k] = b
      BY <3>1, <3>2, <1>2, <1>4, <1>5
    <3> QED BY <3>3
  <2>6. ASSUME NEW k \in DOMAIN state', k > 1 PROVE state'[k] \in succs'[state'[k - 1]]
    <3>1. k - 1 \in DOMAIN state' /\ k \in DOMAIN state /\ k > 1
      BY <2>6, <1>4, <1>5
    <3> QED BY <3>1, <2>1, <1>1, <1>7 DEF StackInv
  <2>7. state' # << >> => state'[1] = 0
    <3> SUFFICES ASSUME state' # << >> PROVE state'[1] = 0
      OBVIOUS
    <3>1. 1 \in DOMAIN state'
      BY FinishTypes, EmptySeq DEF TreeTypes, TypeOK
    <3> QED BY <3>1, <2>1, <1>1, <1>7 DEF StackInv
  <2> QED BY <2>3, <2>4, <2>5, <2>6, <2>7 DEF StackInv
<1>11. IndexInv'
  <2>1. Black' \subseteq Discovered'
    BY <1>1, <1>4, <1>6
  <2>2. \A b \in Black' : index'[b] >= Free'
    BY <1>1, <1>2, <1>4, <1>8
  <2>3. \A b, c \in Black' : index'[b] = index'[c] => b = c
    BY <1>1, <1>2, <1>4, <1>7, <1>8 DEF IndexInv
  <2>4. ASSUME NEW n \in Block, n >= Free' PROVE \E b \in Black' : index'[b] = n
    <3>1. CASE n = Free - 1
      BY <3>1, <1>1, <1>2
    <3>2. CASE n # Free - 1
      <4>1. n \in Nat /\ n >= Free
        BY <3>2, <2>4, <1>1, <1>4, Blocks
      <4>2. PICK b \in Black : index[b] = n
        BY <4>1, <1>7 DEF IndexInv
      <4> QED BY <4>2, <1>1, <1>8
    <3> QED BY <3>1, <3>2
  <2> QED BY <2>1, <2>2, <2>3, <2>4 DEF IndexInv
<1>12. VisitInv'
  <2>1. visitcount[bl] >= Len(graph.out[bl])
    <3>1. Len(graph.out[bl]) \in Nat
      BY <1>6, GraphOf DEF TreeTypes, TypeOK
    <3> QED BY <3>1, <1>1, <1>4, <1>6 DEF slot
  <2> QED BY <2>1, <1>1, <1>7 DEF VisitInv
<1>13. OrderInv'
  <2> SUFFICES ASSUME NEW u \in Black', NEW v \in succs'[u]
               PROVE  \/ v \in Black' /\ (index'[u] < index'[v] \/ Descends(u, v)')
                      \/ v \in Gray' /\ dfnum'[v] <= dfnum'[u]
    BY DEF OrderInv
  <2>1. CASE u = bl
    <3>1. v \in Discovered
      <4>1. u \in Block /\ v \in succs[u]
        BY <2>1, <1>1, <1>6
      <4>2. PICK i \in DOMAIN graph.out[u] : graph.out[u][i].point = v
        <5>1. graph \in Graph(Block, Labels) /\ v \in Successors(graph)[u]
          BY <4>1 DEF succs, TreeTypes, TypeOK
        <5> QED BY <5>1, <4>1, GraphOf
      <4>3. i <= visitcount[u]
        <5>1. DOMAIN graph.out[u] = 1 .. Len(graph.out[u]) /\ Len(graph.out[u]) \in Nat
          BY <4>1, GraphOf DEF TreeTypes, TypeOK
        <5> QED BY <5>1, <4>1, <2>1, <1>1, <1>4 DEF slot
      <4> QED BY <4>1, <4>2, <4>3, <1>7 DEF VisitInv
    <3>2. CASE v \in Black
      BY <3>2, <2>1, <1>1, <1>8
    <3>3. CASE v = bl
      BY <3>3, <2>1, <1>1, <1>2, <1>4, <1>6 DEF Descends
    <3>4. CASE v \notin Black /\ v # bl
      <4>1. v \in Gray /\ v \in Gray' /\ dfnum[v] < dfnum[bl]
        BY <3>1, <3>4, <1>1, <1>6 DEF Gray
      <4>2. dfnum[v] \in Nat /\ dfnum[bl] \in Nat
        BY <4>1, <1>4, <1>6
      <4>3. dfnum[v] <= dfnum[bl]
        BY <4>1, <4>2
      <4> QED BY <4>1, <4>3, <2>1, <1>1
    <3> QED BY <3>2, <3>3, <3>4
  <2>2. CASE u # bl
    <3>1. /\ u \in Black /\ v \in succs[u]
          /\ \/ v \in Black /\ (index[u] < index[v] \/ Descends(u, v))
             \/ v \in Gray /\ dfnum[v] <= dfnum[u]
      BY <2>2, <1>1, <1>7 DEF OrderInv
    <3>2. CASE v \in Black
      <4>1. v \notin Gray /\ index'[v] = index[v] /\ index'[u] = index[u]
        BY <3>1, <3>2, <1>8 DEF Gray
      <4> QED BY <4>1, <3>1, <3>2, <1>1 DEF Descends
    <3>3. CASE v \notin Black /\ v = bl
      <4>1. dfnum[v] <= dfnum[u] /\ index'[v] <= index'[u]
        <5>1. index'[u] \in Nat /\ index'[v] \in Nat /\ index'[u] > index'[v]
          BY <3>1, <3>3, <1>2, <1>4, <1>8, Blocks
        <5> QED BY <5>1, <3>1, <3>3
      <4> QED BY <4>1, <3>3, <1>1 DEF Descends
    <3>4. CASE v \notin Black /\ v # bl
      BY <3>1, <3>4, <1>1
    <3> QED BY <3>2, <3>3, <3>4
  <2> QED BY <2>1, <2>2
<1>14. CountInv'
  <2> SUFFICES ASSUME NEW k \in DOMAIN state', k > 1
               PROVE  numdesc'[state'[k]] =
                        (IF k = Len(state') THEN Len(preorder') ELSE dfnum'[state'[k + 1]]) - dfnum'[state'[k]]
    BY DEF CountInv
  <2>1. /\ k \in DOMAIN state /\ k < Len(state) /\ k + 1 \in DOMAIN state /\ k \in Nat /\ Len(state) > 1
        /\ state'[k] = state[k] /\ state[k] \in Block
    BY <1>2, <1>4, <1>5
  <2>2. numdesc[state[k]] = dfnum[state[k + 1]] - dfnum[state[k]]
    BY <2>1, <1>7 DEF CountInv
  <2>3. dfnum[state[k]] \in Nat /\ dfnum[state[k + 1]] \in Nat
    BY <2>1, <1>4, <1>7 DEF StackInv
  <2>4. CASE k = Len(state) - 1
    <3>1. state[k + 1] = bl /\ k + 1 = Len(state)
      BY <2>1, <2>4, <1>6
    <3>2. numdesc[bl] = Len(preorder) - dfnum[bl]
      BY <3>1, <2>1, <1>6, <1>7 DEF CountInv
    <3>3. numdesc'[state[k]] = numdesc[state[k]] + numdesc[bl]
      BY <2>1, <2>4, <1>3
    <3>4. numdesc'[state[k]] = Len(preorder) - dfnum[state[k]]
      BY <3>1, <3>2, <3>3, <2>2, <2>3, <1>4
    <3> QED BY <3>4, <2>1, <2>4, <1>1, <1>2
  <2>5. CASE k # Len(state) - 1
    <3>1. k + 1 \in 1 .. Len(state) - 1 /\ state'[k + 1] = state[k + 1] /\ k # Len(state')
      BY <2>1, <2>5, <1>2, <1>4
    <3>2. state[k] # state[Len(state) - 1]
      <4>1. Len(state) - 1 \in DOMAIN state /\ k < Len(state) - 1
        BY <2>1, <2>5, <1>4
      <4>2. dfnum[state[k]] < dfnum[state[Len(state) - 1]]
        BY <4>1, <2>1, <1>7 DEF StackInv
      <4> QED BY <4>2, <2>3
    <3>3. numdesc'[state[k]] = numdesc[state[k]]
      BY <3>2, <2>1, <1>3
    <3> QED BY <3>1, <3>3, <2>1, <2>2, <1>1
  <2> QED BY <2>4, <2>5
<1>15. IntervalInv'
  <2> SUFFICES ASSUME NEW b \in Black' \ {0}
               PROVE  /\ dfnum'[b] + numdesc'[b] <= Len(preorder')
                      /\ \A c \in Discovered' :
                           dfnum'[c] \in dfnum'[b] .. dfnum'[b] + numdesc'[b] - 1
                             <=> c \in Black' /\ Descends(c, b)'
    BY DEF IntervalInv
  <2>1. CASE b = bl
    <3>1. Len(state) > 1 /\ state[Len(state) - 1] # bl
      <4>1. Len(state) # 1
        BY <2>1, <1>1, <1>6, <1>7 DEF StackInv
      <4>2. Len(state) - 1 \in DOMAIN state /\ Len(state) - 1 < Len(state) /\ Len(state) > 1
        BY <4>1, <1>4, <1>6
      <4>3. dfnum[state[Len(state) - 1]] < dfnum[bl] /\ dfnum[bl] \in Nat
        BY <4>2, <1>4, <1>6, <1>7 DEF StackInv
      <4> QED BY <4>2, <4>3
    <3>2. numdesc'[bl] = numdesc[bl]
      BY <3>1, <1>3, <1>6
    <3>3. numdesc[bl] = Len(preorder) - dfnum[bl] /\ dfnum[bl] \in Nat
      BY <3>1, <1>4, <1>6, <1>7 DEF CountInv
    <3>4. ASSUME NEW c \in Discovered
          PROVE  dfnum[c] \in dfnum[bl] .. Len(preorder) - 1
                   <=> c \in Black' /\ dfnum[bl] <= dfnum[c] /\ index'[bl] <= index'[c]
      <4>1. dfnum[c] \in Nat /\ dfnum[c] <= Len(preorder) - 1
        BY <1>4
      <4>2. dfnum[c] \in dfnum[bl] .. Len(preorder) - 1 <=> dfnum[bl] <= dfnum[c]
        BY <4>1, <3>3, <1>4
      <4>3. dfnum[bl] <= dfnum[c] => c \in Black'
        <5>1. CASE c \in Gray
          BY <5>1, <4>1, <3>3, <1>1, <1>6
        <5>2. CASE c \notin Gray
          BY <5>2, <1>1 DEF Gray
        <5> QED BY <5>1, <5>2
      <4>4. ASSUME c \in Black' PROVE index'[bl] <= index'[c]
        <5>1. index'[bl] \in Nat
          BY <1>2, Blocks
        <5>2. CASE c = bl
          BY <5>1, <5>2
        <5>3. CASE c # bl
          BY <5>1, <5>3, <4>4, <1>1, <1>8
        <5> QED BY <5>2, <5>3
      <4> QED BY <4>2, <4>3, <4>4
    <3>5. dfnum[bl] + numdesc[bl] = Len(preorder) /\ dfnum[bl] + numdesc[bl] - 1 = Len(preorder) - 1
      BY <3>3, <1>4
    <3>6. /\ dfnum'[b] = dfnum[bl] /\ numdesc'[b] = numdesc[bl] /\ Len(preorder') = Len(preorder)
          /\ \A c \in Discovered : dfnum'[c] = dfnum[c]
      BY <3>2, <2>1, <1>1
    <3>7. dfnum'[b] + numdesc'[b] <= Len(preorder')
      BY <3>5, <3>6, <1>4
    <3>8. ASSUME NEW c \in Discovered'
          PROVE  dfnum'[c] \in dfnum'[b] .. dfnum'[b] + numdesc'[b] - 1 <=> c \in Black' /\ Descends(c, b)'
      <4>1. c \in Discovered
        BY <1>1
      <4>2. Descends(c, b)' <=> dfnum'[b] <= dfnum'[c] /\ index'[b] <= index'[c]
        BY DEF Descends
      <4> QED BY <4>1, <4>2, <3>4, <3>5, <3>6, <2>1
    <3> QED BY <3>7, <3>8
  <2>2. CASE b # bl
    <3>1. b \in Black \ {0} /\ b \in Block /\ dfnum[b] \in Nat /\ numdesc[b] \in Nat /\ index'[b] = index[b]
      BY <2>2, <1>1, <1>4, <1>8
    <3>2. numdesc'[b] = numdesc[b]
      <4>1. CASE Len(state) = 1
        BY <4>1, <1>3
      <4>2. CASE Len(state) # 1
        <5>1. Len(state) > 1 /\ Len(state) - 1 \in DOMAIN state
          BY <4>2, <1>4, <1>6
        <5>2. state[Len(state) - 1] \notin Black
          BY <5>1, <1>7 DEF StackInv, Gray
        <5> QED BY <5>1, <5>2, <3>1, <1>3
      <4> QED BY <4>1, <4>2
    <3>3. ASSUME NEW c \in Discovered
          PROVE  dfnum[c] \in dfnum[b] .. dfnum[b] + numdesc[b] - 1 <=> c \in Black' /\ Descends(c, b)'
      <4>1. dfnum[c] \in dfnum[b] .. dfnum[b] + numdesc[b] - 1 <=> c \in Black /\ Descends(c, b)
        BY <3>1, <1>7 DEF IntervalInv
      <4>2. CASE c = bl
        <5>1. ~(index'[b] <= index'[c])
          BY <4>2, <3>1, <1>2, <1>8, Blocks
        <5> QED BY <5>1, <4>1, <4>2, <1>6 DEF Descends
      <4>3. CASE c # bl
        <5>1. c \in Black' <=> c \in Black
          BY <4>3, <1>1
        <5>2. index'[c] = index[c]
          BY <4>3, <1>2, <1>4
        <5> QED BY <5>1, <5>2, <4>1, <3>1, <1>1 DEF Descends
      <4> QED BY <4>2, <4>3
    <3>4. dfnum[b] + numdesc[b] <= Len(preorder)
      BY <3>1, <1>7 DEF IntervalInv
    <3> QED BY <3>2, <3>3, <3>4, <1>1
  <2> QED BY <2>1, <2>2
<1>16. ParentInv'
  <2> SUFFICES ASSUME NEW c \in Discovered' \ {0}
               PROVE  \E p \in Discovered' : /\ c \in succs'[p] /\ dfnum'[p] < dfnum'[c]
                                             /\ p \in Black' => c \in Black' /\ index'[p] < index'[c]
    BY DEF ParentInv
  <2>1. PICK p \in Discovered : /\ c \in succs[p] /\ dfnum[p] < dfnum[c]
                                /\ p \in Black => c \in Black /\ index[p] < index[c]
    BY <1>1, <1>7 DEF ParentInv
  <2>2. c \in Discovered /\ dfnum[c] \in Nat /\ dfnum[p] \in Nat
    BY <1>1, <1>4
  <2>3. CASE p = bl
    <3>1. c \notin Gray
      BY <2>1, <2>2, <2>3, <1>6
    <3>2. c \in Black
      BY <3>1, <2>2 DEF Gray
    <3> QED BY <3>2, <2>1, <2>3, <1>1, <1>8
  <2>4. CASE p # bl
    <3>1. p \in Black' => p \in Black /\ c \in Black /\ c \in Black' /\ index'[p] < index'[c]
      BY <2>1, <2>4, <1>1, <1>8
    <3> QED BY <3>1, <2>1, <1>1
  <2> QED BY <2>3, <2>4
<1> QED BY <1>9, <1>10, <1>11, <1>12, <1>13, <1>14, <1>15, <1>16 DEF WalkInv

(***************************************************************************)
(* The steps around the walk                                               *)
(***************************************************************************)
LEMMA StartTreeTypes ==
  ASSUME TreeTypes, StartTree
  PROVE  TreeTypes'
<1>1. blist[1] = 0 /\ 0 \in Block /\ TypeOK
  BY Blocks DEF TreeTypes
<1>2. state' \in Seq(Block) /\ preorder' \in Seq(Block)
  BY <1>1 DEF StartTree
<1>3. dfnum' \in [Block -> Block \union {-1}] /\ index' \in [Block -> Block \union {-1}]
  BY <1>1 DEF StartTree
<1>4. visitcount' \in [Block -> Nat]
  BY DEF StartTree
<1>5. graph' = graph /\ blist' = blist /\ edits' = edits /\ numdesc' = numdesc /\ succs' = succs
  BY DEF StartTree, succs
<1> QED BY <1>2, <1>3, <1>4, <1>5 DEF TreeTypes, TypeOK

LEMMA StartTreeWalk ==
  ASSUME TreeTypes, StartTree
  PROVE  WalkInv'
<1>1. blist[1] = 0 /\ 0 \in Block
  BY Blocks DEF TreeTypes
<1>2. /\ state' = <<0>> /\ preorder' = <<0>>
      /\ \A b \in Block : dfnum'[b] = (IF b = 0 THEN 0 ELSE -1) /\ index'[b] = -1 /\ visitcount'[b] = 0
      /\ graph' = graph
  BY <1>1 DEF StartTree
<1>3. /\ Len(state') = 1 /\ Len(preorder') = 1 /\ state'[1] = 0 /\ preorder'[1] = 0
      /\ DOMAIN state' = {1} /\ DOMAIN preorder' = {1}
  BY <1>2
<1>4. Discovered' = {0} /\ Black' = {} /\ Gray' = {0}
  BY <1>1, <1>2 DEF Discovered, Black, Gray
<1>5. \A k \in {1} : k = 1 /\ k + 1 = 2 /\ k - 1 = 0 /\ ~(k > 1)
  OBVIOUS
<1>6. PreorderInv'
  <2>1. \A k \in DOMAIN preorder' : dfnum'[preorder'[k]] = k - 1
    BY <1>1, <1>2, <1>3
  <2>2. \A b \in Discovered' : dfnum'[b] + 1 \in DOMAIN preorder' /\ preorder'[dfnum'[b] + 1] = b
    BY <1>1, <1>2, <1>3, <1>4
  <2>3. preorder' # << >> /\ preorder'[1] = 0
    BY <1>2, <1>3
  <2> QED BY <2>1, <2>2, <2>3 DEF PreorderInv
<1>7. StackInv'
  BY <1>3, <1>4, <1>5 DEF StackInv
<1>8. IndexInv'
  <2>1. \A n \in Block : ~(n >= Free')
    <3>1. Free' = Cardinality(Block)
      BY <1>4 DEF Free
    <3> QED BY <3>1, Blocks
  <2> QED BY <2>1, <1>4 DEF IndexInv
<1>9. VisitInv'
  <2>1. ASSUME NEW b \in Block, NEW i \in DOMAIN graph.out[b] PROVE ~(i <= 0)
    BY GraphOf DEF TreeTypes, TypeOK
  <2> QED BY <2>1, <1>2, <1>4 DEF VisitInv
<1>10. OrderInv' /\ IntervalInv' /\ ParentInv'
  BY <1>4 DEF OrderInv, IntervalInv, ParentInv
<1>11. CountInv'
  BY <1>3, <1>5 DEF CountInv
<1> QED BY <1>6, <1>7, <1>8, <1>9, <1>10, <1>11 DEF WalkInv

\* Once the stack is empty every block has its place.
LEMMA AllFinished ==
  ASSUME TreeTypes, WalkInv, state = << >>
  PROVE  Black = Block /\ Discovered = Block /\ Free = 0
<1>1. Gray = {}
  <2>1. DOMAIN state = {}
    OBVIOUS
  <2> QED BY <2>1 DEF WalkInv, StackInv
<1>2. Black = Discovered /\ Discovered \subseteq Block
  BY <1>1, NumberTypes DEF Gray
<1>3. 0 \in Discovered
  <2>1. preorder \in Seq(Block) /\ preorder # << >> /\ preorder[1] = 0
    BY DEF TreeTypes, TypeOK, WalkInv, PreorderInv
  <2>2. 1 \in DOMAIN preorder
    BY <2>1, EmptySeq
  <2>3. dfnum[0] = 0
    BY <2>1, <2>2 DEF WalkInv, PreorderInv
  <2> QED BY <2>3, Blocks DEF Discovered
<1>4. \A u \in Discovered : succs[u] \subseteq Discovered
  BY <1>1, <1>2 DEF WalkInv, OrderInv
<1>5. ReachableFrom(succs, {0}) \subseteq Discovered
  <2>1. succs \in [Block -> SUBSET Block] /\ {0} \in SUBSET Block /\ IsFiniteSet(Block)
    BY Blocks, SuccessorsType DEF TreeTypes, TypeOK, succs
  <2> HIDE DEF succs
  <2>2. \A X : {0} \subseteq X /\ (\A b \in X : succs[b] \subseteq X)
                 => ReachableFrom(succs, {0}) \subseteq X
    BY <2>1, ReachableIsLeast
  <2> QED BY <2>2, <1>3, <1>4
<1>6. Discovered = Block
  BY <1>2, <1>5 DEF TreeTypes
<1>7. Free = 0
  BY <1>2, <1>6, FS_EmptySet DEF Free
<1> QED BY <1>2, <1>6, <1>7

LEMMA EndTreeNumbers ==
  ASSUME TreeTypes, WalkInv, NEW next, EndTree(next)
  PROVE  TreeTypes' /\ Numbered'
<1>1. /\ state = << >> /\ graph' = graph /\ edits' = edits /\ state' = state
      /\ visitcount' = visitcount /\ preorder' = preorder
      /\ dfnum' = dfnum /\ index' = index /\ numdesc' = numdesc /\ succs' = succs
  BY DEF EndTree, succs
<1>2. Black = Block /\ Discovered = Block /\ Free = 0
  BY <1>1, AllFinished
<1>3. TypeOK /\ Len(blist) = Cardinality(Block) /\ IndexInv /\ OrderInv /\ IntervalInv /\ ParentInv
  BY DEF TreeTypes, TypeOK, WalkInv
<1>4. \A b \in Block : index[b] \in Block /\ index[b] \in Nat
  BY <1>2, NumberTypes
<1>5. \A n \in Block : \E b \in Block : index[b] = n
  BY <1>2, <1>3, Blocks DEF IndexInv
<1>6. \A b, c \in Block : index[b] = index[c] => b = c
  BY <1>2, <1>3 DEF IndexInv
<1> DEFINE N == Cardinality(Block)
           l == [n \in 1 .. N |-> CHOOSE b \in Block : index[b] = n - 1]
<1>7. blist' = l
  BY <1>3 DEF EndTree
<1>8. N \in Nat /\ N > 0 /\ \A b : b \in Block <=> b \in Nat /\ b < N
  BY Blocks
<1> HIDE DEF N
<1>9. \A n \in 1 .. N : l[n] \in Block /\ index[l[n]] = n - 1
  <2> TAKE n \in 1 .. N
  <2>1. n - 1 \in Block
    BY <1>8
  <2> QED BY <2>1, <1>5
<1>10. DOMAIN l = 1 .. N /\ l \in [1 .. N -> Block]
  BY <1>9
<1> HIDE DEF l
<1>11. l \in Seq(Block) /\ Len(l) = N
  BY <1>8, <1>10
<1>12. \A b \in Block : index[b] + 1 \in DOMAIN l /\ l[index[b] + 1] = b
  <2> TAKE b \in Block
  <2> DEFINE m == index[b] + 1
  <2>1. m \in 1 .. N /\ m - 1 = index[b]
    BY <1>4, <1>8
  <2> HIDE DEF m
  <2>2. l[m] \in Block /\ index[l[m]] = index[b]
    BY <2>1, <1>9
  <2>3. l[m] = b
    BY <2>2, <1>6
  <2> QED BY <2>1, <2>3, <1>10 DEF m
<1>13. Range(l) = Block
  BY <1>9, <1>10, <1>12 DEF Range
<1>14. \A c \in Block \ {0} : \E p \in Block : c \in succs[p] /\ index[p] < index[c] /\ dfnum[p] < dfnum[c]
  BY <1>2, <1>3 DEF ParentInv
<1>15. l[1] = 0
  <2>1. 1 \in 1 .. N
    BY <1>8
  <2>2. l[1] \in Block /\ index[l[1]] = 0
    BY <2>1, <1>9
  <2> QED BY <2>2, <1>4, <1>14
<1>16. TreeTypes'
  BY <1>1, <1>3, <1>7, <1>11, <1>13, <1>15 DEF TreeTypes, TypeOK, N
<1>17. \A u \in Block : \A v \in succs[u] : index[u] < index[v] \/ Descends(u, v)
  BY <1>2, <1>3 DEF OrderInv, Gray
<1>18. \A b \in Block \ {0}, c \in Block : Descends(c, b) <=> dfnum[c] \in dfnum[b] .. dfnum[b] + numdesc[b] - 1
  BY <1>2, <1>3 DEF IntervalInv
<1>19. \A b, c : Descends(b, c)' <=> Descends(b, c)
  BY <1>1 DEF Descends
<1>20. Numbered'
  BY <1>1, <1>4, <1>7, <1>9, <1>10, <1>12, <1>14, <1>17, <1>18, <1>19 DEF Numbered
<1> QED BY <1>16, <1>20

\* The steps that follow leave the numbers alone.
LEMMA NumbersStand ==
  ASSUME UNCHANGED <<graph, edits, dfsvars>>
  PROVE  /\ TreeTypes => TreeTypes'
         /\ Numbered => Numbered'
<1>1. /\ graph' = graph /\ edits' = edits /\ blist' = blist /\ exitlist' = exitlist /\ state' = state
      /\ visitcount' = visitcount /\ preorder' = preorder
      /\ dfnum' = dfnum /\ index' = index /\ numdesc' = numdesc /\ succs' = succs
  BY DEF dfsvars, succs
<1>2. \A b, c : Descends(b, c)' <=> Descends(b, c)
  BY <1>1 DEF Descends
<1>3. TreeTypes => TreeTypes'
  BY <1>1 DEF TreeTypes, TypeOK
<1>4. Numbered => Numbered'
  BY <1>1, <1>2 DEF Numbered
<1> QED BY <1>3, <1>4

LEMMA RemoveEdgeTypes ==
  ASSUME TreeTypes, NEW begin \in Block, NEW end \in Block, RemoveEdge(begin, end)
  PROVE  TreeTypes' /\ phase' = "edit" /\ edits' > 0
<1> DEFINE j == get_in_index(graph, end, begin)
           g == remove_in_edge(graph, end, j)
<1>1. /\ ReachableFrom(Successors(g), {0}) = Block /\ graph' = g /\ edits' = edits + 1 /\ edits < MaxEdits
      /\ end \in succs[begin] /\ phase' = "edit" /\ UNCHANGED dfsvars
  BY DEF RemoveEdge, remove_edge
<1>2. TypeOK /\ graph \in Graph(Block, Labels) /\ Coupled(Block, graph)
  BY DEF TreeTypes, TypeOK
<1>3. PICK i \in DOMAIN graph.out[begin] : graph.out[begin][i].point = end
  <2>1. end \in Successors(graph)[begin]
    BY <1>1 DEF succs
  <2> QED BY <2>1, <1>2, GraphOf
<1>4. /\ graph.out[begin][i].rev \in DOMAIN graph.in[end]
      /\ graph.in[end][graph.out[begin][i].rev] = blockedge(begin, graph.out[begin][i].label, i)
  BY <1>2, <1>3 DEF Coupled, Partner
<1>5. graph.in[end][graph.out[begin][i].rev].point = begin
  BY <1>4, HalfFields
<1>6. j \in DOMAIN graph.in[end]
  BY <1>2, <1>4, <1>5, EdgeSeen
<1> HIDE DEF j
<1>7. g \in Graph(Block, Labels) /\ Coupled(Block, g)
  BY <1>2, <1>6, RemoveInEdge
<1> HIDE DEF g
<1>8. edits' \in 0 .. MaxEdits /\ edits' > 0
  BY <1>1, <1>2, EditsAssumption DEF TypeOK
<1>9. ReachableFrom(succs', {0}) = Block
  BY <1>1 DEF succs
<1>10. TypeOK' /\ blist' = blist
  BY <1>1, <1>2, <1>7, <1>8 DEF TypeOK, dfsvars
<1> QED BY <1>1, <1>7, <1>8, <1>9, <1>10 DEF TreeTypes

LEMMA InitTypes ==
  ASSUME NEW succ, FlowGraph(succ), TreeInitOf(succ)
  PROVE  TreeTypes /\ phase = "edit" /\ Bare(graph)
<1> DEFINE g == connect_basic(succ)
           N == Cardinality(Block)
<1>1. g \in Graph(Block, Labels) /\ Coupled(Block, g) /\ Bare(g)
      /\ Successors(g) = [b \in Block |-> Range(succ[b])]
  BY GraphBuilt DEF Built
<1>2. graph = g
  BY DEF TreeInitOf
<1> HIDE DEF g
<1>3. succs = [b \in Block |-> Range(succ[b])]
  BY <1>1, <1>2 DEF succs
<1>4. ReachableFrom(succs, {0}) = Block
  BY <1>3 DEF FlowGraph
<1>5. N \in Nat /\ N > 0 /\ Block = 0 .. N - 1 /\ 0 \in Block
  BY Blocks, BlockAssumption
<1>6. blist = [n \in 1 .. N |-> n - 1] /\ phase = "edit"
  BY DEF TreeInitOf
<1> HIDE DEF N
<1>7. blist \in [1 .. N -> Block] /\ DOMAIN blist = 1 .. N
  BY <1>5, <1>6
<1>8. blist \in Seq(Block) /\ Len(blist) = N /\ blist[1] = 0
  BY <1>5, <1>6, <1>7
<1>9. Range(blist) = Block
  <2>1. ASSUME NEW b \in Block PROVE \E n \in 1 .. N : blist[n] = b
    <3>1. b + 1 \in 1 .. N /\ blist[b + 1] = b
      BY <1>5, <1>6
    <3> QED BY <3>1
  <2> QED BY <2>1, <1>7 DEF Range
<1>10. /\ edits \in 0 .. MaxEdits /\ state \in Seq(Block) /\ preorder \in Seq(Block)
       /\ visitcount \in [Block -> Nat]
       /\ dfnum \in [Block -> Block \union {-1}] /\ index \in [Block -> Block \union {-1}]
       /\ numdesc \in [Block -> Nat \ {0}]
  <2>1. edits = 0 /\ edits \in 0 .. MaxEdits
    BY EditsAssumption DEF TreeInitOf
  <2>2. state = << >> /\ preorder = << >> /\ state \in Seq(Block) /\ preorder \in Seq(Block)
    BY DEF TreeInitOf
  <2>3. /\ visitcount \in [Block -> Nat]
        /\ dfnum \in [Block -> Block \union {-1}] /\ index \in [Block -> Block \union {-1}]
        /\ numdesc \in [Block -> Nat \ {0}]
    BY <1>5 DEF TreeInitOf
  <2> QED BY <2>1, <2>2, <2>3
<1> QED BY <1>1, <1>2, <1>4, <1>6, <1>8, <1>9, <1>10 DEF TreeTypes, TypeOK, N

(***************************************************************************)
(* The labels                                                              *)
(***************************************************************************)

\* The stack is a path from the entry: what dominates a block of it lies below the block.
LEMMA DominatorBelow ==
  ASSUME TreeTypes, WalkInv, NEW j \in DOMAIN state, NEW a \in Dominators(succs, 0, state[j])
  PROVE  \E k \in 1 .. j : state[k] = a
<1> SUFFICES ASSUME \A k \in 1 .. j : state[k] # a PROVE FALSE
  OBVIOUS
<1> DEFINE S == succs
           avoid == [b \in DOMAIN S |-> S[b] \ {a}]
           R == ReachableFrom(avoid, {0})
<1>1. S \in [Block -> SUBSET Block]
  BY SuccessorsType DEF TreeTypes, TypeOK, succs
<1>2. /\ Len(state) \in Nat /\ DOMAIN state = 1 .. Len(state)
      /\ \A k \in DOMAIN state : state[k] \in Block
  BY NumberTypes
<1>3. j \in Nat /\ j > 0 /\ \A k \in 1 .. j : k \in DOMAIN state /\ state[k] \in Block
  BY <1>2
<1>4. /\ state[1] = 0 /\ state[1] # a
      /\ \A k \in 1 .. j : k > 1 => state[k] \in S[state[k - 1]]
  <2>1. state # << >> /\ 1 \in 1 .. j
    BY <1>2, <1>3
  <2>2. state[1] = 0
    BY <2>1 DEF WalkInv, StackInv
  <2>3. \A k \in 1 .. j : k > 1 => state[k] \in succs[state[k - 1]]
    BY <1>3 DEF WalkInv, StackInv
  <2> QED BY <2>1, <2>2, <2>3
<1>5. state[j] \notin R
  BY <1>4 DEF Dominators, ReachableAvoiding
<1> HIDE DEF S
<1>6. avoid \in [Block -> SUBSET Block] /\ \A b \in Block : avoid[b] = S[b] \ {a}
  BY <1>1
<1> HIDE DEF avoid
<1>7. 0 \in R /\ \A b \in R : avoid[b] \subseteq R
  BY <1>6, Blocks, ReachableIsLeast
<1> HIDE DEF R
<1> DEFINE G == {n \in 0 .. j : n = 0 \/ state[n] \in R}
<1>8. 0 \in G
  BY <1>3
<1>9. ASSUME NEW n \in 1 .. j, n - 1 \in G PROVE n \in G
  <2>1. CASE n = 1
    BY <2>1, <1>4, <1>7, <1>3
  <2>2. CASE n # 1
    <3>1. n - 1 # 0 /\ n > 1 /\ n - 1 \in 1 .. j
      BY <2>2, <1>3
    <3>2. state[n - 1] \in R
      BY <3>1, <1>9
    <3>3. state[n] \in avoid[state[n - 1]]
      BY <3>1, <1>3, <1>4, <1>6
    <3>4. state[n] \in R
      BY <3>2, <3>3, <1>7
    <3> QED BY <3>4
  <2> QED BY <2>1, <2>2
<1>10. j \in G
  <2>1. j \in 0 .. j /\ j \in Nat
    BY <1>3
  <2> HIDE DEF G
  <2> QED BY <2>1, <1>8, <1>9, UpTo
<1> QED BY <1>3, <1>5, <1>10

LEMMA DominatorGray ==
  ASSUME TreeTypes, WalkInv, state # << >>, NEW a \in Dominators(succs, 0, bl)
  PROVE  a \in Gray
<1>1. Len(state) \in DOMAIN state /\ bl = state[Len(state)]
  BY TopOfStack
<1>2. PICK k \in 1 .. Len(state) : state[k] = a
  BY <1>1, DominatorBelow
<1>3. k \in DOMAIN state
  BY <1>1, <1>2, NumberTypes
<1> QED BY <1>2, <1>3 DEF WalkInv, StackInv

\* On a reducible graph an edge from the top of the stack to a block of the stack leads to
\* a dominator: otherwise the stretch between the two would be a cycle without back edges.
LEMMA StackCycle ==
  ASSUME TreeTypes, WalkInv, state # << >>, Reducible(succs, 0),
         NEW v \in succs[bl], v \in Gray
  PROVE  IsBackEdge(succs, 0, bl, v)
<1> SUFFICES ASSUME ~IsBackEdge(succs, 0, bl, v) PROVE FALSE
  OBVIOUS
<1> DEFINE S == succs
           D(u) == Dominators(S, 0, u)
           fwd == [u \in DOMAIN S |-> {w \in S[u] : ~IsBackEdge(S, 0, u, w)}]
           N == Len(state)
<1>1. S \in [Block -> SUBSET Block]
  BY SuccessorsType DEF TreeTypes, TypeOK, succs
<1>2. /\ N \in Nat /\ DOMAIN state = 1 .. N
      /\ \A k \in DOMAIN state : state[k] \in Block
  BY NumberTypes
<1>3. N > 0 /\ N \in DOMAIN state /\ bl = state[N] /\ bl \in Block
  BY TopOfStack
<1>4. PICK j \in DOMAIN state : state[j] = v
  BY DEF WalkInv, StackInv
<1>5. /\ \A k \in DOMAIN state : k > 1 => state[k] \in S[state[k - 1]]
      /\ \A i, k \in DOMAIN state : i < k => dfnum[state[i]] < dfnum[state[k]]
      /\ \A k \in DOMAIN state : state[k] \in Discovered /\ dfnum[state[k]] \in Nat
  BY NumberTypes DEF WalkInv, StackInv
<1>6. \A i \in DOMAIN state : \A a \in D(state[i]) : \E k \in 1 .. i : state[k] = a
  BY DominatorBelow
<1>7. \A b \in Block : b \notin ReachableFrom(fwd, fwd[b])
  BY <1>1 DEF Reducible
<1>8. \A b \in Block : fwd[b] = {w \in S[b] : w \notin D(b)}
  BY <1>1 DEF IsBackEdge
<1>9. v \in S[bl] /\ v \notin D(bl) /\ v \in Block
  BY <1>2, <1>4 DEF IsBackEdge
<1>10. fwd \in [Block -> SUBSET Block]
  BY <1>1
<1> HIDE DEF S, D, fwd, N
<1> DEFINE R == ReachableFrom(fwd, fwd[v])
<1>11. fwd[v] \subseteq R /\ \A b \in R : fwd[b] \subseteq R
  <2>1. fwd[v] \in SUBSET Block
    BY <1>9, <1>10
  <2> QED BY <2>1, <1>10, Blocks, ReachableIsLeast
<1>12. v \notin R
  BY <1>7, <1>9
<1> HIDE DEF R
\* Every edge of the stack is a forward edge.
<1>13. \A k \in DOMAIN state : k > 1 => state[k] \in fwd[state[k - 1]]
  <2> SUFFICES ASSUME NEW k \in DOMAIN state, k > 1 PROVE state[k] \in fwd[state[k - 1]]
    OBVIOUS
  <2>1. k - 1 \in DOMAIN state /\ k \in Nat
    BY <1>2
  <2>2. state[k] \notin D(state[k - 1])
    <3> SUFFICES ASSUME state[k] \in D(state[k - 1]) PROVE FALSE
      OBVIOUS
    <3>1. PICK i \in 1 .. k - 1 : state[i] = state[k]
      BY <2>1, <1>6
    <3>2. i \in DOMAIN state /\ i < k
      BY <3>1, <2>1, <1>2
    <3>3. dfnum[state[i]] < dfnum[state[k]]
      BY <3>2, <1>5
    <3> QED BY <3>1, <3>3, <1>5
  <2> QED BY <2>1, <2>2, <1>2, <1>5, <1>8
<1> DEFINE G == {n \in 0 .. N - j : n = 0 \/ state[j + n] \in R}
<1>14. N - j \in Nat /\ j \in Nat /\ j > 0
  BY <1>2
<1>15. 0 \in G
  BY <1>14
<1>16. ASSUME NEW n \in 1 .. N - j, n - 1 \in G PROVE n \in G
  <2> DEFINE m == j + n
             p == j + (n - 1)
  <2>1. m \in DOMAIN state /\ m > 1 /\ m - 1 = p
    BY <1>2, <1>14
  <2> HIDE DEF m, p
  <2>2. state[m] \in fwd[state[p]]
    BY <2>1, <1>13
  <2>3. state[m] \in R
    <3>1. CASE n = 1
      <4>1. p = j
        BY <3>1, <1>14 DEF p
      <4> QED BY <4>1, <2>2, <1>4, <1>11
    <3>2. CASE n # 1
      <4>1. state[p] \in R
        BY <3>2, <1>16 DEF p
      <4> QED BY <4>1, <2>2, <1>11
    <3> QED BY <3>1, <3>2
  <2> QED BY <2>3 DEF m
<1>17. N - j \in G
  <2>1. N - j \in 0 .. N - j
    BY <1>14
  <2> HIDE DEF G
  <2> QED BY <2>1, <1>14, <1>15, <1>16, UpTo
<1>18. v \in fwd[bl]
  BY <1>3, <1>8, <1>9
<1>19. CASE N = j
  BY <1>19, <1>3, <1>4, <1>11, <1>12, <1>18
<1>20. CASE N # j
  <2>1. state[N] \in R
    <3>1. N - j # 0 /\ j + (N - j) = N
      BY <1>20, <1>2
    <3> QED BY <3>1, <1>17
  <2> QED BY <2>1, <1>3, <1>11, <1>12, <1>18
<1> QED BY <1>19, <1>20

\* The label an edge gets tells whether it leads to a dominator.
LEMMA LabelRight ==
  ASSUME TreeTypes, WalkInv, state # << >>, slot <= Len(graph.out[bl]),
         NEW lab \in Labels, Take(lab),
         lab = back <=> child \in Gray,
         LabelInv, phase = "tree"
  PROVE  LabelInv'
<1> SUFFICES ASSUME edits' = 0, NEW u \in Block, NEW i \in DOMAIN graph'.out[u]
             PROVE  IF i <= visitcount'[u] THEN WellLabelled(u, i)' ELSE graph'.out[u][i].label = {}
  <2>1. phase' = "tree"
    BY EdgeTaken
  <2> QED BY <2>1 DEF LabelInv
<1>1. /\ succs' = succs /\ Flagged(graph', graph, bl, slot, lab)
      /\ visitcount' = [visitcount EXCEPT ![bl] = slot] /\ edits' = edits
  BY EdgeTaken
<1>2. /\ slot \in DOMAIN graph.out[bl] /\ slot = visitcount[bl] + 1 /\ slot \in Nat
      /\ child \in Block /\ child \in succs[bl] /\ bl \in Block
  BY NextEdge, TopOfStack
<1>3. /\ i \in DOMAIN graph.out[u] /\ i \in Nat
      /\ graph'.out[u][i].point = graph.out[u][i].point
      /\ u # bl \/ i # slot => graph'.out[u][i].label = graph.out[u][i].label
  <2>1. DOMAIN graph.out[u] = 1 .. Len(graph.out[u]) /\ Len(graph.out[u]) \in Nat
    BY GraphOf DEF TreeTypes, TypeOK
  <2>2. i \in DOMAIN graph.out[u]
    BY <1>1 DEF Flagged
  <2> QED BY <2>1, <2>2, <1>1 DEF Flagged
<1>4. edits = 0
  BY <1>1
<1>5. visitcount[u] \in Nat /\ visitcount'[bl] = slot /\ (u # bl => visitcount'[u] = visitcount[u])
  BY <1>1, <1>2 DEF TreeTypes, TypeOK
<1>6. IF i <= visitcount[u] THEN WellLabelled(u, i) ELSE graph.out[u][i].label = {}
  BY <1>3, <1>4 DEF LabelInv
<1> DEFINE e == graph.out[u][i]
           f == graph'.out[u][i]
<1>7. WellLabelled(u, i) <=> /\ IsBackEdge(succs, 0, u, e.point) => back \in e.label
                             /\ Reducible(succs, 0) /\ back \in e.label => IsBackEdge(succs, 0, u, e.point)
  BY DEF WellLabelled
<1>8. WellLabelled(u, i)' <=> /\ IsBackEdge(succs', 0, u, f.point) => back \in f.label
                              /\ Reducible(succs', 0) /\ back \in f.label => IsBackEdge(succs', 0, u, f.point)
  BY DEF WellLabelled
<1>9. CASE u # bl \/ i # slot
  <2>1. i <= visitcount'[u] <=> i <= visitcount[u]
    BY <1>9, <1>2, <1>3, <1>5
  <2>2. WellLabelled(u, i)' <=> WellLabelled(u, i)
    BY <1>1, <1>3, <1>7, <1>8, <1>9
  <2> QED BY <2>1, <2>2, <1>3, <1>6, <1>9
<1>10. CASE u = bl /\ i = slot
  <2>1. i <= visitcount'[u] /\ ~(i <= visitcount[u])
    BY <1>2, <1>5, <1>10
  <2>2. e.label = {} /\ e.point = child /\ f.point = child
    BY <2>1, <1>3, <1>6, <1>10 DEF child
  <2>3. f.label = {lab}
    BY <2>2, <1>1, <1>10 DEF Flagged
  <2>4. IsBackEdge(succs, 0, u, child) => back \in f.label
    BY <2>3, <1>10, DominatorGray DEF IsBackEdge
  <2>5. Reducible(succs, 0) /\ back \in f.label => IsBackEdge(succs, 0, u, child)
    BY <2>3, <1>2, <1>10, StackCycle
  <2>6. WellLabelled(u, i)'
    BY <2>2, <2>4, <2>5, <1>1, <1>8
  <2> QED BY <2>1, <2>6
<1> QED BY <1>9, <1>10

\* What is known of the edges taken stays, and the next one gets back or cross unless it leads
\* to a block with a greater number.
LEMMA OnwardTaken ==
  ASSUME TreeTypes, WalkInv, state # << >>, slot <= Len(graph.out[bl]),
         NEW lab \in Labels, Take(lab), phase = "tree", OnwardInv,
         \A b \in Discovered : b \in Discovered' /\ dfnum'[b] = dfnum[b],
         child \in Discovered', dfnum[bl] < dfnum'[child] \/ lab \in {back, cross}
  PROVE  OnwardInv'
<1>1. /\ Flagged(graph', graph, bl, slot, lab) /\ visitcount' = [visitcount EXCEPT ![bl] = slot]
      /\ phase' = "tree"
  BY EdgeTaken
<1>2. /\ slot \in DOMAIN graph.out[bl] /\ slot = visitcount[bl] + 1 /\ slot \in Nat
      /\ bl \in Block /\ bl \in Discovered
  BY NextEdge, TopOfStack DEF Gray
<1> SUFFICES ASSUME NEW u \in Block, NEW i \in DOMAIN graph'.out[u], i <= visitcount'[u]
             PROVE  u \in Discovered' /\ Onward(u, i)'
  BY <1>1 DEF OnwardInv
<1>3. /\ i \in DOMAIN graph.out[u] /\ i \in Nat
      /\ graph'.out[u][i].point = graph.out[u][i].point
      /\ u # bl \/ i # slot => graph'.out[u][i].label = graph.out[u][i].label
      /\ lab \in graph'.out[bl][slot].label
  <2>1. DOMAIN graph.out[u] = 1 .. Len(graph.out[u]) /\ Len(graph.out[u]) \in Nat
    BY GraphOf DEF TreeTypes, TypeOK
  <2>2. i \in DOMAIN graph.out[u]
    BY <1>1 DEF Flagged
  <2> QED BY <2>1, <2>2, <1>1 DEF Flagged
<1>4. visitcount[u] \in Nat /\ visitcount'[bl] = slot /\ (u # bl => visitcount'[u] = visitcount[u])
  BY <1>1, <1>2 DEF TreeTypes, TypeOK
<1>5. CASE u # bl \/ i # slot
  <2>1. i <= visitcount[u]
    BY <1>2, <1>3, <1>4, <1>5
  <2>2. u \in Discovered /\ Onward(u, i)
    BY <2>1, <1>3 DEF OnwardInv
  <2>3. graph.out[u][i].point \in Discovered
    BY <2>1, <1>3 DEF WalkInv, VisitInv
  <2> QED BY <2>2, <2>3, <1>3, <1>5 DEF Onward
<1>6. CASE u = bl /\ i = slot
  <2>1. graph'.out[u][i].point = child /\ dfnum'[u] = dfnum[bl] /\ u \in Discovered'
    BY <1>2, <1>3, <1>6 DEF child
  <2> QED BY <2>1, <1>3, <1>6 DEF Onward
<1> QED BY <1>5, <1>6

LEMMA ExitsStand ==
  ASSUME TreeTypes, WalkInv, state # << >>, slot <= Len(graph.out[bl]),
         NEW lab \in Labels, Take(lab), phase = "tree", ExitInv
  PROVE  ExitInv'
<1>1. /\ Flagged(graph', graph, bl, slot, lab) /\ phase' = "tree" /\ exitlist' = exitlist
      /\ graph' \in Graph(Block, Labels) /\ graph \in Graph(Block, Labels)
  BY EdgeTaken DEF Take, TreeTypes, TypeOK
<1>2. ASSUME NEW b \in Block PROVE graph'.out[b] = << >> <=> graph.out[b] = << >>
  <2>1. Len(graph'.out[b]) = Len(graph.out[b])
    BY <1>1 DEF Flagged
  <2>2. graph'.out[b] \in Seq(HalfEdge(Block, Labels)) /\ graph.out[b] \in Seq(HalfEdge(Block, Labels))
    BY <1>1 DEF Graph
  <2> QED BY <2>1, <2>2, EmptySeq
<1> QED BY <1>1, <1>2 DEF ExitInv

\* The walk starts with the list of the exits, and with no edge taken.
LEMMA ExitsListed ==
  ASSUME TreeTypes, StartTree
  PROVE  OnwardInv' /\ ExitInv'
<1>1. graph' = graph /\ phase' = "tree" /\ \A b \in Block : visitcount'[b] = 0
  BY DEF StartTree
<1>2. OnwardInv'
  <2>1. ASSUME NEW u \in Block, NEW i \in DOMAIN graph.out[u] PROVE ~(i <= 0)
    BY GraphOf DEF TreeTypes, TypeOK
  <2> QED BY <2>1, <1>1 DEF OnwardInv
<1>3. blist \in Seq(Block) /\ Range(blist) = Block /\ IsInjective(blist)
  <2>1. blist \in Seq(Block) /\ Range(blist) = Block /\ Len(blist) = Cardinality(Block)
    BY DEF TreeTypes, TypeOK
  <2> QED BY <2>1, AllDifferent, Blocks
<1> DEFINE exits == {b \in Block : graph.out[b] = << >>}
           list == Sublist(blist, exits)
<1>4. exitlist' = list
  BY DEF StartTree
<1>5. list \in Seq(Block) /\ Range(list) = exits /\ IsInjective(list)
  <2>1. exits \subseteq Block
    OBVIOUS
  <2> HIDE DEF exits
  <2>2. list \in Seq(Block) /\ Range(list) = Range(blist) \intersect exits
        /\ (IsInjective(blist) => IsInjective(list))
    BY <1>3, SublistOf, Zenon
  <2> HIDE DEF list
  <2> QED BY <2>1, <2>2, <1>3
<1>6. exitlist' \in Seq(Block) /\ Range(exitlist') = exits /\ IsInjective(exitlist')
  <2> HIDE DEF list, exits
  <2>1. \A x : x = list => x \in Seq(Block) /\ Range(x) = exits /\ IsInjective(x)
    BY <1>5
  <2> QED BY <2>1, <1>4
<1>7. ExitInv'
  BY <1>1, <1>6 DEF ExitInv
<1> QED BY <1>2, <1>7

(***************************************************************************)
(* TreeInv is kept by everything structure_reset and the passes do          *)
(***************************************************************************)
LEMMA TreeInvStarts ==
  ASSUME NEW succ, FlowGraph(succ), TreeInitOf(succ)
  PROVE  TreeInv
<1>1. TreeTypes /\ phase = "edit" /\ Bare(graph)
  BY InitTypes
<1>2. LabelInv /\ OnwardInv /\ ExitInv
  BY <1>1 DEF LabelInv, OnwardInv, ExitInv, Bare
<1> QED BY <1>1, <1>2 DEF TreeInv

LEMMA TreeInvWalks ==
  ASSUME TreeInv, StartTree \/ Discover \/ Classify \/ Finish
  PROVE  TreeInv'
<1>1. TreeTypes /\ LabelInv /\ OnwardInv /\ ExitInv /\ (phase = "tree" => WalkInv)
  BY DEF TreeInv
<1>2. CASE StartTree
  <2>1. TreeTypes' /\ WalkInv' /\ phase' = "tree" /\ phase = "edit"
    BY <1>1, <1>2, StartTreeTypes, StartTreeWalk DEF StartTree
  <2>2. LabelInv'
    <3>1. graph' = graph /\ edits' = edits /\ \A b \in Block : visitcount'[b] = 0
      BY <1>2 DEF StartTree
    <3>2. ASSUME NEW u \in Block, NEW i \in DOMAIN graph.out[u] PROVE ~(i <= 0)
      BY <1>1, GraphOf DEF TreeTypes, TypeOK
    <3> QED BY <2>1, <3>1, <3>2, <1>1 DEF LabelInv
  <2>3. OnwardInv' /\ ExitInv'
    BY <1>1, <1>2, ExitsListed
  <2> QED BY <2>1, <2>2, <2>3 DEF TreeInv
<1>3. CASE Discover
  <2>1. phase = "tree" /\ TreeTypes' /\ WalkInv'
    BY <1>1, <1>3, DiscoverTypes, DiscoverWalk DEF Discover
  <2>2. /\ state # << >> /\ slot <= Len(graph.out[bl]) /\ Take(tree) /\ tree \in Labels
        /\ child \notin Discovered
    BY <2>1, <1>1, <1>3, DiscoverChanges
  <2>3. tree # back /\ child \notin Gray
    BY <2>2 DEF Gray, tree, back
  <2>4. LabelInv' /\ phase' = phase
    BY <2>1, <2>2, <2>3, <1>1, LabelRight, EdgeTaken
  <2>5. /\ \A b \in Discovered : b \in Discovered' /\ dfnum'[b] = dfnum[b]
        /\ child \in Discovered' /\ dfnum[bl] < dfnum'[child]
    <3>1. /\ Discovered' = Discovered \union {child} /\ dfnum'[child] = Len(preorder)
          /\ \A b \in Block : b # child => dfnum'[b] = dfnum[b]
      BY <2>1, <1>1, <1>3, DiscoverChanges
    <3>2. dfnum[bl] + 1 \in DOMAIN preorder /\ Discovered \subseteq Block
      BY <2>1, <2>2, <1>1, TopOfStack DEF WalkInv, PreorderInv, Gray, Discovered
    <3>3. DOMAIN preorder = 1 .. Len(preorder) /\ Len(preorder) \in Nat /\ dfnum[bl] \in Int
      BY <2>1, <2>2, <1>1, NumberTypes, TopOfStack
    <3> QED BY <3>1, <3>2, <3>3, <2>2
  <2>6. OnwardInv' /\ ExitInv'
    BY <2>1, <2>2, <2>5, <1>1, OnwardTaken, ExitsStand
  <2> QED BY <2>1, <2>4, <2>6 DEF TreeInv
<1>4. CASE Classify
  <2>1. phase = "tree" /\ TreeTypes' /\ WalkInv'
    BY <1>1, <1>4, ClassifyTypes, ClassifyWalk DEF Classify
  <2> DEFINE lab == IF index[child] = -1 THEN back
                    ELSE IF dfnum[bl] < dfnum[child] THEN forward ELSE cross
  <2>2. /\ state # << >> /\ slot <= Len(graph.out[bl]) /\ Take(lab) /\ dfnum[child] # -1
        /\ child \in Block
    BY <2>1, <1>1, <1>4, NextEdge DEF Classify
  <2>3. lab \in Labels /\ (lab = back <=> child \in Gray)
    BY <2>2 DEF Gray, Discovered, Black, Labels, tree, back, forward, cross
  <2>5. dfnum[bl] < dfnum[child] \/ lab \in {back, cross}
    OBVIOUS
  <2> HIDE DEF lab
  <2>4. LabelInv' /\ phase' = phase
    BY <2>1, <2>2, <2>3, <1>1, LabelRight, EdgeTaken
  <2>6. /\ \A b \in Discovered : b \in Discovered' /\ dfnum'[b] = dfnum[b]
        /\ child \in Discovered' /\ dfnum'[child] = dfnum[child]
    BY <2>1, <1>1, <1>4, ClassifyTaken DEF Discovered
  <2>7. OnwardInv' /\ ExitInv'
    BY <2>1, <2>2, <2>3, <2>5, <2>6, <1>1, OnwardTaken, ExitsStand
  <2> QED BY <2>1, <2>4, <2>7 DEF TreeInv
<1>5. CASE Finish
  <2>1. phase = "tree" /\ TreeTypes' /\ WalkInv'
    BY <1>1, <1>5, FinishTypes, FinishWalk DEF Finish
  <2>2. phase' = phase /\ graph' = graph /\ edits' = edits /\ visitcount' = visitcount /\ succs' = succs
    BY <1>5 DEF Finish, succs
  <2>3. LabelInv'
    BY <2>2, <1>1 DEF LabelInv, WellLabelled
  <2>4. dfnum' = dfnum /\ exitlist' = exitlist /\ Discovered' = Discovered
    BY <1>5 DEF Finish, Discovered
  <2>5. OnwardInv' /\ ExitInv'
    BY <2>2, <2>4, <1>1 DEF OnwardInv, Onward, ExitInv
  <2> QED BY <2>1, <2>2, <2>3, <2>5 DEF TreeInv
<1> QED BY <1>2, <1>3, <1>4, <1>5

LEMMA TreeInvEnds ==
  ASSUME TreeInv, NEW next, next \notin {"edit", "tree"}, EndTree(next)
  PROVE  TreeInv'
<1>1. TreeTypes /\ LabelInv /\ OnwardInv /\ ExitInv /\ phase = "tree" /\ WalkInv
  BY DEF TreeInv, EndTree
<1>2. TreeTypes' /\ Numbered'
  BY <1>1, EndTreeNumbers
<1>3. graph' = graph /\ edits' = edits /\ phase' = next /\ succs' = succs /\ state = << >>
  BY DEF EndTree, succs
<1>4. \A u \in Block : \A i \in DOMAIN graph.out[u] : i <= visitcount[u]
  <2> TAKE u \in Block
  <2>1. visitcount[u] >= Len(graph.out[u]) /\ visitcount[u] \in Nat
    BY <1>1, <1>3, AllFinished, NumberTypes DEF WalkInv, VisitInv
  <2>2. DOMAIN graph.out[u] = 1 .. Len(graph.out[u]) /\ Len(graph.out[u]) \in Nat
    BY <1>1, GraphOf DEF TreeTypes, TypeOK
  <2> QED BY <2>1, <2>2
<1>5. LabelInv'
  BY <1>1, <1>3, <1>4 DEF LabelInv, WellLabelled
<1>6. dfnum' = dfnum /\ exitlist' = exitlist
  BY DEF EndTree
<1>7. OnwardInv' /\ ExitInv'
  BY <1>1, <1>3, <1>4, <1>6 DEF OnwardInv, Onward, ExitInv
<1> QED BY <1>2, <1>3, <1>5, <1>7 DEF TreeInv

LEMMA TreeInvEdited ==
  ASSUME TreeInv, Edit
  PROVE  TreeInv'
<1>1. PICK begin, end \in Block : RemoveEdge(begin, end)
  BY DEF Edit
<1>2. TreeTypes' /\ phase' = "edit" /\ edits' > 0
  BY <1>1, RemoveEdgeTypes DEF TreeInv
<1>3. LabelInv' /\ OnwardInv' /\ ExitInv'
  BY <1>2 DEF LabelInv, OnwardInv, ExitInv, TreeTypes, TypeOK
<1> QED BY <1>2, <1>3 DEF TreeInv

LEMMA TreeInvStands ==
  ASSUME TreeInv, UNCHANGED <<graph, edits, dfsvars>>,
         phase \notin {"edit", "tree"}, phase' \notin {"edit", "tree"}
  PROVE  TreeInv'
<1>1. TreeTypes /\ Numbered /\ LabelInv /\ OnwardInv /\ ExitInv
  BY DEF TreeInv
<1>2. TreeTypes' /\ Numbered'
  BY <1>1, NumbersStand
<1>3. graph' = graph /\ edits' = edits /\ succs' = succs /\ dfnum' = dfnum /\ exitlist' = exitlist
  BY DEF succs, dfsvars
<1>4. LabelInv' /\ OnwardInv' /\ ExitInv'
  BY <1>1, <1>3 DEF LabelInv, WellLabelled, OnwardInv, Onward, ExitInv
<1> QED BY <1>2, <1>4 DEF TreeInv

LEMMA TreeInvStutters ==
  ASSUME TreeInv, UNCHANGED treevars
  PROVE  TreeInv'
<1>1. /\ graph' = graph /\ edits' = edits /\ phase' = phase /\ blist' = blist /\ exitlist' = exitlist
      /\ state' = state /\ visitcount' = visitcount /\ preorder' = preorder
      /\ dfnum' = dfnum /\ index' = index /\ numdesc' = numdesc /\ succs' = succs
  BY DEF treevars, dfsvars, succs
<1>2. /\ Discovered' = Discovered /\ Black' = Black /\ Gray' = Gray /\ Free' = Free
      /\ \A b, c : Descends(b, c)' <=> Descends(b, c)
  BY <1>1 DEF Discovered, Black, Gray, Free, Descends
<1>3. TreeTypes'
  BY <1>1 DEF TreeInv, TreeTypes, TypeOK
<1>4. WalkInv => WalkInv'
  <2>1. /\ PreorderInv => PreorderInv'
        /\ StackInv => StackInv'
        /\ IndexInv => IndexInv'
        /\ VisitInv => VisitInv'
    BY <1>1, <1>2 DEF PreorderInv, StackInv, IndexInv, VisitInv
  <2>2. /\ OrderInv => OrderInv'
        /\ CountInv => CountInv'
    BY <1>1, <1>2 DEF OrderInv, CountInv
  <2>3. /\ IntervalInv => IntervalInv'
        /\ ParentInv => ParentInv'
    BY <1>1, <1>2 DEF IntervalInv, ParentInv
  <2> QED BY <2>1, <2>2, <2>3 DEF WalkInv
<1>5. Numbered => Numbered'
  BY <1>1, <1>2 DEF Numbered
<1>6. LabelInv' /\ OnwardInv' /\ ExitInv'
  BY <1>1, <1>2 DEF TreeInv, LabelInv, WellLabelled, OnwardInv, Onward, ExitInv
<1> QED BY <1>1, <1>3, <1>4, <1>5, <1>6 DEF TreeInv

LEMMA TreeInvNumbers ==
  ASSUME TreeInv
  PROVE  Numbering /\ BackEdgesLabelled
<1>1. TypeOK
  BY DEF TreeInv, TreeTypes
<1>2. ReversePostorder /\ DescendantInterval
  BY DEF TreeInv, TreeTypes, Done, Numbered, ReversePostorder, DescendantInterval
<1>3. BackEdgesLabelled
  <2> SUFFICES ASSUME Done, edits = 0, NEW u \in Block, NEW i \in DOMAIN graph.out[u]
               PROVE  WellLabelled(u, i)
    BY DEF BackEdgesLabelled, WellLabelled
  <2> QED BY DEF TreeInv, LabelInv, Done
<1> QED BY <1>1, <1>2, <1>3 DEF Numbering

(***************************************************************************)
(* What the labels of a first walk say of the two numberings, and what the *)
(* walk leaves of the places in preorder: the search for loops reads both. *)
(***************************************************************************)

\* An edge with the label back leads up the tree; any other leads on, in one of the two orders.
Retreats(u, i) ==
  LET e == graph.out[u][i]
      v == e.point
  IN  IF back \in e.label
      THEN dfnum[v] <= dfnum[u] /\ (v \in Black => u \in Black /\ index[v] <= index[u])
      ELSE dfnum[u] < dfnum[v] \/ (v \in Black /\ (u \in Black => index[u] < index[v]))

RetreatInv ==
  edits = 0 =>
    \A u \in Block : \A i \in DOMAIN graph.out[u] :
      /\ phase = "tree" /\ i <= visitcount[u] => Retreats(u, i)
      /\ phase \notin {"edit", "tree"} => Retreats(u, i)

PlacedInv ==
  phase \notin {"edit", "tree"} =>
    /\ \A n \in 1 .. Cardinality(Block) : preorder[n] \in Block /\ dfnum[preorder[n]] = n - 1
    /\ \A b \in Block : dfnum[b] \in Nat /\ dfnum[b] < Cardinality(Block) /\ preorder[dfnum[b] + 1] = b

\* Taking an edge keeps the order of the walk on the edges that are labelled.
LEMMA RetreatTaken ==
  ASSUME TreeTypes, WalkInv, state # << >>, slot <= Len(graph.out[bl]),
         NEW lab \in Labels, Take(lab), phase = "tree", LabelInv, OnwardInv, RetreatInv,
         \A b \in Discovered : dfnum'[b] = dfnum[b],
         IF lab = back THEN dfnum'[child] <= dfnum[bl] /\ child \notin Black
                       ELSE dfnum[bl] < dfnum'[child] \/ child \in Black
  PROVE  RetreatInv'
<1>1. /\ Flagged(graph', graph, bl, slot, lab) /\ visitcount' = [visitcount EXCEPT ![bl] = slot]
      /\ phase' = "tree" /\ edits' = edits /\ index' = index
  BY EdgeTaken
<1>2. /\ slot \in DOMAIN graph.out[bl] /\ slot = visitcount[bl] + 1 /\ slot \in Nat
      /\ bl \in Block /\ bl \in Discovered /\ bl \notin Black
  BY NextEdge, TopOfStack DEF Gray
<1> SUFFICES ASSUME edits = 0, NEW u \in Block, NEW i \in DOMAIN graph'.out[u], i <= visitcount'[u]
             PROVE  Retreats(u, i)'
  BY <1>1 DEF RetreatInv
<1>3. /\ i \in DOMAIN graph.out[u] /\ i \in Nat
      /\ graph'.out[u][i].point = graph.out[u][i].point
      /\ u # bl \/ i # slot => graph'.out[u][i].label = graph.out[u][i].label
      /\ graph'.out[bl][slot].label = graph.out[bl][slot].label \union {lab}
  <2>1. DOMAIN graph.out[u] = 1 .. Len(graph.out[u]) /\ Len(graph.out[u]) \in Nat
    BY GraphOf DEF TreeTypes, TypeOK
  <2>2. i \in DOMAIN graph.out[u]
    BY <1>1 DEF Flagged
  <2> QED BY <2>1, <2>2, <1>1 DEF Flagged
<1>4. visitcount[u] \in Nat /\ visitcount'[bl] = slot /\ (u # bl => visitcount'[u] = visitcount[u])
  BY <1>1, <1>2 DEF TreeTypes, TypeOK
<1>5. Black' = Black
  BY <1>1 DEF Black
<1>6. CASE u # bl \/ i # slot
  <2>1. i <= visitcount[u]
    BY <1>2, <1>3, <1>4, <1>6
  <2>2. Retreats(u, i) /\ u \in Discovered
    BY <2>1, <1>3 DEF RetreatInv, OnwardInv
  <2>3. graph.out[u][i].point \in Discovered
    BY <2>1, <1>3 DEF WalkInv, VisitInv
  <2> QED BY <2>2, <2>3, <1>1, <1>3, <1>5, <1>6 DEF Retreats
<1>7. CASE u = bl /\ i = slot
  <2>1. graph.out[bl][slot].label = {}
    <3>1. visitcount[bl] \in Nat /\ ~(slot <= visitcount[bl])
      BY <1>2 DEF TreeTypes, TypeOK
    <3> HIDE DEF slot
    <3> QED BY <3>1, <1>2 DEF LabelInv
  <2>2. graph'.out[u][i].point = child /\ graph'.out[u][i].label = {lab} /\ dfnum'[u] = dfnum[bl]
    BY <2>1, <1>2, <1>3, <1>7 DEF child
  <2> QED BY <2>2, <1>2, <1>5, <1>7 DEF Retreats
<1> QED BY <1>6, <1>7

\* So does leaving a block.
LEMMA RetreatFinished ==
  ASSUME TreeTypes, WalkInv, phase = "tree", OnwardInv, RetreatInv, Finish
  PROVE  RetreatInv'
<1>1. /\ state # << >> /\ bl \in Gray /\ bl \in Block
      /\ index' \in [Block -> Block \union {-1}] /\ index'[bl] = Free - 1
      /\ \A b \in Block : b # bl => index'[b] = index[b]
      /\ graph' = graph /\ edits' = edits /\ visitcount' = visitcount /\ dfnum' = dfnum
      /\ Black' = Black \union {bl}
  BY FinishChanges
<1>2. /\ phase' = "tree" /\ Free \in Nat /\ \A b \in Black : index[b] \in Nat /\ index[b] >= Free
      /\ \A b \in Gray : b # bl => dfnum[b] < dfnum[bl]
      /\ Black \subseteq Block /\ \A b \in Discovered : dfnum[b] \in Nat
  BY <1>1, NumberTypes, TopOfStack DEF Finish, WalkInv, IndexInv, Black
<1> SUFFICES ASSUME edits = 0, NEW u \in Block, NEW i \in DOMAIN graph.out[u], i <= visitcount[u]
             PROVE  Retreats(u, i)'
  BY <1>1, <1>2 DEF RetreatInv
<1> DEFINE e == graph.out[u][i]
           v == e.point
<1>3. Retreats(u, i) /\ u \in Discovered /\ v \in Discovered /\ v \in Block
  <2>1. u \in Discovered /\ Retreats(u, i)
    BY DEF OnwardInv, RetreatInv
  <2>2. v \in Discovered
    BY DEF WalkInv, VisitInv
  <2> QED BY <2>1, <2>2 DEF Discovered
<1>4. Retreats(u, i)' <=>
        IF back \in e.label
        THEN dfnum[v] <= dfnum[u] /\ (v \in Black' => u \in Black' /\ index'[v] <= index'[u])
        ELSE dfnum[u] < dfnum[v] \/ (v \in Black' /\ (u \in Black' => index'[u] < index'[v]))
  BY <1>1 DEF Retreats
<1>5. CASE back \in e.label
  <2>1. dfnum[v] <= dfnum[u] /\ (v \in Black => u \in Black /\ index[v] <= index[u])
    BY <1>3, <1>5 DEF Retreats
  <2>2. CASE v = bl
    <3>1. CASE u = bl
      BY <3>1, <2>1, <2>2, <1>1, <1>2, <1>4, <1>5
    <3>2. CASE u # bl
      <4>1. u \in Black
        BY <3>2, <2>1, <2>2, <1>2, <1>3 DEF Gray
      <4> QED BY <4>1, <3>2, <2>1, <2>2, <1>1, <1>2, <1>4, <1>5
    <3> QED BY <3>1, <3>2
  <2>3. CASE v # bl
    <3>1. v \in Black' <=> v \in Black
      BY <2>3, <1>1
    <3>2. u \in Black => u # bl /\ u \in Black'
      BY <1>1 DEF Gray
    <3> QED BY <3>1, <3>2, <2>1, <2>3, <1>1, <1>3, <1>4, <1>5
  <2> QED BY <2>2, <2>3
<1>6. CASE back \notin e.label
  <2>1. dfnum[u] < dfnum[v] \/ (v \in Black /\ (u \in Black => index[u] < index[v]))
    BY <1>3, <1>6 DEF Retreats
  <2>2. CASE dfnum[u] < dfnum[v]
    BY <2>2, <1>4, <1>6
  <2>3. CASE v \in Black /\ (u \in Black => index[u] < index[v])
    <3>1. v # bl /\ v \in Black' /\ index'[v] = index[v]
      BY <2>3, <1>1, <1>3 DEF Gray
    <3>2. CASE u = bl
      BY <3>1, <3>2, <2>3, <1>1, <1>2, <1>4, <1>6
    <3>3. CASE u # bl
      <4>1. (u \in Black' <=> u \in Black) /\ index'[u] = index[u]
        BY <3>3, <1>1
      <4> QED BY <4>1, <3>1, <2>3, <1>4, <1>6
    <3> QED BY <3>2, <3>3
  <2> QED BY <2>1, <2>2, <2>3
<1> QED BY <1>5, <1>6

\* So does any step of the walk.
LEMMA RetreatWalks ==
  ASSUME TreeInv, RetreatInv, StartTree \/ Discover \/ Classify \/ Finish
  PROVE  RetreatInv'
<1>1. TreeTypes /\ LabelInv /\ OnwardInv /\ (phase = "tree" => WalkInv)
  BY DEF TreeInv
<1>2. CASE StartTree
  <2>1. graph' = graph /\ phase' = "tree" /\ \A b \in Block : visitcount'[b] = 0
    BY <1>2 DEF StartTree
  <2>2. ASSUME NEW u \in Block, NEW i \in DOMAIN graph.out[u] PROVE ~(i <= 0)
    BY <1>1, GraphOf DEF TreeTypes, TypeOK
  <2> QED BY <2>1, <2>2 DEF RetreatInv
<1>3. CASE Discover
  <2>1. phase = "tree"
    BY <1>3 DEF Discover
  <2>2. /\ state # << >> /\ slot <= Len(graph.out[bl]) /\ Take(tree) /\ tree \in Labels
        /\ dfnum'[child] = Len(preorder) /\ child \notin Discovered
        /\ \A b \in Block : b # child => dfnum'[b] = dfnum[b]
    BY <2>1, <1>1, <1>3, DiscoverChanges
  <2>3. dfnum[bl] < dfnum'[child]
    BY <2>1, <2>2, <1>1, TopOfStack, NumberTypes
  <2>4. tree # back /\ \A b \in Discovered : dfnum'[b] = dfnum[b]
    BY <2>2 DEF tree, back, Discovered
  <2> HIDE DEF tree
  <2> QED BY <2>1, <2>2, <2>3, <2>4, <1>1, RetreatTaken
<1>4. CASE Classify
  <2>1. phase = "tree"
    BY <1>4 DEF Classify
  <2> DEFINE lab == IF index[child] = -1 THEN back
                    ELSE IF dfnum[bl] < dfnum[child] THEN forward ELSE cross
  <2>2. /\ state # << >> /\ slot <= Len(graph.out[bl]) /\ Take(lab) /\ child \in Discovered
        /\ dfnum' = dfnum
    BY <2>1, <1>1, <1>4, ClassifyTaken DEF Classify
  <2>3. lab \in Labels /\ (lab = back <=> child \notin Black)
    BY <2>2 DEF Discovered, Black, Labels, tree, back, forward, cross
  <2> HIDE DEF lab
  <2>4. child \in Gray => dfnum[child] <= dfnum[bl]
    BY <2>1, <2>2, <1>1, TopOfStack, NumberTypes DEF Gray
  <2> QED BY <2>1, <2>2, <2>3, <2>4, <1>1, RetreatTaken DEF Gray
<1>5. CASE Finish
  <2>1. phase = "tree"
    BY <1>5 DEF Finish
  <2> QED BY <2>1, <1>1, <1>5, RetreatFinished
<1> QED BY <1>2, <1>3, <1>4, <1>5

\* At the end of the walk every edge is labelled.
LEMMA RetreatEnds ==
  ASSUME TreeInv, RetreatInv, NEW next, next \notin {"edit", "tree"}, EndTree(next)
  PROVE  RetreatInv' /\ PlacedInv'
<1>1. TreeTypes /\ phase = "tree" /\ WalkInv /\ state = << >>
  BY DEF TreeInv, EndTree
<1>2. /\ graph' = graph /\ edits' = edits /\ phase' = next /\ dfnum' = dfnum /\ index' = index
      /\ preorder' = preorder
  BY DEF EndTree
<1>3. Black = Block /\ Discovered = Block
  BY <1>1, AllFinished
<1>4. \A u \in Block : \A i \in DOMAIN graph.out[u] : i <= visitcount[u]
  <2> TAKE u \in Block
  <2>1. visitcount[u] >= Len(graph.out[u]) /\ visitcount[u] \in Nat
    BY <1>1, <1>3, NumberTypes DEF WalkInv, VisitInv
  <2>2. DOMAIN graph.out[u] = 1 .. Len(graph.out[u]) /\ Len(graph.out[u]) \in Nat
    BY <1>1, GraphOf DEF TreeTypes, TypeOK
  <2> QED BY <2>1, <2>2
<1>5. Black' = Black
  BY <1>2 DEF Black
<1>6. RetreatInv'
  BY <1>1, <1>2, <1>4, <1>5 DEF RetreatInv, Retreats
<1>7. Len(preorder) = Cardinality(Block)
  <2>1. preorder \in Seq(Block) /\ PreorderInv /\ Len(preorder) \in Nat /\ DOMAIN preorder = 1 .. Len(preorder)
    BY <1>1, NumberTypes DEF TreeTypes, TypeOK, WalkInv
  <2>2. IsInjective(preorder)
    <3> SUFFICES ASSUME NEW i \in DOMAIN preorder, NEW j \in DOMAIN preorder, preorder[i] = preorder[j]
                 PROVE  i = j
      BY DEF IsInjective
    <3> QED BY <2>1 DEF PreorderInv
  <2>3. Range(preorder) = Block
    <3>1. Range(preorder) \subseteq Block
      BY <2>1 DEF Range
    <3>2. \A b \in Block : dfnum[b] + 1 \in DOMAIN preorder /\ preorder[dfnum[b] + 1] = b
      BY <2>1, <1>3 DEF PreorderInv
    <3> QED BY <3>1, <3>2 DEF Range
  <2> QED BY <2>1, <2>2, <2>3, Blocks, Enumerated
<1>8. PlacedInv'
  <2>1. PreorderInv /\ preorder \in Seq(Block) /\ DOMAIN preorder = 1 .. Cardinality(Block)
    BY <1>1, <1>7, NumberTypes DEF TreeTypes, TypeOK, WalkInv
  <2>2. \A b \in Block : dfnum[b] \in Nat /\ dfnum[b] < Cardinality(Block) /\ preorder[dfnum[b] + 1] = b
    BY <2>1, <1>1, <1>3, <1>7, NumberTypes DEF PreorderInv
  <2>3. \A n \in 1 .. Cardinality(Block) : preorder[n] \in Block /\ dfnum[preorder[n]] = n - 1
    <3>1. \A n \in DOMAIN preorder : preorder[n] \in Block
      <4>1. preorder \in Seq(Block)
        BY <2>1
      <4> QED BY <4>1
    <3>2. \A n \in DOMAIN preorder : dfnum[preorder[n]] = n - 1
      BY <2>1 DEF PreorderInv
    <3> QED BY <3>1, <3>2, <2>1
  <2> QED BY <2>2, <2>3, <1>2 DEF PlacedInv
<1> QED BY <1>6, <1>8

\* Later steps leave both as they are.
LEMMA RetreatStands ==
  ASSUME RetreatInv, PlacedInv, UNCHANGED <<graph, edits, dfsvars>>,
         phase \notin {"edit", "tree"}
  PROVE  phase' \notin {"edit", "tree"} => RetreatInv' /\ PlacedInv'
<1>1. /\ graph' = graph /\ edits' = edits /\ dfnum' = dfnum /\ index' = index /\ preorder' = preorder
      /\ Black' = Black
  BY DEF dfsvars, Black
<1> QED BY <1>1 DEF RetreatInv, PlacedInv, Retreats
==============================================================================
