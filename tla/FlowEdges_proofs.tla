--------------------------- MODULE FlowEdges_proofs ---------------------------
(***************************************************************************)
(* Whatever sequence of primitives runs, for every set of blocks and of    *)
(* label bits: the edge lists stay paired, no primitive reorders the in    *)
(* edges of a block, and the lists implement a multigraph with labelled    *)
(* edges.                                                                  *)
(***************************************************************************)
EXTENDS FlowEdges, GraphLemmas

\* The pairing is inductive only together with the types: that a reverse index is a
\* position of a list can be followed only where the lists are known to be sequences.
IInv == TypeOK /\ Paired /\ SplicedBlockIsDetached

LEMMA InitIInv == Init => IInv
<1> SUFFICES ASSUME Init PROVE IInv
  OBVIOUS
<1>1. /\ graph.in = [b \in Block |-> << >>]
      /\ graph.out = [b \in Block |-> << >>]
      /\ graph = [in |-> graph.in, out |-> graph.out]
  BY DEF Init, Edgeless
<1>2. graph \in Graph(Block, Flag)
  <2>1. [b \in Block |-> << >>] \in [Block -> Seq(HalfEdge(Block, Flag))]
    BY EmptySeq
  <2> QED BY <2>1, <1>1 DEF Graph
<1>3. Paired
  <2>1. \A b \in Block : DOMAIN graph["in"][b] = {} /\ DOMAIN graph["out"][b] = {}
    BY <1>1
  <2> QED BY <2>1 DEF Paired, Partner, Coupled
<1>4. SplicedBlockIsDetached /\ loop \in Loop
  BY <1>1 DEF Init, Loop, SplicedBlockIsDetached
<1> QED BY <1>2, <1>3, <1>4 DEF IInv, TypeOK

LEMMA NextIInv == IInv /\ [Next]_vars => IInv'
<1> SUFFICES ASSUME IInv, [Next]_vars PROVE IInv'
  OBVIOUS
<1>1. graph \in Graph(Block, Flag) /\ Coupled(Block, graph) /\ loop \in Loop
  BY DEF IInv, TypeOK, Paired, Coupled
<1>2. \A bl, outbl \in Block : Idle # Splicing(bl, outbl) /\ Clearing(bl) # Splicing(bl, outbl)
                               /\ \A x \in Block : Clearing(bl) # Splicing(x, outbl)
  BY DEF Idle, Clearing, Splicing
<1>3. ASSUME graph' \in Graph(Block, Flag), Coupled(Block, graph'), loop' \in Loop, SplicedBlockIsDetached'
      PROVE  IInv'
  BY <1>3 DEF IInv, TypeOK, Paired, Coupled
<1>4. ASSUME loop' = Idle \/ \E bl \in Block : loop' = Clearing(bl)
      PROVE  loop' \in Loop /\ SplicedBlockIsDetached'
  BY <1>2, <1>4 DEF Loop, SplicedBlockIsDetached
<1>5. ASSUME NEW begin \in Block, NEW end \in Block, NEW lab \in Label, AddEdge(begin, end, lab)
      PROVE  IInv'
  BY <1>1, <1>3, <1>4, <1>5, AddInEdge DEF AddEdge, add_edge, Label
<1>6. ASSUME NEW begin \in Block, NEW end \in Block, RemoveEdge(begin, end)
      PROVE  IInv'
  <2> DEFINE slot == get_in_index(graph, end, begin)
  <2>1. slot \in DOMAIN graph.in[end]
    BY <1>1, <1>6, EdgeFound DEF RemoveEdge
  <2>2. graph' = remove_in_edge(graph, end, slot)
    BY <1>6 DEF RemoveEdge, remove_edge
  <2> HIDE DEF slot
  <2> QED BY <2>1, <2>2, <1>1, <1>3, <1>4, <1>6, RemoveInEdge DEF RemoveEdge
<1>7. ASSUME NEW b \in Block, NEW i \in DOMAIN graph.out[b], NEW flags \in Label,
             SetOutEdgeFlag(b, i, flags)
      PROVE  IInv'
  BY <1>1, <1>3, <1>4, <1>7, OutEdgeFlags DEF SetOutEdgeFlag, Label
<1>8. ASSUME NEW b \in Block, NEW i \in DOMAIN graph.out[b], NEW flags \in Label,
             ClearOutEdgeFlag(b, i, flags)
      PROVE  IInv'
  BY <1>1, <1>3, <1>4, <1>8, OutEdgeFlags DEF ClearOutEdgeFlag, Label
<1>9. ASSUME NEW bl \in Block, StartRemoveFromFlow(bl)
      PROVE  IInv'
  BY <1>1, <1>3, <1>4, <1>9 DEF StartRemoveFromFlow
<1>10. ASSUME NEW bl \in Block, RemoveLastOutEdge(bl)
       PROVE  IInv'
  <2>1. CASE graph.out[bl] # << >>
    <3>1. Len(graph.out[bl]) \in DOMAIN graph.out[bl]
      BY <1>1, <2>1, ListTypes, EmptySeq
    <3> QED BY <3>1, <2>1, <1>1, <1>3, <1>4, <1>10, RemoveOutEdge DEF RemoveLastOutEdge
  <2>2. CASE graph.out[bl] = << >>
    BY <2>2, <1>1, <1>3, <1>4, <1>10 DEF RemoveLastOutEdge
  <2> QED BY <2>1, <2>2
<1>11. ASSUME NEW bl \in Block, StartSplice(bl)
       PROVE  IInv'
  <2> DEFINE outbl == graph.out[bl][1].point
  <2>1. 1 \in DOMAIN graph.out[bl] /\ outbl \in Block
    BY <1>1, <1>11, ListTypes, HalfTypes DEF StartSplice
  <2>2. /\ graph' = remove_out_edge(graph, bl, 1)
        /\ loop' = Splicing(bl, outbl)
        /\ Len(graph.in[outbl]) = 1
    BY <1>11 DEF StartSplice
  <2>3. graph' \in Graph(Block, Flag) /\ Coupled(Block, graph') /\ graph'.in[outbl] = << >>
    BY <1>1, <2>1, <2>2, RemoveOutEdge, InListLengths
  <2> HIDE DEF outbl
  <2>4. loop' \in Loop
    BY <2>1, <2>2 DEF Loop
  <2>5. SplicedBlockIsDetached'
    BY <2>2, <2>3 DEF SplicedBlockIsDetached, Splicing
  <2> QED BY <2>3, <2>4, <2>5, <1>3
<1>12. ASSUME NEW bl \in Block, NEW outbl \in Block, MoveFirstOutEdge(bl, outbl)
       PROVE  IInv'
  <2>1. CASE bl # outbl /\ graph.out[outbl] # << >>
    <3>1. 1 \in DOMAIN graph.out[outbl]
      BY <1>1, <2>1, ListTypes, EmptySeq
    <3>2. /\ graph' = move_out_edge(graph, outbl, 1, bl)
          /\ loop' = loop /\ loop = Splicing(bl, outbl)
      BY <2>1, <1>12 DEF MoveFirstOutEdge
    <3>3. graph' \in Graph(Block, Flag) /\ Coupled(Block, graph')
      BY <3>1, <3>2, <1>1, MoveOutEdge
    <3>4. \A x \in Block : graph.in[x] = << >> => graph'.in[x] = << >>
      BY <3>1, <3>2, <1>1, InListLengths
    <3>5. SplicedBlockIsDetached'
      BY <3>2, <3>4 DEF IInv, SplicedBlockIsDetached
    <3> QED BY <3>2, <3>3, <3>5, <1>1, <1>3
  <2>2. CASE ~(bl # outbl /\ graph.out[outbl] # << >>)
    BY <2>2, <1>1, <1>3, <1>4, <1>12 DEF MoveFirstOutEdge
  <2> QED BY <2>1, <2>2
<1>13. CASE UNCHANGED vars
  BY <1>13, <1>1 DEF vars, IInv, TypeOK, Paired, SplicedBlockIsDetached
<1> QED BY <1>5, <1>6, <1>7, <1>8, <1>9, <1>10, <1>11, <1>12, <1>13 DEF Next

\* Type correctness of the edge lists.
THEOREM TypeCorrect == Spec => []TypeOK
<1>1. IInv => TypeOK
  BY DEF IInv
<1> QED BY <1>1, InitIInv, NextIInv, PTL DEF Spec

\* Every reverse index finds its partner, whatever sequence of add_edge, remove_edge,
\* label updates, remove_from_flow and splice_block ran before, in any graph.
THEOREM EdgesStayPaired == Spec => []Paired
<1>1. IInv => Paired
  BY DEF IInv
<1> QED BY <1>1, InitIInv, NextIInv, PTL DEF Spec

\* splice_block never reaches the throw of remove_block.
THEOREM SpliceNeverThrows == Spec => []SplicedBlockIsDetached
<1>1. IInv => SplicedBlockIsDetached
  BY DEF IInv
<1> QED BY <1>1, InitIInv, NextIInv, PTL DEF Spec

(***************************************************************************)
(* The order of the in edges.  Renumbering and relabelling change no       *)
(* source; deleting the half that enters cuts its source out, add_in_edge  *)
(* puts one last, and replace_in_edge writes over one.                     *)
(***************************************************************************)
InLists == [Block -> Seq(HalfEdge(Block, Flag))]

SourcesKept(g, h) == \A b \in Block : SlotsKept(Sources(g, b), Sources(h, b))

\* The sources of a block form a list as long as its in list.
LEMMA SourceList ==
  ASSUME NEW g, g.in \in InLists, NEW b \in Block
  PROVE  /\ Sources(g, b) \in Seq(Block)
         /\ Len(Sources(g, b)) = Len(g.in[b]) /\ Len(g.in[b]) \in Nat
         /\ DOMAIN Sources(g, b) = 1 .. Len(g.in[b]) /\ DOMAIN g.in[b] = 1 .. Len(g.in[b])
         /\ \A i \in 1 .. Len(g.in[b]) : Sources(g, b)[i] = g.in[b][i].point
<1>1. g.in[b] \in Seq(HalfEdge(Block, Flag)) /\ Len(g.in[b]) \in Nat /\ DOMAIN g.in[b] = 1 .. Len(g.in[b])
  BY DEF InLists
<1>2. \A i \in 1 .. Len(g.in[b]) : g.in[b][i].point \in Block
  BY <1>1, HalfTypes
<1>3. Sources(g, b) \in [1 .. Len(g.in[b]) -> Block]
  BY <1>1, <1>2 DEF Sources
<1>4. Sources(g, b) \in Seq(Block) /\ Len(Sources(g, b)) = Len(g.in[b])
  <2> DEFINE s == Sources(g, b)
             n == Len(g.in[b])
  <2> HIDE DEF s, n
  <2>1. n \in Nat /\ s \in [1 .. n -> Block]
    BY <1>1, <1>3 DEF s, n
  <2>2. s \in Seq(Block) /\ Len(s) = n
    BY <2>1, SeqDef, LenProperties
  <2> QED BY <2>2 DEF s, n
<1> QED BY <1>1, <1>3, <1>4 DEF Sources

\* Lists that differ in at most one place keep the slots.
LEMMA OneChanged ==
  ASSUME NEW s, NEW t, NEW k, SameBut(s, t, k)
  PROVE  SlotsKept(s, t)
<1> DEFINE D == {i \in DOMAIN s : s[i] # t[i]}
<1>1. D \subseteq {k}
  BY DEF SameBut
<1> HIDE DEF D
<1>2. IsFiniteSet({k}) /\ Cardinality({k}) = 1
  BY FS_Singleton
<1>3. Cardinality(D) <= 1
  BY <1>1, <1>2, FS_Subset
<1> QED BY <1>3 DEF SlotsKept, SameBut, D

LEMMA NothingChanged ==
  ASSUME NEW s
  PROVE  SlotsKept(s, s)
<1>1. SameBut(s, s, 0)
  BY DEF SameBut
<1> QED BY <1>1, OneChanged

\* Deleting a half that leaves renumbers halves that enter, and moves none of them.
LEMMA RenumberedSources ==
  ASSUME NEW g, g.in \in InLists, NEW b \in Block, NEW this, NEW slot
  PROVE  Sources(half_delete_out_edge(g, this, slot), b) = Sources(g, b)
<1> DEFINE h == half_delete_out_edge(g, this, slot)
<1>1. h.in[b] = [j \in DOMAIN g.in[b] |->
                  IF Follower(g.out[this], slot, b, j)
                  THEN [g.in[b][j] EXCEPT !.rev = @ - 1] ELSE g.in[b][j]]
  BY DEF half_delete_out_edge, Renumbered, InLists
<1>2. \A j \in DOMAIN g.in[b] : g.in[b][j] \in HalfEdge(Block, Flag)
  BY SourceList DEF InLists
<1>3. \A j \in DOMAIN g.in[b] : h.in[b][j].point = g.in[b][j].point
  BY <1>1, <1>2 DEF HalfEdge
<1>4. DOMAIN h.in[b] = DOMAIN g.in[b]
  BY <1>1
<1> HIDE DEF h
<1> QED BY <1>3, <1>4 DEF Sources, h

\* Deleting a half that enters cuts its source out.
LEMMA CutSource ==
  ASSUME NEW g, g.in \in InLists, NEW c \in Block, NEW j \in DOMAIN g.in[c], NEW b \in Block
  PROVE  /\ half_delete_in_edge(g, c, j).in \in InLists
         /\ SlotsKept(Sources(g, b), Sources(half_delete_in_edge(g, c, j), b))
<1> DEFINE h == half_delete_in_edge(g, c, j)
<1>1. h.in = [g.in EXCEPT ![c] = RemoveAt(g.in[c], j)]
  BY DEF half_delete_in_edge
<1> HIDE DEF h
<1>2. g.in[c] \in Seq(HalfEdge(Block, Flag)) /\ j \in 1 .. Len(g.in[c]) /\ Len(g.in[c]) \in Nat
  BY SourceList DEF InLists
<1>3. /\ RemoveAt(g.in[c], j) \in Seq(HalfEdge(Block, Flag))
      /\ Len(RemoveAt(g.in[c], j)) = Len(g.in[c]) - 1
      /\ \A k \in 1 .. Len(g.in[c]) - 1 :
           RemoveAt(g.in[c], j)[k] = IF k < j THEN g.in[c][k] ELSE g.in[c][k + 1]
  BY <1>2, RemoveAtFacts
<1>4. h.in \in InLists
  BY <1>1, <1>3 DEF InLists
<1>5. ASSUME b # c PROVE SlotsKept(Sources(g, b), Sources(h, b))
  <2>1. h.in[b] = g.in[b]
    BY <1>1, <1>5 DEF InLists
  <2>2. Sources(h, b) = Sources(g, b)
    BY <2>1 DEF Sources
  <2> QED BY <2>2, NothingChanged
<1>6. SlotsKept(Sources(g, c), Sources(h, c))
  <2> DEFINE s == Sources(g, c)
             t == Sources(h, c)
  <2>1. h.in[c] = RemoveAt(g.in[c], j)
    BY <1>1 DEF InLists
  <2>2. /\ s \in Seq(Block) /\ Len(s) = Len(g.in[c]) /\ DOMAIN s = 1 .. Len(g.in[c])
        /\ \A k \in 1 .. Len(g.in[c]) : s[k] = g.in[c][k].point
    BY SourceList
  <2>3. /\ t \in Seq(Block) /\ Len(t) = Len(h.in[c]) /\ DOMAIN t = 1 .. Len(h.in[c])
        /\ \A k \in 1 .. Len(h.in[c]) : t[k] = h.in[c][k].point
    BY <1>4, SourceList
  <2> HIDE DEF s, t
  <2> DEFINE r == RemoveAt(s, j)
             n == Len(g.in[c])
  <2>4. /\ r \in Seq(Block) /\ Len(r) = n - 1
        /\ \A k \in 1 .. n - 1 : r[k] = IF k < j THEN s[k] ELSE s[k + 1]
    <3> HIDE DEF r, n
    <3>1. Len(s) = n
      BY <2>2 DEF n
    <3>2. s \in Seq(Block) /\ j \in 1 .. Len(s)
      BY <1>2, <2>2
    <3>3. /\ r \in Seq(Block) /\ Len(r) = Len(s) - 1
          /\ \A k \in 1 .. Len(s) - 1 : r[k] = IF k < j THEN s[k] ELSE s[k + 1]
      BY <3>2, RemoveAtFacts DEF r
    <3> QED BY <3>1, <3>3
  <2> HIDE DEF r
  <2>5. Len(t) = n - 1 /\ \A k \in 1 .. n - 1 : t[k] = r[k]
    <3>1. Len(t) = n - 1 /\ Len(h.in[c]) = n - 1
      BY <1>3, <2>1, <2>3
    <3> SUFFICES ASSUME NEW k \in 1 .. n - 1 PROVE t[k] = r[k]
      BY <3>1
    <3>2. t[k] = h.in[c][k].point
      BY <3>1, <2>3
    <3>3. h.in[c][k] = IF k < j THEN g.in[c][k] ELSE g.in[c][k + 1]
      BY <1>3, <2>1
    <3>4. k \in 1 .. n /\ k + 1 \in 1 .. n
      BY <1>2
    <3>5. s[k] = g.in[c][k].point /\ s[k + 1] = g.in[c][k + 1].point
      BY <3>4, <2>2
    <3> QED BY <3>2, <3>3, <3>5, <2>4
  <2>6. t = r
    BY <2>3, <2>4, <2>5, SeqEqual
  <2>7. SlotsKept(s, t)
    BY <1>2, <2>2, <2>6 DEF SlotsKept, r
  <2> QED BY <2>7 DEF s, t
<1>7. h.in \in InLists /\ SlotsKept(Sources(g, b), Sources(h, b))
  BY <1>4, <1>5, <1>6
<1> QED BY <1>7 DEF h

\* Removing an edge, from either end.
LEMMA RemovedSources ==
  ASSUME NEW g \in Graph(Block, Flag), Coupled(Block, g)
  PROVE  /\ \A b \in Block : \A i \in DOMAIN g.out[b] : SourcesKept(g, remove_out_edge(g, b, i))
         /\ \A c \in Block : \A j \in DOMAIN g.in[c] : SourcesKept(g, remove_in_edge(g, c, j))
<1>0. g.in \in InLists
  BY DEF Graph, InLists
<1>1. ASSUME NEW b \in Block, NEW i \in DOMAIN g.out[b]
      PROVE  SourcesKept(g, remove_out_edge(g, b, i))
  <2> DEFINE c == g.out[b][i].point
             j == g.out[b][i].rev
             g1 == half_delete_out_edge(g, b, i)
  <2>1. c \in Block /\ j \in Nat
    BY <1>1, ListTypes, HalfTypes
  <2>2. remove_out_edge(g, b, i) = half_delete_in_edge(g1, c, j)
    BY DEF remove_out_edge
  <2>3. g1 \in Graph(Block, Flag) /\ Widowed(Block, g1, c, j)
    BY <1>1, <2>1, LoseOut
  <2>4. \A x \in Block : Sources(g1, x) = Sources(g, x)
    BY <1>0, RenumberedSources
  <2> HIDE DEF c, j, g1
  <2>5. g1.in \in InLists /\ j \in DOMAIN g1.in[c]
    BY <2>3 DEF Graph, InLists, Widowed
  <2>6. \A x \in Block : SlotsKept(Sources(g1, x), Sources(half_delete_in_edge(g1, c, j), x))
    BY <2>1, <2>5, CutSource
  <2> QED BY <2>2, <2>4, <2>6 DEF SourcesKept
<1>2. ASSUME NEW c \in Block, NEW j \in DOMAIN g.in[c]
      PROVE  SourcesKept(g, remove_in_edge(g, c, j))
  <2> DEFINE e == g.in[c][j]
             g1 == half_delete_in_edge(g, c, j)
  <2>1. remove_in_edge(g, c, j) = half_delete_out_edge(g1, e.point, e.rev)
    BY DEF remove_in_edge
  <2>2. /\ g1.in \in InLists
        /\ \A x \in Block : SlotsKept(Sources(g, x), Sources(g1, x))
    BY <1>0, <1>2, CutSource
  <2> HIDE DEF e, g1
  <2>3. \A x \in Block : Sources(half_delete_out_edge(g1, e.point, e.rev), x) = Sources(g1, x)
    BY <2>2, RenumberedSources
  <2> QED BY <2>1, <2>2, <2>3 DEF SourcesKept
<1> QED BY <1>1, <1>2

\* A new edge comes last.
LEMMA AddedSources ==
  ASSUME NEW g \in Graph(Block, Flag), NEW c \in Block, NEW b \in Block, NEW lab \in Label
  PROVE  SourcesKept(g, add_in_edge(g, c, b, lab))
<1> DEFINE h == add_in_edge(g, c, b, lab)
           e == blockedge(b, lab, Len(g.out[b]) + 1)
<1>0. g.in \in InLists
  BY DEF Graph, InLists
<1>1. h.in = [g.in EXCEPT ![c] = Append(g.in[c], e)]
  BY DEF add_in_edge
<1>2. e \in HalfEdge(Block, Flag) /\ e.point = b
  BY ListTypes, BlockedgeType DEF Label
<1> HIDE DEF h, e
<1>3. ASSUME NEW x \in Block PROVE SlotsKept(Sources(g, x), Sources(h, x))
  <2>1. CASE x # c
    <3>1. h.in[x] = g.in[x]
      BY <1>0, <1>1, <2>1 DEF InLists
    <3>2. Sources(h, x) = Sources(g, x)
      BY <3>1 DEF Sources
    <3> QED BY <3>2, NothingChanged
  <2>2. CASE x = c
    <3> DEFINE s == Sources(g, c)
               t == Sources(h, c)
               n == Len(g.in[c])
    <3>1. /\ s \in Seq(Block) /\ Len(s) = n /\ n \in Nat
          /\ \A k \in 1 .. n : s[k] = g.in[c][k].point
      BY <1>0, SourceList
    <3>2. /\ h.in \in InLists /\ h.in[c] = Append(g.in[c], e)
      BY <1>0, <1>1, <1>2, AppendFacts DEF InLists
    <3>3. /\ Len(h.in[c]) = n + 1 /\ \A k \in 1 .. n : h.in[c][k] = g.in[c][k]
      BY <1>0, <1>2, <3>2, AppendProperties DEF InLists
    <3>4. /\ t \in Seq(Block) /\ Len(t) = Len(h.in[c])
          /\ \A k \in 1 .. Len(h.in[c]) : t[k] = h.in[c][k].point
      BY <3>2, SourceList
    <3> HIDE DEF s, t, n
    <3>5. \A k \in 1 .. n : t[k] = s[k]
      BY <3>1, <3>3, <3>4
    <3>6. /\ SubSeq(t, 1, n) \in Seq(Block) /\ Len(SubSeq(t, 1, n)) = n
          /\ \A k \in 1 .. n : SubSeq(t, 1, n)[k] = t[k]
      <4>1. /\ n + 1 = Len(t) /\ 1 \in 1 .. Len(t) + 1 /\ n \in 0 .. Len(t)
            /\ \A k \in 1 .. n : t[k] \in Block
        BY <3>1, <3>3, <3>4
      <4> QED BY <4>1, <3>1, <3>4, SubSeqProperties
    <3>7. SubSeq(t, 1, n) = s
      BY <3>1, <3>5, <3>6, SeqEqual
    <3>8. SlotsKept(s, t)
      BY <3>1, <3>3, <3>4, <3>7 DEF SlotsKept
    <3> QED BY <2>2, <3>8 DEF s, t
  <2> QED BY <2>1, <2>2
<1> QED BY <1>3 DEF SourcesKept, h

\* An edge that is moved to another source keeps its place in the in list.
LEMMA ReplacedSource ==
  ASSUME NEW g \in Graph(Block, Flag), Coupled(Block, g), NEW c \in Block, NEW num \in DOMAIN g.in[c], NEW b \in Block
  PROVE  SourcesKept(g, replace_in_edge(g, c, num, b))
<1> DEFINE e == g.in[c][num]
           g1 == half_delete_out_edge(g, e.point, e.rev)
           h == replace_in_edge(g, c, num, b)
           moved == [g1.in[c][num] EXCEPT !.point = b, !.rev = Len(g1.out[b]) + 1]
<1>0. g.in \in InLists
  BY DEF Graph, InLists
<1>1. h.in = [g1.in EXCEPT ![c] = [g1.in[c] EXCEPT ![num] = moved]]
  BY Zenon DEF replace_in_edge
<1>2. \A x \in Block : Sources(g1, x) = Sources(g, x)
  BY <1>0, RenumberedSources
<1>3. g1 \in Graph(Block, Flag) /\ h \in Graph(Block, Flag)
  <2>1. /\ num \in Nat /\ e.point \in Block /\ e.rev \in DOMAIN g.out[e.point]
        /\ g.out[e.point][e.rev] = blockedge(c, e.label, num)
    BY ListTypes, HalfTypes DEF Coupled, Partner
  <2>2. g.out[e.point][e.rev].point = c /\ g.out[e.point][e.rev].rev = num
    BY <2>1, HalfFields
  <2> HIDE DEF e
  <2> QED BY <2>1, <2>2, LoseOut, ReplaceInEdge
<1> HIDE DEF e, g1, h, moved
<1>4. g1.in \in InLists /\ h.in \in InLists
  BY <1>3 DEF Graph, InLists
<1>5. ASSUME NEW x \in Block PROVE SlotsKept(Sources(g, x), Sources(h, x))
  <2>1. CASE x # c
    <3>1. h.in[x] = g1.in[x]
      BY <1>1, <1>4, <2>1 DEF InLists
    <3>2. Sources(h, x) = Sources(g, x)
      BY <3>1, <1>2 DEF Sources
    <3> QED BY <3>2, NothingChanged
  <2>2. CASE x = c
    <3>1. h.in[c] = [g1.in[c] EXCEPT ![num] = moved]
      BY <1>1, <1>4 DEF InLists
    <3>2. /\ Len(h.in[c]) = Len(g1.in[c])
          /\ \A i \in DOMAIN g1.in[c] : i # num => h.in[c][i] = g1.in[c][i]
      BY <3>1, <1>4, SourceList DEF InLists
    <3> DEFINE s == Sources(g1, c)
               t == Sources(h, c)
    <3>3. /\ Len(s) = Len(g1.in[c]) /\ DOMAIN s = 1 .. Len(g1.in[c])
          /\ DOMAIN g1.in[c] = 1 .. Len(g1.in[c])
          /\ \A i \in 1 .. Len(g1.in[c]) : s[i] = g1.in[c][i].point
      BY <1>4, SourceList
    <3>4. /\ Len(t) = Len(h.in[c])
          /\ \A i \in 1 .. Len(h.in[c]) : t[i] = h.in[c][i].point
      BY <1>4, SourceList
    <3> HIDE DEF s, t
    <3>5. SameBut(s, t, num)
      BY <3>2, <3>3, <3>4 DEF SameBut
    <3>6. SlotsKept(Sources(g1, c), Sources(h, c))
      BY <3>5, OneChanged DEF s, t
    <3> QED BY <3>6, <1>2, <2>2
  <2> QED BY <2>1, <2>2
<1> QED BY <1>5 DEF SourcesKept, h

\* A label is not a source.
LEMMA RelabelledSources ==
  ASSUME NEW g \in Graph(Block, Flag), Coupled(Block, g), NEW b \in Block, NEW i \in DOMAIN g.out[b], NEW flags
  PROVE  /\ SourcesKept(g, set_out_edge_flag(g, b, i, flags))
         /\ SourcesKept(g, clear_out_edge_flag(g, b, i, flags))
<1> DEFINE c == g.out[b][i].point
           j == g.out[b][i].rev
<1>0. g.in \in InLists /\ c \in Block /\ j \in DOMAIN g.in[c]
  BY ListTypes, HalfTypes DEF Graph, InLists, Coupled, Partner
<1>1. ASSUME NEW h, NEW lab, h.in = [g.in EXCEPT ![c][j].label = lab]
      PROVE  SourcesKept(g, h)
  <2> HIDE DEF c, j
  <2>1. ASSUME NEW x \in Block PROVE Sources(h, x) = Sources(g, x)
    <3>1. h.in[x] = IF x = c THEN [g.in[c] EXCEPT ![j].label = lab] ELSE g.in[x]
      BY <1>0, <1>1 DEF InLists
    <3>2. \A k \in DOMAIN g.in[x] : g.in[x][k] \in HalfEdge(Block, Flag)
      BY <1>0, SourceList DEF InLists
    <3>3. DOMAIN h.in[x] = DOMAIN g.in[x]
      BY <3>1
    <3>4. \A k \in DOMAIN g.in[x] : h.in[x][k].point = g.in[x][k].point
      BY <1>0, <3>1, <3>2 DEF HalfEdge
    <3> QED BY <3>3, <3>4 DEF Sources
  <2> QED BY <2>1, NothingChanged DEF SourcesKept
<1>2. /\ set_out_edge_flag(g, b, i, flags).in =
           [g.in EXCEPT ![c][j].label = g.in[c][j].label \union flags]
      /\ clear_out_edge_flag(g, b, i, flags).in =
           [g.in EXCEPT ![c][j].label = g.in[c][j].label \ flags]
  BY DEF set_out_edge_flag, clear_out_edge_flag, Relabelled
<1> HIDE DEF c, j
<1> QED BY <1>1, <1>2

\* Whatever primitive runs, and between the iterations of remove_from_flow and
\* splice_block too, an in edge that stays keeps its place before and behind the others:
\* the operands of a MULTIEQUAL go on belonging to the edges they belonged to.
THEOREM PhiSlotsPreserved == Spec => PhiSlotsKept
<1>1. IInv /\ [Next]_vars => [SourcesKept(graph, graph')]_vars
  <2> SUFFICES ASSUME IInv, Next PROVE SourcesKept(graph, graph')
    OBVIOUS
  <2>1. graph \in Graph(Block, Flag) /\ Coupled(Block, graph)
    BY DEF IInv, TypeOK, Paired, Coupled
  <2>2. graph' = graph => SourcesKept(graph, graph')
    BY NothingChanged DEF SourcesKept
  <2>3. ASSUME NEW begin \in Block, NEW end \in Block, NEW lab \in Label, AddEdge(begin, end, lab)
        PROVE  SourcesKept(graph, graph')
    BY <2>1, <2>3, AddedSources DEF AddEdge, add_edge
  <2>4. ASSUME NEW begin \in Block, NEW end \in Block, RemoveEdge(begin, end)
        PROVE  SourcesKept(graph, graph')
    BY <2>1, <2>4, EdgeFound, RemovedSources DEF RemoveEdge, remove_edge
  <2>5. ASSUME NEW begin \in Block, NEW end \in Block, MoveFirstOutEdge(begin, end)
        PROVE  SourcesKept(graph, graph')
    <3>1. CASE begin # end /\ graph.out[end] # << >>
      <4> DEFINE c == graph.out[end][1].point
                 num == graph.out[end][1].rev
      <4>1. 1 \in DOMAIN graph.out[end]
        BY <2>1, <3>1, ListTypes, EmptySeq
      <4>2. c \in Block /\ num \in DOMAIN graph.in[c]
        BY <4>1, <2>1, ListTypes, HalfTypes DEF Coupled, Partner
      <4>3. graph' = replace_in_edge(graph, c, num, begin)
        BY <3>1, <2>5 DEF MoveFirstOutEdge, move_out_edge
      <4> HIDE DEF c, num
      <4> QED BY <4>2, <4>3, <2>1, ReplacedSource
    <3>2. CASE ~(begin # end /\ graph.out[end] # << >>)
      BY <3>2, <2>2, <2>5 DEF MoveFirstOutEdge
    <3> QED BY <3>1, <3>2
  <2>6. ASSUME NEW b \in Block, NEW i \in DOMAIN graph.out[b], NEW flags \in Label,
               SetOutEdgeFlag(b, i, flags) \/ ClearOutEdgeFlag(b, i, flags)
        PROVE  SourcesKept(graph, graph')
    BY <2>1, <2>6, RelabelledSources DEF SetOutEdgeFlag, ClearOutEdgeFlag
  <2>7. ASSUME NEW bl \in Block,
               StartRemoveFromFlow(bl) \/ RemoveLastOutEdge(bl) \/ StartSplice(bl)
        PROVE  SourcesKept(graph, graph')
    <3>1. ASSUME graph.out[bl] # << >>
          PROVE  1 \in DOMAIN graph.out[bl] /\ Len(graph.out[bl]) \in DOMAIN graph.out[bl]
      BY <2>1, <3>1, ListTypes, EmptySeq
    <3>2. Len(graph.out[bl]) = 1 => graph.out[bl] # << >>
      OBVIOUS
    <3> QED BY <3>1, <3>2, <2>1, <2>2, <2>7, RemovedSources
            DEF StartRemoveFromFlow, RemoveLastOutEdge, StartSplice
  <2> QED BY <2>3, <2>4, <2>5, <2>6, <2>7 DEF Next
<1> QED BY <1>1, InitIInv, NextIInv, PTL DEF Spec, PhiSlotsKept, SourcesKept

(***************************************************************************)
(* The multigraph.  What it counts can be read off the out lists alone,    *)
(* reverse indices left aside: Leaving is the list of the targets and      *)
(* labels of a block, and a primitive puts one of them last, cuts one out, *)
(* writes over one, or does the first two one after the other.             *)
(***************************************************************************)
AbstractEdge == [from : Block, to : Block, label : Label]

\* The abstract graph that g stands for.
Counts(g) ==
  [e \in AbstractEdge |->
    Cardinality({i \in DOMAIN g.out[e.from] :
                   g.out[e.from][i].point = e.to /\ g.out[e.from][i].label = e.label})]

Leaving(g, b) == [i \in DOMAIN g.out[b] |-> <<g.out[b][i].point, g.out[b][i].label>>]

\* Out lists whose reverse indices are in the middle of being put right.
LooseHalf == [point : Block, label : Label, rev : Int]
OutLists == [Block -> Seq(LooseHalf)]

\* The edge that the i-th half leaving b stands for.
EdgeAt(g, b, i) == [from |-> b, to |-> g.out[b][i].point, label |-> g.out[b][i].label]

One(P) == IF P THEN 1 ELSE 0

OthersLeave(g, h, b) == \A x \in Block \ {b} : Leaving(h, x) = Leaving(g, x)

LEMMA LooseTypes ==
  ASSUME NEW e \in LooseHalf
  PROVE  e.point \in Block /\ e.label \in Label
  BY DEF LooseHalf

LEMMA LeavingList ==
  ASSUME NEW g, g.out \in OutLists, NEW b \in Block
  PROVE  /\ Leaving(g, b) \in Seq(Block \X Label)
         /\ Len(Leaving(g, b)) = Len(g.out[b]) /\ Len(g.out[b]) \in Nat
         /\ DOMAIN Leaving(g, b) = 1 .. Len(g.out[b]) /\ DOMAIN g.out[b] = 1 .. Len(g.out[b])
         /\ \A i \in 1 .. Len(g.out[b]) :
              /\ g.out[b][i] \in LooseHalf
              /\ Leaving(g, b)[i] = <<g.out[b][i].point, g.out[b][i].label>>
<1>1. g.out[b] \in Seq(LooseHalf) /\ Len(g.out[b]) \in Nat /\ DOMAIN g.out[b] = 1 .. Len(g.out[b])
  BY DEF OutLists
<1>2. \A i \in 1 .. Len(g.out[b]) :
        g.out[b][i] \in LooseHalf /\ g.out[b][i].point \in Block /\ g.out[b][i].label \in Label
  BY <1>1, LooseTypes
<1>3. Leaving(g, b) \in [1 .. Len(g.out[b]) -> Block \X Label]
  BY <1>1, <1>2 DEF Leaving
<1>4. Leaving(g, b) \in Seq(Block \X Label) /\ Len(Leaving(g, b)) = Len(g.out[b])
  <2> DEFINE s == Leaving(g, b)
             n == Len(g.out[b])
             S == Block \X Label
  <2> HIDE DEF s, n, S
  <2>1. n \in Nat /\ s \in [1 .. n -> S]
    BY <1>1, <1>3 DEF s, n, S
  <2>2. s \in Seq(S) /\ Len(s) = n
    BY <2>1, SeqDef, LenProperties
  <2> QED BY <2>2 DEF s, n, S
<1> QED BY <1>1, <1>2, <1>3, <1>4 DEF Leaving

\* Counting edges is counting in the list of the block that they leave.
LEMMA CountsAreOccurrences ==
  ASSUME NEW g, g.out \in OutLists
  PROVE  /\ DOMAIN Counts(g) = AbstractEdge
         /\ \A e \in AbstractEdge :
              /\ Counts(g)[e] = Occurrences(Leaving(g, e.from), <<e.to, e.label>>)
              /\ Counts(g)[e] \in Nat
<1>1. ASSUME NEW e \in AbstractEdge
      PROVE  /\ Counts(g)[e] = Occurrences(Leaving(g, e.from), <<e.to, e.label>>)
             /\ Counts(g)[e] \in Nat
  <2> DEFINE P == {i \in DOMAIN g.out[e.from] :
                     g.out[e.from][i].point = e.to /\ g.out[e.from][i].label = e.label}
             s == Leaving(g, e.from)
             Q == {i \in DOMAIN s : s[i] = <<e.to, e.label>>}
  <2>1. e.from \in Block
    BY DEF AbstractEdge
  <2>2. P = Q
    <3>1. /\ DOMAIN s = DOMAIN g.out[e.from]
          /\ \A i \in DOMAIN s : s[i] = <<g.out[e.from][i].point, g.out[e.from][i].label>>
      BY DEF Leaving
    <3>2. \A i \in DOMAIN s : s[i] = <<e.to, e.label>> <=>
            g.out[e.from][i].point = e.to /\ g.out[e.from][i].label = e.label
      BY <3>1
    <3> QED BY <3>1, <3>2
  <2>3. Counts(g)[e] = Cardinality(P)
    BY DEF Counts
  <2>4. Occurrences(s, <<e.to, e.label>>) = Cardinality(Q)
    BY DEF Occurrences
  <2>5. s \in Seq(Block \X Label)
    BY <2>1, LeavingList
  <2> HIDE DEF P, Q, s
  <2>6. Occurrences(s, <<e.to, e.label>>) \in Nat
    BY <2>5, PlacesFinite
  <2> QED BY <2>2, <2>3, <2>4, <2>6 DEF s
<1>2. DOMAIN Counts(g) = AbstractEdge
  BY DEF Counts
<1> QED BY <1>1, <1>2

\* An edge is known by its source and by its entry in the list of its source.
LEMMA EdgeKnown ==
  ASSUME NEW e \in AbstractEdge, NEW b, NEW c, NEW lab
  PROVE  e = [from |-> b, to |-> c, label |-> lab] <=> e.from = b /\ <<e.to, e.label>> = <<c, lab>>
<1>1. e = [from |-> e.from, to |-> e.to, label |-> e.label]
  BY DEF AbstractEdge
<1> QED BY <1>1

\* One more edge from b to c.
LEMMA CountsGain ==
  ASSUME NEW g, NEW h, g.out \in OutLists, h.out \in OutLists,
         NEW b \in Block, NEW c \in Block, NEW lab \in Label,
         OthersLeave(g, h, b), Leaving(h, b) = Append(Leaving(g, b), <<c, lab>>)
  PROVE  \A e \in AbstractEdge :
           Counts(h)[e] = Counts(g)[e] + One(e = [from |-> b, to |-> c, label |-> lab])
<1> TAKE e \in AbstractEdge
<1> DEFINE x == <<e.to, e.label>>
<1>1. /\ Counts(g)[e] = Occurrences(Leaving(g, e.from), x)
      /\ Counts(h)[e] = Occurrences(Leaving(h, e.from), x)
      /\ Counts(g)[e] \in Nat /\ e.from \in Block
  <2>1. e.from \in Block
    BY DEF AbstractEdge
  <2> HIDE DEF x
  <2>2. x = <<e.to, e.label>>
    BY DEF x
  <2> QED BY <2>1, <2>2, CountsAreOccurrences
<1>2. e = [from |-> b, to |-> c, label |-> lab] <=> e.from = b /\ x = <<c, lab>>
  <2>1. e = [from |-> e.from, to |-> e.to, label |-> e.label]
    BY DEF AbstractEdge
  <2> QED BY <2>1
<1> HIDE DEF x
<1>3. CASE e.from # b
  BY <1>1, <1>2, <1>3 DEF OthersLeave, One
<1>4. CASE e.from = b
  <2>1. Leaving(g, b) \in Seq(Block \X Label) /\ <<c, lab>> \in Block \X Label
    BY LeavingList
  <2> DEFINE s == Leaving(g, b)
             y == <<c, lab>>
             S == Block \X Label
  <2> HIDE DEF s, y, S
  <2>2. s \in Seq(S) /\ y \in S
    BY <2>1 DEF s, y, S
  <2>3. Occurrences(Append(s, y), x) = Occurrences(s, x) + (IF x = y THEN 1 ELSE 0)
    BY <2>2, CountAppended
  <2> QED BY <2>3, <1>1, <1>2, <1>4 DEF One, s, y
<1> QED BY <1>3, <1>4

\* The i-th edge that leaves b is gone.
LEMMA CountsLose ==
  ASSUME NEW g, NEW h, g.out \in OutLists, h.out \in OutLists,
         NEW b \in Block, NEW i \in DOMAIN g.out[b],
         OthersLeave(g, h, b), Leaving(h, b) = RemoveAt(Leaving(g, b), i)
  PROVE  /\ EdgeAt(g, b, i) \in AbstractEdge /\ Counts(g)[EdgeAt(g, b, i)] > 0
         /\ \A e \in AbstractEdge : Counts(h)[e] = Counts(g)[e] - One(e = EdgeAt(g, b, i))
<1> DEFINE s == Leaving(g, b)
           S == Block \X Label
           gone == EdgeAt(g, b, i)
<1>1. /\ s \in Seq(S) /\ i \in DOMAIN s /\ i \in 1 .. Len(s)
      /\ s[i] = <<g.out[b][i].point, g.out[b][i].label>>
      /\ g.out[b][i].point \in Block /\ g.out[b][i].label \in Label
  BY LeavingList, LooseTypes
<1>2. /\ gone \in AbstractEdge /\ gone.from = b /\ <<gone.to, gone.label>> = s[i]
  BY <1>1 DEF EdgeAt, AbstractEdge
<1>3. \A e \in AbstractEdge : e = gone <=> e.from = b /\ <<e.to, e.label>> = s[i]
  <2> TAKE e \in AbstractEdge
  <2>1. e = EdgeAt(g, b, i) <=>
          e.from = b /\ <<e.to, e.label>> = <<g.out[b][i].point, g.out[b][i].label>>
    BY EdgeKnown DEF EdgeAt
  <2> QED BY <2>1, <1>1
<1> HIDE DEF s, S, gone
<1>4. Counts(g)[gone] = Occurrences(s, s[i]) /\ Counts(g)[gone] \in Nat
  BY <1>2, CountsAreOccurrences DEF s
<1>5. Occurrences(s, s[i]) # 0
  BY <1>1, PlacesFinite
<1>6. ASSUME NEW e \in AbstractEdge PROVE Counts(h)[e] = Counts(g)[e] - One(e = gone)
  <2> DEFINE x == <<e.to, e.label>>
  <2>1. /\ Counts(g)[e] = Occurrences(Leaving(g, e.from), x)
        /\ Counts(h)[e] = Occurrences(Leaving(h, e.from), x)
        /\ Counts(g)[e] \in Nat /\ e.from \in Block
    BY CountsAreOccurrences DEF AbstractEdge
  <2>2. e = gone <=> e.from = b /\ x = s[i]
    BY <1>3
  <2> HIDE DEF x
  <2>3. CASE e.from # b
    BY <2>1, <2>2, <2>3 DEF OthersLeave, One
  <2>4. CASE e.from = b
    <3>1. Occurrences(RemoveAt(s, i), x) = Occurrences(s, x) - (IF x = s[i] THEN 1 ELSE 0)
      BY <1>1, CountRemoved
    <3> QED BY <3>1, <2>1, <2>2, <2>4 DEF One, s
  <2> QED BY <2>3, <2>4
<1> QED BY <1>2, <1>4, <1>5, <1>6 DEF gone

\* The i-th edge that leaves b has another label.
LEMMA CountsRelabel ==
  ASSUME NEW g, NEW h, g.out \in OutLists, h.out \in OutLists,
         NEW b \in Block, NEW i \in DOMAIN g.out[b], NEW lab \in Label,
         OthersLeave(g, h, b), SameBut(Leaving(g, b), Leaving(h, b), i),
         Leaving(h, b)[i] = <<g.out[b][i].point, lab>>
  PROVE  /\ EdgeAt(g, b, i) \in AbstractEdge /\ Counts(g)[EdgeAt(g, b, i)] > 0
         /\ \A e \in AbstractEdge :
              Counts(h)[e] = Counts(g)[e] - One(e = EdgeAt(g, b, i))
                             + One(e = [EdgeAt(g, b, i) EXCEPT !.label = lab])
<1> DEFINE s == Leaving(g, b)
           t == Leaving(h, b)
           S == Block \X Label
           old == EdgeAt(g, b, i)
           new == [EdgeAt(g, b, i) EXCEPT !.label = lab]
<1>1. /\ s \in Seq(S) /\ i \in DOMAIN s /\ i \in 1 .. Len(s)
      /\ s[i] = <<g.out[b][i].point, g.out[b][i].label>>
      /\ g.out[b][i].point \in Block /\ g.out[b][i].label \in Label
      /\ t \in Seq(S)
  BY LeavingList, LooseTypes
<1>2. SameBut(s, t, i)
  OBVIOUS
<1>3. t[i] = <<g.out[b][i].point, lab>>
  OBVIOUS
<1>4. /\ old \in AbstractEdge /\ old.from = b /\ <<old.to, old.label>> = s[i]
  BY <1>1 DEF EdgeAt, AbstractEdge
<1>9. new = [from |-> b, to |-> g.out[b][i].point, label |-> lab]
  BY DEF EdgeAt
<1>5. \A e \in AbstractEdge : /\ e = old <=> e.from = b /\ <<e.to, e.label>> = s[i]
                              /\ e = new <=> e.from = b /\ <<e.to, e.label>> = t[i]
  <2> TAKE e \in AbstractEdge
  <2>1. e = EdgeAt(g, b, i) <=>
          e.from = b /\ <<e.to, e.label>> = <<g.out[b][i].point, g.out[b][i].label>>
    BY EdgeKnown DEF EdgeAt
  <2>2. e = [from |-> b, to |-> g.out[b][i].point, label |-> lab] <=>
          e.from = b /\ <<e.to, e.label>> = <<g.out[b][i].point, lab>>
    BY EdgeKnown
  <2> QED BY <2>1, <2>2, <1>1, <1>3, <1>9
<1> HIDE DEF s, t, S, old, new
<1>6. Counts(g)[old] = Occurrences(s, s[i]) /\ Counts(g)[old] \in Nat
  BY <1>4, CountsAreOccurrences DEF s
<1>7. Occurrences(s, s[i]) # 0
  BY <1>1, PlacesFinite
<1>8. ASSUME NEW e \in AbstractEdge
      PROVE  Counts(h)[e] = Counts(g)[e] - One(e = old) + One(e = new)
  <2> DEFINE x == <<e.to, e.label>>
  <2>1. /\ Counts(g)[e] = Occurrences(Leaving(g, e.from), x)
        /\ Counts(h)[e] = Occurrences(Leaving(h, e.from), x)
        /\ Counts(g)[e] \in Nat /\ e.from \in Block
    BY CountsAreOccurrences DEF AbstractEdge
  <2>2. /\ e = old <=> e.from = b /\ x = s[i]
        /\ e = new <=> e.from = b /\ x = t[i]
    BY <1>5
  <2> HIDE DEF x
  <2>3. CASE e.from # b
    BY <2>1, <2>2, <2>3 DEF OthersLeave, One
  <2>4. CASE e.from = b
    <3>1. s \in Seq(S) /\ t \in Seq(S) /\ i \in 1 .. Len(s)
      BY <1>1
    <3>2. Occurrences(t, x) = Occurrences(s, x) - (IF x = s[i] THEN 1 ELSE 0)
                                                + (IF x = t[i] THEN 1 ELSE 0)
      BY <3>1, <1>2, CountWritten
    <3> QED BY <3>2, <2>1, <2>2, <2>4 DEF One, s, t
  <2> QED BY <2>3, <2>4
<1> QED BY <1>4, <1>6, <1>7, <1>8 DEF old, new

(***************************************************************************)
(* What the primitives do to the out lists.                                *)
(***************************************************************************)

\* Deleting a half that enters renumbers halves that leave, and changes nothing else.
LEMMA RenumberedLeaving ==
  ASSUME NEW g, g.out \in OutLists, NEW b \in Block, NEW this, NEW slot
  PROVE  /\ Leaving(half_delete_in_edge(g, this, slot), b) = Leaving(g, b)
         /\ half_delete_in_edge(g, this, slot).out[b] \in Seq(LooseHalf)
<1> DEFINE h == half_delete_in_edge(g, this, slot)
<1>1. h.out[b] = [j \in DOMAIN g.out[b] |->
                   IF Follower(g.in[this], slot, b, j)
                   THEN [g.out[b][j] EXCEPT !.rev = @ - 1] ELSE g.out[b][j]]
  BY DEF half_delete_in_edge, Renumbered, OutLists
<1>2. \A j \in DOMAIN g.out[b] : g.out[b][j] \in LooseHalf
  BY LeavingList DEF OutLists
<1>3. \A j \in DOMAIN g.out[b] :
        h.out[b][j].point = g.out[b][j].point /\ h.out[b][j].label = g.out[b][j].label
  BY <1>1, <1>2 DEF LooseHalf
<1>4. DOMAIN h.out[b] = DOMAIN g.out[b]
  BY <1>1
<1>5. h.out[b] \in Seq(LooseHalf)
  <2>1. DOMAIN g.out[b] = 1 .. Len(g.out[b]) /\ Len(g.out[b]) \in Nat
    BY LeavingList
  <2>2. \A j \in DOMAIN g.out[b] : h.out[b][j] \in LooseHalf
    BY <1>1, <1>2 DEF LooseHalf
  <2> DEFINE o == h.out[b]
             n == Len(g.out[b])
  <2>3. o \in [1 .. n -> LooseHalf] /\ n \in Nat
    BY <1>1, <2>1, <2>2
  <2> HIDE DEF h, o, n
  <2>4. o \in Seq(LooseHalf)
    BY <2>3, SeqDef
  <2> QED BY <2>4 DEF o
<1> HIDE DEF h
<1>6. Leaving(h, b) = Leaving(g, b)
  BY <1>3, <1>4 DEF Leaving
<1> QED BY <1>5, <1>6 DEF h

LEMMA RenumberedOutLists ==
  ASSUME NEW g, g.out \in OutLists, NEW this, NEW slot
  PROVE  half_delete_in_edge(g, this, slot).out \in OutLists
<1> DEFINE h == half_delete_in_edge(g, this, slot)
<1>1. \A b \in Block : h.out[b] \in Seq(LooseHalf)
  BY RenumberedLeaving
<1>2. h.out = [b \in Block |-> h.out[b]]
  BY DEF half_delete_in_edge, Renumbered, OutLists
<1> HIDE DEF h
<1>3. h.out \in OutLists
  BY <1>1, <1>2 DEF OutLists
<1> QED BY <1>3 DEF h

\* Deleting a half that leaves cuts it out.
LEMMA CutLeaving ==
  ASSUME NEW g, g.out \in OutLists, NEW b \in Block, NEW i \in DOMAIN g.out[b]
  PROVE  /\ half_delete_out_edge(g, b, i).out \in OutLists
         /\ OthersLeave(g, half_delete_out_edge(g, b, i), b)
         /\ Leaving(half_delete_out_edge(g, b, i), b) = RemoveAt(Leaving(g, b), i)
<1> DEFINE h == half_delete_out_edge(g, b, i)
           o == g.out[b]
           n == Len(g.out[b])
<1>1. h.out = [g.out EXCEPT ![b] = RemoveAt(o, i)]
  BY DEF half_delete_out_edge
<1> HIDE DEF h
<1>2. o \in Seq(LooseHalf) /\ i \in 1 .. Len(o) /\ n \in Nat /\ n = Len(o)
  BY LeavingList DEF OutLists
<1>3. /\ RemoveAt(o, i) \in Seq(LooseHalf)
      /\ Len(RemoveAt(o, i)) = Len(o) - 1
      /\ \A k \in 1 .. Len(o) - 1 : RemoveAt(o, i)[k] = IF k < i THEN o[k] ELSE o[k + 1]
  BY <1>2, RemoveAtFacts
<1>4. h.out \in OutLists /\ h.out[b] = RemoveAt(o, i)
  BY <1>1, <1>3 DEF OutLists
<1>5. OthersLeave(g, h, b)
  BY <1>1 DEF OthersLeave, Leaving, OutLists
<1>6. Leaving(h, b) = RemoveAt(Leaving(g, b), i)
  <2> DEFINE s == Leaving(g, b)
             t == Leaving(h, b)
             r == RemoveAt(s, i)
             S == Block \X Label
             pair(e) == <<e.point, e.label>>
  <2>1. /\ s \in Seq(S) /\ Len(s) = n /\ \A k \in 1 .. n : s[k] = pair(o[k])
    BY LeavingList
  <2>2. /\ t \in Seq(S) /\ Len(t) = Len(h.out[b])
        /\ \A k \in 1 .. Len(h.out[b]) : t[k] = pair(h.out[b][k])
    BY <1>4, LeavingList
  <2> HIDE DEF s, t, S, o, n, pair
  <2>3. /\ r \in Seq(S) /\ Len(r) = n - 1
        /\ \A k \in 1 .. n - 1 : r[k] = IF k < i THEN s[k] ELSE s[k + 1]
    <3>1. i \in 1 .. Len(s)
      BY <1>2, <2>1
    <3>2. /\ r \in Seq(S) /\ Len(r) = Len(s) - 1
          /\ \A k \in 1 .. Len(s) - 1 : r[k] = IF k < i THEN s[k] ELSE s[k + 1]
      BY <2>1, <3>1, RemoveAtFacts
    <3> QED BY <2>1, <3>2
  <2> HIDE DEF r
  <2>4. Len(t) = n - 1 /\ \A k \in 1 .. n - 1 : t[k] = r[k]
    <3>1. Len(t) = n - 1 /\ Len(h.out[b]) = n - 1
      BY <1>2, <1>3, <1>4, <2>2
    <3> SUFFICES ASSUME NEW k \in 1 .. n - 1 PROVE t[k] = r[k]
      BY <3>1
    <3>2. t[k] = pair(h.out[b][k])
      BY <3>1, <2>2
    <3>3. h.out[b][k] = IF k < i THEN o[k] ELSE o[k + 1]
      BY <1>2, <1>3, <1>4
    <3>4. k \in 1 .. n /\ k + 1 \in 1 .. n
      BY <1>2
    <3>5. s[k] = pair(o[k]) /\ s[k + 1] = pair(o[k + 1])
      BY <3>4, <2>1
    <3> QED BY <3>2, <3>3, <3>5, <2>3
  <2>5. t = r
    BY <2>2, <2>3, <2>4, SeqEqual
  <2> QED BY <2>5 DEF s, t, r
<1> QED BY <1>4, <1>5, <1>6 DEF h

\* A half put last.
PutLast(g, h, b, x) == h.out = [g.out EXCEPT ![b] = Append(g.out[b], x)]

LEMMA AppendedLeaving ==
  ASSUME NEW g, g.out \in OutLists, NEW h, NEW b \in Block, NEW c \in Block, NEW lab \in Label,
         NEW n \in Nat \ {0}, PutLast(g, h, b, blockedge(c, lab, n))
  PROVE  /\ h.out \in OutLists
         /\ OthersLeave(g, h, b)
         /\ Leaving(h, b) = Append(Leaving(g, b), <<c, lab>>)
<1> DEFINE o == g.out[b]
           x == blockedge(c, lab, n)
           m == Len(g.out[b])
           S == Block \X Label
           s == Leaving(g, b)
           t == Leaving(h, b)
           y == <<c, lab>>
           pair(e) == <<e.point, e.label>>
<1>1. x \in LooseHalf /\ pair(x) = y
  BY DEF blockedge, LooseHalf
<1>2. o \in Seq(LooseHalf) /\ m \in Nat /\ m = Len(o)
  BY DEF OutLists
<1>3. h.out = [g.out EXCEPT ![b] = Append(o, x)]
  BY DEF PutLast
<1>4. /\ s \in Seq(S) /\ Len(s) = m /\ \A k \in 1 .. m : s[k] = pair(o[k])
  BY LeavingList
<1>5. y \in S
  OBVIOUS
<1> HIDE DEF x
<1>6. /\ Append(o, x) \in Seq(LooseHalf) /\ Len(Append(o, x)) = m + 1
      /\ Append(o, x)[m + 1] = x /\ \A k \in 1 .. m : Append(o, x)[k] = o[k]
  BY <1>1, <1>2, AppendProperties
<1>7. h.out \in OutLists /\ h.out[b] = Append(o, x)
  BY <1>3, <1>6 DEF OutLists
<1>8. OthersLeave(g, h, b)
  BY <1>3 DEF OthersLeave, Leaving, OutLists
<1>9. /\ t \in Seq(S) /\ Len(t) = Len(h.out[b])
      /\ \A k \in 1 .. Len(h.out[b]) : t[k] = pair(h.out[b][k])
  BY <1>7, LeavingList
<1> HIDE DEF o, m, S, s, t, y, pair
<1>10. /\ Append(s, y) \in Seq(S) /\ Len(Append(s, y)) = m + 1
       /\ Append(s, y)[m + 1] = y /\ \A k \in 1 .. m : Append(s, y)[k] = s[k]
  BY <1>4, <1>5, AppendProperties
<1>11. Len(t) = m + 1 /\ \A k \in 1 .. m + 1 : t[k] = Append(s, y)[k]
  <2>1. Len(t) = m + 1 /\ Len(h.out[b]) = m + 1
    BY <1>6, <1>7, <1>9
  <2> SUFFICES ASSUME NEW k \in 1 .. m + 1 PROVE t[k] = Append(s, y)[k]
    BY <2>1
  <2>2. t[k] = pair(h.out[b][k])
    BY <2>1, <1>9
  <2>3. CASE k = m + 1
    BY <2>2, <2>3, <1>1, <1>6, <1>7, <1>10
  <2>4. CASE k \in 1 .. m
    <3>1. Append(s, y)[k] = s[k] /\ s[k] = pair(o[k])
      BY <2>4, <1>4, <1>10
    <3>2. h.out[b][k] = o[k]
      BY <2>4, <1>6, <1>7
    <3> QED BY <3>1, <3>2, <2>2
  <2>5. m \in Nat
    BY <1>2
  <2>6. k = m + 1 \/ k \in 1 .. m
    BY <2>5
  <2> QED BY <2>3, <2>4, <2>6
<1>12. t = Append(s, y)
  BY <1>9, <1>10, <1>11, SeqEqual
<1> QED BY <1>7, <1>8, <1>12 DEF s, t, y

(***************************************************************************)
(* The primitives, as steps of the abstract graph.                         *)
(***************************************************************************)

Tally == [AbstractEdge -> Nat]

\* The steps of MultiGraph, between two tallies.
Grows(E, F, e)   == F = [E EXCEPT ![e] = @ + 1]
Shrinks(E, F, e) == E[e] > 0 /\ F = [E EXCEPT ![e] = @ - 1]
Turns(E, F, e, n) ==
  E[e] > 0 /\ F = IF e = n THEN E ELSE [E EXCEPT ![e] = @ - 1, ![n] = @ + 1]

LEMMA GrowsBy ==
  ASSUME NEW E \in Tally, NEW F \in Tally, NEW e \in AbstractEdge,
         \A x \in AbstractEdge : F[x] = E[x] + One(x = e)
  PROVE  Grows(E, F, e)
<1>1. \A x \in AbstractEdge : F[x] = IF x = e THEN E[e] + 1 ELSE E[x]
  BY DEF One, Tally
<1> QED BY <1>1 DEF Grows, Tally

LEMMA ShrinksBy ==
  ASSUME NEW E \in Tally, NEW F \in Tally, NEW e \in AbstractEdge, E[e] > 0,
         \A x \in AbstractEdge : F[x] = E[x] - One(x = e)
  PROVE  Shrinks(E, F, e)
<1>1. \A x \in AbstractEdge : F[x] = IF x = e THEN E[e] - 1 ELSE E[x]
  BY DEF One, Tally
<1> QED BY <1>1 DEF Shrinks, Tally

LEMMA TurnsBy ==
  ASSUME NEW E \in Tally, NEW F \in Tally,
         NEW e \in AbstractEdge, NEW n \in AbstractEdge, E[e] > 0,
         \A x \in AbstractEdge : F[x] = E[x] - One(x = e) + One(x = n)
  PROVE  Turns(E, F, e, n)
<1>1. CASE e = n
  <2>1. \A x \in AbstractEdge : F[x] = E[x]
    BY <1>1 DEF One, Tally
  <2> QED BY <2>1, <1>1 DEF Turns, Tally
<1>2. CASE e # n
  <2>1. \A x \in AbstractEdge :
          F[x] = IF x = e THEN E[e] - 1 ELSE IF x = n THEN E[n] + 1 ELSE E[x]
    BY <1>2 DEF One, Tally
  <2>2. F = [E EXCEPT ![e] = @ - 1, ![n] = @ + 1]
    BY <2>1, <1>2 DEF Tally
  <2> QED BY <2>2, <1>2 DEF Turns
<1> QED BY <1>1, <1>2

LEMMA CountsTally ==
  ASSUME NEW g, g.out \in OutLists
  PROVE  Counts(g) \in Tally
<1>1. \A e \in AbstractEdge : Counts(g)[e] \in Nat
  BY CountsAreOccurrences
<1> QED BY <1>1 DEF Counts, Tally

LEMMA GraphLists ==
  ASSUME NEW g \in Graph(Block, Flag)
  PROVE  g.out \in OutLists
<1>1. HalfEdge(Block, Flag) \subseteq LooseHalf
  BY DEF HalfEdge, LooseHalf, Label
<1>2. \A s \in Seq(HalfEdge(Block, Flag)) : s \in Seq(LooseHalf)
  <2> TAKE s \in Seq(HalfEdge(Block, Flag))
  <2>1. s \in [1 .. Len(s) -> LooseHalf] /\ Len(s) \in Nat
    BY <1>1
  <2> DEFINE n == Len(s)
  <2>2. n \in Nat /\ s \in [1 .. n -> LooseHalf]
    BY <2>1
  <2> HIDE DEF n
  <2> QED BY <2>2, SeqDef
<1> QED BY <1>2 DEF Graph, OutLists

\* add_edge adds one edge.
LEMMA AddCounts ==
  ASSUME NEW g \in Graph(Block, Flag), NEW c \in Block, NEW b \in Block, NEW lab \in Label
  PROVE  /\ [from |-> b, to |-> c, label |-> lab] \in AbstractEdge
         /\ Grows(Counts(g), Counts(add_in_edge(g, c, b, lab)), [from |-> b, to |-> c, label |-> lab])
<1> DEFINE h == add_in_edge(g, c, b, lab)
           n == Len(g.in[c]) + 1
           new == [from |-> b, to |-> c, label |-> lab]
<1>1. n \in Nat \ {0} /\ g.out \in OutLists
  BY ListTypes, GraphLists
<1>2. PutLast(g, h, b, blockedge(c, lab, n))
  BY DEF add_in_edge, PutLast
<1>3. new \in AbstractEdge
  BY DEF AbstractEdge
<1> HIDE DEF h, n
<1>4. /\ h.out \in OutLists /\ OthersLeave(g, h, b)
      /\ Leaving(h, b) = Append(Leaving(g, b), <<c, lab>>)
  BY <1>1, <1>2, AppendedLeaving
<1>5. \A e \in AbstractEdge : Counts(h)[e] = Counts(g)[e] + One(e = new)
  BY <1>1, <1>4, CountsGain
<1> HIDE DEF new
<1>6. Grows(Counts(g), Counts(h), new)
  BY <1>1, <1>3, <1>4, <1>5, CountsTally, GrowsBy
<1> QED BY <1>3, <1>6 DEF h, new

\* Removing an edge from either end removes one edge.
LEMMA RemoveOutCounts ==
  ASSUME NEW g \in Graph(Block, Flag), NEW b \in Block, NEW i \in DOMAIN g.out[b]
  PROVE  /\ EdgeAt(g, b, i) \in AbstractEdge
         /\ Shrinks(Counts(g), Counts(remove_out_edge(g, b, i)), EdgeAt(g, b, i))
<1> DEFINE c == g.out[b][i].point
           j == g.out[b][i].rev
           g1 == half_delete_out_edge(g, b, i)
           h == half_delete_in_edge(g1, c, j)
<1>1. remove_out_edge(g, b, i) = h
  BY DEF remove_out_edge
<1>2. g.out \in OutLists
  BY GraphLists
<1>3. /\ g1.out \in OutLists /\ OthersLeave(g, g1, b)
      /\ Leaving(g1, b) = RemoveAt(Leaving(g, b), i)
  BY <1>2, CutLeaving
<1> HIDE DEF c, j, g1
<1>4. \A x \in Block : Leaving(h, x) = Leaving(g1, x)
  BY <1>3, RenumberedLeaving
<1>5. h.out \in OutLists
  BY <1>3, RenumberedOutLists
<1> HIDE DEF h
<1>6. OthersLeave(g, h, b) /\ Leaving(h, b) = RemoveAt(Leaving(g, b), i)
  BY <1>3, <1>4 DEF OthersLeave
<1>7. /\ EdgeAt(g, b, i) \in AbstractEdge /\ Counts(g)[EdgeAt(g, b, i)] > 0
      /\ \A e \in AbstractEdge : Counts(h)[e] = Counts(g)[e] - One(e = EdgeAt(g, b, i))
  BY <1>2, <1>5, <1>6, CountsLose
<1>8. Shrinks(Counts(g), Counts(h), EdgeAt(g, b, i))
  BY <1>2, <1>5, <1>7, CountsTally, ShrinksBy
<1> QED BY <1>1, <1>7, <1>8

LEMMA RemoveInCounts ==
  ASSUME NEW g \in Graph(Block, Flag), Coupled(Block, g), NEW c \in Block, NEW j \in DOMAIN g.in[c]
  PROVE  \E b \in Block : \E i \in DOMAIN g.out[b] :
           /\ EdgeAt(g, b, i) \in AbstractEdge
           /\ Shrinks(Counts(g), Counts(remove_in_edge(g, c, j)), EdgeAt(g, b, i))
<1> DEFINE b == g.in[c][j].point
           i == g.in[c][j].rev
           g1 == half_delete_in_edge(g, c, j)
           h == half_delete_out_edge(g1, b, i)
<1>1. b \in Block /\ i \in DOMAIN g.out[b]
  BY ListTypes, HalfTypes DEF Coupled, Partner
<1>2. remove_in_edge(g, c, j) = h
  BY DEF remove_in_edge
<1>3. g.out \in OutLists
  BY GraphLists
<1>4. g1.out \in OutLists /\ \A x \in Block : Leaving(g1, x) = Leaving(g, x)
  BY <1>3, RenumberedLeaving, RenumberedOutLists
<1> HIDE DEF b, i, g1
<1>5. i \in DOMAIN g1.out[b]
  <2>1. /\ DOMAIN Leaving(g, b) = DOMAIN g.out[b]
        /\ DOMAIN Leaving(g1, b) = DOMAIN g1.out[b]
    BY DEF Leaving
  <2> QED BY <2>1, <1>1, <1>4
<1>6. /\ h.out \in OutLists /\ OthersLeave(g1, h, b)
      /\ Leaving(h, b) = RemoveAt(Leaving(g1, b), i)
  BY <1>1, <1>4, <1>5, CutLeaving
<1> HIDE DEF h
<1>7. OthersLeave(g, h, b) /\ Leaving(h, b) = RemoveAt(Leaving(g, b), i)
  BY <1>1, <1>4, <1>6 DEF OthersLeave
<1>8. /\ EdgeAt(g, b, i) \in AbstractEdge /\ Counts(g)[EdgeAt(g, b, i)] > 0
      /\ \A e \in AbstractEdge : Counts(h)[e] = Counts(g)[e] - One(e = EdgeAt(g, b, i))
  BY <1>1, <1>3, <1>6, <1>7, CountsLose
<1>9. Shrinks(Counts(g), Counts(h), EdgeAt(g, b, i))
  BY <1>3, <1>6, <1>8, CountsTally, ShrinksBy
<1> QED BY <1>1, <1>2, <1>8, <1>9

\* An edge that is moved to another source keeps its target and its label.
LEMMA MoveCounts ==
  ASSUME NEW g \in Graph(Block, Flag), Coupled(Block, g), NEW old \in Block, NEW i \in DOMAIN g.out[old], NEW b \in Block
  PROVE  /\ EdgeAt(g, old, i) \in AbstractEdge
         /\ Turns(Counts(g), Counts(move_out_edge(g, old, i, b)),
                  EdgeAt(g, old, i), [EdgeAt(g, old, i) EXCEPT !.from = b])
<1> DEFINE c == g.out[old][i].point
           num == g.out[old][i].rev
           lab == g.out[old][i].label
           gone == EdgeAt(g, old, i)
           new == [from |-> b, to |-> c, label |-> lab]
           g1 == half_delete_out_edge(g, old, i)
           h == replace_in_edge(g, c, num, b)
<1>1. /\ c \in Block /\ lab \in Label /\ num \in Nat \ {0}
      /\ num \in DOMAIN g.in[c] /\ g.in[c][num] = blockedge(old, lab, i)
  BY ListTypes, HalfTypes DEF Coupled, Partner, Label
<1>2. move_out_edge(g, old, i, b) = h
  BY DEF move_out_edge
<1>3. g.in[c][num].point = old /\ g.in[c][num].label = lab /\ g.in[c][num].rev = i
  BY <1>1, HalfFields
<1>4. [gone EXCEPT !.from = b] = new
  BY DEF EdgeAt
<1> HIDE DEF c, num, lab
<1>5. h.out = [g1.out EXCEPT ![b] = Append(g1.out[b], blockedge(c, lab, num))]
  BY <1>3 DEF replace_in_edge
<1> HIDE DEF g1, h
<1>6. PutLast(g1, h, b, blockedge(c, lab, num))
  BY <1>5 DEF PutLast
<1>7. g.out \in OutLists
  BY GraphLists
<1>8. /\ g1.out \in OutLists /\ OthersLeave(g, g1, old)
      /\ Leaving(g1, old) = RemoveAt(Leaving(g, old), i)
  BY <1>7, CutLeaving DEF g1
<1>9. /\ h.out \in OutLists /\ OthersLeave(g1, h, b)
      /\ Leaving(h, b) = Append(Leaving(g1, b), <<c, lab>>)
  BY <1>1, <1>6, <1>8, AppendedLeaving
<1>10. /\ gone \in AbstractEdge /\ Counts(g)[gone] > 0
       /\ \A e \in AbstractEdge : Counts(g1)[e] = Counts(g)[e] - One(e = gone)
  BY <1>7, <1>8, CountsLose
<1>11. \A e \in AbstractEdge : Counts(h)[e] = Counts(g1)[e] + One(e = new)
  BY <1>1, <1>8, <1>9, CountsGain
<1>12. new \in AbstractEdge
  BY <1>1 DEF AbstractEdge
<1> HIDE DEF gone, new
<1>13. \A e \in AbstractEdge : Counts(h)[e] = Counts(g)[e] - One(e = gone) + One(e = new)
  BY <1>10, <1>11
<1>14. Turns(Counts(g), Counts(h), gone, new)
  BY <1>7, <1>9, <1>10, <1>12, <1>13, CountsTally, TurnsBy
<1> QED BY <1>2, <1>4, <1>10, <1>14 DEF gone

\* An edge whose label bits are set or cleared keeps its ends.
LEMMA RelabelCounts ==
  ASSUME NEW g \in Graph(Block, Flag), Coupled(Block, g),
         NEW b \in Block, NEW i \in DOMAIN g.out[b], NEW flags \in Label
  PROVE  /\ EdgeAt(g, b, i) \in AbstractEdge
         /\ \E lab \in Label :
              Turns(Counts(g), Counts(set_out_edge_flag(g, b, i, flags)),
                    EdgeAt(g, b, i), [EdgeAt(g, b, i) EXCEPT !.label = lab])
         /\ \E lab \in Label :
              Turns(Counts(g), Counts(clear_out_edge_flag(g, b, i, flags)),
                    EdgeAt(g, b, i), [EdgeAt(g, b, i) EXCEPT !.label = lab])
<1> DEFINE old == g.out[b][i].label
<1>1. old \in Label /\ old \union flags \in Label /\ old \ flags \in Label
  <2>1. old \in Label
    BY ListTypes, HalfTypes DEF Label
  <2> QED BY <2>1 DEF Label
<1>2. g.out \in OutLists
  BY GraphLists
<1>3. ASSUME NEW h, h.out \in OutLists, NEW lab \in Label,
             h.out = [g.out EXCEPT ![b][i].label = lab]
      PROVE  /\ EdgeAt(g, b, i) \in AbstractEdge
             /\ Turns(Counts(g), Counts(h), EdgeAt(g, b, i), [EdgeAt(g, b, i) EXCEPT !.label = lab])
  <2>1. /\ DOMAIN g.out = Block /\ g.out[b][i] \in LooseHalf
        /\ DOMAIN g.out[b] = 1 .. Len(g.out[b]) /\ Len(g.out[b]) \in Nat
    BY <1>2, LeavingList DEF OutLists
  <2>2. h.out[b] = [g.out[b] EXCEPT ![i] = [g.out[b][i] EXCEPT !.label = lab]]
    BY <1>3, <2>1
  <2>3. /\ DOMAIN h.out[b] = DOMAIN g.out[b]
        /\ h.out[b][i].point = g.out[b][i].point /\ h.out[b][i].label = lab
        /\ \A k \in DOMAIN g.out[b] : k # i => h.out[b][k] = g.out[b][k]
    BY <2>1, <2>2 DEF LooseHalf
  <2>4. OthersLeave(g, h, b)
    BY <1>3, <2>1 DEF OthersLeave, Leaving
  <2>5. /\ DOMAIN Leaving(h, b) = DOMAIN Leaving(g, b)
        /\ Leaving(h, b)[i] = <<g.out[b][i].point, lab>>
        /\ \A k \in DOMAIN Leaving(g, b) : k # i => Leaving(g, b)[k] = Leaving(h, b)[k]
    BY <2>3 DEF Leaving
  <2>6. Len(Leaving(h, b)) = Len(Leaving(g, b))
    <3>1. Leaving(h, b) \in Seq(Block \X Label) /\ Leaving(g, b) \in Seq(Block \X Label)
      BY <1>2, <1>3, LeavingList
    <3> QED BY <3>1, <2>5, LenProperties
  <2>7. SameBut(Leaving(g, b), Leaving(h, b), i)
    BY <2>5, <2>6 DEF SameBut
  <2> DEFINE new == [EdgeAt(g, b, i) EXCEPT !.label = lab]
  <2>8. /\ EdgeAt(g, b, i) \in AbstractEdge /\ Counts(g)[EdgeAt(g, b, i)] > 0
        /\ \A e \in AbstractEdge :
             Counts(h)[e] = Counts(g)[e] - One(e = EdgeAt(g, b, i)) + One(e = new)
    <3>1. /\ g.out \in OutLists /\ h.out \in OutLists /\ lab \in Label
          /\ Leaving(h, b)[i] = <<g.out[b][i].point, lab>>
      BY <1>2, <1>3, <2>5
    <3> QED BY <3>1, <2>4, <2>7, CountsRelabel
  <2>9. new \in AbstractEdge
    BY <2>8 DEF AbstractEdge
  <2> HIDE DEF new
  <2>10. Turns(Counts(g), Counts(h), EdgeAt(g, b, i), new)
    BY <1>2, <1>3, <2>8, <2>9, CountsTally, TurnsBy
  <2> QED BY <2>8, <2>10 DEF new
<1>4. /\ set_out_edge_flag(g, b, i, flags).out = [g.out EXCEPT ![b][i].label = old \union flags]
      /\ clear_out_edge_flag(g, b, i, flags).out = [g.out EXCEPT ![b][i].label = old \ flags]
  BY DEF set_out_edge_flag, clear_out_edge_flag, Relabelled
<1>5. /\ set_out_edge_flag(g, b, i, flags).out \in OutLists
      /\ clear_out_edge_flag(g, b, i, flags).out \in OutLists
  BY OutEdgeFlags, GraphLists DEF Label
<1> HIDE DEF old
<1> QED BY <1>1, <1>3, <1>4, <1>5

(***************************************************************************)
(* The refinement.                                                         *)
(***************************************************************************)

\* The abstract actions, with the tally of the edge lists for their variable.
LEMMA AbstractSteps ==
  /\ Counts(graph) = [e \in [from : Block, to : Block, label : Label] |-> Multiplicity(e)]
  /\ \A e \in AbstractEdge : Grows(Counts(graph), Counts(graph'), e) => Abstract!Next
  /\ \A e \in AbstractEdge : Shrinks(Counts(graph), Counts(graph'), e) => Abstract!Next
  /\ \A e \in AbstractEdge, b \in Block :
       Turns(Counts(graph), Counts(graph'), e, [e EXCEPT !.from = b]) => Abstract!Next
  /\ \A e \in AbstractEdge, lab \in Label :
       Turns(Counts(graph), Counts(graph'), e, [e EXCEPT !.label = lab]) => Abstract!Next
<1> DEFINE M == [e \in [from : Block, to : Block, label : Label] |-> Multiplicity(e)]
           E == Counts(graph)
           F == Counts(graph')
<1>1. M = E
  BY DEF Counts, AbstractEdge, Multiplicity
<1>2. M' = F
  BY DEF Counts, AbstractEdge, Multiplicity
<1>3. Abstract!Edge = AbstractEdge
  BY DEF Abstract!Edge, AbstractEdge
<1>4. ASSUME NEW e PROVE Abstract!Add(e) <=> M' = [M EXCEPT ![e] = M[e] + 1]
  BY DEF Abstract!Add
<1>5. ASSUME NEW e PROVE Abstract!Remove(e) <=> M[e] > 0 /\ M' = [M EXCEPT ![e] = M[e] - 1]
  BY DEF Abstract!Remove, Abstract!Present
<1>6. ASSUME NEW e, NEW n
      PROVE  Abstract!Become(e, n) <=>
               M[e] > 0 /\ M' = IF e = n THEN M ELSE [M EXCEPT ![e] = M[e] - 1, ![n] = M[n] + 1]
  BY DEF Abstract!Become, Abstract!Present
<1>7. ASSUME NEW e \in AbstractEdge, NEW lab \in Label, Abstract!Become(e, [e EXCEPT !.label = lab])
      PROVE  Abstract!Next
  BY <1>3, <1>7 DEF Abstract!Next, Abstract!Relabel
<1>8. ASSUME NEW e \in AbstractEdge, NEW b \in Block, Abstract!Become(e, [e EXCEPT !.from = b])
      PROVE  Abstract!Next
  BY <1>3, <1>8 DEF Abstract!Next, Abstract!Redirect
<1>9. \A e \in AbstractEdge : Abstract!Add(e) \/ Abstract!Remove(e) => Abstract!Next
  BY <1>3 DEF Abstract!Next
<1> HIDE DEF M, E, F
<1>10. ASSUME NEW e, Grows(E, F, e) PROVE Abstract!Add(e)
  BY <1>1, <1>2, <1>4, <1>10 DEF Grows
<1>11. ASSUME NEW e, Shrinks(E, F, e) PROVE Abstract!Remove(e)
  BY <1>1, <1>2, <1>5, <1>11 DEF Shrinks
<1>12. ASSUME NEW e, NEW n, Turns(E, F, e, n) PROVE Abstract!Become(e, n)
  BY <1>1, <1>2, <1>6, <1>12 DEF Turns
<1>13. Counts(graph) = [e \in [from : Block, to : Block, label : Label] |-> Multiplicity(e)]
  BY <1>1 DEF M, E
<1> QED BY <1>7, <1>8, <1>9, <1>10, <1>11, <1>12, <1>13 DEF E, F

\* Every primitive, and every iteration of remove_from_flow and of splice_block, adds one
\* edge, removes one, relabels one or moves one to another source, and leaves all others
\* as they are: the edge lists implement the multigraph, in any graph.
THEOREM MultiGraphImplemented == Spec => ImplementsMultiGraph
<1>1. Init => Abstract!Init
  <2> SUFFICES ASSUME Init PROVE Abstract!Init
    OBVIOUS
  <2>1. ASSUME NEW e \in AbstractEdge PROVE Multiplicity(e) = 0
    <3>1. graph.out[e.from] = << >>
      BY DEF Init, Edgeless, AbstractEdge
    <3>2. {i \in DOMAIN graph.out[e.from] :
             /\ graph.out[e.from][i].point = e.to
             /\ graph.out[e.from][i].label = e.label} = {}
      BY <3>1
    <3> QED BY <3>2, FS_EmptySet DEF Multiplicity
  <2> QED BY <2>1 DEF Abstract!Init, Abstract!Edge, AbstractEdge
<1>2. IInv /\ [Next]_vars =>
        [Abstract!Next]_([e \in [from : Block, to : Block, label : Label] |-> Multiplicity(e)])
  <2> SUFFICES ASSUME IInv, [Next]_vars
               PROVE  \/ Abstract!Next
                      \/ [e \in [from : Block, to : Block, label : Label] |-> Multiplicity(e)]'
                           = [e \in [from : Block, to : Block, label : Label] |-> Multiplicity(e)]
    OBVIOUS
  <2>1. graph \in Graph(Block, Flag) /\ Coupled(Block, graph)
    BY DEF IInv, TypeOK, Paired, Coupled
  <2>2. CASE graph' = graph
    BY <2>2 DEF Multiplicity
  <2>3. ASSUME NEW begin \in Block, NEW end \in Block, NEW lab \in Label, AddEdge(begin, end, lab)
        PROVE  Abstract!Next
    BY <2>1, <2>3, AddCounts, AbstractSteps DEF AddEdge, add_edge
  <2>4. ASSUME NEW begin \in Block, NEW end \in Block, RemoveEdge(begin, end)
        PROVE  Abstract!Next
    <3> DEFINE slot == get_in_index(graph, end, begin)
    <3>1. slot \in DOMAIN graph.in[end]
      BY <2>1, <2>4, EdgeFound DEF RemoveEdge
    <3>2. graph' = remove_in_edge(graph, end, slot)
      BY <2>4 DEF RemoveEdge, remove_edge
    <3> HIDE DEF slot
    <3>3. PICK b \in Block : \E i \in DOMAIN graph.out[b] :
            /\ EdgeAt(graph, b, i) \in AbstractEdge
            /\ Shrinks(Counts(graph), Counts(graph'), EdgeAt(graph, b, i))
      BY <3>1, <3>2, <2>1, RemoveInCounts
    <3> QED BY <3>3, AbstractSteps
  <2>5. ASSUME NEW begin \in Block, NEW end \in Block, MoveFirstOutEdge(begin, end), graph' # graph
        PROVE  Abstract!Next
    <3>1. /\ graph.out[end] # << >>
          /\ graph' = move_out_edge(graph, end, 1, begin)
      BY <2>5 DEF MoveFirstOutEdge
    <3>2. 1 \in DOMAIN graph.out[end]
      BY <3>1, <2>1, ListTypes, EmptySeq
    <3>3. /\ EdgeAt(graph, end, 1) \in AbstractEdge
          /\ Turns(Counts(graph), Counts(graph'),
                   EdgeAt(graph, end, 1), [EdgeAt(graph, end, 1) EXCEPT !.from = begin])
      BY <3>1, <3>2, <2>1, MoveCounts
    <3> QED BY <3>3, AbstractSteps
  <2>6. ASSUME NEW b \in Block, NEW i \in DOMAIN graph.out[b], NEW flags \in Label,
               SetOutEdgeFlag(b, i, flags) \/ ClearOutEdgeFlag(b, i, flags)
        PROVE  Abstract!Next
    <3>1. /\ EdgeAt(graph, b, i) \in AbstractEdge
          /\ \E lab \in Label :
               Turns(Counts(graph), Counts(graph'),
                     EdgeAt(graph, b, i), [EdgeAt(graph, b, i) EXCEPT !.label = lab])
      BY <2>1, <2>6, RelabelCounts DEF SetOutEdgeFlag, ClearOutEdgeFlag
    <3> QED BY <3>1, AbstractSteps
  <2>7. ASSUME NEW b \in Block, NEW i \in DOMAIN graph.out[b], graph' = remove_out_edge(graph, b, i)
        PROVE  Abstract!Next
    <3>1. /\ EdgeAt(graph, b, i) \in AbstractEdge
          /\ Shrinks(Counts(graph), Counts(graph'), EdgeAt(graph, b, i))
      BY <2>1, <2>7, RemoveOutCounts
    <3> QED BY <3>1, AbstractSteps
  <2>8. ASSUME NEW bl \in Block, graph' # graph,
               StartRemoveFromFlow(bl) \/ RemoveLastOutEdge(bl) \/ StartSplice(bl)
        PROVE  Abstract!Next
    <3>1. ASSUME graph.out[bl] # << >>
          PROVE  1 \in DOMAIN graph.out[bl] /\ Len(graph.out[bl]) \in DOMAIN graph.out[bl]
      BY <2>1, <3>1, ListTypes, EmptySeq
    <3>2. Len(graph.out[bl]) = 1 => graph.out[bl] # << >>
      OBVIOUS
    <3>3. /\ graph.out[bl] # << >>
          /\ \/ graph' = remove_out_edge(graph, bl, Len(graph.out[bl]))
             \/ graph' = remove_out_edge(graph, bl, 1)
      BY <3>2, <2>8 DEF StartRemoveFromFlow, RemoveLastOutEdge, StartSplice
    <3> QED BY <3>1, <3>3, <2>7
  <2> QED BY <2>2, <2>3, <2>4, <2>5, <2>6, <2>8 DEF Next, vars
<1> QED BY <1>1, <1>2, InitIInv, NextIInv, PTL DEF Spec, ImplementsMultiGraph, Abstract!Spec
================================================================================
