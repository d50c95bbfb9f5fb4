---------------------------- MODULE DefUse_proofs ----------------------------
(***************************************************************************)
(* The def-use graph stays coherent: for any number of ops, varnodes and   *)
(* slots, whatever sequence of edits runs, and in the middle of a walk.    *)
(*                                                                         *)
(* Every editing method is a composition of a few moves on one op: a slot  *)
(* is emptied or filled, all are emptied, one is cut out, an output is     *)
(* taken away or given.  A lemma for each says that uses goes on counting  *)
(* slots (Counted) or that output and def go on naming each other          *)
(* (Matched).  That nothing dangles, and what is left of a walk, needs     *)
(* both, and is shown action by action.                                    *)
(***************************************************************************)
EXTENDS DefUse, GraphLemmas

DefUseGraph ==
  [ inrefs : [Op -> Seq(Varnode \union {Null})],
    output : [Op -> Varnode \union {Null}],
    uses   : [Varnode -> [Op -> Nat]],
    def    : [Varnode -> Op \union {Null}] ]

Counted(g) == \A v \in Varnode, o \in Op : g.uses[v][o] = Cardinality(Slots(g, o, v))

Matched(g) == \A v \in Varnode, o \in Op : g.output[o] = v <=> g.def[v] = o

\* The inputs of the other ops are what they were.
OthersKept(g, h, op) == \A o \in Op \ {op} : h.inrefs[o] = g.inrefs[o]

\* The types of what an op reads.
LEMMA InputTypes ==
  ASSUME NEW g \in DefUseGraph, NEW o \in Op
  PROVE  /\ g.inrefs[o] \in Seq(Varnode \union {Null})
         /\ Len(g.inrefs[o]) \in Nat /\ DOMAIN g.inrefs[o] = 1 .. Len(g.inrefs[o])
         /\ \A i \in DOMAIN g.inrefs[o] : g.inrefs[o][i] \in Varnode \union {Null}
  BY DEF DefUseGraph

LEMMA GraphFields ==
  ASSUME NEW g \in DefUseGraph
  PROVE  /\ g = [inrefs |-> g.inrefs, output |-> g.output, uses |-> g.uses, def |-> g.def]
         /\ g.inrefs \in [Op -> Seq(Varnode \union {Null})]
         /\ g.output \in [Op -> Varnode \union {Null}]
         /\ g.uses \in [Varnode -> [Op -> Nat]]
         /\ g.def \in [Varnode -> Op \union {Null}]
  BY DEF DefUseGraph

\* An op reads a varnode in finitely many slots.
LEMMA SlotsFinite ==
  ASSUME NEW g \in DefUseGraph, NEW o \in Op, NEW v
  PROVE  /\ Slots(g, o, v) \subseteq 1 .. Len(g.inrefs[o])
         /\ IsFiniteSet(Slots(g, o, v)) /\ Cardinality(Slots(g, o, v)) \in Nat
<1>1. Slots(g, o, v) \subseteq 1 .. Len(g.inrefs[o]) /\ Len(g.inrefs[o]) \in Nat
  BY InputTypes DEF Slots
<1>2. IsFiniteSet(1 .. Len(g.inrefs[o]))
  BY <1>1, FS_Interval
<1> QED BY <1>1, <1>2, FS_Subset, FS_CardinalityType

\* What a list with one element overwritten is.
LEMMA Overwritten ==
  ASSUME NEW S, NEW s \in Seq(S), NEW i \in 1 .. Len(s), NEW x \in S
  PROVE  /\ [s EXCEPT ![i] = x] \in Seq(S)
         /\ Len([s EXCEPT ![i] = x]) = Len(s)
         /\ DOMAIN [s EXCEPT ![i] = x] = 1 .. Len(s)
         /\ \A k \in 1 .. Len(s) : [s EXCEPT ![i] = x][k] = IF k = i THEN x ELSE s[k]
  BY ExceptSeq

\* Counting is a matter of one op at a time.
LEMMA CountOneOp ==
  ASSUME NEW g \in DefUseGraph, Counted(g), NEW h \in DefUseGraph, NEW op \in Op,
         OthersKept(g, h, op),
         \A v \in Varnode : \A o \in Op \ {op} : h.uses[v][o] = g.uses[v][o],
         \A v \in Varnode : h.uses[v][op] = Cardinality(Slots(h, op, v))
  PROVE  Counted(h)
  BY DEF Counted, OthersKept, Slots

\* op_unset_input takes away one slot and one use.
LEMMA UnsetInput ==
  ASSUME NEW g \in DefUseGraph, Counted(g), NEW op \in Op, NEW slot \in DOMAIN g.inrefs[op],
         g.inrefs[op][slot] # Null
  PROVE  LET h == op_unset_input(g, op, slot)
         IN  /\ h \in DefUseGraph /\ Counted(h)
             /\ h.output = g.output /\ h.def = g.def
             /\ OthersKept(g, h, op)
             /\ Len(h.inrefs[op]) = Len(g.inrefs[op])
             /\ \A k \in 1 .. Len(g.inrefs[op]) :
                  h.inrefs[op][k] = IF k = slot THEN Null ELSE g.inrefs[op][k]
<1> DEFINE h == op_unset_input(g, op, slot)
           w == g.inrefs[op][slot]
<1>1. /\ g.inrefs[op] \in Seq(Varnode \union {Null})
      /\ slot \in 1 .. Len(g.inrefs[op]) /\ w \in Varnode
  BY InputTypes
<1> DEFINE r == [g.inrefs EXCEPT ![op] = [g.inrefs[op] EXCEPT ![slot] = Null]]
           u == [g.uses EXCEPT ![w] = [g.uses[w] EXCEPT ![op] = g.uses[w][op] - 1]]
<1>2. h = [g EXCEPT !.uses = u, !.inrefs = r]
  BY Zenon DEF op_unset_input
<1> HIDE DEF h, w, r, u
<1>0. /\ h.inrefs = r /\ h.uses = u /\ h.output = g.output /\ h.def = g.def
      /\ r \in [Op -> Seq(Varnode \union {Null})] /\ u \in [Varnode -> [Op -> Nat]]
           => h \in DefUseGraph
  BY <1>2 DEF DefUseGraph
<1> USE DEF r, u
<1>3. /\ h.inrefs[op] \in Seq(Varnode \union {Null})
      /\ Len(h.inrefs[op]) = Len(g.inrefs[op])
      /\ DOMAIN h.inrefs[op] = 1 .. Len(g.inrefs[op])
      /\ \A k \in 1 .. Len(g.inrefs[op]) :
           h.inrefs[op][k] = IF k = slot THEN Null ELSE g.inrefs[op][k]
  <2>1. h.inrefs[op] = [g.inrefs[op] EXCEPT ![slot] = Null]
    BY <1>0, GraphFields
  <2> QED BY <2>1, <1>1, Overwritten
<1>4. OthersKept(g, h, op)
  BY <1>0, GraphFields DEF OthersKept
<1>5. \A v \in Varnode : Slots(h, op, v) = Slots(g, op, v) \ (IF v = w THEN {slot} ELSE {})
  BY <1>1, <1>3, NullAssumption, InputTypes DEF Slots, w
<1>6. slot \in Slots(g, op, w)
  BY DEF Slots, w
<1>7. Cardinality(Slots(g, op, w)) \in Nat /\ Cardinality(Slots(g, op, w)) # 0
  BY <1>6, SlotsFinite, FS_EmptySet
<1>8. g.uses[w][op] = Cardinality(Slots(g, op, w))
  BY <1>1 DEF Counted
<1>9. h \in DefUseGraph
  <2>1. h.inrefs \in [Op -> Seq(Varnode \union {Null})]
    BY <1>0, <1>3, <1>4, GraphFields DEF OthersKept
  <2>2. g.uses[w][op] - 1 \in Nat
    BY <1>7, <1>8
  <2>3. [g.uses[w] EXCEPT ![op] = g.uses[w][op] - 1] \in [Op -> Nat]
    BY <2>2, <1>1, GraphFields
  <2>4. h.uses \in [Varnode -> [Op -> Nat]]
    BY <1>1, <1>0, <2>3, GraphFields
  <2> QED BY <1>0, <2>1, <2>4
<1>10. \A v \in Varnode : \A o \in Op \ {op} : h.uses[v][o] = g.uses[v][o]
  BY <1>1, <1>0, GraphFields
<1>11. ASSUME NEW v \in Varnode PROVE h.uses[v][op] = Cardinality(Slots(h, op, v))
  <2>1. CASE v = w
    <3>1. h.uses[v][op] = g.uses[w][op] - 1
      BY <1>1, <1>0, <2>1, GraphFields
    <3>2. Cardinality(Slots(h, op, v)) = Cardinality(Slots(g, op, w)) - 1
      BY <1>5, <1>6, <2>1, SlotsFinite, FS_RemoveElement
    <3> QED BY <3>1, <3>2, <1>8
  <2>2. CASE v # w
    <3>1. h.uses[v][op] = g.uses[v][op]
      BY <1>1, <1>0, <2>2, GraphFields
    <3>2. Slots(h, op, v) = Slots(g, op, v)
      BY <1>5, <2>2
    <3> QED BY <3>1, <3>2 DEF Counted
  <2> QED BY <2>1, <2>2
<1>12. Counted(h)
  BY <1>4, <1>9, <1>10, <1>11, CountOneOp
<1> QED BY <1>0, <1>3, <1>4, <1>9, <1>12 DEF h

\* The second half of op_set_input.
FillSlot(g, op, vn, slot) == [g EXCEPT !.uses[vn][op] = @ + 1, !.inrefs[op][slot] = vn]

\* Filling an empty slot adds one use.
LEMMA FillInput ==
  ASSUME NEW g \in DefUseGraph, Counted(g), NEW op \in Op, NEW slot \in DOMAIN g.inrefs[op],
         g.inrefs[op][slot] = Null, NEW vn \in Varnode
  PROVE  LET h == FillSlot(g, op, vn, slot)
         IN  /\ h \in DefUseGraph /\ Counted(h)
             /\ h.output = g.output /\ h.def = g.def
             /\ OthersKept(g, h, op)
             /\ Len(h.inrefs[op]) = Len(g.inrefs[op])
             /\ \A k \in 1 .. Len(g.inrefs[op]) :
                  h.inrefs[op][k] = IF k = slot THEN vn ELSE g.inrefs[op][k]
<1> DEFINE h == FillSlot(g, op, vn, slot)
<1>1. g.inrefs[op] \in Seq(Varnode \union {Null}) /\ slot \in 1 .. Len(g.inrefs[op])
  BY InputTypes
<1> DEFINE r == [g.inrefs EXCEPT ![op] = [g.inrefs[op] EXCEPT ![slot] = vn]]
           u == [g.uses EXCEPT ![vn] = [g.uses[vn] EXCEPT ![op] = g.uses[vn][op] + 1]]
<1>2. h = [g EXCEPT !.uses = u, !.inrefs = r]
  BY Zenon DEF FillSlot
<1> HIDE DEF h, r, u
<1>3. /\ h.inrefs = r /\ h.uses = u /\ h.output = g.output /\ h.def = g.def
      /\ r \in [Op -> Seq(Varnode \union {Null})] /\ u \in [Varnode -> [Op -> Nat]]
           => h \in DefUseGraph
  BY <1>2 DEF DefUseGraph
<1> USE DEF r, u
<1>4. /\ h.inrefs[op] \in Seq(Varnode \union {Null})
      /\ Len(h.inrefs[op]) = Len(g.inrefs[op])
      /\ DOMAIN h.inrefs[op] = 1 .. Len(g.inrefs[op])
      /\ \A k \in 1 .. Len(g.inrefs[op]) :
           h.inrefs[op][k] = IF k = slot THEN vn ELSE g.inrefs[op][k]
  <2>1. h.inrefs[op] = [g.inrefs[op] EXCEPT ![slot] = vn]
    BY <1>3, GraphFields
  <2> QED BY <2>1, <1>1, Overwritten
<1>5. OthersKept(g, h, op)
  BY <1>3, GraphFields DEF OthersKept
<1>6. \A v \in Varnode : Slots(h, op, v) = Slots(g, op, v) \union (IF v = vn THEN {slot} ELSE {})
  BY <1>1, <1>4, NullAssumption, InputTypes DEF Slots
<1>7. slot \notin Slots(g, op, vn)
  BY NullAssumption DEF Slots
<1>8. h \in DefUseGraph
  <2>1. h.inrefs \in [Op -> Seq(Varnode \union {Null})]
    BY <1>3, <1>4, <1>5, GraphFields DEF OthersKept
  <2>2. [g.uses[vn] EXCEPT ![op] = g.uses[vn][op] + 1] \in [Op -> Nat]
    BY GraphFields
  <2>3. h.uses \in [Varnode -> [Op -> Nat]]
    BY <1>3, <2>2, GraphFields
  <2> QED BY <1>3, <2>1, <2>3
<1>9. \A v \in Varnode : \A o \in Op \ {op} : h.uses[v][o] = g.uses[v][o]
  BY <1>3, GraphFields
<1>10. ASSUME NEW v \in Varnode PROVE h.uses[v][op] = Cardinality(Slots(h, op, v))
  <2>1. CASE v = vn
    <3>1. h.uses[v][op] = g.uses[vn][op] + 1
      BY <1>3, <2>1, GraphFields
    <3>2. Cardinality(Slots(h, op, v)) = Cardinality(Slots(g, op, vn)) + 1
      BY <1>6, <1>7, <2>1, SlotsFinite, FS_AddElement
    <3> QED BY <3>1, <3>2 DEF Counted
  <2>2. CASE v # vn
    <3>1. h.uses[v][op] = g.uses[v][op]
      BY <1>3, <2>2, GraphFields
    <3>2. Slots(h, op, v) = Slots(g, op, v)
      BY <1>6, <2>2
    <3> QED BY <3>1, <3>2 DEF Counted
  <2> QED BY <2>1, <2>2
<1>11. Counted(h)
  BY <1>5, <1>8, <1>9, <1>10, CountOneOp
<1> QED BY <1>3, <1>4, <1>5, <1>8, <1>11 DEF h

\* An empty slot is added when the position is one behind the last.
LEMMA GrownInputs ==
  ASSUME NEW s \in Seq(Varnode \union {Null}), NEW slot \in 1 .. Len(s) + 1
  PROVE  /\ Grown(s, slot) \in Seq(Varnode \union {Null})
         /\ Len(Grown(s, slot)) = IF slot > Len(s) THEN slot ELSE Len(s)
         /\ \A k \in 1 .. Len(Grown(s, slot)) :
              Grown(s, slot)[k] = IF k > Len(s) THEN Null ELSE s[k]
<1> DEFINE n == IF slot > Len(s) THEN slot - Len(s) ELSE 0
           e == [i \in 1 .. n |-> Null]
<1>1. n \in Nat /\ Len(s) \in Nat
  OBVIOUS
<1> HIDE DEF n
<1>2. e \in [1 .. n -> Varnode \union {Null}]
  OBVIOUS
<1>3. e \in Seq(Varnode \union {Null}) /\ DOMAIN e = 1 .. n /\ \A k \in 1 .. n : e[k] = Null
  BY <1>1, <1>2, SeqDef
<1>4. Len(e) = n
  BY <1>1, <1>3, LenProperties
<1> HIDE DEF e
<1>5. /\ s \o e \in Seq(Varnode \union {Null}) /\ Len(s \o e) = Len(s) + n
      /\ \A k \in 1 .. Len(s) + n : (s \o e)[k] = IF k <= Len(s) THEN s[k] ELSE e[k - Len(s)]
  BY <1>3, <1>4, ConcatProperties
<1>6. ASSUME NEW k \in 1 .. Len(s) + n PROVE (s \o e)[k] = IF k > Len(s) THEN Null ELSE s[k]
  BY <1>1, <1>3, <1>5
<1>7. Grown(s, slot) = s \o e
  BY DEF Grown, n, e
<1>8. Len(s) + n = IF slot > Len(s) THEN slot ELSE Len(s)
  BY <1>1 DEF n
<1> QED BY <1>5, <1>6, <1>7, <1>8

\* The result of op_set_input, whatever the slot held before.
InputSet(g, h, op, vn, slot) ==
  /\ h \in DefUseGraph /\ Counted(h)
  /\ h.output = g.output /\ h.def = g.def
  /\ OthersKept(g, h, op)
  /\ Len(h.inrefs[op]) = IF slot > Len(g.inrefs[op]) THEN slot ELSE Len(g.inrefs[op])
  /\ \A k \in 1 .. Len(h.inrefs[op]) :
       h.inrefs[op][k] = IF k = slot THEN vn ELSE g.inrefs[op][k]

LEMMA SetInput ==
  ASSUME NEW g \in DefUseGraph, Counted(g), NEW op \in Op, NEW vn \in Varnode,
         NEW slot \in 1 .. Len(g.inrefs[op]) + 1
  PROVE  InputSet(g, op_set_input(g, op, vn, slot), op, vn, slot)
<1> DEFINE f1 == [g EXCEPT !.inrefs[op] = Grown(@, slot)]
           old == f1.inrefs[op][slot]
           f2 == IF old = Null THEN f1 ELSE op_unset_input(f1, op, slot)
           h == FillSlot(f2, op, vn, slot)
           r == [g.inrefs EXCEPT ![op] = Grown(g.inrefs[op], slot)]
           len == IF slot > Len(g.inrefs[op]) THEN slot ELSE Len(g.inrefs[op])
<1>1. /\ g.inrefs[op] \in Seq(Varnode \union {Null})
      /\ Len(g.inrefs[op]) \in Nat
  BY InputTypes
<1>2. op_set_input(g, op, vn, slot) = IF vn = old THEN f1 ELSE h
  BY DEF op_set_input, FillSlot
<1>3. f1 = [g EXCEPT !.inrefs = r]
  BY Zenon
<1> HIDE DEF f1, r
<1>4. /\ f1.inrefs = r /\ f1.uses = g.uses /\ f1.output = g.output /\ f1.def = g.def
      /\ r \in [Op -> Seq(Varnode \union {Null})] => f1 \in DefUseGraph
  BY <1>3 DEF DefUseGraph
<1>5. /\ f1.inrefs[op] \in Seq(Varnode \union {Null})
      /\ Len(f1.inrefs[op]) = len
      /\ \A k \in 1 .. len : f1.inrefs[op][k] = IF k > Len(g.inrefs[op]) THEN Null ELSE g.inrefs[op][k]
  <2>1. f1.inrefs[op] = Grown(g.inrefs[op], slot)
    BY <1>4, GraphFields DEF r
  <2> QED BY <2>1, <1>1, GrownInputs
<1>6. OthersKept(g, f1, op)
  BY <1>4, GraphFields DEF OthersKept, r
<1>7. f1 \in DefUseGraph
  <2>1. r \in [Op -> Seq(Varnode \union {Null})]
    BY <1>4, <1>5, GraphFields DEF r
  <2> QED BY <2>1, <1>4
<1>8. slot \in 1 .. len /\ slot \in DOMAIN f1.inrefs[op] /\ DOMAIN f1.inrefs[op] = 1 .. len
  BY <1>1, <1>5
<1>9. Counted(f1)
  <2>1. ASSUME NEW v \in Varnode PROVE Slots(f1, op, v) = Slots(g, op, v)
    BY <1>1, <1>5, <1>8, NullAssumption DEF Slots
  <2> QED BY <2>1, <1>4, <1>6, <1>7, CountOneOp DEF Counted
<1> HIDE DEF len
<1>10. CASE vn = old
  BY <1>2, <1>4, <1>5, <1>6, <1>7, <1>8, <1>9, <1>10 DEF InputSet, len
<1>11. CASE vn # old
  <2>1. /\ f2 \in DefUseGraph /\ Counted(f2)
        /\ f2.output = g.output /\ f2.def = g.def
        /\ OthersKept(f1, f2, op)
        /\ Len(f2.inrefs[op]) = len
        /\ \A k \in 1 .. len : f2.inrefs[op][k] = IF k = slot THEN Null ELSE f1.inrefs[op][k]
    <3>1. CASE old = Null
      BY <3>1, <1>4, <1>5, <1>7, <1>9 DEF OthersKept
    <3>2. CASE old # Null
      BY <3>2, <1>4, <1>5, <1>7, <1>8, <1>9, UnsetInput
    <3> QED BY <3>1, <3>2
  <2> HIDE DEF f2, old
  <2>2. slot \in DOMAIN f2.inrefs[op] /\ f2.inrefs[op][slot] = Null
    BY <2>1, <1>8, InputTypes
  <2>3. /\ h \in DefUseGraph /\ Counted(h)
        /\ h.output = f2.output /\ h.def = f2.def
        /\ OthersKept(f2, h, op)
        /\ Len(h.inrefs[op]) = len
        /\ \A k \in 1 .. len : h.inrefs[op][k] = IF k = slot THEN vn ELSE f2.inrefs[op][k]
    BY <2>1, <2>2, FillInput
  <2> HIDE DEF h
  <2>4. OthersKept(g, h, op)
    BY <2>1, <2>3, <1>6 DEF OthersKept
  <2>5. \A k \in 1 .. len : h.inrefs[op][k] = IF k = slot THEN vn ELSE g.inrefs[op][k]
    BY <2>1, <2>3, <1>5, <1>1 DEF len
  <2>6. op_set_input(g, op, vn, slot) = h
    BY <1>2, <1>11
  <2> QED BY <2>1, <2>3, <2>4, <2>5, <2>6 DEF InputSet, len
<1> QED BY <1>10, <1>11

\* A slot that was given another varnode is one use less of the old one, and no other op
\* has a use more or less of anything.
LEMMA UseMoved ==
  ASSUME NEW g \in DefUseGraph, Counted(g), NEW op \in Op, NEW slot \in DOMAIN g.inrefs[op],
         NEW vn \in Varnode, NEW old \in Varnode, g.inrefs[op][slot] = old, vn # old,
         NEW h, InputSet(g, h, op, vn, slot)
  PROVE  /\ h.uses[old][op] = g.uses[old][op] - 1
         /\ \A v \in Varnode, o \in Op \ {op} : h.uses[v][o] = g.uses[v][o]
<1>1. /\ h \in DefUseGraph /\ Counted(h) /\ OthersKept(g, h, op)
      /\ Len(h.inrefs[op]) = Len(g.inrefs[op])
      /\ DOMAIN g.inrefs[op] = 1 .. Len(g.inrefs[op])
      /\ DOMAIN h.inrefs[op] = 1 .. Len(g.inrefs[op])
      /\ \A k \in 1 .. Len(g.inrefs[op]) :
           h.inrefs[op][k] = IF k = slot THEN vn ELSE g.inrefs[op][k]
  BY InputTypes DEF InputSet
<1>2. Slots(h, op, old) = Slots(g, op, old) \ {slot} /\ slot \in Slots(g, op, old)
  BY <1>1 DEF Slots
<1>3. Cardinality(Slots(h, op, old)) = Cardinality(Slots(g, op, old)) - 1
  <2>1. IsFiniteSet(Slots(g, op, old))
    BY SlotsFinite
  <2> QED BY <2>1, <1>2, FS_RemoveElement
<1>4. \A v \in Varnode, o \in Op \ {op} : Slots(h, o, v) = Slots(g, o, v)
  BY <1>1 DEF OthersKept, Slots
<1> QED BY <1>1, <1>3, <1>4 DEF Counted

LEMMA UnsetOutput ==
  ASSUME NEW g \in DefUseGraph, Matched(g), NEW op \in Op
  PROVE  LET h == op_unset_output(g, op)
         IN  /\ h \in DefUseGraph /\ Matched(h)
             /\ h.inrefs = g.inrefs /\ h.uses = g.uses
             /\ h.output = [g.output EXCEPT ![op] = Null]
             /\ \A v \in Varnode : h.def[v] = IF v = g.output[op] THEN Null ELSE g.def[v]
<1> DEFINE h == op_unset_output(g, op)
<1>1. CASE g.output[op] = Null
  BY <1>1, GraphFields, NullAssumption DEF op_unset_output
<1>2. CASE g.output[op] # Null
  <2> DEFINE t == [g.output EXCEPT ![op] = Null]
             d == [g.def EXCEPT ![g.output[op]] = Null]
  <2>1. h = [g EXCEPT !.output = t, !.def = d]
    BY <1>2, Zenon DEF op_unset_output
  <2>2. t \in [Op -> Varnode \union {Null}] /\ d \in [Varnode -> Op \union {Null}]
    BY GraphFields
  <2> HIDE DEF h, t, d
  <2>3. /\ h.output = t /\ h.def = d /\ h.inrefs = g.inrefs /\ h.uses = g.uses
        /\ h \in DefUseGraph
    BY <2>1, <2>2 DEF DefUseGraph
  <2>4. \A v \in Varnode : h.def[v] = IF v = g.output[op] THEN Null ELSE g.def[v]
    BY <2>3, GraphFields DEF d
  <2>5. Matched(h)
    BY <2>3, <2>4, GraphFields, NullAssumption DEF Matched, t
  <2> QED BY <2>3, <2>4, <2>5 DEF t, h
<1> QED BY <1>1, <1>2

\* op_set_output takes the varnode away from the op that wrote it, and the old output
\* away from op.
LEMMA SetOutput ==
  ASSUME NEW g \in DefUseGraph, Matched(g), NEW op \in Op, NEW vn \in Varnode
  PROVE  LET h == op_set_output(g, op, vn)
         IN  /\ h \in DefUseGraph /\ Matched(h)
             /\ h.inrefs = g.inrefs /\ h.uses = g.uses
             /\ \A o \in Op : h.output[o] \in {g.output[o], Null} \union (IF o = op THEN {vn} ELSE {})
             /\ \A v \in Varnode : h.def[v] \in {g.def[v], Null} \union (IF v = vn THEN {op} ELSE {})
<1> DEFINE h == op_set_output(g, op, vn)
           f1 == op_unset_output(g, op)
           f2 == IF f1.def[vn] = Null THEN f1 ELSE op_unset_output(f1, f1.def[vn])
<1>1. CASE vn = g.output[op]
  BY <1>1 DEF op_set_output
<1>2. CASE vn # g.output[op]
  <2>1. /\ f1 \in DefUseGraph /\ Matched(f1)
        /\ f1.inrefs = g.inrefs /\ f1.uses = g.uses
        /\ \A o \in Op : f1.output[o] \in {g.output[o], Null}
        /\ \A v \in Varnode : f1.def[v] \in {g.def[v], Null}
        /\ f1.output[op] = Null
    <3>1. /\ f1 \in DefUseGraph /\ Matched(f1)
          /\ f1.inrefs = g.inrefs /\ f1.uses = g.uses
          /\ f1.output = [g.output EXCEPT ![op] = Null]
          /\ \A v \in Varnode : f1.def[v] = IF v = g.output[op] THEN Null ELSE g.def[v]
      BY UnsetOutput
    <3> HIDE DEF f1
    <3> QED BY <3>1, GraphFields
  <2> HIDE DEF f1
  <2>2. /\ f2 \in DefUseGraph /\ Matched(f2)
        /\ f2.inrefs = g.inrefs /\ f2.uses = g.uses
        /\ \A o \in Op : f2.output[o] \in {g.output[o], Null}
        /\ \A v \in Varnode : f2.def[v] \in {g.def[v], Null}
        /\ f2.output[op] = Null /\ f2.def[vn] = Null
    <3>1. CASE f1.def[vn] = Null
      BY <3>1, <2>1
    <3>2. CASE f1.def[vn] # Null
      <4> DEFINE q == f1.def[vn]
      <4>1. q \in Op /\ f1.output[q] = vn
        BY <3>2, <2>1, GraphFields DEF Matched
      <4>2. f2 = op_unset_output(f1, q)
        BY <3>2
      <4> HIDE DEF q, f2
      <4>3. /\ f2 \in DefUseGraph /\ Matched(f2)
            /\ f2.inrefs = f1.inrefs /\ f2.uses = f1.uses
            /\ f2.output = [f1.output EXCEPT ![q] = Null]
            /\ \A v \in Varnode : f2.def[v] = IF v = f1.output[q] THEN Null ELSE f1.def[v]
        BY <2>1, <4>1, <4>2, UnsetOutput
      <4> QED BY <2>1, <4>1, <4>3, GraphFields
    <3> QED BY <3>1, <3>2
  <2> HIDE DEF f2
  <2> DEFINE t == [f2.output EXCEPT ![op] = vn]
             d == [f2.def EXCEPT ![vn] = op]
  <2>3. h = [f2 EXCEPT !.output = t, !.def = d]
    <3>1. h = [f2 EXCEPT !.def[vn] = op, !.output[op] = vn]
      BY <1>2 DEF op_set_output, f1, f2
    <3>2. [f2 EXCEPT !.def[vn] = op, !.output[op] = vn] = [f2 EXCEPT !.def = d, !.output = t]
      BY Zenon
    <3>3. \A x, y : [f2 EXCEPT !.def = x, !.output = y] = [f2 EXCEPT !.output = y, !.def = x]
      BY <2>2 DEF DefUseGraph
    <3> QED BY <3>1, <3>2, <3>3
  <2>4. t \in [Op -> Varnode \union {Null}] /\ d \in [Varnode -> Op \union {Null}]
    BY <2>2, GraphFields
  <2> HIDE DEF h, t, d
  <2>5. /\ h.output = t /\ h.def = d /\ h.inrefs = f2.inrefs /\ h.uses = f2.uses
        /\ h \in DefUseGraph
    BY <2>2, <2>3, <2>4 DEF DefUseGraph
  <2>6. /\ \A o \in Op : h.output[o] = IF o = op THEN vn ELSE f2.output[o]
        /\ \A v \in Varnode : h.def[v] = IF v = vn THEN op ELSE f2.def[v]
    BY <2>2, <2>5, GraphFields DEF t, d
  <2>7. Matched(h)
    BY <2>2, <2>6, NullAssumption DEF Matched
  <2> QED BY <2>2, <2>5, <2>6, <2>7 DEF h
<1> QED BY <1>1, <1>2

\* op_remove_input closes the gap: the slots behind it move down, the counts stay.
LEMMA RemoveInput ==
  ASSUME NEW g \in DefUseGraph, Counted(g), NEW op \in Op, NEW slot \in DOMAIN g.inrefs[op],
         g.inrefs[op][slot] # Null
  PROVE  LET h == op_remove_input(g, op, slot)
         IN  /\ h \in DefUseGraph /\ Counted(h)
             /\ h.output = g.output /\ h.def = g.def
             /\ OthersKept(g, h, op)
             /\ \A k \in DOMAIN h.inrefs[op] : \E j \in DOMAIN g.inrefs[op] :
                  j # slot /\ h.inrefs[op][k] = g.inrefs[op][j]
<1> DEFINE h == op_remove_input(g, op, slot)
           f1 == op_unset_input(g, op, slot)
           n == Len(g.inrefs[op])
           r == [f1.inrefs EXCEPT ![op] = RemoveAt(f1.inrefs[op], slot)]
<1>1. slot \in 1 .. n /\ n \in Nat /\ DOMAIN g.inrefs[op] = 1 .. n
  BY InputTypes
<1>2. /\ f1 \in DefUseGraph /\ Counted(f1)
      /\ f1.output = g.output /\ f1.def = g.def
      /\ OthersKept(g, f1, op)
      /\ Len(f1.inrefs[op]) = n
      /\ \A k \in 1 .. n : f1.inrefs[op][k] = IF k = slot THEN Null ELSE g.inrefs[op][k]
  BY UnsetInput
<1>3. h = [f1 EXCEPT !.inrefs = r]
  BY Zenon DEF op_remove_input
<1> HIDE DEF h, f1, r, n
<1>4. /\ h.inrefs = r /\ h.uses = f1.uses /\ h.output = f1.output /\ h.def = f1.def
      /\ r \in [Op -> Seq(Varnode \union {Null})] => h \in DefUseGraph
  BY <1>2, <1>3 DEF DefUseGraph
<1>5. h.inrefs[op] = RemoveAt(f1.inrefs[op], slot)
  BY <1>2, <1>4, GraphFields DEF r
<1>6. /\ h.inrefs[op] \in Seq(Varnode \union {Null})
      /\ Len(h.inrefs[op]) = n - 1
      /\ DOMAIN h.inrefs[op] = 1 .. n - 1
      /\ \A k \in 1 .. n - 1 : h.inrefs[op][k] = f1.inrefs[op][IF k < slot THEN k ELSE k + 1]
  <2>1. f1.inrefs[op] \in Seq(Varnode \union {Null}) /\ slot \in 1 .. Len(f1.inrefs[op])
    BY <1>1, <1>2, InputTypes
  <2>2. /\ RemoveAt(f1.inrefs[op], slot) \in Seq(Varnode \union {Null})
        /\ Len(RemoveAt(f1.inrefs[op], slot)) = n - 1
        /\ DOMAIN RemoveAt(f1.inrefs[op], slot) = 1 .. n - 1
        /\ \A k \in 1 .. n - 1 : RemoveAt(f1.inrefs[op], slot)[k] =
                                 IF k < slot THEN f1.inrefs[op][k] ELSE f1.inrefs[op][k + 1]
    BY <2>1, <1>2, RemoveAtFacts
  <2> QED BY <2>2, <1>5
<1>7. OthersKept(g, h, op) /\ OthersKept(f1, h, op)
  BY <1>2, <1>4, GraphFields DEF OthersKept, r
<1>8. h \in DefUseGraph
  <2>1. r \in [Op -> Seq(Varnode \union {Null})]
    BY <1>2, <1>5, <1>6, GraphFields DEF r
  <2> QED BY <2>1, <1>4
<1>9. ASSUME NEW v \in Varnode PROVE Cardinality(Slots(h, op, v)) = Cardinality(Slots(f1, op, v))
  <2>1. Slots(f1, op, v) \in SUBSET (1 .. n) /\ slot \notin Slots(f1, op, v)
    BY <1>1, <1>2, SlotsFinite, NullAssumption DEF Slots
  <2>2. Slots(h, op, v) \in SUBSET (1 .. n - 1)
    BY <1>6 DEF Slots
  <2>3. DOMAIN f1.inrefs[op] = 1 .. n
    BY <1>2, InputTypes
  <2>4. ASSUME NEW k \in 1 .. n - 1
        PROVE  k \in Slots(h, op, v) <=> (IF k < slot THEN k ELSE k + 1) \in Slots(f1, op, v)
    <3>1. (IF k < slot THEN k ELSE k + 1) \in 1 .. n
      BY <1>1
    <3> QED BY <3>1, <2>3, <1>6 DEF Slots
  <2> DEFINE S == Slots(f1, op, v)
             T == Slots(h, op, v)
  <2>5. \A k \in 1 .. n - 1 : k \in T <=> (IF k < slot THEN k ELSE k + 1) \in S
    BY <2>4
  <2>6. S \in SUBSET (1 .. n) /\ slot \notin S /\ T \in SUBSET (1 .. n - 1)
    BY <2>1, <2>2
  <2> HIDE DEF S, T
  <2>7. Cardinality(T) = Cardinality(S)
    BY <2>5, <2>6, <1>1, ClosedGap
  <2> QED BY <2>7 DEF S, T
<1>10. Counted(h)
  BY <1>2, <1>4, <1>7, <1>8, <1>9, CountOneOp DEF Counted
<1>11. ASSUME NEW k \in DOMAIN h.inrefs[op]
       PROVE  \E j \in DOMAIN g.inrefs[op] : j # slot /\ h.inrefs[op][k] = g.inrefs[op][j]
  <2> DEFINE j == IF k < slot THEN k ELSE k + 1
  <2>1. k \in 1 .. n - 1
    BY <1>6
  <2>2. j \in 1 .. n /\ j # slot
    BY <2>1, <1>1
  <2>3. h.inrefs[op][k] = g.inrefs[op][j]
    BY <2>1, <2>2, <1>2, <1>6
  <2> QED BY <2>2, <2>3, <1>1
<1> QED BY <1>2, <1>4, <1>7, <1>8, <1>10, <1>11 DEF h

\* The loop of op_destroy leaves op with nothing but empty slots.
LEMMA UnsetEverySlot ==
  ASSUME NEW g \in DefUseGraph, Counted(g), NEW op \in Op
  PROVE  LET h == UnsetAll(g, op)
         IN  /\ h \in DefUseGraph /\ Counted(h)
             /\ h.output = g.output /\ h.def = g.def
             /\ OthersKept(g, h, op)
             /\ \A v \in Varnode : h.uses[v][op] = 0
<1> DEFINE h == UnsetAll(g, op)
           r == [g.inrefs EXCEPT ![op] = [i \in DOMAIN g.inrefs[op] |-> Null]]
           u == [v \in Varnode |-> [g.uses[v] EXCEPT
                   ![op] = g.uses[v][op] - Cardinality(Slots(g, op, v))]]
<1>1. h = [g EXCEPT !.uses = u, !.inrefs = r]
  BY Zenon DEF UnsetAll
<1> HIDE DEF h, r, u
<1>2. /\ h.inrefs = r /\ h.uses = u /\ h.output = g.output /\ h.def = g.def
      /\ r \in [Op -> Seq(Varnode \union {Null})] /\ u \in [Varnode -> [Op -> Nat]]
           => h \in DefUseGraph
  BY <1>1 DEF DefUseGraph
<1>3. /\ h.inrefs[op] \in Seq(Varnode \union {Null})
      /\ \A i \in DOMAIN h.inrefs[op] : h.inrefs[op][i] = Null
  <2>1. h.inrefs[op] = [i \in 1 .. Len(g.inrefs[op]) |-> Null]
    BY <1>2, GraphFields, InputTypes DEF r
  <2>2. Len(g.inrefs[op]) \in Nat
    BY InputTypes
  <2>3. h.inrefs[op] \in [1 .. Len(g.inrefs[op]) -> Varnode \union {Null}]
    BY <2>1
  <2> QED BY <2>1, <2>2, <2>3, SeqDef
<1>4. OthersKept(g, h, op)
  BY <1>2, GraphFields DEF OthersKept, r
<1>5. ASSUME NEW v \in Varnode
      PROVE  /\ u[v] \in [Op -> Nat] /\ h.uses[v][op] = 0
             /\ \A o \in Op \ {op} : h.uses[v][o] = g.uses[v][o]
  <2>1. g.uses[v][op] = Cardinality(Slots(g, op, v)) /\ g.uses[v][op] \in Nat
    BY GraphFields DEF Counted
  <2>2. h.uses[v] = [g.uses[v] EXCEPT ![op] = g.uses[v][op] - Cardinality(Slots(g, op, v))]
    BY <1>2 DEF u
  <2>3. u[v] = h.uses[v] /\ g.uses[v] \in [Op -> Nat]
    BY <1>2, GraphFields
  <2> QED BY <2>1, <2>2, <2>3
<1>6. h \in DefUseGraph
  <2>1. r \in [Op -> Seq(Varnode \union {Null})]
    BY <1>2, <1>3, GraphFields DEF r
  <2>2. u \in [Varnode -> [Op -> Nat]]
    <3>1. \A v \in Varnode : u[v] \in [Op -> Nat]
      BY <1>5
    <3> QED BY <3>1 DEF u
  <2> QED BY <2>1, <2>2, <1>2
<1>7. ASSUME NEW v \in Varnode
      PROVE  /\ h.uses[v][op] = 0 /\ h.uses[v][op] = Cardinality(Slots(h, op, v))
             /\ \A o \in Op \ {op} : h.uses[v][o] = g.uses[v][o]
  <2>1. Slots(h, op, v) = {}
    BY <1>3, NullAssumption DEF Slots
  <2>2. h.uses[v][op] = 0 /\ \A o \in Op \ {op} : h.uses[v][o] = g.uses[v][o]
    BY <1>5
  <2> QED BY <2>1, <2>2, FS_EmptySet
<1>8. Counted(h)
  BY <1>4, <1>6, <1>7, CountOneOp
<1> QED BY <1>2, <1>4, <1>6, <1>7, <1>8 DEF h

\* destroy_varnode finds every slot that reads the varnode, because uses has an entry for each.
LEMMA DestroyVarnode ==
  ASSUME NEW g \in DefUseGraph, Counted(g), Matched(g), NEW vn \in Varnode
  PROVE  LET h == destroy_varnode(g, vn)
         IN  /\ h \in DefUseGraph /\ Counted(h) /\ Matched(h)
             /\ \A o \in Op :
                  /\ DOMAIN h.inrefs[o] = DOMAIN g.inrefs[o]
                  /\ \A i \in DOMAIN g.inrefs[o] :
                       h.inrefs[o][i] = IF g.inrefs[o][i] = vn THEN Null ELSE g.inrefs[o][i]
             /\ \A o \in Op : h.output[o] = IF g.def[vn] = o THEN Null ELSE g.output[o]
             /\ \A v \in Varnode : h.def[v] = IF v = vn THEN Null ELSE g.def[v]
<1> DEFINE h == destroy_varnode(g, vn)
           cut(o, i) == IF g.inrefs[o][i] = vn THEN Null ELSE g.inrefs[o][i]
<1>1. ASSUME NEW o \in Op, NEW i \in DOMAIN g.inrefs[o], g.inrefs[o][i] = vn
      PROVE  Rank(g, o, i) <= g.uses[vn][o]
  <2>1. {j \in 1 .. i : g.inrefs[o][j] = g.inrefs[o][i]} \subseteq Slots(g, o, vn)
    BY <1>1, InputTypes DEF Slots
  <2>2. Rank(g, o, i) <= Cardinality(Slots(g, o, vn))
    BY <2>1, SlotsFinite, FS_Subset DEF Rank
  <2> QED BY <2>2 DEF Counted
<1>2. /\ h.inrefs = [o \in Op |-> [i \in DOMAIN g.inrefs[o] |-> cut(o, i)]]
      /\ h.output = [o \in Op |-> IF g.def[vn] = o THEN Null ELSE g.output[o]]
      /\ h.uses = [g.uses EXCEPT ![vn] = NoUse]
      /\ h.def = [g.def EXCEPT ![vn] = Null]
  <2>1. \A o \in Op : \A i \in DOMAIN g.inrefs[o] :
          (IF g.inrefs[o][i] = vn /\ Rank(g, o, i) <= g.uses[vn][o] THEN Null ELSE g.inrefs[o][i])
            = cut(o, i)
    BY <1>1
  <2> QED BY <2>1 DEF destroy_varnode
<1>3. h = [inrefs |-> h.inrefs, output |-> h.output, uses |-> h.uses, def |-> h.def]
  BY DEF destroy_varnode
<1> HIDE DEF h
<1>4. \A o \in Op : h.inrefs[o] = [i \in DOMAIN g.inrefs[o] |-> cut(o, i)]
  BY <1>2
<1>5. ASSUME NEW o \in Op PROVE h.inrefs[o] \in Seq(Varnode \union {Null})
  <2>1. h.inrefs[o] \in [1 .. Len(g.inrefs[o]) -> Varnode \union {Null}]
    BY <1>4, InputTypes
  <2>2. Len(g.inrefs[o]) \in Nat
    BY InputTypes
  <2> QED BY <2>1, <2>2, SeqDef
<1>6. /\ h.inrefs \in [Op -> Seq(Varnode \union {Null})]
      /\ h.output \in [Op -> Varnode \union {Null}]
      /\ h.uses \in [Varnode -> [Op -> Nat]]
      /\ h.def \in [Varnode -> Op \union {Null}]
  <2>1. h.inrefs \in [Op -> Seq(Varnode \union {Null})]
    BY <1>2, <1>5
  <2>2. h.output \in [Op -> Varnode \union {Null}] /\ h.def \in [Varnode -> Op \union {Null}]
    BY <1>2, GraphFields
  <2>3. h.uses \in [Varnode -> [Op -> Nat]]
    BY <1>2, GraphFields DEF NoUse
  <2> QED BY <2>1, <2>2, <2>3
<1>7. h \in DefUseGraph
  BY <1>3, <1>6 DEF DefUseGraph
<1>8. Counted(h)
  <2> SUFFICES ASSUME NEW v \in Varnode, NEW o \in Op
               PROVE  h.uses[v][o] = Cardinality(Slots(h, o, v))
    BY DEF Counted
  <2>3. /\ DOMAIN h.inrefs[o] = DOMAIN g.inrefs[o]
        /\ \A i \in DOMAIN g.inrefs[o] :
             h.inrefs[o][i] = IF g.inrefs[o][i] = vn THEN Null ELSE g.inrefs[o][i]
    BY <1>4
  <2>1. CASE v = vn
    <3>1. Slots(h, o, v) = {}
      BY <2>1, <2>3, NullAssumption DEF Slots
    <3>2. h.uses[v][o] = 0
      BY <2>1, <1>2, GraphFields DEF NoUse
    <3> QED BY <3>1, <3>2, FS_EmptySet
  <2>2. CASE v # vn
    <3>1. Slots(h, o, v) = Slots(g, o, v)
      BY <2>2, <2>3, NullAssumption DEF Slots
    <3>2. h.uses[v][o] = g.uses[v][o]
      BY <2>2, <1>2, GraphFields
    <3> QED BY <3>1, <3>2 DEF Counted
  <2> QED BY <2>1, <2>2
<1>9. /\ \A o \in Op : h.output[o] = IF g.def[vn] = o THEN Null ELSE g.output[o]
      /\ \A v \in Varnode : h.def[v] = IF v = vn THEN Null ELSE g.def[v]
  BY <1>2, GraphFields
<1>10. Matched(h)
  BY <1>9, NullAssumption DEF Matched
<1>11. \A o \in Op :
         /\ DOMAIN h.inrefs[o] = DOMAIN g.inrefs[o]
         /\ \A i \in DOMAIN g.inrefs[o] :
              h.inrefs[o][i] = IF g.inrefs[o][i] = vn THEN Null ELSE g.inrefs[o][i]
  BY <1>4
<1> QED BY <1>7, <1>8, <1>9, <1>10, <1>11 DEF h

\* The slots of op are gone.
NoInputs(g, op) == [g EXCEPT !.inrefs[op] = << >>]

\* Slots that are empty already may go.
LEMMA DropInputs ==
  ASSUME NEW g \in DefUseGraph, Counted(g), NEW op \in Op, \A v \in Varnode : g.uses[v][op] = 0
  PROVE  LET h == NoInputs(g, op)
         IN  /\ h \in DefUseGraph /\ Counted(h)
             /\ h.output = g.output /\ h.def = g.def
             /\ OthersKept(g, h, op) /\ h.inrefs[op] = << >>
<1> DEFINE h == NoInputs(g, op)
           r == [g.inrefs EXCEPT ![op] = << >>]
<1>1. h = [g EXCEPT !.inrefs = r]
  BY Zenon DEF NoInputs
<1>2. r \in [Op -> Seq(Varnode \union {Null})]
  BY GraphFields, EmptySeq
<1> HIDE DEF h, r
<1>3. /\ h.inrefs = r /\ h.uses = g.uses /\ h.output = g.output /\ h.def = g.def
      /\ h \in DefUseGraph
  BY <1>1, <1>2 DEF DefUseGraph
<1>4. OthersKept(g, h, op) /\ h.inrefs[op] = << >>
  BY <1>3, GraphFields DEF OthersKept, r
<1>5. \A v \in Varnode : Cardinality(Slots(h, op, v)) = 0
  <2>1. \A v \in Varnode : Slots(h, op, v) = {}
    BY <1>4 DEF Slots
  <2> QED BY <2>1, FS_EmptySet
<1>6. Counted(h)
  BY <1>3, <1>4, <1>5, CountOneOp
<1> QED BY <1>3, <1>4, <1>6 DEF h

\* What op_destroy leaves: every slot that read the output of p is empty.
Destroyed(g, h, p) ==
  /\ h \in DefUseGraph /\ Counted(h) /\ Matched(h)
  /\ h.inrefs[p] = << >> /\ h.output[p] = Null
  /\ \A o \in Op \ {p} :
       /\ h.output[o] = g.output[o]
       /\ DOMAIN h.inrefs[o] = DOMAIN g.inrefs[o]
       /\ \A i \in DOMAIN g.inrefs[o] :
            h.inrefs[o][i] = IF g.inrefs[o][i] = g.output[p] THEN Null ELSE g.inrefs[o][i]
  /\ \A v \in Varnode : h.def[v] = IF v = g.output[p] THEN Null ELSE g.def[v]

LEMMA DestroyOp ==
  ASSUME NEW g \in DefUseGraph, Counted(g), Matched(g), NEW p \in Op
  PROVE  Destroyed(g, NoInputs(op_destroy(g, p), p), p)
<1> DEFINE out == g.output[p]
           f1 == IF out = Null THEN g ELSE destroy_varnode(g, out)
           f2 == UnsetAll(f1, p)
           h == NoInputs(f2, p)
<1>1. /\ f1 \in DefUseGraph /\ Counted(f1) /\ Matched(f1) /\ f1.output[p] = Null
      /\ \A o \in Op \ {p} :
           /\ f1.output[o] = g.output[o]
           /\ DOMAIN f1.inrefs[o] = DOMAIN g.inrefs[o]
           /\ \A i \in DOMAIN g.inrefs[o] :
                f1.inrefs[o][i] = IF g.inrefs[o][i] = out THEN Null ELSE g.inrefs[o][i]
      /\ \A v \in Varnode : f1.def[v] = IF v = out THEN Null ELSE g.def[v]
  <2>1. CASE out = Null
    BY <2>1, NullAssumption
  <2>2. CASE out # Null
    <3>1. out \in Varnode /\ g.def[out] = p
      BY <2>2, GraphFields DEF Matched
    <3>2. f1 = destroy_varnode(g, out)
      BY <2>2
    <3> HIDE DEF f1, out
    <3>3. /\ f1 \in DefUseGraph /\ Counted(f1) /\ Matched(f1)
          /\ \A o \in Op :
               /\ DOMAIN f1.inrefs[o] = DOMAIN g.inrefs[o]
               /\ \A i \in DOMAIN g.inrefs[o] :
                    f1.inrefs[o][i] = IF g.inrefs[o][i] = out THEN Null ELSE g.inrefs[o][i]
          /\ \A o \in Op : f1.output[o] = IF g.def[out] = o THEN Null ELSE g.output[o]
          /\ \A v \in Varnode : f1.def[v] = IF v = out THEN Null ELSE g.def[v]
      BY <3>1, <3>2, DestroyVarnode
    <3>4. f1.output[p] = Null /\ \A o \in Op \ {p} : f1.output[o] = g.output[o]
      BY <3>1, <3>3
    <3> QED BY <3>3, <3>4
  <2> QED BY <2>1, <2>2
<1> HIDE DEF f1
<1>2. /\ f2 \in DefUseGraph /\ Counted(f2)
      /\ f2.output = f1.output /\ f2.def = f1.def
      /\ OthersKept(f1, f2, p)
      /\ \A v \in Varnode : f2.uses[v][p] = 0
  BY <1>1, UnsetEverySlot
<1> HIDE DEF f2
<1>3. /\ h \in DefUseGraph /\ Counted(h)
      /\ h.output = f2.output /\ h.def = f2.def
      /\ OthersKept(f2, h, p) /\ h.inrefs[p] = << >>
  BY <1>2, DropInputs
<1>4. h = NoInputs(op_destroy(g, p), p)
  BY DEF op_destroy, f1, f2
<1> HIDE DEF h
<1>5. Matched(h)
  BY <1>1, <1>2, <1>3 DEF Matched
<1>6. \A o \in Op \ {p} : h.inrefs[o] = f1.inrefs[o]
  BY <1>2, <1>3 DEF OthersKept
<1> QED BY <1>1, <1>2, <1>3, <1>4, <1>5, <1>6 DEF Destroyed

LEMMA ToCopyInput ==
  ASSUME NEW g \in DefUseGraph, Counted(g), NEW op \in Op, NEW in \in Varnode
  PROVE  LET h == to_copy(g, op, in)
         IN  /\ h \in DefUseGraph /\ Counted(h)
             /\ h.output = g.output /\ h.def = g.def
             /\ OthersKept(g, h, op)
             /\ Len(h.inrefs[op]) = 1 /\ h.inrefs[op][1] = in
<1> DEFINE f1 == UnsetAll(g, op)
           f2 == NoInputs(f1, op)
           h == op_set_input(f2, op, in, 1)
<1>1. to_copy(g, op, in) = h
  BY DEF to_copy, NoInputs
<1>2. /\ f1 \in DefUseGraph /\ Counted(f1)
      /\ f1.output = g.output /\ f1.def = g.def
      /\ OthersKept(g, f1, op)
      /\ \A v \in Varnode : f1.uses[v][op] = 0
  BY UnsetEverySlot
<1> HIDE DEF f1
<1>3. /\ f2 \in DefUseGraph /\ Counted(f2)
      /\ f2.output = f1.output /\ f2.def = f1.def
      /\ OthersKept(f1, f2, op) /\ f2.inrefs[op] = << >>
  BY <1>2, DropInputs
<1> HIDE DEF f2
<1>4. Len(f2.inrefs[op]) = 0 /\ 1 \in 1 .. Len(f2.inrefs[op]) + 1
  BY <1>3
<1>5. InputSet(f2, h, op, in, 1)
  BY <1>3, <1>4, SetInput
<1> HIDE DEF h
<1>6. OthersKept(g, h, op)
  BY <1>2, <1>3, <1>5 DEF OthersKept, InputSet
<1> QED BY <1>1, <1>2, <1>3, <1>4, <1>5, <1>6 DEF InputSet

LEMMA MakeOp ==
  ASSUME NEW g \in DefUseGraph, Counted(g), Matched(g), NEW op \in Op, g.output[op] = Null,
         NEW ins \in Seq(Varnode), NEW out \in Varnode \union {Null},
         out # Null => g.def[out] = Null
  PROVE  LET h == newop(g, op, out, ins)
         IN  /\ h \in DefUseGraph /\ Counted(h) /\ Matched(h)
             /\ OthersKept(g, h, op) /\ h.inrefs[op] = ins
             /\ \A o \in Op : h.output[o] = IF o = op THEN out ELSE g.output[o]
             /\ \A v \in Varnode : h.def[v] = IF v = out THEN op ELSE g.def[v]
<1> DEFINE h == newop(g, op, out, ins)
           count(v) == Cardinality({i \in DOMAIN ins : ins[i] = v})
<1>1. /\ h = [inrefs |-> h.inrefs, output |-> h.output, uses |-> h.uses, def |-> h.def]
      /\ h.inrefs = [g.inrefs EXCEPT ![op] = ins]
      /\ h.output = [g.output EXCEPT ![op] = out]
      /\ h.uses = [v \in Varnode |-> [g.uses[v] EXCEPT ![op] = count(v)]]
      /\ h.def = [v \in Varnode |-> IF v = out THEN op ELSE g.def[v]]
  BY DEF newop
<1> HIDE DEF h
<1>2. ins \in Seq(Varnode \union {Null})
  BY SeqDef
<1>3. OthersKept(g, h, op) /\ h.inrefs[op] = ins
  BY <1>1, GraphFields DEF OthersKept
<1>4. \A v \in Varnode : Slots(h, op, v) = {i \in DOMAIN ins : ins[i] = v}
  BY <1>3 DEF Slots
<1>5. \A v \in Varnode : count(v) \in Nat
  <2> TAKE v \in Varnode
  <2>1. {i \in DOMAIN ins : ins[i] = v} \subseteq 1 .. Len(ins) /\ Len(ins) \in Nat
    OBVIOUS
  <2>2. IsFiniteSet(1 .. Len(ins))
    BY <2>1, FS_Interval
  <2> QED BY <2>1, <2>2, FS_Subset, FS_CardinalityType
<1> HIDE DEF count
<1>6. ASSUME NEW v \in Varnode
      PROVE  /\ h.uses[v] \in [Op -> Nat] /\ h.uses[v][op] = count(v)
             /\ \A o \in Op \ {op} : h.uses[v][o] = g.uses[v][o]
  <2>1. h.uses[v] = [g.uses[v] EXCEPT ![op] = count(v)]
    BY <1>1
  <2>2. g.uses[v] \in [Op -> Nat] /\ count(v) \in Nat
    BY <1>5, GraphFields
  <2> QED BY <2>1, <2>2
<1>7. h \in DefUseGraph
  <2>1. h.inrefs \in [Op -> Seq(Varnode \union {Null})]
    BY <1>1, <1>2, GraphFields
  <2>2. h.output \in [Op -> Varnode \union {Null}] /\ h.def \in [Varnode -> Op \union {Null}]
    BY <1>1, GraphFields
  <2>3. h.uses \in [Varnode -> [Op -> Nat]]
    BY <1>1, <1>6
  <2> QED BY <2>1, <2>2, <2>3, <1>1 DEF DefUseGraph
<1>8. Counted(h)
  <2>1. \A v \in Varnode : h.uses[v][op] = Cardinality(Slots(h, op, v))
    BY <1>4, <1>6 DEF count
  <2> QED BY <2>1, <1>3, <1>6, <1>7, CountOneOp
<1>9. /\ \A o \in Op : h.output[o] = IF o = op THEN out ELSE g.output[o]
      /\ \A v \in Varnode : h.def[v] = IF v = out THEN op ELSE g.def[v]
  BY <1>1, GraphFields
<1>10. Matched(h)
  BY <1>9, NullAssumption DEF Matched
<1> QED BY <1>3, <1>7, <1>8, <1>9, <1>10 DEF h

(***************************************************************************)
(* The invariant.                                                          *)
(***************************************************************************)

\* A walk takes the source of a COPY, so it must have one.
CopiesRead == \A o \in alive : opcode[o] = "COPY" => f.inrefs[o] # << >>

\* What is left to do for each reader is what it still reads.
WalkCounts ==
  /\ walk.kind = "reset_out_use" =>
       /\ walk.op \in alive /\ walk.todo[walk.op] = 0
       /\ opcode[walk.op] = "COPY" => f.inrefs[walk.op][1] # f.output[walk.op]
       /\ f.output[walk.op] = Null => walk.todo = NoUse
       /\ f.output[walk.op] # Null =>
            \A o \in Op \ {walk.op} : walk.todo[o] = f.uses[f.output[walk.op]][o]
  /\ walk.kind = "total_replace" =>
       /\ walk.old \in bank /\ walk.new \in bank /\ walk.old # walk.new
       /\ \A o \in Op : walk.todo[o] = f.uses[walk.old][o]

IInv == TypeOK /\ Counted(f) /\ Matched(f) /\ NoDangling /\ CopiesRead /\ WalkCounts

\* What the invariant says, in the form the steps need.
LEMMA Facts ==
  ASSUME IInv
  PROVE  /\ f \in DefUseGraph /\ Counted(f) /\ Matched(f)
         /\ opcode \in [Op -> {"COPY", "OTHER"}]
         /\ alive \subseteq Op /\ bank \subseteq Varnode /\ input \subseteq bank
         /\ \A o \in Op : f.output[o] # Null => o \in alive /\ f.output[o] \in bank
         /\ \A v \in Varnode : f.def[v] # Null => v \in bank /\ f.def[v] \in alive
         /\ \A o \in Op, i \in Nat : i \in DOMAIN f.inrefs[o] =>
              o \in alive /\ f.inrefs[o][i] \in bank
<1>1. f \in DefUseGraph /\ Counted(f) /\ Matched(f) /\ bank \subseteq Varnode
  BY DEF IInv, TypeOK, DefUseGraph
<1>2. \A o \in Op : f.output[o] # Null => o \in alive /\ f.output[o] \in bank
  BY DEF IInv, NoDangling
<1>3. \A v \in Varnode : f.def[v] # Null => v \in bank /\ f.def[v] \in alive
  <2> SUFFICES ASSUME NEW v \in Varnode, f.def[v] # Null PROVE v \in bank /\ f.def[v] \in alive
    OBVIOUS
  <2>1. f.def[v] \in Op /\ f.output[f.def[v]] = v
    BY <1>1, GraphFields DEF Matched
  <2>2. v # Null
    BY NullAssumption
  <2> QED BY <2>1, <2>2, <1>2 DEF IInv, NoDangling
<1>4. ASSUME NEW o \in Op, NEW i \in DOMAIN f.inrefs[o]
      PROVE  o \in alive /\ f.inrefs[o][i] \in bank
  <2>1. o \in alive
    BY <1>4 DEF IInv, NoDangling
  <2>2. f.inrefs[o][i] # Null
    BY <2>1 DEF IInv, NoDangling, Filled
  <2> QED BY <2>1, <2>2 DEF IInv, NoDangling
<1> QED BY <1>1, <1>2, <1>3, <1>4 DEF IInv, TypeOK

\* No walk is running after the step.
LEMMA IdleAfter ==
  ASSUME walk' = Idle
  PROVE  WalkCounts' /\ WalkOK'
  BY DEF WalkCounts, WalkOK, Idle

LEMMA NewOpStep ==
  ASSUME IInv, NEW op \in Op, NEW opc \in {"COPY", "OTHER"}, NEW out \in Varnode \union {Null},
         NEW ins \in SeqOf(Varnode, MaxInputs) \ {<< >>}, NewOp(op, opc, out, ins)
  PROVE  IInv'
<1>1. ins \in Seq(Varnode) /\ ins # << >>
  BY FiniteAssumption, SeqDef DEF SeqOf
<1>2. f.output[op] = Null /\ (out # Null => f.def[out] = Null)
  BY Facts DEF NewOp
<1>3. /\ f' \in DefUseGraph /\ Counted(f') /\ Matched(f')
      /\ OthersKept(f, f', op) /\ f'.inrefs[op] = ins
      /\ \A o \in Op : f'.output[o] = IF o = op THEN out ELSE f.output[o]
      /\ \A v \in Varnode : f'.def[v] = IF v = out THEN op ELSE f.def[v]
  BY <1>1, <1>2, Facts, MakeOp DEF NewOp
<1>4. \A i \in DOMAIN ins : ins[i] \in Range(ins) /\ ins[i] \in Varnode
  BY <1>1 DEF Range
<1>5. Range(ins) \subseteq Varnode
  BY <1>1 DEF Range
<1>6. /\ alive' = alive \union {op} /\ walk' = Idle /\ op \notin alive
      /\ bank' = bank \union Range(ins) \union ({out} \ {Null})
      /\ opcode' = [opcode EXCEPT ![op] = opc] /\ input' = input
  BY DEF NewOp
<1>7. TypeOK'
  BY <1>3, <1>5, <1>6, Facts, IdleAfter DEF TypeOK, DefUseGraph
<1>8. NoDangling'
  <2>1. ASSUME NEW o \in Op
        PROVE  /\ f'.output[o] \in bank' \union {Null}
               /\ \A i \in DOMAIN f'.inrefs[o] : f'.inrefs[o][i] \in bank' \union {Null}
               /\ o \in alive' => Filled(f', o)
               /\ o \notin alive' => f'.inrefs[o] = << >> /\ f'.output[o] = Null
    <3>1. CASE o = op
      BY <3>1, <1>3, <1>4, <1>6, NullAssumption DEF Filled
    <3>2. CASE o # op
      BY <3>2, <1>3, <1>6 DEF IInv, NoDangling, OthersKept, Filled
    <3> QED BY <3>1, <3>2
  <2>2. \A v \in Varnode : f'.def[v] \in alive' \union {Null}
    BY <1>3, <1>6 DEF IInv, NoDangling
  <2> QED BY <2>1, <2>2, <1>6, Facts DEF NoDangling
<1>9. CopiesRead'
  BY <1>1, <1>3, <1>6, Facts DEF IInv, CopiesRead, OthersKept
<1> QED BY <1>3, <1>6, <1>7, <1>8, <1>9, IdleAfter DEF IInv

\* A step that does no more than change inputs of one op to varnodes of the bank.
LEMMA InputsEdited ==
  ASSUME IInv, NEW op \in alive, alive' = alive, bank \subseteq bank', bank' \subseteq Varnode,
         f' \in DefUseGraph, Counted(f'), f'.output = f.output, f'.def = f.def,
         OthersKept(f, f', op),
         \A i \in DOMAIN f'.inrefs[op] : f'.inrefs[op][i] \in bank'
  PROVE  Matched(f') /\ NoDangling'
<1>1. Matched(f')
  BY Facts DEF Matched
<1>2. ASSUME NEW o \in Op
      PROVE  /\ f'.output[o] \in bank' \union {Null}
             /\ \A i \in DOMAIN f'.inrefs[o] : f'.inrefs[o][i] \in bank' \union {Null}
             /\ o \in alive' => Filled(f', o)
             /\ o \notin alive' => f'.inrefs[o] = << >> /\ f'.output[o] = Null
  <2>1. CASE o = op
    BY <2>1, NullAssumption DEF IInv, NoDangling, Filled
  <2>2. CASE o # op
    BY <2>2 DEF IInv, NoDangling, OthersKept, Filled
  <2> QED BY <2>1, <2>2
<1>3. \A v \in Varnode : f'.def[v] \in alive' \union {Null}
  BY DEF IInv, NoDangling
<1> QED BY <1>1, <1>2, <1>3, Facts DEF NoDangling

\* An input that was set is in the bank, and the other inputs of the op are as before.
LEMMA InputSetInBank ==
  ASSUME IInv, NEW op \in alive, NEW vn \in Varnode, NEW slot \in 1 .. Len(f.inrefs[op]) + 1,
         InputSet(f, f', op, vn, slot), bank' = bank \union {vn}
  PROVE  /\ \A i \in DOMAIN f'.inrefs[op] : f'.inrefs[op][i] \in bank'
         /\ f'.inrefs[op] # << >>
<1>1. op \in Op
  BY Facts
<1>2. DOMAIN f'.inrefs[op] = 1 .. Len(f'.inrefs[op]) /\ DOMAIN f.inrefs[op] = 1 .. Len(f.inrefs[op])
  BY <1>1, Facts, InputTypes DEF InputSet
<1>3. Len(f.inrefs[op]) \in Nat
  BY <1>1, Facts, InputTypes
<1>4. Len(f'.inrefs[op]) = IF slot > Len(f.inrefs[op]) THEN slot ELSE Len(f.inrefs[op])
  BY DEF InputSet
<1>5. ASSUME NEW i \in DOMAIN f'.inrefs[op] PROVE f'.inrefs[op][i] \in bank'
  <2>1. CASE i = slot
    BY <2>1, <1>2 DEF InputSet
  <2>2. CASE i # slot
    <3>1. i \in DOMAIN f.inrefs[op] /\ i \in Nat
      BY <2>2, <1>2, <1>3, <1>4
    <3>2. f.inrefs[op][i] \in bank
      BY <3>1, <1>1, Facts
    <3> QED BY <3>2, <2>2, <1>2 DEF InputSet
  <2> QED BY <2>1, <2>2
<1>6. slot \in DOMAIN f'.inrefs[op]
  BY <1>2, <1>3, <1>4
<1> QED BY <1>5, <1>6

LEMMA OpSetInputStep ==
  ASSUME IInv, NEW op \in Op, NEW vn \in Varnode, NEW slot \in 1 .. MaxInputs,
         OpSetInput(op, vn, slot)
  PROVE  IInv'
<1>1. /\ walk = Idle /\ op \in alive /\ slot \in 1 .. Len(f.inrefs[op]) + 1
      /\ f' = op_set_input(f, op, vn, slot)
      /\ bank' = bank \union {vn}
      /\ opcode' = opcode /\ alive' = alive /\ input' = input /\ walk' = walk
  BY DEF OpSetInput
<1>2. InputSet(f, f', op, vn, slot)
  BY <1>1, Facts, SetInput
<1>3. /\ \A i \in DOMAIN f'.inrefs[op] : f'.inrefs[op][i] \in bank'
      /\ f'.inrefs[op] # << >>
  BY <1>1, <1>2, InputSetInBank
<1>4. bank \subseteq bank' /\ bank' \subseteq Varnode
  BY <1>1, Facts
<1>5. Matched(f') /\ NoDangling'
  BY <1>1, <1>2, <1>3, <1>4, InputsEdited DEF InputSet
<1>6. TypeOK'
  BY <1>1, <1>2, <1>4, Facts, IdleAfter DEF TypeOK, InputSet, DefUseGraph
<1>7. CopiesRead'
  BY <1>1, <1>2, <1>3, Facts DEF IInv, CopiesRead, InputSet, OthersKept
<1> QED BY <1>1, <1>2, <1>5, <1>6, <1>7, IdleAfter DEF IInv, InputSet

LEMMA ToCopyStep ==
  ASSUME IInv, NEW op \in Op, NEW in \in Varnode, ToCopy(op, in)
  PROVE  IInv'
<1>1. /\ walk = Idle /\ op \in alive
      /\ f' = to_copy(f, op, in)
      /\ bank' = bank \union {in}
      /\ opcode' = [opcode EXCEPT ![op] = "COPY"]
      /\ alive' = alive /\ input' = input /\ walk' = walk
  BY DEF ToCopy
<1>2. /\ f' \in DefUseGraph /\ Counted(f')
      /\ f'.output = f.output /\ f'.def = f.def
      /\ OthersKept(f, f', op)
      /\ Len(f'.inrefs[op]) = 1 /\ f'.inrefs[op][1] = in
  BY <1>1, Facts, ToCopyInput
<1>3. DOMAIN f'.inrefs[op] = 1 .. 1
  BY <1>2, InputTypes
<1>4. \A i \in DOMAIN f'.inrefs[op] : f'.inrefs[op][i] \in bank'
  BY <1>1, <1>2, <1>3
<1>5. bank \subseteq bank' /\ bank' \subseteq Varnode
  BY <1>1, Facts
<1>6. Matched(f') /\ NoDangling'
  BY <1>1, <1>2, <1>4, <1>5, InputsEdited
<1>7. TypeOK'
  BY <1>1, <1>2, <1>5, Facts, IdleAfter DEF TypeOK, DefUseGraph
<1>8. CopiesRead'
  BY <1>1, <1>2, <1>3, Facts DEF IInv, CopiesRead, OthersKept
<1> QED BY <1>1, <1>2, <1>6, <1>7, <1>8, IdleAfter DEF IInv

LEMMA OpRemoveInputStep ==
  ASSUME IInv, NEW op \in Op, NEW slot \in DOMAIN f.inrefs[op], OpRemoveInput(op, slot)
  PROVE  IInv'
<1>1. /\ walk = Idle /\ op \in alive /\ opcode[op] # "COPY"
      /\ f' = op_remove_input(f, op, slot)
      /\ opcode' = opcode /\ alive' = alive /\ bank' = bank /\ input' = input /\ walk' = walk
  BY DEF OpRemoveInput
<1>2. \A j \in DOMAIN f.inrefs[op] : f.inrefs[op][j] \in bank
  BY Facts, InputTypes
<1>3. f.inrefs[op][slot] # Null
  BY <1>2, Facts, NullAssumption
<1>4. /\ f' \in DefUseGraph /\ Counted(f')
      /\ f'.output = f.output /\ f'.def = f.def
      /\ OthersKept(f, f', op)
      /\ \A k \in DOMAIN f'.inrefs[op] : \E j \in DOMAIN f.inrefs[op] :
           j # slot /\ f'.inrefs[op][k] = f.inrefs[op][j]
  BY <1>1, <1>3, Facts, RemoveInput
<1>5. \A i \in DOMAIN f'.inrefs[op] : f'.inrefs[op][i] \in bank'
  BY <1>1, <1>2, <1>4
<1>6. Matched(f') /\ NoDangling'
  BY <1>1, <1>4, <1>5, Facts, InputsEdited
<1>7. TypeOK'
  BY <1>1, <1>4, Facts, IdleAfter DEF TypeOK, DefUseGraph
<1>8. CopiesRead'
  BY <1>1, <1>4, Facts DEF IInv, CopiesRead, OthersKept
<1> QED BY <1>1, <1>4, <1>6, <1>7, <1>8, IdleAfter DEF IInv

LEMMA OpSetOutputStep ==
  ASSUME IInv, NEW op \in Op, NEW vn \in Varnode, OpSetOutput(op, vn)
  PROVE  IInv'
<1>1. /\ walk = Idle /\ op \in alive
      /\ f' = op_set_output(f, op, vn)
      /\ bank' = bank \union {vn}
      /\ opcode' = opcode /\ alive' = alive /\ input' = input /\ walk' = walk
  BY DEF OpSetOutput
<1>2. /\ f' \in DefUseGraph /\ Matched(f')
      /\ f'.inrefs = f.inrefs /\ f'.uses = f.uses
      /\ \A o \in Op : f'.output[o] \in {f.output[o], Null} \union (IF o = op THEN {vn} ELSE {})
      /\ \A v \in Varnode : f'.def[v] \in {f.def[v], Null} \union (IF v = vn THEN {op} ELSE {})
  BY <1>1, Facts, SetOutput
<1>3. Counted(f')
  BY <1>2, Facts DEF Counted, Slots
<1>4. NoDangling'
  <2>1. ASSUME NEW o \in Op
        PROVE  /\ f'.output[o] \in bank' \union {Null}
               /\ \A i \in DOMAIN f'.inrefs[o] : f'.inrefs[o][i] \in bank' \union {Null}
               /\ o \in alive' => Filled(f', o)
               /\ o \notin alive' => f'.inrefs[o] = << >> /\ f'.output[o] = Null
    BY <1>1, <1>2 DEF IInv, NoDangling, Filled
  <2>2. \A v \in Varnode : f'.def[v] \in alive' \union {Null}
    BY <1>1, <1>2 DEF IInv, NoDangling
  <2> QED BY <2>1, <2>2, <1>1, Facts DEF NoDangling
<1>5. TypeOK'
  BY <1>1, <1>2, Facts, IdleAfter DEF TypeOK, DefUseGraph
<1>6. CopiesRead'
  BY <1>1, <1>2 DEF IInv, CopiesRead
<1> QED BY <1>1, <1>2, <1>3, <1>4, <1>5, <1>6, IdleAfter DEF IInv

LEMMA SetInputVarnodeStep ==
  ASSUME IInv, NEW vn \in Varnode, SetInputVarnode(vn)
  PROVE  IInv'
<1>1. /\ walk' = Idle /\ vn \in bank /\ input' = input \union {vn}
      /\ f' = f /\ opcode' = opcode /\ alive' = alive /\ bank' = bank
  BY DEF SetInputVarnode
<1>2. TypeOK' /\ NoDangling' /\ CopiesRead'
  BY <1>1, Facts, IdleAfter DEF IInv, TypeOK, NoDangling, Filled, CopiesRead, DefUseGraph
<1> QED BY <1>1, <1>2, Facts, IdleAfter DEF IInv

LEMMA DeleteVarnodeStep ==
  ASSUME IInv, NEW vn \in Varnode, DeleteVarnode(vn)
  PROVE  IInv'
<1>1. /\ walk' = Idle /\ f.uses[vn] = NoUse /\ f.def[vn] = Null
      /\ bank' = bank \ {vn} /\ input' = input \ {vn}
      /\ f' = f /\ opcode' = opcode /\ alive' = alive
  BY DEF DeleteVarnode, has_no_use
<1>2. \A o \in Op : f.output[o] # vn
  BY <1>1, Facts, NullAssumption DEF Matched
<1>3. \A o \in Op : \A i \in DOMAIN f.inrefs[o] : f.inrefs[o][i] # vn
  <2> TAKE o \in Op
  <2>1. Cardinality(Slots(f, o, vn)) = 0
    BY <1>1, Facts DEF Counted, NoUse
  <2>2. Slots(f, o, vn) = {}
    BY <2>1, Facts, SlotsFinite, FS_EmptySet
  <2> QED BY <2>2 DEF Slots
<1>4. NoDangling'
  <2>1. ASSUME NEW o \in Op
        PROVE  /\ f'.output[o] \in bank' \union {Null}
               /\ \A i \in DOMAIN f'.inrefs[o] : f'.inrefs[o][i] \in bank' \union {Null}
    BY <1>1, <1>2, <1>3 DEF IInv, NoDangling
  <2> QED BY <2>1, <1>1 DEF IInv, NoDangling, Filled
<1>5. TypeOK' /\ CopiesRead'
  BY <1>1, Facts, IdleAfter DEF IInv, TypeOK, CopiesRead, DefUseGraph
<1> QED BY <1>1, <1>4, <1>5, Facts, IdleAfter DEF IInv

\* Destroying an op that no other op reads.
LEMMA DestroyStep ==
  ASSUME IInv, NEW p \in alive, Destroy(p), walk' = Idle,
         f.output[p] # Null => \A o \in Op \ {p} : f.uses[f.output[p]][o] = 0
  PROVE  IInv'
<1> DEFINE out == f.output[p]
<1>1. /\ f' = NoInputs(op_destroy(f, p), p)
      /\ bank' = bank \ {out} /\ input' = input \ {out}
      /\ alive' = alive \ {p} /\ opcode' = opcode
  BY DEF Destroy, NoInputs
<1>2. p \in Op
  BY Facts
<1>3. Destroyed(f, f', p)
  BY <1>1, <1>2, Facts, DestroyOp
<1>4. out \in Varnode \union {Null}
  BY <1>2, Facts, GraphFields
<1>5. ASSUME NEW o \in Op \ {p}
      PROVE  /\ DOMAIN f'.inrefs[o] = DOMAIN f.inrefs[o]
             /\ \A i \in DOMAIN f.inrefs[o] :
                  f'.inrefs[o][i] = f.inrefs[o][i] /\ f.inrefs[o][i] # out /\ f.inrefs[o][i] \in bank
  <2>1. \A i \in DOMAIN f.inrefs[o] : f.inrefs[o][i] \in bank
    BY Facts, InputTypes
  <2>2. \A i \in DOMAIN f.inrefs[o] : f.inrefs[o][i] # out
    <3>1. CASE out = Null
      BY <3>1, <2>1, Facts, NullAssumption
    <3>2. CASE out # Null
      <4>1. Cardinality(Slots(f, o, out)) = 0
        BY <3>2, <1>4, Facts DEF Counted
      <4>2. Slots(f, o, out) = {}
        BY <4>1, Facts, SlotsFinite, FS_EmptySet
      <4> QED BY <4>2 DEF Slots
    <3> QED BY <3>1, <3>2
  <2> QED BY <2>1, <2>2, <1>3 DEF Destroyed
<1>6. ASSUME NEW o \in Op \ {p}
      PROVE  f'.output[o] \in bank' \union {Null}
  <2>1. f'.output[o] = f.output[o]
    BY <1>3 DEF Destroyed
  <2>2. f.output[o] # Null => f.output[o] # out
    BY <1>2, <1>4, Facts, GraphFields DEF Matched
  <2> QED BY <2>1, <2>2, <1>1, Facts
<1>7. ASSUME NEW v \in Varnode
      PROVE  f'.def[v] \in alive' \union {Null}
  <2>1. f'.def[v] = IF v = out THEN Null ELSE f.def[v]
    BY <1>3 DEF Destroyed
  <2>2. f.def[v] = p => v = out
    BY <1>2, Facts DEF Matched
  <2> QED BY <2>1, <2>2, <1>1, Facts
<1>8. NoDangling'
  <2>1. ASSUME NEW o \in Op
        PROVE  /\ f'.output[o] \in bank' \union {Null}
               /\ \A i \in DOMAIN f'.inrefs[o] : f'.inrefs[o][i] \in bank' \union {Null}
               /\ o \in alive' => Filled(f', o)
               /\ o \notin alive' => f'.inrefs[o] = << >> /\ f'.output[o] = Null
    <3>1. CASE o = p
      BY <3>1, <1>1, <1>3 DEF Destroyed
    <3>2. CASE o # p
      <4>1. Filled(f', o) /\ \A i \in DOMAIN f'.inrefs[o] : f'.inrefs[o][i] \in bank'
        BY <3>2, <1>1, <1>5, Facts, NullAssumption DEF Filled
      <4>2. o \notin alive => f'.output[o] = Null /\ DOMAIN f'.inrefs[o] = {}
        BY <3>2, <1>3, <1>5 DEF IInv, NoDangling, Destroyed
      <4>3. DOMAIN f'.inrefs[o] = {} => f'.inrefs[o] = << >>
        BY <1>3, InputTypes, EmptySeq DEF Destroyed
      <4> QED BY <4>1, <4>2, <4>3, <3>2, <1>1, <1>6
    <3> QED BY <3>1, <3>2
  <2> QED BY <2>1, <1>1, <1>7, Facts DEF NoDangling
<1>9. TypeOK'
  BY <1>1, <1>3, Facts, IdleAfter DEF TypeOK, Destroyed, DefUseGraph
<1>10. CopiesRead'
  <2> SUFFICES ASSUME NEW o \in alive', opcode'[o] = "COPY" PROVE f'.inrefs[o] # << >>
    BY DEF CopiesRead
  <2>1. o \in Op \ {p} /\ o \in alive /\ f.inrefs[o] # << >>
    BY <1>1, Facts DEF IInv, CopiesRead
  <2>2. DOMAIN f.inrefs[o] # {}
    BY <2>1, Facts, InputTypes, EmptySeq
  <2> QED BY <2>1, <2>2, <1>5
<1> QED BY <1>3, <1>8, <1>9, <1>10, IdleAfter DEF IInv, Destroyed

LEMMA OpDestroyStep ==
  ASSUME IInv, NEW p \in Op, OpDestroy(p)
  PROVE  IInv'
  BY DestroyStep DEF OpDestroy

(***************************************************************************)
(* The walks.                                                              *)
(***************************************************************************)

\* get_slot finds a slot of every op that has a use.
LEMMA GetSlot ==
  ASSUME NEW g \in DefUseGraph, Counted(g), NEW o \in Op, NEW v \in Varnode, g.uses[v][o] # 0
  PROVE  /\ get_slot(g, o, v) \in DOMAIN g.inrefs[o]
         /\ g.inrefs[o][get_slot(g, o, v)] = v
<1> DEFINE I == {i \in 1 .. Len(g.inrefs[o]) : g.inrefs[o][i] = v}
           slot == get_slot(g, o, v)
<1>1. slot = IF I # {} THEN Min(I) ELSE 0
  BY DEF get_slot, SelectInSeq
<1>2. Slots(g, o, v) # {}
  BY FS_EmptySet DEF Counted
<1>3. I # {} /\ I \in SUBSET Nat
  BY <1>2, InputTypes DEF Slots
<1>4. \A i \in I : i \in DOMAIN g.inrefs[o] /\ g.inrefs[o][i] = v
  BY InputTypes
<1> HIDE DEF I, slot
<1>5. Min(I) \in I
  BY <1>3, Smallest DEF Min
<1>6. slot \in I
  BY <1>1, <1>3, <1>5
<1> QED BY <1>4, <1>6 DEF slot

\* A running walk, by its kind.
LEMMA WalkTypes ==
  ASSUME IInv
  PROVE  /\ walk.kind = "reset_out_use" =>
              walk.op \in Op /\ walk = Resetting(walk.op, walk.todo) /\ walk.todo \in [Op -> Nat]
         /\ walk.kind = "total_replace" =>
              /\ walk.old \in Varnode /\ walk.new \in Varnode
              /\ walk = Replacing(walk.old, walk.new, walk.todo) /\ walk.todo \in [Op -> Nat]
  BY DEF IInv, TypeOK, WalkOK, Idle, Resetting, Replacing

LEMMA OpDestroySSAStep ==
  ASSUME IInv, NEW p \in Op, OpDestroySSA(p)
  PROVE  IInv'
<1>1. /\ p \in alive /\ walk' = Resetting(p, Readers(p))
      /\ opcode[p] = "COPY" => f.inrefs[p][1] # f.output[p]
      /\ f' = f /\ opcode' = opcode /\ alive' = alive /\ bank' = bank /\ input' = input
  BY DEF OpDestroySSA
<1>2. f.output[p] # Null => f.output[p] \in Varnode /\ f.uses[f.output[p]] \in [Op -> Nat]
  BY Facts, GraphFields
<1>3. /\ Readers(p) \in [Op -> Nat] /\ Readers(p)[p] = 0
      /\ f.output[p] = Null => Readers(p) = NoUse
      /\ f.output[p] # Null => \A o \in Op \ {p} : Readers(p)[o] = f.uses[f.output[p]][o]
  BY <1>2 DEF Readers, NoUse
<1>4. /\ walk'.kind = "reset_out_use" /\ walk'.op = p /\ walk'.todo = Readers(p)
      /\ walk' = Resetting(p, walk'.todo)
  BY <1>1 DEF Resetting
<1>5. WalkOK'
  BY <1>3, <1>4 DEF WalkOK
<1>6. WalkCounts'
  BY <1>1, <1>3, <1>4 DEF WalkCounts
<1>7. TypeOK' /\ NoDangling' /\ CopiesRead'
  BY <1>1, <1>5 DEF IInv, TypeOK, NoDangling, Filled, CopiesRead
<1> QED BY <1>1, <1>6, <1>7, Facts DEF IInv

LEMMA ResetUseStep ==
  ASSUME IInv, NEW p \in Op, NEW use \in Op, NEW vn \in Varnode, ResetUse(p, use, vn)
  PROVE  IInv'
<1> DEFINE v == f.output[p]
           todo == walk.todo
           slot == get_slot(f, use, v)
<1>1. /\ walk.kind = "reset_out_use" /\ walk.op = p /\ todo[use] > 0
      /\ vn \in IF SameLocationCopy(p) THEN {f.inrefs[p][1]} ELSE Fresh(loc[v])
      /\ f' = op_set_input(f, use, vn, slot)
      /\ bank' = bank \union {vn}
      /\ walk' = [walk EXCEPT !.todo[use] = @ - 1]
      /\ opcode' = opcode /\ alive' = alive /\ input' = input
  BY DEF ResetUse
<1>2. walk = Resetting(p, todo) /\ todo \in [Op -> Nat]
  BY <1>1, WalkTypes
<1>3. /\ p \in alive /\ todo[p] = 0
      /\ opcode[p] = "COPY" => f.inrefs[p][1] # v
      /\ v = Null => todo = NoUse
      /\ v # Null => \A o \in Op \ {p} : todo[o] = f.uses[v][o]
  BY <1>1 DEF IInv, WalkCounts
<1>4. use # p /\ v # Null
  BY <1>1, <1>2, <1>3 DEF NoUse
<1>5. v \in Varnode /\ v \in bank
  BY <1>4, Facts
<1>6. f.uses[v][use] = todo[use] /\ f.uses[v][use] # 0
  BY <1>1, <1>2, <1>3, <1>4
<1> HIDE DEF v, todo, slot
<1>7. slot \in DOMAIN f.inrefs[use] /\ f.inrefs[use][slot] = v
  BY <1>5, <1>6, Facts, GetSlot DEF slot
<1>8. slot \in Nat /\ slot \in 1 .. Len(f.inrefs[use]) + 1
  BY <1>7, Facts, InputTypes
<1>9. use \in alive
  BY <1>7, <1>8, Facts
<1>10. vn # v
  BY <1>1, <1>3, <1>5 DEF SameLocationCopy, Fresh
<1>11. InputSet(f, f', use, vn, slot)
  BY <1>1, <1>8, Facts, SetInput
<1>12. /\ f'.uses[v][use] = f.uses[v][use] - 1
       /\ \A o \in Op \ {use} : f'.uses[v][o] = f.uses[v][o]
  BY <1>5, <1>7, <1>10, <1>11, Facts, UseMoved
<1>13. /\ \A i \in DOMAIN f'.inrefs[use] : f'.inrefs[use][i] \in bank'
       /\ f'.inrefs[use] # << >>
  BY <1>1, <1>8, <1>9, <1>11, InputSetInBank
<1>14. bank \subseteq bank' /\ bank' \subseteq Varnode
  BY <1>1, Facts
<1>15. Matched(f') /\ NoDangling'
  BY <1>1, <1>9, <1>11, <1>13, <1>14, InputsEdited DEF InputSet
<1> DEFINE todo1 == [todo EXCEPT ![use] = todo[use] - 1]
<1>16. walk' = Resetting(p, todo1) /\ todo1 \in [Op -> Nat]
  <2>1. walk' = [Resetting(p, todo) EXCEPT !.todo[use] = @ - 1]
    BY <1>1, <1>2
  <2>2. todo1 \in [Op -> Nat]
    BY <1>1, <1>2
  <2>3. [Resetting(p, todo) EXCEPT !.todo[use] = @ - 1] = Resetting(p, todo1)
    BY DEF Resetting
  <2> QED BY <2>1, <2>2, <2>3
<1>17. walk'.kind = "reset_out_use" /\ walk'.op = p /\ walk'.todo = todo1
  BY <1>16 DEF Resetting
<1>18. WalkOK'
  BY <1>16, <1>17 DEF WalkOK
<1>19. WalkCounts'
  <2>1. f'.output[p] = v /\ f'.inrefs[p] = f.inrefs[p]
    BY <1>4, <1>11 DEF InputSet, OthersKept, v
  <2>2. todo1[p] = 0
    BY <1>2, <1>3, <1>4
  <2>3. \A o \in Op \ {p} : todo1[o] = f'.uses[v][o]
    BY <1>2, <1>3, <1>4, <1>12
  <2> HIDE DEF todo1
  <2>4. /\ walk'.kind # "total_replace" /\ walk'.op = p /\ walk'.todo = todo1
        /\ alive' = alive /\ opcode' = opcode
    BY <1>1, <1>17
  <2>5. f'.output[walk'.op] = v /\ f'.inrefs[walk'.op][1] = f.inrefs[p][1]
    BY <2>1, <2>4
  <2> QED BY <2>2, <2>3, <2>4, <2>5, <1>3, <1>4 DEF WalkCounts
<1>20. TypeOK'
  BY <1>1, <1>11, <1>14, <1>18, Facts DEF TypeOK, InputSet, DefUseGraph
<1>21. CopiesRead'
  BY <1>1, <1>11, <1>13, Facts DEF IInv, CopiesRead, InputSet, OthersKept
<1> QED BY <1>11, <1>15, <1>19, <1>20, <1>21 DEF IInv, InputSet

LEMMA EndResetStep ==
  ASSUME IInv, NEW p \in Op, EndReset(p)
  PROVE  IInv'
<1>1. walk = Resetting(p, NoUse) /\ Destroy(p) /\ walk' = Idle
  BY DEF EndReset
<1>2. walk.kind = "reset_out_use" /\ walk.op = p /\ walk.todo = NoUse
  BY <1>1 DEF Resetting
<1>3. p \in alive /\ (f.output[p] # Null => \A o \in Op \ {p} : NoUse[o] = f.uses[f.output[p]][o])
  BY <1>2 DEF IInv, WalkCounts
<1>4. f.output[p] # Null => \A o \in Op \ {p} : f.uses[f.output[p]][o] = 0
  BY <1>3 DEF NoUse
<1> QED BY <1>1, <1>3, <1>4, DestroyStep

LEMMA TotalReplaceStep ==
  ASSUME IInv, NEW v \in Varnode, NEW w \in Varnode, TotalReplace(v, w)
  PROVE  IInv'
<1>1. /\ v \in bank /\ w \in bank /\ v # w /\ walk' = Replacing(v, w, f.uses[v])
      /\ f' = f /\ opcode' = opcode /\ alive' = alive /\ bank' = bank /\ input' = input
  BY DEF TotalReplace
<1>2. /\ walk'.kind = "total_replace" /\ walk'.old = v /\ walk'.new = w /\ walk'.todo = f.uses[v]
      /\ walk' = Replacing(v, w, walk'.todo)
  BY <1>1 DEF Replacing
<1>3. f.uses[v] \in [Op -> Nat]
  BY Facts, GraphFields
<1>4. WalkOK'
  BY <1>2, <1>3 DEF WalkOK
<1>5. WalkCounts'
  BY <1>1, <1>2 DEF WalkCounts
<1>6. TypeOK' /\ NoDangling' /\ CopiesRead'
  BY <1>1, <1>4 DEF IInv, TypeOK, NoDangling, Filled, CopiesRead
<1> QED BY <1>1, <1>5, <1>6, Facts DEF IInv

LEMMA ReplaceUseStep ==
  ASSUME IInv, NEW use \in Op, ReplaceUse(use)
  PROVE  IInv'
<1> DEFINE v == walk.old
           w == walk.new
           todo == walk.todo
           slot == get_slot(f, use, v)
<1>1. /\ walk.kind = "total_replace" /\ todo[use] > 0
      /\ f' = op_set_input(f, use, w, slot)
      /\ walk' = [walk EXCEPT !.todo[use] = @ - 1]
      /\ opcode' = opcode /\ alive' = alive /\ bank' = bank /\ input' = input
  BY DEF ReplaceUse
<1>2. walk = Replacing(v, w, todo) /\ todo \in [Op -> Nat] /\ v \in Varnode /\ w \in Varnode
  BY <1>1, WalkTypes
<1>3. v \in bank /\ w \in bank /\ v # w /\ \A o \in Op : todo[o] = f.uses[v][o]
  BY <1>1 DEF IInv, WalkCounts
<1>4. f.uses[v][use] # 0
  BY <1>1, <1>2, <1>3
<1> HIDE DEF v, w, todo, slot
<1>5. slot \in DOMAIN f.inrefs[use] /\ f.inrefs[use][slot] = v
  BY <1>2, <1>4, Facts, GetSlot DEF slot
<1>6. slot \in Nat /\ slot \in 1 .. Len(f.inrefs[use]) + 1
  BY <1>5, Facts, InputTypes
<1>7. use \in alive
  BY <1>5, <1>6, Facts
<1>8. InputSet(f, f', use, w, slot)
  BY <1>1, <1>2, <1>6, Facts, SetInput
<1>9. /\ f'.uses[v][use] = f.uses[v][use] - 1
      /\ \A o \in Op \ {use} : f'.uses[v][o] = f.uses[v][o]
  BY <1>2, <1>3, <1>5, <1>8, Facts, UseMoved
<1>10. bank' = bank \union {w} /\ bank \subseteq bank' /\ bank' \subseteq Varnode
  BY <1>1, <1>3, Facts
<1>11. /\ \A i \in DOMAIN f'.inrefs[use] : f'.inrefs[use][i] \in bank'
       /\ f'.inrefs[use] # << >>
  BY <1>2, <1>6, <1>7, <1>8, <1>10, InputSetInBank
<1>12. Matched(f') /\ NoDangling'
  BY <1>1, <1>7, <1>8, <1>10, <1>11, InputsEdited DEF InputSet
<1> DEFINE todo1 == [todo EXCEPT ![use] = todo[use] - 1]
<1>13. walk' = Replacing(v, w, todo1) /\ todo1 \in [Op -> Nat]
  <2>1. walk' = [Replacing(v, w, todo) EXCEPT !.todo[use] = @ - 1]
    BY <1>1, <1>2
  <2>2. todo1 \in [Op -> Nat]
    BY <1>1, <1>2
  <2>3. [Replacing(v, w, todo) EXCEPT !.todo[use] = @ - 1] = Replacing(v, w, todo1)
    BY DEF Replacing
  <2> QED BY <2>1, <2>2, <2>3
<1>14. walk'.kind = "total_replace" /\ walk'.old = v /\ walk'.new = w /\ walk'.todo = todo1
  BY <1>13 DEF Replacing
<1>15. WalkOK'
  BY <1>2, <1>13, <1>14 DEF WalkOK
<1>16. WalkCounts'
  <2>1. \A o \in Op : todo1[o] = f'.uses[v][o]
    BY <1>2, <1>3, <1>9
  <2> QED BY <2>1, <1>1, <1>3, <1>14 DEF WalkCounts
<1>17. TypeOK'
  BY <1>1, <1>8, <1>15, Facts DEF TypeOK, InputSet, DefUseGraph
<1>18. CopiesRead'
  BY <1>1, <1>8, <1>11, Facts DEF IInv, CopiesRead, InputSet, OthersKept
<1> QED BY <1>8, <1>12, <1>16, <1>17, <1>18 DEF IInv, InputSet

LEMMA EndReplaceStep ==
  ASSUME IInv, EndReplace
  PROVE  IInv'
<1>1. /\ walk' = Idle /\ f' = f /\ opcode' = opcode
      /\ alive' = alive /\ bank' = bank /\ input' = input
  BY DEF EndReplace
<1>2. TypeOK' /\ NoDangling' /\ CopiesRead'
  BY <1>1, IdleAfter DEF IInv, TypeOK, NoDangling, Filled, CopiesRead
<1> QED BY <1>1, <1>2, Facts, IdleAfter DEF IInv

LEMMA InitIInv == Init => IInv
<1> SUFFICES ASSUME Init PROVE IInv
  OBVIOUS
<1>1. /\ f.inrefs = [o \in Op |-> << >>] /\ f.output = [o \in Op |-> Null]
      /\ f.uses = [v \in Varnode |-> NoUse] /\ f.def = [v \in Varnode |-> Null]
      /\ f = [inrefs |-> f.inrefs, output |-> f.output, uses |-> f.uses, def |-> f.def]
      /\ opcode = [o \in Op |-> "OTHER"] /\ alive = {} /\ bank = {} /\ input = {} /\ walk = Idle
  BY DEF Init, Unconnected
<1>2. f \in DefUseGraph
  <2>1. [o \in Op |-> << >>] \in [Op -> Seq(Varnode \union {Null})]
    BY EmptySeq
  <2>2. NoUse \in [Op -> Nat]
    BY DEF NoUse
  <2> QED BY <1>1, <2>1, <2>2 DEF DefUseGraph
<1>3. Counted(f)
  <2>1. \A o \in Op : DOMAIN f.inrefs[o] = {}
    BY <1>1
  <2>2. \A v \in Varnode, o \in Op : Slots(f, o, v) = {} /\ f.uses[v][o] = 0
    BY <2>1, <1>1 DEF Slots, NoUse
  <2> QED BY <2>2, FS_EmptySet DEF Counted
<1>4. Matched(f)
  BY <1>1, NullAssumption DEF Matched
<1>5. TypeOK
  BY <1>1, <1>2 DEF TypeOK, DefUseGraph, WalkOK
<1>6. NoDangling /\ CopiesRead
  BY <1>1 DEF NoDangling, CopiesRead
<1>7. WalkCounts
  BY <1>1 DEF WalkCounts, Idle
<1> QED BY <1>3, <1>4, <1>5, <1>6, <1>7 DEF IInv

LEMMA NextIInv == IInv /\ [Next]_vars => IInv'
<1> SUFFICES ASSUME IInv, [Next]_vars PROVE IInv'
  OBVIOUS
<1>1. CASE UNCHANGED vars
  BY <1>1 DEF vars, IInv, TypeOK, WalkOK, Counted, Matched, NoDangling, Filled, CopiesRead, WalkCounts
<1>2. ASSUME NEW op \in Op, NEW opc \in {"COPY", "OTHER"}, NEW out \in Varnode \union {Null},
             NEW ins \in SeqOf(Varnode, MaxInputs) \ {<< >>}, NewOp(op, opc, out, ins)
      PROVE  IInv'
  BY <1>2, NewOpStep
<1>3. ASSUME NEW op \in Op, NEW vn \in Varnode,
             \/ \E slot \in 1 .. MaxInputs : OpSetInput(op, vn, slot)
             \/ OpSetOutput(op, vn)
             \/ ToCopy(op, vn)
             \/ \E use \in Op : ResetUse(op, use, vn)
      PROVE  IInv'
  BY <1>3, OpSetInputStep, OpSetOutputStep, ToCopyStep, ResetUseStep
<1>4. ASSUME NEW op \in Op,
             \/ \E slot \in DOMAIN f.inrefs[op] : OpRemoveInput(op, slot)
             \/ OpDestroy(op)
             \/ OpDestroySSA(op)
             \/ EndReset(op)
             \/ ReplaceUse(op)
      PROVE  IInv'
  BY <1>4, OpRemoveInputStep, OpDestroyStep, OpDestroySSAStep, EndResetStep, ReplaceUseStep
<1>5. ASSUME NEW vn \in Varnode, SetInputVarnode(vn) \/ DeleteVarnode(vn)
      PROVE  IInv'
  BY <1>5, SetInputVarnodeStep, DeleteVarnodeStep
<1>6. ASSUME NEW v \in Varnode, NEW w \in Varnode, TotalReplace(v, w)
      PROVE  IInv'
  BY <1>6, TotalReplaceStep
<1>7. CASE EndReplace
  BY <1>7, EndReplaceStep
<1> QED BY <1>1, <1>2, <1>3, <1>4, <1>5, <1>6, <1>7 DEF Next

\* uses has an entry for every slot that reads the varnode and no other, in any state of
\* any sequence of edits, for any number of ops, varnodes and slots.
THEOREM UsesCorrect == Spec => []UsesMatchSlots
<1>1. IInv => UsesMatchSlots
  BY DEF IInv, UsesMatchSlots, Counted
<1> QED BY <1>1, InitIInv, NextIInv, PTL DEF Spec

\* An op writes a varnode exactly when the varnode names it as its def.
THEOREM DefsCorrect == Spec => []DefMatchesOutput
<1>1. IInv => DefMatchesOutput
  BY DEF IInv, DefMatchesOutput, Matched
<1> QED BY <1>1, InitIInv, NextIInv, PTL DEF Spec

\* Nothing points to an op or a varnode that was destroyed, and no op in a block has an
\* empty slot, while reset_out_use and total_replace walk as well.
THEOREM NothingDangles == Spec => []NoDangling
<1>1. IInv => NoDangling
  BY DEF IInv
<1> QED BY <1>1, InitIInv, NextIInv, PTL DEF Spec

(***************************************************************************)
(* What a walk leaves the other readers.                                   *)
(***************************************************************************)

\* A reader of p gets a varnode at the location it was reading.
LEMMA ResetKeepsLocations ==
  ASSUME IInv, NEW p \in Op, NEW use \in Op, NEW vn \in Varnode, ResetUse(p, use, vn),
         NEW o \in Op, NEW i \in DOMAIN f.inrefs[o]
  PROVE  loc[f'.inrefs[o][i]] = loc[f.inrefs[o][i]]
<1> DEFINE v == f.output[p]
           slot == get_slot(f, use, v)
<1>1. /\ walk.kind = "reset_out_use" /\ walk.op = p /\ walk.todo[use] > 0
      /\ vn \in IF SameLocationCopy(p) THEN {f.inrefs[p][1]} ELSE Fresh(loc[v])
      /\ f' = op_set_input(f, use, vn, slot)
  BY DEF ResetUse
<1>2. use # p /\ v # Null /\ f.uses[v][use] # 0
  BY <1>1, WalkTypes DEF IInv, WalkCounts, NoUse
<1>3. v \in Varnode
  BY <1>2, Facts
<1>4. loc[vn] = loc[v]
  BY <1>1 DEF SameLocationCopy, Fresh
<1> HIDE DEF v, slot
<1>5. slot \in DOMAIN f.inrefs[use] /\ f.inrefs[use][slot] = v
  BY <1>2, <1>3, Facts, GetSlot DEF slot
<1>6. slot \in Nat /\ slot \in 1 .. Len(f.inrefs[use]) /\ slot \in 1 .. Len(f.inrefs[use]) + 1
  BY <1>5, Facts, InputTypes
<1>7. InputSet(f, f', use, vn, slot)
  BY <1>1, <1>6, Facts, SetInput
<1>8. CASE o # use
  BY <1>7, <1>8 DEF InputSet, OthersKept
<1>9. CASE o = use
  <2>1. i \in 1 .. Len(f.inrefs[use]) /\ Len(f'.inrefs[use]) = Len(f.inrefs[use])
    BY <1>6, <1>7, <1>9, Facts, InputTypes DEF InputSet
  <2>2. f'.inrefs[use][i] = IF i = slot THEN vn ELSE f.inrefs[use][i]
    BY <2>1, <1>7 DEF InputSet
  <2> QED BY <2>2, <1>4, <1>5, <1>9
<1> QED BY <1>8, <1>9

\* When the walk ends nothing reads the output of p, so that destroying p empties no slot.
LEMMA EndKeepsInputs ==
  ASSUME IInv, NEW p \in Op, EndReset(p), NEW o \in Op \ {p}, NEW i \in DOMAIN f.inrefs[o]
  PROVE  f'.inrefs[o][i] = f.inrefs[o][i]
<1> DEFINE out == f.output[p]
<1>1. walk = Resetting(p, NoUse) /\ f' = NoInputs(op_destroy(f, p), p)
  BY DEF EndReset, Destroy, NoInputs
<1>2. walk.kind = "reset_out_use" /\ walk.op = p /\ walk.todo = NoUse
  BY <1>1 DEF Resetting
<1>3. Destroyed(f, f', p)
  BY <1>1, Facts, DestroyOp
<1>4. out \in Varnode \union {Null} /\ f.inrefs[o][i] \in bank
  BY Facts, GraphFields, InputTypes
<1>5. f.inrefs[o][i] # out
  <2>1. CASE out = Null
    BY <2>1, <1>4, Facts, NullAssumption
  <2>2. CASE out # Null
    <3>1. f.uses[out][o] = 0
      BY <2>2, <1>2 DEF IInv, WalkCounts, NoUse
    <3>2. Cardinality(Slots(f, o, out)) = 0
      BY <3>1, <2>2, <1>4, Facts DEF Counted
    <3>3. Slots(f, o, out) = {}
      BY <3>2, Facts, SlotsFinite, FS_EmptySet
    <3> QED BY <3>3 DEF Slots
  <2> QED BY <2>1, <2>2
<1> QED BY <1>3, <1>5 DEF Destroyed

\* While op_destroy_ssa walks over the readers of p, and when it destroys p, every slot of
\* every other op keeps the location it reads, for any number of ops and of readers.
THEOREM LocationsPreserved == Spec => LocationsKept
<1> DEFINE Kept == walk.kind = "reset_out_use" =>
                     \A o \in alive \ {walk.op} : \A i \in DOMAIN f.inrefs[o] :
                       loc[f'.inrefs[o][i]] = loc[f.inrefs[o][i]]
<1>1. IInv /\ [Next]_vars => [Kept]_vars
  <2> SUFFICES ASSUME IInv, Next, walk.kind = "reset_out_use",
                      NEW o \in alive \ {walk.op}, NEW i \in DOMAIN f.inrefs[o]
               PROVE  loc[f'.inrefs[o][i]] = loc[f.inrefs[o][i]]
    BY DEF vars
  <2>1. o \in Op /\ walk # Idle
    BY Facts DEF Idle
  <2>2. CASE \E p, use \in Op, vn \in Varnode : ResetUse(p, use, vn)
    BY <2>1, <2>2, ResetKeepsLocations
  <2>3. CASE \E p \in Op : EndReset(p)
    <3>1. PICK p \in Op : EndReset(p)
      BY <2>3
    <3>2. walk.op = p
      BY <3>1 DEF EndReset, Resetting
    <3> QED BY <3>1, <3>2, <2>1, EndKeepsInputs
  <2> QED
    BY <2>1, <2>2, <2>3 DEF Next, NewOp, OpSetInput, OpSetOutput, OpRemoveInput, ToCopy,
       SetInputVarnode, DeleteVarnode, OpDestroy, OpDestroySSA, TotalReplace, ReplaceUse, EndReplace
<1> QED BY <1>1, InitIInv, NextIInv, PTL DEF Spec, LocationsKept
==============================================================================
