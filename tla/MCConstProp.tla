----------------------------- MODULE MCConstProp -----------------------------
(* Instances of ConstProp for TLC. *)
EXTENDS ConstProp

O(kind_, blk, in) == [kind |-> kind_, blk |-> blk, in |-> in, v |-> 0]
C(n) == [kind |-> "const", blk |-> 0, in |-> << >>, v |-> n]

Graph(succ, in) == [succ |-> [b \in 0 .. 3 |-> succ[b + 1]], in |-> [b \in 0 .. 3 |-> in[b + 1]]]
Loop == Graph(<<<<1>>, <<2, 3>>, <<1>>, << >>>>, <<<< >>, <<0, 2>>, <<1>>, <<1>>>>)
Diamond == Graph(<<<<1, 2>>, <<3>>, <<3>>, << >>>>, <<<< >>, <<0>>, <<0>>, <<1, 2>>>>)
Function(g, ops) == [succ |-> g.succ, in |-> g.in, ops |-> ops]

\* A copy from address v.
Ram(blk, v) == [kind |-> "ram", blk |-> blk, in |-> << >>, v |-> v]

\* 1 an input, 2 sp, 3 to 5 constants, 6 a sum with the input, which stays unknown, and 7 a
\* place on the stack.
Head7(v) ==
  <<O("input", 0, << >>), O("sp", 0, << >>), C(v), C(1), C(0), O("add", 0, <<1, 4>>), O("add", 0, <<2, 3>>)>>

\* A load in a loop whose store may be in front of the loop or in it, and whose value may
\* be an address in the next round.
Loops ==
  {Function(Loop, Head7(0) \o
     <<O("store", 0, <<s, 4>>), O("phi", 1, <<p, 12>>), O("load", 1, <<l>>),
       w, O("copy", 2, <<c>>), O("load", 3, <<7>>)>>) :
     s \in {6, 7}, p \in {4, 7}, l \in {3, 6, 7, 9}, c \in {7, 9, 10},
     w \in {O("store", 2, <<a, x>>) : a \in {2, 6, 7, 10}, x \in {4, 10}} \union {O("call", 2, << >>)}}

\* Two ways to a phi and to a load, with a comparison behind.
Diamonds ==
  {Function(Diamond, Head7(v) \o
     <<O("store", 0, <<s, 4>>), O("copy", 1, <<x>>), w, y,
       O("phi", 3, <<9, 11>>), O("load", 3, <<l>>), O("sub", 3, <<12, 3>>), O("equal", 3, <<14, 5>>)>>) :
     v \in {0, 3}, s \in {4, 7}, x \in {2, 3, 6},
     w \in {O("store", 1, <<a, 3>>) : a \in {2, 4, 6, 7, 9}} \union {O("call", 1, << >>)},
     y \in {O("add", 2, <<2, 5>>), O("add", 2, <<3, 4>>), O("sub", 2, <<5, 4>>), Ram(2, 0)},
     l \in {3, 4, 6, 7, 12}}

\* Stores in a row in front of a loop, and one in it whose address is only known when the
\* rest of the loop is.
Waits ==
  {Function(Loop, Head7(v) \o
     <<O("store", 0, <<s, 4>>), O("store", 0, <<t, 5>>), O("phi", 1, <<7, 13>>),
       O("store", 1, <<q, 4>>), O("load", 1, <<l>>), O("copy", 2, <<c>>), O("load", 3, <<k>>)>>) :
     v \in {0, 1}, s \in {6, 7}, t \in {2, 6, 7}, q \in {2, 10}, l \in {6, 7, 10}, c \in {2, 7}, k \in {3, 7}}

MCFunctions == Loops \union Diamonds \union Waits
\* Two words of the file; the others can be written.
MCImage == 0 :> 1 @@ 3 :> 2
MCUnknown == {<<"constant", 0>>, <<"constant", 1>>, <<"sp_constant", 1>>}
==============================================================================
