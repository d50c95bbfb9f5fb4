------------------------------- MODULE EdgeOps -------------------------------
(***************************************************************************)
(* The edge lists of the control-flow graph (src/dobc/block.cc,            *)
(* flowblock::replace_in_edge of src/dobc/dobc.cc).                        *)
(*                                                                         *)
(* Every edge is stored twice: as a half in the `out' list of the block it *)
(* leaves and as a half in the `in' list of the block it enters.  A half   *)
(* names the block at its other end (point), carries the label bits and    *)
(* knows at which position of that block's list its partner lies           *)
(* (reverse_index, here rev).  The operators below compute the graph that  *)
(* a primitive leaves behind.  Positions count from 1 here and from 0 in   *)
(* the code; a label is the set of its a_* bits.                           *)
(***************************************************************************)
EXTENDS Naturals, Sequences, SequencesExt

\* blockedge::blockedge(pt, lab, rev)
blockedge(pt, lab, rev) == [point |-> pt, label |-> lab, rev |-> rev]

Edgeless(Block) == [in |-> [b \in Block |-> << >>], out |-> [b \in Block |-> << >>]]

\* Mutant: the reverse indices of the new halves lag one behind.
add_in_edge_behind(g, this, b, lab) ==
  [ in  |-> [g.in  EXCEPT ![this] = Append(@, blockedge(b, lab, Len(g.out[b])))],
    out |-> [g.out EXCEPT ![b] = Append(@, blockedge(this, lab, Len(g.in[this])))] ]

add_in_edge(g, this, b, lab) ==
  [ in  |-> [g.in  EXCEPT ![this] = Append(@, blockedge(b, lab, Len(g.out[b]) + 1))],
    out |-> [g.out EXCEPT ![b] = Append(@, blockedge(this, lab, Len(g.in[this]) + 1))] ]

\* The halves that the entries of list s after position slot name as their partners:
\* the shift of those entries by one position is announced to exactly these.
Follower(s, slot, c, j) ==
  \E k \in slot + 1 .. Len(s) : s[k].point = c /\ s[k].rev = j

\* lists with the reverse index of every partner of a shifted entry of s decremented
Renumbered(lists, s, slot) ==
  [c \in DOMAIN lists |->
    [j \in DOMAIN lists[c] |->
      IF Follower(s, slot, c, j) THEN [lists[c][j] EXCEPT !.rev = @ - 1] ELSE lists[c][j]]]

half_delete_out_edge(g, this, slot) ==
  [ in  |-> Renumbered(g.in, g.out[this], slot),
    out |-> [g.out EXCEPT ![this] = RemoveAt(@, slot)] ]

\* Mutant: the shift of the later entries is not announced.
half_delete_in_edge_silent(g, this, slot) ==
  [ in |-> [g.in EXCEPT ![this] = RemoveAt(@, slot)], out |-> g.out ]

half_delete_in_edge(g, this, slot) ==
  [ in  |-> [g.in EXCEPT ![this] = RemoveAt(@, slot)],
    out |-> Renumbered(g.out, g.in[this], slot) ]

remove_in_edge(g, this, slot) ==
  LET e == g.in[this][slot]
  IN  half_delete_out_edge(half_delete_in_edge(g, this, slot), e.point, e.rev)

remove_out_edge(g, this, slot) ==
  LET e == g.out[this][slot]
  IN  half_delete_in_edge(half_delete_out_edge(g, this, slot), e.point, e.rev)

\* Mutant: the edge is removed and added again, at the end of the in list.
replace_in_edge_append(g, this, num, b) ==
  add_in_edge(remove_in_edge(g, this, num), this, b, g.in[this][num].label)

\* Mutant: the moved edge gets an empty label.
replace_in_edge_unlabelled(g, this, num, b) ==
  LET e  == g.in[this][num]
      g1 == half_delete_out_edge(g, e.point, e.rev)
  IN  [ in  |-> [g1.in EXCEPT ![this][num] = blockedge(b, {}, Len(g1.out[b]) + 1)],
        out |-> [g1.out EXCEPT ![b] = Append(@, blockedge(this, {}, num))] ]

\* The edge that enters `this' at position num leaves b from now on; it keeps its place
\* in the in list, so that a MULTIEQUAL of `this' keeps the operand of that place.
replace_in_edge(g, this, num, b) ==
  LET e  == g.in[this][num]
      g1 == half_delete_out_edge(g, e.point, e.rev)
  IN  [ in  |-> [g1.in EXCEPT ![this][num] =
                    [@ EXCEPT !.point = b, !.rev = Len(g1.out[b]) + 1]],
        out |-> [g1.out EXCEPT ![b] = Append(@, blockedge(this, e.label, num))] ]

move_out_edge(g, blold, slot, blnew) ==
  LET e == g.out[blold][slot]
  IN  replace_in_edge(g, e.point, e.rev, blnew)

Relabelled(g, b, i, lab(_)) ==
  LET e == g.out[b][i]
  IN  [ in  |-> [g.in  EXCEPT ![e.point][e.rev].label = lab(@)],
        out |-> [g.out EXCEPT ![b][i].label = lab(@)] ]

set_out_edge_flag(g, b, i, flags)   == Relabelled(g, b, i, LAMBDA l : l \union flags)
clear_out_edge_flag(g, b, i, flags) == Relabelled(g, b, i, LAMBDA l : l \ flags)

add_edge(g, begin, end, lab) == add_in_edge(g, end, begin, lab)

\* flowblock::get_in_index, and the search loop of blockgraph::remove_edge
get_in_index(g, this, bl) == SelectInSeq(g.in[this], LAMBDA e : e.point = bl)

remove_edge(g, begin, end) == remove_in_edge(g, end, get_in_index(g, end, begin))
(***************************************************************************)
(* The lists of a graph over a set of blocks, with labels made of the bits *)
(* of Flag, and what every primitive has to keep true of them.             *)
(***************************************************************************)
HalfEdge(Block, Flag) == [point : Block, label : SUBSET Flag, rev : Nat \ {0}]
Graph(Block, Flag) ==
  [in : [Block -> Seq(HalfEdge(Block, Flag))], out : [Block -> Seq(HalfEdge(Block, Flag))]]

\* Every half of one kind of list has its partner where its reverse index says, with the
\* same label and pointing back.
Partner(Block, g, here, there) ==
  \A b \in Block : \A i \in DOMAIN g[here][b] :
    LET e == g[here][b][i]
    IN  /\ e.rev \in DOMAIN g[there][e.point]
        /\ g[there][e.point][e.rev] = blockedge(b, e.label, i)

Coupled(Block, g) == Partner(Block, g, "out", "in") /\ Partner(Block, g, "in", "out")
==============================================================================
