------------------------------ MODULE MCThumbGen ------------------------------
(* Instances of ThumbGen for TLC. *)
EXTENDS ThumbGen

MCBlock == 0 .. 3
MCCore == 0 .. 2
MCFlags == {3}

Op(kind, reads, writes, size, imm) ==
  [kind |-> kind, reads |-> reads, writes |-> writes, size |-> size, imm |-> imm, dead |-> FALSE]

Plain == Op("copy", {}, {}, 2, 0)
Return == Op("copy", {}, MCCore, 2, 0)

Succ(lists) == [b \in MCBlock |-> lists[b + 1]]
Function(succ, bodies, nr, size) ==
  [succ |-> succ, body |-> [b \in MCBlock |-> bodies[b + 1]], noreturn |-> nr, size |-> size]

\* Every function of four blocks, with an exit that may not return, and with a third block
\* that may be as long as a conditional branch can just reach across.
Ends(b) == {<< >>} \union {<<t>> : t \in 1 .. 3} \union {<<b + 1, t>> : t \in {u \in 1 .. 3 : b < 3 /\ u # b + 1}}
Reaching(p) == ReachableFrom([b \in MCBlock |-> Range(p[b])], {0}) = MCBlock
Graphs == {p \in [MCBlock -> UNION {Ends(b) : b \in MCBlock}] : (\A b \in MCBlock : p[b] \in Ends(b)) /\ Reaching(p)}
Long == Op("copy", {}, {}, 122872, 0)
Flows ==
  UNION {{Function(p, <<<<Plain>>, <<Plain>>, <<mid>>, <<Return>>>>, nr, 200000) :
            mid \in {Plain, Long}, nr \in {{}} \union {{b} : b \in {c \in MCBlock : p[c] = << >>}}} : p \in Graphs}

\* Ops that need registers and free them, around a branch and in a loop.
Menu == {Op("cmp", {0}, {3}, 0, 19088743), Op("use", {}, {3}, 0, 19088743), Op("call", {0}, {}, 4, 0),
         Op("copy", {1}, {2}, 2, 0), Op("copy", {3}, {0}, 2, 0)}
Registers ==
  {Function(g, <<<<x>>, <<y>>, <<z>>, <<Op("copy", {}, w, 2, 0)>>>>, nr, 200) :
     g \in {Succ(<<<<1, 2>>, <<3>>, <<3>>, << >>>>), Succ(<<<<1>>, <<2, 3>>, <<1>>, << >>>>)},
     x \in Menu, y \in Menu, z \in Menu, w \in {MCCore, {1}}, nr \in {{}, {3}}}

\* Numbers at the edges of the forms an immediate has.
Numbers == {0, 255, 256, 1020, 65535, 65536, 983055, 255 * 65537, -16711936, -1, -2, -256, -65537,
            2130706432, -2147483647 - 1, 16711680, 305419896}
Addresses == {4000, 4106, 4360, 65535, 65536, 69640, 305419896}
Line == Succ(<<<<1>>, <<2>>, <<3>>, << >>>>)
Constants ==
  {Function(Line, <<<<Plain>>, <<[Op(k, {}, {}, 0, v) EXCEPT !.dead = d]>>, <<Plain>>, <<Return>>>>, {}, n) :
     n \in {8, 40}, k \in {"mov", "cmp", "use"}, v \in Numbers, d \in BOOLEAN}
  \union
  {Function(Line, <<<<Plain>>, <<Op("addpc", {}, {}, 0, a), Plain>>, <<Op("addpc", {}, {}, 0, a)>>, <<Return>>>>, {}, 40) :
     a \in Addresses}

\* Loads from behind the block, and how far behind.
Vldr(n) == Op("vldr", {}, {}, 4, n)
Loads ==
  {Function(Line, <<<<Plain>>, <<Vldr(m), Vldr(n), Op("copy", {}, {}, c, 0)>>, <<Plain>>, <<Return>>>>, {}, 2000) :
     m \in {4, 8}, n \in {4, 8}, c \in {2, 4, 1000, 1004, 1006, 1008, 1010, 1012, 1014}}
  \union
  {Function(Line, <<<<Plain>>, <<Vldr(m), Op("copy", {}, {}, c, 0)>>, <<Plain>>, <<Return>>>>, {}, 2000) :
     m \in {4, 8}, c \in {1012, 1014, 1016, 1018}}
  \union {Function(Line, <<<<Plain>>, <<Vldr(4)>>, <<Plain>>, <<Vldr(4), Return>>>>, {}, 2000)}

MCFunctions == Flows \union Registers \union Constants \union Loads

MCPrograms == {}
==============================================================================
