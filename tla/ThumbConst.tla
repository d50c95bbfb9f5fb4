------------------------------ MODULE ThumbConst ------------------------------
(***************************************************************************)
(* What src/dobc/thumb_gen.cc packs into an instruction: modified          *)
(* immediates (stuff_const) and branch distances (encbranch, encbranch2),  *)
(* and how the processor unpacks them.  A word is the set of its bits that *)
(* are set, so that | is union and ~ is complement; a number is its value  *)
(* as a signed integer of 32 bits.                                         *)
(***************************************************************************)
EXTENDS Integers, FiniteSets

Bit == 0 .. 31

\* The bits of a number; \div rounds down, so that this holds for the negative ones too.
Bits(v) == {i \in 0 .. 30 : (v \div 2^i) % 2 = 1} \union (IF v < 0 THEN {31} ELSE {})

Complement(c) == Bit \ c
Shl(c, n) == {i + n : i \in c} \intersect Bit
Shr(c, n) == {i - n : i \in {j \in c : j >= n}}

\* Mutant: the rotation is one too small.
Rotated_late(i, c) == {k + 7 : k \in Bits(i - 1)} \union (Shr(c, 32 - i) \ {7})

\* The field of a byte with bit 7 set that is rotated right by i.
Rotated(i, c) == {k + 7 : k \in Bits(i)} \union (Shr(c, 32 - i) \ {7})

\* 0x00XX00XX.  Its form is marked in bit 8 of the word, which is a bit of Rd, where it should
\* be bit 12, the first of the field; and the upper byte is or-ed into bits 16 to 23.
Doubled(c) == c = (c \intersect 0 .. 7) \union Shl(c \intersect 0 .. 7, 16)

\* A6.3.2: the fields imm12 that are tried for c.  0xXX00XX00 and 0xXXXXXXXX are asked for
\* with the low byte in the wrong place and are never found.
Fields(c) ==
  IF c \subseteq 0 .. 7 \/ Doubled(c) THEN {c \intersect 0 .. 7}
  ELSE {Rotated(i, c) : i \in {n \in 8 .. 31 : c \subseteq 32 - n .. 39 - n /\ 39 - n \in c}}

\* stuff_const for mov, and for op 0, where it stands for `and': c, or else its complement
\* and the op with bit 21 changed, which is mvn or bic.  {} stands for the result 0.
stuff_const(c) ==
  IF Fields(c) # {} THEN {[neg |-> FALSE, imm12 |-> f] : f \in Fields(c)}
  ELSE {[neg |-> TRUE, imm12 |-> f] : f \in Fields(Complement(c))}

\* ThumbExpandImm of the architecture.
ThumbExpandImm(imm12) ==
  LET byte == imm12 \intersect 0 .. 7
      rot  == {i - 7 : i \in imm12 \intersect 7 .. 11}
      n    == (IF 0 \in rot THEN 1 ELSE 0) + (IF 1 \in rot THEN 2 ELSE 0) + (IF 2 \in rot THEN 4 ELSE 0)
              + (IF 3 \in rot THEN 8 ELSE 0) + (IF 4 \in rot THEN 16 ELSE 0)
  IN  IF 10 \in imm12 \/ 11 \in imm12
      THEN Shl((byte \ {7}) \union {7}, 32 - n)
      ELSE CASE imm12 \intersect {8, 9} = {}     -> byte
             [] imm12 \intersect {8, 9} = {8}    -> byte \union Shl(byte, 16)
             [] imm12 \intersect {8, 9} = {9}    -> Shl(byte, 8) \union Shl(byte, 24)
             [] imm12 \intersect {8, 9} = {8, 9} -> byte \union Shl(byte, 8) \union Shl(byte, 16)
                                                         \union Shl(byte, 24)

(***************************************************************************)
(* Branches: distances in halfwords, from four bytes behind the branch     *)
(***************************************************************************)
Distance(pos, addr) == (addr - (pos + 4)) \div 2

\* The low w bits and the sign, as the instruction holds them and as the processor reads them.
Packed(d, w) == (d % 2^w) + (IF d < 0 THEN 2^w ELSE 0)
Unpacked(f, w) == IF f >= 2^w THEN f - 2 * 2^w ELSE f

encbranch(pos, addr) == Packed(Distance(pos, addr), 19)

\* The function gives up on a conditional branch that goes further.
TooFar(pos, addr) == Distance(pos, addr) >= 61439 \/ Distance(pos, addr) < -61439

encbranch2(pos, addr) == Packed(Distance(pos, addr), 23)
==============================================================================
