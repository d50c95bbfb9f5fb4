------------------------------- MODULE ThumbGen -------------------------------
(***************************************************************************)
(* thumb_gen::run of src/dobc/thumb_gen.cc: the live sets, the order of    *)
(* the blocks (codegen::sort_blocks), the code of every block with the     *)
(* branches at its end, and at last the branches to blocks that had no     *)
(* address yet.  Of the instructions the model keeps those whose length or *)
(* operands depend on where they come to lie, on a constant or on a        *)
(* scratch register; the others have a length.                             *)
(***************************************************************************)
EXTENDS LiveSets, ThumbConst

CONSTANT Start   \* the address of the function

\* Thumb instructions and the data of a vldr are halfwords long; address 0 stands for none.
ASSUME CodeAssumption ==
  /\ Start \in Nat \ {0} /\ Start % 2 = 0
  /\ \A f \in Functions : \A b \in Block : \A n \in DOMAIN f.body[b] :
       LET o == f.body[b][n]
       IN  /\ o.kind = "copy" => o.size \in Nat \ {0} /\ o.size % 2 = 0
           /\ o.kind = "vldr" => o.imm \in Nat /\ o.imm % 2 = 0

VARIABLES
  blks,       \* thumb_gen::blist, the blocks in the order of their code
  mark, q,    \* the blocks that are placed, and the queue of those to place
  bi, oi,     \* the block and the op that comes next
  ind,        \* the address the next instruction goes to
  code,       \* what has been written
  cg,         \* the address of a block's code, 0 while it has none
  pools,      \* fix_vldr_list: the vldrs of this block, by their place in code
  flist,      \* the branches without an address, by their place in code
  allocated   \* the registers regalloc has handed out at an op

genvars == <<blks, mark, q, bi, oi, ind, code, cg, pools, flist, allocated>>
allvars == <<treevars, livevars, genvars>>

GenInit ==
  /\ LiveInit
  /\ blks = << >> /\ mark = {} /\ q = << >> /\ bi = 1 /\ oi = 1 /\ ind = Start
  /\ code = << >> /\ cg = [b \in Block |-> 0]
  /\ pools = << >> /\ flist = << >>
  /\ allocated = [p \in Places |-> << >>]

(***************************************************************************)
(* sort_blocks                                                             *)
(***************************************************************************)
outs(b) == [i \in DOMAIN graph.out[b] |-> graph.out[b][i].point]

incoming_forward_branches(b, placed) ==
  {i \in DOMAIN graph.in[b] : forward \in graph.in[b][i].label /\ graph.in[b][i].point \notin placed}

\* The exits come last, those that return in reverse order, then the first that does not;
\* the block in front of that one comes before them.
LastBlocks ==
  LET dead == Sublist(exitlist, prog.noreturn)
      live == Sublist(exitlist, Block \ prog.noreturn)
  IN  IF dead = << >> THEN Reverse(live)
      ELSE <<graph.in[dead[1]][1].point>> \o Reverse(live) \o <<dead[1]>>

StartSort ==
  /\ phase = "sort"
  /\ phase' = "place"
  /\ q' = <<blist[1]>> /\ mark' = Range(LastBlocks)
  /\ UNCHANGED <<livevars, graph, edits, dfsvars, blks, bi, oi, ind, code, cg, pools, flist, allocated>>

\* Mutant: a successor is not put off until the blocks with forward edges to it are placed.
PlaceBlock_eager ==
  /\ phase = "place" /\ q # << >>
  /\ LET b == Head(q)
     IN  IF b \in mark THEN q' = Tail(q) /\ UNCHANGED <<blks, mark>>
         ELSE blks' = Append(blks, b) /\ mark' = mark \union {b} /\ q' = Tail(q) \o SubSeq(outs(b), 1, 1)
  /\ UNCHANGED <<livevars, treevars, bi, oi, ind, code, cg, pools, flist, allocated>>

\* The block at the head of the queue, unless it is placed already.
PlaceBlock ==
  /\ phase = "place" /\ q # << >>
  /\ LET b == Head(q)
     IN  IF b \in mark THEN q' = Tail(q) /\ UNCHANGED <<blks, mark>>
         ELSE /\ blks' = Append(blks, b)
              /\ mark' = mark \union {b}
              /\ q' = Tail(q) \o Sublist(outs(b), {s \in Block : incoming_forward_branches(s, mark') = {}})
  /\ UNCHANGED <<livevars, treevars, bi, oi, ind, code, cg, pools, flist, allocated>>

\* A block that has been left out is a NULL in the list, which run_block dereferences.
EndSort ==
  /\ phase = "place" /\ q = << >>
  /\ blks' = blks \o LastBlocks
  /\ phase' = IF Len(blks \o LastBlocks) = Cardinality(Block) THEN "emit" ELSE "crash"
  /\ UNCHANGED <<livevars, graph, edits, dfsvars, mark, q, bi, oi, ind, code, cg, pools, flist, allocated>>

(***************************************************************************)
(* run_block: the instructions                                             *)
(***************************************************************************)
blk == blks[bi]
place == <<blk, oi>>

\* How far behind the first the others begin, and where the last one ends.
Offset(list) ==
  LET sum[n \in 0 .. Len(list)] == IF n = 0 THEN 0 ELSE sum[n - 1] + list[n].size
  IN  sum
After(list) == ind + Offset(list)[Len(list)]

\* A list of instructions, [kind, size, arg], from address ind on.
Layout(list) ==
  [n \in DOMAIN list |-> [kind |-> list[n].kind, size |-> list[n].size, arg |-> list[n].arg,
                          place |-> place, at |-> ind + Offset(list)[n - 1]]]

\* o refuses an instruction that begins behind the end of the function.
InFunction(list) == \A i \in DOMAIN Layout(list) : Layout(list)[i].at < Start + prog.size

Instr(kind, size, arg) == [kind |-> kind, size |-> size, arg |-> arg]

Emit(instructions) ==
  \E list \in {instructions} :
    IF InFunction(list)
    THEN code' = code \o Layout(list) /\ ind' = After(list) /\ UNCHANGED phase
    ELSE phase' = "error" /\ UNCHANGED <<code, ind>>

\* The first instruction of a block gives it its address.
AtOp(kind) ==
  /\ phase = "emit" /\ bi <= Len(blks) /\ oi <= Len(body[blk])
  /\ op(place).kind = kind
  /\ cg' = IF oi = 1 THEN [cg EXCEPT ![blk] = ind] ELSE cg
  /\ oi' = oi + 1
  /\ UNCHANGED <<prog, setschanged, bpos, opos, live_out, graph, edits, dfsvars, blks, mark, q, bi, flist>>

\* What is copied from the original code, for which nothing looks at the end.
EmitCopy ==
  /\ AtOp("copy")
  /\ code' = code \o Layout(<<Instr("copy", op(place).size, 0)>>)
  /\ ind' = ind + op(place).size
  /\ UNCHANGED <<phase, pools, allocated, live_in>>

EmitCall ==
  /\ AtOp("call")
  /\ Emit(<<Instr("bl", 4, 0)>>)
  /\ UNCHANGED <<pools, allocated, live_in>>

\* _mov_imm, as the instructions it writes.
Mov(v, dead) ==
  IF dead /\ v \in 0 .. 255 THEN <<Instr("movs", 2, v)>>
  ELSE IF v \in 0 .. 65535 THEN <<Instr("movw", 4, v)>>
  ELSE IF stuff_const(Bits(v)) # {} THEN <<Instr("mov", 4, CHOOSE c \in stuff_const(Bits(v)) : TRUE)>>
  ELSE <<Instr("movw", 4, v % 65536), Instr("movt", 4, (v \div 65536) % 65536)>>

EmitMov ==
  /\ AtOp("mov")
  /\ Emit(Mov(op(place).imm, op(place).dead))
  /\ UNCHANGED <<pools, allocated, live_in>>

\* regalloc: the lowest register that is not live in front of the op, which is live from now on.
FreeRegs(p) == {r \in Core : r <= MaxAlloc} \ live_in[p]
Lowest(S) == CHOOSE r \in S : \A s \in S : r <= s

\* Mutant: a register handed out is not marked.
regalloc_unmarked(n) ==
  LET taken == [i \in 1 .. n |-> Lowest(FreeRegs(place))]
  IN  /\ allocated' = [allocated EXCEPT ![place] = @ \o taken]
      /\ UNCHANGED live_in

\* n calls of regalloc at this op.
regalloc(n) ==
  LET taken[i \in 0 .. n] ==
        IF i = 0 THEN << >> ELSE Append(taken[i - 1], Lowest(FreeRegs(place) \ Range(taken[i - 1])))
  IN  /\ allocated' = [allocated EXCEPT ![place] = @ \o taken[n]]
      /\ live_in' = [live_in EXCEPT ![place] = @ \union Range(taken[n])]

NoRegister(n) ==
  /\ Cardinality(FreeRegs(place)) < n
  /\ phase' = "error"
  /\ UNCHANGED <<code, ind, allocated, live_in>>

\* _cmp_imm for a register below r8: what does not fit goes through a scratch register.
EmitCmp ==
  /\ AtOp("cmp")
  /\ LET v == op(place).imm
     IN  \/ v \in 0 .. 255 /\ Emit(<<Instr("cmps", 2, v)>>) /\ UNCHANGED <<allocated, live_in>>
         \/ /\ v \notin 0 .. 255 /\ stuff_const(Bits(v)) # {}
            /\ Emit(<<Instr("cmp", 4, CHOOSE c \in stuff_const(Bits(v)) : TRUE)>>)
            /\ UNCHANGED <<allocated, live_in>>
         \/ /\ v \notin 0 .. 255 /\ stuff_const(Bits(v)) = {}
            /\ \/ NoRegister(1)
               \/ /\ Cardinality(FreeRegs(place)) >= 1 /\ regalloc(1)
                  /\ Emit(Mov(v, FALSE) \o <<Instr("cmpreg", 2, 0)>>)
  /\ UNCHANGED pools

\* CPUI_USE: a value from the stack is compared with a constant, through two registers.
EmitUse ==
  /\ AtOp("use")
  /\ \/ NoRegister(2)
     \/ /\ Cardinality(FreeRegs(place)) >= 2 /\ regalloc(2)
        /\ Emit(<<Instr("ldr", 2, 0)>> \o Mov(op(place).imm, FALSE) \o <<Instr("cmpreg", 2, 0)>>)
  /\ UNCHANGED pools

\* rd = pc + c: how far the add will be behind is guessed from c, before the distance is
\* known that is moved.
PcDistance(c) ==
  LET long == c \notin 0 .. 65535 /\ stuff_const(Bits(c)) = {}
  IN  c - (ind + (IF long THEN 8 ELSE 4)) - 4

EmitAddPc ==
  /\ AtOp("addpc")
  /\ \E v \in {PcDistance(op(place).imm)} : Emit(Mov(v, FALSE) \o <<Instr("addpc", 2, v)>>)
  /\ UNCHANGED <<pools, allocated, live_in>>

\* A copy, to be corrected when the block's end is known.
EmitVldr ==
  /\ AtOp("vldr")
  /\ code' = code \o Layout(<<Instr("vldr", 4, -1)>>)
  /\ ind' = ind + 4
  /\ pools' = Append(pools, Len(code) + 1)
  /\ UNCHANGED <<phase, allocated, live_in>>

(***************************************************************************)
(* run_block: the branches at the end, and the data of the vldrs           *)
(***************************************************************************)
\* Where the branch at address `at' is to go; a block without an address is not known yet.
Branch(kind, at, b) ==
  Instr(kind, 4, CASE kind = "bcond" /\ cg[b] # 0 -> encbranch(at, cg[b])
                   [] kind = "b" /\ cg[b] # 0     -> encbranch2(at, cg[b])
                   [] OTHER                       -> -1)

\* The block that comes behind when the condition does not hold, or without one.
Follows == IF outs(blk) = << >> THEN {} ELSE {outs(blk)[1]}

\* write_cbranch, for the CBRANCH that ends a block with two edges
Conditional == IF Len(outs(blk)) = 2 THEN <<Branch("bcond", ind, outs(blk)[2])>> ELSE << >>

Refused(kind, at, b) == kind = "bcond" /\ cg[b] # 0 /\ TooFar(at, cg[b])

\* Mutant: data alone asks for no branch.
add_jmp_pools == bi = Len(blks) \/ blks[bi + 1] \notin Follows

\* The next block is another one, or data comes between.
add_jmp == bi = Len(blks) \/ blks[bi + 1] \notin Follows \/ pools # << >>

NextBlock ==
  /\ bi' = bi + 1 /\ oi' = 1
  /\ phase' = IF bi = Len(blks) THEN "fix" ELSE "emit"

\* A block without out edges returns before its vldrs are looked at.
EndExit ==
  /\ phase = "emit" /\ bi <= Len(blks) /\ oi > Len(body[blk]) /\ is_end(blk)
  /\ pools' = << >>
  /\ NextBlock
  /\ UNCHANGED <<livevars, graph, edits, dfsvars, blks, mark, q, cg, allocated, code, ind, flist>>

EndBlock ==
  /\ phase = "emit" /\ bi <= Len(blks) /\ oi > Len(body[blk]) /\ ~is_end(blk)
  /\ LET next == IF add_jmp THEN <<Branch("b", ind + 4 * Len(Conditional), outs(blk)[1])>> ELSE << >>
         list == Conditional \o next
         open == Sublist([i \in DOMAIN list |-> i], {i \in DOMAIN list : list[i].arg = -1})
     IN  \/ /\ ~InFunction(list) \/ (Conditional # << >> /\ Refused("bcond", ind, outs(blk)[2]))
            /\ phase' = "error" /\ UNCHANGED <<code, ind, flist, bi, oi>>
         \/ /\ InFunction(list) /\ ~(Conditional # << >> /\ Refused("bcond", ind, outs(blk)[2]))
            /\ code' = code \o Layout(list) /\ ind' = After(list)
            /\ flist' = flist \o [k \in DOMAIN open |->
                          [at |-> Len(code) + open[k],
                           to |-> outs(blk)[IF list[open[k]].kind = "bcond" THEN 2 ELSE 1]]]
            /\ IF pools = << >> THEN NextBlock ELSE phase' = "vldr" /\ UNCHANGED <<bi, oi>>
  /\ UNCHANGED <<livevars, graph, edits, dfsvars, blks, mark, q, cg, allocated, pools>>

\* From ind on comes the data of the next vldr, at a multiple of 4 from it.  The offset is
\* checked before the two bytes are added that align it.
fix_vldr ==
  /\ phase = "vldr"
  /\ LET v      == Head(pools)
         offset == ind - ((code[v].at + 4) \div 4) * 4
         pad    == offset % 4
         siz    == op(code[v].place).imm
     IN  \/ offset >= 1024 /\ phase' = "error" /\ UNCHANGED <<code, ind, pools, bi, oi>>
         \/ /\ offset < 1024
            /\ code' = Append([code EXCEPT ![v].arg = (offset + pad) \div 4],
                              [kind |-> "data", size |-> siz, arg |-> 0, place |-> code[v].place,
                               at |-> ind + pad])
            /\ ind' = ind + pad + siz
            /\ pools' = Tail(pools)
            /\ IF Len(pools) = 1 THEN NextBlock ELSE UNCHANGED <<phase, bi, oi>>
  /\ UNCHANGED <<livevars, graph, edits, dfsvars, blks, mark, q, cg, allocated, flist>>

\* run: the next branch on the list gets its distance; the condition it has stays.
Fix ==
  /\ phase = "fix" /\ flist # << >>
  /\ LET at == Head(flist).at
         i  == code[at]
         b  == Head(flist).to
     IN  IF Refused(i.kind, i.at, b) THEN phase' = "error" /\ UNCHANGED <<code, flist>>
         ELSE /\ code' = [code EXCEPT ![at].arg = Branch(i.kind, i.at, b).arg]
              /\ flist' = Tail(flist)
              /\ UNCHANGED phase
  /\ UNCHANGED <<livevars, graph, edits, dfsvars, blks, mark, q, bi, oi, ind, cg, pools, allocated>>

Finished ==
  /\ phase = "fix" /\ flist = << >>
  /\ phase' = "finished"
  /\ UNCHANGED <<livevars, graph, edits, dfsvars, genvars>>

(***************************************************************************)
(* The specification                                                       *)
(***************************************************************************)
\* A pass found a condition constant and dropped an edge of the branch.
Decided == \E b \in Block : Len(graph.out[b]) = 2 /\ \E s \in succs[b] : RemoveEdge(b, s)

Structure == Decided \/ StartTree \/ Discover \/ Classify \/ Finish \/ EndTree("done")
Sets == StartSets \/ LookAtOp \/ EndSets
Instructions == EmitCopy \/ EmitCall \/ EmitMov \/ EmitCmp \/ EmitUse \/ EmitAddPc \/ EmitVldr
Generate == StartSort \/ PlaceBlock \/ EndSort \/ Instructions \/ EndExit \/ EndBlock \/ fix_vldr \/ Fix \/ Finished

GenNext ==
  \/ Structure /\ UNCHANGED <<livevars, genvars>>
  \/ Sets /\ UNCHANGED genvars
  \/ Generate

Work ==
  \/ (StartTree \/ Discover \/ Classify \/ Finish \/ EndTree("done")) /\ UNCHANGED <<livevars, genvars>>
  \/ Sets /\ UNCHANGED genvars
  \/ Generate

GenSpec == GenInit /\ [][GenNext]_allvars /\ WF_allvars(Work)

(***************************************************************************)
(* Properties                                                              *)
(***************************************************************************)
\* Every run comes to its end, with the code written, with a throw, or at a block left out.
Terminates == <>(phase \in {"finished", "error", "crash"})

\* A register that is handed out holds nothing that is needed, and no other value of its op.
ScratchIsFree ==
  \A p \in Places :
    /\ IsInjective(allocated[p])
    /\ \A i \in DOMAIN allocated[p] : ~TrulyLive(p, allocated[p][i])

\* A word as its bits when the processor executes is, the instructions with immediates of an
\* op; cmp does not complement.
Word(is) ==
  IF Len(is) = 2 THEN Bits(is[1].arg) \union Shl(Bits(is[2].arg), 16)
  ELSE IF is[1].kind \in {"movs", "cmps", "movw"} THEN Bits(is[1].arg)
  ELSE IF is[1].kind = "mov" /\ is[1].arg.neg THEN Complement(ThumbExpandImm(is[1].arg.imm12))
  ELSE ThumbExpandImm(is[1].arg.imm12)

\* 0x00XX00XX is put together wrongly, and for cmp stuff_const may hand out the complement.
Misbuilt(is, c) ==
  \E i \in DOMAIN is :
    \/ is[i].kind \in {"mov", "cmp"} /\ \E k \in {c, Complement(c)} : Doubled(k) /\ ~(k \subseteq 0 .. 7)
    \/ is[i].kind = "cmp" /\ is[i].arg.neg

Of(p, kinds) == SelectSeq(code, LAMBDA i : i.place = p /\ i.kind \in kinds)
Moves == {"movs", "movw", "movt", "mov", "cmps", "cmp"}

\* What the vldr v reads.
Reads(v) == ((v.at + 4) \div 4) * 4 + 4 * (v.arg % 256)
Data(p) == Of(p, {"data"})[1].at

\* The constant in an instruction is the constant of the op, whatever the number: in a mov,
\* in a compare, in a distance from pc and in a vldr.  (Named exceptions: see Misbuilt; a
\* distance whose mov is longer or shorter than the one of imm; a vldr in a block without out
\* edges, or just 1024 bytes in front of its data.)
ConstantsExact ==
  phase = "finished" =>
    \A p \in Places :
      LET is  == Of(p, Moves)
          add == Of(p, {"addpc"})
          v   == Of(p, {"vldr"})
      IN  /\ op(p).kind \in {"mov", "cmp", "use"} =>
               Word(is) = Bits(op(p).imm) \/ Misbuilt(is, Bits(op(p).imm))
          /\ op(p).kind = "addpc" =>
               \/ Word(is) = Bits(op(p).imm - (add[1].at + 4))
               \/ Misbuilt(is, Bits(add[1].arg))
               \/ Mov(op(p).imm, FALSE) # << >> /\ Len(Mov(op(p).imm, FALSE)) # Len(is)
          /\ op(p).kind = "vldr" =>
               is_end(p[1]) \/ v[1].arg = 256 \/ Reads(v[1]) = Data(p)

Target(i, w) == i.at + 4 + 2 * Unpacked(i.arg, w)

\* What is written for a block, without the data behind it, and its instructions of a kind.
CodeOf(b) == Sublist(code, {i \in Range(code) : i.place[1] = b /\ i.kind # "data"})
OfKind(is, kind) == Sublist(is, {i \in Range(is) : i.kind = kind})

\* Where a block goes on when it has no condition, or one that does not hold.
Otherwise(b) ==
  LET is  == CodeOf(b)
      jmp == OfKind(is, "b")
  IN  IF jmp = << >> THEN Last(is).at + Last(is).size ELSE Target(jmp[1], 23)

\* The code of a block goes where its edges go: to the block of its true edge when the
\* condition holds, else to the other one, by a branch or by falling through, and it does
\* not run into the data behind it.
CodeMatchesFlow ==
  phase = "finished" =>
    \A b \in Block :
      /\ CodeOf(b)[1].at = cg[b]
      /\ ~is_end(b) => Otherwise(b) = cg[outs(b)[1]]
      /\ Len(outs(b)) = 2 => Target(OfKind(CodeOf(b), "bcond")[1], 19) = cg[outs(b)[2]]

\* An edge over which the last walk came back or across has the forward label of an earlier
\* walk, too: the block at its end waits for one that comes behind it in the walk.
Relabeled ==
  \E b \in Block : \E i \in DOMAIN graph.in[b] :
    forward \in graph.in[b][i].label /\ graph.in[b][i].label \intersect {back, cross} # {}

\* The block in front of the exit that does not return is set aside, and it has other successors.
SetAside ==
  \E b \in Range(exitlist) :
    noreturn(b) /\ \E i \in DOMAIN graph.in[b] : Len(outs(graph.in[b][i].point)) > 1

\* No block is left out of the code, but for those two reasons.
BlocksPlaced ==
  /\ phase = "crash" => Relabeled \/ SetAside
  /\ phase \in {"emit", "fix", "finished"} => Range(blks) = Block
==============================================================================
