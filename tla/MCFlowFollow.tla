----------------------------- MODULE MCFlowFollow -----------------------------
(* An instance of FlowFollow for TLC. *)
EXTENDS FlowFollow

MCAddr == 0 .. 3

P(opc, to) == [opcode |-> opc, to |-> to, rel |-> FALSE]
Plain(opc) == P(opc, 0)

\* Another function, outside.
Away == 4
MCFunctions == {Away}

\* One unit long: nothing, an op, a call, a jump, an instruction of an IT block, which a
\* branch to the next instruction skips.  Two units long: a label behind a return, a return
\* that is jumped over, a jump that leads nowhere, or a call of address 2 as a function.
MCInstructions(a) ==
  {[size |-> 1, ops |-> ops, calls |-> {}] :
     ops \in {<<Plain(opc)>> : opc \in {"OP", "RETURN", "NORETURN_CALL"}}
             \union {<<P(opc, t)>> : opc \in {"BRANCH", "CBRANCH"}, t \in MCAddr}
             \union {<<P("CBRANCH", a + 1), P(opc, Away)>> : opc \in {"OP", "BRANCH", "NORETURN_CALL"}}
             \union (IF a = 0 THEN {} ELSE {<< >>})}
  \union
  {[size |-> 2, ops |-> ops, calls |-> {}] :
     ops \in {<<[opcode |-> "CBRANCH", to |-> 2, rel |-> TRUE], Plain("RETURN"), Plain("OP")>>,
              <<[opcode |-> "CBRANCH", to |-> 2, rel |-> TRUE], Plain("RETURN")>>,
              <<[opcode |-> "CBRANCH", to |-> 3, rel |-> TRUE], Plain("OP")>>}}
  \union {[size |-> 2, ops |-> <<Plain("OP")>>, calls |-> {2}]}

ASSUME TidyPcode /\ LinkedPcode
==============================================================================
