--------------------------- MODULE InstructionSet ---------------------------
(***************************************************************************)
(* The instruction set that the assembler reads                            *)
(* (tools/kasm/instruction_sets/km8-isa-v1.json, version 1): a mnemonic,   *)
(* an opcode and the kinds of the operands of every instruction.  It is    *)
(* written by hand, in another language than gOpcodeTable (src/cpu/        *)
(* opcodes.c, module Opcodes), and nothing but the two files says that     *)
(* they describe the same machine.                                         *)
(***************************************************************************)
EXTENDS Opcodes, Sequences

Instruction(mnemonic, opcode, operands) ==
  [mnemonic |-> mnemonic, opcode |-> opcode, operands |-> operands]

R == "Register"
I == "Immediate"
A == "Address"

\* Instructions without operands, or with one shape only.
Plain ==
  {Instruction("NOP", 0, <<>>), Instruction("STR", 3, <<R, A>>),
   Instruction("MOV", 4, <<R, R>>), Instruction("SWP", 5, <<R, R>>),
   Instruction("RET", 68, <<>>), Instruction("HLT", 69, <<>>)}

OnRegister ==
  {Instruction("PSH", 6, <<R>>), Instruction("POP", 7, <<R>>),
   Instruction("CLR", 8, <<R>>), Instruction("INC", 20, <<R>>),
   Instruction("DEC", 25, <<R>>), Instruction("NOT", 38, <<R>>),
   Instruction("SHL", 39, <<R>>), Instruction("SHR", 40, <<R>>),
   Instruction("ROL", 41, <<R>>), Instruction("ROR", 42, <<R>>)}

\* Two instructions of one mnemonic, with opcodes next to each other.
Pair2(mnemonic, opcode, first, second) ==
  {Instruction(mnemonic, opcode, first), Instruction(mnemonic, opcode + 1, second)}

Load == Pair2("LDR", 1, <<R, A>>, <<R, I>>)

OnRegisterOrByte ==
  UNION {Pair2(p[1], p[2], <<R, R>>, <<R, I>>) : p \in
    {<<"ADD", 16>>, <<"ADC", 18>>, <<"SUB", 21>>, <<"SBC", 23>>, <<"CMP", 26>>,
     <<"AND", 32>>, <<"OR", 34>>, <<"XOR", 36>>, <<"TST", 43>>}}

\* Mutation: the register form comes first, as in the arithmetic.
ToAddressOrPair_RegisterFirst ==
  UNION {Pair2(p[1], p[2], <<R>>, <<A>>) : p \in
    {<<"JMP", 48>>, <<"JZ", 50>>, <<"JNZ", 52>>, <<"JC", 54>>, <<"JNC", 56>>,
     <<"JN", 58>>, <<"JNN", 60>>, <<"JV", 62>>, <<"JNV", 64>>, <<"CALL", 66>>}}

ToAddressOrPair ==
  UNION {Pair2(p[1], p[2], <<A>>, <<R>>) : p \in
    {<<"JMP", 48>>, <<"JZ", 50>>, <<"JNZ", 52>>, <<"JC", 54>>, <<"JNC", 56>>,
     <<"JN", 58>>, <<"JNN", 60>>, <<"JV", 62>>, <<"JNV", 64>>, <<"CALL", 66>>}}

Instructions == Plain \cup OnRegister \cup Load \cup OnRegisterOrByte \cup ToAddressOrPair

\* InstructionSet.Contains
Contains(set, mnemonic) == \E i \in set : i.mnemonic = mnemonic

\* Extensions.GetSize
GetSize(kind) == CASE kind = I -> 1 [] kind = R -> 1 [] kind = A -> 2

\* The bytes an instruction takes: its opcode and its operands.
Encoded(i) ==
  LET size(k) == IF k <= Len(i.operands) THEN GetSize(i.operands[k]) ELSE 0
  IN  1 + size(1) + size(2)

\* The kinds of operands that the handler of an opcode takes from the
\* instruction's bytes (opcodes.c); a register pair is named by one register.
Takes(opcode) ==
  CASE opcode \in {LDR_MEM, STR} -> <<R, A>>
    [] opcode \in {MOV, SWP} \cup RegisterForms -> <<R, R>>
    [] opcode \in {LDR_IMM} \cup ImmediateForms -> <<R, I>>
    [] opcode \in {CAL_MEM} \cup MemoryJumps -> <<A>>
    [] opcode \in {PSH, POP, CLR, CAL_REG} \cup INC \cup DEC \cup UnaryOps
                    \cup (JumpOps \ MemoryJumps) -> <<R>>
    [] OTHER -> <<>>
=============================================================================
