------------------------------ MODULE Opcodes ------------------------------
(***************************************************************************)
(* gOpcodeTable (src/cpu/opcodes.c): which handler each opcode byte        *)
(* selects and how many bytes its instruction takes.  An entry of the      *)
(* table is named by its opcode; a handler by the opcodes that select it.  *)
(* The first opcode of a pair takes a register (or an address, for jumps   *)
(* and calls), the second an immediate (or a register pair).               *)
(***************************************************************************)
EXTENDS Bytes

NOP     == \h00
LDR_MEM == \h01
LDR_IMM == \h02
STR     == \h03
MOV     == \h04
SWP     == \h05
PSH     == \h06
POP     == \h07
CLR     == \h08

ADD == {\h10, \h11}
ADC == {\h12, \h13}
INC == {\h14}
SUB == {\h15, \h16}
SBC == {\h17, \h18}
DEC == {\h19}
CMP == {\h1A, \h1B}
AND == {\h20, \h21}
OR  == {\h22, \h23}
XOR == {\h24, \h25}
TST == {\h2B, \h2C}

NOT == \h26
SHL == \h27
SHR == \h28
ROL == \h29
ROR == \h2A

JMP == {\h30, \h31}
JZ  == {\h32, \h33}
JNZ == {\h34, \h35}
JC  == {\h36, \h37}
JNC == {\h38, \h39}
JN  == {\h3A, \h3B}
JNN == {\h3C, \h3D}
JV  == {\h3E, \h3F}
JNV == {\h40, \h41}

CAL_MEM == \h42
CAL_REG == \h43
RET     == \h44
HLT     == \h45

-----------------------------------------------------------------------------
\* The families of handlers that share a shape.

UnaryOps == {NOT, SHL, SHR, ROL, ROR}
BinaryOps ==
  ADD \cup ADC \cup INC \cup SUB \cup SBC \cup DEC \cup CMP
    \cup AND \cup OR \cup XOR \cup TST
JumpOps == JMP \cup JZ \cup JNZ \cup JC \cup JNC \cup JN \cup JNN \cup JV \cup JNV

\* Second operand: a register, or a byte of the instruction.
RegisterForms == {\h10, \h12, \h15, \h17, \h1A, \h20, \h22, \h24, \h2B}
ImmediateForms == BinaryOps \ (RegisterForms \cup INC \cup DEC)

\* The target of a jump: an address in the instruction, or a register pair.
MemoryJumps == {\h30, \h32, \h34, \h36, \h38, \h3A, \h3C, \h3E, \h40}

Assigned ==
  {NOP, LDR_MEM, LDR_IMM, STR, MOV, SWP, PSH, POP, CLR}
    \cup BinaryOps \cup UnaryOps \cup JumpOps
    \cup {CAL_MEM, CAL_REG, RET, HLT}

-----------------------------------------------------------------------------
FourByteOps == {LDR_MEM, STR}
ThreeByteOps ==
  {LDR_IMM, MOV, SWP, CAL_MEM} \cup RegisterForms \cup ImmediateForms
    \cup MemoryJumps
TwoByteOps ==
  {PSH, POP, CLR, CAL_REG} \cup INC \cup DEC \cup UnaryOps
    \cup (JumpOps \ MemoryJumps)

\* km8_cpu_get_opcode(op)->size; opcodes with no entry select op_invalid.
Size(op) ==
  CASE op \in FourByteOps -> 4
    [] op \in ThreeByteOps -> 3
    [] op \in TwoByteOps -> 2
    [] OTHER -> 1

\* The execute cycles the handler of an instruction is written for: the
\* last of its cases.  Any other handler is done in one.
ExecCycles(op) ==
  CASE op \in {LDR_MEM, RET} -> 2
    [] op \in {CAL_MEM, CAL_REG} -> 3
    [] OTHER -> 1
=============================================================================
