----------------------------- MODULE Semantics -----------------------------
(***************************************************************************)
(* What an instruction does to the register file, as functions of the      *)
(* registers and of the bytes of the instruction (instr_buf).  The CPU     *)
(* spreads an instruction over several clock cycles (module Cpu); the      *)
(* architecture executes it at once (module Isa); both use these.          *)
(***************************************************************************)
EXTENDS Alu, Opcodes

Register == 0..11
REG_SP == 7
REG_PC == 9
REG_FLAG == 11

\* Register pairs, low byte first: km8_cpu_get_pc, set_pc, get_sp, set_sp.
Pair(regs, r) == MkWord(regs[r], regs[r + 1])
\* Mutation: the sum is not truncated to 16 bits.
SetPair_NoWrap(regs, r, n) == [regs EXCEPT ![r] = Lo(n), ![r + 1] = Hi(n)]

SetPair(regs, r, n) ==
  LET word == n % 65536 IN [regs EXCEPT ![r] = Lo(word), ![r + 1] = Hi(word)]

SetFlags(regs, flags) == [regs EXCEPT ![REG_FLAG] = flags]
FlagSet(regs, flag) == HasBit(regs[REG_FLAG], flag)

\* get_addr(instr_buf + i)
Address(buf, i) == MkWord(buf[i], buf[i + 1])

-----------------------------------------------------------------------------
\* KM8_VALIDATE_REGISTER and KM8_VALIDATE_REGISTER_PAIR

TwoRegisterOps == {MOV, SWP} \cup RegisterForms

ValidRegisters(op, buf) ==
  buf[1] \in Register /\ (op \in TwoRegisterOps => buf[2] \in Register)
ValidPair(r) == r \in Register /\ r + 1 \in Register

-----------------------------------------------------------------------------
\* Instructions that compute.

Binary(op, a, b, cin) ==
  CASE op \in ADD \cup INC -> Add(a, b)
    [] op \in ADC -> Adc(a, b, cin)
    [] op \in SUB \cup DEC \cup CMP -> Sub(a, b)
    [] op \in SBC -> Sbc(a, b, cin)
    [] op \in AND \cup TST -> And(a, b)
    [] op \in OR -> Or(a, b)
    [] OTHER -> Xor(a, b)

SecondOperand(op, buf, regs) ==
  CASE op \in RegisterForms -> regs[buf[2]]
    [] op \in ImmediateForms -> buf[2]
    [] OTHER -> 1

\* The ALU sets the flags before the instruction stores the result, so a
\* result stored in the flags register replaces them.
AfterBinary(op, buf, regs) ==
  LET cin == IF FlagSet(regs, FLAG_C) THEN 1 ELSE 0
      out == Binary(op, regs[buf[1]], SecondOperand(op, buf, regs), cin)
      flagged == SetFlags(regs, out.flags)
  IN  IF op \in CMP \cup TST THEN flagged
      ELSE [flagged EXCEPT ![buf[1]] = out.value]

Unary(op, a) ==
  CASE op = NOT -> Not(a)
    [] op = SHL -> Shl(a)
    [] op = SHR -> Shr(a)
    [] op = ROL -> Rol(a)
    [] OTHER -> Ror(a)

\* Here the flags are set last, and prevail in the flags register.
AfterUnary(op, buf, regs) ==
  LET out == Unary(op, regs[buf[1]])
  IN  SetFlags([regs EXCEPT ![buf[1]] = out.value], out.flags)

AfterClr(buf, regs) == SetFlags([regs EXCEPT ![buf[1]] = 0], FLAG_Z)

AfterMov(buf, regs) == [regs EXCEPT ![buf[1]] = regs[buf[2]]]

AfterSwp(buf, regs) ==
  [regs EXCEPT ![buf[1]] = regs[buf[2]], ![buf[2]] = regs[buf[1]]]

-----------------------------------------------------------------------------
\* Jumps.

Taken(op, regs) ==
  CASE op \in JMP -> TRUE
    [] op \in JZ  -> FlagSet(regs, FLAG_Z)
    [] op \in JNZ -> ~FlagSet(regs, FLAG_Z)
    [] op \in JC  -> FlagSet(regs, FLAG_C)
    [] op \in JNC -> ~FlagSet(regs, FLAG_C)
    [] op \in JN  -> FlagSet(regs, FLAG_N)
    [] op \in JNN -> ~FlagSet(regs, FLAG_N)
    [] op \in JV  -> FlagSet(regs, FLAG_V)
    [] OTHER      -> ~FlagSet(regs, FLAG_V)

\* A pair is looked at, and found invalid, only by a jump that is taken.
ValidJump(op, buf, regs) ==
  Taken(op, regs) => op \in MemoryJumps \/ ValidPair(buf[1])

Target(op, buf, regs) ==
  IF op \in MemoryJumps \cup {CAL_MEM} THEN Address(buf, 1)
  ELSE Pair(regs, buf[1])

AfterJump(op, buf, regs) ==
  IF Taken(op, regs) THEN SetPair(regs, REG_PC, Target(op, buf, regs)) ELSE regs
=============================================================================
