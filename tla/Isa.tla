-------------------------------- MODULE Isa --------------------------------
(***************************************************************************)
(* What the CPU promises a program: whole instructions.  One step reads    *)
(* the instruction at PC, executes it and charges its cycles; the program  *)
(* never sees the fetch, the instruction buffer, the pending handlers or   *)
(* the cycles spent waiting for a device.  CpuRefinement shows that the    *)
(* clocked CPU implements this.                                            *)
(*                                                                         *)
(* A read has one value here: the promise is made for cartridges whose     *)
(* accesses stay inside their RAM.                                         *)
(***************************************************************************)
EXTENDS Semantics, Memory

CONSTANTS
  Cartridges,            \* the cartridges inserted: [rom, ram_bank_count]
  CounterMod             \* the counters wrap here

VARIABLES
  cycles,                \* clock cycles spent
  halt_code,             \* "NONE" while the program runs
  registers,
  instr_count            \* instructions that succeeded

vars == <<cycles, halt_code, registers, instr_count, memoryVars>>

Init ==
  /\ cycles = 0 /\ halt_code = "NONE" /\ instr_count = 0
  /\ registers = [r \in Register |-> 0]
  /\ \E c \in Cartridges : rom = c.rom /\ ram_bank_count = c.ram_bank_count
  /\ wram = [i \in {} |-> 0] /\ ram = [i \in {} |-> 0]

-----------------------------------------------------------------------------
ByteAt(addr) == CHOOSE byte \in BusRead(addr % 65536) : TRUE
Delay(addr) == Latency(addr % 65536)

PC == Pair(registers, REG_PC)
SP == Pair(registers, REG_SP)
Instruction == [i \in 0..3 |-> ByteAt(PC + i)]
Op == Instruction[0]

\* The registers the instruction starts from: PC is past its last byte.
Fetched == SetPair(registers, REG_PC, PC + Size(Op))

\* A cycle for each byte and its device, one to decode, one to notice that
\* the last byte is there.
FetchCost ==
  LET delay(i) == IF i < Size(Op) THEN Delay(PC + i) ELSE 0
  IN  Size(Op) + delay(0) + delay(1) + delay(2) + delay(3) + 2

\* An instruction charges its execute cycles and the delay of its accesses.
Charge(execCycles, delay) ==
  cycles' = (cycles + FetchCost + execCycles + delay) % CounterMod

Succeed(after, delay) ==
  /\ registers' = after
  /\ Charge(ExecCycles(Op), delay)
  /\ instr_count' = (instr_count + 1) % CounterMod
  /\ UNCHANGED halt_code

Stop(code, after, execCycles, delay) ==
  /\ halt_code' = code
  /\ registers' = after
  /\ Charge(execCycles, delay)
  /\ UNCHANGED instr_count

Running(ops) == halt_code = "NONE" /\ Op \in ops

-----------------------------------------------------------------------------
RegisterStep(ops, valid, after) ==
  /\ Running(ops)
  /\ IF valid THEN Succeed(after, 0) ELSE Stop("EXEC_FAILED", Fetched, 1, 0)
  /\ UNCHANGED memoryVars

Nop == RegisterStep({NOP}, TRUE, Fetched)
Mov == RegisterStep({MOV}, ValidRegisters(MOV, Instruction), AfterMov(Instruction, Fetched))
Swp == RegisterStep({SWP}, ValidRegisters(SWP, Instruction), AfterSwp(Instruction, Fetched))
Clr == RegisterStep({CLR}, ValidRegisters(CLR, Instruction), AfterClr(Instruction, Fetched))
LdrImm ==
  RegisterStep({LDR_IMM}, ValidRegisters(LDR_IMM, Instruction),
               [Fetched EXCEPT ![Instruction[1]] = Instruction[2]])
BinaryStep ==
  RegisterStep(BinaryOps, ValidRegisters(Op, Instruction), AfterBinary(Op, Instruction, Fetched))
UnaryStep ==
  RegisterStep(UnaryOps, ValidRegisters(Op, Instruction), AfterUnary(Op, Instruction, Fetched))
Jump ==
  RegisterStep(JumpOps, ValidJump(Op, Instruction, Fetched), AfterJump(Op, Instruction, Fetched))

Halt ==
  /\ Running({HLT} \cup (Byte \ Assigned))
  /\ Stop(IF Op = HLT THEN "MANUAL" ELSE "INVALID_OPCODE", Fetched, 1, 0)
  /\ UNCHANGED memoryVars

-----------------------------------------------------------------------------
\* A load into no register is still a load, and takes as long.
LdrMem ==
  LET addr == Address(Instruction, 2) IN
  /\ Running({LDR_MEM})
  /\ IF ValidRegisters(LDR_MEM, Instruction)
     THEN Succeed([Fetched EXCEPT ![Instruction[1]] = ByteAt(addr)], Delay(addr))
     ELSE Stop("EXEC_FAILED", Fetched, 2, Delay(addr))
  /\ UNCHANGED memoryVars

\* A store of no register is none.
Str ==
  LET addr == Address(Instruction, 2) IN
  /\ Running({STR})
  /\ IF ValidRegisters(STR, Instruction)
     THEN /\ Succeed(Fetched, Delay(addr))
          /\ BusWrite(addr, Fetched[Instruction[1]])
     ELSE /\ Stop("EXEC_FAILED", Fetched, 1, 0)
          /\ UNCHANGED memoryVars

Psh ==
  /\ Running({PSH})
  /\ IF ValidRegisters(PSH, Instruction)
     THEN /\ Succeed(SetPair(Fetched, REG_SP, SP - 1), Delay(SP))
          /\ BusWrite(SP, Fetched[Instruction[1]])
     ELSE /\ Stop("EXEC_FAILED", Fetched, 1, 0)
          /\ UNCHANGED memoryVars

Pop ==
  /\ Running({POP})
  /\ IF ValidRegisters(POP, Instruction)
     THEN Succeed([SetPair(Fetched, REG_SP, SP + 1) EXCEPT ![Instruction[1]] = ByteAt(SP + 1)],
                  Delay(SP + 1))
     ELSE Stop("EXEC_FAILED", Fetched, 1, 0)
  /\ UNCHANGED memoryVars

\* The return address is the address of the next instruction, its high byte
\* above its low byte.  A call through an invalid pair leaves it pushed.
Call ==
  LET return == Pair(Fetched, REG_PC)
      below == (SP - 1) % 65536
      pushed == SetPair(Fetched, REG_SP, SP - 2)
      delay == Delay(SP) + Delay(below)
  IN
  /\ Running({CAL_MEM, CAL_REG})
  /\ IF Op = CAL_MEM \/ ValidPair(Instruction[1])
     THEN Succeed(SetPair(pushed, REG_PC, Target(Op, Instruction, pushed)), delay)
     ELSE Stop("EXEC_FAILED", pushed, 3, delay)
  /\ wram' = WramAfter(WramAfter(wram, SP, Hi(return)), below, Lo(return))
  /\ ram' = RamAfter(RamAfter(ram, SP, Hi(return)), below, Lo(return))
  /\ UNCHANGED <<rom, ram_bank_count>>

Return ==
  /\ Running({RET})
  /\ Succeed(SetPair(SetPair(Fetched, REG_SP, SP + 2), REG_PC,
                     MkWord(ByteAt(SP + 1), ByteAt(SP + 2))),
             Delay(SP + 1) + Delay(SP + 2))
  /\ UNCHANGED memoryVars

Next ==
  \/ Nop \/ Mov \/ Swp \/ Clr \/ LdrImm \/ BinaryStep \/ UnaryStep \/ Jump
  \/ Halt
  \/ LdrMem \/ Str \/ Psh \/ Pop
  \/ Call \/ Return

Spec == Init /\ [][Next]_vars
=============================================================================
