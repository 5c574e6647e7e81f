-------------------------------- MODULE Cpu --------------------------------
(***************************************************************************)
(* The CPU (src/cpu/cpu.c, src/cpu/opcodes.c): one action is one call of   *)
(* km8_cpu_step, that is one clock cycle.  An instruction takes a cycle to *)
(* fetch its opcode, one to decode it, one per operand byte, one to find   *)
(* that the operands are complete, one or more to execute; a bus access    *)
(* adds the latency of its device, waited for before the next of these.    *)
(*                                                                         *)
(* Fields of struct Cpu that no function uses (instr_len, instr_pos) are   *)
(* left out.                                                               *)
(***************************************************************************)
EXTENDS Semantics, Memory

CONSTANTS
  Cartridges,            \* the cartridges inserted: [rom, ram_bank_count]
  StepCount,             \* bound: the cycles km8_step_cycles is asked for
  CounterMod             \* cycles and instr_count wrap here: 2^64 in the code

ASSUME CpuAssumption ==
  /\ StepCount \in Nat
  /\ CounterMod \in Nat \ {0}
  /\ \A c \in Cartridges :
       /\ c.ram_bank_count \in RamBankCounts
       /\ \A i \in DOMAIN c.rom : i \in Nat /\ c.rom[i] \in Byte

VARIABLES
  cycles, latency_cycles,
  state, halt_code,
  registers,
  selected_opcode,       \* NULL before the first decode
  opcode_pc,
  instr_count,
  instr_buf,
  value_buf,
  instr_exec_cycle

NULL == -1
INSTR_BUF_SIZE == 8

fetchVars == <<selected_opcode, opcode_pc, instr_buf>>
cpuVars == <<cycles, latency_cycles, state, halt_code, registers, fetchVars,
             instr_count, value_buf, instr_exec_cycle>>
vars == <<cpuVars, memoryVars, crashed>>

Init ==
  /\ cycles = 0 /\ latency_cycles = 0
  /\ state = "FETCH_OPCODE" /\ halt_code = "NONE"
  /\ registers = [r \in Register |-> 0]
  /\ selected_opcode = NULL
  /\ opcode_pc = 0
  /\ instr_count = 0
  /\ instr_buf = [i \in 0..(INSTR_BUF_SIZE - 1) |-> 0]
  /\ value_buf = 0
  /\ instr_exec_cycle = 0
  /\ \E c \in Cartridges : rom = c.rom /\ ram_bank_count = c.ram_bank_count
  /\ wram = [i \in {} |-> 0] /\ ram = [i \in {} |-> 0]
  /\ crashed = FALSE

-----------------------------------------------------------------------------
PC == Pair(registers, REG_PC)
SP == Pair(registers, REG_SP)

\* One call of km8_cpu_step that does something: it counts a cycle.
Turn ==
  /\ ~crashed
  /\ cycles < StepCount
  /\ cycles' = (cycles + 1) % CounterMod

\* Mutation: the latency of the access before is not waited for.
Ready_NoWait(s) == Turn /\ state = s

Ready(s) == Turn /\ latency_cycles = 0 /\ state = s

\* An access to addr, and a cycle without one.
Access(addr) ==
  /\ latency_cycles' = (latency_cycles + Latency(addr)) % 256
  /\ MayCrash(addr)
NoAccess == UNCHANGED <<latency_cycles, crashed>>
NoWrite == UNCHANGED memoryVars

-----------------------------------------------------------------------------
\* The stages of an instruction.

\* Mutation: the latency is tested but not counted down.
Wait_NoCountdown ==
  /\ Turn
  /\ latency_cycles > 0
  /\ UNCHANGED <<latency_cycles, state, halt_code, registers, fetchVars,
                 instr_count, value_buf, instr_exec_cycle, memoryVars, crashed>>

Wait ==
  /\ Turn
  /\ latency_cycles > 0
  /\ latency_cycles' = latency_cycles - 1
  /\ UNCHANGED <<state, halt_code, registers, fetchVars, instr_count,
                 value_buf, instr_exec_cycle, memoryVars, crashed>>

\* Mutation: opcode_pc is taken after PC has moved.
FetchOpcode_LatePc ==
  /\ Ready("FETCH_OPCODE")
  /\ \E byte \in BusRead(PC) : instr_buf' = [instr_buf EXCEPT ![0] = byte]
  /\ Access(PC)
  /\ state' = "DECODE"
  /\ opcode_pc' = (PC + 1) % 65536
  /\ registers' = SetPair(registers, REG_PC, PC + 1)
  /\ NoWrite
  /\ UNCHANGED <<halt_code, selected_opcode, instr_count, value_buf,
                 instr_exec_cycle>>

FetchOpcode ==
  /\ Ready("FETCH_OPCODE")
  /\ \E byte \in BusRead(PC) : instr_buf' = [instr_buf EXCEPT ![0] = byte]
  /\ Access(PC)
  /\ state' = "DECODE"
  /\ opcode_pc' = PC
  /\ registers' = SetPair(registers, REG_PC, PC + 1)
  /\ NoWrite
  /\ UNCHANGED <<halt_code, selected_opcode, instr_count, value_buf,
                 instr_exec_cycle>>

Decode ==
  /\ Ready("DECODE")
  /\ selected_opcode' = instr_buf[0]
  /\ state' = "FETCH_OPERANDS"
  /\ NoAccess /\ NoWrite
  /\ UNCHANGED <<halt_code, registers, opcode_pc, instr_count, instr_buf,
                 value_buf, instr_exec_cycle>>

\* The bytes of the instruction fetched so far, as a uint16_t.
PcDelta == (PC - opcode_pc) % 65536

\* Mutation: operands are stored from the opcode's slot on.
FetchOperand_SlotBefore ==
  /\ Ready("FETCH_OPERANDS")
  /\ PcDelta < INSTR_BUF_SIZE
  /\ PcDelta # Size(selected_opcode)
  /\ \E byte \in BusRead(PC) :
       instr_buf' = [instr_buf EXCEPT ![PcDelta - 1] = byte]
  /\ Access(PC)
  /\ registers' = SetPair(registers, REG_PC, PC + 1)
  /\ NoWrite
  /\ UNCHANGED <<state, halt_code, selected_opcode, opcode_pc, instr_count,
                 value_buf, instr_exec_cycle>>

FetchOperand ==
  /\ Ready("FETCH_OPERANDS")
  /\ PcDelta < INSTR_BUF_SIZE
  /\ PcDelta # Size(selected_opcode)
  /\ \E byte \in BusRead(PC) : instr_buf' = [instr_buf EXCEPT ![PcDelta] = byte]
  /\ Access(PC)
  /\ registers' = SetPair(registers, REG_PC, PC + 1)
  /\ NoWrite
  /\ UNCHANGED <<state, halt_code, selected_opcode, opcode_pc, instr_count,
                 value_buf, instr_exec_cycle>>

\* Mutation: the execute cycle of the instruction before is not cleared.
OperandsComplete_KeepCycle ==
  /\ Ready("FETCH_OPERANDS")
  /\ PcDelta >= INSTR_BUF_SIZE \/ PcDelta = Size(selected_opcode)
  /\ IF PcDelta >= INSTR_BUF_SIZE
     THEN /\ state' = "HALT" /\ halt_code' = "BUFFER_OVERFLOW"
          /\ UNCHANGED instr_exec_cycle
     ELSE /\ state' = "EXECUTE"
          /\ UNCHANGED <<halt_code, instr_exec_cycle>>
  /\ NoAccess /\ NoWrite
  /\ UNCHANGED <<registers, fetchVars, instr_count, value_buf>>

OperandsComplete ==
  /\ Ready("FETCH_OPERANDS")
  /\ PcDelta >= INSTR_BUF_SIZE \/ PcDelta = Size(selected_opcode)
  /\ IF PcDelta >= INSTR_BUF_SIZE
     THEN /\ state' = "HALT" /\ halt_code' = "BUFFER_OVERFLOW"
          /\ UNCHANGED instr_exec_cycle
     ELSE /\ state' = "EXECUTE" /\ instr_exec_cycle' = 0
          /\ UNCHANGED halt_code
  /\ NoAccess /\ NoWrite
  /\ UNCHANGED <<registers, fetchVars, instr_count, value_buf>>

-----------------------------------------------------------------------------
\* cpu_execute: what the three results of a handler do.

Executing(ops) ==
  /\ Ready("EXECUTE")
  /\ selected_opcode \in ops
  /\ UNCHANGED fetchVars

Succeed ==
  /\ state' = "FETCH_OPCODE"
  /\ instr_count' = (instr_count + 1) % CounterMod
  /\ UNCHANGED <<halt_code, instr_exec_cycle>>

Pending ==
  /\ instr_exec_cycle' = (instr_exec_cycle + 1) % 256
  /\ UNCHANGED <<state, halt_code, instr_count>>

FailWith(code) ==
  /\ state' = "HALT"
  /\ halt_code' = code
  /\ UNCHANGED <<instr_count, instr_exec_cycle>>

\* Mutation: the CPU halts without setting a halt code.
Fail_NoReason ==
  /\ FailWith(halt_code)
  /\ UNCHANGED <<registers, value_buf>>
  /\ NoAccess /\ NoWrite

\* A handler that gives no reason of its own, and changes nothing.
Fail ==
  /\ FailWith(IF halt_code = "NONE" THEN "EXEC_FAILED" ELSE halt_code)
  /\ UNCHANGED <<registers, value_buf>>
  /\ NoAccess /\ NoWrite

\* A handler that is done in one cycle and changes registers only.
ExecRegisters(ops, valid, after) ==
  /\ Executing(ops)
  /\ IF valid
     THEN /\ registers' = after
          /\ Succeed
          /\ UNCHANGED value_buf
          /\ NoAccess /\ NoWrite
     ELSE Fail

ExecNop == ExecRegisters({NOP}, TRUE, registers)
ExecMov == ExecRegisters({MOV}, ValidRegisters(MOV, instr_buf), AfterMov(instr_buf, registers))
ExecSwp == ExecRegisters({SWP}, ValidRegisters(SWP, instr_buf), AfterSwp(instr_buf, registers))
ExecClr == ExecRegisters({CLR}, ValidRegisters(CLR, instr_buf), AfterClr(instr_buf, registers))
ExecBinary ==
  ExecRegisters(BinaryOps, ValidRegisters(selected_opcode, instr_buf),
                AfterBinary(selected_opcode, instr_buf, registers))
ExecUnary ==
  ExecRegisters(UnaryOps, ValidRegisters(selected_opcode, instr_buf),
                AfterUnary(selected_opcode, instr_buf, registers))
ExecJump ==
  ExecRegisters(JumpOps, ValidJump(selected_opcode, instr_buf, registers),
                AfterJump(selected_opcode, instr_buf, registers))

ExecHlt ==
  /\ Executing({HLT})
  /\ FailWith("MANUAL")
  /\ UNCHANGED <<registers, value_buf>>
  /\ NoAccess /\ NoWrite

ExecInvalid ==
  /\ Executing(Byte \ Assigned)
  /\ FailWith("INVALID_OPCODE")
  /\ UNCHANGED <<registers, value_buf>>
  /\ NoAccess /\ NoWrite

-----------------------------------------------------------------------------
\* Loads and stores.

ExecLdrImm ==
  /\ Executing({LDR_IMM})
  /\ IF ValidRegisters(LDR_IMM, instr_buf)
     THEN /\ value_buf' = instr_buf[2]
          /\ registers' = [registers EXCEPT ![instr_buf[1]] = instr_buf[2]]
          /\ Succeed
          /\ NoAccess /\ NoWrite
     ELSE Fail

\* Mutation: the handler stays in its first case.
LdrMemRead_NoAdvance ==
  /\ Executing({LDR_MEM})
  /\ instr_exec_cycle = 0
  /\ value_buf' \in BusRead(Address(instr_buf, 2))
  /\ Access(Address(instr_buf, 2))
  /\ NoWrite
  /\ UNCHANGED <<registers, state, halt_code, instr_count, instr_exec_cycle>>

\* Case 0 of op_ldr_mem reads, before the register is looked at; case 1
\* stores, once the latency of the read has been waited for.
LdrMemRead ==
  /\ Executing({LDR_MEM})
  /\ instr_exec_cycle = 0
  /\ value_buf' \in BusRead(Address(instr_buf, 2))
  /\ Access(Address(instr_buf, 2))
  /\ Pending
  /\ NoWrite
  /\ UNCHANGED registers

LdrMemStore ==
  /\ Executing({LDR_MEM})
  /\ instr_exec_cycle # 0
  /\ IF instr_exec_cycle = 1 /\ ValidRegisters(LDR_MEM, instr_buf)
     THEN /\ registers' = [registers EXCEPT ![instr_buf[1]] = value_buf]
          /\ Succeed
          /\ UNCHANGED value_buf
          /\ NoAccess /\ NoWrite
     ELSE Fail

ExecStr ==
  /\ Executing({STR})
  /\ IF ValidRegisters(STR, instr_buf)
     THEN /\ BusWrite(Address(instr_buf, 2), registers[instr_buf[1]])
          /\ Access(Address(instr_buf, 2))
          /\ Succeed
          /\ UNCHANGED <<registers, value_buf>>
     ELSE Fail

-----------------------------------------------------------------------------
\* The stack: it grows down, and SP is the address of the next free byte.

StackPush(value) ==
  /\ BusWrite(SP, value)
  /\ Access(SP)
  /\ registers' = SetPair(registers, REG_SP, SP - 1)

StackTop == (SP + 1) % 65536
Popped == SetPair(registers, REG_SP, SP + 1)

ExecPsh ==
  /\ Executing({PSH})
  /\ IF ValidRegisters(PSH, instr_buf)
     THEN /\ StackPush(registers[instr_buf[1]])
          /\ Succeed
          /\ UNCHANGED value_buf
     ELSE Fail

\* The register is stored after SP has moved.
ExecPop ==
  /\ Executing({POP})
  /\ IF ValidRegisters(POP, instr_buf)
     THEN /\ \E byte \in BusRead(StackTop) :
               registers' = [Popped EXCEPT ![instr_buf[1]] = byte]
          /\ Access(StackTop)
          /\ Succeed
          /\ NoWrite
          /\ UNCHANGED value_buf
     ELSE Fail

\* Mutation: the low byte of the return address is pushed first.
CalPushHigh_LowFirst ==
  /\ Executing({CAL_MEM, CAL_REG})
  /\ instr_exec_cycle = 0
  /\ StackPush(Lo(PC))
  /\ value_buf' = Hi(PC)
  /\ Pending

CalPushHigh ==
  /\ Executing({CAL_MEM, CAL_REG})
  /\ instr_exec_cycle = 0
  /\ StackPush(Hi(PC))
  /\ value_buf' = Lo(PC)
  /\ Pending

CalPushLow ==
  /\ Executing({CAL_MEM, CAL_REG})
  /\ instr_exec_cycle = 1
  /\ StackPush(value_buf)
  /\ Pending
  /\ UNCHANGED value_buf

\* Only now, with the return address pushed, is a register pair checked.
CalJump ==
  /\ Executing({CAL_MEM, CAL_REG})
  /\ instr_exec_cycle \notin {0, 1}
  /\ IF /\ instr_exec_cycle = 2
        /\ selected_opcode = CAL_MEM \/ ValidPair(instr_buf[1])
     THEN /\ registers' = SetPair(registers, REG_PC,
                                  Target(selected_opcode, instr_buf, registers))
          /\ Succeed
          /\ UNCHANGED value_buf
          /\ NoAccess /\ NoWrite
     ELSE Fail

RetPopLow ==
  /\ Executing({RET})
  /\ instr_exec_cycle = 0
  /\ value_buf' \in BusRead(StackTop)
  /\ Access(StackTop)
  /\ registers' = Popped
  /\ Pending
  /\ NoWrite

\* Mutation: RET takes the byte popped last for the low one.
RetPopHigh_Swapped ==
  /\ Executing({RET})
  /\ instr_exec_cycle # 0
  /\ IF instr_exec_cycle = 1
     THEN /\ \E low \in BusRead(StackTop) :
               registers' = SetPair(Popped, REG_PC, MkWord(low, value_buf))
          /\ Access(StackTop)
          /\ Succeed
          /\ NoWrite
          /\ UNCHANGED value_buf
     ELSE Fail

\* Mutation: SP is left one short of where the call found it.
RetPopHigh_KeepSp ==
  /\ Executing({RET})
  /\ instr_exec_cycle # 0
  /\ IF instr_exec_cycle = 1
     THEN /\ \E high \in BusRead(StackTop) :
               registers' = SetPair(registers, REG_PC, MkWord(value_buf, high))
          /\ Access(StackTop)
          /\ Succeed
          /\ NoWrite
          /\ UNCHANGED value_buf
     ELSE Fail

RetPopHigh ==
  /\ Executing({RET})
  /\ instr_exec_cycle # 0
  /\ IF instr_exec_cycle = 1
     THEN /\ \E high \in BusRead(StackTop) :
               registers' = SetPair(Popped, REG_PC, MkWord(value_buf, high))
          /\ Access(StackTop)
          /\ Succeed
          /\ NoWrite
          /\ UNCHANGED value_buf
     ELSE Fail

-----------------------------------------------------------------------------
Next ==
  \/ Wait
  \/ FetchOpcode \/ Decode \/ FetchOperand \/ OperandsComplete
  \/ ExecNop \/ ExecMov \/ ExecSwp \/ ExecClr
  \/ ExecBinary \/ ExecUnary \/ ExecJump
  \/ ExecHlt \/ ExecInvalid
  \/ ExecLdrImm \/ LdrMemRead \/ LdrMemStore \/ ExecStr
  \/ ExecPsh \/ ExecPop
  \/ CalPushHigh \/ CalPushLow \/ CalJump
  \/ RetPopLow \/ RetPopHigh

Spec == Init /\ [][Next]_vars

\* The front end calls km8_step_cycles again every frame, so a CPU that can
\* step does.
FairSpec == Spec /\ WF_vars(Next)

-----------------------------------------------------------------------------
(***************************************************************************)
(* Every field keeps to its width and every memory to its cells: PC and SP *)
(* wrap at 16 bits (cpu.c:97-114), and no write of the CPU lands outside   *)
(* the arrays of wram.c:26-29 and ram.c:23-31.                             *)
(***************************************************************************)
TypeOK ==
  /\ cycles \in Nat /\ cycles < CounterMod
  /\ instr_count \in Nat /\ instr_count < CounterMod
  /\ latency_cycles \in Byte
  /\ state \in {"FETCH_OPCODE", "DECODE", "FETCH_OPERANDS", "EXECUTE", "HALT"}
  /\ halt_code \in {"NONE", "MANUAL", "INVALID_OPCODE", "EXEC_FAILED",
                    "BUFFER_OVERFLOW"}
  /\ registers \in [Register -> Byte]
  /\ selected_opcode \in Byte \cup {NULL}
  /\ opcode_pc \in Word
  /\ instr_buf \in [0..(INSTR_BUF_SIZE - 1) -> Byte]
  /\ value_buf \in Byte
  /\ instr_exec_cycle \in Byte
  /\ IsMemory(wram, WRAM_SIZE)
  /\ IsMemory(ram, ERAM_BANK_SIZE * ram_bank_count)
  /\ \A i \in DOMAIN rom : i \in Nat /\ rom[i] \in Byte
  /\ ram_bank_count \in RamBankCounts
  /\ crashed \in BOOLEAN

(***************************************************************************)
(* The window of bytes between opcode_pc and PC is the instruction: never  *)
(* empty once the opcode is in, never longer than its size, complete when  *)
(* it executes and until it ends, also where PC wraps around.  So the      *)
(* buffer cannot overflow (cpu.c:33) and no handler reads operands that    *)
(* were not fetched.                                                       *)
(***************************************************************************)
FetchWindow ==
  /\ state = "DECODE" => PcDelta = 1
  /\ state = "FETCH_OPERANDS" =>
       /\ selected_opcode = instr_buf[0]
       /\ PcDelta \in 1..Size(selected_opcode)
  /\ state = "EXECUTE" =>
       /\ selected_opcode = instr_buf[0]
       /\ PcDelta = Size(selected_opcode)
  /\ halt_code # "BUFFER_OVERFLOW"

(***************************************************************************)
(* While an instruction is being fetched, the buffer holds the very bytes  *)
(* that lie in memory from opcode_pc on: nothing is fetched twice, skipped *)
(* or left over from the instruction before.                               *)
(***************************************************************************)
FetchedFromMemory ==
  \/ state = "FETCH_OPERANDS"
  \/ state = "EXECUTE" /\ instr_exec_cycle = 0
  => \A i \in 0..(PcDelta - 1) :
       instr_buf[i] \in BusRead((opcode_pc + i) % 65536)

(***************************************************************************)
(* A handler of several cycles is never entered at a cycle it has no case  *)
(* for: the default branches of opcodes.c (lines 39, 572, 596 and 612) are *)
(* dead.  It needs instr_exec_cycle cleared between instructions.          *)
(***************************************************************************)
ExecCycleBound ==
  state = "EXECUTE" => instr_exec_cycle < ExecCycles(selected_opcode)

(***************************************************************************)
(* At most one bus access is paid for at a time: the byte counter          *)
(* latency_cycles never holds more than the slowest device's latency,      *)
(* although every access adds to it (cpu.c:13, 45, cpu_internal.h:27, 33). *)
(***************************************************************************)
LatencyBound == latency_cycles <= 8

\* An operand that names no register, in an instruction that needs one.
BadOperand ==
  IF selected_opcode \in JumpOps \cup {CAL_REG}
  THEN ~ValidPair(instr_buf[1])
  ELSE ~ValidRegisters(selected_opcode, instr_buf)

(***************************************************************************)
(* A halted CPU has a reason, a running one has none, and the reason is    *)
(* true of the instruction that stopped it (cpu.c:62-69, opcodes.c:617-    *)
(* 626): MANUAL of HLT, INVALID_OPCODE of an opcode without entry,         *)
(* EXEC_FAILED of an operand that is no register.  Nothing is left to wait *)
(* for, so the cycle counter stands still.                                 *)
(***************************************************************************)
HaltReason ==
  /\ state = "HALT" <=> halt_code # "NONE"
  /\ state = "HALT" => latency_cycles = 0
  /\ halt_code = "MANUAL" => selected_opcode = HLT
  /\ halt_code = "INVALID_OPCODE" => selected_opcode \notin Assigned
  /\ halt_code = "EXEC_FAILED" => selected_opcode \in Assigned /\ BadOperand

(***************************************************************************)
(* Cartridge RAM is memory: README.md:77 gives the 4 KiB from 0xE100 on as *)
(* "External save RAM".  The code does not keep it: map_address (ram.c:10) *)
(* takes a bank off the local address, so the index is negative for every  *)
(* address but the first, and for that one too with several banks.         *)
(***************************************************************************)
SaveRamReachable ==
  state = "EXECUTE" /\ selected_opcode \in {LDR_MEM, STR}
    => ~Stray(Address(instr_buf, 2))

(***************************************************************************)
(* The BIOS hands over: the CPU reaches the cartridge's entry point with   *)
(* the stack at the top of WRAM0 (bios.c:6-15), on any cartridge.          *)
(***************************************************************************)
BootHandsOff ==
  <>(state = "FETCH_OPCODE" /\ PC = \h0110 /\ SP = \hA0FF)

(***************************************************************************)
(* No instruction goes on for ever: the CPU comes back to fetching, or     *)
(* halts (cpu.c:50-70).                                                    *)
(***************************************************************************)
InstructionsEnd == []<>(state \in {"FETCH_OPCODE", "HALT"})
=============================================================================
