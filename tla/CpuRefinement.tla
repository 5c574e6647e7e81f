--------------------------- MODULE CpuRefinement ---------------------------
(***************************************************************************)
(* The clocked CPU implements the instruction set.  Between instructions   *)
(* (no fetch begun, no latency left) or halted, the registers, counters    *)
(* and memories are the architecture's.  A history variable keeps their    *)
(* values of the last such moment; inside an instruction the architecture  *)
(* still shows those, and the step that ends the instruction is its step.  *)
(***************************************************************************)
EXTENDS Cpu

VARIABLE seen            \* history: the machine between instructions

Machine ==
  [cycles |-> cycles, halt_code |-> halt_code, registers |-> registers,
   instr_count |-> instr_count, wram |-> wram, ram |-> ram]

BetweenInstructions ==
  \/ state = "FETCH_OPCODE" /\ latency_cycles = 0
  \/ state = "HALT"

InitSeen == Init /\ seen = Machine
NextSeen == Next /\ seen' = IF BetweenInstructions' THEN Machine' ELSE seen
SpecSeen == InitSeen /\ [][NextSeen]_<<vars, seen>>

-----------------------------------------------------------------------------
\* The same cartridges, by a name that TLC evaluates only once.
Inserted == Cartridges

Architecture == INSTANCE Isa WITH
  Cartridges <- Inserted,
  cycles <- seen.cycles, halt_code <- seen.halt_code,
  registers <- seen.registers, instr_count <- seen.instr_count,
  wram <- seen.wram, ram <- seen.ram

(***************************************************************************)
(* Every instruction the CPU completes has the registers, memory, counters *)
(* and number of cycles that executing it at once has, however many cycles *)
(* and pending handlers it went through (cpu.c:8-92); a failing one stops  *)
(* with the effects, and only the effects, that Isa gives it.              *)
(***************************************************************************)
ImplementsIsa == Architecture!Spec
=============================================================================
