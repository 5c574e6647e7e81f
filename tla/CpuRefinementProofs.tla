------------------------- MODULE CpuRefinementProofs -------------------------
(***************************************************************************)
(* That the clocked CPU implements the instruction set (module             *)
(* CpuRefinement), for every cartridge without RAM, every number of cycles *)
(* and every width of the counters; and for cartridges with RAM, as long   *)
(* as a load outside an allocation yields always the same byte, for Isa    *)
(* executes an instruction at once and reads each of its bytes but one     *)
(* time.  The argument follows an instruction through its clock cycles:    *)
(* SeenInv says, in each state of the CPU, what of the instruction has     *)
(* been done to the machine that was last seen between two instructions,   *)
(* and what clock is due when its delays have been waited for.             *)
(***************************************************************************)
EXTENDS CpuRefinement, CpuProofs

USE DEF NOP, LDR_MEM, LDR_IMM, STR, MOV, SWP, PSH, POP, CLR, CAL_MEM, CAL_REG, RET, HLT
USE DEF Architecture!NOP, Architecture!LDR_MEM, Architecture!LDR_IMM, Architecture!STR,
        Architecture!MOV, Architecture!SWP, Architecture!PSH, Architecture!POP,
             Architecture!CLR,
        Architecture!CAL_MEM, Architecture!CAL_REG, Architecture!RET, Architecture!HLT

-----------------------------------------------------------------------------
\* Counters that wrap: what the remainder of a sum is.

\* Quotient and remainder.
LEMMA DivMod ==
  ASSUME NEW m \in Nat \ {0}, NEW y \in Int
  PROVE  /\ y \div m \in Int /\ y % m \in Int
         /\ y = m * (y \div m) + (y % m)
         /\ 0 <= y % m /\ y % m < m
  OBVIOUS

\* No multiple of m but 0 lies between -m and m.
LEMMA NoMultiple ==
  ASSUME NEW m \in Nat \ {0}, NEW d \in Int, m * d < m, -m < m * d
  PROVE  d = 0
<1>1. ASSUME d >= 1 PROVE FALSE
  <2>1. m * d >= m * 1
    BY <1>1
  <2> QED BY <2>1
<1>2. ASSUME d <= -1 PROVE FALSE
  <2>1. m * d <= m * (-1)
    BY <1>2
  <2> QED BY <2>1
<1> QED BY <1>1, <1>2

\* The remainder is the only one there is.
LEMMA ModUnique ==
  ASSUME NEW m \in Nat \ {0}, NEW y \in Int, NEW k \in Int, NEW r \in Int,
         y = m * k + r, 0 <= r, r < m
  PROVE  y % m = r
<1> DEFINE q == y \div m
           s == y % m
<1>1. q \in Int /\ s \in Int /\ y = m * q + s /\ 0 <= s /\ s < m
  BY DivMod
<1> HIDE DEF q, s
<1>2. m * (q - k) = m * q - m * k
  BY <1>1
<1>3. m * (q - k) = r - s
  <2>1. m * q \in Int /\ m * k \in Int
    BY <1>1
  <2> QED BY <1>1, <1>2, <2>1
<1>4. m * (q - k) < m /\ -m < m * (q - k)
  BY <1>1, <1>3
<1>5. q - k = 0
  BY <1>1, <1>4, NoMultiple
<1>6. m * (q - k) = 0
  BY <1>5
<1> QED BY <1>1, <1>3, <1>6 DEF s

\* Counters that wrap may wrap at any time.
LEMMA ModAdd ==
  ASSUME NEW m \in Nat \ {0}, NEW a \in Int, NEW b \in Int
  PROVE  ((a % m) + b) % m = (a + b) % m
<1> DEFINE q == a \div m
           r == a % m
           p == (r + b) \div m
           s == (r + b) % m
<1>1. q \in Int /\ r \in Int /\ a = m * q + r
  BY DivMod
<1> HIDE DEF q, r
<1>2. p \in Int /\ s \in Int /\ r + b = m * p + s /\ 0 <= s /\ s < m
  <2>1. r + b \in Int
    BY <1>1
  <2> QED BY <2>1, DivMod
<1> HIDE DEF p, s
<1>3. m * (q + p) = m * q + m * p
  BY <1>1, <1>2
<1>4. a + b = m * (q + p) + s
  <2>1. m * q \in Int /\ m * p \in Int
    BY <1>1, <1>2
  <2> QED BY <1>1, <1>2, <1>3, <2>1
<1>5. (a + b) % m = s
  <2>1. q + p \in Int /\ a + b \in Int
    BY <1>1, <1>2
  <2> QED BY <1>2, <1>4, <2>1, ModUnique
<1> QED BY <1>5 DEF s, r

\* A counter with nothing to come is as it is.
LEMMA Unwrapped ==
  ASSUME NEW m \in Nat \ {0}, NEW c \in Nat, c < m, NEW nothing, nothing = 0
  PROVE  (c + nothing) % m = c
<1>1. c + nothing = m * 0 + c
  OBVIOUS
<1> QED BY <1>1, ModUnique

-----------------------------------------------------------------------------
\* The operators of Isa are those of Cpu: both come from the modules Bytes,
\* Memory, Opcodes, Alu and Semantics, once directly and once through the
\* instance.

\* Bytes and words.
LEMMA SameWords ==
  /\ \A w : Architecture!Lo(w) = Lo(w) /\ Architecture!Hi(w) = Hi(w)
  /\ \A lo, hi : Architecture!MkWord(lo, hi) = MkWord(lo, hi)
  /\ Architecture!Byte = Byte
  BY DEF Architecture!Lo, Architecture!Hi, Architecture!MkWord, Architecture!Byte, Lo, Hi,
         MkWord, Byte

\* The register file and its pairs.
LEMMA SameRegisters ==
  /\ Architecture!Register = Register
  /\ Architecture!REG_PC = REG_PC /\ Architecture!REG_SP = REG_SP
  /\ \A regs, r : Architecture!Pair(regs, r) = Pair(regs, r)
  /\ \A regs, r, n : Architecture!SetPair(regs, r, n) = SetPair(regs, r, n)
  /\ \A buf, i : Architecture!Address(buf, i) = Address(buf, i)
  /\ \A r : Architecture!ValidPair(r) = ValidPair(r)
  BY DEF Architecture!Lo, Architecture!Hi, Architecture!MkWord, Lo, Hi, MkWord,
         Architecture!Register, Architecture!REG_PC, Architecture!REG_SP,
         Architecture!Pair, Architecture!SetPair, Architecture!Address,
         Architecture!ValidPair, Register, REG_PC, REG_SP, Pair, SetPair, Address,
         ValidPair

\* The opcode groups.
LEMMA SameOpcodes ==
  /\ Architecture!BinaryOps = BinaryOps /\ Architecture!UnaryOps = UnaryOps
  /\ Architecture!JumpOps = JumpOps /\ Architecture!Assigned = Assigned
  /\ Architecture!RegisterForms = RegisterForms /\ Architecture!ImmediateForms = ImmediateForms
  /\ Architecture!MemoryJumps = MemoryJumps
  BY DEF Architecture!BinaryOps, Architecture!UnaryOps, Architecture!JumpOps,
         Architecture!Assigned, Architecture!RegisterForms, Architecture!ImmediateForms,
         Architecture!MemoryJumps, BinaryOps, UnaryOps, JumpOps, Assigned, RegisterForms,
         ImmediateForms, MemoryJumps, ADD, ADC, INC, SUB, SBC, DEC, CMP, AND, OR, XOR,
         TST, Architecture!ADD, Architecture!ADC, Architecture!INC, Architecture!SUB,
         Architecture!SBC, Architecture!DEC, Architecture!CMP, Architecture!AND,
         Architecture!OR, Architecture!XOR, Architecture!TST, NOT, SHL, SHR, ROL, ROR,
         JMP, JZ, JNZ, JC, JNC, JN, JNN, JV, JNV, Architecture!NOT, Architecture!SHL,
         Architecture!SHR, Architecture!ROL, Architecture!ROR, Architecture!JMP,
         Architecture!JZ, Architecture!JNZ, Architecture!JC, Architecture!JNC,
         Architecture!JN, Architecture!JNN, Architecture!JV, Architecture!JNV

\* The sizes and execute cycles.
LEMMA SameSize ==
  ASSUME NEW op
  PROVE /\ Architecture!Size(op) = Size(op)
        /\ Architecture!ExecCycles(op) = ExecCycles(op)
  BY SameOpcodes DEF Size, ExecCycles, FourByteOps, ThreeByteOps, TwoByteOps, INC, DEC,
                     Architecture!Size, Architecture!ExecCycles, Architecture!FourByteOps,
                     Architecture!ThreeByteOps, Architecture!TwoByteOps, Architecture!INC,
                     Architecture!DEC

\* The operand checks.
LEMMA SameValidity ==
  ASSUME NEW op, NEW buf
  PROVE  Architecture!ValidRegisters(op, buf) = ValidRegisters(op, buf)
  BY SameOpcodes, SameRegisters
     DEF ValidRegisters, TwoRegisterOps, Architecture!ValidRegisters,
         Architecture!TwoRegisterOps

\* The ALU and the flags it answers with.
LEMMA SameAlu ==
  /\ \A r, c, v : Architecture!Outcome(r, c, v) = Outcome(r, c, v)
  /\ \A r : Architecture!Logical(r) = Logical(r)
  /\ \A B : Architecture!FromBits(B) = FromBits(B)
  /\ \A x : Architecture!BitsOf(x) = BitsOf(x)
  /\ \A x, y : Architecture!SameSign(x, y) = SameSign(x, y)
  /\ \A x, y : Architecture!HasBit(x, y) = HasBit(x, y)
  BY DEF Outcome, Architecture!Outcome, Flag, Architecture!Flag, SameSign,
         Architecture!SameSign, Negative, Architecture!Negative, HasBit,
         Architecture!HasBit, FLAG_C, FLAG_Z, FLAG_N, FLAG_V, Architecture!FLAG_C,
         Architecture!FLAG_Z, Architecture!FLAG_N, Architecture!FLAG_V, Logical,
         Architecture!Logical, FromBits, Architecture!FromBits, Bit, Architecture!Bit,
         BitsOf, Architecture!BitsOf, Masks, Architecture!Masks

\* Which operation an opcode is.
LEMMA SameOperations ==
  ASSUME NEW op, NEW a, NEW b, NEW cin
  PROVE  /\ Architecture!Binary(op, a, b, cin) = Binary(op, a, b, cin)
         /\ Architecture!Unary(op, a) = Unary(op, a)
  BY SameAlu DEF Binary, Unary, Add, Adc, Sub, Sbc, And, Or, Xor, Not, Shl, Shr, Rol, Ror,
                 Architecture!Binary, Architecture!Unary, Architecture!Add,
                 Architecture!Adc, Architecture!Sub, Architecture!Sbc, Architecture!And,
                 Architecture!Or, Architecture!Xor, Architecture!Not, Architecture!Shl,
                 Architecture!Shr, Architecture!Rol, Architecture!Ror, ADD, ADC, INC, SUB,
                 SBC, DEC, CMP, AND, OR, XOR, TST, Architecture!ADD, Architecture!ADC,
                 Architecture!INC, Architecture!SUB, Architecture!SBC, Architecture!DEC,
                 Architecture!CMP, Architecture!AND, Architecture!OR, Architecture!XOR,
                 Architecture!TST, NOT, SHL, SHR, ROL, ROR, Architecture!NOT,
                 Architecture!SHL, Architecture!SHR, Architecture!ROL, Architecture!ROR

\* Where an address leads, and how long it takes.
LEMMA SameMemory ==
  /\ \A a : Architecture!Latency(a) = Latency(a)
  /\ \A w, a, v : Architecture!WramAfter(w, a, v) = WramAfter(w, a, v)
  /\ \A r, a, v : Architecture!RamAfter(r, a, v) = RamAfter(r, a, v)
  BY DEF Latency, WramAfter, RamAfter, Architecture!Latency, Architecture!WramAfter,
         Architecture!RamAfter, BIOS, WRAM0, WRAMN, WRAM, ROM0, ROMN, ERAM, Stored,
         WramIndex, EramIndex, EramInside, Remainder, SIZE_ERAM, ERAM_BANK_SIZE,
         Architecture!BIOS, Architecture!WRAM0, Architecture!WRAMN, Architecture!WRAM,
         Architecture!ROM0, Architecture!ROMN, Architecture!ERAM, Architecture!Stored,
         Architecture!WramIndex, Architecture!EramIndex, Architecture!EramInside,
         Architecture!Remainder, Architecture!SIZE_ERAM, Architecture!ERAM_BANK_SIZE

\* A memory that is the one seen reads the same.
LEMMA SameReadsThere ==
  ASSUME wram = seen.wram, ram = seen.ram, NEW a
  PROVE Architecture!BusRead(a) = BusRead(a)
  BY DEF BusRead, Architecture!BusRead, BIOS, WRAM0, WRAMN, WRAM, ROM0, ROMN, ROM, ERAM,
         Cell, WramIndex, RomIndex, SIZE_ROM0, EramIndex, EramInside, Remainder,
         SIZE_ERAM, ERAM_BANK_SIZE, BiosByte, Bios, Architecture!BIOS, Architecture!WRAM0,
         Architecture!WRAMN, Architecture!WRAM, Architecture!ROM0, Architecture!ROMN,
         Architecture!ROM, Architecture!ERAM, Architecture!Cell, Architecture!WramIndex,
         Architecture!RomIndex, Architecture!SIZE_ROM0, Architecture!EramIndex,
         Architecture!EramInside, Architecture!Remainder, Architecture!SIZE_ERAM,
         Architecture!ERAM_BANK_SIZE, Architecture!BiosByte, Architecture!Bios

-----------------------------------------------------------------------------
\* Operations of the whole instruction, and reads of the memory that was
\* seen.

\* The operand bytes an operation uses are within its size.
LEMMA LongForms ==
  /\ \A op \in RegisterForms \cup {MOV, SWP, LDR_IMM, CAL_MEM, LDR_MEM, STR} : Size(op) >= 3
  /\ \A op \in BinaryOps \ (INC \cup DEC) : Size(op) = 3
  /\ \A op \in MemoryJumps : Size(op) = 3
  /\ \A op \in BinaryOps \cup UnaryOps \cup JumpOps
        \cup {LDR_MEM, LDR_IMM, STR, MOV, SWP, PSH, POP, CLR, CAL_MEM, CAL_REG} : Size(op) >= 2
  /\ Size(LDR_MEM) = 4 /\ Size(STR) = 4
  BY DEF Size, FourByteOps, ThreeByteOps, TwoByteOps, ImmediateForms, BinaryOps, UnaryOps,
         JumpOps, RegisterForms, MemoryJumps, ADD, ADC, INC, SUB, SBC, DEC, CMP, AND, OR,
         XOR, TST, NOT, SHL, SHR, ROL, ROR, JMP, JZ, JNZ, JC, JNC, JN, JNN, JV, JNV

\* An operation of the buffer is that of the instruction seen, when the
\* bytes within its size agree.
LEMMA SameEffects ==
  ASSUME NEW op, NEW buf, NEW code, NEW regs,
         Size(op) >= 2 => buf[1] = code[1],
         Size(op) >= 3 => buf[2] = code[2]
  PROVE  /\ op \in BinaryOps =>
              Architecture!AfterBinary(op, code, regs) = AfterBinary(op, buf, regs)
         /\ op \in UnaryOps =>
              Architecture!AfterUnary(op, code, regs) = AfterUnary(op, buf, regs)
         /\ op \in JumpOps =>
              /\ Architecture!AfterJump(op, code, regs) = AfterJump(op, buf, regs)
              /\ Architecture!ValidJump(op, code, regs) = ValidJump(op, buf, regs)
         /\ op \in JumpOps \cup {CAL_MEM, CAL_REG} =>
              Architecture!Target(op, code, regs) = Target(op, buf, regs)
<1>1. ASSUME op \in BinaryOps
      PROVE Architecture!AfterBinary(op, code, regs) = AfterBinary(op, buf, regs)
  <2>1. Architecture!SecondOperand(op, code, regs) = SecondOperand(op, buf, regs)
    BY <1>1, LongForms, SameOpcodes
       DEF SecondOperand, Architecture!SecondOperand, ImmediateForms
  <2>2. buf[1] = code[1]
    BY <1>1, LongForms
  <2> DEFINE cin == IF FlagSet(regs, FLAG_C) THEN 1 ELSE 0
             out == Binary(op, regs[buf[1]], SecondOperand(op, buf, regs), cin)
             flagged == SetFlags(regs, out.flags)
  <2>3. Architecture!FlagSet(regs, Architecture!FLAG_C) <=> FlagSet(regs, FLAG_C)
    BY DEF FlagSet, Architecture!FlagSet, HasBit, Architecture!HasBit, REG_FLAG,
           Architecture!REG_FLAG, FLAG_C, Architecture!FLAG_C
  <2>4. /\ \A r, f : Architecture!SetFlags(r, f) = SetFlags(r, f)
        /\ Architecture!CMP = CMP /\ Architecture!TST = TST
    BY DEF SetFlags, Architecture!SetFlags, REG_FLAG, Architecture!REG_FLAG, CMP, TST,
           Architecture!CMP, Architecture!TST
  <2>5. AfterBinary(op, buf, regs)
          = IF op \in CMP \cup TST THEN flagged ELSE [flagged EXCEPT ![buf[1]] = out.value]
    BY DEF AfterBinary
  <2>6. Architecture!Binary(op, regs[code[1]], Architecture!SecondOperand(op, code, regs),
                            IF Architecture!FlagSet(regs, Architecture!FLAG_C) THEN 1 ELSE 0)
          = out
    BY <2>1, <2>2, <2>3, SameOperations
  <2> HIDE DEF cin, out
  <2>7. Architecture!AfterBinary(op, code, regs)
          = IF op \in CMP \cup TST THEN flagged ELSE [flagged EXCEPT ![buf[1]] = out.value]
    BY <2>2, <2>4, <2>6 DEF Architecture!AfterBinary
  <2> QED BY <2>5, <2>7
<1>2. ASSUME op \in UnaryOps
      PROVE Architecture!AfterUnary(op, code, regs) = AfterUnary(op, buf, regs)
  <2>2. buf[1] = code[1]
    BY <1>2, LongForms
  <2> QED BY <2>2, SameOperations
     DEF AfterUnary, Architecture!AfterUnary, SetFlags, Architecture!SetFlags, REG_FLAG,
         Architecture!REG_FLAG
<1>3. ASSUME op \in JumpOps \cup {CAL_MEM, CAL_REG}
      PROVE Architecture!Target(op, code, regs) = Target(op, buf, regs)
  <2>2. buf[1] = code[1] /\ (op \in MemoryJumps \cup {CAL_MEM} => buf[2] = code[2])
    BY <1>3, LongForms
  <2> QED BY <2>2, SameOpcodes, SameWords
     DEF Target, Architecture!Target, Address, Architecture!Address, Pair,
         Architecture!Pair
<1>4. Architecture!Taken(op, regs) = Taken(op, regs)
  BY SameAlu DEF Taken, Architecture!Taken, FlagSet, Architecture!FlagSet, REG_FLAG,
                 Architecture!REG_FLAG, FLAG_C, Architecture!FLAG_C, FLAG_Z,
                 Architecture!FLAG_Z, FLAG_N, Architecture!FLAG_N, FLAG_V,
                 Architecture!FLAG_V, JMP, JZ, JNZ, JC, JNC, JN, JNN, JV, JNV,
                 Architecture!JMP, Architecture!JZ, Architecture!JNZ, Architecture!JC,
                 Architecture!JNC, Architecture!JN, Architecture!JNN, Architecture!JV,
                 Architecture!JNV
<1>5. ASSUME op \in JumpOps
      PROVE  /\ Architecture!AfterJump(op, code, regs) = AfterJump(op, buf, regs)
             /\ Architecture!ValidJump(op, code, regs) = ValidJump(op, buf, regs)
  <2>2. buf[1] = code[1]
    BY <1>5, LongForms
  <2>3. Architecture!AfterJump(op, code, regs) = AfterJump(op, buf, regs)
    BY <1>3, <1>4, <1>5, SameRegisters DEF AfterJump, Architecture!AfterJump
  <2>4. Architecture!ValidJump(op, code, regs) = ValidJump(op, buf, regs)
    BY <1>4, <2>2, SameRegisters, SameOpcodes DEF ValidJump, Architecture!ValidJump
  <2> QED BY <2>3, <2>4
<1> QED BY <1>1, <1>2, <1>3, <1>5

\* A read has one outcome: the loads outside an allocation, if there is RAM
\* at all, yield always the same byte.
SingleRead == (\E b : StrayBytes = {b}) \/ ram_bank_count = 0

\* It is then the one that the architecture reads.
LEMMA OneReading ==
  ASSUME SingleRead, wram = seen.wram, ram = seen.ram, NEW a
  PROVE  BusRead(a % 65536) = {Architecture!ByteAt(a)}
<1>1. \E v : BusRead(a % 65536) = {v}
  <2> DEFINE addr == a % 65536
  <2> HIDE DEF addr
  <2>1. \/ BusRead(addr) = {BiosByte(addr)} \/ BusRead(addr) = {Cell(rom, RomIndex(addr))}
        \/ BusRead(addr) = {Cell(wram, WramIndex(addr))} \/ BusRead(addr) = {0}
        \/ BusRead(addr) = {Cell(ram, EramIndex(addr))}
        \/ ram_bank_count # 0 /\ BusRead(addr) = StrayBytes
    BY DEF BusRead
  <2>2. \E v : BusRead(addr) = {v}
    BY <2>1 DEF SingleRead
  <2> QED BY <2>2 DEF addr
<1>2. PICK v : BusRead(a % 65536) = {v}
  BY <1>1
<1>3. Architecture!ByteAt(a) = CHOOSE byte \in {v} : TRUE
  BY <1>2, SameReadsThere DEF Architecture!ByteAt
<1>4. Architecture!ByteAt(a) = v
  BY <1>3
<1> QED BY <1>2, <1>4

-----------------------------------------------------------------------------
(***************************************************************************)
(* The invariant.  Time is kept by what is due: the clock as it will be    *)
(* when the delays incurred so far have been waited for.  It only moves in *)
(* cycles that do something, and then by what Isa charges for them.        *)
(***************************************************************************)
Due == (cycles + latency_cycles) % CounterMod
Paid(n) == Due = (seen.cycles + n) % CounterMod

\* The address operand of the instruction under way, the address behind it,
\* and the second cell of the stack that it pushes to.
Operand == Address(Architecture!Instruction, 2)
Back == Pair(Architecture!Fetched, REG_PC)
Below == (Architecture!SP - 1) % 65536

\* What the first n bytes of the instruction cost.
FetchedBytes(n) ==
  LET delay(i) == IF i < n THEN Architecture!Delay(Architecture!PC + i) ELSE 0
  IN  n + delay(0) + delay(1) + delay(2) + delay(3)

\* The instruction has begun: what has been fetched of it is what the
\* architecture sees at its PC.
InFlight ==
  /\ halt_code = "NONE" /\ seen.halt_code = "NONE"
  /\ instr_count = seen.instr_count
  /\ opcode_pc = Architecture!PC
  /\ \A i \in 0..3 : i < PcDelta => instr_buf[i] = Architecture!Instruction[i]

\* Nothing is done yet but to move PC over the bytes fetched.
Unwritten == wram = seen.wram /\ ram = seen.ram
Unexecuted ==
  /\ registers = SetPair(seen.registers, REG_PC, Architecture!PC + PcDelta)
  /\ Unwritten

\* The handlers of ops have been called k times.
At(ops, k) == state = "EXECUTE" /\ selected_opcode \in ops /\ instr_exec_cycle = k

\* Between the two cycles of LDR from memory: the byte is read.
LoadPending ==
  /\ Unexecuted
  /\ value_buf = Architecture!ByteAt(Operand)
  /\ Paid(Architecture!FetchCost + 1 + Architecture!Delay(Operand))

\* Between the two of RET: the low byte of the address is read.
ReturnHalfway ==
  /\ registers = SetPair(Architecture!Fetched, REG_SP, Architecture!SP + 1)
  /\ Unwritten
  /\ value_buf = Architecture!ByteAt(Architecture!SP + 1)
  /\ Paid(Architecture!FetchCost + 1 + Architecture!Delay(Architecture!SP + 1))

\* Between the first two of CAL: the high byte is pushed.
CallHalfway ==
  /\ registers = SetPair(Architecture!Fetched, REG_SP, Architecture!SP - 1)
  /\ wram = WramAfter(seen.wram, Architecture!SP, Hi(Back))
  /\ ram = RamAfter(seen.ram, Architecture!SP, Hi(Back))
  /\ value_buf = Lo(Back)
  /\ Paid(Architecture!FetchCost + 1 + Architecture!Delay(Architecture!SP))

\* Between the last two: both are.
CallPushed ==
  /\ registers = SetPair(Architecture!Fetched, REG_SP, Architecture!SP - 2)
  /\ wram = WramAfter(WramAfter(seen.wram, Architecture!SP, Hi(Back)), Below, Lo(Back))
  /\ ram = RamAfter(RamAfter(seen.ram, Architecture!SP, Hi(Back)), Below, Lo(Back))
  /\ Paid(Architecture!FetchCost + 2 + Architecture!Delay(Architecture!SP)
            + Architecture!Delay(Below))

(***************************************************************************)
(* STR, PSH, POP and RET make an access in their last cycle, so the machine*)
(* m they leave is the one of the instruction, executed, except that its   *)
(* delay is still waited for.                                              *)
(***************************************************************************)
Succeeded(m, after, delay) ==
  /\ m.cycles = (seen.cycles + Architecture!FetchCost + ExecCycles(Architecture!Op) + delay)
                  % CounterMod
  /\ m.halt_code = "NONE"
  /\ m.registers = after
  /\ m.instr_count = (seen.instr_count + 1) % CounterMod

StoredAt(m, addr, byte) ==
  /\ m.wram = WramAfter(seen.wram, addr, byte)
  /\ m.ram = RamAfter(seen.ram, addr, byte)

NothingStored(m) == m.wram = seen.wram /\ m.ram = seen.ram

StrSettled(m) ==
  /\ Architecture!Op = STR /\ ValidRegisters(STR, Architecture!Instruction)
  /\ Succeeded(m, Architecture!Fetched, Architecture!Delay(Operand))
  /\ StoredAt(m, Operand, Architecture!Fetched[Architecture!Instruction[1]])

PshSettled(m) ==
  /\ Architecture!Op = PSH /\ ValidRegisters(PSH, Architecture!Instruction)
  /\ Succeeded(m, SetPair(Architecture!Fetched, REG_SP, Architecture!SP - 1),
               Architecture!Delay(Architecture!SP))
  /\ StoredAt(m, Architecture!SP, Architecture!Fetched[Architecture!Instruction[1]])

PopSettled(m) ==
  /\ Architecture!Op = POP /\ ValidRegisters(POP, Architecture!Instruction)
  /\ Succeeded(m, [SetPair(Architecture!Fetched, REG_SP, Architecture!SP + 1)
                     EXCEPT ![Architecture!Instruction[1]] =
                       Architecture!ByteAt(Architecture!SP + 1)],
               Architecture!Delay(Architecture!SP + 1))
  /\ NothingStored(m)

RetSettled(m) ==
  /\ Architecture!Op = RET
  /\ Succeeded(m, SetPair(SetPair(Architecture!Fetched, REG_SP, Architecture!SP + 2), REG_PC,
                          MkWord(Architecture!ByteAt(Architecture!SP + 1),
                                 Architecture!ByteAt(Architecture!SP + 2))),
               Architecture!Delay(Architecture!SP + 1)
                 + Architecture!Delay(Architecture!SP + 2))
  /\ NothingStored(m)

Settled(m) ==
  /\ seen.halt_code = "NONE"
  /\ StrSettled(m) \/ PshSettled(m) \/ PopSettled(m) \/ RetSettled(m)

\* The machine, but for the delay.
SettledMachine == [Machine EXCEPT !.cycles = Due]
Settling == Settled(SettledMachine)

SeenTyped ==
  /\ seen.registers \in [Register -> Byte]
  /\ seen.cycles \in Nat /\ seen.cycles < CounterMod

(***************************************************************************)
(* ImplementsIsa is about two moments of the CPU; what lies between them   *)
(* is here.  A part is about one state of cpu.c, or one of the cycles of a *)
(* handler that is called again (opcodes.c: Pending).                      *)
(***************************************************************************)
SeenInv ==
  /\ SeenTyped
  /\ BetweenInstructions => seen = Machine
  /\ state = "FETCH_OPCODE" /\ latency_cycles # 0 => Settling
  /\ state \in {"DECODE", "FETCH_OPERANDS", "EXECUTE"} => InFlight
  /\ state = "DECODE" => Unexecuted /\ Paid(FetchedBytes(1))
  /\ state = "FETCH_OPERANDS" => Unexecuted /\ Paid(FetchedBytes(PcDelta) + 1)
  /\ At(Byte, 0) => Unexecuted /\ Paid(Architecture!FetchCost)
  /\ At({LDR_MEM}, 1) => LoadPending
  /\ At({RET}, 1) => ReturnHalfway
  /\ At({CAL_MEM, CAL_REG}, 1) => CallHalfway
  /\ At({CAL_MEM, CAL_REG}, 2) => CallPushed

\* What the architecture shows ahead of its step stays while seen does.
LEMMA Ahead ==
  ASSUME seen' = seen, UNCHANGED <<rom, ram_bank_count>>
  PROVE  /\ Architecture!PC' = Architecture!PC /\ Architecture!SP' = Architecture!SP
         /\ Architecture!Instruction' = Architecture!Instruction
         /\ Architecture!Op' = Architecture!Op
         /\ Architecture!Fetched' = Architecture!Fetched
         /\ Architecture!FetchCost' = Architecture!FetchCost
         /\ Operand' = Operand /\ Back' = Back /\ Below' = Below
<1>1. Architecture!PC' = Architecture!PC /\ Architecture!SP' = Architecture!SP
  BY DEF Architecture!PC, Architecture!SP
<1>2. \A a : Architecture!ByteAt(a)' = Architecture!ByteAt(a)
  <2> SUFFICES ASSUME NEW a PROVE Architecture!ByteAt(a)' = Architecture!ByteAt(a)
    OBVIOUS
  <2> QED
  BY DEF Architecture!ByteAt, Architecture!BusRead, Architecture!Cell,
         Architecture!EramInside, Architecture!EramIndex
<1>3. Architecture!Instruction' = Architecture!Instruction
  BY <1>1, <1>2 DEF Architecture!Instruction
<1>4. Architecture!Op' = Architecture!Op
  BY <1>3 DEF Architecture!Op
<1>5. Architecture!Fetched' = Architecture!Fetched
  BY <1>1, <1>4 DEF Architecture!Fetched
<1>6. Architecture!FetchCost' = Architecture!FetchCost
  BY <1>1, <1>4 DEF Architecture!FetchCost
<1> QED BY <1>1, <1>3, <1>4, <1>5, <1>6 DEF Operand, Back, Below

\* A cycle that is not a wait adds itself and the delays it incurs.
LEMMA TimePasses ==
  ASSUME Inv, Turn, latency_cycles = 0, SeenTyped,
         NEW n \in Int, Paid(n), latency_cycles' \in Int
  PROVE  Due' = (seen.cycles + (n + 1 + latency_cycles')) % CounterMod
<1>1. cycles \in Int /\ seen.cycles \in Int /\ CounterMod \in Nat \ {0}
  BY CpuAssumption DEF Inv, TypeOK, SeenTyped
<1> DEFINE k == 1 + latency_cycles'
<1>2. k \in Int /\ n \in Int
  OBVIOUS
<1>3. Due' = (cycles + k) % CounterMod
  <2>1. cycles' = (cycles + 1) % CounterMod
    BY DEF Turn
  <2>2. cycles + 1 \in Int
    BY <1>1
  <2>3. (((cycles + 1) % CounterMod) + latency_cycles') % CounterMod
          = ((cycles + 1) + latency_cycles') % CounterMod
    BY <1>1, <2>2, ModAdd
  <2>4. (cycles + 1) + latency_cycles' = cycles + k
    BY <1>1
  <2> QED BY <2>1, <2>3, <2>4 DEF Due
<1>4. (cycles + k) % CounterMod = ((cycles % CounterMod) + k) % CounterMod
  <2> HIDE DEF k
  <2> QED BY <1>1, <1>2, ModAdd
<1>5. cycles % CounterMod = (seen.cycles + n) % CounterMod
  <2>1. cycles + latency_cycles = cycles
    BY <1>1
  <2> QED BY <2>1 DEF Paid, Due
<1>6. (((seen.cycles + n) % CounterMod) + k) % CounterMod = ((seen.cycles + n) + k) % CounterMod
  <2> HIDE DEF k
  <2>1. seen.cycles + n \in Int
    BY <1>1
  <2> QED BY <1>1, <1>2, <2>1, ModAdd
<1>7. (seen.cycles + n) + k = seen.cycles + (n + 1 + latency_cycles')
  BY <1>1
<1> QED BY <1>3, <1>4, <1>5, <1>6, <1>7

\* The delay of an access is its device's.
LEMMA AccessDelay ==
  ASSUME latency_cycles = 0, NEW addr, Access(addr % 65536)
  PROVE  latency_cycles' = Architecture!Delay(addr) /\ latency_cycles' \in 0..8
<1>1. latency_cycles' = (latency_cycles + Latency(addr % 65536)) % 256
  BY DEF Access
<1>2. Latency(addr % 65536) \in 0..8
  BY LatencyType
<1>3. latency_cycles' = Latency(addr % 65536)
  BY <1>1, <1>2
<1> QED BY <1>2, <1>3, SameMemory DEF Architecture!Delay

-----------------------------------------------------------------------------
\* What a clock cycle shows, and the fetch of the opcode.

\* How a step moves seen.
Shown == seen' = IF BetweenInstructions' THEN Machine' ELSE seen

\* Inside an instruction it does not move.
LEMMA StillUnseen ==
  ASSUME Shown, state' \in {"DECODE", "FETCH_OPERANDS", "EXECUTE"}
  PROVE  seen' = seen
  BY DEF Shown, BetweenInstructions

\* n only counts modulo 2^16, and the last of two stores in a pair counts.
LEMMA PairAgain ==
  ASSUME NEW regs \in [Register -> Byte], NEW r \in 0..10, NEW n \in Int, NEW k \in Int
  PROVE  /\ SetPair(SetPair(regs, r, n), r, k) = SetPair(regs, r, k)
         /\ n % 65536 = k % 65536 => SetPair(regs, r, n) = SetPair(regs, r, k)
<1>1. r \in Register /\ r + 1 \in Register /\ r # r + 1
  BY DEF Register
<1> DEFINE a == n % 65536
           e == k % 65536
<1>2. /\ SetPair(regs, r, n) = [regs EXCEPT ![r] = Lo(a), ![r + 1] = Hi(a)]
      /\ SetPair(regs, r, k) = [regs EXCEPT ![r] = Lo(e), ![r + 1] = Hi(e)]
      /\ SetPair(SetPair(regs, r, n), r, k)
           = [[regs EXCEPT ![r] = Lo(a), ![r + 1] = Hi(a)]
                EXCEPT ![r] = Lo(e), ![r + 1] = Hi(e)]
  BY DEF SetPair
<1>3. n % 65536 = k % 65536 <=> a = e
  OBVIOUS
<1> HIDE DEF a, e
<1>4. SetPair(SetPair(regs, r, n), r, k) = SetPair(regs, r, k)
  BY <1>1, <1>2
<1>5. a = e => SetPair(regs, r, n) = SetPair(regs, r, k)
  BY <1>2
<1> QED BY <1>3, <1>4, <1>5

\* The cost of fetching one byte more.
LEMMA OneMoreByte ==
  ASSUME SeenTyped, NEW k \in 0..3
  PROVE  /\ FetchedBytes(k + 1) = FetchedBytes(k) + 1 + Architecture!Delay(Architecture!PC + k)
         /\ FetchedBytes(k) \in Int
         /\ FetchedBytes(0) = 0
<1> DEFINE d(i) == Architecture!Delay(Architecture!PC + i)
<1>1. \A i \in 0..3 : d(i) \in Int
  BY LatencyType, SameMemory DEF Architecture!Delay
<1>2. /\ FetchedBytes(0) = 0 + 0 + 0 + 0 + 0
      /\ FetchedBytes(1) = 1 + d(0) + 0 + 0 + 0
      /\ FetchedBytes(2) = 2 + d(0) + d(1) + 0 + 0
      /\ FetchedBytes(3) = 3 + d(0) + d(1) + d(2) + 0
      /\ FetchedBytes(4) = 4 + d(0) + d(1) + d(2) + d(3)
  BY DEF FetchedBytes
<1>3. d(0) \in Int /\ d(1) \in Int /\ d(2) \in Int /\ d(3) \in Int
  BY <1>1
<1> DEFINE d0 == d(0)
           d1 == d(1)
           d2 == d(2)
           d3 == d(3)
<1>4. /\ k = 0 => d(k) = d0
      /\ k = 1 => d(k) = d1
      /\ k = 2 => d(k) = d2
      /\ k = 3 => d(k) = d3
  OBVIOUS
<1>5. /\ FetchedBytes(0) = 0 + 0 + 0 + 0 + 0
      /\ FetchedBytes(1) = 1 + d0 + 0 + 0 + 0
      /\ FetchedBytes(2) = 2 + d0 + d1 + 0 + 0
      /\ FetchedBytes(3) = 3 + d0 + d1 + d2 + 0
      /\ FetchedBytes(4) = 4 + d0 + d1 + d2 + d3
  BY <1>2
<1>6. d0 \in Int /\ d1 \in Int /\ d2 \in Int /\ d3 \in Int
  BY <1>3
<1> DEFINE dk == d(k)
<1>7. /\ k = 0 => dk = d0
      /\ k = 1 => dk = d1
      /\ k = 2 => dk = d2
      /\ k = 3 => dk = d3
  BY <1>4
<1>8. /\ FetchedBytes(k + 1) = FetchedBytes(k) + 1 + dk
      /\ FetchedBytes(k) \in Int
  <2> HIDE DEF d, d0, d1, d2, d3, dk
  <2>1. CASE k = 0
    BY <1>5, <1>6, <1>7, <2>1
  <2>2. CASE k = 1
    BY <1>5, <1>6, <1>7, <2>2
  <2>3. CASE k = 2
    BY <1>5, <1>6, <1>7, <2>3
  <2>4. CASE k = 3
    BY <1>5, <1>6, <1>7, <2>4
  <2> QED BY <2>1, <2>2, <2>3, <2>4
<1>9. FetchedBytes(0) = 0
  BY <1>5
<1> QED BY <1>8, <1>9

\* The fetch of the opcode begins the instruction.
LEMMA FetchOpcodeSeen ==
  ASSUME SingleRead, Inv, SeenInv, FetchOpcode, Shown
  PROVE  SeenInv' /\ seen' = seen
<1>1. /\ Ready("FETCH_OPCODE") /\ Turn /\ latency_cycles = 0 /\ Access(PC) /\ NoWrite
      /\ registers' = SetPair(registers, REG_PC, PC + 1)
      /\ state = "FETCH_OPCODE" /\ state' = "DECODE" /\ opcode_pc' = PC
      /\ UNCHANGED <<halt_code, selected_opcode, instr_count, value_buf, instr_exec_cycle>>
  BY DEF FetchOpcode, Ready
<1>2. seen' = seen /\ seen = Machine
  BY <1>1, StillUnseen DEF SeenInv, BetweenInstructions
<1>3. UNCHANGED <<rom, ram_bank_count, wram, ram>>
  BY <1>1 DEF NoWrite, memoryVars
<1>4. /\ seen.registers = registers /\ seen.cycles = cycles /\ seen.halt_code = halt_code
      /\ seen.instr_count = instr_count /\ seen.wram = wram /\ seen.ram = ram
  BY <1>2 DEF Machine
<1>5. Architecture!PC = PC /\ PC \in Word /\ PC \in Int
  BY <1>4, SameRegisters, PcSpType, WordBounds DEF Architecture!PC, PC
<1>6. /\ Architecture!PC' = Architecture!PC
      /\ Architecture!Instruction' = Architecture!Instruction
  BY <1>2, <1>3, Ahead
<1>7. PcDelta' = 1
  <2>1. PC' = (PC + 1) % 65536
    BY <1>1, FetchStep
  <2>2. PcDelta' = (((PC + 1) % 65536) - PC) % 65536
    BY <1>1, <2>1 DEF PcDelta
  <2> QED BY <1>5, <2>2, WindowStarts
<1>8. (PC + 0) % 65536 = PC
  BY <1>5, WordAlone
<1>9. instr_buf'[0] = Architecture!Instruction[0]
  <2>1. PICK byte \in BusRead(PC) : instr_buf' = [instr_buf EXCEPT ![0] = byte]
    BY DEF FetchOpcode
  <2>2. BusRead((PC + 0) % 65536) = {Architecture!ByteAt(PC + 0)}
    BY <1>4, OneReading
  <2>3. Architecture!Instruction[0] = Architecture!ByteAt(PC + 0)
    BY <1>5 DEF Architecture!Instruction
  <2>4. instr_buf'[0] = byte
    BY <2>1 DEF Inv, TypeOK, INSTR_BUF_SIZE
  <2> QED BY <1>8, <2>2, <2>3, <2>4
<1>10. InFlight'
  <2>1. halt_code' = "NONE" /\ seen'.halt_code = "NONE"
    BY <1>1, <1>2, <1>4 DEF Inv, HaltReason
  <2>2. instr_count' = seen'.instr_count /\ opcode_pc' = Architecture!PC'
    BY <1>1, <1>2, <1>4, <1>5, <1>6
  <2>3. \A i \in 0..3 : i < PcDelta' => instr_buf'[i] = Architecture!Instruction'[i]
    BY <1>6, <1>7, <1>9
  <2> QED BY <2>1, <2>2, <2>3 DEF InFlight
<1>11. Unexecuted'
  BY <1>1, <1>2, <1>3, <1>4, <1>5, <1>6, <1>7 DEF Unexecuted, Unwritten
<1>12. Paid(FetchedBytes(1))'
  <2>1. SeenTyped /\ Paid(0)
    <3>1. cycles + latency_cycles = seen.cycles + 0
      BY <1>1, <1>4 DEF SeenInv, SeenTyped
    <3> QED BY <3>1 DEF SeenInv, Paid, Due
  <2>2. latency_cycles' = Architecture!Delay(Architecture!PC + 0) /\ latency_cycles' \in Int
    BY <1>1, <1>5, <1>8, AccessDelay
  <2>3. Due' = (seen.cycles + (0 + 1 + latency_cycles')) % CounterMod
    BY <1>1, <2>1, <2>2, TimePasses
  <2>4. FetchedBytes(1) = 0 + 1 + latency_cycles'
    BY <2>1, <2>2, OneMoreByte
  <2>5. FetchedBytes(1)' = FetchedBytes(1)
    BY <1>2, <1>6 DEF FetchedBytes, Architecture!Delay
  <2> QED BY <1>2, <2>3, <2>4, <2>5 DEF Paid
<1>13. SeenTyped'
  BY <1>2 DEF SeenInv, SeenTyped
<1> QED BY <1>1, <1>2, <1>10, <1>11, <1>12, <1>13
        DEF SeenInv, BetweenInstructions, At

-----------------------------------------------------------------------------
\* Decode and the fetch of the operands: the bytes in the buffer become,
\* one by one, those of the instruction that the architecture sees.

\* No access: the clock alone has moved.
LEMMA StillFlying ==
  ASSUME InFlight, seen' = seen, UNCHANGED <<rom, ram_bank_count>>,
         UNCHANGED <<halt_code, instr_count, opcode_pc, instr_buf>>, PcDelta' = PcDelta
  PROVE  InFlight'
<1>1. Architecture!PC' = Architecture!PC /\ Architecture!Instruction' = Architecture!Instruction
  BY Ahead
<1> QED BY <1>1 DEF InFlight

LEMMA StillUnexecuted ==
  ASSUME Unexecuted, seen' = seen, UNCHANGED <<rom, ram_bank_count, wram, ram, registers>>,
         PcDelta' = PcDelta
  PROVE  Unexecuted'
<1>1. Architecture!PC' = Architecture!PC
  BY Ahead
<1> QED BY <1>1 DEF Unexecuted, Unwritten

LEMMA SameFetchedBytes ==
  ASSUME seen' = seen, UNCHANGED <<rom, ram_bank_count>>, NEW n
  PROVE  FetchedBytes(n)' = FetchedBytes(n)
  BY Ahead DEF FetchedBytes, Architecture!Delay

\* Decoding takes one of the two cycles that are not for a byte.
LEMMA DecodeSeen ==
  ASSUME Inv, SeenInv, Decode, Shown
  PROVE  SeenInv' /\ seen' = seen
<1>1. /\ Turn /\ latency_cycles = 0 /\ latency_cycles' = 0
      /\ state = "DECODE" /\ state' = "FETCH_OPERANDS"
      /\ UNCHANGED <<halt_code, registers, opcode_pc, instr_count, instr_buf,
                      value_buf, instr_exec_cycle>>
      /\ UNCHANGED <<rom, ram_bank_count, wram, ram>>
  BY DEF Decode, Ready, NoAccess, NoWrite, memoryVars
<1>2. seen' = seen
  BY <1>1, StillUnseen
<1>3. PcDelta' = PcDelta /\ PcDelta = 1
  BY <1>1 DEF PcDelta, PC, Inv, FetchWindow
<1>4. InFlight' /\ Unexecuted'
  BY <1>1, <1>2, <1>3, StillFlying, StillUnexecuted DEF SeenInv
<1>5. Paid(FetchedBytes(PcDelta) + 1)'
  <2>1. SeenTyped /\ Paid(FetchedBytes(1))
    BY <1>1 DEF SeenInv
  <2>2. FetchedBytes(1) \in Int
    BY <2>1, OneMoreByte
  <2>3. Due' = (seen.cycles + (FetchedBytes(1) + 1 + latency_cycles')) % CounterMod
    BY <1>1, <2>1, <2>2, TimePasses
  <2>4. FetchedBytes(1) + 1 + latency_cycles' = FetchedBytes(1) + 1
    BY <1>1, <2>2
  <2>5. FetchedBytes(PcDelta)' = FetchedBytes(1)
    BY <1>1, <1>2, <1>3, SameFetchedBytes
  <2> QED BY <1>2, <2>3, <2>4, <2>5 DEF Paid
<1>6. SeenTyped'
  BY <1>2 DEF SeenInv, SeenTyped
<1> QED BY <1>1, <1>2, <1>4, <1>5, <1>6 DEF SeenInv, BetweenInstructions, At

\* The address of the next byte, as the architecture counts it.
LEMMA NextByte ==
  ASSUME SeenTyped, Unexecuted, NEW d \in 0..4, PcDelta = d
  PROVE  /\ PC = (Architecture!PC + d) % 65536
         /\ Architecture!PC \in Int
         /\ SetPair(registers, REG_PC, PC + 1)
              = SetPair(seen.registers, REG_PC, Architecture!PC + (d + 1))
<1> DEFINE start == Architecture!PC
<1>1. REG_PC \in 0..10
  BY DEF REG_PC
<1>2. start \in Int
  <2>1. start \in Word
    BY <1>1, PairType, SameRegisters DEF Architecture!PC, SeenTyped
  <2> QED BY <2>1, WordBounds
<1>3. registers = SetPair(seen.registers, REG_PC, start + d)
  BY DEF Unexecuted
<1> HIDE DEF start
<1>4. start + d \in Int /\ start + (d + 1) \in Int
  BY <1>2
<1>5. PC = (start + d) % 65536
  BY <1>1, <1>3, <1>4, SetPairType DEF PC, SeenTyped
<1>6. PC + 1 \in Int /\ (PC + 1) % 65536 = (start + (d + 1)) % 65536
  BY <1>2, <1>5
<1>7. SetPair(registers, REG_PC, PC + 1) = SetPair(seen.registers, REG_PC, PC + 1)
  BY <1>1, <1>3, <1>4, <1>6, PairAgain DEF SeenTyped
<1>8. SetPair(seen.registers, REG_PC, PC + 1) = SetPair(seen.registers, REG_PC, start + (d + 1))
  BY <1>1, <1>4, <1>6, PairAgain DEF SeenTyped
<1> QED BY <1>2, <1>5, <1>7, <1>8 DEF start

\* An operand byte more.
LEMMA FetchOperandSeen ==
  ASSUME SingleRead, Inv, SeenInv, FetchOperand, Shown
  PROVE  SeenInv' /\ seen' = seen
<1>1. /\ Ready("FETCH_OPERANDS") /\ Turn /\ latency_cycles = 0 /\ Access(PC) /\ NoWrite
      /\ registers' = SetPair(registers, REG_PC, PC + 1)
      /\ state = "FETCH_OPERANDS" /\ state' = "FETCH_OPERANDS"
      /\ PcDelta # Size(selected_opcode)
      /\ UNCHANGED <<halt_code, selected_opcode, opcode_pc, instr_count,
                      value_buf, instr_exec_cycle>>
      /\ UNCHANGED <<rom, ram_bank_count, wram, ram>>
  BY DEF FetchOperand, Ready, NoWrite, memoryVars
<1>2. seen' = seen
  BY <1>1, StillUnseen
<1>3. InFlight /\ Unexecuted /\ Paid(FetchedBytes(PcDelta) + 1) /\ SeenTyped
  BY <1>1 DEF SeenInv
<1> DEFINE d == PcDelta
<1>4. d \in 1..3
  BY <1>1, SizeType DEF Inv, FetchWindow
<1>5. PcDelta' = d + 1
  <2>1. PC' = (PC + 1) % 65536 /\ PC \in Word /\ opcode_pc \in Word
    BY <1>1, FetchStep, PcSpType DEF Inv, TypeOK
  <2>2. PcDelta' = (((PC + 1) % 65536) - opcode_pc) % 65536
    BY <1>1, <2>1 DEF PcDelta
  <2>3. d = (PC - opcode_pc) % 65536
    BY DEF PcDelta
  <2>4. (PC - opcode_pc) % 65536 < 65535
    <3>1. d < 65535
      BY <1>4
    <3> QED BY <2>3, <3>1
  <2> QED BY <2>1, <2>2, <2>3, <2>4, WindowGrows
<1> HIDE DEF d
<1>6. /\ PC = (Architecture!PC + d) % 65536
      /\ registers' = SetPair(seen.registers, REG_PC, Architecture!PC + (d + 1))
  BY <1>1, <1>3, <1>4, NextByte DEF d
<1>7. /\ Architecture!PC' = Architecture!PC
      /\ Architecture!Instruction' = Architecture!Instruction
  BY <1>1, <1>2, Ahead
<1>8. Unexecuted'
  BY <1>1, <1>2, <1>3, <1>5, <1>6, <1>7 DEF Unexecuted, Unwritten
<1>9. PICK byte \in BusRead(PC) : instr_buf' = [instr_buf EXCEPT ![d] = byte]
  BY DEF FetchOperand, d
<1>10. byte = Architecture!Instruction[d]
  <2>1. BusRead((Architecture!PC + d) % 65536) = {Architecture!ByteAt(Architecture!PC + d)}
    <3> DEFINE a == Architecture!PC + d
    <3>1. wram = seen.wram /\ ram = seen.ram
      BY <1>3 DEF Unexecuted, Unwritten
    <3> HIDE DEF a
    <3>3. BusRead(a % 65536) = {Architecture!ByteAt(a)}
      BY <3>1, OneReading
    <3> QED BY <3>3 DEF a
  <2>2. Architecture!Instruction[d] = Architecture!ByteAt(Architecture!PC + d)
    BY <1>4 DEF Architecture!Instruction
  <2> QED BY <1>6, <1>9, <2>1, <2>2
<1>11. InFlight'
  <2>1. \A i \in 0..3 : i < d + 1 => instr_buf'[i] = Architecture!Instruction[i]
    <3> SUFFICES ASSUME NEW i \in 0..3, i < d + 1
                 PROVE  instr_buf'[i] = Architecture!Instruction[i]
      OBVIOUS
    <3>1. i \in DOMAIN instr_buf
      BY DEF Inv, TypeOK, INSTR_BUF_SIZE
    <3>2. CASE i = d
      BY <1>9, <1>10, <3>1, <3>2
    <3>3. CASE i # d
      <4>1. i < d
        BY <1>4, <3>3
      <4>2. instr_buf[i] = Architecture!Instruction[i]
        BY <1>3, <4>1 DEF InFlight, d
      <4> QED BY <1>9, <3>1, <3>3, <4>2
    <3> QED BY <3>2, <3>3
  <2> QED BY <1>1, <1>2, <1>3, <1>5, <1>7, <2>1 DEF InFlight
<1>12. Paid(FetchedBytes(PcDelta) + 1)'
  <2>1. /\ FetchedBytes(d) \in Int
        /\ FetchedBytes(d + 1) = FetchedBytes(d) + 1 + Architecture!Delay(Architecture!PC + d)
    BY <1>3, <1>4, OneMoreByte
  <2>2. latency_cycles' = Architecture!Delay(Architecture!PC + d) /\ latency_cycles' \in Int
    BY <1>1, <1>6, AccessDelay
  <2>3. Paid(FetchedBytes(d) + 1) /\ FetchedBytes(d) + 1 \in Int
    BY <1>3, <2>1 DEF d
  <2>4. Due' = (seen.cycles + ((FetchedBytes(d) + 1) + 1 + latency_cycles')) % CounterMod
    BY <1>1, <1>3, <2>2, <2>3, TimePasses
  <2>5. FetchedBytes(d + 1) + 1 = (FetchedBytes(d) + 1) + 1 + latency_cycles'
    BY <2>1, <2>2
  <2>6. FetchedBytes(PcDelta)' = FetchedBytes(d + 1)
    BY <1>1, <1>2, <1>5, SameFetchedBytes
  <2> QED BY <1>2, <2>4, <2>5, <2>6 DEF Paid
<1>13. SeenTyped'
  BY <1>2, <1>3 DEF SeenTyped
<1> QED BY <1>1, <1>2, <1>8, <1>11, <1>12, <1>13 DEF SeenInv, BetweenInstructions, At

-----------------------------------------------------------------------------
\* The whole instruction is in the buffer: what a handler starts from.

\* When PC is past the instruction, its fetch is paid for but one cycle.
LEMMA WholeFetch ==
  Architecture!FetchCost = FetchedBytes(Size(Architecture!Op)) + 2
  BY SameSize DEF Architecture!FetchCost, FetchedBytes

\* The opcode selected is the one the architecture sees.
LEMMA OpcodeThere ==
  ASSUME Inv, InFlight, state \in {"FETCH_OPERANDS", "EXECUTE"}
  PROVE  /\ selected_opcode = Architecture!Op /\ selected_opcode \in Byte
         /\ PcDelta \in 1..4
         /\ state = "EXECUTE" => PcDelta = Size(Architecture!Op)
<1>1. selected_opcode = instr_buf[0] /\ instr_buf[0] \in Byte
  BY DEF Inv, FetchWindow, TypeOK, INSTR_BUF_SIZE
<1>2. PcDelta \in 1..4
  BY SizeType DEF Inv, FetchWindow
<1>3. instr_buf[0] = Architecture!Instruction[0]
  BY <1>2 DEF InFlight
<1> QED BY <1>1, <1>2, <1>3 DEF Architecture!Op, Inv, FetchWindow

\* The cycle that notices the last byte pays for the rest of the fetch, and
\* an instruction never outgrows the buffer.
LEMMA OperandsCompleteSeen ==
  ASSUME Inv, SeenInv, OperandsComplete, Shown
  PROVE  SeenInv' /\ seen' = seen
<1>1. /\ Turn /\ latency_cycles = 0 /\ latency_cycles' = 0
      /\ state = "FETCH_OPERANDS"
      /\ UNCHANGED <<registers, opcode_pc, instr_count, instr_buf, selected_opcode,
                      value_buf>>
      /\ UNCHANGED <<rom, ram_bank_count, wram, ram>>
  BY DEF OperandsComplete, Ready, NoAccess, NoWrite, memoryVars, fetchVars
<1>2. InFlight /\ Unexecuted /\ Paid(FetchedBytes(PcDelta) + 1) /\ SeenTyped
  BY <1>1 DEF SeenInv
<1>3. /\ selected_opcode = Architecture!Op
      /\ PcDelta \in 1..4
  BY <1>1, <1>2, OpcodeThere
<1>4. /\ state' = "EXECUTE" /\ instr_exec_cycle' = 0 /\ halt_code' = halt_code
      /\ PcDelta = Size(Architecture!Op)
  BY <1>3 DEF OperandsComplete, INSTR_BUF_SIZE
<1>5. seen' = seen
  BY <1>4, StillUnseen
<1>6. PcDelta' = PcDelta
  BY <1>1 DEF PcDelta, PC
<1>7. InFlight' /\ Unexecuted'
  BY <1>1, <1>2, <1>4, <1>5, <1>6, StillFlying, StillUnexecuted
<1>8. Paid(Architecture!FetchCost)'
  <2> DEFINE d == PcDelta
  <2>1. FetchedBytes(d) \in Int
    <3>1. d - 1 \in 0..3 /\ (d - 1) + 1 = d
      BY <1>3
    <3> HIDE DEF d
    <3>2. FetchedBytes((d - 1) + 1)
            = FetchedBytes(d - 1) + 1 + Architecture!Delay(Architecture!PC + (d - 1))
          /\ FetchedBytes(d - 1) \in Int
      BY <1>2, <3>1, OneMoreByte
    <3>3. Architecture!Delay(Architecture!PC + (d - 1)) \in Int
      BY LatencyType, SameMemory DEF Architecture!Delay
    <3> QED BY <3>1, <3>2, <3>3
  <2> HIDE DEF d
  <2>2. Paid(FetchedBytes(d) + 1) /\ FetchedBytes(d) + 1 \in Int
    BY <1>2, <2>1 DEF d
  <2>3. Due' = (seen.cycles + ((FetchedBytes(d) + 1) + 1 + latency_cycles')) % CounterMod
    BY <1>1, <1>2, <2>2, TimePasses
  <2>4. Architecture!FetchCost = (FetchedBytes(d) + 1) + 1 + latency_cycles'
    BY <1>1, <1>4, <2>1, WholeFetch DEF d
  <2>5. Architecture!FetchCost' = Architecture!FetchCost
    BY <1>1, <1>5, Ahead
  <2> QED BY <1>5, <2>3, <2>4, <2>5 DEF Paid
<1>9. SeenTyped'
  BY <1>2, <1>5 DEF SeenTyped
<1> QED BY <1>4, <1>5, <1>7, <1>8, <1>9 DEF SeenInv, BetweenInstructions, At

\* What a handler starts from.
LEMMA Executable ==
  ASSUME Inv, SeenInv, NEW ops, Executing(ops)
  PROVE /\ Turn /\ latency_cycles = 0 /\ state = "EXECUTE"
        /\ UNCHANGED <<opcode_pc, selected_opcode, instr_buf>>
        /\ InFlight /\ SeenTyped
        /\ selected_opcode = Architecture!Op
        /\ Architecture!Op \in ops /\ Architecture!Op \in Byte
        /\ seen.halt_code = "NONE" /\ halt_code = "NONE" /\ instr_count = seen.instr_count
        /\ PcDelta = Size(Architecture!Op)
        /\ \A i \in 0..3 : i < Size(Architecture!Op) =>
             instr_buf[i] = Architecture!Instruction[i]
        /\ instr_exec_cycle < ExecCycles(Architecture!Op) /\ instr_exec_cycle \in Nat
<1>1. /\ Turn /\ latency_cycles = 0 /\ state = "EXECUTE"
      /\ UNCHANGED <<opcode_pc, selected_opcode, instr_buf>> /\ selected_opcode \in ops
  BY DEF Executing, Ready, fetchVars
<1>2. InFlight /\ SeenTyped
  BY <1>1 DEF SeenInv
<1>3. selected_opcode = Architecture!Op /\ selected_opcode \in Byte
      /\ PcDelta = Size(Architecture!Op)
  BY <1>1, <1>2, OpcodeThere
<1>4. instr_exec_cycle < ExecCycles(Architecture!Op) /\ instr_exec_cycle \in Nat
  BY <1>1, <1>3 DEF Inv, ExecCycleBound, TypeOK, Byte
<1> QED BY <1>1, <1>2, <1>3, <1>4 DEF InFlight

\* What a fetch costs is a number.
LEMMA FetchCostType ==
  Architecture!FetchCost \in Int
<1> DEFINE d(i) == IF i < Architecture!Size(Architecture!Op)
                   THEN Architecture!Delay(Architecture!PC + i) ELSE 0
<1>1. \A i : d(i) \in Int
  BY LatencyType, SameMemory DEF Architecture!Delay
<1>2. Architecture!FetchCost
        = Architecture!Size(Architecture!Op) + d(0) + d(1) + d(2) + d(3) + 2
  BY DEF Architecture!FetchCost
<1>3. Architecture!Size(Architecture!Op) \in Int
  BY SizeType, SameSize
<1>4. d(0) \in Int /\ d(1) \in Int /\ d(2) \in Int /\ d(3) \in Int
  BY <1>1
<1> HIDE DEF d
<1> QED BY <1>2, <1>3, <1>4

\* In its first execute cycle.
LEMMA Fresh ==
  ASSUME Inv, SeenInv, NEW ops, Executing(ops), instr_exec_cycle = 0
  PROVE /\ registers = Architecture!Fetched /\ Unwritten
        /\ Paid(Architecture!FetchCost)
<1>1. /\ state = "EXECUTE" /\ selected_opcode \in Byte
      /\ PcDelta = Size(Architecture!Op)
  BY Executable
<1>2. Unexecuted /\ Paid(Architecture!FetchCost)
  BY <1>1 DEF SeenInv, At
<1>3. registers = Architecture!Fetched
  BY <1>1, <1>2, SameSize, SameRegisters DEF Unexecuted, Architecture!Fetched
<1> QED BY <1>2, <1>3 DEF Unexecuted

-----------------------------------------------------------------------------
\* Handlers of one cycle without an access: they end the instruction at
\* once, and that is a step of the architecture.

\* The end of an instruction without a delay.
Ended == state' \in {"FETCH_OPCODE", "HALT"} /\ latency_cycles' = 0

\* Where an instruction ends, seen is the machine, and nothing is pending.
LEMMA Completed ==
  ASSUME Inv, Inv', SeenInv, Shown, Ended, Turn, latency_cycles = 0,
         NEW n \in Int, Paid(n), NEW execs \in Int, NEW delay \in Int,
         n + 1 = Architecture!FetchCost + execs + delay
  PROVE  /\ SeenInv' /\ seen' = Machine'
         /\ Architecture!Charge(execs, delay)
<1>1. BetweenInstructions' /\ seen' = Machine'
  BY DEF Ended, Shown, BetweenInstructions
<1>2. SeenTyped /\ latency_cycles' = 0 /\ latency_cycles' \in Int
  BY DEF SeenInv, Ended
<1>3. Due' = (seen.cycles + (n + 1 + latency_cycles')) % CounterMod
  BY <1>2, TimePasses
<1>4. Due' = cycles'
  <2>1. cycles' \in Nat /\ cycles' < CounterMod /\ CounterMod \in Nat \ {0}
    BY CpuAssumption DEF Inv, TypeOK
  <2>2. (cycles' + latency_cycles') % CounterMod = cycles'
    BY <1>2, <2>1, Unwrapped
  <2> QED BY <2>2 DEF Due
<1>5. seen.cycles + (n + 1 + latency_cycles')
        = seen.cycles + Architecture!FetchCost + execs + delay
  BY <1>2, FetchCostType DEF SeenTyped
<1>6. seen'.cycles = (seen.cycles + Architecture!FetchCost + execs + delay) % CounterMod
  BY <1>1, <1>3, <1>4, <1>5 DEF Machine
<1>7. SeenInv'
  <2>1. SeenTyped'
    BY <1>1 DEF SeenTyped, Machine, Inv, TypeOK
  <2> QED BY <1>1, <2>1 DEF SeenInv, Ended, At
<1> QED BY <1>1, <1>6, <1>7 DEF Architecture!Charge

\* The cycles an instruction is charged are those the clock has counted.
LEMMA StepCharged ==
  ASSUME Inv, Inv', SeenInv, Shown, NEW ops, Executing(ops), Ended,
         NEW n \in Int, Paid(n), NEW execs \in Int, NEW delay \in Int,
         n + 1 = Architecture!FetchCost + execs + delay
  PROVE  /\ SeenInv'
         /\ Architecture!Running(ops)
         /\ Succeed /\ execs = ExecCycles(Architecture!Op) =>
              Architecture!Succeed(registers', delay)
         /\ \A code : FailWith(code) => Architecture!Stop(code, registers', execs, delay)
         /\ seen'.wram = wram' /\ seen'.ram = ram'
<1>1. /\ Turn /\ latency_cycles = 0
      /\ Architecture!Op \in ops /\ seen.halt_code = "NONE" /\ halt_code = "NONE"
      /\ instr_count = seen.instr_count
  BY Executable
<1>2. SeenInv' /\ seen' = Machine' /\ Architecture!Charge(execs, delay)
  BY <1>1, Completed
<1>3. /\ seen'.registers = registers' /\ seen'.instr_count = instr_count'
      /\ seen'.halt_code = halt_code' /\ seen'.wram = wram' /\ seen'.ram = ram'
  BY <1>2 DEF Machine
<1>4. ASSUME Succeed, execs = ExecCycles(Architecture!Op)
      PROVE  Architecture!Succeed(registers', delay)
  <2>1. Architecture!ExecCycles(Architecture!Op) = execs
    BY <1>4, SameSize
  <2> QED BY <1>1, <1>2, <1>3, <1>4, <2>1 DEF Succeed, Architecture!Succeed
<1>5. ASSUME NEW code, FailWith(code)
      PROVE  Architecture!Stop(code, registers', execs, delay)
  BY <1>1, <1>2, <1>3, <1>5 DEF FailWith, Architecture!Stop
<1> QED BY <1>1, <1>2, <1>3, <1>4, <1>5 DEF Architecture!Running

\* The same for the first and only cycle of a handler.
LEMMA OneCycle ==
  ASSUME NEW op \in {NOP, MOV, SWP, CLR, LDR_IMM, STR, PSH, POP, HLT}
              \cup BinaryOps \cup UnaryOps \cup JumpOps \cup (Byte \ Assigned)
  PROVE  ExecCycles(op) = 1
  BY DEF ExecCycles, Byte, Assigned, BinaryOps, UnaryOps, JumpOps, ADD, ADC, INC, SUB,
         SBC, DEC, CMP, AND, OR, XOR, TST, NOT, SHL, SHR, ROL, ROR, JMP, JZ, JNZ, JC, JNC,
         JN, JNN, JV, JNV

\* A handler of one cycle without an access.
LEMMA QuietSeen ==
  ASSUME Inv, Inv', SeenInv, Shown, NEW ops, Executing(ops), ExecCycles(Architecture!Op) = 1,
         state' \in {"FETCH_OPCODE", "HALT"}, NoAccess, NoWrite
  PROVE  /\ SeenInv'
         /\ Architecture!Running(ops)
         /\ Succeed => Architecture!Succeed(registers', 0)
         /\ \A code : FailWith(code) => Architecture!Stop(code, registers', 1, 0)
         /\ UNCHANGED Architecture!memoryVars
<1>1. instr_exec_cycle = 0 /\ latency_cycles = 0
  BY Executable
<1>2. Unwritten /\ Paid(Architecture!FetchCost) /\ Architecture!FetchCost \in Int
  BY <1>1, Fresh, FetchCostType
<1>3. Ended
  BY <1>1 DEF Ended, NoAccess
<1>4. Architecture!FetchCost + 1 = Architecture!FetchCost + 1 + 0
  BY <1>2
<1>5. /\ SeenInv'
      /\ Architecture!Running(ops)
      /\ Succeed => Architecture!Succeed(registers', 0)
      /\ \A code : FailWith(code) => Architecture!Stop(code, registers', 1, 0)
      /\ seen'.wram = wram' /\ seen'.ram = ram'
  BY <1>2, <1>3, <1>4, StepCharged
<1>6. UNCHANGED Architecture!memoryVars
  BY <1>2, <1>5 DEF NoWrite, memoryVars, Architecture!memoryVars, Unwritten
<1> QED BY <1>5, <1>6

\* A handler that changes registers only, or refuses its operands.
LEMMA RegistersSeen ==
  ASSUME Inv, Inv', SeenInv, Shown, NEW ops, NEW valid \in BOOLEAN, NEW after,
         ExecRegisters(ops, valid, after), ExecCycles(Architecture!Op) = 1
  PROVE  SeenInv' /\ Architecture!RegisterStep(ops, valid, after)
<1>1. Executing(ops)
  BY DEF ExecRegisters
<1>2. NoAccess /\ NoWrite /\ state' \in {"FETCH_OPCODE", "HALT"}
  BY DEF ExecRegisters, Fail, FailWith, Succeed
<1>3. /\ SeenInv' /\ Architecture!Running(ops)
      /\ Succeed => Architecture!Succeed(registers', 0)
      /\ \A code : FailWith(code) => Architecture!Stop(code, registers', 1, 0)
      /\ UNCHANGED Architecture!memoryVars
  BY <1>1, <1>2, QuietSeen
<1>4. CASE valid
  BY <1>3, <1>4 DEF ExecRegisters, Architecture!RegisterStep
<1>5. CASE ~valid
  <2>1. registers = Architecture!Fetched /\ halt_code = "NONE"
    BY <1>1, Executable, Fresh
  <2>2. FailWith("EXEC_FAILED") /\ registers' = Architecture!Fetched
    BY <1>5, <2>1 DEF ExecRegisters, Fail
  <2>3. Architecture!Stop("EXEC_FAILED", Architecture!Fetched, 1, 0)
    BY <1>3, <2>2
  <2> QED BY <1>3, <1>5, <2>3 DEF Architecture!RegisterStep
<1> QED BY <1>4, <1>5

-----------------------------------------------------------------------------
\* The handlers of one cycle, by group.

LEMMA SameValid ==
  ASSUME NEW op, NEW buf, NEW code,
         Size(op) >= 2 => buf[1] = code[1],
         Size(op) >= 3 => buf[2] = code[2],
         op \in BinaryOps \cup UnaryOps
                  \cup {LDR_MEM, LDR_IMM, STR, MOV, SWP, PSH, POP, CLR}
  PROVE  /\ Architecture!ValidRegisters(op, code) = ValidRegisters(op, buf)
         /\ ValidRegisters(op, buf) \in BOOLEAN
<1>1. buf[1] = code[1]
  BY LongForms
<1>2. op \in TwoRegisterOps => buf[2] = code[2]
  BY LongForms DEF TwoRegisterOps
<1>3. Architecture!ValidRegisters(op, code) = ValidRegisters(op, code)
  BY SameValidity
<1>4. ValidRegisters(op, code) = ValidRegisters(op, buf)
  BY <1>1, <1>2 DEF ValidRegisters
<1> QED BY <1>3, <1>4 DEF ValidRegisters

\* So do the register transfers.
LEMMA SameTransfers ==
  ASSUME NEW regs, NEW buf, NEW code, buf[1] = code[1]
  PROVE  /\ Architecture!AfterClr(code, regs) = AfterClr(buf, regs)
         /\ buf[2] = code[2] =>
              /\ Architecture!AfterMov(code, regs) = AfterMov(buf, regs)
              /\ Architecture!AfterSwp(code, regs) = AfterSwp(buf, regs)
  BY DEF AfterMov, AfterSwp, AfterClr, SetFlags, REG_FLAG, FLAG_Z, Architecture!AfterMov,
         Architecture!AfterSwp, Architecture!AfterClr, Architecture!SetFlags,
         Architecture!REG_FLAG, Architecture!FLAG_Z

\* The buffer has the operands of the instruction seen.
LEMMA SameOperands ==
  ASSUME Inv, SeenInv, NEW ops, Executing(ops)
  PROVE  /\ Size(Architecture!Op) >= 2 => instr_buf[1] = Architecture!Instruction[1]
         /\ Size(Architecture!Op) >= 3 => instr_buf[2] = Architecture!Instruction[2]
         /\ Size(Architecture!Op) = 4 => instr_buf[3] = Architecture!Instruction[3]
<1>1. \A i \in 0..3 : i < Size(Architecture!Op) => instr_buf[i] = Architecture!Instruction[i]
  BY Executable
<1>2. Size(Architecture!Op) \in 1..4
  BY SizeType
<1> QED BY <1>1, <1>2

\* The opcodes whose handler is done in a cycle and makes no access.
OneCycleOps ==
  {NOP, MOV, SWP, CLR, LDR_IMM, STR, PSH, POP, HLT}
    \cup BinaryOps \cup UnaryOps \cup JumpOps \cup (Byte \ Assigned)

LEMMA FirstAndOnly ==
  ASSUME Inv, SeenInv, NEW ops, Executing(ops), ops \subseteq OneCycleOps
  PROVE  /\ Architecture!Op \in ops /\ selected_opcode = Architecture!Op
         /\ ExecCycles(Architecture!Op) = 1 /\ instr_exec_cycle = 0
         /\ registers = Architecture!Fetched /\ Unwritten /\ Paid(Architecture!FetchCost)
<1>1. Architecture!Op \in ops /\ selected_opcode = Architecture!Op
  BY Executable
<1>2. ExecCycles(Architecture!Op) = 1
  BY <1>1, OneCycle DEF OneCycleOps
<1>3. instr_exec_cycle = 0
  BY <1>2, Executable
<1> QED BY <1>1, <1>2, <1>3, Fresh

\* NOP, MOV, SWP and CLR.
LEMMA TransfersSeen ==
  ASSUME Inv, Inv', SeenInv, Shown, ExecNop \/ ExecMov \/ ExecSwp \/ ExecClr
  PROVE  SeenInv' /\ Architecture!Next
<1> DEFINE code == Architecture!Instruction
           ready == Architecture!Fetched
<1>1. CASE ExecNop
  <2>1. Executing({NOP})
    BY <1>1 DEF ExecNop, ExecRegisters
  <2>2. Architecture!Op = NOP /\ ExecCycles(Architecture!Op) = 1 /\ registers = ready
    BY <2>1, Executable, Fresh, OneCycle
  <2>3. ExecRegisters({NOP}, TRUE, ready)
    BY <1>1, <2>2 DEF ExecNop
  <2> HIDE DEF ready
  <2>4. SeenInv' /\ Architecture!RegisterStep({NOP}, TRUE, ready)
    BY <2>2, <2>3, RegistersSeen
  <2> QED BY <2>4 DEF Architecture!Nop, Architecture!Next, ready
<1>2. CASE ExecMov
  <2>1. Executing({MOV})
    BY <1>2 DEF ExecMov, ExecRegisters
  <2>2. Architecture!Op = MOV /\ ExecCycles(Architecture!Op) = 1 /\ registers = ready
    BY <2>1, Executable, Fresh, OneCycle
  <2>3. instr_buf[1] = code[1] /\ instr_buf[2] = code[2]
    BY <2>1, <2>2, SameOperands, LongForms
  <2> DEFINE valid == Architecture!ValidRegisters(MOV, code)
             after == Architecture!AfterMov(code, ready)
  <2>4. valid = ValidRegisters(MOV, instr_buf) /\ valid \in BOOLEAN
    BY <2>3, SameValid
  <2>5. after = AfterMov(instr_buf, registers)
    BY <2>2, <2>3, SameTransfers
  <2>6. ExecRegisters({MOV}, valid, after)
    BY <1>2, <2>4, <2>5 DEF ExecMov
  <2> HIDE DEF valid, after
  <2>7. SeenInv' /\ Architecture!RegisterStep({MOV}, valid, after)
    BY <2>2, <2>4, <2>6, RegistersSeen
  <2> QED BY <2>7 DEF Architecture!Mov, Architecture!Next, valid, after
<1>3. CASE ExecSwp
  <2>1. Executing({SWP})
    BY <1>3 DEF ExecSwp, ExecRegisters
  <2>2. Architecture!Op = SWP /\ ExecCycles(Architecture!Op) = 1 /\ registers = ready
    BY <2>1, Executable, Fresh, OneCycle
  <2>3. instr_buf[1] = code[1] /\ instr_buf[2] = code[2]
    BY <2>1, <2>2, SameOperands, LongForms
  <2> DEFINE valid == Architecture!ValidRegisters(SWP, code)
             after == Architecture!AfterSwp(code, ready)
  <2>4. valid = ValidRegisters(SWP, instr_buf) /\ valid \in BOOLEAN
    BY <2>3, SameValid
  <2>5. after = AfterSwp(instr_buf, registers)
    BY <2>2, <2>3, SameTransfers
  <2>6. ExecRegisters({SWP}, valid, after)
    BY <1>3, <2>4, <2>5 DEF ExecSwp
  <2> HIDE DEF valid, after
  <2>7. SeenInv' /\ Architecture!RegisterStep({SWP}, valid, after)
    BY <2>2, <2>4, <2>6, RegistersSeen
  <2> QED BY <2>7 DEF Architecture!Swp, Architecture!Next, valid, after
<1>4. CASE ExecClr
  <2>1. Executing({CLR})
    BY <1>4 DEF ExecClr, ExecRegisters
  <2>2. Architecture!Op = CLR /\ ExecCycles(Architecture!Op) = 1 /\ registers = ready
    BY <2>1, Executable, Fresh, OneCycle
  <2>3. instr_buf[1] = code[1]
    BY <2>1, <2>2, SameOperands, LongForms
  <2> DEFINE valid == Architecture!ValidRegisters(CLR, code)
             after == Architecture!AfterClr(code, ready)
  <2>4. valid = ValidRegisters(CLR, instr_buf) /\ valid \in BOOLEAN
    <3>1. Size(CLR) >= 3 => instr_buf[2] = code[2]
      BY <2>1, <2>2, SameOperands
    <3> QED BY <2>3, <3>1, SameValid
  <2>5. after = AfterClr(instr_buf, registers)
    BY <2>2, <2>3, SameTransfers
  <2>6. ExecRegisters({CLR}, valid, after)
    BY <1>4, <2>4, <2>5 DEF ExecClr
  <2> HIDE DEF valid, after
  <2>7. SeenInv' /\ Architecture!RegisterStep({CLR}, valid, after)
    BY <2>2, <2>4, <2>6, RegistersSeen
  <2> QED BY <2>7 DEF Architecture!Clr, Architecture!Next, valid, after
<1> QED BY <1>1, <1>2, <1>3, <1>4

\* The ALU operations and the jumps.
LEMMA ComputesSeen ==
  ASSUME Inv, Inv', SeenInv, Shown, ExecBinary \/ ExecUnary \/ ExecJump
  PROVE  SeenInv' /\ Architecture!Next
<1> DEFINE op == Architecture!Op
           code == Architecture!Instruction
           ready == Architecture!Fetched
<1>1. CASE ExecBinary
  <2>1. Executing(BinaryOps)
    BY <1>1 DEF ExecBinary, ExecRegisters
  <2>2. op \in BinaryOps /\ selected_opcode = op /\ ExecCycles(op) = 1 /\ registers = ready
    BY <2>1, FirstAndOnly DEF OneCycleOps
  <2>3. /\ Size(op) >= 2 => instr_buf[1] = code[1]
        /\ Size(op) >= 3 => instr_buf[2] = code[2]
    BY <2>1, SameOperands
  <2> DEFINE valid == Architecture!ValidRegisters(op, code)
             after == Architecture!AfterBinary(op, code, ready)
  <2>4. valid = ValidRegisters(selected_opcode, instr_buf) /\ valid \in BOOLEAN
    BY <2>2, <2>3, SameValid
  <2>5. after = AfterBinary(selected_opcode, instr_buf, registers)
    BY <2>2, <2>3, SameEffects
  <2>6. ExecRegisters(BinaryOps, valid, after)
    BY <1>1, <2>4, <2>5 DEF ExecBinary
  <2> HIDE DEF valid, after
  <2>7. SeenInv' /\ Architecture!RegisterStep(BinaryOps, valid, after)
    BY <2>2, <2>4, <2>6, RegistersSeen
  <2> QED BY <2>7, SameOpcodes DEF Architecture!BinaryStep, Architecture!Next, valid, after
<1>2. CASE ExecUnary
  <2>1. Executing(UnaryOps)
    BY <1>2 DEF ExecUnary, ExecRegisters
  <2>2. op \in UnaryOps /\ selected_opcode = op /\ ExecCycles(op) = 1 /\ registers = ready
    BY <2>1, FirstAndOnly DEF OneCycleOps
  <2>3. /\ Size(op) >= 2 => instr_buf[1] = code[1]
        /\ Size(op) >= 3 => instr_buf[2] = code[2]
    BY <2>1, SameOperands
  <2> DEFINE valid == Architecture!ValidRegisters(op, code)
             after == Architecture!AfterUnary(op, code, ready)
  <2>4. valid = ValidRegisters(selected_opcode, instr_buf) /\ valid \in BOOLEAN
    BY <2>2, <2>3, SameValid
  <2>5. after = AfterUnary(selected_opcode, instr_buf, registers)
    BY <2>2, <2>3, SameEffects
  <2>6. ExecRegisters(UnaryOps, valid, after)
    BY <1>2, <2>4, <2>5 DEF ExecUnary
  <2> HIDE DEF valid, after
  <2>7. SeenInv' /\ Architecture!RegisterStep(UnaryOps, valid, after)
    BY <2>2, <2>4, <2>6, RegistersSeen
  <2> QED BY <2>7, SameOpcodes DEF Architecture!UnaryStep, Architecture!Next, valid, after
<1>3. CASE ExecJump
  <2>1. Executing(JumpOps)
    BY <1>3 DEF ExecJump, ExecRegisters
  <2>2. op \in JumpOps /\ selected_opcode = op /\ ExecCycles(op) = 1 /\ registers = ready
    BY <2>1, FirstAndOnly DEF OneCycleOps
  <2>3. /\ Size(op) >= 2 => instr_buf[1] = code[1]
        /\ Size(op) >= 3 => instr_buf[2] = code[2]
    BY <2>1, SameOperands
  <2> DEFINE valid == Architecture!ValidJump(op, code, ready)
             after == Architecture!AfterJump(op, code, ready)
  <2>4. valid = ValidJump(selected_opcode, instr_buf, registers)
    BY <2>2, <2>3, SameEffects
  <2>5. after = AfterJump(selected_opcode, instr_buf, registers)
    BY <2>2, <2>3, SameEffects
  <2>6. valid \in BOOLEAN
    BY DEF Architecture!ValidJump
  <2>7. ExecRegisters(JumpOps, valid, after)
    BY <1>3, <2>4, <2>5 DEF ExecJump
  <2> HIDE DEF valid, after
  <2>8. SeenInv' /\ Architecture!RegisterStep(JumpOps, valid, after)
    BY <2>2, <2>6, <2>7, RegistersSeen
  <2> QED BY <2>8, SameOpcodes DEF Architecture!Jump, Architecture!Next, valid, after
<1> QED BY <1>1, <1>2, <1>3

\* HLT, and the opcodes that have no instruction.
LEMMA HaltsSeen ==
  ASSUME Inv, Inv', SeenInv, Shown, ExecHlt \/ ExecInvalid
  PROVE  SeenInv' /\ Architecture!Next
<1> DEFINE code == IF Architecture!Op = HLT THEN "MANUAL" ELSE "INVALID_OPCODE"
           ops == {HLT} \cup (Byte \ Assigned)
<1>1. Executing(ops)
  BY DEF ExecHlt, ExecInvalid, Executing
<1>2. selected_opcode = Architecture!Op /\ ExecCycles(Architecture!Op) = 1
  <2>1. selected_opcode = Architecture!Op /\ Architecture!Op \in ops
    <3> HIDE DEF ops
    <3> QED BY <1>1, Executable
  <2>2. ASSUME NEW op \in ops PROVE ExecCycles(op) = 1
    BY OneCycle
  <2> QED BY <2>1, <2>2
<1>3. /\ FailWith(code) /\ NoAccess /\ NoWrite /\ registers' = registers
      /\ state' = "HALT"
  <2>1. HLT \in Assigned
    BY DEF Assigned
  <2> QED BY <1>2, <2>1 DEF ExecHlt, ExecInvalid, Executing, FailWith
<1> HIDE DEF code, ops
<1>4. /\ SeenInv' /\ Architecture!Running(ops)
      /\ Architecture!Stop(code, registers', 1, 0)
      /\ UNCHANGED Architecture!memoryVars
  BY <1>1, <1>2, <1>3, QuietSeen
<1>5. registers' = Architecture!Fetched
  <2>1. instr_exec_cycle = 0
    BY <1>1, <1>2, Executable
  <2> QED BY <1>1, <1>3, <2>1, Fresh
<1> QED BY <1>4, <1>5, SameOpcodes, SameWords
   DEF Architecture!Halt, Architecture!Next, code, ops

-----------------------------------------------------------------------------
\* An instruction whose last cycle made an access ends only when the delay
\* of the access has been waited for.

\* Once the delay is over, a settled instruction is the architecture's step.
LEMMA SettledStep ==
  ASSUME Settled(seen'), UNCHANGED <<rom, ram_bank_count>>
  PROVE  Architecture!Next
<1> DEFINE ready == Architecture!Fetched
           code == Architecture!Instruction
<1>1. ASSUME NEW after, NEW delay, Succeeded(seen', after, delay), seen.halt_code = "NONE"
      PROVE  Architecture!Succeed(after, delay)
  BY <1>1, SameSize DEF Succeeded, Architecture!Succeed, Architecture!Charge
<1>2. ASSUME NEW addr, NEW byte, StoredAt(seen', addr, byte)
      PROVE  Architecture!BusWrite(addr, byte)
  BY <1>2, SameMemory DEF StoredAt, Architecture!BusWrite
<1>3. NothingStored(seen') => UNCHANGED Architecture!memoryVars
  BY DEF NothingStored, Architecture!memoryVars
<1>4. seen.halt_code = "NONE"
  BY DEF Settled
<1>5. /\ Architecture!ValidRegisters(STR, code) = ValidRegisters(STR, code)
      /\ Architecture!ValidRegisters(PSH, code) = ValidRegisters(PSH, code)
      /\ Architecture!ValidRegisters(POP, code) = ValidRegisters(POP, code)
  BY SameValidity
<1>6. CASE StrSettled(seen')
  <2>1. /\ Architecture!Succeed(ready, Architecture!Delay(Operand))
        /\ Architecture!BusWrite(Operand, ready[code[1]])
    BY <1>1, <1>2, <1>4, <1>6 DEF StrSettled
  <2>2. Operand = Architecture!Address(code, 2)
    BY SameRegisters DEF Operand
  <2> HIDE DEF ready, code
  <2>3. Architecture!Str
    BY <1>4, <1>5, <1>6, <2>1, <2>2
       DEF Architecture!Str, Architecture!Running, StrSettled, ready, code
  <2> QED BY <2>3 DEF Architecture!Next
<1>7. CASE PshSettled(seen')
  <2>1. /\ Architecture!Succeed(SetPair(ready, REG_SP, Architecture!SP - 1),
                                Architecture!Delay(Architecture!SP))
        /\ Architecture!BusWrite(Architecture!SP, ready[code[1]])
    BY <1>1, <1>2, <1>4, <1>7 DEF PshSettled
  <2>2. Architecture!SetPair(ready, Architecture!REG_SP, Architecture!SP - 1)
          = SetPair(ready, REG_SP, Architecture!SP - 1)
    BY SameRegisters
  <2> HIDE DEF ready, code
  <2>3. Architecture!Psh
    BY <1>4, <1>5, <1>7, <2>1, <2>2
       DEF Architecture!Psh, Architecture!Running, PshSettled, ready, code
  <2> QED BY <2>3 DEF Architecture!Next
<1>8. CASE PopSettled(seen')
  <2> DEFINE popped == SetPair(ready, REG_SP, Architecture!SP + 1)
  <2>1. /\ Architecture!Succeed([popped EXCEPT ![code[1]] =
                                   Architecture!ByteAt(Architecture!SP + 1)],
                                Architecture!Delay(Architecture!SP + 1))
        /\ UNCHANGED Architecture!memoryVars
    BY <1>1, <1>3, <1>4, <1>8 DEF PopSettled
  <2>2. Architecture!SetPair(ready, Architecture!REG_SP, Architecture!SP + 1) = popped
    BY SameRegisters
  <2> HIDE DEF ready, code, popped
  <2>3. Architecture!Pop
    BY <1>4, <1>5, <1>8, <2>1, <2>2
       DEF Architecture!Pop, Architecture!Running, PopSettled, ready, code
  <2> QED BY <2>3 DEF Architecture!Next
<1>9. CASE RetSettled(seen')
  <2> DEFINE back == MkWord(Architecture!ByteAt(Architecture!SP + 1),
                            Architecture!ByteAt(Architecture!SP + 2))
             popped == SetPair(ready, REG_SP, Architecture!SP + 2)
             delay == Architecture!Delay(Architecture!SP + 1)
                        + Architecture!Delay(Architecture!SP + 2)
  <2>1. /\ Architecture!Succeed(SetPair(popped, REG_PC, back), delay)
        /\ UNCHANGED Architecture!memoryVars
    BY <1>1, <1>3, <1>4, <1>9 DEF RetSettled
  <2>2. Architecture!SetPair(ready, Architecture!REG_SP, Architecture!SP + 2) = popped
    BY SameRegisters
  <2>3. back = Architecture!MkWord(Architecture!ByteAt(Architecture!SP + 1),
                                   Architecture!ByteAt(Architecture!SP + 2))
    BY SameWords
  <2>4. Architecture!SetPair(popped, Architecture!REG_PC, back) = SetPair(popped, REG_PC, back)
    BY SameRegisters
  <2> HIDE DEF ready, popped, back
  <2>5. Architecture!Return
    BY <1>4, <1>9, <2>1, <2>2, <2>3, <2>4
       DEF Architecture!Return, Architecture!Running, RetSettled, ready
  <2> QED BY <2>5 DEF Architecture!Next
<1> QED BY <1>6, <1>7, <1>8, <1>9 DEF Settled

\* Until then it stays settled.
LEMMA StillSettling ==
  ASSUME NEW m, Settled(m), seen' = seen, UNCHANGED <<rom, ram_bank_count>>,
         m = SettledMachine'
  PROVE  Settling'
<1>1. \A a : Architecture!ByteAt(a)' = Architecture!ByteAt(a)
  BY DEF Architecture!ByteAt, Architecture!BusRead, Architecture!Cell,
         Architecture!EramInside, Architecture!EramIndex
<1>2. \A a : Architecture!Delay(a)' = Architecture!Delay(a)
  BY DEF Architecture!Delay
<1>3. /\ Architecture!PC' = Architecture!PC /\ Architecture!SP' = Architecture!SP
      /\ Architecture!Instruction' = Architecture!Instruction
      /\ Architecture!Op' = Architecture!Op
      /\ Architecture!Fetched' = Architecture!Fetched
      /\ Architecture!FetchCost' = Architecture!FetchCost
      /\ Operand' = Operand
  BY Ahead
<1>4. /\ Architecture!ByteAt(Architecture!SP + 1)' = Architecture!ByteAt(Architecture!SP + 1)
      /\ Architecture!ByteAt(Architecture!SP + 2)' = Architecture!ByteAt(Architecture!SP + 2)
      /\ Architecture!Delay(Architecture!SP)' = Architecture!Delay(Architecture!SP)
      /\ Architecture!Delay(Architecture!SP + 1)' = Architecture!Delay(Architecture!SP + 1)
      /\ Architecture!Delay(Architecture!SP + 2)' = Architecture!Delay(Architecture!SP + 2)
      /\ Architecture!Delay(Operand)' = Architecture!Delay(Operand)
  BY <1>1, <1>2, <1>3
<1>5. StrSettled(m) => StrSettled(SettledMachine)'
  <2> DEFINE byte == Architecture!Fetched[Architecture!Instruction[1]]
  <2>1. byte' = byte
    BY <1>3
  <2> HIDE DEF byte
  <2>2. /\ WramAfter(seen.wram, Operand, byte)' = WramAfter(seen.wram, Operand, byte)
        /\ RamAfter(seen.ram, Operand, byte)' = RamAfter(seen.ram, Operand, byte)
    BY <1>3, <2>1 DEF WramAfter, RamAfter, EramInside, EramIndex
  <2>3. StoredAt(m, Operand, byte) => StoredAt(SettledMachine, Operand, byte)'
    BY <2>2 DEF StoredAt
  <2> QED BY <1>3, <1>4, <2>3 DEF StrSettled, Succeeded, byte
<1>6. PshSettled(m) => PshSettled(SettledMachine)'
  <2> DEFINE byte == Architecture!Fetched[Architecture!Instruction[1]]
             sp == Architecture!SP
  <2>1. byte' = byte /\ sp' = sp
    BY <1>3
  <2> HIDE DEF byte, sp
  <2>2. /\ WramAfter(seen.wram, sp, byte)' = WramAfter(seen.wram, sp, byte)
        /\ RamAfter(seen.ram, sp, byte)' = RamAfter(seen.ram, sp, byte)
    BY <2>1 DEF WramAfter, RamAfter, EramInside, EramIndex
  <2>3. StoredAt(m, sp, byte) => StoredAt(SettledMachine, sp, byte)'
    BY <2>2 DEF StoredAt
  <2> QED BY <1>3, <1>4, <2>3 DEF PshSettled, Succeeded, byte, sp
<1>7. PopSettled(m) => PopSettled(SettledMachine)'
  BY <1>3, <1>4 DEF PopSettled, Succeeded, NothingStored
<1>8. RetSettled(m) => RetSettled(SettledMachine)'
  BY <1>3, <1>4 DEF RetSettled, Succeeded, NothingStored
<1>9. Settled(SettledMachine)'
  BY <1>5, <1>6, <1>7, <1>8 DEF Settled
<1> QED BY <1>9 DEF Settling, SettledMachine

-----------------------------------------------------------------------------
\* The wait for a delay: nothing but the clock moves, and the clock due
\* stays the same.  The last cycle of it may be the architecture's step.

\* Without a delay the clock due is the clock.
LEMMA DueAtOnce ==
  ASSUME Inv, latency_cycles = 0
  PROVE  Due = cycles
<1>1. cycles \in Nat /\ cycles < CounterMod /\ CounterMod \in Nat \ {0}
  BY CpuAssumption DEF Inv, TypeOK
<1> QED BY <1>1, Unwrapped DEF Due

\* A successful end, with a delay or without.
LEMMA Settles ==
  ASSUME Inv, Inv', SeenInv, Shown, state' = "FETCH_OPCODE", UNCHANGED <<rom, ram_bank_count>>,
         NEW m, m = SettledMachine', Settled(m)
  PROVE  SeenInv' /\ (Architecture!Next \/ seen' = seen)
<1>1. CASE latency_cycles' = 0
  <2>1. BetweenInstructions' /\ seen' = Machine'
    BY <1>1 DEF Shown, BetweenInstructions
  <2>2. (Inv /\ latency_cycles = 0 => Due = cycles)'
    BY DueAtOnce, PTL
  <2>3. SettledMachine' = Machine'
    BY <1>1, <2>2 DEF SettledMachine, Machine
  <2>4. SeenInv'
    <3>1. SeenTyped'
      BY <2>1 DEF SeenTyped, Machine, Inv, TypeOK
    <3> QED BY <1>1, <2>1, <3>1 DEF SeenInv, At
  <2>5. Settled(seen')
    BY <2>1, <2>3
  <2> QED BY <2>4, <2>5, SettledStep
<1>2. CASE latency_cycles' # 0
  <2>1. seen' = seen /\ ~BetweenInstructions'
    BY <1>2 DEF Shown, BetweenInstructions
  <2>2. Settling'
    BY <2>1, StillSettling
  <2>3. SeenTyped'
    BY <2>1 DEF SeenTyped, SeenInv
  <2> QED BY <2>1, <2>2, <2>3 DEF SeenInv, At
<1> QED BY <1>1, <1>2

\* What has been done and paid for so far stays done and paid for.
LEMMA Frozen ==
  ASSUME seen' = seen, UNCHANGED <<rom, ram_bank_count>>,
         UNCHANGED <<registers, wram, ram, value_buf>>, Due' = Due
  PROVE  /\ LoadPending /\ PcDelta' = PcDelta => LoadPending'
         /\ ReturnHalfway => ReturnHalfway'
         /\ CallHalfway => CallHalfway'
         /\ CallPushed => CallPushed'
         /\ Paid(Architecture!FetchCost) => Paid(Architecture!FetchCost)'
<1>1. \A a : Architecture!ByteAt(a)' = Architecture!ByteAt(a)
  BY DEF Architecture!ByteAt, Architecture!BusRead, Architecture!Cell,
         Architecture!EramInside, Architecture!EramIndex
<1>2. \A a : Architecture!Delay(a)' = Architecture!Delay(a)
  BY DEF Architecture!Delay
<1>3. /\ Architecture!PC' = Architecture!PC /\ Architecture!SP' = Architecture!SP
      /\ Architecture!Fetched' = Architecture!Fetched
      /\ Architecture!FetchCost' = Architecture!FetchCost
      /\ Operand' = Operand /\ Back' = Back /\ Below' = Below
  BY Ahead
<1>4. \A n : Paid(n) => Due' = (seen'.cycles + n) % CounterMod
  BY DEF Paid
<1>5. LoadPending /\ PcDelta' = PcDelta => LoadPending'
  <2>1. /\ Architecture!ByteAt(Operand)' = Architecture!ByteAt(Operand)
        /\ Architecture!Delay(Operand)' = Architecture!Delay(Operand)
    BY <1>1, <1>2, <1>3
  <2>2. Unexecuted /\ PcDelta' = PcDelta => Unexecuted'
    BY StillUnexecuted
  <2> QED BY <1>3, <2>1, <2>2 DEF LoadPending, Paid
<1>6. ReturnHalfway => ReturnHalfway'
  <2>1. /\ Architecture!ByteAt(Architecture!SP + 1)' = Architecture!ByteAt(Architecture!SP + 1)
        /\ Architecture!Delay(Architecture!SP + 1)' = Architecture!Delay(Architecture!SP + 1)
    BY <1>1, <1>2, <1>3
  <2> QED BY <1>3, <2>1 DEF ReturnHalfway, Unwritten, Paid
<1>7. /\ WramAfter(seen.wram, Architecture!SP, Hi(Back))'
           = WramAfter(seen.wram, Architecture!SP, Hi(Back))
      /\ RamAfter(seen.ram, Architecture!SP, Hi(Back))'
           = RamAfter(seen.ram, Architecture!SP, Hi(Back))
      /\ WramAfter(WramAfter(seen.wram, Architecture!SP, Hi(Back)), Below, Lo(Back))'
           = WramAfter(WramAfter(seen.wram, Architecture!SP, Hi(Back)), Below, Lo(Back))
      /\ RamAfter(RamAfter(seen.ram, Architecture!SP, Hi(Back)), Below, Lo(Back))'
           = RamAfter(RamAfter(seen.ram, Architecture!SP, Hi(Back)), Below, Lo(Back))
  BY <1>3 DEF WramAfter, RamAfter, EramInside, EramIndex
<1>8. /\ Architecture!Delay(Architecture!SP)' = Architecture!Delay(Architecture!SP)
      /\ Architecture!Delay(Below)' = Architecture!Delay(Below)
  BY <1>2, <1>3
<1>9. CallHalfway => CallHalfway'
  BY <1>3, <1>7, <1>8 DEF CallHalfway, Paid
<1>10. CallPushed => CallPushed'
  BY <1>3, <1>7, <1>8 DEF CallPushed, Paid
<1> QED BY <1>3, <1>5, <1>6, <1>9, <1>10 DEF Paid

\* A cycle of waiting.
LEMMA WaitSeen ==
  ASSUME Inv, Inv', SeenInv, Wait, Shown
  PROVE  SeenInv' /\ (Architecture!Next \/ seen' = seen)
<1>1. /\ Turn /\ latency_cycles' = latency_cycles - 1 /\ latency_cycles > 0
      /\ UNCHANGED <<state, halt_code, registers, opcode_pc, selected_opcode, instr_buf,
                      instr_count, value_buf, instr_exec_cycle>>
      /\ UNCHANGED <<rom, ram_bank_count, wram, ram>>
  BY DEF Wait, fetchVars, memoryVars
<1>2. Due' = Due
  <2>1. cycles \in Int /\ latency_cycles \in Int /\ CounterMod \in Nat \ {0}
    BY CpuAssumption DEF Inv, TypeOK, Byte
  <2>2. Due' = (((cycles + 1) % CounterMod) + (latency_cycles - 1)) % CounterMod
    BY <1>1 DEF Turn, Due
  <2> DEFINE a == cycles + 1
             b == latency_cycles - 1
  <2>3. a \in Int /\ b \in Int
    BY <2>1
  <2>4. ((a % CounterMod) + b) % CounterMod = (a + b) % CounterMod
    <3> HIDE DEF a, b
    <3> QED BY <2>1, <2>3, ModAdd
  <2>5. a + b = cycles + latency_cycles
    BY <2>1
  <2> QED BY <2>2, <2>4, <2>5 DEF Due
<1>3. SeenTyped
  BY DEF SeenInv
<1>4. CASE state = "FETCH_OPCODE"
  <2>1. Settled(SettledMachine)
    BY <1>1, <1>4 DEF SeenInv, Settling, SettledMachine, Inv, TypeOK, Byte
  <2>2. SettledMachine' = SettledMachine
    BY <1>1, <1>2 DEF SettledMachine, Machine
  <2>3. Settled(SettledMachine')
    BY <2>1, <2>2
  <2> QED BY <1>1, <1>4, <2>3, Settles
<1>5. CASE state \in {"DECODE", "FETCH_OPERANDS", "EXECUTE"}
  <2>1. seen' = seen
    BY <1>1, <1>5, StillUnseen
  <2>2. PcDelta' = PcDelta
    BY <1>1 DEF PcDelta, PC
  <2>3. InFlight'
    BY <1>1, <1>5, <2>1, <2>2, StillFlying DEF SeenInv
  <2>4. Unexecuted => Unexecuted'
    BY <1>1, <2>1, <2>2, StillUnexecuted
  <2>5. /\ FetchedBytes(1)' = FetchedBytes(1)
        /\ FetchedBytes(PcDelta)' = FetchedBytes(PcDelta)
    BY <1>1, <2>1, <2>2, SameFetchedBytes
  <2>6. /\ Paid(FetchedBytes(1)) => Paid(FetchedBytes(1))'
        /\ Paid(FetchedBytes(PcDelta) + 1) => Paid(FetchedBytes(PcDelta) + 1)'
    BY <1>2, <2>1, <2>5 DEF Paid
  <2>7. /\ LoadPending => LoadPending'
        /\ ReturnHalfway => ReturnHalfway'
        /\ CallHalfway => CallHalfway'
        /\ CallPushed => CallPushed'
        /\ Paid(Architecture!FetchCost) => Paid(Architecture!FetchCost)'
    BY <1>1, <1>2, <2>1, <2>2, Frozen
  <2>8. SeenTyped' /\ ~BetweenInstructions'
    BY <1>1, <1>3, <1>5, <2>1 DEF SeenTyped, BetweenInstructions
  <2>9. SeenInv'
    BY <1>1, <1>5, <2>3, <2>4, <2>6, <2>7, <2>8 DEF SeenInv, At
  <2> QED BY <2>1, <2>9
<1>6. state # "HALT"
  BY <1>1 DEF Inv, HaltReason
<1> QED BY <1>4, <1>5, <1>6 DEF Inv, TypeOK

-----------------------------------------------------------------------------
\* Handlers that stop for a bad operand, and the load of an immediate.

\* A handler that gives no reason of its own.
LEMMA FailSeen ==
  ASSUME Inv, Inv', SeenInv, Shown, NEW ops, Executing(ops), Fail,
         NEW n \in Int, Paid(n), NEW execs \in Int, NEW delay \in Int,
         n + 1 = Architecture!FetchCost + execs + delay
  PROVE  /\ SeenInv' /\ Architecture!Running(ops)
         /\ Architecture!Stop("EXEC_FAILED", registers, execs, delay)
         /\ seen'.wram = wram /\ seen'.ram = ram /\ UNCHANGED <<rom, ram_bank_count>>
<1>1. latency_cycles = 0 /\ halt_code = "NONE"
  BY Executable
<1>2. /\ Ended /\ FailWith("EXEC_FAILED") /\ registers' = registers
      /\ UNCHANGED <<rom, ram_bank_count, wram, ram>>
  BY <1>1 DEF Fail, FailWith, Ended, NoAccess, NoWrite, memoryVars
<1>3. /\ SeenInv' /\ Architecture!Running(ops)
      /\ Architecture!Stop("EXEC_FAILED", registers', execs, delay)
      /\ seen'.wram = wram' /\ seen'.ram = ram'
  BY <1>2, StepCharged
<1> QED BY <1>2, <1>3

\* In the only cycle of a handler.
LEMMA FailAtOnce ==
  ASSUME Inv, Inv', SeenInv, Shown, NEW ops, Executing(ops), Fail, ops \subseteq OneCycleOps
  PROVE  /\ SeenInv' /\ Architecture!Running(ops)
         /\ Architecture!Stop("EXEC_FAILED", Architecture!Fetched, 1, 0)
         /\ UNCHANGED Architecture!memoryVars
<1>1. /\ registers = Architecture!Fetched /\ Unwritten /\ Paid(Architecture!FetchCost)
  BY FirstAndOnly
<1>2. Architecture!FetchCost \in Int
      /\ Architecture!FetchCost + 1 = Architecture!FetchCost + 1 + 0
  BY FetchCostType
<1>3. /\ SeenInv' /\ Architecture!Running(ops)
      /\ Architecture!Stop("EXEC_FAILED", registers, 1, 0)
      /\ seen'.wram = wram /\ seen'.ram = ram /\ UNCHANGED <<rom, ram_bank_count>>
  BY <1>1, <1>2, FailSeen
<1> QED BY <1>1, <1>3 DEF Unwritten, Architecture!memoryVars

\* The load of an immediate.
LEMMA LdrImmSeen ==
  ASSUME Inv, Inv', SeenInv, Shown, ExecLdrImm
  PROVE  SeenInv' /\ Architecture!Next
<1> DEFINE code == Architecture!Instruction
           ready == Architecture!Fetched
           valid == Architecture!ValidRegisters(LDR_IMM, code)
           after == [ready EXCEPT ![code[1]] = code[2]]
<1>1. Executing({LDR_IMM})
  BY DEF ExecLdrImm
<1>2. {LDR_IMM} \subseteq OneCycleOps
  BY DEF OneCycleOps
<1>3. Architecture!Op = LDR_IMM /\ ExecCycles(Architecture!Op) = 1 /\ registers = ready
  BY <1>1, <1>2, FirstAndOnly
<1>4. instr_buf[1] = code[1] /\ instr_buf[2] = code[2]
  BY <1>1, <1>3, SameOperands, LongForms
<1>5. valid = ValidRegisters(LDR_IMM, instr_buf) /\ valid \in BOOLEAN
  BY <1>4, SameValid
<1>6. after = [registers EXCEPT ![instr_buf[1]] = instr_buf[2]]
  BY <1>3, <1>4
<1> HIDE DEF valid, after, ready, code
<1>7. SeenInv' /\ Architecture!RegisterStep({LDR_IMM}, valid, after)
  <2>1. CASE valid
    <3>1. registers' = after /\ Succeed /\ NoAccess /\ NoWrite
      BY <1>5, <1>6, <2>1 DEF ExecLdrImm
    <3>2. /\ SeenInv' /\ Architecture!Running({LDR_IMM})
          /\ Architecture!Succeed(registers', 0)
          /\ UNCHANGED Architecture!memoryVars
      BY <1>1, <1>3, <3>1, QuietSeen DEF Succeed
    <3> QED BY <2>1, <3>1, <3>2 DEF Architecture!RegisterStep
  <2>2. CASE ~valid
    <3>1. Fail
      BY <1>5, <2>2 DEF ExecLdrImm
    <3>2. /\ SeenInv' /\ Architecture!Running({LDR_IMM})
          /\ Architecture!Stop("EXEC_FAILED", Architecture!Fetched, 1, 0)
          /\ UNCHANGED Architecture!memoryVars
      BY <1>1, <1>2, <3>1, FailAtOnce
    <3> QED BY <2>2, <3>2 DEF Architecture!RegisterStep
  <2> QED BY <2>1, <2>2
<1> QED BY <1>7 DEF Architecture!LdrImm, Architecture!Next, valid, after, ready, code

\* The address operand and the stack pointer of the instruction under way.
LEMMA OperandThere ==
  ASSUME Inv, SeenInv, NEW ops, Executing(ops), Size(Architecture!Op) = 4
  PROVE  Address(instr_buf, 2) = Operand /\ Operand % 65536 = Operand /\ Operand \in Int
<1>1. /\ instr_buf[2] = Architecture!Instruction[2]
      /\ instr_buf[2 + 1] = Architecture!Instruction[2 + 1]
  BY SameOperands
<1>2. Address(instr_buf, 2) = Operand
  BY <1>1 DEF Address, Operand
<1>3. Operand \in Word
  BY <1>2, AddressType
<1> QED BY <1>2, <1>3, WordAlone, WordBounds

LEMMA StackThere ==
  ASSUME SeenTyped
  PROVE  /\ Architecture!SP \in Word /\ Architecture!SP \in Int
         /\ Architecture!Fetched \in [Register -> Byte]
         /\ Pair(Architecture!Fetched, REG_SP) = Architecture!SP
<1>1. REG_PC \in 0..10 /\ REG_SP \in 0..10
  BY DEF REG_PC, REG_SP
<1>2. /\ Architecture!SP = Pair(seen.registers, REG_SP)
      /\ Architecture!PC = Pair(seen.registers, REG_PC)
  BY SameRegisters DEF Architecture!SP, Architecture!PC
<1>3. Architecture!SP \in Word /\ Architecture!PC \in Word
  BY <1>1, <1>2, PairType DEF SeenTyped
<1>4. Architecture!PC + Size(Architecture!Op) \in Int
  BY <1>3, WordBounds, SizeType
<1> DEFINE n == Architecture!PC + Size(Architecture!Op)
<1>5. Architecture!Fetched = SetPair(seen.registers, REG_PC, n)
  BY SameRegisters, SameSize DEF Architecture!Fetched
<1> DEFINE regs == seen.registers
<1>6. n \in Int /\ regs \in [Register -> Byte]
  BY <1>4 DEF SeenTyped
<1> HIDE DEF n, regs
<1>7. /\ SetPair(regs, REG_PC, n) \in [Register -> Byte]
      /\ \A s \in Register \ {REG_PC, REG_PC + 1} : SetPair(regs, REG_PC, n)[s] = regs[s]
  BY <1>1, <1>6, SetPairKeeps
<1>8. /\ Architecture!Fetched \in [Register -> Byte]
      /\ \A s \in Register \ {REG_PC, REG_PC + 1} : Architecture!Fetched[s] = seen.registers[s]
  BY <1>5, <1>7 DEF regs
<1>9. Pair(Architecture!Fetched, REG_SP) = Architecture!SP
  BY <1>2, <1>8 DEF Pair, REG_SP, REG_PC, Register
<1> QED BY <1>3, <1>8, <1>9, WordBounds

-----------------------------------------------------------------------------
\* Handlers of one cycle with an access: STR, PSH and POP.

\* A delay is a number.
LEMMA DelayType ==
  ASSUME NEW a
  PROVE  Architecture!Delay(a) \in Int
  BY LatencyType, SameMemory DEF Architecture!Delay

\* The cycle of an access is paid with the delay it incurs.
LEMMA AccessPaid ==
  ASSUME Inv, SeenTyped, Turn, latency_cycles = 0, NEW addr, Access(addr % 65536),
         NEW n \in Int, Paid(n)
  PROVE  Due' = (seen.cycles + (n + 1 + Architecture!Delay(addr))) % CounterMod
<1>1. latency_cycles' = Architecture!Delay(addr) /\ latency_cycles' \in Int
  BY AccessDelay
<1>2. Due' = (seen.cycles + (n + 1 + latency_cycles')) % CounterMod
  BY <1>1, TimePasses
<1> QED BY <1>1, <1>2

\* A handler that succeeds with an access has settled the instruction.
LEMMA SuccessSettles ==
  ASSUME Inv, SeenInv, NEW ops, Executing(ops), Succeed, NEW delay \in Int,
         NEW n \in Int, n = Architecture!FetchCost + ExecCycles(Architecture!Op) + delay,
         Due' = (seen.cycles + n) % CounterMod
  PROVE  Succeeded(SettledMachine', registers', delay)
<1>1. halt_code = "NONE" /\ instr_count = seen.instr_count /\ SeenTyped
  BY Executable
<1>2. ExecCycles(Architecture!Op) \in Int
  BY DEF ExecCycles
<1>3. seen.cycles + n
        = seen.cycles + Architecture!FetchCost + ExecCycles(Architecture!Op) + delay
  BY <1>1, <1>2, FetchCostType DEF SeenTyped
<1>4. /\ SettledMachine'.cycles = Due'
      /\ SettledMachine'.halt_code = halt_code'
      /\ SettledMachine'.registers = registers'
      /\ SettledMachine'.instr_count = instr_count'
  BY DEF SettledMachine, Machine
<1> QED BY <1>1, <1>3, <1>4 DEF Succeeded, Succeed

\* The store.
LEMMA StrSeen ==
  ASSUME Inv, Inv', SeenInv, Shown, ExecStr
  PROVE  SeenInv' /\ (Architecture!Next \/ seen' = seen)
<1> DEFINE code == Architecture!Instruction
           ready == Architecture!Fetched
<1>1. Executing({STR}) /\ {STR} \subseteq OneCycleOps
  BY DEF ExecStr, OneCycleOps
<1>2. /\ Architecture!Op = STR /\ ExecCycles(Architecture!Op) = 1 /\ registers = ready
      /\ Unwritten /\ Paid(Architecture!FetchCost)
  BY <1>1, FirstAndOnly
<1>3. /\ instr_buf[1] = code[1] /\ instr_buf[2] = code[2]
      /\ Address(instr_buf, 2) = Operand /\ Operand % 65536 = Operand
  BY <1>1, <1>2, SameOperands, LongForms, OperandThere
<1>4. /\ Architecture!ValidRegisters(STR, code) = ValidRegisters(STR, instr_buf)
      /\ ValidRegisters(STR, code) = ValidRegisters(STR, instr_buf)
  BY <1>3, SameValid, SameValidity
<1>5. /\ Turn /\ latency_cycles = 0 /\ SeenTyped /\ seen.halt_code = "NONE"
  BY <1>1, Executable
<1>6. CASE ValidRegisters(STR, instr_buf)
  <2>1. /\ BusWrite(Operand, ready[code[1]]) /\ Access(Operand % 65536) /\ Succeed
        /\ registers' = ready
    BY <1>2, <1>3, <1>6 DEF ExecStr
  <2> DEFINE delay == Architecture!Delay(Operand)
             n == Architecture!FetchCost + 1 + delay
  <2>2. delay \in Int /\ Architecture!FetchCost \in Int
    BY DelayType, FetchCostType
  <2>3. Due' = (seen.cycles + n) % CounterMod
    BY <1>2, <1>5, <2>1, <2>2, AccessPaid
  <2> HIDE DEF delay, ready, code
  <2>4. Succeeded(SettledMachine', ready, delay)
    BY <1>1, <1>2, <2>1, <2>2, <2>3, SuccessSettles
  <2>5. StoredAt(SettledMachine', Operand, ready[code[1]]) /\ UNCHANGED <<rom, ram_bank_count>>
    BY <1>2, <2>1 DEF StoredAt, BusWrite, Unwritten, SettledMachine, Machine
  <2>6. Settled(SettledMachine')
    BY <1>2, <1>4, <1>5, <1>6, <2>4, <2>5 DEF Settled, StrSettled, ready, code, delay
  <2> QED BY <2>1, <2>5, <2>6, Settles DEF Succeed
<1>7. CASE ~ValidRegisters(STR, instr_buf)
  <2>1. Fail
    BY <1>7 DEF ExecStr
  <2>2. /\ SeenInv' /\ Architecture!Running({STR})
        /\ Architecture!Stop("EXEC_FAILED", Architecture!Fetched, 1, 0)
        /\ UNCHANGED Architecture!memoryVars
    BY <1>1, <2>1, FailAtOnce
  <2> QED BY <1>4, <1>7, <2>2 DEF Architecture!Str, Architecture!Next
<1> QED BY <1>6, <1>7

\* The push.
LEMMA PshSeen ==
  ASSUME Inv, Inv', SeenInv, Shown, ExecPsh
  PROVE  SeenInv' /\ (Architecture!Next \/ seen' = seen)
<1> DEFINE code == Architecture!Instruction
           ready == Architecture!Fetched
<1>1. Executing({PSH}) /\ {PSH} \subseteq OneCycleOps
  BY DEF ExecPsh, OneCycleOps
<1>2. /\ Architecture!Op = PSH /\ ExecCycles(Architecture!Op) = 1 /\ registers = ready
      /\ Unwritten /\ Paid(Architecture!FetchCost)
  BY <1>1, FirstAndOnly
<1>3. instr_buf[1] = code[1] /\ (Size(PSH) >= 3 => instr_buf[2] = code[2])
  BY <1>1, <1>2, SameOperands, LongForms
<1>4. /\ Architecture!ValidRegisters(PSH, code) = ValidRegisters(PSH, instr_buf)
      /\ ValidRegisters(PSH, code) = ValidRegisters(PSH, instr_buf)
  BY <1>3, SameValid, SameValidity
<1>5. /\ Turn /\ latency_cycles = 0 /\ SeenTyped /\ seen.halt_code = "NONE"
  BY <1>1, Executable
<1>6. SP = Architecture!SP /\ Architecture!SP % 65536 = Architecture!SP
  BY <1>2, <1>5, StackThere, WordAlone DEF SP
<1>7. CASE ValidRegisters(PSH, instr_buf)
  <2> DEFINE sp == Architecture!SP
             after == SetPair(ready, REG_SP, sp - 1)
  <2>1. /\ BusWrite(sp, ready[code[1]]) /\ Access(sp % 65536) /\ Succeed
        /\ registers' = after
    BY <1>2, <1>3, <1>6, <1>7 DEF ExecPsh, StackPush
  <2> DEFINE delay == Architecture!Delay(sp)
             n == Architecture!FetchCost + 1 + delay
  <2>2. delay \in Int /\ Architecture!FetchCost \in Int
    BY DelayType, FetchCostType
  <2>3. Due' = (seen.cycles + n) % CounterMod
    BY <1>2, <1>5, <2>1, <2>2, AccessPaid
  <2> HIDE DEF delay, ready, code, after, sp
  <2>4. Succeeded(SettledMachine', after, delay)
    BY <1>1, <1>2, <2>1, <2>2, <2>3, SuccessSettles
  <2>5. StoredAt(SettledMachine', sp, ready[code[1]]) /\ UNCHANGED <<rom, ram_bank_count>>
    BY <1>2, <2>1 DEF StoredAt, BusWrite, Unwritten, SettledMachine, Machine
  <2>6. Settled(SettledMachine')
    BY <1>2, <1>4, <1>5, <1>7, <2>4, <2>5
       DEF Settled, PshSettled, ready, code, delay, after, sp
  <2> QED BY <2>1, <2>5, <2>6, Settles DEF Succeed
<1>8. CASE ~ValidRegisters(PSH, instr_buf)
  <2>1. Fail
    BY <1>8 DEF ExecPsh
  <2>2. /\ SeenInv' /\ Architecture!Running({PSH})
        /\ Architecture!Stop("EXEC_FAILED", Architecture!Fetched, 1, 0)
        /\ UNCHANGED Architecture!memoryVars
    BY <1>1, <2>1, FailAtOnce
  <2> QED BY <1>4, <1>8, <2>2 DEF Architecture!Psh, Architecture!Next
<1> QED BY <1>7, <1>8

\* The pop.
LEMMA PopSeen ==
  ASSUME SingleRead, Inv, Inv', SeenInv, Shown, ExecPop
  PROVE  SeenInv' /\ (Architecture!Next \/ seen' = seen)
<1> DEFINE code == Architecture!Instruction
           ready == Architecture!Fetched
<1>1. Executing({POP}) /\ {POP} \subseteq OneCycleOps
  BY DEF ExecPop, OneCycleOps
<1>2. /\ Architecture!Op = POP /\ ExecCycles(Architecture!Op) = 1 /\ registers = ready
      /\ Unwritten /\ Paid(Architecture!FetchCost)
  BY <1>1, FirstAndOnly
<1>3. instr_buf[1] = code[1] /\ (Size(POP) >= 3 => instr_buf[2] = code[2])
  BY <1>1, <1>2, SameOperands, LongForms
<1>4. /\ Architecture!ValidRegisters(POP, code) = ValidRegisters(POP, instr_buf)
      /\ ValidRegisters(POP, code) = ValidRegisters(POP, instr_buf)
  BY <1>3, SameValid, SameValidity
<1>5. /\ Turn /\ latency_cycles = 0 /\ SeenTyped /\ seen.halt_code = "NONE"
  BY <1>1, Executable
<1>6. SP = Architecture!SP
  BY <1>2, <1>5, StackThere DEF SP
<1>7. CASE ValidRegisters(POP, instr_buf)
  <2> DEFINE top == Architecture!SP + 1
             byte == Architecture!ByteAt(top)
             popped == SetPair(ready, REG_SP, top)
             after == [popped EXCEPT ![code[1]] = byte]
  <2>1. StackTop = top % 65536 /\ Popped = popped
    BY <1>2, <1>6 DEF StackTop, Popped
  <2>2. BusRead(top % 65536) = {byte}
    <3> HIDE DEF top
    <3> QED BY <1>2, OneReading DEF Unwritten, byte
  <2>3. /\ Access(top % 65536) /\ Succeed /\ NoWrite
        /\ \E b \in BusRead(top % 65536) : registers' = [popped EXCEPT ![code[1]] = b]
    BY <1>3, <1>7, <2>1 DEF ExecPop
  <2>4. Succeed /\ registers' = after
    BY <2>2, <2>3
  <2> DEFINE delay == Architecture!Delay(top)
             n == Architecture!FetchCost + 1 + delay
  <2>5. delay \in Int /\ Architecture!FetchCost \in Int
    BY DelayType, FetchCostType
  <2> HIDE DEF top
  <2>6. Due' = (seen.cycles + n) % CounterMod
    BY <1>2, <1>5, <2>3, <2>5, AccessPaid
  <2> HIDE DEF delay, ready, code, after, popped, byte
  <2>7. Succeeded(SettledMachine', after, delay)
    BY <1>1, <1>2, <2>4, <2>5, <2>6, SuccessSettles
  <2>8. NothingStored(SettledMachine') /\ UNCHANGED <<rom, ram_bank_count>>
    BY <1>2, <2>3 DEF NothingStored, NoWrite, memoryVars, Unwritten, SettledMachine, Machine
  <2>9. Settled(SettledMachine')
    BY <1>2, <1>4, <1>5, <1>7, <2>7, <2>8
       DEF Settled, PopSettled, ready, code, delay, after, popped, byte, top
  <2> QED BY <2>3, <2>8, <2>9, Settles DEF Succeed
<1>8. CASE ~ValidRegisters(POP, instr_buf)
  <2>1. Fail
    BY <1>8 DEF ExecPop
  <2>2. /\ SeenInv' /\ Architecture!Running({POP})
        /\ Architecture!Stop("EXEC_FAILED", Architecture!Fetched, 1, 0)
        /\ UNCHANGED Architecture!memoryVars
    BY <1>1, <2>1, FailAtOnce
  <2> QED BY <1>4, <1>8, <2>2 DEF Architecture!Pop, Architecture!Next
<1> QED BY <1>7, <1>8

-----------------------------------------------------------------------------
\* LDR from memory: two cycles, with the delay of the read between them.

\* A handler that will be called again.
LEMMA PendingSeen ==
  ASSUME Inv, SeenInv, Shown, NEW ops, Executing(ops), Pending, PC' = PC,
         UNCHANGED <<rom, ram_bank_count>>
  PROVE  /\ seen' = seen /\ instr_exec_cycle' = instr_exec_cycle + 1
         /\ state' = "EXECUTE" /\ selected_opcode' = Architecture!Op
         /\ /\ (At({LDR_MEM}, 1) => LoadPending)'
            /\ (At({RET}, 1) => ReturnHalfway)'
            /\ (At({CAL_MEM, CAL_REG}, 1) => CallHalfway)'
            /\ (At({CAL_MEM, CAL_REG}, 2) => CallPushed)'
            => SeenInv'
<1>1. /\ state = "EXECUTE" /\ UNCHANGED <<opcode_pc, selected_opcode, instr_buf>>
      /\ InFlight /\ SeenTyped /\ selected_opcode = Architecture!Op
      /\ instr_exec_cycle < ExecCycles(Architecture!Op) /\ instr_exec_cycle \in Nat
  BY Executable
<1>2. UNCHANGED <<state, halt_code, instr_count>>
  BY DEF Pending
<1>3. instr_exec_cycle' = instr_exec_cycle + 1
  <2>1. ExecCycles(Architecture!Op) \in 1..3
    BY DEF ExecCycles
  <2>2. instr_exec_cycle' = (instr_exec_cycle + 1) % 256
    BY DEF Pending
  <2> QED BY <1>1, <2>1, <2>2
<1>4. seen' = seen /\ ~BetweenInstructions'
  BY <1>1, <1>2, StillUnseen DEF BetweenInstructions
<1>5. PcDelta' = PcDelta
  BY <1>1 DEF PcDelta
<1>6. InFlight'
  BY <1>1, <1>2, <1>4, <1>5, StillFlying
<1>7. SeenTyped'
  BY <1>1, <1>4 DEF SeenTyped
<1>8. ~At(Byte, 0)'
  BY <1>1, <1>3 DEF At
<1> QED BY <1>1, <1>2, <1>3, <1>4, <1>6, <1>7, <1>8 DEF SeenInv

\* The read is pending.
LEMMA LdrMemReadSeen ==
  ASSUME SingleRead, Inv, SeenInv, Shown, LdrMemRead
  PROVE  SeenInv' /\ seen' = seen
<1>1. /\ Executing({LDR_MEM}) /\ instr_exec_cycle = 0 /\ Pending
      /\ UNCHANGED <<registers, rom, ram_bank_count, wram, ram>>
  BY DEF LdrMemRead, NoWrite, memoryVars
<1>2. /\ Turn /\ latency_cycles = 0 /\ SeenTyped /\ Architecture!Op = LDR_MEM
      /\ state = "EXECUTE" /\ selected_opcode \in Byte /\ UNCHANGED opcode_pc
      /\ Size(Architecture!Op) = 4
  BY <1>1, Executable, LongForms
<1>3. Unexecuted /\ Unwritten /\ Paid(Architecture!FetchCost) /\ Architecture!FetchCost \in Int
  BY <1>1, <1>2, FetchCostType DEF SeenInv, At, Unexecuted
<1>4. Address(instr_buf, 2) = Operand /\ Operand % 65536 = Operand
  BY <1>1, <1>2, OperandThere
<1>5. PC' = PC /\ PcDelta' = PcDelta
  BY <1>1, <1>2 DEF PC, PcDelta
<1>6. /\ seen' = seen /\ instr_exec_cycle' = 1
      /\ selected_opcode' = LDR_MEM
      /\ (At({LDR_MEM}, 1) => LoadPending)' => SeenInv'
  <2>1. /\ seen' = seen /\ instr_exec_cycle' = instr_exec_cycle + 1
        /\ state' = "EXECUTE" /\ selected_opcode' = Architecture!Op
        /\ /\ (At({LDR_MEM}, 1) => LoadPending)'
           /\ (At({RET}, 1) => ReturnHalfway)'
           /\ (At({CAL_MEM, CAL_REG}, 1) => CallHalfway)'
           /\ (At({CAL_MEM, CAL_REG}, 2) => CallPushed)'
           => SeenInv'
    BY <1>1, <1>5, PendingSeen
  <2> QED BY <1>1, <1>2, <2>1 DEF At
<1>7. value_buf' = Architecture!ByteAt(Operand)
  <2>1. BusRead(Operand % 65536) = {Architecture!ByteAt(Operand)}
    BY <1>3, OneReading DEF Unwritten
  <2> QED BY <1>4, <2>1 DEF LdrMemRead
<1>8. Due' = (seen.cycles + (Architecture!FetchCost + 1 + Architecture!Delay(Operand)))
               % CounterMod
  BY <1>2, <1>3, <1>4, AccessPaid DEF LdrMemRead
<1>9. /\ Architecture!ByteAt(Operand)' = Architecture!ByteAt(Operand)
      /\ Architecture!Delay(Operand)' = Architecture!Delay(Operand)
      /\ Architecture!FetchCost' = Architecture!FetchCost
  <2>1. \A a : Architecture!ByteAt(a)' = Architecture!ByteAt(a)
    BY <1>1, <1>6 DEF Architecture!ByteAt, Architecture!BusRead, Architecture!Cell,
                      Architecture!EramInside, Architecture!EramIndex
  <2> QED BY <1>1, <1>6, <2>1, Ahead DEF Architecture!Delay
<1>10. Unexecuted'
  BY <1>1, <1>3, <1>5, <1>6, StillUnexecuted
<1>11. LoadPending'
  BY <1>6, <1>7, <1>8, <1>9, <1>10 DEF LoadPending, Paid
<1> QED BY <1>6, <1>11

\* The byte read goes to its register.
LEMMA LdrMemStoreSeen ==
  ASSUME Inv, Inv', SeenInv, Shown, LdrMemStore
  PROVE  SeenInv' /\ Architecture!Next
<1> DEFINE code == Architecture!Instruction
           ready == Architecture!Fetched
           delay == Architecture!Delay(Operand)
           after == [ready EXCEPT ![code[1]] = Architecture!ByteAt(Operand)]
<1>1. Executing({LDR_MEM})
  BY DEF LdrMemStore
<1>2. /\ Turn /\ latency_cycles = 0 /\ Architecture!Op = LDR_MEM /\ selected_opcode = LDR_MEM
      /\ PcDelta = Size(LDR_MEM) /\ state = "EXECUTE"
      /\ instr_exec_cycle < ExecCycles(LDR_MEM) /\ instr_exec_cycle \in Nat
  BY <1>1, Executable
<1>3. instr_exec_cycle = 1 /\ ExecCycles(Architecture!Op) = 2
  BY <1>2 DEF LdrMemStore, ExecCycles
<1>4. LoadPending
  BY <1>2, <1>3 DEF SeenInv, At
<1>5. registers = ready
  BY <1>2, <1>4, SameSize, SameRegisters DEF LoadPending, Unexecuted, Architecture!Fetched
<1>6. instr_buf[1] = code[1] /\ instr_buf[2] = code[2]
  BY <1>1, <1>2, SameOperands, LongForms
<1>7. Architecture!ValidRegisters(LDR_MEM, code) = ValidRegisters(LDR_MEM, instr_buf)
  BY <1>6, SameValid
<1>8. Operand = Architecture!Address(code, 2)
  BY SameRegisters DEF Operand
<1>9. delay \in Int /\ Architecture!FetchCost \in Int
  BY DelayType, FetchCostType
<1> DEFINE n == Architecture!FetchCost + 1 + delay
<1>10. n \in Int /\ n + 1 = Architecture!FetchCost + 2 + delay /\ Paid(n)
  BY <1>4, <1>9 DEF LoadPending
<1> HIDE DEF n, delay, after, ready, code
<1>11. CASE ValidRegisters(LDR_MEM, instr_buf)
  <2>1. /\ registers' = after /\ Succeed /\ NoAccess
        /\ UNCHANGED <<rom, ram_bank_count, wram, ram>>
    BY <1>3, <1>4, <1>5, <1>6, <1>11
       DEF LdrMemStore, LoadPending, after, NoWrite, memoryVars
  <2>2. Ended
    BY <1>2, <2>1 DEF Ended, Succeed, NoAccess
  <2>3. /\ SeenInv' /\ Architecture!Running({LDR_MEM})
        /\ Architecture!Succeed(after, delay)
        /\ seen'.wram = wram' /\ seen'.ram = ram'
    BY <1>1, <1>3, <1>9, <1>10, <2>1, <2>2, StepCharged
  <2>4. UNCHANGED Architecture!memoryVars
    BY <1>4, <2>1, <2>3 DEF LoadPending, Unexecuted, Unwritten, Architecture!memoryVars
  <2>5. Architecture!LdrMem
    BY <1>7, <1>8, <1>11, <2>3, <2>4 DEF Architecture!LdrMem, after, delay, ready, code
  <2> QED BY <2>3, <2>5 DEF Architecture!Next
<1>12. CASE ~ValidRegisters(LDR_MEM, instr_buf)
  <2>1. Fail
    BY <1>12 DEF LdrMemStore
  <2>2. /\ SeenInv' /\ Architecture!Running({LDR_MEM})
        /\ Architecture!Stop("EXEC_FAILED", ready, 2, delay)
        /\ seen'.wram = wram /\ seen'.ram = ram /\ UNCHANGED <<rom, ram_bank_count>>
    BY <1>1, <1>5, <1>9, <1>10, <2>1, FailSeen
  <2>3. UNCHANGED Architecture!memoryVars
    BY <1>4, <2>2 DEF LoadPending, Unexecuted, Unwritten, Architecture!memoryVars
  <2>4. Architecture!LdrMem
    BY <1>7, <1>8, <1>12, <2>2, <2>3 DEF Architecture!LdrMem, after, delay, ready, code
  <2> QED BY <2>2, <2>4 DEF Architecture!Next
<1> QED BY <1>11, <1>12

-----------------------------------------------------------------------------
\* CAL: three cycles.  The two pushes are at addresses counted from the SP
\* the architecture sees.

\* SP is what it was set to.
LEMMA StackSet ==
  ASSUME NEW regs \in [Register -> Byte], NEW n \in Int
  PROVE  Pair(SetPair(regs, REG_SP, n), REG_SP) = n % 65536
<1> DEFINE word == n % 65536
<1>1. SetPair(regs, REG_SP, n) = [regs EXCEPT ![7] = Lo(word), ![7 + 1] = Hi(word)]
  BY DEF SetPair, REG_SP
<1>2. word \in Word
  BY Truncate
<1> HIDE DEF word
<1>3. MkWord(Lo(word), Hi(word)) = word
  BY <1>2, SplitWord
<1>4. /\ SetPair(regs, REG_SP, n)[7] = Lo(word)
      /\ SetPair(regs, REG_SP, n)[7 + 1] = Hi(word)
  BY <1>1 DEF Register
<1>5. Pair(SetPair(regs, REG_SP, n), REG_SP) = word
  BY <1>3, <1>4 DEF Pair, REG_SP
<1> QED BY <1>5 DEF word

\* Two accesses of the stack, at addresses counted from SP.
LEMMA StackMoves ==
  ASSUME SeenTyped, NEW k \in Int, NEW j \in Int,
         registers = SetPair(Architecture!Fetched, REG_SP, Architecture!SP + k)
  PROVE  /\ SP = (Architecture!SP + k) % 65536
         /\ SetPair(registers, REG_SP, SP + j)
              = SetPair(Architecture!Fetched, REG_SP, Architecture!SP + (k + j))
         /\ (SP + j) % 65536 = (Architecture!SP + (k + j)) % 65536
<1>1. REG_SP \in 0..10
  BY DEF REG_SP
<1> DEFINE ready == Architecture!Fetched
           sp == Architecture!SP
<1>2. sp \in Int /\ ready \in [Register -> Byte]
  BY StackThere
<1> HIDE DEF ready, sp
<1>3. sp + k \in Int /\ sp + (k + j) \in Int /\ registers = SetPair(ready, REG_SP, sp + k)
  BY <1>2 DEF ready, sp
<1>4. SP = (sp + k) % 65536
  <2> DEFINE n == sp + k
  <2>1. n \in Int /\ registers = SetPair(ready, REG_SP, n)
    BY <1>3
  <2> HIDE DEF n
  <2>2. Pair(SetPair(ready, REG_SP, n), REG_SP) = n % 65536
    <3>1. n \in Int /\ ready \in [Register -> Byte]
      BY <1>2, <2>1
    <3> QED BY <3>1, StackSet
  <2>3. Pair(registers, REG_SP) = n % 65536
    BY <2>1, <2>2
  <2> QED BY <2>3 DEF SP, n
<1>5. SP + j \in Int /\ (SP + j) % 65536 = (sp + (k + j)) % 65536
  BY <1>2, <1>3, <1>4
<1>6. SetPair(registers, REG_SP, SP + j) = SetPair(ready, REG_SP, SP + j)
  BY <1>1, <1>2, <1>3, <1>5, PairAgain
<1>7. SetPair(ready, REG_SP, SP + j) = SetPair(ready, REG_SP, sp + (k + j))
  BY <1>1, <1>2, <1>3, <1>5, PairAgain
<1> QED BY <1>4, <1>5, <1>6, <1>7 DEF ready, sp

\* A call takes three cycles.
LEMMA CallOps ==
  ASSUME NEW op \in {CAL_MEM, CAL_REG}
  PROVE  ExecCycles(op) = 3 /\ op # LDR_MEM /\ op # RET
  BY DEF ExecCycles

\* The first push.
LEMMA CalPushHighSeen ==
  ASSUME Inv, SeenInv, Shown, CalPushHigh
  PROVE  SeenInv' /\ seen' = seen
<1> DEFINE sp == Architecture!SP
<1>1. /\ Executing({CAL_MEM, CAL_REG}) /\ instr_exec_cycle = 0 /\ Pending
      /\ StackPush(Hi(PC)) /\ value_buf' = Lo(PC)
  BY DEF CalPushHigh
<1>2. /\ Turn /\ latency_cycles = 0 /\ SeenTyped /\ Architecture!Op \in {CAL_MEM, CAL_REG}
  BY <1>1, Executable
<1>3. registers = Architecture!Fetched /\ Unwritten /\ Paid(Architecture!FetchCost)
      /\ Architecture!FetchCost \in Int
  BY <1>1, Fresh, FetchCostType
<1>4. SP = sp /\ sp % 65536 = sp /\ sp \in Int /\ Architecture!Fetched \in [Register -> Byte]
  BY <1>2, <1>3, StackThere, WordAlone DEF SP
<1>5. PC = Back
  BY <1>3 DEF PC, Back
<1> HIDE DEF sp
<1>6. /\ registers' = SetPair(Architecture!Fetched, REG_SP, sp - 1)
      /\ Access(sp % 65536) /\ BusWrite(sp, Hi(Back)) /\ UNCHANGED <<rom, ram_bank_count>>
  BY <1>1, <1>3, <1>4, <1>5 DEF StackPush, BusWrite
<1>7. PC' = PC
  BY <1>3, <1>4, <1>6, StackKeepsPc DEF PC
<1>8. /\ seen' = seen
      /\ (At({CAL_MEM, CAL_REG}, 1) => CallHalfway)' => SeenInv'
  <2>1. /\ seen' = seen /\ instr_exec_cycle' = instr_exec_cycle + 1
        /\ state' = "EXECUTE" /\ selected_opcode' = Architecture!Op
        /\ /\ (At({LDR_MEM}, 1) => LoadPending)'
           /\ (At({RET}, 1) => ReturnHalfway)'
           /\ (At({CAL_MEM, CAL_REG}, 1) => CallHalfway)'
           /\ (At({CAL_MEM, CAL_REG}, 2) => CallPushed)'
           => SeenInv'
    BY <1>1, <1>6, <1>7, PendingSeen
  <2> QED BY <1>1, <1>2, <2>1, CallOps DEF At
<1>9. Due' = (seen.cycles + (Architecture!FetchCost + 1 + Architecture!Delay(sp))) % CounterMod
  BY <1>2, <1>3, <1>6, AccessPaid
<1>10. /\ Architecture!SP' = sp /\ Architecture!Fetched' = Architecture!Fetched
       /\ Architecture!FetchCost' = Architecture!FetchCost /\ Back' = Back
  BY <1>6, <1>8, Ahead DEF sp
<1>11. /\ WramAfter(seen.wram, sp, Hi(Back)) = wram'
       /\ RamAfter(seen.ram, sp, Hi(Back)) = ram'
  BY <1>3, <1>6 DEF BusWrite, Unwritten
<1>12. CallHalfway'
  <2>1. registers' = SetPair(Architecture!Fetched, REG_SP, Architecture!SP - 1)'
    BY <1>6, <1>10
  <2>2. /\ wram' = WramAfter(seen.wram, Architecture!SP, Hi(Back))'
        /\ ram' = RamAfter(seen.ram, Architecture!SP, Hi(Back))'
    BY <1>6, <1>8, <1>10, <1>11 DEF WramAfter, RamAfter, EramInside, EramIndex
  <2>3. value_buf' = Lo(Back)'
    BY <1>1, <1>5, <1>10
  <2>4. Architecture!Delay(Architecture!SP)' = Architecture!Delay(sp)
    BY <1>10 DEF Architecture!Delay
  <2>5. Paid(Architecture!FetchCost + 1 + Architecture!Delay(Architecture!SP))'
    BY <1>8, <1>9, <1>10, <2>4 DEF Paid
  <2> QED BY <2>1, <2>2, <2>3, <2>5 DEF CallHalfway
<1> QED BY <1>8, <1>12

\* The second push.
LEMMA CalPushLowSeen ==
  ASSUME Inv, SeenInv, Shown, CalPushLow
  PROVE  SeenInv' /\ seen' = seen
<1> DEFINE sp == Architecture!SP
           ready == Architecture!Fetched
<1>1. /\ Executing({CAL_MEM, CAL_REG}) /\ instr_exec_cycle = 1 /\ Pending
      /\ StackPush(value_buf)
  BY DEF CalPushLow
<1>2. /\ Turn /\ latency_cycles = 0 /\ SeenTyped /\ Architecture!Op \in {CAL_MEM, CAL_REG}
      /\ state = "EXECUTE" /\ selected_opcode = Architecture!Op
  BY <1>1, Executable
<1>3. CallHalfway
  BY <1>1, <1>2 DEF SeenInv, At
<1>4. sp \in Int /\ ready \in [Register -> Byte]
  BY <1>2, StackThere
<1>5. /\ SP = Below /\ (SP - 1) \in Int /\ Below % 65536 = Below
      /\ SetPair(registers, REG_SP, SP - 1) = SetPair(ready, REG_SP, sp - 2)
  <2>1. registers = SetPair(ready, REG_SP, sp + (-1)) /\ -1 \in Int
    BY <1>3, <1>4 DEF CallHalfway
  <2>2. /\ SP = (sp + (-1)) % 65536
        /\ SetPair(registers, REG_SP, SP + (-1)) = SetPair(ready, REG_SP, sp + ((-1) + (-1)))
    BY <1>2, <2>1, StackMoves
  <2>3. sp + (-1) = sp - 1 /\ sp + ((-1) + (-1)) = sp - 2
    BY <1>4
  <2>4. SP \in Word /\ SP + (-1) = SP - 1
    BY PcSpType, WordBounds
  <2>5. SP = Below
    BY <2>2, <2>3 DEF Below
  <2>6. Below % 65536 = Below
    BY <2>4, <2>5, WordAlone, WordBounds
  <2> QED BY <2>2, <2>3, <2>4, <2>5, <2>6, WordBounds
<1> HIDE DEF sp, ready
<1>6. /\ registers' = SetPair(ready, REG_SP, sp - 2)
      /\ Access(Below % 65536) /\ BusWrite(Below, Lo(Back)) /\ UNCHANGED <<rom, ram_bank_count>>
  BY <1>1, <1>3, <1>5 DEF StackPush, BusWrite, CallHalfway
<1>7. PC' = PC
  <2>1. registers' = SetPair(registers, REG_SP, SP - 1) /\ registers \in [Register -> Byte]
    BY <1>5, <1>6 DEF Inv, TypeOK
  <2> QED BY <1>5, <2>1, StackKeepsPc DEF PC
<1>8. /\ seen' = seen
      /\ (At({CAL_MEM, CAL_REG}, 2) => CallPushed)' => SeenInv'
  <2>1. /\ seen' = seen /\ instr_exec_cycle' = instr_exec_cycle + 1
        /\ state' = "EXECUTE" /\ selected_opcode' = Architecture!Op
        /\ /\ (At({LDR_MEM}, 1) => LoadPending)'
           /\ (At({RET}, 1) => ReturnHalfway)'
           /\ (At({CAL_MEM, CAL_REG}, 1) => CallHalfway)'
           /\ (At({CAL_MEM, CAL_REG}, 2) => CallPushed)'
           => SeenInv'
    BY <1>1, <1>6, <1>7, PendingSeen
  <2> QED BY <1>1, <1>2, <2>1, CallOps DEF At
<1>9. Due' = (seen.cycles + (Architecture!FetchCost + 2 + Architecture!Delay(sp)
                               + Architecture!Delay(Below))) % CounterMod
  <2> DEFINE n == Architecture!FetchCost + 1 + Architecture!Delay(sp)
             last == Architecture!Delay(Below)
  <2>1. /\ Architecture!FetchCost \in Int /\ Architecture!Delay(sp) \in Int /\ last \in Int
    BY FetchCostType, DelayType
  <2>2. n \in Int /\ Paid(n)
    BY <1>3, <2>1 DEF CallHalfway, sp
  <2> HIDE DEF n
  <2>3. Due' = (seen.cycles + (n + 1 + last)) % CounterMod
    BY <1>2, <1>6, <2>2, AccessPaid
  <2> HIDE DEF last
  <2>4. n + 1 + last = Architecture!FetchCost + 2 + Architecture!Delay(sp) + last
    BY <2>1 DEF n
  <2> QED BY <2>3, <2>4 DEF last
<1>10. /\ Architecture!SP' = sp /\ Architecture!Fetched' = ready
       /\ Architecture!FetchCost' = Architecture!FetchCost /\ Back' = Back /\ Below' = Below
  BY <1>6, <1>8, Ahead DEF sp, ready
<1>11. /\ WramAfter(WramAfter(seen.wram, sp, Hi(Back)), Below, Lo(Back)) = wram'
       /\ RamAfter(RamAfter(seen.ram, sp, Hi(Back)), Below, Lo(Back)) = ram'
  BY <1>3, <1>6 DEF BusWrite, CallHalfway, sp
<1>12. CallPushed'
  <2>1. registers' = SetPair(Architecture!Fetched, REG_SP, Architecture!SP - 2)'
    BY <1>6, <1>10
  <2>2. /\ wram' = WramAfter(WramAfter(seen.wram, Architecture!SP, Hi(Back)), Below, Lo(Back))'
        /\ ram' = RamAfter(RamAfter(seen.ram, Architecture!SP, Hi(Back)), Below, Lo(Back))'
    BY <1>6, <1>8, <1>10, <1>11 DEF WramAfter, RamAfter, EramInside, EramIndex
  <2>4. /\ Architecture!Delay(Architecture!SP)' = Architecture!Delay(sp)
        /\ Architecture!Delay(Below)' = Architecture!Delay(Below)
    BY <1>10 DEF Architecture!Delay
  <2>5. Paid(Architecture!FetchCost + 2 + Architecture!Delay(Architecture!SP)
               + Architecture!Delay(Below))'
    BY <1>8, <1>9, <1>10, <2>4 DEF Paid
  <2> QED BY <2>1, <2>2, <2>5 DEF CallPushed
<1> QED BY <1>8, <1>12

-----------------------------------------------------------------------------
\* The jump of CAL, and the two cycles of RET.

\* The jump ends the call, or stops it with the return address pushed.
LEMMA CalJumpSeen ==
  ASSUME Inv, Inv', SeenInv, Shown, CalJump
  PROVE  SeenInv' /\ Architecture!Next
<1> DEFINE op == Architecture!Op
           code == Architecture!Instruction
           pushed == SetPair(Architecture!Fetched, REG_SP, Architecture!SP - 2)
           delay == Architecture!Delay(Architecture!SP) + Architecture!Delay(Below)
           target == Architecture!Target(op, code, pushed)
           valid == op = CAL_MEM \/ Architecture!ValidPair(code[1])
<1>1. Executing({CAL_MEM, CAL_REG})
  BY DEF CalJump
<1>2. /\ Turn /\ latency_cycles = 0 /\ op \in {CAL_MEM, CAL_REG} /\ selected_opcode = op
      /\ state = "EXECUTE" /\ instr_exec_cycle < 3 /\ instr_exec_cycle \in Nat
      /\ ExecCycles(op) = 3
  BY <1>1, Executable, CallOps
<1>3. instr_exec_cycle = 2
  BY <1>2 DEF CalJump
<1>4. CallPushed
  BY <1>2, <1>3 DEF SeenInv, At
<1>5. /\ Size(op) >= 2 => instr_buf[1] = code[1]
      /\ Size(op) >= 3 => instr_buf[2] = code[2]
      /\ instr_buf[1] = code[1]
  BY <1>1, <1>2, SameOperands, LongForms
<1>6. registers = pushed /\ target = Target(selected_opcode, instr_buf, registers)
  <2>1. registers = pushed
    BY <1>4 DEF CallPushed
  <2> HIDE DEF op, code, pushed
  <2>2. Architecture!Target(op, code, pushed) = Target(op, instr_buf, pushed)
    BY <1>2, <1>5, SameEffects
  <2> QED BY <1>2, <2>1, <2>2
<1>7. valid <=> selected_opcode = CAL_MEM \/ ValidPair(instr_buf[1])
  BY <1>2, <1>5, SameRegisters
<1> DEFINE n == Architecture!FetchCost + 2 + delay
<1>8. delay \in Int /\ n \in Int /\ n + 1 = Architecture!FetchCost + 3 + delay /\ Paid(n)
  <2>1. /\ Architecture!FetchCost \in Int /\ Architecture!Delay(Architecture!SP) \in Int
        /\ Architecture!Delay(Below) \in Int
    BY FetchCostType, DelayType
  <2>2. n = Architecture!FetchCost + 2 + Architecture!Delay(Architecture!SP)
              + Architecture!Delay(Below)
    BY <2>1
  <2> QED BY <1>4, <2>1, <2>2 DEF CallPushed
<1>9. /\ wram = WramAfter(WramAfter(seen.wram, Architecture!SP, Hi(Back)), Below, Lo(Back))
      /\ ram = RamAfter(RamAfter(seen.ram, Architecture!SP, Hi(Back)), Below, Lo(Back))
  BY <1>4 DEF CallPushed
<1> HIDE DEF n, delay, target, valid, op, code, pushed
<1>10. \/ valid /\ Architecture!Succeed(SetPair(pushed, REG_PC, target), delay)
       \/ ~valid /\ Architecture!Stop("EXEC_FAILED", pushed, 3, delay)
  <2>1. CASE valid
    <3>1. /\ registers' = SetPair(pushed, REG_PC, target) /\ Succeed /\ NoAccess
      BY <1>3, <1>6, <1>7, <2>1 DEF CalJump
    <3>2. Ended
      BY <1>2, <3>1 DEF Ended, Succeed, NoAccess
    <3>3. Architecture!Succeed(registers', delay)
      BY <1>1, <1>2, <1>8, <3>1, <3>2, StepCharged DEF op
    <3> QED BY <2>1, <3>1, <3>3
  <2>2. CASE ~valid
    <3>1. Fail
      BY <1>7, <2>2 DEF CalJump
    <3>2. Architecture!Stop("EXEC_FAILED", registers, 3, delay)
      BY <1>1, <1>8, <3>1, FailSeen
    <3> QED BY <1>6, <2>2, <3>2
  <2> QED BY <2>1, <2>2
<1>11. /\ SeenInv' /\ Architecture!Running({CAL_MEM, CAL_REG})
       /\ seen'.wram = wram /\ seen'.ram = ram /\ UNCHANGED <<rom, ram_bank_count>>
  <2>1. Ended /\ UNCHANGED <<rom, ram_bank_count, wram, ram>>
    BY <1>2 DEF CalJump, Fail, FailWith, Ended, Succeed, NoAccess, NoWrite, memoryVars
  <2>2. /\ SeenInv' /\ Architecture!Running({CAL_MEM, CAL_REG})
        /\ seen'.wram = wram' /\ seen'.ram = ram'
    BY <1>1, <1>8, <2>1, StepCharged
  <2> QED BY <2>1, <2>2
<1>12. Architecture!Call
  <2>1. /\ Architecture!Pair(Architecture!Fetched, Architecture!REG_PC) = Back
        /\ Architecture!SetPair(Architecture!Fetched, Architecture!REG_SP, Architecture!SP - 2)
             = pushed
        /\ Architecture!SetPair(pushed, Architecture!REG_PC, target)
             = SetPair(pushed, REG_PC, target)
        /\ Architecture!Hi(Back) = Hi(Back) /\ Architecture!Lo(Back) = Lo(Back)
    BY SameRegisters, SameWords DEF Back, pushed
  <2>2. /\ seen'.wram = Architecture!WramAfter(
                          Architecture!WramAfter(seen.wram, Architecture!SP, Hi(Back)),
                          Below, Lo(Back))
        /\ seen'.ram = Architecture!RamAfter(
                          Architecture!RamAfter(seen.ram, Architecture!SP, Hi(Back)),
                          Below, Lo(Back))
    BY <1>9, <1>11, SameMemory
  <2> QED BY <1>10, <1>11, <2>1, <2>2
          DEF Architecture!Call, Below, delay, target, valid, op, code
<1> QED BY <1>11, <1>12 DEF Architecture!Next

\* The low byte of the return address.
LEMMA RetPopLowSeen ==
  ASSUME SingleRead, Inv, SeenInv, Shown, RetPopLow
  PROVE  SeenInv' /\ seen' = seen
<1> DEFINE sp == Architecture!SP
           top == sp + 1
<1>1. /\ Executing({RET}) /\ instr_exec_cycle = 0 /\ Pending
      /\ registers' = Popped /\ UNCHANGED <<rom, ram_bank_count, wram, ram>>
  BY DEF RetPopLow, NoWrite, memoryVars
<1>2. /\ Turn /\ latency_cycles = 0 /\ SeenTyped /\ Architecture!Op = RET
  BY <1>1, Executable
<1>3. registers = Architecture!Fetched /\ Unwritten /\ Paid(Architecture!FetchCost)
      /\ Architecture!FetchCost \in Int
  BY <1>1, Fresh, FetchCostType
<1>4. SP = sp /\ sp \in Int /\ Architecture!Fetched \in [Register -> Byte]
  BY <1>2, <1>3, StackThere DEF SP
<1>5. registers' = SetPair(Architecture!Fetched, REG_SP, top) /\ StackTop = top % 65536
  BY <1>1, <1>3, <1>4 DEF Popped, StackTop
<1>6. top \in Int
  BY <1>4
<1> HIDE DEF top
<1>7. PC' = PC
  BY <1>3, <1>4, <1>5, <1>6, StackKeepsPc DEF PC
<1>8. /\ seen' = seen
      /\ (At({RET}, 1) => ReturnHalfway)' => SeenInv'
  <2>1. /\ seen' = seen /\ instr_exec_cycle' = instr_exec_cycle + 1
        /\ state' = "EXECUTE" /\ selected_opcode' = Architecture!Op
        /\ /\ (At({LDR_MEM}, 1) => LoadPending)'
           /\ (At({RET}, 1) => ReturnHalfway)'
           /\ (At({CAL_MEM, CAL_REG}, 1) => CallHalfway)'
           /\ (At({CAL_MEM, CAL_REG}, 2) => CallPushed)'
           => SeenInv'
    BY <1>1, <1>7, PendingSeen
  <2> QED BY <1>1, <1>2, <2>1 DEF At
<1>9. value_buf' = Architecture!ByteAt(top) /\ Access(top % 65536)
  <2>1. BusRead(top % 65536) = {Architecture!ByteAt(top)}
    BY <1>3, OneReading DEF Unwritten
  <2> QED BY <1>5, <2>1 DEF RetPopLow
<1>10. Due' = (seen.cycles + (Architecture!FetchCost + 1 + Architecture!Delay(top)))
                % CounterMod
  BY <1>2, <1>3, <1>9, AccessPaid
<1>11. /\ (Architecture!SP + 1)' = top /\ Architecture!Fetched' = Architecture!Fetched
       /\ Architecture!FetchCost' = Architecture!FetchCost
       /\ Architecture!ByteAt(Architecture!SP + 1)' = Architecture!ByteAt(top)
       /\ Architecture!Delay(Architecture!SP + 1)' = Architecture!Delay(top)
  <2>1. \A a : Architecture!ByteAt(a)' = Architecture!ByteAt(a)
    BY <1>1, <1>8 DEF Architecture!ByteAt, Architecture!BusRead, Architecture!Cell,
                      Architecture!EramInside, Architecture!EramIndex
  <2>2. Architecture!SP' = Architecture!SP /\ Architecture!Fetched' = Architecture!Fetched
        /\ Architecture!FetchCost' = Architecture!FetchCost
    BY <1>1, <1>8, Ahead
  <2> QED BY <2>1, <2>2 DEF Architecture!Delay, top
<1>12. ReturnHalfway'
  BY <1>1, <1>3, <1>5, <1>8, <1>9, <1>10, <1>11 DEF ReturnHalfway, Unwritten, Paid
<1> QED BY <1>8, <1>12

\* The high byte, and the jump back.
LEMMA RetPopHighSeen ==
  ASSUME SingleRead, Inv, Inv', SeenInv, Shown, RetPopHigh
  PROVE  SeenInv' /\ (Architecture!Next \/ seen' = seen)
<1> DEFINE sp == Architecture!SP
           ready == Architecture!Fetched
           top == sp + 2
           low == Architecture!ByteAt(sp + 1)
           high == Architecture!ByteAt(top)
           popped == SetPair(ready, REG_SP, top)
           after == SetPair(popped, REG_PC, MkWord(low, high))
<1>1. Executing({RET})
  BY DEF RetPopHigh
<1>2. /\ Turn /\ latency_cycles = 0 /\ SeenTyped /\ Architecture!Op = RET
      /\ seen.halt_code = "NONE" /\ state = "EXECUTE" /\ selected_opcode = RET
      /\ instr_exec_cycle < ExecCycles(RET) /\ instr_exec_cycle \in Nat
  BY <1>1, Executable
<1>3. instr_exec_cycle = 1 /\ ExecCycles(Architecture!Op) = 2
  BY <1>2 DEF RetPopHigh, ExecCycles
<1>4. ReturnHalfway
  BY <1>2, <1>3 DEF SeenInv, At
<1>5. sp \in Int
  BY <1>2, StackThere
<1>6. Popped = popped /\ StackTop = top % 65536
  <2>1. /\ SetPair(registers, REG_SP, SP + 1) = SetPair(ready, REG_SP, sp + (1 + 1))
        /\ (SP + 1) % 65536 = (sp + (1 + 1)) % 65536
    BY <1>2, <1>4, StackMoves DEF ReturnHalfway
  <2>2. sp + (1 + 1) = top
    BY <1>5
  <2> QED BY <2>1, <2>2 DEF Popped, StackTop
<1>7. value_buf = low /\ Unwritten
  BY <1>4 DEF ReturnHalfway
<1> HIDE DEF top, low
<1>8. BusRead(top % 65536) = {high}
  BY <1>7, OneReading DEF Unwritten
<1>9. /\ Access(top % 65536) /\ NoWrite /\ Succeed
      /\ registers' = after
  <2>1. /\ \E byte \in BusRead(StackTop) :
             registers' = SetPair(Popped, REG_PC, MkWord(value_buf, byte))
        /\ Access(StackTop) /\ NoWrite /\ Succeed
    BY <1>3 DEF RetPopHigh
  <2> QED BY <1>6, <1>7, <1>8, <2>1
<1> DEFINE delay == Architecture!Delay(sp + 1) + Architecture!Delay(top)
           before == Architecture!FetchCost + 1 + Architecture!Delay(sp + 1)
           n == Architecture!FetchCost + 2 + delay
<1>10. /\ Architecture!Delay(sp + 1) \in Int /\ Architecture!Delay(top) \in Int
       /\ Architecture!FetchCost \in Int
  BY DelayType, FetchCostType
<1>11. before \in Int /\ Paid(before) /\ delay \in Int /\ n \in Int
  BY <1>4, <1>10 DEF ReturnHalfway
<1>12. before + 1 + Architecture!Delay(top) = n
  BY <1>10
<1> HIDE DEF n, before, delay, ready, sp, popped, high, after
<1>13. Due' = (seen.cycles + n) % CounterMod
  <2>1. Due' = (seen.cycles + (before + 1 + Architecture!Delay(top))) % CounterMod
    BY <1>2, <1>9, <1>11, AccessPaid
  <2> QED BY <1>12, <2>1
<1>14. Succeeded(SettledMachine', after, delay)
  <2>1. n = Architecture!FetchCost + ExecCycles(Architecture!Op) + delay
    BY <1>3 DEF n
  <2> QED BY <1>1, <1>9, <1>11, <1>13, <2>1, SuccessSettles
<1>15. NothingStored(SettledMachine') /\ UNCHANGED <<rom, ram_bank_count>>
  BY <1>7, <1>9 DEF NothingStored, NoWrite, memoryVars, Unwritten, SettledMachine, Machine
<1>16. Settled(SettledMachine')
  BY <1>2, <1>14, <1>15
     DEF Settled, RetSettled, after, popped, ready, sp, top, low, high, delay
<1> QED BY <1>9, <1>15, <1>16, Settles DEF Succeed

-----------------------------------------------------------------------------
\* All the steps together.

\* The architecture shows nothing of a step that leaves seen alone.
LEMMA NothingSeen ==
  ASSUME seen' = seen, UNCHANGED <<rom, ram_bank_count>>
  PROVE  UNCHANGED Architecture!vars
  BY DEF Architecture!vars, Architecture!memoryVars

\* A step of nothing.
LEMMA StutterSeen ==
  ASSUME SeenInv, UNCHANGED <<vars, seen>>
  PROVE  SeenInv'
<1>1. /\ seen' = seen /\ UNCHANGED <<rom, ram_bank_count, wram, ram>>
      /\ UNCHANGED <<cycles, latency_cycles, state, halt_code, registers, selected_opcode,
                     opcode_pc, instr_buf, instr_count, value_buf, instr_exec_cycle>>
  BY DEF vars, cpuVars, fetchVars, memoryVars
<1>2. PcDelta' = PcDelta /\ Due' = Due /\ Machine' = Machine
      /\ (BetweenInstructions' <=> BetweenInstructions)
  BY <1>1 DEF PcDelta, PC, Due, Machine, BetweenInstructions
<1>3. SeenTyped' /\ (BetweenInstructions => seen = Machine)'
  BY <1>1, <1>2 DEF SeenInv, SeenTyped
<1>4. (state = "FETCH_OPCODE" /\ latency_cycles # 0 => Settling)'
  <2> SUFFICES ASSUME state = "FETCH_OPCODE", latency_cycles # 0 PROVE Settling'
    BY <1>1
  <2>1. Settled(SettledMachine)
    BY DEF SeenInv, Settling, SettledMachine
  <2>2. SettledMachine = SettledMachine'
    BY <1>2 DEF SettledMachine
  <2> QED BY <1>1, <2>1, <2>2, StillSettling
<1>5. InFlight => InFlight'
  BY <1>1, <1>2, StillFlying
<1>6. Unexecuted => Unexecuted'
  BY <1>1, <1>2, StillUnexecuted
<1>7. /\ Paid(FetchedBytes(1)) => Paid(FetchedBytes(1))'
      /\ Paid(FetchedBytes(PcDelta) + 1) => Paid(FetchedBytes(PcDelta) + 1)'
  <2>1. /\ FetchedBytes(1)' = FetchedBytes(1)
        /\ FetchedBytes(PcDelta)' = FetchedBytes(PcDelta)
    BY <1>1, <1>2, SameFetchedBytes
  <2> QED BY <1>1, <1>2, <2>1 DEF Paid
<1>8. /\ LoadPending => LoadPending'
      /\ ReturnHalfway => ReturnHalfway'
      /\ CallHalfway => CallHalfway'
      /\ CallPushed => CallPushed'
      /\ Paid(Architecture!FetchCost) => Paid(Architecture!FetchCost)'
  BY <1>1, <1>2, Frozen
<1> QED BY <1>1, <1>3, <1>4, <1>5, <1>6, <1>7, <1>8 DEF SeenInv, At

\* Every step of the CPU is a step of the architecture, or shows it nothing.
LEMMA NextSeenKeeps ==
  ASSUME SingleRead, Inv, SeenInv, Shown, Next
  PROVE  SeenInv' /\ (Architecture!Next \/ seen' = seen)
<1>1. Inv'
  BY NextKeepsInv
<1>2. CASE Wait
  BY <1>1, <1>2, WaitSeen
<1>3. CASE FetchOpcode
  BY <1>3, FetchOpcodeSeen
<1>4. CASE Decode
  BY <1>4, DecodeSeen
<1>5. CASE FetchOperand
  BY <1>5, FetchOperandSeen
<1>6. CASE OperandsComplete
  BY <1>6, OperandsCompleteSeen
<1>7. CASE ExecNop \/ ExecMov \/ ExecSwp \/ ExecClr
  BY <1>1, <1>7, TransfersSeen
<1>8. CASE ExecBinary \/ ExecUnary \/ ExecJump
  BY <1>1, <1>8, ComputesSeen
<1>9. CASE ExecHlt \/ ExecInvalid
  BY <1>1, <1>9, HaltsSeen
<1>10. CASE ExecLdrImm
  BY <1>1, <1>10, LdrImmSeen
<1>11. CASE LdrMemRead
  BY <1>11, LdrMemReadSeen
<1>12. CASE LdrMemStore
  BY <1>1, <1>12, LdrMemStoreSeen
<1>13. CASE ExecStr
  BY <1>1, <1>13, StrSeen
<1>14. CASE ExecPsh
  BY <1>1, <1>14, PshSeen
<1>15. CASE ExecPop
  BY <1>1, <1>15, PopSeen
<1>16. CASE CalPushHigh
  BY <1>16, CalPushHighSeen
<1>17. CASE CalPushLow
  BY <1>17, CalPushLowSeen
<1>18. CASE CalJump
  BY <1>1, <1>18, CalJumpSeen
<1>19. CASE RetPopLow
  BY <1>19, RetPopLowSeen
<1>20. CASE RetPopHigh
  BY <1>1, <1>20, RetPopHighSeen
<1> QED BY <1>2, <1>3, <1>4, <1>5, <1>6, <1>7, <1>8, <1>9, <1>10, <1>11, <1>12, <1>13,
           <1>14, <1>15, <1>16, <1>17, <1>18, <1>19, <1>20 DEF Next

\* The cartridge stays what it was loaded as.
LEMMA NextKeepsCartridge ==
  ASSUME Next
  PROVE  UNCHANGED <<rom, ram_bank_count>>
<1>1. CASE Wait
  BY <1>1 DEF Wait, memoryVars
<1>2. CASE FetchOpcode \/ Decode \/ FetchOperand \/ OperandsComplete
  BY <1>2 DEF FetchOpcode, Decode, FetchOperand, OperandsComplete, NoWrite, memoryVars
<1>3. CASE \/ ExecNop \/ ExecMov \/ ExecSwp \/ ExecClr
           \/ ExecBinary \/ ExecUnary \/ ExecJump
           \/ ExecHlt \/ ExecInvalid
           \/ ExecLdrImm \/ LdrMemStore \/ ExecPop \/ RetPopHigh
  BY <1>3, QuietHandlers DEF QuietHandler, NoWrite, memoryVars
<1>4. CASE LdrMemRead \/ RetPopLow
  BY <1>4 DEF LdrMemRead, RetPopLow, NoWrite, memoryVars
<1>5. CASE ExecStr
  BY <1>5 DEF ExecStr, BusWrite, Fail, NoWrite, memoryVars
<1>6. CASE ExecPsh \/ CalPushHigh \/ CalPushLow \/ CalJump
  BY <1>6 DEF ExecPsh, CalPushHigh, CalPushLow, CalJump, StackPush, BusWrite, Fail,
              NoWrite, memoryVars
<1> QED BY <1>1, <1>2, <1>3, <1>4, <1>5, <1>6 DEF Next

\* Power on.
LEMMA InitSeenInv ==
  ASSUME InitSeen
  PROVE  Inv /\ SeenInv /\ Architecture!Init
<1>1. Inv
  BY InitInv DEF InitSeen
<1>2. /\ state = "FETCH_OPCODE" /\ latency_cycles = 0 /\ seen = Machine
      /\ registers = [r \in Register |-> 0] /\ cycles = 0
  BY DEF InitSeen, Init
<1>3. SeenInv
  BY <1>1, <1>2 DEF SeenInv, SeenTyped, Machine, At, Inv, TypeOK
<1>4. Architecture!Init
  <2>1. /\ cycles = 0 /\ halt_code = "NONE" /\ instr_count = 0
        /\ wram = [i \in {} |-> 0] /\ ram = [i \in {} |-> 0]
    BY DEF InitSeen, Init
  <2>2. \E c \in Inserted : rom = c.rom /\ ram_bank_count = c.ram_bank_count
    BY DEF InitSeen, Init, Inserted
  <2> QED BY <1>2, <2>1, <2>2, SameRegisters DEF Architecture!Init, Machine
<1> QED BY <1>1, <1>3, <1>4

\* Every instruction that the CPU completes, in however many clock cycles and
\* pending handlers (cpu.c:8-92, opcodes.c), leaves the registers, memories,
\* halt code and counters that executing it at once leaves (module Isa), for
\* every cartridge, if no load outside an allocation yields now one byte and
\* now another.
THEOREM InstructionsImplemented ==
  ASSUME (\E b : StrayBytes = {b}) \/ (\A c \in Cartridges : c.ram_bank_count = 0)
  PROVE  SpecSeen => ImplementsIsa
<1> DEFINE I == SingleRead /\ Inv /\ SeenInv
<1>1. InitSeen => I /\ Architecture!Init
  <2> SUFFICES ASSUME InitSeen PROVE I /\ Architecture!Init
    OBVIOUS
  <2>1. SingleRead
    BY DEF InitSeen, Init, SingleRead
  <2> QED BY <2>1, InitSeenInv
<1>2. I /\ [NextSeen]_<<vars, seen>> => I' /\ [Architecture!Next]_Architecture!vars
  <2> SUFFICES ASSUME I, [NextSeen]_<<vars, seen>>
               PROVE  I' /\ [Architecture!Next]_Architecture!vars
    OBVIOUS
  <2>1. CASE NextSeen
    <3>1. Next /\ Shown
      BY <2>1 DEF NextSeen, Shown
    <3>2. UNCHANGED <<rom, ram_bank_count>>
      BY <3>1, NextKeepsCartridge
    <3>3. SingleRead'
      BY <3>2 DEF SingleRead
    <3>4. Inv'
      BY <3>1, NextKeepsInv
    <3>5. SeenInv' /\ (Architecture!Next \/ seen' = seen)
      BY <3>1, NextSeenKeeps
    <3>6. seen' = seen => UNCHANGED Architecture!vars
      BY <3>2, NothingSeen
    <3> QED BY <3>3, <3>4, <3>5, <3>6
  <2>2. CASE UNCHANGED <<vars, seen>>
    <3>1. seen' = seen /\ UNCHANGED vars /\ UNCHANGED <<rom, ram_bank_count>>
      BY <2>2 DEF vars, memoryVars
    <3>2. SingleRead'
      BY <3>1 DEF SingleRead
    <3>3. Inv'
      BY <3>1, NextKeepsInv
    <3>4. SeenInv'
      BY <2>2, StutterSeen
    <3>5. UNCHANGED Architecture!vars
      BY <3>1, NothingSeen
    <3> QED BY <3>2, <3>3, <3>4, <3>5
  <2> QED BY <2>1, <2>2
<1> HIDE DEF I
<1> QED BY <1>1, <1>2, PTL DEF SpecSeen, ImplementsIsa, Architecture!Spec
=============================================================================
