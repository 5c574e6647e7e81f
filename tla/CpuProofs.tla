----------------------------- MODULE CpuProofs -----------------------------
(***************************************************************************)
(* What the CPU model promises for every cartridge, every number of cycles *)
(* and every width of the cycle counters: the invariants of module Cpu, as *)
(* theorems.  They hold together (Inv below) and are proved together: the  *)
(* window of fetched bytes keeps operands in the buffer, the bound on the  *)
(* execute cycle keeps handlers out of their default branches, and both    *)
(* are needed for the halt codes to be true.  The last part adds the       *)
(* record of the calls under way (module CallFrames), whose return         *)
(* addresses stay in memory until their RET takes them.                    *)
(***************************************************************************)
EXTENDS CallFrames, TLAPS

-----------------------------------------------------------------------------
\* Bytes, words, the ALU and the effects of instructions: every result is a
\* byte, every register file stays one, and a word survives being split over
\* a pair of registers.

\* What a word is, in terms the provers compute with.
LEMMA WordBounds ==
  /\ \A w \in Word : w \in Int /\ 0 <= w /\ w <= 65535
  /\ \A w \in Int : 0 <= w /\ w <= 65535 => w \in Word
<1>1. \A w \in Word : w \in Int /\ 0 <= w /\ w <= UINT16_MAX
  BY DEF Word
<1>2. \A w \in Int : 0 <= w /\ w <= UINT16_MAX => w \in Word
  BY DEF Word
<1> QED BY <1>1, <1>2 DEF UINT16_MAX

\* Truncation to a byte or a word (the casts to uint8_t and uint16_t).
LEMMA Truncate ==
  ASSUME NEW n \in Int
  PROVE  n % 256 \in Byte /\ n % 65536 \in Word
<1>1. n % 256 \in Byte
  BY DEF Byte
<1>2. n % 65536 \in Int /\ 0 <= n % 65536 /\ n % 65536 <= 65535
  OBVIOUS
<1> QED BY <1>1, <1>2, WordBounds

\* The words around a word.
LEMMA WordAround ==
  ASSUME NEW w \in Word
  PROVE  /\ w \in Int /\ w + 1 \in Int /\ w - 1 \in Int
         /\ (w + 1) % 65536 \in Word
<1>1. w \in Int
  BY WordBounds
<1>2. w + 1 \in Int /\ w - 1 \in Int
  BY <1>1
<1> QED BY <1>1, <1>2, Truncate

\* A word is the low byte and 256 times the high byte, and both are bytes:
\* what km8_cpu_set_pc stores, km8_cpu_get_pc reads back.
LEMMA SplitWord ==
  ASSUME NEW w \in Word
  PROVE  /\ Lo(w) \in Byte /\ Hi(w) \in Byte
         /\ MkWord(Lo(w), Hi(w)) = w
<1> w \in Int /\ 0 <= w /\ w <= 65535
  BY WordBounds
<1> DEFINE q == w \div 256
           r == w % 256
<1>1. w = r + 256 * q
  OBVIOUS
<1>2. r \in Int /\ 0 <= r /\ r <= 255
  OBVIOUS
<1>3. q \in Int
  OBVIOUS
<1>4. 0 <= q /\ q <= 255
  <2> HIDE DEF q, r
  <2> QED BY <1>1, <1>2, <1>3
<1>5. Lo(w) = r /\ Hi(w) = q
  BY DEF Lo, Hi
<1> HIDE DEF q, r
<1> QED BY <1>1, <1>2, <1>3, <1>4, <1>5 DEF Byte, MkWord

\* Two bytes make a word.
LEMMA JoinBytes ==
  ASSUME NEW lo \in Byte, NEW hi \in Byte
  PROVE  MkWord(lo, hi) \in Word
<1> lo \in Int /\ 0 <= lo /\ lo <= 255 /\ hi \in Int /\ 0 <= hi /\ hi <= 255
  BY DEF Byte
<1>1. MkWord(lo, hi) \in Int /\ 0 <= MkWord(lo, hi) /\ MkWord(lo, hi) <= 65535
  BY DEF MkWord
<1> QED BY <1>1, WordBounds

-----------------------------------------------------------------------------
\* An outcome that can be stored in registers.
ByteOutcome(out) == out.value \in Byte /\ out.flags \in Byte

\* The four flags together fit the flags register.
LEMMA FlagsSum ==
  ASSUME NEW c \in {0, FLAG_C}, NEW z \in {0, FLAG_Z},
         NEW n \in {0, FLAG_N}, NEW v \in {0, FLAG_V}
  PROVE  c + z + n + v \in Byte
  BY DEF FLAG_C, FLAG_Z, FLAG_N, FLAG_V, Byte

LEMMA FlagType ==
  ASSUME NEW bit, NEW set
  PROVE  Flag(bit, set) \in {0, bit}
  BY DEF Flag

\* The outcome of an operation that can carry and overflow ...
LEMMA OutcomeType ==
  ASSUME NEW result \in Byte, NEW carry, NEW overflow
  PROVE  ByteOutcome(Outcome(result, carry, overflow))
<1>1. Flag(FLAG_C, carry) \in {0, FLAG_C} /\ Flag(FLAG_V, overflow) \in {0, FLAG_V}
  BY FlagType
<1>2. Flag(FLAG_Z, result = 0) \in {0, FLAG_Z}
  BY DEF Flag
<1>3. Flag(FLAG_N, Negative(result)) \in {0, FLAG_N}
  BY DEF Flag
<1> QED BY <1>1, <1>2, <1>3, FlagsSum DEF Outcome, ByteOutcome

\* ... of a shift, which can only carry ...
LEMMA ShiftType ==
  ASSUME NEW result \in Byte, NEW carry
  PROVE  ByteOutcome(Outcome(result, carry, FALSE))
<1>1. Flag(FLAG_C, carry) \in {0, FLAG_C}
  BY FlagType
<1>2. Flag(FLAG_Z, result = 0) \in {0, FLAG_Z} /\ Flag(FLAG_V, FALSE) \in {0, FLAG_V}
  BY DEF Flag
<1>3. Flag(FLAG_N, Negative(result)) \in {0, FLAG_N}
  BY DEF Flag
<1> QED BY <1>1, <1>2, <1>3, FlagsSum DEF Outcome, ByteOutcome

\* ... and of a logical operation, which can do neither.
LEMMA LogicalType ==
  ASSUME NEW result \in Byte
  PROVE  ByteOutcome(Logical(result))
<1>1. Flag(FLAG_C, FALSE) \in {0, FLAG_C} /\ Flag(FLAG_V, FALSE) \in {0, FLAG_V}
  BY DEF Flag
<1>2. Flag(FLAG_Z, result = 0) \in {0, FLAG_Z}
  BY DEF Flag
<1>3. Flag(FLAG_N, Negative(result)) \in {0, FLAG_N}
  BY DEF Flag
<1> QED BY <1>1, <1>2, <1>3, FlagsSum DEF Logical, Outcome, ByteOutcome

\* A set of bits makes a byte.
LEMMA FromBitsType ==
  ASSUME NEW B
  PROVE  FromBits(B) \in Byte
<1> DEFINE b1 == Bit(B, 1)
           b2 == Bit(B, 2)
           b4 == Bit(B, 4)
           b8 == Bit(B, 8)
           b16 == Bit(B, 16)
           b32 == Bit(B, 32)
           b64 == Bit(B, 64)
           b128 == Bit(B, 128)
<1>1. /\ b1 \in Int /\ 0 <= b1 /\ b1 <= 1
      /\ b2 \in Int /\ 0 <= b2 /\ b2 <= 2
      /\ b4 \in Int /\ 0 <= b4 /\ b4 <= 4
      /\ b8 \in Int /\ 0 <= b8 /\ b8 <= 8
      /\ b16 \in Int /\ 0 <= b16 /\ b16 <= 16
      /\ b32 \in Int /\ 0 <= b32 /\ b32 <= 32
      /\ b64 \in Int /\ 0 <= b64 /\ b64 <= 64
      /\ b128 \in Int /\ 0 <= b128 /\ b128 <= 128
  BY DEF Bit
<1>2. FromBits(B) = b1 + b2 + b4 + b8 + b16 + b32 + b64 + b128
  BY DEF FromBits
<1> HIDE DEF b1, b2, b4, b8, b16, b32, b64, b128
<1> QED BY <1>1, <1>2 DEF Byte

\* Every two-operand operation of the ALU yields bytes (alu.c).
LEMMA BinaryType ==
  ASSUME NEW op, NEW a \in Byte, NEW b \in Byte, NEW cin \in {0, 1}
  PROVE  ByteOutcome(Binary(op, a, b, cin))
<1> a \in Int /\ b \in Int /\ cin \in Int
  BY DEF Byte
<1>1. ByteOutcome(Add(a, b))
  <2>1. (a + b) % 256 \in Byte
    BY Truncate
  <2> QED BY <2>1, OutcomeType DEF Add
<1>2. ByteOutcome(Adc(a, b, cin))
  <2>1. (a + b + cin) % 256 \in Byte
    BY Truncate
  <2> QED BY <2>1, OutcomeType DEF Adc
<1>3. ByteOutcome(Sub(a, b))
  <2>1. (a - b) % 256 \in Byte
    BY Truncate
  <2> QED BY <2>1, OutcomeType DEF Sub
<1>4. ByteOutcome(Sbc(a, b, cin))
  <2>1. (a - (b + cin)) % 256 \in Byte
    BY Truncate
  <2> QED BY <2>1, OutcomeType DEF Sbc
<1>5. ByteOutcome(And(a, b)) /\ ByteOutcome(Or(a, b)) /\ ByteOutcome(Xor(a, b))
  BY FromBitsType, LogicalType DEF And, Or, Xor
<1> QED BY <1>1, <1>2, <1>3, <1>4, <1>5 DEF Binary

\* Half a byte rounded down, and the bit that is dropped.
LEMMA HalfByte ==
  ASSUME NEW a \in Byte
  PROVE  /\ a \div 2 \in Int /\ 0 <= a \div 2 /\ a \div 2 <= 127
         /\ a % 2 \in {0, 1}
         /\ a \div 128 \in Int /\ 0 <= a \div 128 /\ a \div 128 <= 1
         /\ (2 * a) % 256 = 2 * a - 256 * (a \div 128)
<1> a \in Int /\ 0 <= a /\ a <= 255
  BY DEF Byte
<1> DEFINE h == a \div 2
           l == a % 2
           t == a \div 128
           s == a % 128
<1>1. a = l + 2 * h /\ a = s + 128 * t
  OBVIOUS
<1>2. /\ l \in Int /\ 0 <= l /\ l <= 1 /\ h \in Int
      /\ s \in Int /\ 0 <= s /\ s <= 127 /\ t \in Int
  OBVIOUS
<1>3. 0 <= h /\ h <= 127 /\ 0 <= t /\ t <= 1 /\ l \in {0, 1}
  <2> HIDE DEF h, l, t, s
  <2> QED BY <1>1, <1>2
<1>4. (2 * a) % 256 = 2 * a - 256 * t
  <2> DEFINE d == (2 * a) \div 256
             m == (2 * a) % 256
  <2>1. 2 * a = m + 256 * d /\ m \in Int /\ 0 <= m /\ m <= 255 /\ d \in Int
    OBVIOUS
  <2> HIDE DEF h, l, t, s, d, m
  <2>2. d = t
    BY <2>1, <1>1, <1>2, <1>3
  <2>3. m = 2 * a - 256 * t
    BY <2>1, <2>2
  <2> QED BY <2>3 DEF m
<1> QED BY <1>2, <1>3, <1>4

\* So does every one-operand operation (opcodes.c:296-376).
LEMMA UnaryType ==
  ASSUME NEW op, NEW a \in Byte
  PROVE  ByteOutcome(Unary(op, a))
<1> a \in Int /\ 0 <= a /\ a <= 255
  BY DEF Byte
<1>1. ByteOutcome(Not(a))
  <2>1. 255 - a \in Byte
    BY DEF Byte
  <2> QED BY <2>1, LogicalType DEF Not
<1>2. ByteOutcome(Shl(a))
  <2>1. (2 * a) % 256 \in Int /\ 0 <= (2 * a) % 256 /\ (2 * a) % 256 <= 255
    OBVIOUS
  <2>2. (2 * a) % 256 \in Byte
    BY <2>1 DEF Byte
  <2> QED BY <2>2, ShiftType DEF Shl
<1>3. ByteOutcome(Shr(a))
  <2>1. a \div 2 \in Byte
    BY HalfByte DEF Byte
  <2> QED BY <2>1, ShiftType DEF Shr
<1>4. ByteOutcome(Rol(a))
  <2> DEFINE t == a \div 128
             m == (2 * a) % 256
  <2>1. m = 2 * a - 256 * t /\ t \in Int /\ 0 <= t /\ t <= 1
    BY HalfByte
  <2>2. m \in Int /\ 0 <= m /\ m <= 255
    OBVIOUS
  <2>3. m + t \in Byte
    <3> HIDE DEF m, t
    <3> QED BY <2>1, <2>2 DEF Byte
  <2> QED BY <2>3, ShiftType DEF Rol
<1>5. ByteOutcome(Ror(a))
  <2> DEFINE h == a \div 2
             l == a % 2
  <2>1. h \in Int /\ 0 <= h /\ h <= 127 /\ l \in {0, 1}
    BY HalfByte
  <2>2. h + 128 * l \in Byte
    <3> HIDE DEF h, l
    <3> QED BY <2>1 DEF Byte
  <2> QED BY <2>2, ShiftType DEF Ror
<1> QED BY <1>1, <1>2, <1>3, <1>4, <1>5 DEF Unary

-----------------------------------------------------------------------------
\* The effects of instructions keep the register file one of bytes, for any
\* instruction bytes whose register operands were found valid.

RegisterFile == [Register -> Byte]

LEMMA SetFlagsType ==
  ASSUME NEW regs \in RegisterFile, NEW flags \in Byte
  PROVE  SetFlags(regs, flags) \in RegisterFile
  BY DEF SetFlags, RegisterFile

LEMMA SecondOperandType ==
  ASSUME NEW op, NEW buf \in [0..7 -> Byte], NEW regs \in RegisterFile,
         op \in RegisterForms => buf[2] \in Register
  PROVE  SecondOperand(op, buf, regs) \in Byte
<1>1. CASE op \in RegisterForms
  BY <1>1 DEF SecondOperand, RegisterFile
<1>2. CASE op \notin RegisterForms
  <2>1. buf[2] \in Byte /\ 1 \in Byte
    BY DEF Byte
  <2> QED BY <1>2, <2>1 DEF SecondOperand
<1> QED BY <1>1, <1>2

LEMMA AfterBinaryType ==
  ASSUME NEW op, NEW buf \in [0..7 -> Byte], NEW regs \in RegisterFile,
         ValidRegisters(op, buf)
  PROVE  AfterBinary(op, buf, regs) \in RegisterFile
<1> DEFINE cin == IF FlagSet(regs, FLAG_C) THEN 1 ELSE 0
           a == regs[buf[1]]
           b == SecondOperand(op, buf, regs)
           out == Binary(op, a, b, cin)
           flagged == SetFlags(regs, out.flags)
<1>1. cin \in {0, 1}
  OBVIOUS
<1>2. a \in Byte /\ b \in Byte
  BY SecondOperandType DEF ValidRegisters, TwoRegisterOps, RegisterFile
<1>3. AfterBinary(op, buf, regs) = IF op \in CMP \cup TST THEN flagged
                                   ELSE [flagged EXCEPT ![buf[1]] = out.value]
  BY DEF AfterBinary
<1> HIDE DEF cin, a, b
<1>4. out.value \in Byte /\ out.flags \in Byte
  BY <1>1, <1>2, BinaryType DEF ByteOutcome
<1> HIDE DEF out
<1>5. flagged \in RegisterFile
  BY <1>4, SetFlagsType
<1> HIDE DEF flagged
<1> QED BY <1>3, <1>4, <1>5 DEF RegisterFile

LEMMA AfterUnaryType ==
  ASSUME NEW op, NEW buf \in [0..7 -> Byte], NEW regs \in RegisterFile,
         ValidRegisters(op, buf)
  PROVE  AfterUnary(op, buf, regs) \in RegisterFile
<1> DEFINE out == Unary(op, regs[buf[1]])
<1>1. regs[buf[1]] \in Byte
  BY DEF ValidRegisters, RegisterFile
<1>2. out.value \in Byte /\ out.flags \in Byte
  BY <1>1, UnaryType DEF ByteOutcome
<1>3. AfterUnary(op, buf, regs) = SetFlags([regs EXCEPT ![buf[1]] = out.value], out.flags)
  BY DEF AfterUnary
<1> HIDE DEF out
<1>4. [regs EXCEPT ![buf[1]] = out.value] \in RegisterFile
  BY <1>2 DEF RegisterFile
<1> QED BY <1>2, <1>3, <1>4, SetFlagsType

LEMMA AfterTransferType ==
  ASSUME NEW buf \in [0..7 -> Byte], NEW regs \in RegisterFile
  PROVE  /\ ValidRegisters(CLR, buf) => AfterClr(buf, regs) \in RegisterFile
         /\ ValidRegisters(MOV, buf) => AfterMov(buf, regs) \in RegisterFile
         /\ ValidRegisters(SWP, buf) => AfterSwp(buf, regs) \in RegisterFile
<1>1. 0 \in Byte /\ FLAG_Z \in Byte
  BY DEF Byte, FLAG_Z
<1>2. [regs EXCEPT ![buf[1]] = 0] \in RegisterFile
  BY <1>1 DEF RegisterFile
<1>3. AfterClr(buf, regs) \in RegisterFile
  BY <1>1, <1>2, SetFlagsType DEF AfterClr
<1>4. ASSUME ValidRegisters(MOV, buf) PROVE AfterMov(buf, regs) \in RegisterFile
  BY <1>4 DEF ValidRegisters, TwoRegisterOps, AfterMov, RegisterFile
<1>5. ASSUME ValidRegisters(SWP, buf) PROVE AfterSwp(buf, regs) \in RegisterFile
  BY <1>5 DEF ValidRegisters, TwoRegisterOps, AfterSwp, RegisterFile
<1> QED BY <1>3, <1>4, <1>5

-----------------------------------------------------------------------------
\* Registers.

\* n mod m, for a counter that wraps at m.
LEMMA Wraps ==
  ASSUME NEW n \in Int, NEW m \in Nat \ {0}
  PROVE  n % m \in Nat /\ n % m < m
  OBVIOUS

\* Storing a word in a register pair keeps the register file, leaves the
\* other registers alone, and the word can be read back.
LEMMA SetPairType ==
  ASSUME NEW regs \in [Register -> Byte], NEW r \in 0..10, NEW n \in Int
  PROVE  /\ SetPair(regs, r, n) \in [Register -> Byte]
         /\ Pair(SetPair(regs, r, n), r) = n % 65536
         /\ \A s \in Register \ {r, r + 1} : SetPair(regs, r, n)[s] = regs[s]
<1> DEFINE word == n % 65536
<1>1. word \in Word
  BY Truncate
<1>2. Lo(word) \in Byte /\ Hi(word) \in Byte /\ MkWord(Lo(word), Hi(word)) = word
  BY <1>1, SplitWord
<1>3. SetPair(regs, r, n) = [regs EXCEPT ![r] = Lo(word), ![r + 1] = Hi(word)]
  BY DEF SetPair
<1> HIDE DEF word
<1>4. r \in Register /\ r + 1 \in Register /\ r # r + 1
  BY DEF Register
<1>5. /\ SetPair(regs, r, n)[r] = Lo(word)
      /\ SetPair(regs, r, n)[r + 1] = Hi(word)
  BY <1>3, <1>4
<1>6. Pair(SetPair(regs, r, n), r) = word
  BY <1>2, <1>5 DEF Pair
<1> QED BY <1>2, <1>3, <1>4, <1>6 DEF word

\* The same without what is stored, for the provers to use more easily.
LEMMA SetPairKeeps ==
  ASSUME NEW regs \in [Register -> Byte], NEW r \in 0..10, NEW n \in Int
  PROVE  /\ SetPair(regs, r, n) \in [Register -> Byte]
         /\ \A s \in Register \ {r, r + 1} : SetPair(regs, r, n)[s] = regs[s]
<1> DEFINE word == n % 65536
<1>1. SetPair(regs, r, n) = [regs EXCEPT ![r] = Lo(word), ![r + 1] = Hi(word)]
  BY DEF SetPair
<1>2. word \in Word
  BY Truncate
<1> HIDE DEF word
<1>3. Lo(word) \in Byte /\ Hi(word) \in Byte
  BY <1>2, SplitWord
<1>4. r \in Register /\ r + 1 \in Register /\ r # r + 1
  BY DEF Register
<1> QED BY <1>1, <1>3, <1>4

LEMMA SetPcType ==
  ASSUME NEW regs \in [Register -> Byte], NEW word \in Word
  PROVE  SetPair(regs, REG_PC, word) \in [Register -> Byte]
<1>1. word \in Int
  BY WordAround
<1> QED BY <1>1, SetPairType DEF REG_PC

LEMMA PairType ==
  ASSUME NEW regs \in [Register -> Byte], NEW r \in 0..10
  PROVE  Pair(regs, r) \in Word
<1>1. regs[r] \in Byte /\ regs[r + 1] \in Byte
  BY DEF Register
<1> QED BY <1>1, JoinBytes DEF Pair

\* Moving SP leaves PC alone.
LEMMA StackKeepsPc ==
  ASSUME NEW regs \in [Register -> Byte], NEW n \in Int
  PROVE  Pair(SetPair(regs, REG_SP, n), REG_PC) = Pair(regs, REG_PC)
<1> DEFINE after == SetPair(regs, REG_SP, n)
<1>1. \A s \in Register \ {7, 7 + 1} : after[s] = regs[s]
  BY SetPairType DEF REG_SP
<1> HIDE DEF after
<1>2. after[9] = regs[9] /\ after[9 + 1] = regs[9 + 1]
  BY <1>1 DEF Register
<1> QED BY <1>2 DEF Pair, REG_PC, after

-----------------------------------------------------------------------------
\* Memories.

MemoryType ==
  /\ IsMemory(wram, WRAM_SIZE)
  /\ IsMemory(ram, ERAM_BANK_SIZE * ram_bank_count)
  /\ \A i \in DOMAIN rom : i \in Nat /\ rom[i] \in Byte
  /\ ram_bank_count \in RamBankCounts

LEMMA CellType ==
  ASSUME NEW memory, NEW index,
         \A i \in DOMAIN memory : memory[i] \in Byte
  PROVE  Cell(memory, index) \in Byte
  BY DEF Cell, Byte

\* A write inside a memory leaves a memory of the same size.
LEMMA StoredType ==
  ASSUME NEW memory, NEW size, NEW index \in 0..(size - 1), NEW value \in Byte,
         IsMemory(memory, size)
  PROVE  IsMemory(Stored(memory, index, value), size)
  BY DEF IsMemory, Stored

LEMMA BiosByteType ==
  ASSUME NEW addr \in Int
  PROVE  BiosByte(addr) \in Byte
<1>1. DOMAIN Bios = 1..9
  BY DEF Bios
<1>2. CASE addr + 1 \in 1..9
  <2>1. addr + 1 \in {1, 2, 3, 4, 5, 6, 7, 8, 9}
    BY <1>2
  <2>2. Bios[addr + 1] \in Byte
    BY <2>1 DEF Bios, Byte
  <2> QED BY <2>2, <1>1, <1>2 DEF BiosByte
<1>3. CASE addr + 1 \notin 1..9
  BY <1>1, <1>3 DEF BiosByte, Byte
<1> QED BY <1>2, <1>3

\* km8_bus_read returns bytes, whatever the address.
LEMMA BusReadType ==
  ASSUME NEW addr \in Word, MemoryType
  PROVE  BusRead(addr) \subseteq Byte
<1>1. addr \in Int /\ BiosByte(addr) \in Byte
  BY BiosByteType, WordBounds
<1>2. Cell(rom, RomIndex(addr)) \in Byte
  BY CellType DEF MemoryType
<1>3. Cell(wram, WramIndex(addr)) \in Byte
  BY CellType DEF MemoryType, IsMemory
<1>4. Cell(ram, EramIndex(addr)) \in Byte
  BY CellType DEF MemoryType, IsMemory
<1>5. 0 \in Byte
  BY DEF Byte
<1> QED BY <1>1, <1>2, <1>3, <1>4, <1>5, StrayAssumption DEF BusRead

\* km8_bus_write keeps every memory inside its allocation: this is what the
\* offset computation of wram.c and the stray case of ram.c amount to.
LEMMA BusWriteType ==
  ASSUME NEW addr \in Word, NEW value \in Byte, MemoryType, BusWrite(addr, value)
  PROVE  MemoryType'
<1>1. IsMemory(wram', WRAM_SIZE)
  <2>1. CASE addr \in WRAM
    <3>1. WramIndex(addr) \in 0..(WRAM_SIZE - 1)
      BY <2>1 DEF WramIndex, WRAM_SIZE, WRAM, WRAM0, WRAMN
    <3> QED BY <2>1, <3>1, StoredType DEF BusWrite, WramAfter, MemoryType
  <2>2. CASE addr \notin WRAM
    BY <2>2 DEF BusWrite, WramAfter, MemoryType
  <2> QED BY <2>1, <2>2
<1>2. IsMemory(ram', ERAM_BANK_SIZE * ram_bank_count)
  <2>1. CASE addr \in ERAM /\ ram_bank_count > 0 /\ EramInside(addr)
    BY <2>1, StoredType DEF BusWrite, RamAfter, EramInside, MemoryType
  <2>2. CASE ~(addr \in ERAM /\ ram_bank_count > 0 /\ EramInside(addr))
    BY <2>2 DEF BusWrite, RamAfter, MemoryType
  <2> QED BY <2>1, <2>2
<1> QED BY <1>1, <1>2 DEF BusWrite, MemoryType

LEMMA LatencyType ==
  ASSUME NEW addr
  PROVE  Latency(addr) \in 0..8
  BY DEF Latency

\* After an access the counter holds the latency of one device.
LEMMA AccessEffect ==
  ASSUME NEW addr, latency_cycles = 0, Access(addr)
  PROVE  latency_cycles' \in 0..8 /\ crashed' \in BOOLEAN
<1>1. Latency(addr) \in 0..8
  BY LatencyType
<1>2. latency_cycles' = Latency(addr)
  BY <1>1 DEF Access
<1>3. crashed' \in BOOLEAN
  BY DEF Access, MayCrash
<1> QED BY <1>1, <1>2, <1>3

-----------------------------------------------------------------------------
\* The inductive invariant, and what every step of the CPU shares.

Inv ==
  /\ TypeOK
  /\ FetchWindow
  /\ ExecCycleBound
  /\ LatencyBound
  /\ HaltReason

\* The variables outside the control of an instruction, after a step.
DataType ==
  /\ cycles \in Nat /\ cycles < CounterMod
  /\ registers \in [Register -> Byte]
  /\ value_buf \in Byte
  /\ latency_cycles \in 0..8
  /\ MemoryType
  /\ crashed \in BOOLEAN

LEMMA InvMemory ==
  ASSUME Inv
  PROVE  MemoryType
  BY DEF Inv, TypeOK, MemoryType

LEMMA TurnType ==
  ASSUME Inv, Turn
  PROVE  cycles' \in Nat /\ cycles' < CounterMod /\ ~crashed
<1>1. cycles \in Int /\ CounterMod \in Nat \ {0}
  BY CpuAssumption DEF Inv, TypeOK
<1>2. cycles + 1 \in Int
  BY <1>1
<1> QED BY <1>1, <1>2, Wraps DEF Turn

LEMMA PcSpType ==
  ASSUME Inv
  PROVE  PC \in Word /\ SP \in Word
<1>1. REG_PC \in 0..10 /\ REG_SP \in 0..10
  BY DEF REG_PC, REG_SP
<1> QED BY <1>1, PairType DEF Inv, TypeOK, PC, SP

LEMMA AddressType ==
  ASSUME Inv, NEW i \in 0..6
  PROVE  Address(instr_buf, i) \in Word
<1>1. instr_buf[i] \in Byte /\ instr_buf[i + 1] \in Byte
  BY DEF Inv, TypeOK, INSTR_BUF_SIZE
<1> QED BY <1>1, JoinBytes DEF Address

LEMMA StackTopType ==
  ASSUME Inv
  PROVE  StackTop \in Word
<1>1. SP \in Word
  BY PcSpType
<1> QED BY <1>1, WordAround DEF StackTop

\* A turn without an access leaves the memories and the latency alone.
LEMMA QuietStep ==
  ASSUME Inv, NEW s, Ready(s), NoAccess, NoWrite,
         registers' \in [Register -> Byte], value_buf' \in Byte
  PROVE  DataType' /\ latency_cycles' = 0
<1>1. MemoryType'
  BY InvMemory DEF NoWrite, memoryVars, MemoryType
<1>2. latency_cycles' = 0 /\ crashed' \in BOOLEAN /\ ~crashed'
  BY DEF NoAccess, Ready, Turn, Inv, TypeOK
<1>3. cycles' \in Nat /\ cycles' < CounterMod
  BY TurnType DEF Ready
<1> QED BY <1>1, <1>2, <1>3 DEF DataType

\* A turn that reads from the bus.
LEMMA ReadStep ==
  ASSUME Inv, NEW s, NEW addr, Ready(s), Access(addr), NoWrite,
         registers' \in [Register -> Byte], value_buf' \in Byte
  PROVE  DataType'
<1>1. MemoryType'
  BY InvMemory DEF NoWrite, memoryVars, MemoryType
<1>2. latency_cycles' \in 0..8 /\ crashed' \in BOOLEAN
  BY AccessEffect DEF Ready
<1>3. cycles' \in Nat /\ cycles' < CounterMod
  BY TurnType DEF Ready
<1> QED BY <1>1, <1>2, <1>3 DEF DataType

\* A turn that writes to the bus.
LEMMA WriteStep ==
  ASSUME Inv, NEW s, NEW addr \in Word, NEW value \in Byte,
         Ready(s), Access(addr), BusWrite(addr, value),
         registers' \in [Register -> Byte], value_buf' \in Byte
  PROVE  DataType'
<1>1. MemoryType'
  BY InvMemory, BusWriteType DEF BusWrite
<1>2. latency_cycles' \in 0..8 /\ crashed' \in BOOLEAN
  BY AccessEffect DEF Ready
<1>3. cycles' \in Nat /\ cycles' < CounterMod
  BY TurnType DEF Ready
<1> QED BY <1>1, <1>2, <1>3 DEF DataType

-----------------------------------------------------------------------------
(***************************************************************************)
(* A handler, whichever it is: it leaves the fetched instruction alone and *)
(* succeeds, or stays pending with PC where it was and a case left for the *)
(* next cycle, or fails for a reason that is true and without an access.   *)
(***************************************************************************)
TrueReason(code) ==
  \/ code = "MANUAL" /\ selected_opcode = HLT
  \/ code = "INVALID_OPCODE" /\ selected_opcode \notin Assigned
  \/ code = "EXEC_FAILED" /\ selected_opcode \in Assigned /\ BadOperand

StaysPending ==
  /\ Pending
  /\ PC' = PC
  /\ instr_exec_cycle + 1 < ExecCycles(selected_opcode)

FailsTruly ==
  /\ latency_cycles' = 0
  /\ \E code : FailWith(code) /\ TrueReason(code)

HandlerStep ==
  /\ state = "EXECUTE"
  /\ UNCHANGED fetchVars
  /\ DataType'
  /\ Succeed \/ StaysPending \/ FailsTruly

\* The common failure: an assigned opcode with a bad operand.
LEMMA FailStep ==
  ASSUME Inv, NEW ops, Executing(ops), Fail,
         selected_opcode \in Assigned, BadOperand
  PROVE  HandlerStep
<1>1. DataType' /\ latency_cycles' = 0
  BY QuietStep DEF Executing, Fail, Inv, TypeOK
<1>2. halt_code = "NONE" /\ state = "EXECUTE"
  BY DEF Executing, Ready, Inv, HaltReason
<1>3. FailWith("EXEC_FAILED") /\ TrueReason("EXEC_FAILED")
  BY <1>2 DEF Fail, TrueReason
<1>4. FailsTruly
  BY <1>1, <1>3 DEF FailsTruly
<1> QED BY <1>1, <1>2, <1>4 DEF HandlerStep, Executing

\* A handler of registers only.
LEMMA RegistersStep ==
  ASSUME Inv, NEW ops, NEW valid \in BOOLEAN, NEW after, ExecRegisters(ops, valid, after),
         ops \subseteq Assigned,
         valid => after \in [Register -> Byte],
         ~valid => BadOperand
  PROVE  HandlerStep
<1>0. Executing(ops) /\ selected_opcode \in Assigned
  BY DEF ExecRegisters, Executing
<1>1. CASE valid
  <2>1. registers' = after /\ Succeed /\ UNCHANGED value_buf /\ NoAccess /\ NoWrite
    BY <1>1 DEF ExecRegisters
  <2>2. DataType'
    BY <1>0, <1>1, <2>1, QuietStep DEF Executing, Inv, TypeOK
  <2> QED BY <1>0, <2>1, <2>2 DEF HandlerStep, Executing, Ready
<1>2. CASE ~valid
  <2>1. Fail
    BY <1>2 DEF ExecRegisters
  <2> QED BY <1>0, <1>2, <2>1, FailStep
<1> QED BY <1>1, <1>2

\* A handler that stops the CPU on purpose.
LEMMA StopStep ==
  ASSUME Inv, NEW ops, NEW code, Executing(ops), FailWith(code),
         UNCHANGED <<registers, value_buf>>, NoAccess, NoWrite, TrueReason(code)
  PROVE  HandlerStep
<1>1. DataType' /\ latency_cycles' = 0
  BY QuietStep DEF Executing, Inv, TypeOK
<1>2. FailsTruly
  BY <1>1 DEF FailsTruly
<1> QED BY <1>1, <1>2 DEF HandlerStep, Executing, Ready

\* The register file and the instruction bytes as the lemmas on instructions
\* want them.
LEMMA OperandTypes ==
  ASSUME Inv
  PROVE  /\ registers \in RegisterFile /\ instr_buf \in [0..7 -> Byte]
         /\ instr_buf[1] \in Byte /\ instr_buf[2] \in Byte
  BY DEF Inv, TypeOK, RegisterFile, INSTR_BUF_SIZE

LEMMA JumpType ==
  ASSUME NEW op, NEW buf \in [0..7 -> Byte], NEW regs \in RegisterFile,
         ValidJump(op, buf, regs)
  PROVE  AfterJump(op, buf, regs) \in RegisterFile
<1>1. CASE Taken(op, regs)
  <2>1. Target(op, buf, regs) \in Word
    <3>1. CASE op \in MemoryJumps
      <4>1. buf[1] \in Byte /\ buf[2] \in Byte
        OBVIOUS
      <4> QED BY <3>1, <4>1, JoinBytes DEF Target, Address
    <3>2. CASE op \notin MemoryJumps
      <4>1. buf[1] \in 0..10
        BY <1>1, <3>2 DEF ValidJump, ValidPair, Register
      <4>2. Pair(regs, buf[1]) \in Word
        BY <4>1, PairType DEF RegisterFile
      <4>3. Address(buf, 1) \in Word
        <5>1. buf[1] \in Byte /\ buf[2] \in Byte
          OBVIOUS
        <5> QED BY <5>1, JoinBytes DEF Address
      <4> QED BY <4>2, <4>3 DEF Target
    <3> QED BY <3>1, <3>2
  <2> QED BY <1>1, <2>1, SetPcType DEF AfterJump, RegisterFile
<1>2. CASE ~Taken(op, regs)
  BY <1>2 DEF AfterJump
<1> QED BY <1>1, <1>2

-----------------------------------------------------------------------------
\* Opcodes.

USE DEF NOP, LDR_MEM, LDR_IMM, STR, MOV, SWP, PSH, POP, CLR, CAL_MEM, CAL_REG, RET, HLT

LEMMA OpcodeFamilies ==
  /\ BinaryOps \cup UnaryOps \cup JumpOps \subseteq Assigned
  /\ (BinaryOps \cup UnaryOps) \cap (JumpOps \cup {CAL_REG}) = {}
  /\ {NOP, LDR_MEM, LDR_IMM, STR, MOV, SWP, PSH, POP, CLR, CAL_MEM, CAL_REG, RET, HLT}
       \subseteq Assigned
  /\ {LDR_MEM, LDR_IMM, STR, MOV, SWP, PSH, POP, CLR}
       \cap (JumpOps \cup {CAL_REG}) = {}
  BY DEF BinaryOps, UnaryOps, JumpOps, Assigned, ADD, ADC, INC, SUB, SBC, DEC,
         CMP, AND, OR, XOR, TST, NOT, SHL, SHR, ROL, ROR,
         JMP, JZ, JNZ, JC, JNC, JN, JNN, JV, JNV

\* A register operand found invalid is a bad operand ...
LEMMA BadRegister ==
  ASSUME selected_opcode \in BinaryOps \cup UnaryOps
           \cup {LDR_MEM, LDR_IMM, STR, MOV, SWP, PSH, POP, CLR},
         ~ValidRegisters(selected_opcode, instr_buf)
  PROVE  BadOperand /\ selected_opcode \in Assigned
<1>1. selected_opcode \notin JumpOps \cup {CAL_REG}
  BY OpcodeFamilies
<1>2. selected_opcode \in Assigned
  BY OpcodeFamilies
<1> QED BY <1>1, <1>2 DEF BadOperand

\* ... and so is a pair.
LEMMA BadPair ==
  ASSUME selected_opcode \in JumpOps \cup {CAL_REG}, ~ValidPair(instr_buf[1])
  PROVE  BadOperand /\ selected_opcode \in Assigned
  BY OpcodeFamilies DEF BadOperand

-----------------------------------------------------------------------------
\* One lemma per handler.

LEMMA MovesStep ==
  ASSUME Inv, ExecNop \/ ExecMov \/ ExecSwp \/ ExecClr
  PROVE  HandlerStep
<1> USE OperandTypes
<1>1. CASE ExecNop
  <2>1. /\ Executing({NOP}) /\ Succeed /\ NoAccess /\ NoWrite
        /\ UNCHANGED <<registers, value_buf>>
    BY <1>1 DEF ExecNop, ExecRegisters
  <2>2. DataType'
    BY <2>1, QuietStep DEF Executing, Inv, TypeOK
  <2> QED BY <2>1, <2>2 DEF HandlerStep, Executing, Ready
<1>2. CASE ExecMov
  <2>1. ExecRegisters({MOV}, ValidRegisters(MOV, instr_buf), AfterMov(instr_buf, registers))
    BY <1>2 DEF ExecMov
  <2>2. selected_opcode = MOV
    BY <2>1 DEF ExecRegisters, Executing
  <2>3. ValidRegisters(MOV, instr_buf) => AfterMov(instr_buf, registers) \in [Register -> Byte]
    BY AfterTransferType DEF RegisterFile
  <2>4. ~ValidRegisters(MOV, instr_buf) => BadOperand
    BY <2>2, BadRegister
  <2>5. {MOV} \subseteq Assigned /\ ValidRegisters(MOV, instr_buf) \in BOOLEAN
    BY OpcodeFamilies DEF ValidRegisters
  <2> QED BY <2>1, <2>3, <2>4, <2>5, RegistersStep
<1>3. CASE ExecSwp
  <2>1. ExecRegisters({SWP}, ValidRegisters(SWP, instr_buf), AfterSwp(instr_buf, registers))
    BY <1>3 DEF ExecSwp
  <2>2. selected_opcode = SWP
    BY <2>1 DEF ExecRegisters, Executing
  <2>3. ValidRegisters(SWP, instr_buf) => AfterSwp(instr_buf, registers) \in [Register -> Byte]
    BY AfterTransferType DEF RegisterFile
  <2>4. ~ValidRegisters(SWP, instr_buf) => BadOperand
    BY <2>2, BadRegister
  <2>5. {SWP} \subseteq Assigned /\ ValidRegisters(SWP, instr_buf) \in BOOLEAN
    BY OpcodeFamilies DEF ValidRegisters
  <2> QED BY <2>1, <2>3, <2>4, <2>5, RegistersStep
<1>4. CASE ExecClr
  <2>1. ExecRegisters({CLR}, ValidRegisters(CLR, instr_buf), AfterClr(instr_buf, registers))
    BY <1>4 DEF ExecClr
  <2>2. selected_opcode = CLR
    BY <2>1 DEF ExecRegisters, Executing
  <2>3. ValidRegisters(CLR, instr_buf) => AfterClr(instr_buf, registers) \in [Register -> Byte]
    BY AfterTransferType DEF RegisterFile
  <2>4. ~ValidRegisters(CLR, instr_buf) => BadOperand
    BY <2>2, BadRegister
  <2>5. {CLR} \subseteq Assigned /\ ValidRegisters(CLR, instr_buf) \in BOOLEAN
    BY OpcodeFamilies DEF ValidRegisters
  <2> QED BY <2>1, <2>3, <2>4, <2>5, RegistersStep
<1> QED BY <1>1, <1>2, <1>3, <1>4

LEMMA ComputesStep ==
  ASSUME Inv, ExecBinary \/ ExecUnary \/ ExecJump
  PROVE  HandlerStep
<1> USE OperandTypes
<1>1. CASE ExecBinary
  <2> DEFINE valid == ValidRegisters(selected_opcode, instr_buf)
             after == AfterBinary(selected_opcode, instr_buf, registers)
  <2>1. ExecRegisters(BinaryOps, valid, after)
    BY <1>1 DEF ExecBinary
  <2>2. selected_opcode \in BinaryOps
    BY <2>1 DEF ExecRegisters, Executing
  <2>3. valid => after \in [Register -> Byte]
    BY AfterBinaryType DEF RegisterFile
  <2>4. ~valid => BadOperand
    BY <2>2, BadRegister
  <2>5. BinaryOps \subseteq Assigned /\ valid \in BOOLEAN
    BY OpcodeFamilies DEF ValidRegisters
  <2> HIDE DEF valid, after
  <2> QED BY <2>1, <2>3, <2>4, <2>5, RegistersStep
<1>2. CASE ExecUnary
  <2> DEFINE valid == ValidRegisters(selected_opcode, instr_buf)
             after == AfterUnary(selected_opcode, instr_buf, registers)
  <2>1. ExecRegisters(UnaryOps, valid, after)
    BY <1>2 DEF ExecUnary
  <2>2. selected_opcode \in UnaryOps
    BY <2>1 DEF ExecRegisters, Executing
  <2>3. valid => after \in [Register -> Byte]
    BY AfterUnaryType DEF RegisterFile
  <2>4. ~valid => BadOperand
    BY <2>2, BadRegister
  <2>5. UnaryOps \subseteq Assigned /\ valid \in BOOLEAN
    BY OpcodeFamilies DEF ValidRegisters
  <2> HIDE DEF valid, after
  <2> QED BY <2>1, <2>3, <2>4, <2>5, RegistersStep
<1>3. CASE ExecJump
  <2> DEFINE valid == ValidJump(selected_opcode, instr_buf, registers)
             after == AfterJump(selected_opcode, instr_buf, registers)
  <2>1. ExecRegisters(JumpOps, valid, after)
    BY <1>3 DEF ExecJump
  <2>2. selected_opcode \in JumpOps
    BY <2>1 DEF ExecRegisters, Executing
  <2>3. valid => after \in [Register -> Byte]
    BY JumpType DEF RegisterFile
  <2>4. ~valid => BadOperand
    BY <2>2, BadPair DEF ValidJump
  <2>5. JumpOps \subseteq Assigned /\ valid \in BOOLEAN
    BY OpcodeFamilies DEF ValidJump
  <2> HIDE DEF valid, after
  <2> QED BY <2>1, <2>3, <2>4, <2>5, RegistersStep
<1> QED BY <1>1, <1>2, <1>3

LEMMA StopsStep ==
  ASSUME Inv, ExecHlt \/ ExecInvalid
  PROVE  HandlerStep
<1>1. CASE ExecHlt
  <2>1. Executing({HLT}) /\ FailWith("MANUAL") /\ TrueReason("MANUAL")
    BY <1>1 DEF ExecHlt, Executing, TrueReason
  <2> QED BY <1>1, <2>1, StopStep DEF ExecHlt
<1>2. CASE ExecInvalid
  <2>1. /\ Executing(Byte \ Assigned) /\ FailWith("INVALID_OPCODE")
        /\ TrueReason("INVALID_OPCODE")
    BY <1>2 DEF ExecInvalid, Executing, TrueReason
  <2> QED BY <1>2, <2>1, StopStep DEF ExecInvalid
<1> QED BY <1>1, <1>2

\* A register of the file replaced by a byte.
LEMMA RegisterStored ==
  ASSUME NEW regs \in [Register -> Byte], NEW r, NEW byte \in Byte
  PROVE  [regs EXCEPT ![r] = byte] \in [Register -> Byte]
  OBVIOUS

\* How many execute cycles a handler of several has.
LEMMA SeveralCycles ==
  /\ ExecCycles(LDR_MEM) = 2 /\ ExecCycles(RET) = 2
  /\ ExecCycles(CAL_MEM) = 3 /\ ExecCycles(CAL_REG) = 3
  BY DEF ExecCycles

LEMMA LoadsStep ==
  ASSUME Inv, ExecLdrImm \/ LdrMemRead \/ LdrMemStore \/ ExecStr
  PROVE  HandlerStep
<1>0. /\ registers \in [Register -> Byte] /\ value_buf \in Byte
      /\ instr_buf[1] \in Byte /\ instr_buf[2] \in Byte
      /\ instr_exec_cycle \in Byte
  BY OperandTypes DEF Inv, TypeOK
<1>1. CASE ExecLdrImm
  <2>1. Executing({LDR_IMM}) /\ selected_opcode = LDR_IMM
    BY <1>1 DEF ExecLdrImm, Executing
  <2>2. CASE ValidRegisters(LDR_IMM, instr_buf)
    <3>1. /\ value_buf' = instr_buf[2] /\ Succeed /\ NoAccess /\ NoWrite
          /\ registers' = [registers EXCEPT ![instr_buf[1]] = instr_buf[2]]
      BY <1>1, <2>2 DEF ExecLdrImm
    <3>2. registers' \in [Register -> Byte] /\ value_buf' \in Byte
      BY <1>0, <3>1, RegisterStored
    <3>3. DataType'
      BY <2>1, <3>1, <3>2, QuietStep DEF Executing
    <3> QED BY <2>1, <3>1, <3>3 DEF HandlerStep, Executing, Ready
  <2>3. CASE ~ValidRegisters(LDR_IMM, instr_buf)
    <3>1. Fail
      BY <1>1, <2>3 DEF ExecLdrImm
    <3> QED BY <2>1, <2>3, <3>1, BadRegister, FailStep
  <2> QED BY <2>2, <2>3
<1>2. CASE LdrMemRead
  <2>1. Executing({LDR_MEM}) /\ selected_opcode = LDR_MEM /\ instr_exec_cycle = 0
    BY <1>2 DEF LdrMemRead, Executing
  <2>2. value_buf' \in Byte /\ registers' \in [Register -> Byte]
    <3>1. Address(instr_buf, 2) \in Word
      BY AddressType
    <3> QED BY <1>0, <1>2, <3>1, InvMemory, BusReadType DEF LdrMemRead
  <2>3. DataType'
    BY <1>2, <2>1, <2>2, ReadStep DEF LdrMemRead, Executing
  <2>4. StaysPending
    BY <1>2, <2>1, SeveralCycles DEF LdrMemRead, StaysPending, PC
  <2> QED BY <2>1, <2>3, <2>4 DEF HandlerStep, Executing, Ready
<1>3. CASE LdrMemStore
  <2>1. Executing({LDR_MEM}) /\ selected_opcode = LDR_MEM /\ instr_exec_cycle # 0
    BY <1>3 DEF LdrMemStore, Executing
  <2>2. instr_exec_cycle = 1
    <3>1. instr_exec_cycle < 2
      BY <2>1, SeveralCycles DEF Inv, ExecCycleBound, Executing, Ready
    <3> QED BY <1>0, <2>1, <3>1 DEF Byte
  <2>3. CASE ValidRegisters(LDR_MEM, instr_buf)
    <3>1. /\ registers' = [registers EXCEPT ![instr_buf[1]] = value_buf]
          /\ Succeed /\ UNCHANGED value_buf /\ NoAccess /\ NoWrite
      BY <1>3, <2>2, <2>3 DEF LdrMemStore
    <3>2. registers' \in [Register -> Byte] /\ value_buf' \in Byte
      BY <1>0, <3>1, RegisterStored
    <3>3. DataType'
      BY <2>1, <3>1, <3>2, QuietStep DEF Executing
    <3> QED BY <2>1, <3>1, <3>3 DEF HandlerStep, Executing, Ready
  <2>4. CASE ~ValidRegisters(LDR_MEM, instr_buf)
    <3>1. Fail
      BY <1>3, <2>4 DEF LdrMemStore
    <3> QED BY <2>1, <2>4, <3>1, BadRegister, FailStep
  <2> QED BY <2>3, <2>4
<1>4. CASE ExecStr
  <2>1. Executing({STR}) /\ selected_opcode = STR
    BY <1>4 DEF ExecStr, Executing
  <2>2. CASE ValidRegisters(STR, instr_buf)
    <3>1. /\ BusWrite(Address(instr_buf, 2), registers[instr_buf[1]])
          /\ Access(Address(instr_buf, 2)) /\ Succeed
          /\ UNCHANGED <<registers, value_buf>>
      BY <1>4, <2>2 DEF ExecStr
    <3>2. Address(instr_buf, 2) \in Word /\ registers[instr_buf[1]] \in Byte
      BY <1>0, <2>1, <2>2, AddressType DEF ValidRegisters
    <3>3. registers' \in [Register -> Byte] /\ value_buf' \in Byte
      BY <1>0, <3>1
    <3>4. DataType'
      BY <2>1, <3>1, <3>2, <3>3, WriteStep DEF Executing
    <3> QED BY <2>1, <3>1, <3>4 DEF HandlerStep, Executing, Ready
  <2>3. CASE ~ValidRegisters(STR, instr_buf)
    <3>1. Fail
      BY <1>4, <2>3 DEF ExecStr
    <3> QED BY <2>1, <2>3, <3>1, BadRegister, FailStep
  <2> QED BY <2>2, <2>3
<1> QED BY <1>1, <1>2, <1>3, <1>4

-----------------------------------------------------------------------------
\* The stack.

LEMMA PushStep ==
  ASSUME Inv, Ready("EXECUTE"), NEW value \in Byte, StackPush(value), value_buf' \in Byte
  PROVE  DataType' /\ PC' = PC
<1>1. SP \in Word /\ SP - 1 \in Int
  BY PcSpType, WordAround
<1>2. registers \in [Register -> Byte] /\ registers' = SetPair(registers, REG_SP, SP - 1)
  BY DEF StackPush, Inv, TypeOK
<1>3. registers' \in [Register -> Byte]
  BY <1>1, <1>2, SetPairType DEF REG_SP
<1>4. PC' = PC
  BY <1>1, <1>2, StackKeepsPc DEF PC
<1>5. DataType'
  BY <1>1, <1>3, WriteStep DEF StackPush
<1> QED BY <1>4, <1>5

\* What a pop leaves in the register file, and what it yields.
LEMMA PopEffect ==
  ASSUME Inv
  PROVE  /\ Popped \in [Register -> Byte]
         /\ Pair(Popped, REG_PC) = PC
         /\ BusRead(StackTop) \subseteq Byte
<1>1. SP + 1 \in Int
  BY PcSpType, WordAround
<1>2. registers \in [Register -> Byte]
  BY DEF Inv, TypeOK
<1>3. Popped \in [Register -> Byte]
  BY <1>1, <1>2, SetPairType DEF Popped, REG_SP
<1>4. Pair(Popped, REG_PC) = PC
  BY <1>1, <1>2, StackKeepsPc DEF Popped, PC
<1>5. BusRead(StackTop) \subseteq Byte
  BY StackTopType, InvMemory, BusReadType
<1> QED BY <1>3, <1>4, <1>5

LEMMA PushPopStep ==
  ASSUME Inv, ExecPsh \/ ExecPop
  PROVE  HandlerStep
<1>0. registers \in [Register -> Byte] /\ value_buf \in Byte
  BY DEF Inv, TypeOK
<1>1. CASE ExecPsh
  <2>1. Executing({PSH}) /\ selected_opcode = PSH
    BY <1>1 DEF ExecPsh, Executing
  <2>2. CASE ValidRegisters(PSH, instr_buf)
    <3>1. StackPush(registers[instr_buf[1]]) /\ Succeed /\ UNCHANGED value_buf
      BY <1>1, <2>2 DEF ExecPsh
    <3>2. registers[instr_buf[1]] \in Byte
      BY <1>0, <2>2 DEF ValidRegisters
    <3>3. value_buf' \in Byte
      BY <1>0, <3>1
    <3>4. DataType'
      BY <2>1, <3>1, <3>2, <3>3, PushStep DEF Executing
    <3> QED BY <2>1, <3>1, <3>4 DEF HandlerStep, Executing, Ready
  <2>3. CASE ~ValidRegisters(PSH, instr_buf)
    <3>1. Fail
      BY <1>1, <2>3 DEF ExecPsh
    <3> QED BY <2>1, <2>3, <3>1, BadRegister, FailStep
  <2> QED BY <2>2, <2>3
<1>2. CASE ExecPop
  <2>1. Executing({POP}) /\ selected_opcode = POP
    BY <1>2 DEF ExecPop, Executing
  <2>2. CASE ValidRegisters(POP, instr_buf)
    <3>1. /\ \E byte \in BusRead(StackTop) :
                registers' = [Popped EXCEPT ![instr_buf[1]] = byte]
          /\ Access(StackTop) /\ Succeed /\ NoWrite /\ UNCHANGED value_buf
      BY <1>2, <2>2 DEF ExecPop
    <3>2. registers' \in [Register -> Byte]
      <4>1. PICK byte \in BusRead(StackTop) :
              registers' = [Popped EXCEPT ![instr_buf[1]] = byte]
        BY <3>1
      <4>2. byte \in Byte /\ Popped \in [Register -> Byte]
        BY PopEffect
      <4> QED BY <4>1, <4>2, RegisterStored
    <3>3. value_buf' \in Byte
      BY <1>0, <3>1
    <3>4. DataType'
      BY <2>1, <3>1, <3>2, <3>3, ReadStep DEF Executing
    <3> QED BY <2>1, <3>1, <3>4 DEF HandlerStep, Executing, Ready
  <2>3. CASE ~ValidRegisters(POP, instr_buf)
    <3>1. Fail
      BY <1>2, <2>3 DEF ExecPop
    <3> QED BY <2>1, <2>3, <3>1, BadRegister, FailStep
  <2> QED BY <2>2, <2>3
<1> QED BY <1>1, <1>2

LEMMA CallsStep ==
  ASSUME Inv, CalPushHigh \/ CalPushLow \/ CalJump
  PROVE  HandlerStep
<1>0. /\ registers \in [Register -> Byte] /\ value_buf \in Byte
      /\ instr_exec_cycle \in Byte
  BY DEF Inv, TypeOK
<1>1. /\ Executing({CAL_MEM, CAL_REG}) /\ Ready("EXECUTE")
      /\ selected_opcode \in {CAL_MEM, CAL_REG} /\ state = "EXECUTE"
  BY DEF CalPushHigh, CalPushLow, CalJump, Executing, Ready
<1>2. ExecCycles(selected_opcode) = 3 /\ instr_exec_cycle < 3
  BY <1>1, SeveralCycles DEF Inv, ExecCycleBound
<1>3. Lo(PC) \in Byte /\ Hi(PC) \in Byte
  BY PcSpType, SplitWord
<1>4. CASE CalPushHigh
  <2>1. StackPush(Hi(PC)) /\ Pending /\ value_buf' \in Byte /\ instr_exec_cycle = 0
    BY <1>3, <1>4 DEF CalPushHigh
  <2>2. DataType' /\ PC' = PC
    BY <1>1, <1>3, <2>1, PushStep
  <2>3. StaysPending
    BY <1>2, <2>1, <2>2 DEF StaysPending
  <2> QED BY <1>1, <2>2, <2>3 DEF HandlerStep, Executing
<1>5. CASE CalPushLow
  <2>1. StackPush(value_buf) /\ Pending /\ value_buf' \in Byte /\ instr_exec_cycle = 1
    BY <1>0, <1>5 DEF CalPushLow
  <2>2. DataType' /\ PC' = PC
    BY <1>0, <1>1, <2>1, PushStep
  <2>3. StaysPending
    BY <1>2, <2>1, <2>2 DEF StaysPending
  <2> QED BY <1>1, <2>2, <2>3 DEF HandlerStep, Executing
<1>6. CASE CalJump
  <2>1. instr_exec_cycle = 2
    BY <1>0, <1>2, <1>6 DEF CalJump, Byte
  <2>2. CASE selected_opcode = CAL_MEM \/ ValidPair(instr_buf[1])
    <3>1. /\ registers' = SetPair(registers, REG_PC,
                                  Target(selected_opcode, instr_buf, registers))
          /\ Succeed /\ UNCHANGED value_buf /\ NoAccess /\ NoWrite
      BY <1>6, <2>1, <2>2 DEF CalJump
    <3>2. Target(selected_opcode, instr_buf, registers) \in Word
      <4>1. Address(instr_buf, 1) \in Word
        BY AddressType
      <4>2. ValidPair(instr_buf[1]) => Pair(registers, instr_buf[1]) \in Word
        <5>1. ValidPair(instr_buf[1]) => instr_buf[1] \in 0..10
          BY DEF ValidPair, Register
        <5> QED BY <1>0, <5>1, PairType
      <4>3. Target(selected_opcode, instr_buf, registers) \in
              {Address(instr_buf, 1), Pair(registers, instr_buf[1])}
        BY DEF Target
      <4>4. selected_opcode = CAL_MEM =>
              Target(selected_opcode, instr_buf, registers) = Address(instr_buf, 1)
        BY DEF Target
      <4> QED BY <2>2, <4>1, <4>2, <4>3, <4>4
    <3>3. registers' \in [Register -> Byte]
      BY <1>0, <3>1, <3>2, SetPcType
    <3>4. value_buf' \in Byte
      BY <1>0, <3>1
    <3>5. DataType'
      BY <1>1, <3>1, <3>3, <3>4, QuietStep
    <3> QED BY <1>1, <3>1, <3>5 DEF HandlerStep, Executing
  <2>3. CASE selected_opcode # CAL_MEM /\ ~ValidPair(instr_buf[1])
    <3>1. Fail
      BY <1>6, <2>3 DEF CalJump
    <3>2. BadOperand /\ selected_opcode \in Assigned
      BY <1>1, <2>3, BadPair
    <3> QED BY <1>1, <3>1, <3>2, FailStep
  <2> QED BY <2>2, <2>3
<1> QED BY <1>4, <1>5, <1>6

LEMMA ReturnsStep ==
  ASSUME Inv, RetPopLow \/ RetPopHigh
  PROVE  HandlerStep
<1>0. /\ registers \in [Register -> Byte] /\ value_buf \in Byte
      /\ instr_exec_cycle \in Byte
  BY DEF Inv, TypeOK
<1>1. /\ Executing({RET}) /\ Ready("EXECUTE")
      /\ selected_opcode = RET /\ state = "EXECUTE"
  BY DEF RetPopLow, RetPopHigh, Executing, Ready
<1>2. ExecCycles(selected_opcode) = 2 /\ instr_exec_cycle < 2
  BY <1>1, SeveralCycles DEF Inv, ExecCycleBound
<1>3. CASE RetPopLow
  <2>1. /\ value_buf' \in BusRead(StackTop) /\ Access(StackTop)
        /\ registers' = Popped /\ Pending /\ NoWrite /\ instr_exec_cycle = 0
    BY <1>3 DEF RetPopLow
  <2>2. value_buf' \in Byte /\ registers' \in [Register -> Byte]
    BY <2>1, PopEffect
  <2>3. PC' = PC
    <3>1. PC' = Pair(registers', REG_PC)
      BY DEF PC
    <3> QED BY <2>1, <3>1, PopEffect
  <2>4. DataType'
    BY <1>1, <2>1, <2>2, ReadStep
  <2>5. StaysPending
    BY <1>2, <2>1, <2>3 DEF StaysPending
  <2> QED BY <1>1, <2>4, <2>5 DEF HandlerStep, Executing
<1>4. CASE RetPopHigh
  <2>1. instr_exec_cycle = 1
    BY <1>0, <1>2, <1>4 DEF RetPopHigh, Byte
  <2>2. /\ \E high \in BusRead(StackTop) :
              registers' = SetPair(Popped, REG_PC, MkWord(value_buf, high))
        /\ Access(StackTop) /\ Succeed /\ NoWrite /\ UNCHANGED value_buf
    BY <1>4, <2>1 DEF RetPopHigh
  <2>3. registers' \in [Register -> Byte]
    <3>1. PICK high \in BusRead(StackTop) :
            registers' = SetPair(Popped, REG_PC, MkWord(value_buf, high))
      BY <2>2
    <3>2. high \in Byte /\ Popped \in [Register -> Byte]
      BY PopEffect
    <3>3. MkWord(value_buf, high) \in Word
      BY <1>0, <3>2, JoinBytes
    <3> QED BY <3>1, <3>2, <3>3, SetPcType
  <2>4. value_buf' \in Byte
    BY <1>0, <2>2
  <2>5. DataType'
    BY <1>1, <2>2, <2>3, <2>4, ReadStep
  <2> QED BY <1>1, <2>2, <2>5 DEF HandlerStep, Executing
<1> QED BY <1>3, <1>4

Handler ==
  \/ ExecNop \/ ExecMov \/ ExecSwp \/ ExecClr
  \/ ExecBinary \/ ExecUnary \/ ExecJump
  \/ ExecHlt \/ ExecInvalid
  \/ ExecLdrImm \/ LdrMemRead \/ LdrMemStore \/ ExecStr
  \/ ExecPsh \/ ExecPop
  \/ CalPushHigh \/ CalPushLow \/ CalJump
  \/ RetPopLow \/ RetPopHigh

LEMMA HandlersStep ==
  ASSUME Inv, Handler
  PROVE  HandlerStep
  BY MovesStep, ComputesStep, StopsStep, LoadsStep, PushPopStep, CallsStep, ReturnsStep
     DEF Handler

-----------------------------------------------------------------------------
\* The invariant is inductive.

LEMMA InitInv == Init => Inv
<1> SUFFICES ASSUME Init PROVE Inv
  OBVIOUS
<1>1. PICK c \in Cartridges : rom = c.rom /\ ram_bank_count = c.ram_bank_count
  BY DEF Init
<1>2. /\ ram_bank_count \in RamBankCounts
      /\ \A i \in DOMAIN rom : i \in Nat /\ rom[i] \in Byte
  BY <1>1, CpuAssumption
<1>3. IsMemory(wram, WRAM_SIZE) /\ IsMemory(ram, ERAM_BANK_SIZE * ram_bank_count)
  BY DEF Init, IsMemory
<1>4. CounterMod \in Nat /\ 0 < CounterMod
  BY CpuAssumption
<1>5. 0 \in Byte /\ 0 \in Word /\ NULL \in {NULL}
  BY WordBounds DEF Byte
<1>6. /\ registers \in [Register -> Byte]
      /\ instr_buf \in [0..(INSTR_BUF_SIZE - 1) -> Byte]
  BY <1>5 DEF Init
<1>7. TypeOK
  BY <1>2, <1>3, <1>4, <1>5, <1>6 DEF Init, TypeOK
<1>8. FetchWindow /\ ExecCycleBound /\ LatencyBound /\ HaltReason
  BY DEF Init, FetchWindow, ExecCycleBound, LatencyBound, HaltReason
<1> QED BY <1>7, <1>8 DEF Inv

LEMMA HandlerKeepsInv ==
  ASSUME Inv, HandlerStep
  PROVE  Inv'
<1>0. /\ instr_count \in Nat /\ instr_count < CounterMod
      /\ instr_exec_cycle \in Byte /\ latency_cycles \in Byte
      /\ state = "EXECUTE" /\ halt_code = "NONE"
      /\ selected_opcode \in Byte \cup {NULL} /\ opcode_pc \in Word
      /\ instr_buf \in [0..(INSTR_BUF_SIZE - 1) -> Byte]
  BY DEF Inv, TypeOK, HaltReason, HandlerStep
<1>1. /\ UNCHANGED <<selected_opcode, opcode_pc, instr_buf>>
      /\ DataType' /\ latency_cycles' \in Byte
  BY DEF HandlerStep, fetchVars, DataType, Byte
<1>2. /\ instr_count' \in Nat /\ instr_count' < CounterMod
      /\ instr_exec_cycle' \in Byte
  <2>1. /\ (instr_count + 1) % CounterMod \in Nat
        /\ (instr_count + 1) % CounterMod < CounterMod
    BY <1>0, Wraps, CpuAssumption
  <2>2. (instr_exec_cycle + 1) % 256 \in Byte
    <3>1. instr_exec_cycle + 1 \in Int
      BY <1>0 DEF Byte
    <3> QED BY <3>1, Truncate
  <2> QED BY <1>0, <2>1, <2>2
          DEF HandlerStep, Succeed, StaysPending, Pending, FailsTruly, FailWith
<1>3. CASE Succeed
  <2>1. state' = "FETCH_OPCODE" /\ halt_code' = "NONE"
    BY <1>0, <1>3 DEF Succeed
  <2>2. TypeOK'
    BY <1>0, <1>1, <1>2, <2>1 DEF TypeOK, DataType, MemoryType
  <2> QED BY <1>1, <2>1, <2>2 DEF Inv, FetchWindow, ExecCycleBound, LatencyBound,
                                  HaltReason, DataType
<1>4. CASE StaysPending
  <2>1. state' = "EXECUTE" /\ halt_code' = "NONE" /\ PC' = PC
    BY <1>0, <1>4 DEF StaysPending, Pending
  <2>2. TypeOK'
    BY <1>0, <1>1, <1>2, <2>1 DEF TypeOK, DataType, MemoryType
  <2>3. FetchWindow'
    <3>1. PcDelta' = PcDelta
      BY <1>1, <2>1 DEF PcDelta
    <3> QED BY <1>0, <1>1, <2>1, <3>1 DEF Inv, FetchWindow
  <2>4. ExecCycleBound'
    <3>1. instr_exec_cycle' = (instr_exec_cycle + 1) % 256
      BY <1>4 DEF StaysPending, Pending
    <3>2. ExecCycles(selected_opcode) \in 1..3
      BY DEF ExecCycles
    <3>3. instr_exec_cycle \in Int /\ 0 <= instr_exec_cycle
      BY <1>0 DEF Byte
    <3>4. instr_exec_cycle + 1 < ExecCycles(selected_opcode)
      BY <1>4 DEF StaysPending
    <3>5. instr_exec_cycle' = instr_exec_cycle + 1
      BY <3>1, <3>2, <3>3, <3>4
    <3> QED BY <1>1, <3>4, <3>5 DEF ExecCycleBound
  <2> QED BY <1>1, <2>1, <2>2, <2>3, <2>4 DEF Inv, LatencyBound, HaltReason, DataType
<1>5. CASE FailsTruly
  <2>1. PICK code : FailWith(code) /\ TrueReason(code)
    BY <1>5 DEF FailsTruly
  <2>2. /\ state' = "HALT" /\ halt_code' = code /\ latency_cycles' = 0
        /\ code \in {"MANUAL", "INVALID_OPCODE", "EXEC_FAILED"}
    BY <1>5, <2>1 DEF FailsTruly, FailWith, TrueReason
  <2>3. TypeOK'
    BY <1>0, <1>1, <1>2, <2>2 DEF TypeOK, DataType, MemoryType
  <2>4. BadOperand' = BadOperand
    BY <1>1 DEF BadOperand
  <2>5. HaltReason'
    BY <1>1, <2>1, <2>2, <2>4 DEF HaltReason, TrueReason
  <2> QED BY <1>1, <2>2, <2>3, <2>5 DEF Inv, FetchWindow, ExecCycleBound, LatencyBound,
                                        DataType
<1> QED BY <1>3, <1>4, <1>5 DEF HandlerStep

LEMMA WaitKeepsInv ==
  ASSUME Inv, Wait
  PROVE  Inv'
<1>1. /\ cycles' \in Nat /\ cycles' < CounterMod
  BY TurnType DEF Wait
<1>2. latency_cycles \in Byte /\ latency_cycles <= 8 /\ latency_cycles > 0
  BY DEF Inv, TypeOK, LatencyBound, Wait
<1>3. latency_cycles' \in 0..7
  BY <1>2 DEF Wait, Byte
<1>4. /\ UNCHANGED <<state, halt_code, registers, selected_opcode, opcode_pc, instr_buf,
                     instr_count, value_buf, instr_exec_cycle>>
      /\ UNCHANGED <<wram, rom, ram, ram_bank_count, crashed>> /\ ~crashed
  BY DEF Wait, Turn, fetchVars, memoryVars
<1>5. TypeOK'
  BY <1>1, <1>3, <1>4 DEF Inv, TypeOK, Byte
<1>6. PcDelta' = PcDelta /\ BadOperand' = BadOperand
  BY <1>4 DEF PcDelta, PC, BadOperand
<1>7. FetchWindow' /\ ExecCycleBound'
  BY <1>4, <1>6 DEF Inv, FetchWindow, ExecCycleBound
<1>8. HaltReason'
  <2>1. state # "HALT"
    BY <1>2 DEF Inv, HaltReason
  <2> QED BY <1>4, <1>6, <2>1 DEF Inv, HaltReason
<1> QED BY <1>3, <1>5, <1>7, <1>8 DEF Inv, LatencyBound

\* A word is its own value modulo 2^16.
LEMMA WordAlone ==
  ASSUME NEW w \in Word
  PROVE  (w + 0) % 65536 = w
<1>1. w \in Int /\ 0 <= w /\ w <= 65535
  BY WordBounds
<1> QED BY <1>1

\* PC has moved past the opcode.
LEMMA WindowStarts ==
  ASSUME NEW pc \in Word
  PROVE  (((pc + 1) % 65536) - pc) % 65536 = 1
<1>1. pc \in Int /\ 0 <= pc /\ pc <= 65535
  BY WordBounds
<1> QED BY <1>1

\* PC is as far from opcode_pc as there are bytes between them.
LEMMA WindowEnd ==
  ASSUME NEW pc \in Word, NEW start \in Word
  PROVE  (start + ((pc - start) % 65536)) % 65536 = pc
<1>1. /\ pc \in Int /\ 0 <= pc /\ pc <= 65535
      /\ start \in Int /\ 0 <= start /\ start <= 65535
  BY WordBounds
<1> QED BY <1>1

\* The bytes between opcode_pc and PC, after PC has moved past one more of
\* them: arithmetic of uint16_t.
LEMMA WindowGrows ==
  ASSUME NEW pc \in Word, NEW start \in Word,
         (pc - start) % 65536 < 65535
  PROVE  (((pc + 1) % 65536) - start) % 65536 = ((pc - start) % 65536) + 1
<1>1. /\ pc \in Int /\ 0 <= pc /\ pc <= 65535
      /\ start \in Int /\ 0 <= start /\ start <= 65535
  BY WordBounds
<1> QED BY <1>1

\* Fetching a byte at PC: the register file, the bus and PC after it.
LEMMA FetchStep ==
  ASSUME Inv, NEW s, Ready(s), Access(PC), NoWrite,
         registers' = SetPair(registers, REG_PC, PC + 1), UNCHANGED value_buf
  PROVE  /\ DataType'
         /\ PC' = (PC + 1) % 65536
         /\ BusRead(PC) \subseteq Byte
<1>1. registers \in [Register -> Byte] /\ value_buf \in Byte
  BY DEF Inv, TypeOK
<1>2. PC \in Word /\ PC + 1 \in Int
  BY PcSpType, WordAround
<1>3. /\ registers' \in [Register -> Byte]
      /\ Pair(registers', REG_PC) = (PC + 1) % 65536
  BY <1>1, <1>2, SetPairType DEF REG_PC
<1>4. PC' = (PC + 1) % 65536
  BY <1>3 DEF PC
<1>5. value_buf' \in Byte
  BY <1>1
<1>6. DataType'
  BY <1>3, <1>5, ReadStep
<1>7. BusRead(PC) \subseteq Byte
  BY <1>2, InvMemory, BusReadType
<1> QED BY <1>4, <1>6, <1>7

LEMMA BufferStored ==
  ASSUME NEW buf \in [0..(INSTR_BUF_SIZE - 1) -> Byte], NEW i, NEW byte \in Byte
  PROVE  /\ [buf EXCEPT ![i] = byte] \in [0..(INSTR_BUF_SIZE - 1) -> Byte]
         /\ i # 0 => [buf EXCEPT ![i] = byte][0] = buf[0]
<1>1. 0 \in 0..(INSTR_BUF_SIZE - 1)
  BY DEF INSTR_BUF_SIZE
<1>2. [buf EXCEPT ![i] = byte] \in [0..(INSTR_BUF_SIZE - 1) -> Byte]
  OBVIOUS
<1>3. i # 0 => [buf EXCEPT ![i] = byte][0] = buf[0]
  BY <1>1
<1> QED BY <1>2, <1>3

LEMMA SizeType ==
  ASSUME NEW op
  PROVE  Size(op) \in 1..4
  BY DEF Size

LEMMA FetchOpcodeKeepsInv ==
  ASSUME Inv, FetchOpcode
  PROVE  Inv'
<1>1. /\ Ready("FETCH_OPCODE") /\ Access(PC) /\ NoWrite
      /\ registers' = SetPair(registers, REG_PC, PC + 1)
      /\ state' = "DECODE" /\ opcode_pc' = PC
      /\ UNCHANGED <<halt_code, selected_opcode, instr_count, value_buf, instr_exec_cycle>>
  BY DEF FetchOpcode
<1>2. DataType' /\ PC' = (PC + 1) % 65536 /\ BusRead(PC) \subseteq Byte /\ PC \in Word
  BY <1>1, FetchStep, PcSpType
<1>3. instr_buf' \in [0..(INSTR_BUF_SIZE - 1) -> Byte]
  <2>1. PICK byte \in BusRead(PC) : instr_buf' = [instr_buf EXCEPT ![0] = byte]
    BY DEF FetchOpcode
  <2>2. byte \in Byte /\ instr_buf \in [0..(INSTR_BUF_SIZE - 1) -> Byte]
    BY <1>2 DEF Inv, TypeOK
  <2> QED BY <2>1, <2>2, BufferStored
<1>4. halt_code' = "NONE"
  BY <1>1 DEF Inv, HaltReason, Ready
<1>5. latency_cycles' \in Byte
  BY <1>2 DEF DataType, Byte
<1>6. TypeOK'
  BY <1>1, <1>2, <1>3, <1>4, <1>5 DEF Inv, TypeOK, DataType, MemoryType
<1>7. FetchWindow'
  <2>1. PcDelta' = (((PC + 1) % 65536) - PC) % 65536
    BY <1>1, <1>2 DEF PcDelta
  <2>2. PcDelta' = 1
    BY <1>2, <2>1, WindowStarts
  <2> QED BY <1>1, <1>4, <2>2 DEF FetchWindow
<1> QED BY <1>1, <1>2, <1>4, <1>6, <1>7
        DEF Inv, ExecCycleBound, LatencyBound, HaltReason, DataType

LEMMA DecodeKeepsInv ==
  ASSUME Inv, Decode
  PROVE  Inv'
<1>1. /\ Ready("DECODE") /\ NoAccess /\ NoWrite
      /\ selected_opcode' = instr_buf[0] /\ state' = "FETCH_OPERANDS"
      /\ UNCHANGED <<halt_code, registers, opcode_pc, instr_count, instr_buf,
                      value_buf, instr_exec_cycle>>
  BY DEF Decode
<1>2. DataType'
  BY <1>1, QuietStep DEF Inv, TypeOK
<1>3. halt_code' = "NONE"
  BY <1>1 DEF Inv, HaltReason, Ready
<1>4. latency_cycles' \in Byte
  BY <1>2 DEF DataType, Byte
<1>5. selected_opcode' \in Byte
  BY <1>1 DEF Inv, TypeOK, INSTR_BUF_SIZE
<1>6. TypeOK'
  BY <1>1, <1>2, <1>3, <1>4, <1>5 DEF Inv, TypeOK, DataType, MemoryType
<1>7. FetchWindow'
  <2>1. PcDelta' = 1
    BY <1>1 DEF PcDelta, PC, Inv, FetchWindow, Ready
  <2>2. 1 \in 1..Size(selected_opcode')
    BY SizeType
  <2> QED BY <1>1, <1>3, <2>1, <2>2 DEF FetchWindow
<1> QED BY <1>1, <1>2, <1>3, <1>6, <1>7
        DEF Inv, ExecCycleBound, LatencyBound, HaltReason, DataType

LEMMA FetchOperandKeepsInv ==
  ASSUME Inv, FetchOperand
  PROVE  Inv'
<1>1. /\ Ready("FETCH_OPERANDS") /\ Access(PC) /\ NoWrite
      /\ state = "FETCH_OPERANDS" /\ PcDelta # Size(selected_opcode)
      /\ registers' = SetPair(registers, REG_PC, PC + 1)
      /\ UNCHANGED <<state, halt_code, selected_opcode, opcode_pc, instr_count,
                      value_buf, instr_exec_cycle>>
  BY DEF FetchOperand, Ready
<1>2. DataType' /\ PC' = (PC + 1) % 65536 /\ BusRead(PC) \subseteq Byte /\ PC \in Word
  BY <1>1, FetchStep, PcSpType
<1>3. /\ PcDelta \in 1..3 /\ PcDelta + 1 \in 1..Size(selected_opcode)
      /\ selected_opcode = instr_buf[0]
  <2>1. PcDelta \in 1..Size(selected_opcode) /\ selected_opcode = instr_buf[0]
    BY <1>1 DEF Inv, FetchWindow
  <2> QED BY <1>1, <2>1, SizeType
<1>4. PICK byte \in BusRead(PC) : instr_buf' = [instr_buf EXCEPT ![PcDelta] = byte]
  BY DEF FetchOperand
<1>5. instr_buf' \in [0..(INSTR_BUF_SIZE - 1) -> Byte] /\ instr_buf'[0] = instr_buf[0]
  <2>1. instr_buf \in [0..(INSTR_BUF_SIZE - 1) -> Byte] /\ byte \in Byte
    BY <1>2 DEF Inv, TypeOK
  <2>2. PcDelta # 0
    BY <1>3
  <2> QED BY <1>4, <2>1, <2>2, BufferStored
<1>6. halt_code' = "NONE"
  BY <1>1 DEF Inv, HaltReason
<1>7. latency_cycles' \in Byte
  BY <1>2 DEF DataType, Byte
<1>8. TypeOK'
  BY <1>1, <1>2, <1>5, <1>6, <1>7 DEF Inv, TypeOK, DataType, MemoryType
<1>9. FetchWindow'
  <2>1. PcDelta' = (((PC + 1) % 65536) - opcode_pc) % 65536
    BY <1>1, <1>2 DEF PcDelta
  <2>2. PcDelta = (PC - opcode_pc) % 65536 /\ opcode_pc \in Word
    BY DEF PcDelta, Inv, TypeOK
  <2>3. (PC - opcode_pc) % 65536 < 65535
    <3>1. PcDelta < 65535
      BY <1>3
    <3> QED BY <2>2, <3>1
  <2>4. PcDelta' = PcDelta + 1
    BY <1>2, <2>1, <2>2, <2>3, WindowGrows
  <2> QED BY <1>1, <1>3, <1>5, <1>6, <2>4 DEF FetchWindow
<1> QED BY <1>1, <1>2, <1>6, <1>8, <1>9
        DEF Inv, ExecCycleBound, LatencyBound, HaltReason, DataType

\* The buffer never overflows: the window is no longer than the instruction.
LEMMA OperandsCompleteKeepsInv ==
  ASSUME Inv, OperandsComplete
  PROVE  Inv'
<1>1. /\ Ready("FETCH_OPERANDS") /\ NoAccess /\ NoWrite /\ state = "FETCH_OPERANDS"
      /\ UNCHANGED <<registers, selected_opcode, opcode_pc, instr_buf,
                      instr_count, value_buf>>
  BY DEF OperandsComplete, Ready, fetchVars
<1>2. PcDelta \in 1..Size(selected_opcode) /\ selected_opcode = instr_buf[0]
  BY <1>1 DEF Inv, FetchWindow
<1>3. ~(PcDelta >= INSTR_BUF_SIZE)
  BY <1>2, SizeType DEF INSTR_BUF_SIZE
<1>4. /\ PcDelta = Size(selected_opcode)
      /\ state' = "EXECUTE" /\ instr_exec_cycle' = 0 /\ UNCHANGED halt_code
  BY <1>3 DEF OperandsComplete
<1>5. halt_code' = "NONE"
  BY <1>1, <1>4 DEF Inv, HaltReason
<1>6. DataType'
  BY <1>1, QuietStep DEF Inv, TypeOK
<1>7. latency_cycles' \in Byte /\ instr_exec_cycle' \in Byte
  BY <1>4, <1>6 DEF DataType, Byte
<1>8. TypeOK'
  BY <1>1, <1>4, <1>5, <1>6, <1>7 DEF Inv, TypeOK, DataType, MemoryType
<1>9. FetchWindow'
  <2>1. PcDelta' = PcDelta
    BY <1>1 DEF PcDelta, PC
  <2> QED BY <1>1, <1>2, <1>4, <1>5, <2>1 DEF FetchWindow
<1>10. ExecCycleBound'
  <2>1. ExecCycles(selected_opcode') \in 1..3
    BY DEF ExecCycles
  <2> QED BY <1>4, <2>1 DEF ExecCycleBound
<1> QED BY <1>4, <1>5, <1>6, <1>8, <1>9, <1>10 DEF Inv, LatencyBound, HaltReason, DataType

LEMMA NextKeepsInv == Inv /\ [Next]_vars => Inv'
<1> SUFFICES ASSUME Inv, [Next]_vars PROVE Inv'
  OBVIOUS
<1>1. CASE UNCHANGED vars
  BY <1>1 DEF vars, cpuVars, fetchVars, memoryVars, Inv, TypeOK, FetchWindow,
              PcDelta, PC, ExecCycleBound, LatencyBound, HaltReason, BadOperand
<1>2. CASE Wait
  BY <1>2, WaitKeepsInv
<1>3. CASE FetchOpcode
  BY <1>3, FetchOpcodeKeepsInv
<1>4. CASE Decode
  BY <1>4, DecodeKeepsInv
<1>5. CASE FetchOperand
  BY <1>5, FetchOperandKeepsInv
<1>6. CASE OperandsComplete
  BY <1>6, OperandsCompleteKeepsInv
<1>7. CASE Handler
  BY <1>7, HandlersStep, HandlerKeepsInv
<1> QED BY <1>1, <1>2, <1>3, <1>4, <1>5, <1>6, <1>7 DEF Next, Handler

LEMMA Invariance == Spec => []Inv
<1>1. Init => Inv
  BY InitInv
<1>2. Inv /\ [Next]_vars => Inv'
  BY NextKeepsInv
<1> QED BY <1>1, <1>2, PTL DEF Spec

\* For every cartridge, every field of the CPU keeps to its width, and no
\* write of the CPU lands outside the work RAM or the cartridge RAM.
THEOREM TypeCorrect == Spec => []TypeOK
<1>1. Inv => TypeOK
  BY DEF Inv
<1> QED BY <1>1, Invariance, PTL

\* For every cartridge, an instruction is executed with exactly its operands
\* fetched, wherever PC wraps: the buffer overflow of cpu.c:33 cannot happen.
THEOREM OperandsFetched == Spec => []FetchWindow
<1>1. Inv => FetchWindow
  BY DEF Inv
<1> QED BY <1>1, Invariance, PTL

\* No handler is ever entered at an execute cycle it has no case for.
THEOREM DefaultsDead == Spec => []ExecCycleBound
<1>1. Inv => ExecCycleBound
  BY DEF Inv
<1> QED BY <1>1, Invariance, PTL

\* The CPU never owes the bus more than the latency of one device.
THEOREM LatencyBounded == Spec => []LatencyBound
<1>1. Inv => LatencyBound
  BY DEF Inv
<1> QED BY <1>1, Invariance, PTL

\* The CPU halts with a halt code, which is true of the instruction it
\* stopped at, and only then.
THEOREM HaltsForReason == Spec => []HaltReason
<1>1. Inv => HaltReason
  BY DEF Inv
<1> QED BY <1>1, Invariance, PTL

-----------------------------------------------------------------------------
(***************************************************************************)
(* The bytes in the buffer are those of memory.  This is not inductive: it *)
(* says nothing of the DECODE stage, in which the opcode is in the buffer  *)
(* already.                                                                *)
(***************************************************************************)
BytesFetched ==
  \A i \in Nat, addr \in Word :
    i < PcDelta /\ addr = (opcode_pc + i) % 65536 => instr_buf[i] \in BusRead(addr)

Fetching ==
  \/ state \in {"DECODE", "FETCH_OPERANDS"}
  \/ state = "EXECUTE" /\ instr_exec_cycle = 0

FetchInv == Fetching => BytesFetched

\* Nothing is written while an instruction is fetched.
LEMMA SameReads ==
  ASSUME NoWrite, NEW addr
  PROVE  BusRead(addr)' = BusRead(addr)
  BY DEF NoWrite, memoryVars, BusRead, EramInside, EramIndex

LEMMA SameBytes ==
  ASSUME NoWrite, BytesFetched,
         UNCHANGED <<registers, opcode_pc, instr_buf>>
  PROVE  BytesFetched'
<1>1. PcDelta' = PcDelta
  BY DEF PcDelta, PC
<1> QED BY <1>1, SameReads DEF BytesFetched

LEMMA HandlerKeepsFetchInv ==
  ASSUME Inv, HandlerStep
  PROVE  FetchInv'
<1>1. CASE StaysPending
  <2>1. instr_exec_cycle' = (instr_exec_cycle + 1) % 256
    BY <1>1 DEF StaysPending, Pending
  <2>2. ExecCycles(selected_opcode) \in 1..3
    BY DEF ExecCycles
  <2>3. instr_exec_cycle \in Int /\ 0 <= instr_exec_cycle
    BY DEF Inv, TypeOK, Byte
  <2>4. instr_exec_cycle + 1 < ExecCycles(selected_opcode)
    BY <1>1 DEF StaysPending
  <2>5. instr_exec_cycle' # 0
    BY <2>1, <2>2, <2>3, <2>4
  <2>6. state' = "EXECUTE"
    BY <1>1 DEF StaysPending, Pending, HandlerStep
  <2> QED BY <2>5, <2>6 DEF FetchInv, Fetching
<1>2. CASE Succeed \/ FailsTruly
  <2>1. state' \in {"FETCH_OPCODE", "HALT"}
    BY <1>2 DEF Succeed, FailsTruly, FailWith
  <2> QED BY <2>1 DEF FetchInv, Fetching
<1> QED BY <1>1, <1>2 DEF HandlerStep

LEMMA FetchOpcodeKeepsFetchInv ==
  ASSUME Inv, FetchOpcode
  PROVE  BytesFetched'
<1>1. /\ Ready("FETCH_OPCODE") /\ Access(PC) /\ NoWrite
      /\ registers' = SetPair(registers, REG_PC, PC + 1)
      /\ opcode_pc' = PC /\ UNCHANGED value_buf
  BY DEF FetchOpcode
<1>2. PC' = (PC + 1) % 65536 /\ PC \in Word
  BY <1>1, FetchStep, PcSpType
<1>3. PcDelta' = 1
  <2>1. PcDelta' = (((PC + 1) % 65536) - PC) % 65536
    BY <1>1, <1>2 DEF PcDelta
  <2> QED BY <1>2, <2>1, WindowStarts
<1>4. instr_buf'[0] \in BusRead(PC)
  <2>1. PICK byte \in BusRead(PC) : instr_buf' = [instr_buf EXCEPT ![0] = byte]
    BY DEF FetchOpcode
  <2>2. 0 \in DOMAIN instr_buf
    BY DEF Inv, TypeOK, INSTR_BUF_SIZE
  <2> QED BY <2>1, <2>2
<1>5. SUFFICES ASSUME NEW i \in Nat, NEW addr \in Word,
                      i < 1, addr = (opcode_pc' + i) % 65536
               PROVE  instr_buf'[i] \in BusRead(addr)'
  BY <1>3 DEF BytesFetched
<1>6. i = 0
  BY <1>5
<1>7. addr = PC
  BY <1>1, <1>2, <1>5, <1>6, WordAlone
<1> QED BY <1>1, <1>4, <1>6, <1>7, SameReads

LEMMA FetchOperandKeepsFetchInv ==
  ASSUME Inv, BytesFetched, FetchOperand
  PROVE  BytesFetched'
<1>1. /\ Ready("FETCH_OPERANDS") /\ Access(PC) /\ NoWrite
      /\ state = "FETCH_OPERANDS"
      /\ registers' = SetPair(registers, REG_PC, PC + 1)
      /\ UNCHANGED <<opcode_pc, value_buf>>
  BY DEF FetchOperand, Ready
<1>2. PC' = (PC + 1) % 65536 /\ PC \in Word /\ opcode_pc \in Word
  BY <1>1, FetchStep, PcSpType DEF Inv, TypeOK
<1>3. PcDelta \in 1..4
  BY <1>1, SizeType DEF Inv, FetchWindow
<1>4. PcDelta' = PcDelta + 1
  <2>1. PcDelta' = (((PC + 1) % 65536) - opcode_pc) % 65536
    BY <1>1, <1>2 DEF PcDelta
  <2>2. PcDelta = (PC - opcode_pc) % 65536
    BY DEF PcDelta
  <2>3. (PC - opcode_pc) % 65536 < 65535
    <3>1. PcDelta < 65535
      BY <1>3
    <3> QED BY <2>2, <3>1
  <2> QED BY <1>2, <2>1, <2>2, <2>3, WindowGrows
<1>5. PICK byte \in BusRead(PC) : instr_buf' = [instr_buf EXCEPT ![PcDelta] = byte]
  BY DEF FetchOperand
<1>6. PcDelta \in DOMAIN instr_buf
  BY <1>3 DEF Inv, TypeOK, INSTR_BUF_SIZE
<1>7. SUFFICES ASSUME NEW i \in Nat, NEW addr \in Word,
                      i < PcDelta + 1, addr = (opcode_pc + i) % 65536
               PROVE  instr_buf'[i] \in BusRead(addr)
  BY <1>1, <1>4, SameReads DEF BytesFetched
<1>8. CASE i = PcDelta
  <2>1. addr = PC
    BY <1>2, <1>7, <1>8, WindowEnd DEF PcDelta
  <2> QED BY <1>5, <1>6, <1>8, <2>1
<1>9. CASE i # PcDelta
  <2>1. i < PcDelta
    BY <1>3, <1>7, <1>9
  <2>2. instr_buf[i] \in BusRead(addr)
    BY <1>7, <2>1 DEF BytesFetched
  <2> QED BY <1>5, <1>9, <2>2
<1> QED BY <1>8, <1>9

LEMMA NextKeepsFetchInv == Inv /\ FetchInv /\ [Next]_vars => FetchInv'
<1> SUFFICES ASSUME Inv, FetchInv, [Next]_vars PROVE FetchInv'
  OBVIOUS
<1>1. CASE UNCHANGED vars
  BY <1>1, SameBytes DEF vars, cpuVars, fetchVars, NoWrite, FetchInv, Fetching
<1>2. CASE Wait
  BY <1>2, SameBytes DEF Wait, fetchVars, NoWrite, FetchInv, Fetching
<1>3. CASE FetchOpcode
  BY <1>3, FetchOpcodeKeepsFetchInv DEF FetchInv
<1>4. CASE Decode
  BY <1>4, SameBytes DEF Decode, Ready, FetchInv, Fetching
<1>5. CASE FetchOperand
  BY <1>5, FetchOperandKeepsFetchInv DEF FetchOperand, Ready, FetchInv, Fetching
<1>6. CASE OperandsComplete
  BY <1>6, SameBytes DEF OperandsComplete, Ready, fetchVars, FetchInv, Fetching
<1>7. CASE Handler
  BY <1>7, HandlersStep, HandlerKeepsFetchInv
<1> QED BY <1>1, <1>2, <1>3, <1>4, <1>5, <1>6, <1>7 DEF Next, Handler

\* For every cartridge, the instruction that is executed is the one that lies
\* in memory from opcode_pc on, wherever PC wraps.
THEOREM ExecutesMemory == Spec => []FetchedFromMemory
<1>1. Init => FetchInv
  BY DEF Init, FetchInv, Fetching
<1>2. Inv /\ FetchInv /\ [Next]_vars => FetchInv'
  BY NextKeepsFetchInv
<1>3. Inv /\ FetchInv => FetchedFromMemory
  <2> SUFFICES ASSUME Inv, FetchInv, Fetching, NEW i \in 0..(PcDelta - 1)
               PROVE  instr_buf[i] \in BusRead((opcode_pc + i) % 65536)
    BY DEF FetchedFromMemory, Fetching
  <2>1. opcode_pc \in Int /\ PC \in Int
    <3>1. opcode_pc \in Word /\ PC \in Word
      BY PcSpType DEF Inv, TypeOK
    <3> QED BY <3>1, WordAround
  <2>2. PcDelta \in Int
    BY <2>1 DEF PcDelta
  <2>3. i \in Nat /\ i < PcDelta
    BY <2>2
  <2>4. (opcode_pc + i) % 65536 \in Word
    BY <2>1, <2>3, Truncate
  <2> QED BY <2>3, <2>4 DEF FetchInv, BytesFetched
<1> QED BY <1>1, <1>2, <1>3, Invariance, PTL DEF Spec

-----------------------------------------------------------------------------
(***************************************************************************)
(* Calls and returns.  FramesIntact is not inductive: that the bytes of a  *)
(* frame are not pushed over needs SP to stay at or below every frame, and *)
(* that CAL completes a frame needs what it has pushed in its cycles so    *)
(* far, counted from the SP it has reached.                                *)
(***************************************************************************)
Unpushed ==
  \/ state \in {"FETCH_OPCODE", "DECODE", "FETCH_OPERANDS"}
  \/ state = "EXECUTE" /\ instr_exec_cycle = 0

CallPending(k) ==
  /\ state = "EXECUTE" /\ selected_opcode \in {CAL_MEM, CAL_REG}
  /\ instr_exec_cycle = k

ReturnPending ==
  state = "EXECUTE" /\ selected_opcode = RET /\ instr_exec_cycle = 1

Holds(addr, byte) == addr \in WRAM => WramAt(addr) = byte

FramesTyped == \A f \in frames : f.sp \in Word /\ f.back \in Word

FramesAbove == Unpushed => \A f \in frames : f.sp >= SP

OnePushed ==
  CallPending(1) =>
    /\ value_buf = Lo(PC)
    /\ Holds((SP + 1) % 65536, Hi(PC))
    /\ \A f \in frames : f.sp >= (SP + 1) % 65536

BothPushed ==
  CallPending(2) =>
    /\ Holds((SP + 1) % 65536, Lo(PC))
    /\ Holds((SP + 2) % 65536, Hi(PC))

LowPopped == ReturnPending => value_buf \in BusRead(SP)

FrameInv ==
  /\ FramesTyped
  /\ FramesIntact
  /\ FramesAbove
  /\ OnePushed
  /\ BothPushed
  /\ LowPopped

-----------------------------------------------------------------------------
\* Moving PC leaves SP alone.
LEMMA PcKeepsStack ==
  ASSUME NEW regs \in [Register -> Byte], NEW n \in Int
  PROVE  Pair(SetPair(regs, REG_PC, n), REG_SP) = Pair(regs, REG_SP)
<1> DEFINE after == SetPair(regs, REG_PC, n)
<1>1. \A s \in Register \ {9, 9 + 1} : after[s] = regs[s]
  BY SetPairType DEF REG_PC
<1> HIDE DEF after
<1>2. after[7] = regs[7] /\ after[7 + 1] = regs[7 + 1]
  BY <1>1 DEF Register
<1> QED BY <1>2 DEF Pair, REG_SP, after

\* Where work RAM lies on the bus.
LEMMA WramPlace ==
  ASSUME NEW addr \in WRAM
  PROVE  /\ addr \in Int /\ 0 <= addr /\ addr <= 65535
         /\ addr \notin BIOS /\ addr \notin ROM /\ addr \notin ERAM
<1>1. addr \in Int /\ 33024 <= addr /\ addr <= 49407
  BY DEF WRAM, WRAM0, WRAMN
<1>2. addr \notin BIOS
  BY <1>1 DEF BIOS
<1>3. ASSUME addr \in ROM0 \/ addr \in ROMN PROVE FALSE
  BY <1>1, <1>3 DEF ROM0, ROMN
<1>4. ASSUME addr \in ERAM PROVE FALSE
  <2>1. addr >= 57600
    BY <1>4 DEF ERAM
  <2> QED BY <1>1, <2>1
<1> QED BY <1>1, <1>2, <1>3, <1>4 DEF ROM

\* The cells of work RAM have an index each.
LEMMA WramCells ==
  ASSUME NEW w, NEW addr \in WRAM, NEW byte, NEW other \in WRAM
  PROVE  /\ Cell(WramAfter(w, addr, byte), WramIndex(addr)) = byte
         /\ other # addr => Cell(WramAfter(w, addr, byte), WramIndex(other))
                              = Cell(w, WramIndex(other))
<1>1. addr \in Int /\ other \in Int
  BY DEF WRAM, WRAM0, WRAMN
<1>2. WramAfter(w, addr, byte) = Stored(w, WramIndex(addr), byte)
  BY DEF WramAfter
<1>3. other # addr => WramIndex(other) # WramIndex(addr)
  BY <1>1 DEF WramIndex
<1> QED BY <1>2, <1>3 DEF Stored, Cell

\* Only CalJump makes a frame.
LEMMA NoNewFrame ==
  ASSUME frames' = FramesAfter,
         \/ latency_cycles # 0
         \/ state # "EXECUTE"
         \/ selected_opcode \notin {CAL_MEM, CAL_REG}
         \/ instr_exec_cycle \in {0, 1}
         \/ state' # "FETCH_OPCODE"
  PROVE  frames' \subseteq frames
<1>1. ~CallEnds
  BY DEF CallEnds, CalJump, Executing, Ready
<1> QED BY <1>1 DEF FramesAfter

\* Back in FETCH_OPCODE, no frame lies below SP.
LEMMA PassedFramesGone ==
  ASSUME frames' = FramesAfter, state' = "FETCH_OPCODE"
  PROVE  \A f \in frames' : f.sp >= SP'
  BY DEF FramesAfter

\* Frames that are not written over stay as they are.
LEMMA StillIntact ==
  ASSUME FramesTyped, FramesIntact, frames' \subseteq frames, wram' = wram
  PROVE  FramesTyped' /\ FramesIntact'
<1>1. FramesTyped'
  BY DEF FramesTyped
<1>2. FramesIntact'
  BY DEF FramesIntact, InRam, FrameBytes, WramAt
<1> QED BY <1>1, <1>2

LEMMA StillIntactBeside ==
  ASSUME FramesTyped, FramesIntact, frames' \subseteq frames,
         NEW addr, NEW byte, wram' = WramAfter(wram, addr, byte),
         \A f \in frames' : InRam(f) => addr \notin FrameBytes(f)
  PROVE  FramesTyped' /\ FramesIntact'
<1>1. FramesTyped'
  BY DEF FramesTyped
<1>2. CASE addr \notin WRAM
  <2>1. wram' = wram
    BY <1>2 DEF WramAfter
  <2> QED BY <2>1, StillIntact
<1>3. CASE addr \in WRAM
  <2> SUFFICES ASSUME NEW f \in frames', InRam(f)
               PROVE  /\ WramAt(f.sp + 1)' = Lo(f.back)
                      /\ WramAt(f.sp + 2)' = Hi(f.back)
    BY <1>1 DEF FramesIntact, InRam, FrameBytes
  <2>1. WramAt(f.sp + 1) = Lo(f.back) /\ WramAt(f.sp + 2) = Hi(f.back)
    BY DEF FramesIntact
  <2>2. /\ f.sp + 1 \in WRAM /\ f.sp + 1 # addr
        /\ f.sp + 2 \in WRAM /\ f.sp + 2 # addr
    BY DEF InRam, FrameBytes
  <2> QED BY <1>3, <2>1, <2>2, WramCells DEF WramAt
<1> QED BY <1>1, <1>2, <1>3

\* A step that ends an instruction without a call and without a write.
LEMMA QuietEnd ==
  ASSUME FrameInv, frames' = FramesAfter, frames' \subseteq frames, NoWrite,
         state' \in {"FETCH_OPCODE", "HALT"}
  PROVE  FrameInv'
<1>1. FramesTyped' /\ FramesIntact'
  BY StillIntact DEF FrameInv, NoWrite, memoryVars
<1>2. FramesAbove'
  BY PassedFramesGone DEF FramesAbove, Unpushed
<1>3. OnePushed' /\ BothPushed' /\ LowPopped'
  BY DEF OnePushed, BothPushed, LowPopped, CallPending, ReturnPending
<1> QED BY <1>1, <1>2, <1>3 DEF FrameInv

\* A step of the stages before the handler.
LEMMA StageKeepsFrames ==
  ASSUME FrameInv, frames' \subseteq frames, NoWrite, SP' = SP, Unpushed,
         \/ state' \in {"DECODE", "FETCH_OPERANDS"}
         \/ state' = "EXECUTE" /\ instr_exec_cycle' = 0
  PROVE  FrameInv'
<1>1. FramesTyped' /\ FramesIntact'
  BY StillIntact DEF FrameInv, NoWrite, memoryVars
<1>2. FramesAbove'
  BY DEF FrameInv, FramesAbove
<1>3. OnePushed' /\ BothPushed' /\ LowPopped'
  BY DEF OnePushed, BothPushed, LowPopped, CallPending, ReturnPending
<1> QED BY <1>1, <1>2, <1>3 DEF FrameInv

\* Fetching a byte does not move SP.
LEMMA FetchKeepsStack ==
  ASSUME Inv, registers' = SetPair(registers, REG_PC, PC + 1)
  PROVE  SP' = SP
<1>1. registers \in [Register -> Byte] /\ PC + 1 \in Int
  BY PcSpType, WordAround DEF Inv, TypeOK
<1> QED BY <1>1, PcKeepsStack DEF SP

LEMMA StagesKeepFrames ==
  ASSUME Inv, FrameInv, frames' = FramesAfter,
         FetchOpcode \/ Decode \/ FetchOperand \/ OperandsComplete
  PROVE  FrameInv'
<1>1. CASE FetchOpcode
  <2>1. /\ registers' = SetPair(registers, REG_PC, PC + 1) /\ NoWrite
        /\ state = "FETCH_OPCODE" /\ state' = "DECODE"
    BY <1>1 DEF FetchOpcode, Ready
  <2> QED BY <2>1, FetchKeepsStack, NoNewFrame, StageKeepsFrames DEF Unpushed
<1>2. CASE Decode
  <2>1. /\ UNCHANGED registers /\ NoWrite
        /\ state = "DECODE" /\ state' = "FETCH_OPERANDS"
    BY <1>2 DEF Decode, Ready
  <2> QED BY <2>1, NoNewFrame, StageKeepsFrames DEF Unpushed, SP
<1>3. CASE FetchOperand
  <2>1. /\ registers' = SetPair(registers, REG_PC, PC + 1) /\ NoWrite
        /\ state = "FETCH_OPERANDS" /\ state' = "FETCH_OPERANDS"
    BY <1>3 DEF FetchOperand, Ready
  <2> QED BY <2>1, FetchKeepsStack, NoNewFrame, StageKeepsFrames DEF Unpushed
<1>4. CASE OperandsComplete
  <2>1. UNCHANGED registers /\ NoWrite /\ state = "FETCH_OPERANDS"
    BY <1>4 DEF OperandsComplete, Ready
  <2>2. \/ state' = "HALT"
        \/ state' = "EXECUTE" /\ instr_exec_cycle' = 0
    BY <1>4 DEF OperandsComplete
  <2>3. frames' \subseteq frames
    BY <2>1, NoNewFrame
  <2>4. CASE state' = "HALT"
    BY <2>1, <2>3, <2>4, QuietEnd
  <2>5. CASE state' = "EXECUTE" /\ instr_exec_cycle' = 0
    BY <2>1, <2>3, <2>5, StageKeepsFrames DEF Unpushed, SP
  <2> QED BY <2>2, <2>4, <2>5
<1> QED BY <1>1, <1>2, <1>3, <1>4

\* Nothing but the clock moves: while a device is waited for, and in a
\* stuttering step.
LEMMA WaitKeepsFrames ==
  ASSUME FrameInv, frames' \subseteq frames, NoWrite,
         UNCHANGED <<state, registers, selected_opcode, value_buf, instr_exec_cycle>>
  PROVE  FrameInv'
<1>1. FramesTyped' /\ FramesIntact'
  BY StillIntact DEF FrameInv, NoWrite, memoryVars
<1>2. PC' = PC /\ SP' = SP /\ wram' = wram
  BY DEF PC, SP, NoWrite, memoryVars
<1>3. FramesAbove'
  BY <1>2 DEF FrameInv, FramesAbove, Unpushed
<1>4. OnePushed'
  BY <1>2 DEF FrameInv, OnePushed, CallPending, Holds, WramAt
<1>5. BothPushed'
  BY <1>2 DEF FrameInv, BothPushed, CallPending, Holds, WramAt
<1>6. LowPopped'
  BY <1>2, SameReads DEF FrameInv, LowPopped, ReturnPending
<1> QED BY <1>1, <1>3, <1>4, <1>5, <1>6 DEF FrameInv

-----------------------------------------------------------------------------
\* The handlers, by what they do to memory and to the calls under way.

\* No handler but CAL's is selected by its opcodes.
LEMMA CallOpcodes ==
  /\ {CAL_MEM, CAL_REG} \cap (BinaryOps \cup UnaryOps \cup JumpOps) = {}
  /\ {CAL_MEM, CAL_REG} \subseteq Assigned
  BY DEF BinaryOps, UnaryOps, JumpOps, Assigned, ADD, ADC, INC, SUB, SBC, DEC,
         CMP, AND, OR, XOR, TST, NOT, SHL, SHR, ROL, ROR,
         JMP, JZ, JNZ, JC, JNC, JN, JNN, JV, JNV

QuietHandler ==
  /\ NoWrite
  /\ selected_opcode \notin {CAL_MEM, CAL_REG}
  /\ state' \in {"FETCH_OPCODE", "HALT"}

LEMMA RegistersQuiet ==
  ASSUME NEW ops, NEW valid \in BOOLEAN, NEW after, ExecRegisters(ops, valid, after),
         {CAL_MEM, CAL_REG} \cap ops = {}
  PROVE  QuietHandler
<1>1. NoWrite /\ state' \in {"FETCH_OPCODE", "HALT"}
  BY DEF ExecRegisters, Succeed, Fail, FailWith
<1> QED BY <1>1 DEF ExecRegisters, Executing, QuietHandler

LEMMA QuietHandlers ==
  ASSUME \/ ExecNop \/ ExecMov \/ ExecSwp \/ ExecClr
         \/ ExecBinary \/ ExecUnary \/ ExecJump
         \/ ExecHlt \/ ExecInvalid
         \/ ExecLdrImm \/ LdrMemStore \/ ExecPop \/ RetPopHigh
  PROVE  QuietHandler
<1>1. CASE ExecNop
  <2> DEFINE valid == TRUE
  <2>1. valid \in BOOLEAN
    OBVIOUS
  <2>2. ExecRegisters({NOP}, valid, registers)
    BY <1>1 DEF ExecNop
  <2> HIDE DEF valid
  <2> QED BY <2>1, <2>2, RegistersQuiet
<1>2. CASE ExecMov
  <2> DEFINE valid == ValidRegisters(MOV, instr_buf)
  <2>1. valid \in BOOLEAN
    BY DEF ValidRegisters
  <2>2. ExecRegisters({MOV}, valid, AfterMov(instr_buf, registers))
    BY <1>2 DEF ExecMov
  <2> HIDE DEF valid
  <2> QED BY <2>1, <2>2, RegistersQuiet
<1>3. CASE ExecSwp
  <2> DEFINE valid == ValidRegisters(SWP, instr_buf)
  <2>1. valid \in BOOLEAN
    BY DEF ValidRegisters
  <2>2. ExecRegisters({SWP}, valid, AfterSwp(instr_buf, registers))
    BY <1>3 DEF ExecSwp
  <2> HIDE DEF valid
  <2> QED BY <2>1, <2>2, RegistersQuiet
<1>4. CASE ExecClr
  <2> DEFINE valid == ValidRegisters(CLR, instr_buf)
  <2>1. valid \in BOOLEAN
    BY DEF ValidRegisters
  <2>2. ExecRegisters({CLR}, valid, AfterClr(instr_buf, registers))
    BY <1>4 DEF ExecClr
  <2> HIDE DEF valid
  <2> QED BY <2>1, <2>2, RegistersQuiet
<1>5. CASE ExecBinary
  <2> DEFINE valid == ValidRegisters(selected_opcode, instr_buf)
  <2>1. valid \in BOOLEAN
    BY DEF ValidRegisters
  <2>2. ExecRegisters(BinaryOps, valid, AfterBinary(selected_opcode, instr_buf, registers))
    BY <1>5 DEF ExecBinary
  <2> HIDE DEF valid
  <2> QED BY <2>1, <2>2, CallOpcodes, RegistersQuiet
<1>6. CASE ExecUnary
  <2> DEFINE valid == ValidRegisters(selected_opcode, instr_buf)
  <2>1. valid \in BOOLEAN
    BY DEF ValidRegisters
  <2>2. ExecRegisters(UnaryOps, valid, AfterUnary(selected_opcode, instr_buf, registers))
    BY <1>6 DEF ExecUnary
  <2> HIDE DEF valid
  <2> QED BY <2>1, <2>2, CallOpcodes, RegistersQuiet
<1>7. CASE ExecJump
  <2> DEFINE valid == ValidJump(selected_opcode, instr_buf, registers)
  <2>1. valid \in BOOLEAN
    BY DEF ValidJump
  <2>2. ExecRegisters(JumpOps, valid, AfterJump(selected_opcode, instr_buf, registers))
    BY <1>7 DEF ExecJump
  <2> HIDE DEF valid
  <2> QED BY <2>1, <2>2, CallOpcodes, RegistersQuiet
<1>8. CASE ExecHlt \/ ExecInvalid
  BY <1>8, CallOpcodes DEF ExecHlt, ExecInvalid, Executing, FailWith, QuietHandler
<1>9. CASE ExecLdrImm \/ LdrMemStore
  <2>1. NoWrite /\ state' \in {"FETCH_OPCODE", "HALT"}
    BY <1>9 DEF ExecLdrImm, LdrMemStore, Succeed, Fail, FailWith
  <2> QED BY <1>9, <2>1 DEF ExecLdrImm, LdrMemStore, Executing, QuietHandler
<1>10. CASE ExecPop \/ RetPopHigh
  <2>1. NoWrite /\ state' \in {"FETCH_OPCODE", "HALT"}
    BY <1>10 DEF ExecPop, RetPopHigh, Succeed, Fail, FailWith
  <2> QED BY <1>10, <2>1 DEF ExecPop, RetPopHigh, Executing, QuietHandler
<1> QED BY <1>1, <1>2, <1>3, <1>4, <1>5, <1>6, <1>7, <1>8, <1>9, <1>10

LEMMA QuietHandlersKeepFrames ==
  ASSUME FrameInv, frames' = FramesAfter, QuietHandler
  PROVE  FrameInv'
  BY NoNewFrame, QuietEnd DEF QuietHandler

\* An instruction that stops for a bad operand leaves memory alone.
LEMMA FailKeepsFrames ==
  ASSUME FrameInv, frames' = FramesAfter, Fail
  PROVE  FrameInv'
<1>1. NoWrite /\ state' = "HALT"
  BY DEF Fail, FailWith
<1> QED BY <1>1, NoNewFrame, QuietEnd

\* A handler that reads now and goes on in the next cycle.
LEMMA ReadsKeepFrames ==
  ASSUME Inv, FrameInv, frames' = FramesAfter, LdrMemRead \/ RetPopLow
  PROVE  FrameInv'
<1>1. /\ selected_opcode \in {LDR_MEM, RET} /\ instr_exec_cycle = 0
      /\ selected_opcode' = selected_opcode
      /\ state = "EXECUTE" /\ state' = "EXECUTE" /\ NoWrite
      /\ instr_exec_cycle' = 1
  BY DEF LdrMemRead, RetPopLow, Executing, Ready, Pending, fetchVars
<1>2. FramesTyped' /\ FramesIntact'
  BY <1>1, NoNewFrame, StillIntact DEF FrameInv, NoWrite, memoryVars
<1>3. FramesAbove' /\ OnePushed' /\ BothPushed'
  BY <1>1 DEF FramesAbove, Unpushed, OnePushed, BothPushed, CallPending
<1>4. LowPopped'
  <2>1. CASE LdrMemRead
    BY <1>1, <2>1 DEF LowPopped, ReturnPending, LdrMemRead, Executing
  <2>2. CASE RetPopLow
    <3>1. value_buf' \in BusRead(StackTop) /\ registers' = Popped
      BY <2>2 DEF RetPopLow
    <3>2. SP' = StackTop
      <4>1. registers \in [Register -> Byte] /\ SP + 1 \in Int
        BY PcSpType, WordAround DEF Inv, TypeOK
      <4>2. Pair(SetPair(registers, REG_SP, SP + 1), REG_SP) = (SP + 1) % 65536
        BY <4>1, SetPairType DEF REG_SP
      <4> QED BY <3>1, <4>2 DEF SP, Popped, StackTop
    <3> QED BY <1>1, <3>1, <3>2, SameReads DEF LowPopped
  <2> QED BY <2>1, <2>2
<1> QED BY <1>2, <1>3, <1>4 DEF FrameInv

-----------------------------------------------------------------------------
\* Writes: a store spares the frames that are left, a push those above SP.

\* One handler cycle of PSH, POP and STR.
LEMMA FirstCycle ==
  ASSUME Inv, state = "EXECUTE", ExecCycles(selected_opcode) = 1
  PROVE  instr_exec_cycle = 0
  BY DEF Inv, TypeOK, ExecCycleBound, Byte

LEMMA StoreKeepsFrames ==
  ASSUME FrameInv, frames' = FramesAfter, ExecStr
  PROVE  FrameInv'
<1>1. CASE ValidRegisters(STR, instr_buf)
  <2> DEFINE addr == Address(instr_buf, 2)
             byte == registers[instr_buf[1]]
  <2>1. /\ wram' = WramAfter(wram, addr, byte) /\ state' = "FETCH_OPCODE"
        /\ selected_opcode = STR
    BY <1>1 DEF ExecStr, BusWrite, Succeed, Executing
  <2>2. frames' \subseteq frames
    BY <2>1, NoNewFrame
  <2>3. \A f \in frames' : addr \notin FrameBytes(f)
    BY DEF FramesAfter, StoresOver
  <2> HIDE DEF addr, byte
  <2>4. FramesTyped' /\ FramesIntact'
    BY <2>1, <2>2, <2>3, StillIntactBeside DEF FrameInv
  <2>5. FramesAbove'
    BY <2>1, PassedFramesGone DEF FramesAbove
  <2>6. OnePushed' /\ BothPushed' /\ LowPopped'
    BY <2>1 DEF OnePushed, BothPushed, LowPopped, CallPending, ReturnPending
  <2> QED BY <2>4, <2>5, <2>6 DEF FrameInv
<1>2. CASE ~ValidRegisters(STR, instr_buf)
  BY <1>2, FailKeepsFrames DEF ExecStr
<1> QED BY <1>1, <1>2

\* A frame at SP or above it has its bytes above it.
LEMMA BytesAbove ==
  ASSUME NEW f, f.sp \in Word, NEW sp \in Int, f.sp >= sp
  PROVE  sp \notin FrameBytes(f)
<1>1. f.sp \in Int
  BY WordBounds
<1> QED BY <1>1 DEF FrameBytes

\* A push beside every frame.
LEMMA PushKeepsIntact ==
  ASSUME Inv, FrameInv, frames' \subseteq frames, NEW byte, StackPush(byte),
         \A f \in frames : InRam(f) => SP \notin FrameBytes(f)
  PROVE  /\ FramesTyped' /\ FramesIntact'
         /\ SP' = (SP - 1) % 65536 /\ PC' = PC
         /\ SP \in Int /\ 0 <= SP /\ SP <= 65535
<1>1. /\ registers \in [Register -> Byte]
      /\ SP \in Word /\ SP - 1 \in Int /\ SP \in Int /\ 0 <= SP /\ SP <= 65535
  BY PcSpType, WordAround, WordBounds DEF Inv, TypeOK
<1>2. wram' = WramAfter(wram, SP, byte) /\ registers' = SetPair(registers, REG_SP, SP - 1)
  BY DEF StackPush, BusWrite
<1>3. \A f \in frames' : InRam(f) => SP \notin FrameBytes(f)
  OBVIOUS
<1>4. FramesTyped' /\ FramesIntact'
  BY <1>2, <1>3, StillIntactBeside DEF FrameInv
<1>5. SP' = (SP - 1) % 65536
  BY <1>1, <1>2, SetPairType DEF SP, REG_SP
<1>6. PC' = PC
  BY <1>1, <1>2, StackKeepsPc DEF PC
<1> QED BY <1>1, <1>4, <1>5, <1>6

LEMMA PshKeepsFrames ==
  ASSUME Inv, FrameInv, frames' = FramesAfter, ExecPsh
  PROVE  FrameInv'
<1>1. CASE ValidRegisters(PSH, instr_buf)
  <2>1. /\ StackPush(registers[instr_buf[1]]) /\ state' = "FETCH_OPCODE"
        /\ selected_opcode = PSH /\ state = "EXECUTE"
    BY <1>1 DEF ExecPsh, Succeed, Executing, Ready
  <2>2. frames' \subseteq frames
    BY <2>1, NoNewFrame
  <2>3. instr_exec_cycle = 0
    <3>1. ExecCycles(PSH) = 1
      BY DEF ExecCycles
    <3> QED BY <2>1, <3>1, FirstCycle
  <2>4. \A f \in frames : SP \notin FrameBytes(f)
    <3>1. \A f \in frames : f.sp >= SP /\ f.sp \in Word
      BY <2>1, <2>3 DEF FrameInv, FramesAbove, FramesTyped, Unpushed
    <3>2. SP \in Int
      BY PcSpType, WordBounds
    <3> QED BY <3>1, <3>2, BytesAbove
  <2>5. FramesTyped' /\ FramesIntact'
    BY <2>1, <2>2, <2>4, PushKeepsIntact
  <2>6. FramesAbove'
    BY <2>1, PassedFramesGone DEF FramesAbove
  <2>7. OnePushed' /\ BothPushed' /\ LowPopped'
    BY <2>1 DEF OnePushed, BothPushed, LowPopped, CallPending, ReturnPending
  <2> QED BY <2>5, <2>6, <2>7 DEF FrameInv
<1>2. CASE ~ValidRegisters(PSH, instr_buf)
  BY <1>2, FailKeepsFrames DEF ExecPsh
<1> QED BY <1>1, <1>2

\* One byte pushed: it lies above the new SP.
LEMMA AboveNewSp ==
  ASSUME NEW sp \in Int, 0 <= sp, sp <= 65535
  PROVE  (((sp - 1) % 65536) + 1) % 65536 = sp
  OBVIOUS

LEMMA CalPushHighKeepsFrames ==
  ASSUME Inv, FrameInv, frames' = FramesAfter, CalPushHigh
  PROVE  FrameInv'
<1>1. /\ state = "EXECUTE" /\ instr_exec_cycle = 0
      /\ StackPush(Hi(PC)) /\ value_buf' = Lo(PC)
      /\ state' = "EXECUTE" /\ instr_exec_cycle' = 1
      /\ selected_opcode \in {CAL_MEM, CAL_REG} /\ selected_opcode' = selected_opcode
  BY DEF CalPushHigh, Executing, Ready, Pending, fetchVars
<1>2. frames' \subseteq frames
  BY <1>1, NoNewFrame
<1>3. \A f \in frames : f.sp >= SP /\ SP \notin FrameBytes(f)
  <2>1. \A f \in frames : f.sp >= SP /\ f.sp \in Word
    BY <1>1 DEF FrameInv, FramesAbove, FramesTyped, Unpushed
  <2>2. SP \in Int
    BY PcSpType, WordBounds
  <2> QED BY <2>1, <2>2, BytesAbove
<1>4. /\ FramesTyped' /\ FramesIntact'
      /\ SP' = (SP - 1) % 65536 /\ PC' = PC
      /\ SP \in Int /\ 0 <= SP /\ SP <= 65535
  BY <1>1, <1>2, <1>3, PushKeepsIntact
<1>5. (SP' + 1) % 65536 = SP
  BY <1>4, AboveNewSp
<1>6. SP \in WRAM => Cell(wram', WramIndex(SP)) = Hi(PC)
  <2>1. wram' = WramAfter(wram, SP, Hi(PC))
    BY <1>1 DEF StackPush, BusWrite
  <2> QED BY <2>1, WramCells
<1>7. OnePushed'
  <2>1. Holds((SP + 1) % 65536, Hi(PC))'
    BY <1>4, <1>5, <1>6 DEF Holds, WramAt
  <2>2. \A f \in frames' : f.sp >= (SP' + 1) % 65536
    BY <1>2, <1>3, <1>5
  <2> QED BY <1>1, <1>4, <2>1, <2>2 DEF OnePushed
<1>8. FramesAbove' /\ BothPushed' /\ LowPopped'
  BY <1>1 DEF FramesAbove, Unpushed, BothPushed, LowPopped, CallPending, ReturnPending
<1> QED BY <1>4, <1>7, <1>8 DEF FrameInv

\* Two bytes pushed: the address below 2^16 does not wrap.
LEMMA AboveBoth ==
  ASSUME NEW sp \in Int, 0 <= sp, sp <= 65535
  PROVE  /\ (((sp - 1) % 65536) + 2) % 65536 = (sp + 1) % 65536
         /\ (sp + 1) % 65536 # sp
         /\ sp < 65535 => (sp + 1) % 65536 = sp + 1
  OBVIOUS

LEMMA CalPushLowKeepsFrames ==
  ASSUME Inv, FrameInv, frames' = FramesAfter, CalPushLow
  PROVE  FrameInv'
<1>1. /\ state = "EXECUTE" /\ instr_exec_cycle = 1
      /\ StackPush(value_buf)
      /\ state' = "EXECUTE" /\ instr_exec_cycle' = 2
      /\ selected_opcode \in {CAL_MEM, CAL_REG} /\ selected_opcode' = selected_opcode
  BY DEF CalPushLow, Executing, Ready, Pending, fetchVars
<1>2. frames' \subseteq frames
  BY <1>1, NoNewFrame
<1>3. /\ value_buf = Lo(PC)
      /\ Holds((SP + 1) % 65536, Hi(PC))
      /\ \A f \in frames : f.sp >= (SP + 1) % 65536
  BY <1>1 DEF FrameInv, OnePushed, CallPending
<1>4. SP \in Int /\ 0 <= SP /\ SP <= 65535
  BY PcSpType, WordBounds
<1>5. \A f \in frames : InRam(f) => SP \notin FrameBytes(f)
  <2> SUFFICES ASSUME NEW f \in frames, InRam(f) PROVE SP \notin FrameBytes(f)
    OBVIOUS
  <2>1. f.sp \in Word /\ f.sp \in Int
    BY WordBounds DEF FrameInv, FramesTyped
  <2>2. CASE SP < 65535
    <3>1. (SP + 1) % 65536 = SP + 1
      BY <1>4, <2>2, AboveBoth
    <3>2. f.sp >= SP
      BY <1>3, <1>4, <2>1, <3>1
    <3> QED BY <1>4, <2>1, <3>2, BytesAbove
  <2>3. CASE SP = 65535
    <3>1. SP \notin WRAM
      BY <2>3 DEF WRAM, WRAM0, WRAMN
    <3> QED BY <3>1 DEF InRam
  <2> QED BY <1>4, <2>2, <2>3
<1>6. /\ FramesTyped' /\ FramesIntact'
      /\ SP' = (SP - 1) % 65536 /\ PC' = PC
  BY <1>1, <1>2, <1>5, PushKeepsIntact
<1>7. /\ (SP' + 1) % 65536 = SP
      /\ (SP' + 2) % 65536 = (SP + 1) % 65536
  BY <1>4, <1>6, AboveNewSp, AboveBoth
<1>8. BothPushed'
  <2>1. wram' = WramAfter(wram, SP, Lo(PC))
    BY <1>1, <1>3 DEF StackPush, BusWrite
  <2>2. Holds((SP + 1) % 65536, Lo(PC))'
    <3>1. SP \in WRAM => Cell(wram', WramIndex(SP)) = Lo(PC)
      BY <2>1, WramCells
    <3> QED BY <1>6, <1>7, <3>1 DEF Holds, WramAt
  <2>3. Holds((SP + 2) % 65536, Hi(PC))'
    <3> DEFINE above == (SP + 1) % 65536
    <3>1. above # SP
      BY <1>4, AboveBoth
    <3>2. above \in WRAM => Cell(wram, WramIndex(above)) = Hi(PC)
      BY <1>3 DEF Holds, WramAt
    <3>3. above \in WRAM => Cell(wram', WramIndex(above)) = Hi(PC)
      <4> HIDE DEF above
      <4>1. CASE SP \in WRAM
        BY <2>1, <3>1, <3>2, <4>1, WramCells
      <4>2. CASE SP \notin WRAM
        BY <2>1, <3>2, <4>2 DEF WramAfter
      <4> QED BY <4>1, <4>2
    <3> QED BY <1>6, <1>7, <3>3 DEF Holds, WramAt
  <2> QED BY <2>2, <2>3 DEF BothPushed
<1>9. FramesAbove' /\ OnePushed' /\ LowPopped'
  BY <1>1 DEF FramesAbove, Unpushed, OnePushed, LowPopped, CallPending, ReturnPending
<1> QED BY <1>6, <1>8, <1>9 DEF FrameInv

\* The frame that a call leaves is the two bytes it has pushed.
LEMMA NewFrameIntact ==
  ASSUME Inv, FrameInv, CallPending(2), InRam(Frame(SP, PC))
  PROVE  WramAt(SP + 1) = Lo(PC) /\ WramAt(SP + 2) = Hi(PC)
<1>1. SP \in Int
  BY PcSpType, WordBounds
<1>2. SP + 1 \in WRAM /\ SP + 2 \in WRAM
  BY DEF InRam, FrameBytes, Frame
<1>3. (SP + 1) % 65536 = SP + 1 /\ (SP + 2) % 65536 = SP + 2
  BY <1>1, <1>2 DEF WRAM, WRAM0, WRAMN
<1> QED BY <1>2, <1>3 DEF FrameInv, BothPushed, Holds

LEMMA CalJumpKeepsFrames ==
  ASSUME Inv, FrameInv, frames' = FramesAfter, CalJump
  PROVE  FrameInv'
<1>1. /\ state = "EXECUTE" /\ selected_opcode \in {CAL_MEM, CAL_REG}
      /\ instr_exec_cycle \notin {0, 1}
  BY DEF CalJump, Executing, Ready
<1>2. instr_exec_cycle = 2
  <2>1. instr_exec_cycle < 3 /\ instr_exec_cycle \in Byte
    BY <1>1, SeveralCycles DEF Inv, TypeOK, ExecCycleBound
  <2> QED BY <1>1, <2>1 DEF Byte
<1>3. CASE selected_opcode = CAL_MEM \/ ValidPair(instr_buf[1])
  <2>1. NoWrite /\ state' = "FETCH_OPCODE" /\ wram' = wram
    BY <1>2, <1>3 DEF CalJump, Succeed, NoWrite, memoryVars
  <2>2. frames' \subseteq frames \cup {Frame(SP, PC)}
    BY DEF FramesAfter
  <2>3. FramesTyped'
    BY <2>2, PcSpType DEF FrameInv, FramesTyped, Frame
  <2>4. FramesIntact'
    <3> SUFFICES ASSUME NEW f \in frames', InRam(f)
                 PROVE  WramAt(f.sp + 1) = Lo(f.back) /\ WramAt(f.sp + 2) = Hi(f.back)
      BY <2>1 DEF FramesIntact, InRam, FrameBytes, WramAt
    <3>1. CASE f \in frames
      BY <3>1 DEF FrameInv, FramesIntact
    <3>2. CASE f = Frame(SP, PC)
      <4>1. f.sp = SP /\ f.back = PC
        BY <3>2 DEF Frame
      <4> QED BY <1>1, <1>2, <3>2, <4>1, NewFrameIntact DEF CallPending
    <3> QED BY <2>2, <3>1, <3>2
  <2>5. FramesAbove'
    BY <2>1, PassedFramesGone DEF FramesAbove
  <2>6. OnePushed' /\ BothPushed' /\ LowPopped'
    BY <2>1 DEF OnePushed, BothPushed, LowPopped, CallPending, ReturnPending
  <2> QED BY <2>3, <2>4, <2>5, <2>6 DEF FrameInv
<1>4. CASE ~(selected_opcode = CAL_MEM \/ ValidPair(instr_buf[1]))
  BY <1>4, FailKeepsFrames DEF CalJump
<1> QED BY <1>3, <1>4

-----------------------------------------------------------------------------
LEMMA NextKeepsFrames ==
  Inv /\ FrameInv /\ [NextFrames]_<<vars, frames>> => FrameInv'
<1> SUFFICES ASSUME Inv, FrameInv, [NextFrames]_<<vars, frames>> PROVE FrameInv'
  OBVIOUS
<1>1. CASE UNCHANGED <<vars, frames>>
  BY <1>1, WaitKeepsFrames DEF vars, cpuVars, fetchVars, NoWrite
<1> SUFFICES ASSUME Next, frames' = FramesAfter PROVE FrameInv'
  BY <1>1 DEF NextFrames
<1>2. CASE Wait
  <2>1. latency_cycles # 0
    BY <1>2 DEF Wait, Inv, TypeOK, Byte
  <2>2. NoWrite
    BY <1>2 DEF Wait, NoWrite
  <2> QED BY <1>2, <2>1, <2>2, NoNewFrame, WaitKeepsFrames DEF Wait, fetchVars
<1>3. CASE FetchOpcode \/ Decode \/ FetchOperand \/ OperandsComplete
  BY <1>3, StagesKeepFrames
<1>4. CASE \/ ExecNop \/ ExecMov \/ ExecSwp \/ ExecClr
           \/ ExecBinary \/ ExecUnary \/ ExecJump
           \/ ExecHlt \/ ExecInvalid
           \/ ExecLdrImm \/ LdrMemStore \/ ExecPop \/ RetPopHigh
  BY <1>4, QuietHandlers, QuietHandlersKeepFrames
<1>5. CASE LdrMemRead \/ RetPopLow
  BY <1>5, ReadsKeepFrames
<1>6. CASE ExecStr
  BY <1>6, StoreKeepsFrames
<1>7. CASE ExecPsh
  BY <1>7, PshKeepsFrames
<1>8. CASE CalPushHigh
  BY <1>8, CalPushHighKeepsFrames
<1>9. CASE CalPushLow
  BY <1>9, CalPushLowKeepsFrames
<1>10. CASE CalJump
  BY <1>10, CalJumpKeepsFrames
<1> QED BY <1>2, <1>3, <1>4, <1>5, <1>6, <1>7, <1>8, <1>9, <1>10 DEF Next

LEMMA FramesInvariance == SpecFrames => [](Inv /\ FrameInv)
<1>1. InitFrames => Inv /\ FrameInv
  <2> SUFFICES ASSUME Init, frames = {} PROVE Inv /\ FrameInv
    BY DEF InitFrames
  <2>1. state = "FETCH_OPCODE"
    BY DEF Init
  <2>2. FrameInv
    BY <2>1 DEF FrameInv, FramesTyped, FramesIntact, FramesAbove, OnePushed,
                BothPushed, LowPopped, CallPending, ReturnPending
  <2> QED BY <2>2, InitInv
<1>2. Inv /\ FrameInv /\ [NextFrames]_<<vars, frames>> => (Inv /\ FrameInv)'
  <2>1. [NextFrames]_<<vars, frames>> => [Next]_vars
    BY DEF NextFrames
  <2> QED BY <2>1, NextKeepsInv, NextKeepsFrames
<1> QED BY <1>1, <1>2, PTL DEF SpecFrames

\* For every cartridge, the return address of every call under way stays in
\* work RAM, whatever is pushed, popped and called above it.
THEOREM ReturnAddressesKept == SpecFrames => []FramesIntact
<1>1. FrameInv => FramesIntact
  BY DEF FrameInv
<1> QED BY <1>1, FramesInvariance, PTL

\* The last cycle of a RET that began where a call left SP.
LEMMA ReturnStep ==
  ASSUME Inv, FrameInv, RetPopHigh, state' = "FETCH_OPCODE",
         NEW f \in frames, SP = f.sp + 1, InRam(f)
  PROVE  PC' = f.back /\ SP' = f.sp + 2
<1>1. f.sp \in Int /\ f.back \in Word /\ f.sp + 1 \in WRAM /\ f.sp + 2 \in WRAM
  BY WordBounds DEF FrameInv, FramesTyped, InRam, FrameBytes
<1>2. StackTop = f.sp + 2
  <2>1. 0 <= f.sp + 2 /\ f.sp + 2 <= 65535
    BY <1>1, WramPlace
  <2>2. (f.sp + 1) + 1 = f.sp + 2 /\ (f.sp + 2) % 65536 = f.sp + 2
    BY <1>1, <2>1
  <2> QED BY <2>2 DEF StackTop
<1>3. state = "EXECUTE" /\ selected_opcode = RET /\ instr_exec_cycle # 0
  BY DEF RetPopHigh, Executing, Ready
<1>4. instr_exec_cycle = 1
  <2>1. instr_exec_cycle # 1 => Fail
    BY DEF RetPopHigh
  <2> QED BY <2>1 DEF Fail, FailWith
<1>5. \A addr \in WRAM : BusRead(addr) = {WramAt(addr)}
  <2> SUFFICES ASSUME NEW addr \in WRAM PROVE BusRead(addr) = {WramAt(addr)}
    OBVIOUS
  <2>1. addr \notin BIOS /\ addr \notin ROM /\ addr \notin ERAM
    BY WramPlace
  <2> QED BY <2>1 DEF BusRead, WramAt
<1>6. value_buf = Lo(f.back)
  <2>1. value_buf \in BusRead(f.sp + 1)
    BY <1>3, <1>4 DEF FrameInv, LowPopped, ReturnPending
  <2> QED BY <1>1, <1>5, <2>1 DEF FrameInv, FramesIntact
<1>7. registers' = SetPair(Popped, REG_PC, MkWord(value_buf, Hi(f.back)))
  <2>1. PICK high \in BusRead(StackTop) :
          registers' = SetPair(Popped, REG_PC, MkWord(value_buf, high))
    BY <1>4 DEF RetPopHigh
  <2>2. high = Hi(f.back)
    BY <1>1, <1>2, <1>5 DEF FrameInv, FramesIntact
  <2> QED BY <2>1, <2>2
<1>8. registers' = SetPair(Popped, REG_PC, f.back)
  BY <1>1, <1>6, <1>7, SplitWord
<1>9. PC' = f.back
  <2>1. Popped \in [Register -> Byte] /\ f.back \in Int
    BY <1>1, PopEffect, WordBounds
  <2>2. Pair(registers', REG_PC) = f.back % 65536
    BY <1>8, <2>1, SetPairType DEF REG_PC
  <2>3. f.back % 65536 = f.back
    <3>1. 0 <= f.back /\ f.back <= 65535
      BY <1>1, WordBounds
    <3> QED BY <2>1, <3>1
  <2> QED BY <2>2, <2>3 DEF PC
<1>10. SP' = f.sp + 2
  <2>1. Popped \in [Register -> Byte] /\ f.back \in Int
    BY <1>1, PopEffect, WordBounds
  <2>2. Pair(registers', REG_SP) = Pair(Popped, REG_SP)
    BY <1>8, <2>1, PcKeepsStack
  <2>3. Pair(Popped, REG_SP) = (SP + 1) % 65536
    <3>1. registers \in [Register -> Byte] /\ SP + 1 \in Int
      BY PcSpType, WordAround DEF Inv, TypeOK
    <3> QED BY <3>1, SetPairType DEF Popped, REG_SP
  <2> QED BY <1>2, <2>2, <2>3 DEF SP, StackTop
<1> QED BY <1>9, <1>10

\* For every cartridge, a RET that begins where a call left SP goes back
\* behind that call, with the caller's SP.
THEOREM CallsReturn == SpecFrames => ReturnsToCaller
<1> DEFINE Returns ==
      RetPopHigh /\ state' = "FETCH_OPCODE" =>
        \A f \in frames :
          SP = f.sp + 1 /\ InRam(f) => PC' = f.back /\ SP' = f.sp + 2
<1>1. Inv /\ FrameInv => Returns
  BY ReturnStep
<1>2. ReturnsToCaller <=> [][Returns]_<<vars, frames>>
  BY DEF ReturnsToCaller
<1> HIDE DEF Returns
<1> QED BY <1>1, <1>2, FramesInvariance, PTL
=============================================================================
