------------------------------- MODULE Memory -------------------------------
(***************************************************************************)
(* What the CPU reaches through the bus: the address map of                *)
(* internal/bus.h, the four devices that km8_bus_init registers on it      *)
(* (BIOS, cartridge ROM, cartridge RAM, work RAM) and the bytes they keep. *)
(*                                                                         *)
(* A memory is kept as the function of its cells that are not zero or have *)
(* been written; the program clears the rest (calloc, Km8Context ctx = {0})*)
(*                                                                         *)
(* The bank registers of the three banked devices are zero here: rom.c and *)
(* ram.c never write theirs, and nothing calls km8_wram_select_bank, which *)
(* module Wram models.                                                     *)
(***************************************************************************)
EXTENDS Bytes

CONSTANT StrayBytes      \* what a load outside an allocation may yield
ASSUME StrayAssumption == StrayBytes \subseteq Byte /\ StrayBytes # {}

VARIABLES
  wram,                  \* Km8Context.wram
  rom,                   \* Cartridge.rom
  ram,                   \* Cartridge.ram
  ram_bank_count,        \* Cartridge.ram_bank_count
  crashed                \* the process died of an access outside the RAM

memoryVars == <<wram, rom, ram, ram_bank_count>>

-----------------------------------------------------------------------------
\* internal/bus.h

BIOS  == \h0000..\h00FF
ROM0  == \h0100..\h40FF
ROMN  == \h4100..\h80FF
WRAM0 == \h8100..\hA0FF
WRAMN == \hA100..\hC0FF
ERAM  == \hE100..\hF0FF

ROM  == ROM0 \cup ROMN
WRAM == WRAM0 \cup WRAMN

SIZE_ROM0 == \h4000
SIZE_ERAM == \h1000

ROM_BANK_SIZE  == \h4000
ERAM_BANK_SIZE == \h1000
WRAM_SIZE      == 9 * \h2000

\* cartridge.c, RAM_SIZE_CODES
RamBankCounts == {0, 1, 4, 16, 32, 64}

\* get_latency of the device at an address; no device answers at once.
Latency(addr) ==
  CASE addr \in BIOS \cup WRAM0 -> 1
    [] addr \in ROM0 -> 4
    [] addr \in ROMN -> 5
    [] addr \in WRAMN -> 2
    [] addr \in ERAM -> 8
    [] OTHER -> 0

-----------------------------------------------------------------------------
Cell(memory, index) == IF index \in DOMAIN memory THEN memory[index] ELSE 0
Stored(memory, index, value) ==
  [i \in DOMAIN memory \cup {index} |-> IF i = index THEN value ELSE memory[i]]

\* Cells of a memory of the given size, holding bytes.
IsMemory(memory, size) ==
  \A i \in DOMAIN memory : i \in 0..(size - 1) /\ memory[i] \in Byte

\* gBios: LDR r7, 0xFF; LDR r8, 0xA0; JMP 0x0110
Bios == <<\h02, \h07, \hFF, \h02, \h08, \hA0, \h30, \h10, \h01>>
BiosByte(addr) == IF addr + 1 \in DOMAIN Bios THEN Bios[addr + 1] ELSE 0

\* With bank 0 selected the switchable window shows the fixed bank again.
RomIndex(addr) ==
  LET local == addr - \h0100
  IN  IF local < SIZE_ROM0 THEN local ELSE local - SIZE_ROM0

\* With bank 0 selected the banked half follows the fixed half.
WramIndex(addr) == addr - \h8100

\* C's %, which takes the sign of the dividend.
Remainder(n, d) == IF n >= 0 THEN n % d ELSE -((-n) % d)

\* map_address() of ram.c: the local address less a whole bank.  A negative
\* remainder becomes an index of almost 2^32 when it is made a uint32_t.
EramIndex(addr) ==
  LET local == addr - \hE100
  IN  Remainder(local - SIZE_ERAM, ERAM_BANK_SIZE * (ram_bank_count % 256))

EramInside(addr) == EramIndex(addr) \in 0..(ERAM_BANK_SIZE * ram_bank_count - 1)

\* The access leaves the cartridge RAM: undefined behaviour in C.
Stray(addr) == addr \in ERAM /\ ram_bank_count > 0 /\ ~EramInside(addr)

-----------------------------------------------------------------------------
\* The bytes a read of addr may return: km8_bus_read and on_read.
BusRead(addr) ==
  CASE addr \in BIOS -> {BiosByte(addr)}
    [] addr \in ROM  -> {Cell(rom, RomIndex(addr))}
    [] addr \in WRAM -> {Cell(wram, WramIndex(addr))}
    [] addr \in ERAM -> IF ram_bank_count = 0 THEN {0}
                        ELSE IF EramInside(addr) THEN {Cell(ram, EramIndex(addr))}
                        ELSE StrayBytes
    [] OTHER -> {0}

\* The work RAM and the cartridge RAM after a write to addr: on_write of
\* their devices.  A stray write lands in neither.
WramAfter(w, addr, value) ==
  IF addr \in WRAM THEN Stored(w, WramIndex(addr), value) ELSE w
RamAfter(r, addr, value) ==
  IF addr \in ERAM /\ ram_bank_count > 0 /\ EramInside(addr)
  THEN Stored(r, EramIndex(addr), value) ELSE r

\* km8_bus_write: BIOS, ROM and addresses without a device ignore it.
BusWrite(addr, value) ==
  /\ wram' = WramAfter(wram, addr, value)
  /\ ram' = RamAfter(ram, addr, value)
  /\ UNCHANGED <<rom, ram_bank_count>>

\* The other outcome of a stray access is that the process is killed.
MayCrash(addr) == crashed' \in IF Stray(addr) THEN BOOLEAN ELSE {FALSE}
=============================================================================
