----------------------------- MODULE Cartridge -----------------------------
(***************************************************************************)
(* Loading and unloading cartridges (src/cartridge/cartridge.c).  An image *)
(* is what the loader looks at: its size and its header.  The loader       *)
(* allocates the Cartridge, its ROM and its RAM, each of which can fail,   *)
(* and gives up at the first check that does not hold, after freeing what  *)
(* it has.                                                                 *)
(***************************************************************************)
EXTENDS Integers

CONSTANTS
  Images,                \* [size, magic, rom_size_code, ram_size_code]
  MaxLoads               \* bound: calls of km8_load_cartridge

ASSUME CartridgeAssumption ==
  /\ MaxLoads \in Nat
  /\ \A image \in Images :
       /\ image.size \in Nat
       /\ image.magic \in BOOLEAN
       /\ image.rom_size_code \in 0..255
       /\ image.ram_size_code \in 0..255

VARIABLES
  loaded,                \* the Cartridges that callers hold
  heap,                  \* the blocks allocated: <<load, "cartridge">> and so on
  loads                  \* the loads so far

loaderVars == <<loaded, heap, loads>>

InitLoader == loaded = {} /\ heap = {} /\ loads = 0

-----------------------------------------------------------------------------
ROM_BANK_SIZE  == \h4000
ERAM_BANK_SIZE == \h1000
ROM_SIZE_CODES == <<2, 4, 8, 16, 32, 64, 128, 256, 512>>
RAM_SIZE_CODES == <<0, 1, 4, 16, 32, 64>>

RomBanks(image) == ROM_SIZE_CODES[image.rom_size_code + 1]
RamBanks(image) == RAM_SIZE_CODES[image.ram_size_code + 1]

WholeBanks(image) ==
  image.size >= ROM_BANK_SIZE /\ image.size % ROM_BANK_SIZE = 0

\* Mutation: the payload may be longer than the header says.
GoodHeader_LongPayload(image) ==
  /\ image.magic
  /\ image.rom_size_code < 9
  /\ RomBanks(image) * ROM_BANK_SIZE <= image.size
  /\ image.ram_size_code < 6

GoodHeader(image) ==
  /\ image.magic
  /\ image.rom_size_code < 9
  /\ RomBanks(image) * ROM_BANK_SIZE = image.size
  /\ image.ram_size_code < 6

\* A Cartridge with so many bytes of ROM and of RAM, 0 where the pointer is
\* NULL, and the size of the image copied into its ROM.
Cartridge(load, image, rom, ram) ==
  [load |-> load, rom |-> rom, ram |-> ram, copied |-> image.size]

\* What is allocated for a Cartridge.
Blocks(c) ==
  {<<c.load, "cartridge">>}
    \cup (IF c.rom > 0 THEN {<<c.load, "rom">>} ELSE {})
    \cup (IF c.ram > 0 THEN {<<c.load, "ram">>} ELSE {})

\* Mutation: the RAM is forgotten.
Freed_KeepRam(c) ==
  {<<c.load, "cartridge">>}
    \cup (IF c.rom > 0 THEN {<<c.load, "rom">>} ELSE {})

\* What km8_unload_cartridge frees.
Freed(c) ==
  {<<c.load, "cartridge">>}
    \cup (IF c.rom > 0 THEN {<<c.load, "rom">>} ELSE {})
    \cup (IF c.ram > 0 THEN {<<c.load, "ram">>} ELSE {})

-----------------------------------------------------------------------------
\* The loader returns NULL before it has allocated anything ...
Refuse == UNCHANGED <<loaded, heap>>

\* ... or after it has unloaded the Cartridge as far as it had come ...
GiveUp(c) ==
  /\ heap' = (heap \cup Blocks(c)) \ Freed(c)
  /\ UNCHANGED loaded

\* ... or it returns the Cartridge.
Return(c) ==
  /\ heap' = heap \cup Blocks(c)
  /\ loaded' = loaded \cup {c}

\* km8_load_cartridge, where the allocations named in failing fail.
Load(image, failing) ==
  LET with(rom, ram) == Cartridge(loads, image, rom, ram)
      romBytes == RomBanks(image) * ROM_BANK_SIZE
      ramBytes == RamBanks(image) * ERAM_BANK_SIZE
  IN
  /\ loads < MaxLoads
  /\ loads' = loads + 1
  /\ CASE ~WholeBanks(image) \/ "cartridge" \in failing -> Refuse
       [] OTHER ->
          IF ~GoodHeader(image) \/ "rom" \in failing THEN GiveUp(with(0, 0))
          ELSE IF ramBytes > 0 /\ "ram" \in failing THEN GiveUp(with(romBytes, 0))
          ELSE Return(with(romBytes, ramBytes))

\* km8_unload_cartridge; of NULL it does nothing.
Unload(c) ==
  /\ loaded' = loaded \ {c}
  /\ heap' = heap \ Freed(c)
  /\ UNCHANGED loads

NextLoader ==
  \/ \E image \in Images : \E failing \in SUBSET {"cartridge", "rom", "ram"} :
       Load(image, failing)
  \/ \E c \in loaded : Unload(c)

SpecLoader == InitLoader /\ [][NextLoader]_loaderVars

-----------------------------------------------------------------------------
(***************************************************************************)
(* Every block belongs to a Cartridge somebody holds, and every one of     *)
(* theirs is there: no path of the loader leaks, however far it came, and  *)
(* unloading one Cartridge leaves the others theirs.                       *)
(***************************************************************************)
HeapIsLoaded == heap = UNION {Blocks(c) : c \in loaded}

(***************************************************************************)
(* A Cartridge that was loaded can be run: it has the two banks of ROM     *)
(* that the fixed and the switchable window show (rom.c:9-20 reads them    *)
(* without a check), filled by the image and not overrun by it, and whole  *)
(* banks of RAM, no more than the uint8_t that ram.c:9 takes can count.    *)
(***************************************************************************)
RunnableRom ==
  \A c \in loaded :
    /\ c.rom >= 2 * ROM_BANK_SIZE
    /\ c.copied = c.rom
    /\ c.ram % ERAM_BANK_SIZE = 0 /\ c.ram \div ERAM_BANK_SIZE <= 255
=============================================================================
