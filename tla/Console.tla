------------------------------ MODULE Console ------------------------------
(***************************************************************************)
(* The library as an embedder uses it (README.md "Developing"): km8_init   *)
(* and devices of its own put on the bus, any number of times; several     *)
(* contexts created, now and again; and the accesses their CPUs make,      *)
(* which reach the work RAM of module Wram through the dispatch table of   *)
(* module Bus.  The table and the bank register are static: all contexts   *)
(* share them.                                                             *)
(*                                                                         *)
(* Of the devices only the work RAM keeps anything here: BIOS and ROM      *)
(* ignore writes, the cartridges have no RAM (module Memory has it), and   *)
(* what a device of the embedder does is the embedder's.                   *)
(***************************************************************************)
EXTENDS Bus, Wram, FiniteSets

CONSTANTS
  MaxForeign,            \* bound: the devices an embedder registers
  MaxWrites              \* bound: the writes to work RAM

ASSUME ConsoleAssumption ==
  /\ MaxForeign \in Nat /\ MaxWrites \in Nat
  /\ End[Wram] - Start[Wram] = WRAM_FIXED_SIZE + WRAM_BANK_SIZE - 1
  /\ \A j, k \in 1..4 : j # k => Cells(Defaults[j]) \cap Cells(Defaults[k]) = {}

VARIABLE writes          \* the writes so far

consoleVars == <<vars, wramVars, writes>>

ConsoleInit == Init /\ InitWram /\ writes = 0

-----------------------------------------------------------------------------
\* km8_init
InitBus == BusInit /\ UNCHANGED <<wramVars, writes>>

\* km8_bus_device_register, of a device of the embedder's
Foreign == Device \ {Bios, Rom, Eram, Wram}
RegisterForeign(d) ==
  LET tried == (accepted \cup refused) \cap Foreign IN
  /\ d \in tried \/ Cardinality(tried) < MaxForeign
  /\ Register(d)
  /\ UNCHANGED <<wramVars, writes>>

\* km8_create_context
CreateContext(c) == Create(c) /\ UNCHANGED <<vars, writes>>

\* km8_wram_select_bank
Select(bank) == SelectBank(bank) /\ UNCHANGED <<vars, writes>>

\* Mutation: the device is handed the address as the CPU gave it.
WorkRamWrite_Global(c, a, value) ==
  /\ writes < MaxWrites
  /\ Resolve(a) = Wram
  /\ Write(c, a % (WRAM_FIXED_SIZE + WRAM_BANK_SIZE), value)
  /\ writes' = writes + 1
  /\ UNCHANGED vars

\* km8_bus_write at an address that resolves to the work RAM; at any other it
\* changes nothing that is kept here.
WorkRamWrite(c, a, value) ==
  /\ writes < MaxWrites
  /\ Resolve(a) = Wram
  /\ Write(c, Localize(Wram, a), value)
  /\ writes' = writes + 1
  /\ UNCHANGED vars

\* km8_bus_read, likewise.
WorkRamRead(c, a) == Read(c, Localize(Wram, a))

ConsoleNext ==
  \/ InitBus
  \/ \E d \in Foreign : RegisterForeign(d)
  \/ \E c \in Context : CreateContext(c)
  \/ \E bank \in BankRegister : Select(bank)
  \/ \E c \in Context, a \in Address, value \in Value : WorkRamWrite(c, a, value)

ConsoleSpec == ConsoleInit /\ [][ConsoleNext]_consoleVars

-----------------------------------------------------------------------------
(***************************************************************************)
(* Once km8_init has been called, a device of the console is missing only  *)
(* because of an embedder: one of its devices holds an address of it, or   *)
(* of a device that km8_bus_init registers before it.  Calling km8_init a  *)
(* second time, whose error is dropped as well (core.c:5), and devices in  *)
(* the gaps of the address map, registered before it or after, leave none  *)
(* out, and the four do not stand in each other's way (bus.c:13-20).       *)
(***************************************************************************)
Initialised == Bios \in accepted \cup refused

DefaultsRegistered ==
  Initialised =>
    \A n \in 1..4 :
      \/ Defaults[n] \in accepted
      \/ \E k \in 1..n : \E a \in Cells(Defaults[k]) : Resolve(a) \in Foreign

(***************************************************************************)
(* What a CPU reads at an address of the work RAM is the cell of its own   *)
(* context that the address map names, in the fixed part or in the bank    *)
(* now shown, however much of the range the registrations left to the work *)
(* RAM (bus.c:22-37, wram.c:21-24).                                        *)
(***************************************************************************)
ReadsBankShown ==
  \A c \in Context, a \in Address :
    Resolve(a) = Wram =>
      LET i == a - Start[Wram]
      IN  WorkRamRead(c, a) =
            IF i < WRAM_FIXED_SIZE THEN FixedPart[c][i]
            ELSE BankParts[c][Banked!Shown][i - WRAM_FIXED_SIZE]

(***************************************************************************)
(* A write changes what is read at that address by the context that wrote, *)
(* and what is read at no other address and by no other context: two       *)
(* addresses of the window, two banks and two contexts never share a cell  *)
(* (bus.c:39-53, wram.c:9-29).                                             *)
(***************************************************************************)
WriteThenRead ==
  [][\A c \in Context, a \in Address, value \in Value :
       WorkRamWrite(c, a, value) =>
         \A d \in Context, b \in Address :
           Resolve(b) = Wram =>
             WorkRamRead(d, b)' =
               IF d = c /\ b = a THEN value ELSE WorkRamRead(d, b)]_consoleVars
=============================================================================
