-------------------------------- MODULE Wram --------------------------------
(***************************************************************************)
(* The work RAM device (src/mem/wram.c).  Every Km8Context has an array of *)
(* its own, behind a window of two halves: a fixed one, and one that       *)
(* km8_wram_select_bank moves.  The bank register is not part of the       *)
(* context: it is one static byte, which moves the windows of all of them, *)
(* and takes any value, to be reduced only when it is used.                *)
(***************************************************************************)
EXTENDS Integers

CONSTANTS
  WRAM_FIXED_SIZE, WRAM_BANK_COUNT, WRAM_BANK_SIZE,   \* 0x2000, 8, 0x2000
  Context,               \* the Km8Contexts
  Value,                 \* the bytes written
  BankRegister           \* the banks selected: a uint8_t in the code

ASSUME WramAssumption ==
  /\ WRAM_FIXED_SIZE \in Nat
  /\ WRAM_BANK_COUNT \in Nat \ {0}
  /\ WRAM_BANK_SIZE \in Nat \ {0}
  /\ BankRegister \subseteq Nat /\ 0 \in BankRegister
  /\ 0 \in Value

VARIABLES
  wram,                  \* Km8Context.wram of each context
  gCurBank

wramVars == <<wram, gCurBank>>

WRAM_SIZE == WRAM_FIXED_SIZE + WRAM_BANK_COUNT * WRAM_BANK_SIZE
Offset == 0..(WRAM_SIZE - 1)
Local == 0..(WRAM_FIXED_SIZE + WRAM_BANK_SIZE - 1)

Cleared == [o \in Offset |-> 0]

InitWram ==
  /\ wram = [c \in Context |-> Cleared]
  /\ gCurBank = 0

\* wram_resolve_offset
ResolveOffset(local) ==
  IF local < WRAM_FIXED_SIZE THEN local
  ELSE WRAM_FIXED_SIZE
         + (((gCurBank % WRAM_BANK_COUNT) * WRAM_BANK_SIZE
               + (local - WRAM_FIXED_SIZE))
              % (WRAM_BANK_COUNT * WRAM_BANK_SIZE))

\* Mutation: a read does not follow the bank register.
Read_FirstBank(c, local) == wram[c][local]

\* on_read
Read(c, local) == wram[c][ResolveOffset(local)]

\* on_write
Write(c, local, value) ==
  /\ wram' = [wram EXCEPT ![c][ResolveOffset(local)] = value]
  /\ UNCHANGED gCurBank

\* km8_wram_select_bank
SelectBank(bank) ==
  /\ gCurBank' = bank
  /\ UNCHANGED wram

\* Mutation: a new context starts with the first bank in the window.
Create_ResetBank(c) ==
  /\ wram' = [wram EXCEPT ![c] = Cleared]
  /\ gCurBank' = 0

\* km8_create_context; the bank selected for the contexts there were stays.
Create(c) ==
  /\ wram' = [wram EXCEPT ![c] = Cleared]
  /\ UNCHANGED gCurBank

-----------------------------------------------------------------------------
(***************************************************************************)
(* Whatever byte is in the bank register, every local address of the       *)
(* window resolves to a cell of the array, and two of them never to the    *)
(* same one (wram.c:9-19).                                                 *)
(***************************************************************************)
WindowFitsArray ==
  /\ \A local \in Local : ResolveOffset(local) \in Offset
  /\ \A i, j \in Local : ResolveOffset(i) = ResolveOffset(j) => i = j

-----------------------------------------------------------------------------
\* The fixed memory and the banks that lie in each array.
FixedPart ==
  [c \in Context |-> [i \in 0..(WRAM_FIXED_SIZE - 1) |-> wram[c][i]]]
BankParts ==
  [c \in Context |->
     [k \in 0..(WRAM_BANK_COUNT - 1) |->
        [i \in 0..(WRAM_BANK_SIZE - 1) |->
           wram[c][WRAM_FIXED_SIZE + k * WRAM_BANK_SIZE + i]]]]

Banked == INSTANCE BankedMemory WITH
  FixedSize <- WRAM_FIXED_SIZE, BankCount <- WRAM_BANK_COUNT,
  BankSize <- WRAM_BANK_SIZE,
  fixed <- FixedPart, banks <- BankParts, bank <- gCurBank

(***************************************************************************)
(* The arrays behave as a fixed memory and separate banks for each         *)
(* context: a write through the window changes the bank shown, of the      *)
(* context that writes, and nothing else; what is in a bank is still there *)
(* when it is shown again, whoever moved the window in between.            *)
(***************************************************************************)
ImplementsBanks == Banked!Spec
=============================================================================
