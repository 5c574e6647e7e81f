---------------------------- MODULE BankedMemory ----------------------------
(***************************************************************************)
(* What the work RAM promises: each context has a fixed part that is       *)
(* always there, and several banks, each a memory of its own; one register *)
(* says which bank all of them see.                                        *)
(***************************************************************************)
EXTENDS Integers

CONSTANTS FixedSize, BankCount, BankSize, Context, Value, BankRegister

VARIABLES
  fixed,                 \* [Context -> [0..(FixedSize - 1) -> Value]]
  banks,                 \* [Context -> [0..(BankCount - 1) -> one bank]]
  bank                   \* the bank register; the bank seen is this one
                         \* modulo the number of banks

vars == <<fixed, banks, bank>>

Shown == bank % BankCount
ZeroFixed == [i \in 0..(FixedSize - 1) |-> 0]
ZeroBanks == [k \in 0..(BankCount - 1) |-> [i \in 0..(BankSize - 1) |-> 0]]

Init ==
  /\ fixed = [c \in Context |-> ZeroFixed]
  /\ banks = [c \in Context |-> ZeroBanks]
  /\ bank = 0

WriteFixed(c, i, value) ==
  /\ fixed' = [fixed EXCEPT ![c][i] = value]
  /\ UNCHANGED <<banks, bank>>

WriteBanked(c, i, value) ==
  /\ banks' = [banks EXCEPT ![c][Shown][i] = value]
  /\ UNCHANGED <<fixed, bank>>

Select(k) ==
  /\ bank' = k
  /\ UNCHANGED <<fixed, banks>>

\* A context that begins anew sees the bank the others see.
Clear(c) ==
  /\ fixed' = [fixed EXCEPT ![c] = ZeroFixed]
  /\ banks' = [banks EXCEPT ![c] = ZeroBanks]
  /\ UNCHANGED bank

Next ==
  \/ \E c \in Context, i \in 0..(FixedSize - 1), v \in Value : WriteFixed(c, i, v)
  \/ \E c \in Context, i \in 0..(BankSize - 1), v \in Value : WriteBanked(c, i, v)
  \/ \E k \in BankRegister : Select(k)
  \/ \E c \in Context : Clear(c)

Spec == Init /\ [][Next]_vars
=============================================================================
