------------------------------ MODULE AluChain ------------------------------
(***************************************************************************)
(* How a program adds and subtracts numbers of several bytes: the lowest   *)
(* bytes with ADD or SUB, each following pair with ADC or SBC, the flags   *)
(* register carrying from one instruction to the next (alu.c:19-20 and     *)
(* 52-53 read it, every operation rewrites it).                            *)
(***************************************************************************)
EXTENDS Alu

CONSTANTS
  Operands,              \* the bytes the numbers are made of
  MaxBytes               \* bound: bytes in a number

ASSUME ChainAssumption ==
  /\ Operands \subseteq Byte
  /\ MaxBytes \in Nat \ {0}

VARIABLES
  flags,                 \* the flags register
  kind,                  \* "none", "add" or "sub": the chain under way
  weight,                \* 256 to the number of bytes done
  x, y, result,          \* the numbers of which those bytes are the low ones
  lost                   \* history: the weights of the borrows SBC dropped

vars == <<flags, kind, weight, x, y, result, lost>>

Carry == IF HasBit(flags, FLAG_C) THEN 1 ELSE 0

Init ==
  /\ flags = 0
  /\ kind = "none"
  /\ weight = 1
  /\ x = 0 /\ y = 0 /\ result = 0 /\ lost = 0

\* One more byte of each number has been processed, with this outcome.
Extend(a, b, outcome) ==
  /\ flags' = outcome.flags
  /\ result' = result + weight * outcome.value
  /\ x' = x + weight * a
  /\ y' = y + weight * b
  /\ weight' = 256 * weight

AddLowest ==
  /\ kind = "none"
  /\ kind' = "add"
  /\ \E a, b \in Operands : Extend(a, b, Add(a, b))
  /\ UNCHANGED lost

SubLowest ==
  /\ kind = "none"
  /\ kind' = "sub"
  /\ \E a, b \in Operands : Extend(a, b, Sub(a, b))
  /\ UNCHANGED lost

AdcNext ==
  /\ kind = "add" /\ weight < 256 ^ MaxBytes
  /\ \E a, b \in Operands : Extend(a, b, Adc(a, b, Carry))
  /\ UNCHANGED <<kind, lost>>

SbcNext ==
  /\ kind = "sub" /\ weight < 256 ^ MaxBytes
  /\ \E a, b \in Operands :
       /\ Extend(a, b, Sbc(a, b, Carry))
       /\ lost' = lost + IF b = 255 THEN 256 * weight * Carry ELSE 0
  /\ UNCHANGED kind

Next == AddLowest \/ SubLowest \/ AdcNext \/ SbcNext

Spec == Init /\ [][Next]_vars

-----------------------------------------------------------------------------
(***************************************************************************)
(* However long the chain, the bytes stored so far and the pending carry   *)
(* are the sum of the numbers, with nothing lost between two instructions. *)
(***************************************************************************)
AddChainExact == kind = "add" => result + Carry * weight = x + y

(***************************************************************************)
(* The same of a subtraction, as the comment on alu.c:60 says of the flag  *)
(* ("borrow occurred").  The code does not keep it: SBC of 255 with a      *)
(* borrow coming in compares with the wrapped operand 0 and drops the      *)
(* borrow, so the bytes above it are one too large.                        *)
(***************************************************************************)
SubChainExact == kind = "sub" => result - Carry * weight = x - y

(***************************************************************************)
(* What a subtraction keeps in spite of that: the dropped borrows account  *)
(* for the whole error, so a chain in which none is dropped is exact.      *)
(***************************************************************************)
SubChainAccount ==
  kind = "sub" => result - Carry * weight = x - y + lost
=============================================================================
