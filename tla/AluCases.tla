------------------------------ MODULE AluCases ------------------------------
(***************************************************************************)
(* Every operation of the ALU on every pair of operands and both carries.  *)
(* A behaviour chooses operands, then applies one operation to them; the   *)
(* invariants compare the result and the flags with integer arithmetic.    *)
(***************************************************************************)
EXTENDS Alu

CONSTANT Operands        \* the operand bytes tried
ASSUME OperandsAssumption == Operands \subseteq Byte

VARIABLES
  a, b, cin,             \* the operands and the carry on entry
  op,                    \* the operation applied, "none" before
  out                    \* its outcome

vars == <<a, b, cin, op, out>>

Init ==
  /\ a \in Operands /\ b \in Operands /\ cin \in {0, 1}
  /\ op = "none"
  /\ out = Logical(0)

Apply(name, outcome) ==
  /\ op = "none"
  /\ op' = name
  /\ out' = outcome
  /\ UNCHANGED <<a, b, cin>>

ApplyAdd == Apply("add", Add(a, b))
ApplyAdc == Apply("adc", Adc(a, b, cin))
ApplySub == Apply("sub", Sub(a, b))
ApplySbc == Apply("sbc", Sbc(a, b, cin))
ApplyShift ==
  \/ Apply("shl", Shl(a))
  \/ Apply("shr", Shr(a))
  \/ Apply("rol", Rol(a))
  \/ Apply("ror", Ror(a))

Next == ApplyAdd \/ ApplyAdc \/ ApplySub \/ ApplySbc \/ ApplyShift

Spec == Init /\ [][Next]_vars

-----------------------------------------------------------------------------
C == IF HasBit(out.flags, FLAG_C) THEN 1 ELSE 0
V == HasBit(out.flags, FLAG_V)

\* The value a byte has in two's complement.
Signed(x) == IF x > 127 THEN x - 256 ELSE x
OutOfRange(n) == n < -128 \/ n > 127

(***************************************************************************)
(* Result and carry together lose nothing: after ADD and ADC they are the  *)
(* nine-bit sum; after SUB the result minus the borrow is the difference.  *)
(* SBC keeps the same promise except where its truncated operand wraps     *)
(* (b = 255 with a borrow coming in), alu.c:56.                            *)
(***************************************************************************)
CarryExact ==
  /\ op = "add" => out.value + 256 * C = a + b
  /\ op = "adc" => out.value + 256 * C = a + b + cin
  /\ op = "sub" => out.value - 256 * C = a - b
  /\ op = "sbc" /\ ~(cin = 1 /\ b = 255)
       => out.value - 256 * C = a - b - cin

(***************************************************************************)
(* V is raised exactly when the signed result does not fit a byte.  ADC    *)
(* and SBC judge the sign of b + cin, which is not the sign of b when      *)
(* b = 127 and a carry comes in; there, and only there, V is the opposite  *)
(* of what signed arithmetic asks for (alu.c:23,29 and 56,63).             *)
(***************************************************************************)
OverflowExact ==
  LET wrong == cin = 1 /\ b = 127
  IN  /\ op = "add" => (V <=> OutOfRange(Signed(a) + Signed(b)))
      /\ op = "sub" => (V <=> OutOfRange(Signed(a) - Signed(b)))
      /\ op = "adc" =>
           (V <=> (OutOfRange(Signed(a) + Signed(b) + cin) # wrong))
      /\ op = "sbc" =>
           (V <=> (OutOfRange(Signed(a) - Signed(b) - cin) # wrong))

(***************************************************************************)
(* What CMP followed by a conditional jump relies on: after a subtraction  *)
(* Z decides equality, C the unsigned order, and N differing from V the    *)
(* signed order.                                                           *)
(***************************************************************************)
CompareDecides ==
  op = "sub" =>
    /\ HasBit(out.flags, FLAG_Z) <=> a = b
    /\ HasBit(out.flags, FLAG_C) <=> a < b
    /\ (HasBit(out.flags, FLAG_N) # V) <=> Signed(a) < Signed(b)

(***************************************************************************)
(* No shift or rotation loses a bit: the result and the carry give back    *)
(* the operand, so a chain of shifts can be undone or carried into the     *)
(* next byte.                                                              *)
(***************************************************************************)
ShiftLosesNothing ==
  /\ op = "shl" => out.value + 256 * C = 2 * a
  /\ op = "shr" => 2 * out.value + C = a
  /\ op = "rol" => out.value + 256 * C - C = 2 * a
  /\ op = "ror" => 2 * out.value - 256 * C + C = a
=============================================================================
