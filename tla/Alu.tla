-------------------------------- MODULE Alu --------------------------------
(***************************************************************************)
(* The arithmetic and logic unit (src/cpu/alu.c) and the one-operand       *)
(* operations that src/cpu/opcodes.c computes in place.  Each operator     *)
(* returns the byte that the C function returns and the flags register it  *)
(* sets; who stores the byte, and where, is the instruction's business     *)
(* (module Cpu).                                                           *)
(***************************************************************************)
EXTENDS Bytes

FLAG_C == 1
FLAG_Z == 2
FLAG_N == 4
FLAG_V == 8

Flag(bit, set) == IF set THEN bit ELSE 0

Negative(x) == HasBit(x, 128)
SameSign(x, y) == Negative(x) <=> Negative(y)

\* A result and the flags register it leaves: every operation rewrites all
\* four flags, so a flag that is not raised is cleared.
Outcome(result, carry, overflow) ==
  [value |-> result,
   flags |-> Flag(FLAG_C, carry) + Flag(FLAG_Z, result = 0)
               + Flag(FLAG_N, Negative(result)) + Flag(FLAG_V, overflow)]

-----------------------------------------------------------------------------
\* cin is the carry flag on entry, 0 or 1.

\* Mutation: the carry is taken at 256 instead of above 255.
Add_CarryOffByOne(a, b) ==
  LET result == (a + b) % 256
  IN  Outcome(result, a + b > 256, SameSign(a, b) /\ ~SameSign(a, result))

Add(a, b) ==
  LET result == (a + b) % 256
  IN  Outcome(result, a + b > 255, SameSign(a, b) /\ ~SameSign(a, result))

\* Mutation: the carry is taken from a + b, as ADD takes it.
Adc_CarryIgnoresCin(a, b, cin) ==
  LET result == (a + b + cin) % 256
      operand2 == (b + cin) % 256
  IN  Outcome(result, a + b > 255,
              SameSign(a, operand2) /\ ~SameSign(a, result))

\* Overflow is judged against b + cin truncated to a byte.
Adc(a, b, cin) ==
  LET result == (a + b + cin) % 256
      operand2 == (b + cin) % 256
  IN  Outcome(result, a + b + cin > 255,
              SameSign(a, operand2) /\ ~SameSign(a, result))

\* Mutation: the carry means "no borrow", as on other processors.
Sub_CarryIsNoBorrow(a, b) ==
  LET result == (a - b) % 256
  IN  Outcome(result, a >= b, ~SameSign(a, b) /\ ~SameSign(a, result))

\* Mutation: overflow as for an addition.
Sub_OverflowOfAdd(a, b) ==
  LET result == (a - b) % 256
  IN  Outcome(result, a < b, SameSign(a, b) /\ ~SameSign(a, result))

Sub(a, b) ==
  LET result == (a - b) % 256
  IN  Outcome(result, a < b, ~SameSign(a, b) /\ ~SameSign(a, result))

\* Mutation: the borrow is taken from a and b, as SUB takes it.
Sbc_BorrowIgnoresCin(a, b, cin) ==
  LET result == (a - (b + cin)) % 256
      operand2 == (b + cin) % 256
  IN  Outcome(result, a < b, ~SameSign(a, operand2) /\ ~SameSign(a, result))

\* So is the borrow here: for b = 255 and cin = 1 the truncated operand is 0.
Sbc(a, b, cin) ==
  LET result == (a - (b + cin)) % 256
      operand2 == (b + cin) % 256
  IN  Outcome(result, a < operand2,
              ~SameSign(a, operand2) /\ ~SameSign(a, result))

-----------------------------------------------------------------------------
\* The bitwise operations, on the sets of bits that are 1.

Masks == {1, 2, 4, 8, 16, 32, 64, 128}
BitsOf(x) == {m \in Masks : HasBit(x, m)}
Bit(B, m) == IF m \in B THEN m ELSE 0
FromBits(B) == Bit(B, 1) + Bit(B, 2) + Bit(B, 4) + Bit(B, 8)
                 + Bit(B, 16) + Bit(B, 32) + Bit(B, 64) + Bit(B, 128)

Logical(result) == Outcome(result, FALSE, FALSE)

And(a, b) == Logical(FromBits(BitsOf(a) \cap BitsOf(b)))
Or(a, b)  == Logical(FromBits(BitsOf(a) \cup BitsOf(b)))
Xor(a, b) == Logical(FromBits((BitsOf(a) \cup BitsOf(b))
                                \ (BitsOf(a) \cap BitsOf(b))))
Not(a)    == Logical(255 - a)

\* Mutation: the top bit is shifted back in as a sign would be.
Ror_Arithmetic(a) == Outcome((a \div 2) + 128 * (a \div 128), HasBit(a, 1), FALSE)

\* The bit that leaves the byte goes to the carry, and comes back at the
\* other end in a rotation.
Shl(a) == Outcome((2 * a) % 256, HasBit(a, 128), FALSE)
Shr(a) == Outcome(a \div 2, HasBit(a, 1), FALSE)
Rol(a) == Outcome(((2 * a) % 256) + (a \div 128), HasBit(a, 128), FALSE)
Ror(a) == Outcome((a \div 2) + 128 * (a % 2), HasBit(a, 1), FALSE)
=============================================================================
