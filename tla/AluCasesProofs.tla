--------------------------- MODULE AluCasesProofs ---------------------------
(***************************************************************************)
(* The operations of the ALU against integer arithmetic: what the run      *)
(* shows of the operands it enumerates, from the definitions.  A behaviour *)
(* keeps its operands and applies one operation to them (Applied), so that *)
(* each property is one of the outcomes of that operation.                 *)
(***************************************************************************)
EXTENDS AluCases, TLAPS

LEMMA ByteBounds ==
  ASSUME NEW n \in Byte
  PROVE  n \in Int /\ 0 <= n /\ n <= 255
  BY DEF Byte

\* Each of the four flags can be read back from their sum.
LEMMA FlagsReadBack ==
  ASSUME NEW c \in {0, 1}, NEW z \in {0, 2}, NEW n \in {0, 4}, NEW v \in {0, 8}
  PROVE  /\ HasBit(c + z + n + v, FLAG_C) <=> c = 1
         /\ HasBit(c + z + n + v, FLAG_Z) <=> z = 2
         /\ HasBit(c + z + n + v, FLAG_N) <=> n = 4
         /\ HasBit(c + z + n + v, FLAG_V) <=> v = 8
<1>1. ((c + z + n + v) \div 1) % 2 = c
  OBVIOUS
<1>2. ((c + z + n + v) \div 2) % 2 = IF z = 2 THEN 1 ELSE 0
  OBVIOUS
<1>3. ((c + z + n + v) \div 4) % 2 = IF n = 4 THEN 1 ELSE 0
  OBVIOUS
<1>4. ((c + z + n + v) \div 8) % 2 = IF v = 8 THEN 1 ELSE 0
  OBVIOUS
<1> QED BY <1>1, <1>2, <1>3, <1>4 DEF HasBit, FLAG_C, FLAG_Z, FLAG_N, FLAG_V

\* What an outcome's flags say of how it was made.
LEMMA OutcomeFlags ==
  ASSUME NEW result, NEW carry \in BOOLEAN, NEW overflow \in BOOLEAN
  PROVE  LET o == Outcome(result, carry, overflow) IN
         /\ o.value = result
         /\ HasBit(o.flags, FLAG_C) <=> carry
         /\ HasBit(o.flags, FLAG_Z) <=> result = 0
         /\ HasBit(o.flags, FLAG_N) <=> Negative(result)
         /\ HasBit(o.flags, FLAG_V) <=> overflow
<1> DEFINE o == Outcome(result, carry, overflow)
           c == Flag(FLAG_C, carry)
           z == Flag(FLAG_Z, result = 0)
           n == Flag(FLAG_N, Negative(result))
           v == Flag(FLAG_V, overflow)
<1>1. o.value = result /\ o.flags = c + z + n + v
  BY DEF Outcome
<1>2. /\ c \in {0, 1} /\ (c = 1 <=> carry)
      /\ z \in {0, 2} /\ (z = 2 <=> result = 0)
      /\ n \in {0, 4} /\ (n = 4 <=> Negative(result))
      /\ v \in {0, 8} /\ (v = 8 <=> overflow)
  BY DEF Flag, FLAG_C, FLAG_Z, FLAG_N, FLAG_V
<1> HIDE DEF o, c, z, n, v
<1>3. /\ HasBit(o.flags, FLAG_C) <=> c = 1
      /\ HasBit(o.flags, FLAG_Z) <=> z = 2
      /\ HasBit(o.flags, FLAG_N) <=> n = 4
      /\ HasBit(o.flags, FLAG_V) <=> v = 8
  BY <1>1, <1>2, FlagsReadBack
<1>4. /\ o.value = result
      /\ HasBit(o.flags, FLAG_C) <=> carry
      /\ HasBit(o.flags, FLAG_Z) <=> result = 0
      /\ HasBit(o.flags, FLAG_N) <=> Negative(result)
      /\ HasBit(o.flags, FLAG_V) <=> overflow
  BY <1>1, <1>2, <1>3
<1> QED BY <1>4 DEF o

\* The same for one that cannot overflow, given by its name.
LEMMA ShiftFlags ==
  ASSUME NEW result, NEW carry \in BOOLEAN, NEW none \in BOOLEAN, NEW o,
         o = Outcome(result, carry, none)
  PROVE  o.value = result /\ (HasBit(o.flags, FLAG_C) <=> carry)
  BY OutcomeFlags

\* The sign bit of a byte, and its value in two's complement.
LEMMA SignOfByte ==
  ASSUME NEW n \in Byte
  PROVE  /\ Negative(n) <=> n > 127
         /\ Negative(n) \in BOOLEAN
         /\ Signed(n) = IF n > 127 THEN n - 256 ELSE n
<1>1. n \in Int /\ 0 <= n /\ n <= 255
  BY ByteBounds
<1>2. (n \div 128) % 2 = IF n > 127 THEN 1 ELSE 0
  BY <1>1
<1> QED BY <1>2 DEF Negative, HasBit, Signed

\* A sum that is less than two bytes' worth, truncated to a byte.
LEMMA TruncatedSum ==
  ASSUME NEW s \in Int, 0 <= s, s < 512
  PROVE  /\ s % 256 = s - (IF s > 255 THEN 256 ELSE 0)
         /\ s % 256 \in Byte
  BY DEF Byte

\* ... and a difference of not less than minus a byte.
LEMMA TruncatedDifference ==
  ASSUME NEW s \in Int, -256 <= s, s < 256
  PROVE  /\ s % 256 = s + (IF s < 0 THEN 256 ELSE 0)
         /\ s % 256 \in Byte
  BY DEF Byte

-----------------------------------------------------------------------------
\* Each operation: its result, its carry, its overflow.

\* What carry and overflow an outcome shows.
Shows(o, result, carry, overflow) ==
  /\ o.value = result
  /\ HasBit(o.flags, FLAG_C) <=> carry
  /\ HasBit(o.flags, FLAG_Z) <=> result = 0
  /\ HasBit(o.flags, FLAG_N) <=> result > 127
  /\ HasBit(o.flags, FLAG_V) <=> overflow

LEMMA OutcomeShows ==
  ASSUME NEW result \in Byte, NEW carry \in BOOLEAN, NEW overflow \in BOOLEAN
  PROVE  Shows(Outcome(result, carry, overflow), result, carry, overflow)
  BY OutcomeFlags, SignOfByte DEF Shows

LEMMA AddShows ==
  ASSUME NEW m \in Byte, NEW n \in Byte
  PROVE  Shows(Add(m, n), (m + n) % 256, m + n > 255, OutOfRange(Signed(m) + Signed(n)))
<1> DEFINE r == (m + n) % 256
           carry == m + n > 255
           over == SameSign(m, n) /\ ~SameSign(m, r)
<1>1. m \in Int /\ 0 <= m /\ m <= 255 /\ n \in Int /\ 0 <= n /\ n <= 255
  BY ByteBounds
<1>2. r \in Byte /\ r = m + n - (IF m + n > 255 THEN 256 ELSE 0)
  BY <1>1, TruncatedSum
<1>3. Add(m, n) = Outcome(r, carry, over)
  BY DEF Add
<1> HIDE DEF r
<1>4. over <=> OutOfRange(Signed(m) + Signed(n))
  BY <1>1, <1>2, SignOfByte DEF SameSign, OutOfRange
<1>5. carry \in BOOLEAN /\ over \in BOOLEAN
  BY DEF SameSign
<1> HIDE DEF carry, over
<1>6. Shows(Outcome(r, carry, over), r, carry, over)
  BY <1>2, <1>5, OutcomeShows
<1> QED BY <1>3, <1>4, <1>6 DEF Shows, r, carry

\* The operand for which ADC and SBC misjudge the sign.
Misjudged(n, k) == k = 1 /\ n = 127

LEMMA AdcShows ==
  ASSUME NEW m \in Byte, NEW n \in Byte, NEW k \in {0, 1}
  PROVE  Shows(Adc(m, n, k), (m + n + k) % 256, m + n + k > 255,
               OutOfRange(Signed(m) + Signed(n) + k) <=> ~Misjudged(n, k))
<1> DEFINE r == (m + n + k) % 256
           operand == (n + k) % 256
           carry == m + n + k > 255
           over == SameSign(m, operand) /\ ~SameSign(m, r)
<1>1. m \in Int /\ 0 <= m /\ m <= 255 /\ n \in Int /\ 0 <= n /\ n <= 255
  BY ByteBounds
<1>2. /\ r \in Byte /\ r = m + n + k - (IF m + n + k > 255 THEN 256 ELSE 0)
      /\ operand \in Byte /\ operand = n + k - (IF n + k > 255 THEN 256 ELSE 0)
  BY <1>1, TruncatedSum
<1>3. Adc(m, n, k) = Outcome(r, carry, over)
  BY DEF Adc
<1> HIDE DEF r, operand
<1>4. over <=> (OutOfRange(Signed(m) + Signed(n) + k) <=> ~Misjudged(n, k))
  BY <1>1, <1>2, SignOfByte DEF SameSign, OutOfRange, Misjudged
<1>5. carry \in BOOLEAN /\ over \in BOOLEAN
  BY DEF SameSign
<1> HIDE DEF carry, over
<1>6. Shows(Outcome(r, carry, over), r, carry, over)
  BY <1>2, <1>5, OutcomeShows
<1> QED BY <1>3, <1>4, <1>6 DEF Shows, r, carry

LEMMA SubShows ==
  ASSUME NEW m \in Byte, NEW n \in Byte
  PROVE  Shows(Sub(m, n), (m - n) % 256, m < n, OutOfRange(Signed(m) - Signed(n)))
<1> DEFINE r == (m - n) % 256
           carry == m < n
           over == ~SameSign(m, n) /\ ~SameSign(m, r)
<1>1. m \in Int /\ 0 <= m /\ m <= 255 /\ n \in Int /\ 0 <= n /\ n <= 255
  BY ByteBounds
<1>2. r \in Byte /\ r = m - n + (IF m < n THEN 256 ELSE 0)
  BY <1>1, TruncatedDifference
<1>3. Sub(m, n) = Outcome(r, carry, over)
  BY DEF Sub
<1> HIDE DEF r
<1>4. over <=> OutOfRange(Signed(m) - Signed(n))
  BY <1>1, <1>2, SignOfByte DEF SameSign, OutOfRange
<1>5. carry \in BOOLEAN /\ over \in BOOLEAN
  BY DEF SameSign
<1> HIDE DEF carry, over
<1>6. Shows(Outcome(r, carry, over), r, carry, over)
  BY <1>2, <1>5, OutcomeShows
<1> QED BY <1>3, <1>4, <1>6 DEF Shows, r, carry

\* The carry of SBC is that of the truncated operand.
LEMMA SbcShows ==
  ASSUME NEW m \in Byte, NEW n \in Byte, NEW k \in {0, 1}
  PROVE  Shows(Sbc(m, n, k), (m - (n + k)) % 256, m < (n + k) % 256,
               OutOfRange(Signed(m) - Signed(n) - k) <=> ~Misjudged(n, k))
<1> DEFINE r == (m - (n + k)) % 256
           operand == (n + k) % 256
           carry == m < operand
           over == ~SameSign(m, operand) /\ ~SameSign(m, r)
<1>1. m \in Int /\ 0 <= m /\ m <= 255 /\ n \in Int /\ 0 <= n /\ n <= 255
  BY ByteBounds
<1>2. /\ r \in Byte /\ r = m - (n + k) + (IF m < n + k THEN 256 ELSE 0)
      /\ operand \in Byte /\ operand = n + k - (IF n + k > 255 THEN 256 ELSE 0)
  BY <1>1, TruncatedSum, TruncatedDifference
<1>3. Sbc(m, n, k) = Outcome(r, carry, over)
  BY DEF Sbc
<1> HIDE DEF r, operand
<1>4. over <=> (OutOfRange(Signed(m) - Signed(n) - k) <=> ~Misjudged(n, k))
  BY <1>1, <1>2, SignOfByte DEF SameSign, OutOfRange, Misjudged
<1>5. carry \in BOOLEAN /\ over \in BOOLEAN
  BY DEF SameSign
<1> HIDE DEF carry, over
<1>6. Shows(Outcome(r, carry, over), r, carry, over)
  BY <1>2, <1>5, OutcomeShows
<1> QED BY <1>3, <1>4, <1>6 DEF Shows, r, carry, operand

\* A byte halved, doubled, and its outermost bits.
LEMMA ByteHalves ==
  ASSUME NEW n \in Byte
  PROVE  /\ n \div 128 = IF n > 127 THEN 1 ELSE 0
         /\ n \div 2 \in Int /\ n % 2 \in {0, 1} /\ n = 2 * (n \div 2) + (n % 2)
         /\ (2 * n) % 256 = 2 * n - (IF n > 127 THEN 256 ELSE 0)
<1>1. n \in Int /\ 0 <= n /\ n <= 255
  BY ByteBounds
<1>2. n \div 128 = IF n > 127 THEN 1 ELSE 0
  BY <1>1
<1>3. n \div 2 \in Int /\ n % 2 \in {0, 1}
  BY <1>1
<1>4. n = 2 * (n \div 2) + (n % 2)
  BY <1>1
<1>5. (2 * n) % 256 = 2 * n - (IF n > 127 THEN 256 ELSE 0)
  BY <1>1, TruncatedSum
<1> QED BY <1>2, <1>3, <1>4, <1>5

\* The shifts put the bit that leaves the byte in the carry.
LEMMA ShiftShows ==
  ASSUME NEW n \in Byte
  PROVE  /\ Shl(n).value + (IF HasBit(Shl(n).flags, FLAG_C) THEN 256 ELSE 0) = 2 * n
         /\ 2 * Shr(n).value + (IF HasBit(Shr(n).flags, FLAG_C) THEN 1 ELSE 0) = n
         /\ Rol(n).value + (IF HasBit(Rol(n).flags, FLAG_C) THEN 255 ELSE 0) = 2 * n
         /\ 2 * Ror(n).value - (IF HasBit(Ror(n).flags, FLAG_C) THEN 255 ELSE 0) = n
<1>1. n \in Int /\ 0 <= n /\ n <= 255
  BY ByteBounds
<1> DEFINE high == HasBit(n, 128)
           low == HasBit(n, 1)
           none == FALSE
<1>2. high \in BOOLEAN /\ low \in BOOLEAN /\ none \in BOOLEAN
  BY DEF HasBit
<1>3. /\ Shl(n) = Outcome((2 * n) % 256, high, none)
      /\ Shr(n) = Outcome(n \div 2, low, none)
      /\ Rol(n) = Outcome(((2 * n) % 256) + (n \div 128), high, none)
      /\ Ror(n) = Outcome((n \div 2) + 128 * (n % 2), low, none)
  BY DEF Shl, Shr, Rol, Ror
<1>4. (high <=> n > 127) /\ (low <=> n % 2 = 1)
  BY <1>1 DEF HasBit
<1> HIDE DEF high, low, none
<1>5. Shl(n).value = (2 * n) % 256 /\ (HasBit(Shl(n).flags, FLAG_C) <=> high)
  BY <1>2, <1>3, ShiftFlags
<1>6. Shr(n).value = n \div 2 /\ (HasBit(Shr(n).flags, FLAG_C) <=> low)
  BY <1>2, <1>3, ShiftFlags
<1>7. /\ Rol(n).value = ((2 * n) % 256) + (n \div 128)
      /\ HasBit(Rol(n).flags, FLAG_C) <=> high
  BY <1>2, <1>3, ShiftFlags
<1>8. /\ Ror(n).value = (n \div 2) + 128 * (n % 2)
      /\ HasBit(Ror(n).flags, FLAG_C) <=> low
  BY <1>2, <1>3, ShiftFlags
<1>9. Shl(n).value + (IF HasBit(Shl(n).flags, FLAG_C) THEN 256 ELSE 0) = 2 * n
  BY <1>1, <1>4, <1>5, ByteHalves
<1>10. 2 * Shr(n).value + (IF HasBit(Shr(n).flags, FLAG_C) THEN 1 ELSE 0) = n
  BY <1>1, <1>4, <1>6, ByteHalves
<1>11. Rol(n).value + (IF HasBit(Rol(n).flags, FLAG_C) THEN 255 ELSE 0) = 2 * n
  BY <1>1, <1>4, <1>7, ByteHalves
<1>12. 2 * Ror(n).value - (IF HasBit(Ror(n).flags, FLAG_C) THEN 255 ELSE 0) = n
  BY <1>1, <1>4, <1>8, ByteHalves
<1> QED BY <1>9, <1>10, <1>11, <1>12

-----------------------------------------------------------------------------
\* The inductive invariant: the operands are bytes, and the outcome is that
\* of the operation named.

Applied ==
  /\ a \in Byte /\ b \in Byte /\ cin \in {0, 1}
  /\ op = "add" => out = Add(a, b)
  /\ op = "adc" => out = Adc(a, b, cin)
  /\ op = "sub" => out = Sub(a, b)
  /\ op = "sbc" => out = Sbc(a, b, cin)
  /\ op = "shl" => out = Shl(a)
  /\ op = "shr" => out = Shr(a)
  /\ op = "rol" => out = Rol(a)
  /\ op = "ror" => out = Ror(a)

LEMMA Invariance == Spec => []Applied
<1>1. Init => Applied
  BY OperandsAssumption DEF Init, Applied
<1>2. Applied /\ [Next]_vars => Applied'
  <2> SUFFICES ASSUME Applied, [Next]_vars PROVE Applied'
    OBVIOUS
  <2>1. CASE ApplyAdd
    BY <2>1 DEF ApplyAdd, Apply, Applied
  <2>2. CASE ApplyAdc
    BY <2>2 DEF ApplyAdc, Apply, Applied
  <2>3. CASE ApplySub
    BY <2>3 DEF ApplySub, Apply, Applied
  <2>4. CASE ApplySbc
    BY <2>4 DEF ApplySbc, Apply, Applied
  <2>5. CASE ApplyShift
    BY <2>5 DEF ApplyShift, Apply, Applied
  <2>6. CASE UNCHANGED vars
    BY <2>6 DEF vars, Applied
  <2> QED BY <2>1, <2>2, <2>3, <2>4, <2>5, <2>6 DEF Next
<1> QED BY <1>1, <1>2, PTL DEF Spec

\* For all bytes, result and carry together are the sum or the difference;
\* SBC fails at one operand only, 255 with a borrow coming in.
THEOREM NothingCarriedIsLost == Spec => []CarryExact
<1>1. Applied => CarryExact
  <2> SUFFICES ASSUME Applied PROVE CarryExact
    OBVIOUS
  <2>0. /\ a \in Byte /\ b \in Byte /\ cin \in {0, 1}
        /\ a \in Int /\ 0 <= a /\ a <= 255 /\ b \in Int /\ 0 <= b /\ b <= 255
    BY ByteBounds DEF Applied
  <2>1. op = "add" => out.value + 256 * C = a + b
    <3>1. /\ Add(a, b).value = (a + b) % 256
          /\ HasBit(Add(a, b).flags, FLAG_C) <=> a + b > 255
      BY <2>0, AddShows DEF Shows
    <3>2. a + b \in Int
      BY <2>0
    <3>3. (a + b) % 256 = a + b - (IF a + b > 255 THEN 256 ELSE 0)
      BY <2>0, <3>2, TruncatedSum
    <3> QED BY <2>0, <3>1, <3>2, <3>3 DEF Applied, C
  <2>2. op = "adc" => out.value + 256 * C = a + b + cin
    <3>1. /\ Adc(a, b, cin).value = (a + b + cin) % 256
          /\ HasBit(Adc(a, b, cin).flags, FLAG_C) <=> a + b + cin > 255
      BY <2>0, AdcShows DEF Shows
    <3>2. a + b + cin \in Int
      BY <2>0
    <3>3. (a + b + cin) % 256 = a + b + cin - (IF a + b + cin > 255 THEN 256 ELSE 0)
      BY <2>0, <3>2, TruncatedSum
    <3> QED BY <2>0, <3>1, <3>2, <3>3 DEF Applied, C
  <2>3. op = "sub" => out.value - 256 * C = a - b
    <3>1. /\ Sub(a, b).value = (a - b) % 256
          /\ HasBit(Sub(a, b).flags, FLAG_C) <=> a < b
      BY <2>0, SubShows DEF Shows
    <3>2. a - b \in Int
      BY <2>0
    <3>3. (a - b) % 256 = a - b + (IF a < b THEN 256 ELSE 0)
      BY <2>0, <3>2, TruncatedDifference
    <3> QED BY <2>0, <3>1, <3>2, <3>3 DEF Applied, C
  <2>4. op = "sbc" /\ ~(cin = 1 /\ b = 255) => out.value - 256 * C = a - b - cin
    <3>1. ~(cin = 1 /\ b = 255) => (b + cin) % 256 = b + cin
      BY <2>0, TruncatedSum
    <3>2. (a - (b + cin)) % 256 = a - b - cin + (IF a < b + cin THEN 256 ELSE 0)
      BY <2>0, TruncatedDifference
    <3>3. /\ Sbc(a, b, cin).value = (a - (b + cin)) % 256
          /\ HasBit(Sbc(a, b, cin).flags, FLAG_C) <=> a < (b + cin) % 256
      <4>1. Shows(Sbc(a, b, cin), (a - (b + cin)) % 256, a < (b + cin) % 256,
                  OutOfRange(Signed(a) - Signed(b) - cin) <=> ~Misjudged(b, cin))
        BY <2>0, SbcShows
      <4> QED BY <4>1 DEF Shows
    <3> QED BY <2>0, <3>1, <3>2, <3>3 DEF Applied, C
  <2> QED BY <2>1, <2>2, <2>3, <2>4 DEF CarryExact
<1> QED BY <1>1, Invariance, PTL

\* For all bytes, V tells signed overflow, except where ADC and SBC take the
\* sign of 127 + 1: there, and only there, it tells the opposite.
THEOREM OverflowJudged == Spec => []OverflowExact
<1>1. Applied => OverflowExact
  <2> SUFFICES ASSUME Applied PROVE OverflowExact
    OBVIOUS
  <2>0. a \in Byte /\ b \in Byte /\ cin \in {0, 1}
    BY DEF Applied
  <2>1. op = "add" => (V <=> OutOfRange(Signed(a) + Signed(b)))
    <3>1. HasBit(Add(a, b).flags, FLAG_V) <=> OutOfRange(Signed(a) + Signed(b))
      BY <2>0, AddShows DEF Shows
    <3> QED BY <3>1 DEF Applied, V
  <2>2. op = "sub" => (V <=> OutOfRange(Signed(a) - Signed(b)))
    <3>1. HasBit(Sub(a, b).flags, FLAG_V) <=> OutOfRange(Signed(a) - Signed(b))
      BY <2>0, SubShows DEF Shows
    <3> QED BY <3>1 DEF Applied, V
  <2>3. op = "adc" =>
          (V <=> (OutOfRange(Signed(a) + Signed(b) + cin) <=> ~Misjudged(b, cin)))
    <3>1. HasBit(Adc(a, b, cin).flags, FLAG_V)
            <=> (OutOfRange(Signed(a) + Signed(b) + cin) <=> ~Misjudged(b, cin))
      BY <2>0, AdcShows DEF Shows
    <3> QED BY <3>1 DEF Applied, V
  <2>4. op = "sbc" =>
          (V <=> (OutOfRange(Signed(a) - Signed(b) - cin) <=> ~Misjudged(b, cin)))
    <3>1. HasBit(Sbc(a, b, cin).flags, FLAG_V)
            <=> (OutOfRange(Signed(a) - Signed(b) - cin) <=> ~Misjudged(b, cin))
      BY <2>0, SbcShows DEF Shows
    <3> QED BY <3>1 DEF Applied, V
  <2> QED BY <2>1, <2>2, <2>3, <2>4 DEF OverflowExact, Misjudged, OutOfRange
<1> QED BY <1>1, Invariance, PTL

\* For all bytes, the flags of a subtraction decide what a conditional jump
\* after CMP asks them.
THEOREM ComparisonDecided == Spec => []CompareDecides
<1>1. Applied => CompareDecides
  <2> SUFFICES ASSUME Applied, op = "sub"
               PROVE  /\ HasBit(out.flags, FLAG_Z) <=> a = b
                      /\ HasBit(out.flags, FLAG_C) <=> a < b
                      /\ (HasBit(out.flags, FLAG_N) # V) <=> Signed(a) < Signed(b)
    BY DEF CompareDecides
  <2>0. a \in Int /\ 0 <= a /\ a <= 255 /\ b \in Int /\ 0 <= b /\ b <= 255
    BY ByteBounds DEF Applied
  <2>1. (a - b) % 256 = a - b + (IF a < b THEN 256 ELSE 0)
    BY <2>0, TruncatedDifference
  <2>2. /\ HasBit(out.flags, FLAG_Z) <=> (a - b) % 256 = 0
        /\ HasBit(out.flags, FLAG_C) <=> a < b
        /\ HasBit(out.flags, FLAG_N) <=> (a - b) % 256 > 127
        /\ HasBit(out.flags, FLAG_V) <=> OutOfRange(Signed(a) - Signed(b))
    BY SubShows DEF Applied, Shows
  <2>3. ((a - b) % 256 > 127 <=> ~OutOfRange(Signed(a) - Signed(b)))
          <=> Signed(a) < Signed(b)
    BY <2>0, <2>1 DEF Signed, OutOfRange
  <2>4. HasBit(out.flags, FLAG_Z) <=> a = b
    BY <2>0, <2>1, <2>2
  <2>5. (HasBit(out.flags, FLAG_N) # V) <=> Signed(a) < Signed(b)
    BY <2>2, <2>3 DEF V, HasBit
  <2> QED BY <2>2, <2>4, <2>5
<1> QED BY <1>1, Invariance, PTL

\* For every byte, a shift or rotation and its carry give back the operand.
THEOREM ShiftsReversible == Spec => []ShiftLosesNothing
<1>1. Applied => ShiftLosesNothing
  <2> SUFFICES ASSUME Applied PROVE ShiftLosesNothing
    OBVIOUS
  <2>1. a \in Byte /\ a \in Int
    BY ByteBounds DEF Applied
  <2>2. op = "shl" => out.value \in Int
    BY <2>1 DEF Applied, Shl, Outcome
  <2>3. op = "shl" => out.value + 256 * C = 2 * a
    BY <2>1, <2>2, ShiftShows DEF Applied, C
  <2>4. op = "shr" => 2 * out.value + C = a
    <3>1. Shr(a).value \in Int
      BY <2>1 DEF Shr, Outcome
    <3> QED BY <2>1, <3>1, ShiftShows DEF Applied, C
  <2>5. op = "rol" => out.value + 256 * C - C = 2 * a
    <3>1. Rol(a).value \in Int
      BY <2>1 DEF Rol, Outcome
    <3> QED BY <2>1, <3>1, ShiftShows DEF Applied, C
  <2>6. op = "ror" => 2 * out.value - 256 * C + C = a
    <3>1. Ror(a).value \in Int
      BY <2>1 DEF Ror, Outcome
    <3> QED BY <2>1, <3>1, ShiftShows DEF Applied, C
  <2> QED BY <2>3, <2>4, <2>5, <2>6 DEF ShiftLosesNothing
<1> QED BY <1>1, Invariance, PTL
=============================================================================
