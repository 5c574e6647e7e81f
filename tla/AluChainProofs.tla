-------------------------- MODULE AluChainProofs --------------------------
(***************************************************************************)
(* Additions and subtractions of any number of bytes, with any bytes: what *)
(* the checked instance shows of three bytes from a few boundary values.   *)
(***************************************************************************)
EXTENDS AluChain, TLAPS

\* The carry can be read back from the sum of the four flags.
LEMMA CarryOut ==
  ASSUME NEW c \in {0, 1}, NEW z \in {0, 2}, NEW n \in {0, 4}, NEW v \in {0, 8}
  PROVE  (IF HasBit(c + z + n + v, FLAG_C) THEN 1 ELSE 0) = c
<1>1. ((c + z + n + v) \div 1) % 2 = c
  OBVIOUS
<1> QED BY <1>1 DEF HasBit, FLAG_C

-----------------------------------------------------------------------------
\* One byte: what the result and the carry make of the operands.

LEMMA ByteBounds ==
  ASSUME NEW a \in Byte
  PROVE  a \in Int /\ 0 <= a /\ a <= 255
  BY DEF Byte

\* The carry of an outcome, as Carry reads it from the flags register.
CarryOf(outcome) == IF HasBit(outcome.flags, FLAG_C) THEN 1 ELSE 0

LEMMA AddExact ==
  ASSUME NEW a \in Byte, NEW b \in Byte
  PROVE  Add(a, b).value \in Int /\ Add(a, b).value + 256 * CarryOf(Add(a, b)) = a + b
<1> DEFINE low == (a + b) % 256
           over == SameSign(a, b) /\ ~SameSign(a, low)
<1> DEFINE c == Flag(FLAG_C, a + b > 255)
           z == Flag(FLAG_Z, low = 0)
           n == Flag(FLAG_N, Negative(low))
           v == Flag(FLAG_V, over)
<1>1. Add(a, b).flags = c + z + n + v /\ Add(a, b).value = low
  BY DEF Add, Outcome
<1>2. CarryOf(Add(a, b)) = IF a + b > 255 THEN 1 ELSE 0
  <2>1. c = IF a + b > 255 THEN 1 ELSE 0
    BY DEF Flag, FLAG_C
  <2>2. z \in {0, 2} /\ n \in {0, 4} /\ v \in {0, 8}
    BY DEF Flag, FLAG_Z, FLAG_N, FLAG_V
  <2> HIDE DEF c, z, n, v
  <2> QED BY <1>1, <2>1, <2>2, CarryOut DEF CarryOf
<1>3. Add(a, b).value = (a + b) % 256
  BY <1>1
<1> QED BY <1>2, <1>3, ByteBounds

LEMMA AdcExact ==
  ASSUME NEW a \in Byte, NEW b \in Byte, NEW cin \in {0, 1}
  PROVE  /\ Adc(a, b, cin).value \in Int
         /\ Adc(a, b, cin).value + 256 * CarryOf(Adc(a, b, cin)) = a + b + cin
<1> DEFINE low == (a + b + cin) % 256
           over == SameSign(a, (b + cin) % 256) /\ ~SameSign(a, low)
<1> DEFINE c == Flag(FLAG_C, a + b + cin > 255)
           z == Flag(FLAG_Z, low = 0)
           n == Flag(FLAG_N, Negative(low))
           v == Flag(FLAG_V, over)
<1>1. Adc(a, b, cin).flags = c + z + n + v /\ Adc(a, b, cin).value = low
  BY DEF Adc, Outcome
<1>2. CarryOf(Adc(a, b, cin)) = IF a + b + cin > 255 THEN 1 ELSE 0
  <2>1. c = IF a + b + cin > 255 THEN 1 ELSE 0
    BY DEF Flag, FLAG_C
  <2>2. z \in {0, 2} /\ n \in {0, 4} /\ v \in {0, 8}
    BY DEF Flag, FLAG_Z, FLAG_N, FLAG_V
  <2> HIDE DEF c, z, n, v
  <2> QED BY <1>1, <2>1, <2>2, CarryOut DEF CarryOf
<1>3. Adc(a, b, cin).value = (a + b + cin) % 256
  BY <1>1
<1> QED BY <1>2, <1>3, ByteBounds

LEMMA SubExact ==
  ASSUME NEW a \in Byte, NEW b \in Byte
  PROVE  Sub(a, b).value \in Int /\ Sub(a, b).value - 256 * CarryOf(Sub(a, b)) = a - b
<1> DEFINE low == (a - b) % 256
           over == ~SameSign(a, b) /\ ~SameSign(a, low)
<1> DEFINE c == Flag(FLAG_C, a < b)
           z == Flag(FLAG_Z, low = 0)
           n == Flag(FLAG_N, Negative(low))
           v == Flag(FLAG_V, over)
<1>1. Sub(a, b).flags = c + z + n + v /\ Sub(a, b).value = low
  BY DEF Sub, Outcome
<1>2. CarryOf(Sub(a, b)) = IF a < b THEN 1 ELSE 0
  <2>1. c = IF a < b THEN 1 ELSE 0
    BY DEF Flag, FLAG_C
  <2>2. z \in {0, 2} /\ n \in {0, 4} /\ v \in {0, 8}
    BY DEF Flag, FLAG_Z, FLAG_N, FLAG_V
  <2> HIDE DEF c, z, n, v
  <2> QED BY <1>1, <2>1, <2>2, CarryOut DEF CarryOf
<1>3. Sub(a, b).value = (a - b) % 256
  BY <1>1
<1> QED BY <1>2, <1>3, ByteBounds

\* SBC is exact but for the borrow it drops when b = 255 and a borrow comes in.
LEMMA SbcExact ==
  ASSUME NEW a \in Byte, NEW b \in Byte, NEW cin \in {0, 1}
  PROVE  /\ Sbc(a, b, cin).value \in Int
         /\ Sbc(a, b, cin).value - 256 * CarryOf(Sbc(a, b, cin))
              = a - b - cin + IF b = 255 THEN 256 * cin ELSE 0
<1> DEFINE low == (a - (b + cin)) % 256
           operand2 == (b + cin) % 256
           over == ~SameSign(a, operand2) /\ ~SameSign(a, low)
<1> DEFINE c == Flag(FLAG_C, a < operand2)
           z == Flag(FLAG_Z, low = 0)
           n == Flag(FLAG_N, Negative(low))
           v == Flag(FLAG_V, over)
<1>1. Sbc(a, b, cin).flags = c + z + n + v /\ Sbc(a, b, cin).value = low
  BY DEF Sbc, Outcome
<1>2. CarryOf(Sbc(a, b, cin)) = IF a < operand2 THEN 1 ELSE 0
  <2>1. c = IF a < operand2 THEN 1 ELSE 0
    BY DEF Flag, FLAG_C
  <2>2. z \in {0, 2} /\ n \in {0, 4} /\ v \in {0, 8}
    BY DEF Flag, FLAG_Z, FLAG_N, FLAG_V
  <2> HIDE DEF c, z, n, v
  <2> QED BY <1>1, <2>1, <2>2, CarryOut DEF CarryOf
<1>3. Sbc(a, b, cin).value = (a - (b + cin)) % 256
  BY <1>1
<1>4. operand2 = IF b = 255 /\ cin = 1 THEN 0 ELSE b + cin
  BY ByteBounds
<1> HIDE DEF operand2
<1> QED BY <1>2, <1>3, <1>4, ByteBounds

-----------------------------------------------------------------------------
\* From one byte to the chain: the balance of the numbers so far is kept by
\* one more byte at the weight w.

LEMMA AddByte ==
  ASSUME NEW w \in Int, NEW v \in Int, NEW a \in Int, NEW b \in Int,
         NEW c \in Int, NEW cin \in Int, NEW x0 \in Int, NEW y0 \in Int, NEW r \in Int,
         v + 256 * c = a + b + cin,
         r + cin * w = x0 + y0
  PROVE  (r + w * v) + c * (256 * w) = (x0 + w * a) + (y0 + w * b)
<1>1. v = a + b + cin - 256 * c
  OBVIOUS
<1>2. w * (a + b + cin - 256 * c) = w * a + w * b + w * cin - 256 * (w * c)
  OBVIOUS
<1> QED BY <1>1, <1>2

LEMMA SubByte ==
  ASSUME NEW w \in Int, NEW v \in Int, NEW a \in Int, NEW b \in Int,
         NEW c \in Int, NEW cin \in Int, NEW x0 \in Int, NEW y0 \in Int, NEW r \in Int,
         NEW d \in Int, NEW l \in Int,
         v - 256 * c = a - b - cin + d,
         r - cin * w = x0 - y0 + l
  PROVE  (r + w * v) - c * (256 * w) = (x0 + w * a) - (y0 + w * b) + (l + w * d)
<1>1. v = a - b - cin + d + 256 * c
  OBVIOUS
<1>2. w * (a - b - cin + d + 256 * c) = w * a - w * b - w * cin + w * d + 256 * (w * c)
  OBVIOUS
<1> QED BY <1>1, <1>2

Inv ==
  /\ kind \in {"none", "add", "sub"}
  /\ weight \in Int /\ x \in Int /\ y \in Int /\ result \in Int /\ lost \in Int
  /\ kind = "none" => x = 0 /\ y = 0 /\ result = 0 /\ lost = 0 /\ Carry = 0
  /\ AddChainExact
  /\ SubChainAccount

LEMMA CarryIsBit == Carry \in {0, 1}
  BY DEF Carry

\* One more byte keeps the numbers integers and reads the carry of its outcome.
LEMMA ExtendedType ==
  ASSUME Inv, NEW a \in Byte, NEW b \in Byte, NEW outcome,
         outcome.value \in Int, Extend(a, b, outcome)
  PROVE  /\ Carry' = CarryOf(outcome) /\ Carry' \in {0, 1}
         /\ weight' \in Int /\ x' \in Int /\ y' \in Int /\ result' \in Int
<1>1. a \in Int /\ b \in Int
  BY ByteBounds
<1>2. Carry' = CarryOf(outcome) /\ Carry' \in {0, 1}
  BY DEF Extend, Carry, CarryOf
<1> QED BY <1>1, <1>2 DEF Extend, Inv

LEMMA ExtendedSum ==
  ASSUME Inv, NEW a \in Byte, NEW b \in Byte, NEW outcome,
         outcome.value \in Int, Extend(a, b, outcome),
         outcome.value + 256 * CarryOf(outcome) = a + b + Carry,
         result + Carry * weight = x + y
  PROVE  result' + Carry' * weight' = x' + y'
<1>1. PICK w \in Int, x0 \in Int, y0 \in Int, r \in Int :
        w = weight /\ x0 = x /\ y0 = y /\ r = result
  BY DEF Inv
<1>2. PICK v \in Int, c \in Int, cin \in Int :
        v = outcome.value /\ c = Carry' /\ cin = Carry
  BY CarryIsBit, ExtendedType
<1>3. a \in Int /\ b \in Int
  BY ByteBounds
<1>4. v + 256 * c = a + b + cin /\ r + cin * w = x0 + y0
  BY <1>1, <1>2, ExtendedType, Zenon
<1>5. (r + w * v) + c * (256 * w) = (x0 + w * a) + (y0 + w * b)
  BY <1>3, <1>4, AddByte
<1>6. /\ result' = r + w * v /\ weight' = 256 * w
      /\ x' = x0 + w * a /\ y' = y0 + w * b
  BY <1>1, <1>2, Zenon DEF Extend
<1> QED BY <1>2, <1>5, <1>6, Zenon

LEMMA ExtendedDifference ==
  ASSUME Inv, NEW a \in Byte, NEW b \in Byte, NEW outcome, NEW d \in Int,
         outcome.value \in Int, Extend(a, b, outcome),
         outcome.value - 256 * CarryOf(outcome) = a - b - Carry + d,
         lost' = lost + weight * d,
         result - Carry * weight = x - y + lost
  PROVE  result' - Carry' * weight' = x' - y' + lost'
<1>1. PICK w \in Int, x0 \in Int, y0 \in Int, r \in Int, l \in Int :
        w = weight /\ x0 = x /\ y0 = y /\ r = result /\ l = lost
  BY DEF Inv
<1>2. PICK v \in Int, c \in Int, cin \in Int :
        v = outcome.value /\ c = Carry' /\ cin = Carry
  BY CarryIsBit, ExtendedType
<1>3. a \in Int /\ b \in Int
  BY ByteBounds
<1>4. v - 256 * c = a - b - cin + d /\ r - cin * w = x0 - y0 + l
  BY <1>1, <1>2, ExtendedType, Zenon
<1>5. (r + w * v) - c * (256 * w) = (x0 + w * a) - (y0 + w * b) + (l + w * d)
  BY <1>3, <1>4, SubByte
<1>6. /\ result' = r + w * v /\ weight' = 256 * w
      /\ x' = x0 + w * a /\ y' = y0 + w * b /\ lost' = l + w * d
  BY <1>1, <1>2, Zenon DEF Extend
<1> QED BY <1>2, <1>5, <1>6, Zenon

-----------------------------------------------------------------------------
\* The steps of a chain.

LEMMA AddLowestStep ==
  ASSUME Inv, AddLowest
  PROVE  Inv'
<1>1. PICK a \in Operands, b \in Operands : Extend(a, b, Add(a, b))
  BY DEF AddLowest
<1>2. a \in Byte /\ b \in Byte
  BY ChainAssumption
<1>3. kind' = "add" /\ lost' \in Int /\ Carry = 0
  BY DEF AddLowest, Inv
<1>4. /\ Add(a, b).value \in Int
      /\ Add(a, b).value + 256 * CarryOf(Add(a, b)) = a + b + Carry
  BY <1>2, <1>3, AddExact, ByteBounds
<1>5. result + Carry * weight = x + y
  BY DEF AddLowest, Inv
<1>6. result' + Carry' * weight' = x' + y'
  BY <1>1, <1>2, <1>4, <1>5, ExtendedSum
<1>7. weight' \in Int /\ x' \in Int /\ y' \in Int /\ result' \in Int
  BY <1>1, <1>2, <1>4, ExtendedType
<1> QED BY <1>3, <1>6, <1>7 DEF Inv, AddChainExact, SubChainAccount

LEMMA AdcNextStep ==
  ASSUME Inv, AdcNext
  PROVE  Inv'
<1>1. PICK a \in Operands, b \in Operands : Extend(a, b, Adc(a, b, Carry))
  BY DEF AdcNext
<1>2. a \in Byte /\ b \in Byte
  BY ChainAssumption
<1>3. kind' = "add" /\ lost' \in Int
  BY DEF AdcNext, Inv
<1>4. /\ Adc(a, b, Carry).value \in Int
      /\ Adc(a, b, Carry).value + 256 * CarryOf(Adc(a, b, Carry)) = a + b + Carry
  BY <1>2, CarryIsBit, AdcExact
<1>5. result + Carry * weight = x + y
  BY DEF AdcNext, Inv, AddChainExact
<1>6. result' + Carry' * weight' = x' + y'
  BY <1>1, <1>2, <1>4, <1>5, ExtendedSum
<1>7. weight' \in Int /\ x' \in Int /\ y' \in Int /\ result' \in Int
  BY <1>1, <1>2, <1>4, ExtendedType
<1> QED BY <1>3, <1>6, <1>7 DEF Inv, AddChainExact, SubChainAccount

LEMMA SubLowestStep ==
  ASSUME Inv, SubLowest
  PROVE  Inv'
<1>1. PICK a \in Operands, b \in Operands : Extend(a, b, Sub(a, b))
  BY DEF SubLowest
<1>2. a \in Byte /\ b \in Byte
  BY ChainAssumption
<1>3. kind' = "sub" /\ lost' \in Int /\ lost' = lost + weight * 0 /\ Carry = 0
  BY DEF SubLowest, Inv
<1>4. /\ Sub(a, b).value \in Int
      /\ Sub(a, b).value - 256 * CarryOf(Sub(a, b)) = a - b - Carry + 0
  BY <1>2, <1>3, SubExact, ByteBounds
<1>5. result - Carry * weight = x - y + lost
  BY DEF SubLowest, Inv
<1>6. result' - Carry' * weight' = x' - y' + lost'
  BY <1>1, <1>2, <1>3, <1>4, <1>5, ExtendedDifference
<1>7. weight' \in Int /\ x' \in Int /\ y' \in Int /\ result' \in Int
  BY <1>1, <1>2, <1>4, ExtendedType
<1> QED BY <1>3, <1>6, <1>7 DEF Inv, AddChainExact, SubChainAccount

LEMMA SbcNextStep ==
  ASSUME Inv, SbcNext
  PROVE  Inv'
<1>1. PICK a \in Operands, b \in Operands :
        /\ Extend(a, b, Sbc(a, b, Carry))
        /\ lost' = lost + IF b = 255 THEN 256 * weight * Carry ELSE 0
  BY DEF SbcNext
<1>2. a \in Byte /\ b \in Byte
  BY ChainAssumption
<1> DEFINE d == IF b = 255 THEN 256 * Carry ELSE 0
<1>3. d \in Int /\ lost' = lost + weight * d /\ lost' \in Int /\ kind' = "sub"
  BY <1>1, CarryIsBit DEF SbcNext, Inv
<1>4. /\ Sbc(a, b, Carry).value \in Int
      /\ Sbc(a, b, Carry).value - 256 * CarryOf(Sbc(a, b, Carry)) = a - b - Carry + d
  BY <1>2, CarryIsBit, SbcExact
<1>5. result - Carry * weight = x - y + lost
  BY DEF SbcNext, Inv, SubChainAccount
<1> HIDE DEF d
<1>6. result' - Carry' * weight' = x' - y' + lost'
  BY <1>1, <1>2, <1>3, <1>4, <1>5, ExtendedDifference
<1>7. weight' \in Int /\ x' \in Int /\ y' \in Int /\ result' \in Int
  BY <1>1, <1>2, <1>4, ExtendedType
<1> QED BY <1>3, <1>6, <1>7 DEF Inv, AddChainExact, SubChainAccount

LEMMA InvInductive == Spec => []Inv
<1>1. Init => Inv
  BY DEF Init, Inv, AddChainExact, SubChainAccount, Carry, HasBit, FLAG_C
<1>2. Inv /\ [Next]_vars => Inv'
  <2>1. ASSUME Inv, UNCHANGED vars
        PROVE  Inv'
    BY <2>1 DEF vars, Inv, AddChainExact, SubChainAccount, Carry
  <2> QED BY <2>1, AddLowestStep, SubLowestStep, AdcNextStep, SbcNextStep DEF Next
<1> QED BY <1>1, <1>2, PTL DEF Spec

(***************************************************************************)
(* An addition of numbers of any length is exact: no carry is lost between *)
(* two instructions, whatever the bytes (alu.c:3-35).                      *)
(***************************************************************************)
THEOREM AdditionExact == Spec => []AddChainExact
  BY InvInductive, PTL DEF Inv

(***************************************************************************)
(* A subtraction of numbers of any length is wrong by exactly the borrows  *)
(* that SBC of 255 drops (alu.c:52-67), and by nothing else.               *)
(***************************************************************************)
THEOREM SubtractionAccounted == Spec => []SubChainAccount
  BY InvInductive, PTL DEF Inv
=============================================================================
