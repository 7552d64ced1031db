-------------------------------- MODULE Alu --------------------------------
(***************************************************************************)
(* The accumulator and the flags under arithmetic, logic, rotations and the   *)
(* decimal adjustment, as the core computes them: half carries from nibbles,   *)
(* carries from wider sums.  The properties compare them with an adder built   *)
(* of full adders and with decimal arithmetic.                                *)
(***************************************************************************)
EXTENDS Integers

CONSTANT Operands  \* bytes the accumulator meets

Byte == 0 .. 255

VARIABLES
  a,             \* the accumulator
  z, n, h, c,    \* the flags
  due            \* history: the decimal result an adjustment now must give

vars == <<a, z, n, h, c, due>>

None == [value |-> -1, carry |-> FALSE]
Num(b) == IF b THEN 1 ELSE 0
Low(v) == v % 16
Bit(v, i) == (v \div (2^i)) % 2
FromBits(bit) == bit[0] + 2 * bit[1] + 4 * bit[2] + 8 * bit[3] + 16 * bit[4] + 32 * bit[5]
                 + 64 * bit[6] + 128 * bit[7]
Bitwise(Op(_, _), v, w) == FromBits([i \in 0 .. 7 |-> Op(Bit(v, i), Bit(w, i))])

Init == a \in Operands /\ z = FALSE /\ n = FALSE /\ h = FALSE /\ c \in BOOLEAN /\ due = None

Flags(zero, negative, half, carry) == z' = zero /\ n' = negative /\ h' = half /\ c' = carry
Result(v) == a' = v
KeepsAccumulator == a' = a

(* Packed decimal digits, and what adding and taking them away gives.        *)
IsDecimal(v) == Low(v) =< 9 /\ v \div 16 =< 9
Decimal(v) == 10 * (v \div 16) + Low(v)
DueAfter(v, total) ==
  IF IsDecimal(a) /\ IsDecimal(v) THEN [value |-> total % 100, carry |-> total < 0 \/ total > 99]
  ELSE None

---------------------------------------------------------------------------
\* Arithmetic

Add(v) ==
  /\ Result((a + v) % 256)
  /\ Flags((a + v) % 256 = 0, FALSE, Low(a) + Low(v) > 15, a + v > 255)
  /\ due' = DueAfter(v, Decimal(a) + Decimal(v))

(* Mutant of Half. *)
HalfWithoutCarry(v, carry) == Low(a) + Low(v) > 15
Half(v, carry) == Low(a) + Low(v) + carry > 15

Adc(v) ==
  LET sum == a + v + Num(c) IN
  /\ Result(sum % 256)
  /\ Flags(sum % 256 = 0, FALSE, Half(v, Num(c)), sum > 255)
  /\ due' = DueAfter(v, Decimal(a) + Decimal(v) + Num(c))

Sub(v) ==
  /\ Result((a - v) % 256)
  /\ Flags(a = v, TRUE, Low(a) < Low(v), a < v)
  /\ due' = DueAfter(v, Decimal(a) - Decimal(v))

Sbc(v) ==
  LET difference == (a - v - Num(c)) % 256 IN
  /\ Result(difference)
  /\ Flags(difference = 0, TRUE, Low(a) < Low(v) + Num(c), a < v + Num(c))
  /\ due' = DueAfter(v, Decimal(a) - Decimal(v) - Num(c))

Cp(v) ==
  /\ KeepsAccumulator
  /\ Flags(a = v, TRUE, Low(a) < Low(v), a < v)
  /\ due' = None

(* A step keeps the carry. *)
Inc == Result((a + 1) % 256) /\ Flags(a = 255, FALSE, Low(a) = 15, c) /\ due' = None
Dec == Result((a - 1) % 256) /\ Flags(a = 1, TRUE, Low(a) = 0, c) /\ due' = None

Both(x, y) == x * y
Either(x, y) == IF x + y > 0 THEN 1 ELSE 0
Differ(x, y) == (x + y) % 2

And(v) == LET r == Bitwise(Both, a, v) IN Result(r) /\ Flags(r = 0, FALSE, TRUE, FALSE) /\ due' = None
Or(v) == LET r == Bitwise(Either, a, v) IN Result(r) /\ Flags(r = 0, FALSE, FALSE, FALSE) /\ due' = None
Xor(v) == LET r == Bitwise(Differ, a, v) IN Result(r) /\ Flags(r = 0, FALSE, FALSE, FALSE) /\ due' = None

(* What DAA adds or takes away, from the flags the last operation left.      *)
Adjusted ==
  LET six == IF h \/ (~ n /\ Low(a) > 9) THEN 6 ELSE 0
      sixty == IF c \/ (~ n /\ a > 153) THEN 96 ELSE 0
  IN [a |-> (IF n THEN a - six - sixty ELSE a + six + sixty) % 256, c |-> sixty # 0]

Daa ==
  /\ Result(Adjusted.a)
  /\ Flags(Adjusted.a = 0, n, FALSE, Adjusted.c)
  /\ due' = None

---------------------------------------------------------------------------
\* Rotations and shifts: of the accumulator (Z cleared) or by a CB opcode

Turned(result, carry, cb) ==
  Result(result) /\ Flags(cb /\ result = 0, FALSE, FALSE, carry) /\ due' = None

Rlc(cb) == Turned((2 * a + Bit(a, 7)) % 256, Bit(a, 7) = 1, cb)
Rrc(cb) == Turned(a \div 2 + 128 * Bit(a, 0), Bit(a, 0) = 1, cb)
Rl(cb) == Turned((2 * a + Num(c)) % 256, Bit(a, 7) = 1, cb)
Rr(cb) == Turned(a \div 2 + 128 * Num(c), Bit(a, 0) = 1, cb)
Sla == Turned((2 * a) % 256, Bit(a, 7) = 1, TRUE)
Sra == Turned(a \div 2 + 128 * Bit(a, 7), Bit(a, 0) = 1, TRUE)
Swap == Turned(16 * Low(a) + a \div 16, FALSE, TRUE)
Srl == Turned(a \div 2, Bit(a, 0) = 1, TRUE)

(* BIT keeps the carry; RES and SET keep every flag. *)
BitTest(i) == KeepsAccumulator /\ Flags(Bit(a, i) = 0, FALSE, TRUE, c) /\ due' = None
ResetBit(i) == Result(a - Bit(a, i) * 2^i) /\ UNCHANGED <<z, n, h, c>> /\ due' = None
SetBit(i) == Result(a + (1 - Bit(a, i)) * 2^i) /\ UNCHANGED <<z, n, h, c>> /\ due' = None

Scf == KeepsAccumulator /\ Flags(z, FALSE, FALSE, TRUE) /\ due' = None
Ccf == KeepsAccumulator /\ Flags(z, FALSE, FALSE, ~ c) /\ due' = None
Cpl == Result(255 - a) /\ Flags(z, TRUE, TRUE, c) /\ due' = None

Arithmetic(v) == Add(v) \/ Adc(v) \/ Sub(v) \/ Sbc(v) \/ Cp(v) \/ And(v) \/ Or(v) \/ Xor(v)
Rotation == (\E cb \in BOOLEAN : Rlc(cb) \/ Rrc(cb) \/ Rl(cb) \/ Rr(cb)) \/ Sla \/ Sra \/ Swap \/ Srl
BitOperation == \E i \in {0, 7} : BitTest(i) \/ ResetBit(i) \/ SetBit(i)

Next == (\E v \in Operands : Arithmetic(v)) \/ Inc \/ Dec \/ Daa \/ Rotation \/ BitOperation
        \/ Scf \/ Ccf \/ Cpl

Spec == Init /\ [][Next]_vars

---------------------------------------------------------------------------
\* Properties

(* Carries of a chain of full adders: the carry into each bit. *)
Carries(v, w, first) ==
  LET carry[i \in 0 .. 8] ==
        IF i = 0 THEN first
        ELSE IF Bit(v, i - 1) + Bit(w, i - 1) + carry[i - 1] >= 2 THEN 1 ELSE 0
  IN carry

(* What an adder of v and w shows, its carries inverted for a subtraction.   *)
Shows(v, w, first, inverted) ==
  LET k == Carries(v, w, first) IN
  /\ a' = FromBits([i \in 0 .. 7 |-> (Bit(v, i) + Bit(w, i) + k[i]) % 2])
  /\ z' = (a' = 0) /\ n' = inverted
  /\ h' = (k[4] = Num(~ inverted)) /\ c' = (k[8] = Num(~ inverted))

(* An adjustment straight after a sum or a difference of packed decimals, of  *)
(* any kind and with any carry, gives the decimal result and its carry.      *)
DecimalIsAdjusted ==
  due # None => IsDecimal(Adjusted.a) /\ Decimal(Adjusted.a) = due.value /\ Adjusted.c = due.carry

(* Half carry and carry of the four sums are those of an eight-bit adder (a   *)
(* subtraction adds the complement), whatever the flag that enters; and a      *)
(* rotation or a shift loses no bit, the carry counted where it takes part.  *)
Ones(v) == Bit(v, 0) + Bit(v, 1) + Bit(v, 2) + Bit(v, 3) + Bit(v, 4) + Bit(v, 5) + Bit(v, 6) + Bit(v, 7)
BitsComeOutRight ==
  [][/\ \A v \in Operands :
          /\ Add(v) => Shows(a, v, 0, FALSE)
          /\ Adc(v) => Shows(a, v, Num(c), FALSE)
          /\ Sub(v) => Shows(a, 255 - v, 1, TRUE)
          /\ Sbc(v) => Shows(a, 255 - v, Num(~ c), TRUE)
     /\ \A cb \in BOOLEAN :
          /\ Rl(cb) \/ Rr(cb) => Ones(a') + Num(c') = Ones(a) + Num(c)
          /\ Rlc(cb) \/ Rrc(cb) \/ Swap => Ones(a') = Ones(a)
          /\ Sla \/ Srl => Ones(a') + Num(c') = Ones(a)]_vars
=============================================================================
