--------------------------- MODULE MultiplierProofs ---------------------------
(***************************************************************************)
(* Theorems about Multiplier, for every width, every order of functions    *)
(* and every operand.                                                      *)
(***************************************************************************)
EXTENDS Multiplier, TLAPS

(***************************************************************************)
(* The inductive invariant.  Weight is what the bit that is done next      *)
(* counts; Left is the weight of all bits that are left.                   *)
(***************************************************************************)
Weight == 2^(Width - count_reg)
Left   == 2^count_reg

TypeOK ==
  /\ mode_reg \in {MODE_MULT, MODE_DIV}
  /\ {negate_reg, sign_reg, sign2_reg} \subseteq BOOLEAN
  /\ count_reg \in 0 .. Width
  /\ {aa_reg, bb_reg, upper_reg, lower_reg} \subseteq Word
  /\ goal.func \in Starts => {goal.a, goal.b} \subseteq Word
  /\ wrote \in [Writes -> Word \cup {Nothing}]

Scale == Weight \in Nat \ {0} /\ Left \in Nat \ {0} /\ Weight * Left = 2^Width

(* The multiplier, the dividend and the divisor lose their sign.           *)
Negated(x)  == goal.func \in {"SIGNED_MULT", "SIGNED_DIVIDE"} /\ Msb(x)
Unsigned(x) == IF Negated(x) THEN Negate(x) ELSE x

(* The multiplicand has the sign of the product.                           *)
Multiplicand ==
  Number(goal.func = "SIGNED_MULT", IF Negated(goal.b) THEN Negate(goal.a) ELSE goal.a)

(* The upper word is a negative number once a negative one was added.      *)
Partial == IF sign2_reg THEN upper_reg - 2^Width ELSE upper_reg

Signs ==
  /\ Multiplicand >= 0 => ~sign_reg /\ ~sign2_reg
  /\ Multiplicand < 0  => /\ sign_reg <=> ~sign2_reg
                          /\ sign_reg => upper_reg = 0
                          /\ Partial \in Multiplicand .. 0
                          /\ sign2_reg => Partial < 0

(* The sum so far, in the upper word and the bits of the lower one that    *)
(* are done, is the product with the bits of the multiplier that are done. *)
Multiplying ==
  /\ mode_reg = MODE_MULT /\ ~negate_reg
  /\ aa_reg = Multiplicand % 2^Width
  /\ Signs
  /\ \E done, low \in 0 .. Weight - 1, junk \in 0 .. Left - 1 :
       /\ Unsigned(goal.b) = bb_reg * Weight + done
       /\ lower_reg = low * Left + junk
       /\ Partial * Weight + low = Multiplicand * done

(* The quotient so far and the rest in the upper word make the dividend.   *)
Dividing ==
  /\ mode_reg = MODE_DIV
  /\ negate_reg <=> goal.func = "SIGNED_DIVIDE" /\ Msb(goal.a) # Msb(goal.b)
  /\ \E done, quotient \in 0 .. Weight - 1, junk \in Nat :
       /\ Unsigned(goal.b) = bb_reg * Weight + done
       /\ count_reg # 0 => 2 * aa_reg = ((bb_reg % 2) * Weight + done) * Left
       /\ lower_reg = junk * Weight + quotient
       /\ Unsigned(goal.a) = quotient * Unsigned(goal.b) * Left + upper_reg
       /\ upper_reg < Unsigned(goal.b) * Left

(* The result, and what the registers hold of it when it is there.         *)
Product  == Number(goal.func = "SIGNED_MULT", goal.a) * Number(goal.func = "SIGNED_MULT", goal.b)
Dividend == Number(goal.func = "SIGNED_DIVIDE", goal.a)
Divisor  == Number(goal.func = "SIGNED_DIVIDE", goal.b)

Results ==
  /\ goal.func \in {"MULT", "SIGNED_MULT"} =>
       /\ Shows(lower_reg, "WRITE_LO", Product % 2^Width)
       /\ ~Overflows => Shows(upper_reg, "WRITE_HI", (Product \div 2^Width) % 2^Width)
  /\ goal.func \in {"DIVIDE", "SIGNED_DIVIDE"} /\ goal.b # 0 =>
       /\ Shows(lower_reg, "WRITE_LO", Abs(Dividend) \div Abs(Divisor))
       /\ Shows(upper_reg, "WRITE_HI", Abs(Dividend) % Abs(Divisor))

IInv ==
  /\ TypeOK /\ Scale
  /\ wrote = Unwritten =>
       /\ goal.func \in {"MULT", "SIGNED_MULT"} => Multiplying
       /\ goal.func \in {"DIVIDE", "SIGNED_DIVIDE"} /\ goal.b # 0 => Dividing
  /\ wrote # Unwritten => count_reg = 0 /\ ~negate_reg /\ Results

-----------------------------------------------------------------------------
(* Powers of two.                                                          *)

LEMMA Powers ==
  ASSUME MultiplierConstants
  PROVE  /\ Width \in Nat \ {0} /\ Half \in Nat \ {0} /\ 2^Width = 2 * Half
         /\ \A n \in 0 .. Width : 2^n \in Nat \ {0}
         /\ \A n \in 0 .. Width - 1 : 2^(n + 1) = 2 * 2^n
<1>1. /\ Width \in Nat \ {0}
      /\ \A n \in 0 .. Width - 1 : 2^n \in Nat \ {0} /\ 2^(n + 1) = 2 * 2^n
  BY DEF MultiplierConstants, PowersOfTwo
<1>2. Width - 1 \in 0 .. Width - 1 /\ (Width - 1) + 1 = Width
  BY <1>1
<1>3. Half \in Nat \ {0} /\ 2^Width = 2 * Half
  BY <1>1, <1>2 DEF Half
<1>4. ASSUME NEW n \in 0 .. Width PROVE 2^n \in Nat \ {0}
  <2>1. CASE n = Width
    BY <1>3, <2>1
  <2>2. CASE n # Width
    BY <1>1, <2>2
  <2>3. QED
    BY <2>1, <2>2
<1>5. QED
  BY <1>1, <1>3, <1>4

(* One bit is done.                                                        *)
LEMMA OneBit ==
  ASSUME MultiplierConstants, count_reg \in 1 .. Width, Scale, count_reg' = count_reg - 1
  PROVE  Scale' /\ Weight' = 2 * Weight /\ Left = 2 * Left' /\ Weight * Left' = Half
<1>1. /\ Width - count_reg \in 0 .. Width - 1 /\ (Width - count_reg) + 1 = Width - count_reg'
      /\ count_reg' \in 0 .. Width - 1 /\ count_reg' + 1 = count_reg
  BY Powers
<1>2. Weight' = 2 * Weight /\ Left = 2 * Left'
  BY <1>1, Powers DEF Weight, Left
<1>3. Weight \in Nat \ {0} /\ Left' \in Nat \ {0} /\ 2^Width = 2 * Half
  BY <1>1, Powers DEF Scale, Left
<1>4. Weight * (2 * Left') = 2 * Half
  BY <1>2, <1>3 DEF Scale
<1>5. Weight * Left' = Half /\ (2 * Weight) * Left' = 2^Width
  BY <1>3, <1>4, Powers
<1>6. QED
  BY <1>2, <1>3, <1>5 DEF Scale

LEMMA SixteenTimes ==
  ASSUME MultiplierConstants, NEW n \in 0 .. Width - 4
  PROVE  2^n \in Nat \ {0} /\ 2^(n + 4) = 16 * 2^n
<1>1. {n, n + 1, n + 2, n + 3} \subseteq 0 .. Width - 1 /\ 2^n \in Nat \ {0}
  BY Powers
<1>2. 2^(n + 1) = 2 * 2^n /\ 2^((n + 1) + 1) = 2 * 2^(n + 1)
  BY <1>1, Powers
<1>3. 2^((n + 2) + 1) = 2 * 2^(n + 2) /\ 2^((n + 3) + 1) = 2 * 2^(n + 3)
  BY <1>1, Powers
<1>4. (n + 1) + 1 = n + 2 /\ (n + 2) + 1 = n + 3 /\ (n + 3) + 1 = n + 4
  OBVIOUS
<1>5. QED
  BY <1>1, <1>2, <1>3, <1>4

(* Four bits are done.                                                     *)
LEMMA FourBits ==
  ASSUME MultiplierConstants, count_reg \in 4 .. Width, Scale, count_reg' = count_reg - 4
  PROVE  /\ Scale' /\ Weight' = 16 * Weight /\ Left = 16 * Left'
         /\ Weight * Left' = 2^(Width - 4) /\ 2^Width = 16 * 2^(Width - 4)
<1>1. /\ Width - count_reg \in 0 .. Width - 4 /\ (Width - count_reg) + 4 = Width - count_reg'
      /\ count_reg' \in 0 .. Width - 4 /\ count_reg' + 4 = count_reg
      /\ Width - 4 \in 0 .. Width - 4 /\ (Width - 4) + 4 = Width
  BY Powers
<1>2. Weight' = 16 * Weight /\ Left = 16 * Left' /\ 2^Width = 16 * 2^(Width - 4)
  BY <1>1, SixteenTimes DEF Weight, Left
<1>3. Weight \in Nat \ {0} /\ Left' \in Nat \ {0} /\ 2^(Width - 4) \in Nat
  BY <1>1, Powers DEF Scale, Left
<1>4. Weight * (16 * Left') = 16 * 2^(Width - 4)
  BY <1>2, <1>3 DEF Scale
<1>5. Weight * Left' = 2^(Width - 4) /\ (16 * Weight) * Left' = 2^Width
  BY <1>2, <1>3, <1>4
<1>6. QED
  BY <1>2, <1>3, <1>5 DEF Scale

-----------------------------------------------------------------------------
(* Arithmetic.                                                             *)

LEMMA Quotient ==
  ASSUME NEW a \in Int, NEW q \in Int, NEW d \in Nat \ {0}, NEW r \in 0 .. d - 1, a = q * d + r
  PROVE  a \div d = q /\ a % d = r
OBVIOUS

LEMMA Remainder ==
  ASSUME NEW a \in Int, NEW d \in Nat \ {0}
  PROVE  a % d \in 0 .. d - 1
OBVIOUS

LEMMA InRange ==
  ASSUME NEW d \in Nat \ {0}, NEW a \in 0 .. d - 1
  PROVE  a % d = a
<1>1. a = 0 * d + a
  OBVIOUS
<1>2. QED
  BY <1>1, Quotient

LEMMA OverRange ==
  ASSUME NEW d \in Nat \ {0}, NEW a \in d .. 2 * d - 1
  PROVE  a % d = a - d
<1>1. a = 1 * d + (a - d) /\ a - d \in 0 .. d - 1
  OBVIOUS
<1>2. QED
  BY <1>1, Quotient

LEMMA UnderRange ==
  ASSUME NEW d \in Nat \ {0}, NEW a \in -d .. -1
  PROVE  a % d = a + d
<1>1. a = (-1) * d + (a + d) /\ a + d \in 0 .. d - 1
  OBVIOUS
<1>2. QED
  BY <1>1, Quotient

LEMMA Halving ==
  ASSUME NEW a \in Int
  PROVE  /\ a \div 2 \in Int /\ a % 2 \in {0, 1}
         /\ a = 2 * (a \div 2) + (a % 2)
OBVIOUS

LEMMA Sixteenths ==
  ASSUME NEW a \in Nat
  PROVE  a \div 16 \in Nat /\ a % 16 \in 0 .. 15 /\ a = 16 * (a \div 16) + (a % 16)
OBVIOUS

LEMMA Negation ==
  ASSUME MultiplierConstants, NEW x \in Word
  PROVE  Negate(x) = IF x = 0 THEN 0 ELSE 2^Width - x
<1>1. 2^Width \in Nat \ {0}
  BY Powers
<1>2. CASE x = 0
  BY <1>1, <1>2, InRange DEF Negate
<1>3. CASE x # 0
  <2>1. -x \in -(2^Width) .. -1
    BY <1>1, <1>3 DEF Word
  <2>2. (-x) % 2^Width = (-x) + 2^Width
    BY <1>1, <2>1, UnderRange
  <2>3. QED
    BY <1>1, <1>3, <2>2 DEF Negate, Word
<1>4. QED
  BY <1>2, <1>3

(* Unsigned operands are words, and the multiplicand is a word's number.   *)
LEMMA Operands ==
  ASSUME MultiplierConstants, TypeOK, goal.func \in Starts
  PROVE  /\ Unsigned(goal.a) \in Word /\ Unsigned(goal.b) \in Word
         /\ goal.b # 0 => Unsigned(goal.b) # 0
         /\ Multiplicand \in -Half .. 2^Width - 1
         /\ Multiplicand < 0 => goal.func = "SIGNED_MULT"
         /\ goal.func = "SIGNED_MULT" => Multiplicand < Half
<1>1. goal.a \in Word /\ goal.b \in Word
  BY DEF TypeOK
<1>2. /\ Negate(goal.a) = IF goal.a = 0 THEN 0 ELSE 2^Width - goal.a
      /\ Negate(goal.b) = IF goal.b = 0 THEN 0 ELSE 2^Width - goal.b
  BY <1>1, Negation
<1>3. Half \in Nat \ {0} /\ 2^Width = 2 * Half
  BY Powers
<1>4. /\ Unsigned(goal.a) \in Word /\ Unsigned(goal.b) \in Word
      /\ goal.b # 0 => Unsigned(goal.b) # 0
  BY <1>1, <1>2, <1>3 DEF Unsigned, Word
<1>5. (IF Negated(goal.b) THEN Negate(goal.a) ELSE goal.a) \in Word
  BY <1>1, <1>2, <1>3 DEF Word
<1>6. QED
  BY <1>3, <1>4, <1>5 DEF Multiplicand, Number, Signed, Msb, Word

-----------------------------------------------------------------------------
(* Types.                                                                  *)

LEMMA SumTypes ==
  ASSUME MultiplierConstants, TypeOK
  PROVE  SumWord \in Word /\ SumWord \div 2 \in 0 .. Half - 1 /\ SumWord % 2 \in {0, 1}
<1>1. 2^Width \in Nat \ {0} /\ Half \in Nat \ {0} /\ 2^Width = 2 * Half
  BY Powers
<1>2. Sum \in Int
  BY <1>1 DEF TypeOK, Word, Sum
<1>3. SumWord \in 0 .. 2^Width - 1
  BY <1>1, <1>2, Remainder DEF SumWord
<1>4. QED
  BY <1>1, <1>3 DEF Word

LEMMA ShiftTypes ==
  ASSUME MultiplierConstants, TypeOK
  PROVE  /\ \A r \in {0, 1} : /\ ShiftIntoLower(r, 1) = r * Half + (lower_reg \div 2)
                              /\ ShiftIntoLower(r, 1) \in Word
         /\ 4 <= Width =>
              \A r \in 0 .. 15 :
                /\ ShiftIntoLower(r, 4) = r * 2^(Width - 4) + (lower_reg \div 16)
                /\ ShiftIntoLower(r, 4) \in Word
<1>1. Half \in Nat \ {0} /\ 2^Width = 2 * Half /\ Width \in Nat \ {0}
  BY Powers
<1>2. lower_reg \in 0 .. 2^Width - 1
  BY DEF TypeOK, Word
<1>3. ASSUME NEW r \in {0, 1}
      PROVE  /\ ShiftIntoLower(r, 1) = r * Half + (lower_reg \div 2)
             /\ ShiftIntoLower(r, 1) \in Word
  <2>1. 2^0 = 1 /\ 2^(0 + 1) = 2 * 2^0
    BY <1>1 DEF MultiplierConstants, PowersOfTwo
  <2>2. 2^1 = 2
    BY <2>1
  <2>3. ShiftIntoLower(r, 1) = r * Half + (lower_reg \div 2)
    BY <2>2 DEF ShiftIntoLower, Half
  <2>4. lower_reg \div 2 \in 0 .. Half - 1
    BY <1>1, <1>2
  <2>5. QED
    BY <1>1, <2>3, <2>4 DEF Word
<1>4. ASSUME 4 <= Width, NEW r \in 0 .. 15
      PROVE  /\ ShiftIntoLower(r, 4) = r * 2^(Width - 4) + (lower_reg \div 16)
             /\ ShiftIntoLower(r, 4) \in Word
  <2>1. 0 \in 0 .. Width - 4 /\ Width - 4 \in 0 .. Width - 4 /\ (Width - 4) + 4 = Width
    BY <1>1, <1>4
  <2>2. 2^4 = 16
    <3>1. 2^0 = 1 /\ 2^(0 + 4) = 16 * 2^0
      BY <2>1, SixteenTimes DEF MultiplierConstants, PowersOfTwo
    <3>2. QED
      BY <3>1
  <2>3. ShiftIntoLower(r, 4) = r * 2^(Width - 4) + (lower_reg \div 16)
    BY <2>2 DEF ShiftIntoLower
  <2>4. 2^Width = 16 * 2^(Width - 4) /\ 2^(Width - 4) \in Nat \ {0}
    BY <2>1, SixteenTimes
  <2>5. lower_reg \div 16 \in 0 .. 2^(Width - 4) - 1
    BY <1>2, <2>4
  <2>6. QED
    BY <2>3, <2>4, <2>5 DEF Word
<1>5. QED
  BY <1>3, <1>4

(* lower_reg shifted up, without the bit that falls out. *)
LEMMA ShiftedUp ==
  ASSUME MultiplierConstants, TypeOK
  PROVE  (2 * lower_reg) % 2^Width =
            IF lower_reg < Half THEN 2 * lower_reg ELSE 2 * lower_reg - 2^Width
<1>1. Half \in Nat \ {0} /\ 2^Width = 2 * Half /\ lower_reg \in 0 .. 2^Width - 1
  BY Powers DEF TypeOK, Word
<1>2. CASE lower_reg < Half
  <2>1. 2 * lower_reg \in 0 .. 2^Width - 1
    BY <1>1, <1>2
  <2>2. QED
    BY <1>1, <1>2, <2>1, InRange
<1>3. CASE ~(lower_reg < Half)
  <2>1. 2 * lower_reg \in 2^Width .. 2 * 2^Width - 1
    BY <1>1, <1>3
  <2>2. (2 * lower_reg) % 2^Width = 2 * lower_reg - 2^Width
    BY <1>1, <2>1, OverRange
  <2>3. QED
    BY <1>3, <2>2
<1>4. QED
  BY <1>2, <1>3

LEMMA StepTypes ==
  ASSUME MultiplierConstants, TypeOK, Step
  PROVE  TypeOK'
<1>1. /\ 2^Width \in Nat \ {0} /\ Half \in Nat \ {0} /\ 2^Width = 2 * Half
      /\ Width \in Nat
  BY Powers
<1>2. /\ {aa_reg, bb_reg, upper_reg, lower_reg} \subseteq 0 .. 2^Width - 1
      /\ {negate_reg, sign_reg, sign2_reg} \subseteq BOOLEAN
      /\ count_reg \in 1 .. Width
  BY DEF TypeOK, Word, Step
<1>3. UNCHANGED <<mode_reg, negate_reg, goal, wrote>>
  BY DEF Step, history
<1>4. CASE MultAdd
  <2>1. upper_reg' \in Word /\ lower_reg' \in Word
    BY <1>1, <1>4, SumTypes, ShiftTypes DEF MultAdd, Word
  <2>2. bb_reg' \in Word /\ count_reg' \in 0 .. Width
    BY <1>1, <1>2, <1>4 DEF MultAdd, Word
  <2>3. {sign_reg', sign2_reg'} \subseteq BOOLEAN
    BY <1>4 DEF MultAdd
  <2>4. QED
    BY <1>3, <1>4, <2>1, <2>2, <2>3 DEF TypeOK, MultAdd
<1>5. CASE MultSkip
  <2>1. 4 <= Width /\ count_reg' \in 0 .. Width
    BY <1>1, <1>2, <1>5 DEF MultSkip, CanSkip
  <2>2. upper_reg % 16 \in 0 .. 15 /\ upper_reg' \in Word /\ bb_reg' \in Word
    BY <1>1, <1>2, <1>5 DEF MultSkip, Word
  <2>3. lower_reg' \in Word
    BY <1>5, <2>1, <2>2, ShiftTypes DEF MultSkip
  <2>4. QED
    BY <1>3, <1>5, <2>1, <2>2, <2>3 DEF TypeOK, MultSkip
<1>6. CASE MultShift
  <2>1. upper_reg % 2 \in {0, 1} /\ upper_reg' \in Word /\ bb_reg' \in Word
    BY <1>1, <1>2, <1>6 DEF MultShift, Word
  <2>2. lower_reg' \in Word /\ count_reg' \in 0 .. Width
    BY <1>1, <1>2, <1>6, <2>1, ShiftTypes DEF MultShift
  <2>3. QED
    BY <1>3, <1>6, <2>1, <2>2 DEF TypeOK, MultShift
<1>7. CASE Divide
  <2>1. lower_reg' \in Word
    <3>1. (2 * lower_reg) % 2^Width \in 0 .. 2^Width - 2
      BY <1>1, <1>2, ShiftedUp
    <3>2. lower_reg' \in {(2 * lower_reg) % 2^Width, ((2 * lower_reg) % 2^Width) + 1}
      BY <1>7, <3>1 DEF Divide
    <3>3. QED
      BY <1>1, <3>1, <3>2 DEF Word
  <2>2. upper_reg' \in Word
    BY <1>2, <1>7, SumTypes DEF Divide, Word
  <2>3. aa_reg' \in Word /\ bb_reg' \in Word /\ count_reg' \in 0 .. Width
    <3>1. (bb_reg \div 2) % 2 \in {0, 1} /\ aa_reg \div 2 \in 0 .. Half - 1
      BY <1>1, <1>2
    <3>2. aa_reg' \in {aa_reg \div 2, Half + (aa_reg \div 2)}
      BY <1>1, <1>7, <3>1 DEF Divide
    <3>3. bb_reg' \in Word /\ count_reg' \in 0 .. Width
      BY <1>1, <1>2, <1>7 DEF Divide, Word
    <3>4. QED
      BY <1>1, <3>1, <3>2, <3>3 DEF Word
  <2>4. QED
    BY <1>3, <1>7, <2>1, <2>2, <2>3 DEF TypeOK, Divide
<1>8. QED
  BY <1>4, <1>5, <1>6, <1>7 DEF Step

LEMMA IssueTypes ==
  ASSUME MultiplierConstants, TypeOK, NEW i \in First \cup Later, Issue(i)
  PROVE  TypeOK'
<1>1. /\ 2^Width \in Nat \ {0} /\ Half \in Nat \ {0} /\ 2^Width = 2 * Half
      /\ Width \in Nat
  BY Powers
<1>2. /\ i.a \in Word /\ i.b \in Word /\ i.func \in Starts \cup Writes
      /\ goal'.func \in Starts => {goal'.a, goal'.b} \subseteq Word
      /\ wrote' \in [Writes -> Word \cup {Nothing}]
  <2>1. i.a \in Word /\ i.b \in Word /\ i.func \in Starts \cup Writes
    BY DEF MultiplierConstants
  <2>2. goal' \in {goal, i}
    BY DEF Issue, Observe
  <2>3. wrote' \in [Writes -> Word \cup {Nothing}]
    BY <2>1 DEF Issue, Observe, Unwritten, TypeOK
  <2>4. QED
    BY <2>1, <2>2, <2>3 DEF TypeOK
<1>3. Negate(i.a) \in Word /\ Negate(i.b) \in Word
  BY <1>1, <1>2, Negation DEF Word
<1>4. CASE WriteLo(i.a) \/ WriteHi(i.a)
  BY <1>2, <1>4 DEF TypeOK, WriteLo, WriteHi
<1>5. ASSUME NEW signed \in BOOLEAN, StartMult(signed, i.a, i.b)
      PROVE  TypeOK'
  <2>1. aa_reg' \in Word /\ bb_reg' \in Word
    BY <1>2, <1>3, <1>5 DEF StartMult, Magnitude
  <2>2. {sign_reg', sign2_reg', negate_reg'} \subseteq BOOLEAN
    BY <1>5 DEF StartMult, Msb
  <2>3. QED
    BY <1>1, <1>2, <1>5, <2>1, <2>2 DEF TypeOK, StartMult, Word
<1>6. ASSUME NEW signed \in BOOLEAN, StartDivide(signed, i.a, i.b)
      PROVE  TypeOK'
  <2>1. bb_reg' \in Word /\ upper_reg' \in Word
    BY <1>2, <1>3, <1>6 DEF StartDivide, Magnitude
  <2>2. aa_reg' \in Word
    <3>1. bb_reg' % 2 \in {0, 1} /\ aa_reg' = (bb_reg' % 2) * Half
      BY <1>1, <1>6, <2>1 DEF StartDivide, Word
    <3>2. QED
      BY <1>1, <3>1 DEF Word
  <2>3. negate_reg' \in BOOLEAN
    BY <1>6 DEF StartDivide
  <2>4. QED
    BY <1>1, <1>2, <1>6, <2>1, <2>2, <2>3 DEF TypeOK, StartDivide, Word
<1>7. QED
  BY <1>4, <1>5, <1>6 DEF Issue

-----------------------------------------------------------------------------
(* Multiplication.                                                         *)

(* The signs keep the operands where they were. *)
LEMMA SameGoal ==
  ASSUME goal' = goal
  PROVE  /\ Multiplicand' = Multiplicand
         /\ Unsigned(goal.a)' = Unsigned(goal.a) /\ Unsigned(goal.b)' = Unsigned(goal.b)
BY DEF Multiplicand, Unsigned, Negated, Number, Signed, Negate, Msb

LEMMA MultiplicandWord ==
  ASSUME MultiplierConstants, TypeOK, goal.func \in Starts
  PROVE  Multiplicand % 2^Width =
            IF Multiplicand < 0 THEN 2^Width + Multiplicand ELSE Multiplicand
<1>1. /\ 2^Width \in Nat \ {0} /\ Half \in Nat \ {0} /\ 2^Width = 2 * Half
      /\ Multiplicand \in -Half .. 2^Width - 1
  BY Powers, Operands
<1>2. CASE Multiplicand < 0
  <2>1. Multiplicand \in -(2^Width) .. -1
    BY <1>1, <1>2
  <2>2. Multiplicand % 2^Width = Multiplicand + 2^Width
    BY <1>1, <2>1, UnderRange
  <2>3. QED
    BY <1>1, <1>2, <2>2
<1>3. CASE ~(Multiplicand < 0)
  <2>1. Multiplicand \in 0 .. 2^Width - 1
    BY <1>1, <1>3
  <2>2. Multiplicand % 2^Width = Multiplicand
    BY <1>1, <2>1, InRange
  <2>3. QED
    BY <1>3, <2>2
<1>4. QED
  BY <1>2, <1>3

LEMMA DoubledPlus ==
  ASSUME NEW h \in Int, NEW s \in Int
  PROVE  (2 * h + s) \div 2 = h + (s \div 2) /\ (2 * h + s) % 2 = s % 2
OBVIOUS

(* The sum with its carry and its sign is the sum of signed numbers. *)
LEMMA SignedSum ==
  ASSUME MultiplierConstants, TypeOK, goal.func \in Starts,
         aa_reg = Multiplicand % 2^Width, Signs, MultAdd, goal' = goal
  PROVE  /\ Partial' = (Partial + Multiplicand) \div 2
         /\ SumWord % 2 = (Partial + Multiplicand) % 2
         /\ Signs'
<1> DEFINE S == Partial + Multiplicand
<1>1. /\ 2^Width \in Nat \ {0} /\ Half \in Nat \ {0} /\ 2^Width = 2 * Half
      /\ Multiplicand \in -Half .. 2^Width - 1 /\ Multiplicand' = Multiplicand
      /\ upper_reg \in 0 .. 2^Width - 1
  BY Powers, Operands, SameGoal DEF TypeOK, Word
<1>2. Sum = upper_reg + aa_reg /\ (Carry <=> Sum >= 2^Width) /\ SumWord = Sum % 2^Width
  BY DEF MultAdd, Sum, Carry, SumWord
<1>3. /\ upper_reg' = (IF sign_reg # Carry THEN Half ELSE 0) + (SumWord \div 2)
      /\ sign2_reg' = (sign2_reg \/ sign_reg) /\ sign_reg' = FALSE
  BY DEF MultAdd
<1>4. /\ sign_reg \in BOOLEAN /\ sign2_reg \in BOOLEAN /\ Carry \in BOOLEAN
      /\ aa_reg = IF Multiplicand < 0 THEN 2^Width + Multiplicand ELSE Multiplicand
  <2>1. Carry \in BOOLEAN
    <3>1. aa_reg \in 0 .. 2^Width - 1 /\ Sum \in Int
      BY <1>1, <1>2 DEF TypeOK, Word
    <3>2. (Sum >= 2^Width) \in BOOLEAN
      BY <1>1, <3>1
    <3>3. Carry = (Sum >= 2^Width)
      BY DEF Carry, MultAdd
    <3>4. QED
      BY <3>2, <3>3
  <2>2. sign_reg \in BOOLEAN /\ sign2_reg \in BOOLEAN
    BY DEF TypeOK
  <2>3. aa_reg = IF Multiplicand < 0 THEN 2^Width + Multiplicand ELSE Multiplicand
    BY MultiplicandWord
  <2>4. QED
    BY <2>1, <2>2, <2>3
<1>5. CASE Multiplicand >= 0
  <2>1. ~sign_reg /\ ~sign2_reg /\ ~sign_reg' /\ ~sign2_reg'
    BY <1>3, <1>5 DEF Signs
  <2>2. Partial = upper_reg /\ Partial' = upper_reg'
    BY <2>1 DEF Partial
  <2>3. aa_reg = Multiplicand
    BY <1>1, <1>4, <1>5
  <2>4. Sum = S /\ Sum \in 0 .. 2 * 2^Width - 1
    BY <1>1, <1>2, <1>5, <2>2, <2>3
  <2>5. upper_reg' = Sum \div 2 /\ SumWord % 2 = Sum % 2
    <3>1. CASE Carry
      <4>1. Sum \in 2^Width .. 2 * 2^Width - 1
        BY <1>1, <1>2, <2>4, <3>1
      <4>2. SumWord \in Int /\ Sum = 2 * Half + SumWord
        <5>1. Sum % 2^Width = Sum - 2^Width
          BY <1>1, <4>1, OverRange
        <5>2. QED
          BY <1>1, <1>2, <4>1, <5>1
      <4>3. upper_reg' = Half + (SumWord \div 2)
        BY <1>3, <1>4, <2>1, <3>1
      <4>4. QED
        BY <1>1, <4>2, <4>3, DoubledPlus
    <3>2. CASE ~Carry
      <4>1. Sum \in 0 .. 2^Width - 1
        BY <1>1, <1>2, <2>4, <3>2
      <4>2. SumWord = Sum
        BY <1>1, <1>2, <4>1, InRange
      <4>3. ~(sign_reg # Carry)
        BY <1>4, <2>1, <3>2
      <4>4. upper_reg' = 0 + (SumWord \div 2)
        BY <1>3, <4>3
      <4>5. QED
        BY <4>1, <4>2, <4>4
    <3>3. QED
      BY <3>1, <3>2
  <2>6. Signs'
    BY <1>1, <1>5, <2>1 DEF Signs
  <2>7. QED
    BY <2>2, <2>4, <2>5, <2>6
<1>6. CASE Multiplicand < 0
  <2>1. /\ sign_reg <=> ~sign2_reg
        /\ sign_reg => upper_reg = 0
        /\ Partial \in Multiplicand .. 0
        /\ sign2_reg => Partial < 0
    BY <1>6 DEF Signs
  <2>2. ~sign_reg' /\ sign2_reg'
    BY <1>3, <2>1
  <2>3. Partial' = upper_reg' - 2^Width
    BY <2>2 DEF Partial
  <2>4. aa_reg = 2^Width + Multiplicand
    BY <1>1, <1>4, <1>6
  <2>5. S \in 2 * Multiplicand .. -1 /\ S \in Int /\ Partial \in Int
    BY <1>1, <1>6, <2>1
  <2>6. SumWord = 2 * Half + S /\ (Carry <=> sign2_reg)
    <3>1. CASE sign_reg
      <4>1. upper_reg = 0 /\ Partial = 0
        BY <2>1, <3>1 DEF Partial
      <4>2. Sum = 2 * Half + S /\ Sum \in 0 .. 2^Width - 1
        BY <1>1, <1>2, <1>6, <2>4, <4>1
      <4>3. SumWord = 2 * Half + S
        BY <1>1, <1>2, <4>2, InRange
      <4>4. ~Carry
        BY <1>1, <1>2, <4>2
      <4>5. QED
        BY <2>1, <3>1, <4>3, <4>4
    <3>2. CASE sign2_reg
      <4>1. Partial = upper_reg - 2^Width
        BY <3>2 DEF Partial
      <4>2. Sum = 2 * 2^Width + S /\ Sum \in 2^Width .. 2 * 2^Width - 1
        BY <1>1, <1>2, <1>6, <2>1, <2>4, <2>5, <4>1
      <4>3. SumWord = Sum - 2^Width
        BY <1>1, <1>2, <4>2, OverRange
      <4>4. SumWord = 2 * Half + S
        BY <1>1, <2>5, <4>2, <4>3
      <4>5. Carry
        BY <1>1, <1>2, <4>2
      <4>6. QED
        BY <3>2, <4>4, <4>5
    <3>3. QED
      BY <2>1, <3>1, <3>2
  <2>7. upper_reg' = Half + (SumWord \div 2)
    <3>1. sign_reg # Carry
      BY <1>4, <2>1, <2>6
    <3>2. QED
      BY <1>3, <3>1
  <2>8. SumWord \div 2 = Half + (S \div 2) /\ SumWord % 2 = S % 2
    BY <1>1, <2>5, <2>6, DoubledPlus
  <2>9. Partial' = S \div 2
    <3>1. S \div 2 \in Int
      BY <2>5
    <3>2. QED
      BY <1>1, <2>3, <2>7, <2>8, <3>1
  <2>10. Partial' \in Multiplicand .. -1
    BY <1>1, <2>5, <2>9
  <2>11. Signs'
    BY <1>1, <1>6, <2>2, <2>10 DEF Signs
  <2>12. QED
    BY <2>8, <2>9, <2>11
<1>7. QED
  BY <1>1, <1>5, <1>6

(* Bits of the sum enter the lower word from above. *)
LEMMA OneBitLower ==
  ASSUME NEW p \in Nat \ {0}, NEW q \in Nat \ {0},
         NEW low \in 0 .. p - 1, NEW junk \in 0 .. 2 * q - 1, NEW r \in 0 .. 1
  PROVE  /\ r * (p * q) + ((low * (2 * q) + junk) \div 2) = (low + r * p) * q + (junk \div 2)
         /\ low + r * p \in 0 .. 2 * p - 1
         /\ junk \div 2 \in 0 .. q - 1
<1>1. (low * (2 * q) + junk) \div 2 = low * q + (junk \div 2)
  <2>1. low * q \in Nat /\ low * (2 * q) = 2 * (low * q)
    OBVIOUS
  <2>2. QED
    BY <2>1
<1>2. r * (p * q) + low * q = (low + r * p) * q
  OBVIOUS
<1>3. low + r * p \in 0 .. 2 * p - 1
  OBVIOUS
<1>4. junk \div 2 \in 0 .. q - 1
  OBVIOUS
<1>5. QED
  BY <1>1, <1>2, <1>3, <1>4

LEMMA FourBitsLower ==
  ASSUME NEW p \in Nat \ {0}, NEW q \in Nat \ {0},
         NEW low \in 0 .. p - 1, NEW junk \in 0 .. 16 * q - 1, NEW r \in 0 .. 15
  PROVE  /\ r * (p * q) + ((low * (16 * q) + junk) \div 16) = (low + r * p) * q + (junk \div 16)
         /\ low + r * p \in 0 .. 16 * p - 1
         /\ junk \div 16 \in 0 .. q - 1
<1>1. (low * (16 * q) + junk) \div 16 = low * q + (junk \div 16)
  <2>1. low * q \in Nat /\ low * (16 * q) = 16 * (low * q)
    OBVIOUS
  <2>2. QED
    BY <2>1
<1>2. r * (p * q) + low * q = (low + r * p) * q
  OBVIOUS
<1>3. low + r * p \in 0 .. 16 * p - 1
  OBVIOUS
<1>4. junk \div 16 \in 0 .. q - 1
  OBVIOUS
<1>5. QED
  BY <1>1, <1>2, <1>3, <1>4

(* The halved sum and the bit that left it, in terms of the product. *)
LEMMA ProductStep ==
  ASSUME NEW P \in Int, NEW T \in Int, NEW A \in Int, NEW r \in Int,
         NEW p \in Nat, NEW low \in Nat, NEW done \in Nat,
         P + A = 2 * T + r, P * p + low = A * done
  PROVE  T * (2 * p) + (low + r * p) = A * (done + p)
OBVIOUS

(* The same where nothing is added. *)
LEMMA ShiftStep ==
  ASSUME NEW P \in Int, NEW T \in Int, NEW c \in Int, NEW r \in Int, NEW f \in Int,
         NEW p \in Int, NEW low \in Int,
         P = f * T + r, P * p + low = c
  PROVE  T * (f * p) + (low + r * p) = c
OBVIOUS

(* Bits of the multiplier are used up from below. *)
LEMMA UsedUp ==
  ASSUME NEW u \in Nat, NEW v \in Nat, NEW r \in Nat, NEW f \in Nat, NEW p \in Nat, NEW done \in Nat,
         u = f * v + r
  PROVE  u * p + done = v * (f * p) + (done + r * p)
OBVIOUS

LEMMA MultAddKeeps ==
  ASSUME MultiplierConstants, TypeOK, Scale, Multiplying, goal.func \in {"MULT", "SIGNED_MULT"},
         count_reg # 0, MultAdd, UNCHANGED <<mode_reg, negate_reg, goal>>
  PROVE  Scale' /\ Multiplying'
<1>1. PICK done \in 0 .. Weight - 1, low \in 0 .. Weight - 1, junk \in 0 .. Left - 1 :
        /\ Unsigned(goal.b) = bb_reg * Weight + done
        /\ lower_reg = low * Left + junk
        /\ Partial * Weight + low = Multiplicand * done
  BY DEF Multiplying
<1>2. /\ Scale' /\ Weight' = 2 * Weight /\ Left = 2 * Left' /\ Weight * Left' = Half
      /\ Weight \in Nat \ {0} /\ Left' \in Nat \ {0}
  <2>1. count_reg \in 1 .. Width /\ count_reg' = count_reg - 1
    BY DEF TypeOK, MultAdd
  <2>2. Scale' /\ Weight' = 2 * Weight /\ Left = 2 * Left' /\ Weight * Left' = Half
    BY <2>1, OneBit
  <2>3. QED
    BY <2>2 DEF Scale
<1>3. /\ Partial' = (Partial + Multiplicand) \div 2
      /\ SumWord % 2 = (Partial + Multiplicand) % 2
      /\ Signs'
  BY SignedSum DEF Multiplying, Starts
<1>4. /\ Multiplicand' = Multiplicand /\ Unsigned(goal.b)' = Unsigned(goal.b)
      /\ Multiplicand \in Int /\ Partial \in Int
  BY SameGoal, Operands, Powers DEF Starts, Partial, TypeOK, Word
<1>5. PICK r \in 0 .. 1 : /\ r = SumWord % 2 /\ r \in {0, 1}
                         /\ Partial' \in Int /\ Partial + Multiplicand = 2 * Partial' + r
  BY <1>3, <1>4, Halving
<1>names. PICK p \in Nat \ {0}, q \in Nat \ {0}, P \in Int, T \in Int, A \in Int :
        p = Weight /\ q = Left' /\ P = Partial /\ T = Partial' /\ A = Multiplicand
  BY <1>2, <1>4, <1>5
<1> DEFINE low2 == low + r * Weight
<1>6. /\ lower_reg' = low2 * Left' + (junk \div 2)
      /\ low2 \in 0 .. Weight' - 1 /\ junk \div 2 \in 0 .. Left' - 1
  <2>1. lower_reg' = r * (Weight * Left') + ((low * (2 * Left') + junk) \div 2)
    BY <1>1, <1>2, <1>5, ShiftTypes DEF MultAdd
  <2>2. junk \in 0 .. 2 * Left' - 1
    BY <1>2
  <2>3. low \in 0 .. p - 1 /\ junk \in 0 .. 2 * q - 1
    BY <1>names, <2>2
  <2>4. /\ r * (p * q) + ((low * (2 * q) + junk) \div 2) = (low + r * p) * q + (junk \div 2)
        /\ low + r * p \in 0 .. 2 * p - 1
        /\ junk \div 2 \in 0 .. q - 1
    BY <2>3, OneBitLower
  <2>5. QED
    BY <1>2, <1>names, <2>1, <2>4
<1>7. /\ Unsigned(goal.b) = bb_reg' * Weight' + (done + Weight)
      /\ done + Weight \in 0 .. Weight' - 1
  <2>1. bb_reg \in Nat /\ bb_reg' \in Nat /\ bb_reg = 2 * bb_reg' + 1
    BY Powers DEF MultAdd, TypeOK, Word
  <2>2. bb_reg * Weight + done = bb_reg' * (2 * Weight) + (done + 1 * Weight)
    BY <1>2, <2>1, UsedUp
  <2>3. QED
    BY <1>1, <1>2, <2>1, <2>2
<1>8. Partial' * Weight' + low2 = Multiplicand * (done + Weight)
  <2>1. low \in Nat /\ done \in Nat /\ P + A = 2 * T + r /\ P * p + low = A * done
    BY <1>1, <1>5, <1>names
  <2>2. T * (2 * p) + (low + r * p) = A * (done + p)
    BY <2>1, ProductStep
  <2>3. QED
    BY <1>2, <1>names, <2>2
<1>9. mode_reg' = MODE_MULT /\ ~negate_reg' /\ aa_reg' = Multiplicand' % 2^Width
  BY <1>4 DEF Multiplying, MultAdd
<1>10. \E d, l \in 0 .. Weight' - 1, j \in 0 .. Left' - 1 :
         /\ Unsigned(goal.b)' = bb_reg' * Weight' + d
         /\ lower_reg' = l * Left' + j
         /\ Partial' * Weight' + l = Multiplicand' * d
  BY <1>4, <1>6, <1>7, <1>8
<1>11. QED
  BY <1>2, <1>3, <1>9, <1>10 DEF Multiplying

LEMMA MultShiftKeeps ==
  ASSUME MultiplierConstants, TypeOK, Scale, Multiplying, goal.func \in {"MULT", "SIGNED_MULT"},
         count_reg # 0, MultShift, UNCHANGED <<mode_reg, negate_reg, goal>>
  PROVE  Scale' /\ Multiplying'
<1>1. PICK done \in 0 .. Weight - 1, low \in 0 .. Weight - 1, junk \in 0 .. Left - 1 :
        /\ Unsigned(goal.b) = bb_reg * Weight + done
        /\ lower_reg = low * Left + junk
        /\ Partial * Weight + low = Multiplicand * done
  BY DEF Multiplying
<1>2. /\ Scale' /\ Weight' = 2 * Weight /\ Left = 2 * Left' /\ Weight * Left' = Half
      /\ Weight \in Nat \ {0} /\ Left' \in Nat \ {0}
  <2>1. count_reg \in 1 .. Width /\ count_reg' = count_reg - 1
    BY DEF TypeOK, MultShift
  <2>2. Scale' /\ Weight' = 2 * Weight /\ Left = 2 * Left' /\ Weight * Left' = Half
    BY <2>1, OneBit
  <2>3. QED
    BY <2>2 DEF Scale
<1>3. /\ Multiplicand' = Multiplicand /\ Unsigned(goal.b)' = Unsigned(goal.b)
      /\ Multiplicand \in Int /\ Partial \in Int
      /\ Half \in Nat \ {0} /\ 2^Width = 2 * Half
      /\ upper_reg \in 0 .. 2^Width - 1 /\ bb_reg \in Nat
  BY SameGoal, Operands, Powers DEF Starts, Partial, TypeOK, Word
<1>4. PICK r \in 0 .. 1 : /\ r = upper_reg % 2 /\ r \in {0, 1}
                         /\ Partial' \in Int /\ Partial = 2 * Partial' + r
  <2>1. /\ upper_reg \div 2 \in Int /\ upper_reg % 2 \in {0, 1}
        /\ upper_reg = 2 * (upper_reg \div 2) + (upper_reg % 2)
    BY <1>3, Halving
  <2>2. /\ upper_reg' = (IF sign2_reg THEN Half ELSE 0) + (upper_reg \div 2)
        /\ sign2_reg' = sign2_reg
    BY DEF MultShift
  <2>3. QED
    BY <1>3, <2>1, <2>2 DEF Partial
<1>names. PICK p \in Nat \ {0}, q \in Nat \ {0}, P \in Int, T \in Int, A \in Int :
        p = Weight /\ q = Left' /\ P = Partial /\ T = Partial' /\ A = Multiplicand
  BY <1>2, <1>3, <1>4
<1> DEFINE low2 == low + r * Weight
<1>5. Signs'
  <2>1. UNCHANGED <<sign_reg, sign2_reg>> /\ Signs
    BY DEF MultShift, Multiplying
  <2>2. CASE Multiplicand >= 0
    BY <1>3, <2>1, <2>2 DEF Signs
  <2>3. CASE Multiplicand < 0
    <3>1. /\ sign_reg <=> ~sign2_reg
          /\ sign_reg => upper_reg = 0
          /\ Partial \in Multiplicand .. 0
          /\ sign2_reg => Partial < 0
      BY <2>1, <2>3 DEF Signs
    <3>2. Partial' \in Multiplicand .. 0 /\ (Partial < 0 => Partial' < 0)
      <4>1. P \in A .. 0 /\ P = 2 * T + r
        BY <1>4, <1>names, <3>1
      <4>2. T \in A .. 0 /\ (P < 0 => T < 0)
        BY <4>1
      <4>3. QED
        BY <1>names, <4>2
    <3>3. sign_reg => upper_reg' = 0
      BY <3>1 DEF MultShift
    <3>4. QED
      BY <1>3, <2>1, <2>3, <3>1, <3>2, <3>3 DEF Signs
  <2>4. QED
    BY <1>3, <2>2, <2>3
<1>6. /\ lower_reg' = low2 * Left' + (junk \div 2)
      /\ low2 \in 0 .. Weight' - 1 /\ junk \div 2 \in 0 .. Left' - 1
  <2>1. lower_reg' = r * (Weight * Left') + ((low * (2 * Left') + junk) \div 2)
    BY <1>1, <1>2, <1>4, ShiftTypes DEF MultShift
  <2>2. junk \in 0 .. 2 * Left' - 1
    BY <1>2
  <2>3. low \in 0 .. p - 1 /\ junk \in 0 .. 2 * q - 1
    BY <1>names, <2>2
  <2>4. /\ r * (p * q) + ((low * (2 * q) + junk) \div 2) = (low + r * p) * q + (junk \div 2)
        /\ low + r * p \in 0 .. 2 * p - 1
        /\ junk \div 2 \in 0 .. q - 1
    BY <2>3, OneBitLower
  <2>5. QED
    BY <1>2, <1>names, <2>1, <2>4
<1>7. /\ Unsigned(goal.b) = bb_reg' * Weight' + done
      /\ done \in 0 .. Weight' - 1
  <2>1. bb_reg' \in Nat /\ bb_reg = 2 * bb_reg' + 0
    BY <1>3 DEF MultShift
  <2>2. bb_reg * Weight + done = bb_reg' * (2 * Weight) + (done + 0 * Weight)
    BY <1>2, <1>3, <2>1, UsedUp
  <2>3. QED
    BY <1>1, <1>2, <2>1, <2>2
<1>8. Partial' * Weight' + low2 = Multiplicand * done
  <2>1. low \in Nat /\ done \in Nat /\ P = 2 * T + r /\ P * p + low = A * done
    BY <1>1, <1>4, <1>names
  <2>2. T * (2 * p) + (low + r * p) = A * done
    BY <2>1, ShiftStep
  <2>3. QED
    BY <1>2, <1>names, <2>2
<1>9. mode_reg' = MODE_MULT /\ ~negate_reg' /\ aa_reg' = Multiplicand' % 2^Width
  BY <1>3 DEF Multiplying, MultShift
<1>10. \E d, l \in 0 .. Weight' - 1, j \in 0 .. Left' - 1 :
         /\ Unsigned(goal.b)' = bb_reg' * Weight' + d
         /\ lower_reg' = l * Left' + j
         /\ Partial' * Weight' + l = Multiplicand' * d
  BY <1>3, <1>6, <1>7, <1>8
<1>11. QED
  BY <1>2, <1>5, <1>9, <1>10 DEF Multiplying

LEMMA MultSkipKeeps ==
  ASSUME MultiplierConstants, TypeOK, Scale, Multiplying, goal.func \in {"MULT", "SIGNED_MULT"},
         MultSkip, UNCHANGED <<mode_reg, negate_reg, goal>>
  PROVE  Scale' /\ Multiplying'
<1>1. PICK done \in 0 .. Weight - 1, low \in 0 .. Weight - 1, junk \in 0 .. Left - 1 :
        /\ Unsigned(goal.b) = bb_reg * Weight + done
        /\ lower_reg = low * Left + junk
        /\ Partial * Weight + low = Multiplicand * done
  BY DEF Multiplying
<1>2. count_reg \in 4 .. Width /\ count_reg' = count_reg - 4 /\ Width \in Nat
  BY Powers DEF TypeOK, MultSkip, CanSkip
<1>3. /\ Scale' /\ Weight' = 16 * Weight /\ Left = 16 * Left' /\ Weight * Left' = 2^(Width - 4)
      /\ Weight \in Nat \ {0} /\ Left' \in Nat \ {0}
  <2>1. Scale' /\ Weight' = 16 * Weight /\ Left = 16 * Left' /\ Weight * Left' = 2^(Width - 4)
    BY <1>2, FourBits
  <2>2. QED
    BY <2>1 DEF Scale
<1>4. /\ Multiplicand' = Multiplicand /\ Unsigned(goal.b)' = Unsigned(goal.b)
      /\ Multiplicand \in Int
      /\ upper_reg \in Nat /\ bb_reg \in Nat
  BY SameGoal, Operands, Powers DEF Starts, TypeOK, Word
<1>5. ~sign2_reg /\ ~sign2_reg' /\ Partial = upper_reg /\ Partial' = upper_reg'
  BY DEF Partial, MultSkip, CanSkip
<1>6. PICK r \in 0 .. 15 : /\ r = upper_reg % 16 /\ r \in Nat
                          /\ Partial' \in Nat /\ Partial = 16 * Partial' + r
  <2>1. /\ upper_reg \div 16 \in Nat /\ upper_reg % 16 \in 0 .. 15
        /\ upper_reg = 16 * (upper_reg \div 16) + (upper_reg % 16)
    BY <1>4, Sixteenths
  <2>2. Partial = upper_reg /\ Partial' = upper_reg \div 16
    BY <1>5 DEF MultSkip
  <2>3. QED
    BY <2>1, <2>2
<1>names. PICK p \in Nat \ {0}, q \in Nat \ {0}, P \in Nat, T \in Nat, A \in Int :
        p = Weight /\ q = Left' /\ P = Partial /\ T = Partial' /\ A = Multiplicand
  <2>1. Partial \in Nat
    BY <1>4, <1>5
  <2>2. QED
    BY <1>3, <1>4, <1>6, <2>1
<1> DEFINE low2 == low + r * Weight
<1>7. Signs'
  <2>1. UNCHANGED <<sign_reg, sign2_reg>> /\ Signs
    BY DEF MultSkip, Multiplying
  <2>2. CASE Multiplicand >= 0
    BY <1>4, <2>1, <2>2 DEF Signs
  <2>3. CASE Multiplicand < 0
    <3>1. sign_reg /\ upper_reg = 0
      BY <1>5, <2>1, <2>3 DEF Signs
    <3>2. upper_reg' = 0
      <4>1. P = 16 * T + r /\ P = 0
        BY <1>5, <1>6, <1>names, <3>1
      <4>2. T = 0
        BY <4>1
      <4>3. QED
        BY <1>5, <1>names, <4>2
    <3>3. Partial' \in Multiplicand .. 0
      BY <1>4, <1>5, <2>3, <3>2
    <3>4. QED
      BY <1>4, <1>5, <2>1, <2>3, <3>1, <3>2, <3>3 DEF Signs
  <2>4. QED
    BY <1>4, <2>2, <2>3
<1>8. /\ lower_reg' = low2 * Left' + (junk \div 16)
      /\ low2 \in 0 .. Weight' - 1 /\ junk \div 16 \in 0 .. Left' - 1
  <2>1. lower_reg' = r * (Weight * Left') + ((low * (16 * Left') + junk) \div 16)
    <3>1. 4 <= Width /\ lower_reg' = ShiftIntoLower(r, 4)
      BY <1>2, <1>6 DEF MultSkip
    <3>2. QED
      BY <1>1, <1>3, <1>6, <3>1, ShiftTypes
  <2>2. junk \in 0 .. 16 * Left' - 1
    BY <1>3
  <2>3. low \in 0 .. p - 1 /\ junk \in 0 .. 16 * q - 1
    BY <1>names, <2>2
  <2>4. /\ r * (p * q) + ((low * (16 * q) + junk) \div 16) = (low + r * p) * q + (junk \div 16)
        /\ low + r * p \in 0 .. 16 * p - 1
        /\ junk \div 16 \in 0 .. q - 1
    BY <2>3, FourBitsLower
  <2>5. QED
    BY <1>3, <1>names, <2>1, <2>4
<1>9. /\ Unsigned(goal.b) = bb_reg' * Weight' + done
      /\ done \in 0 .. Weight' - 1
  <2>1. bb_reg' \in Nat /\ bb_reg = 16 * bb_reg' + 0
    BY <1>4 DEF MultSkip, CanSkip
  <2>2. bb_reg * Weight + done = bb_reg' * (16 * Weight) + (done + 0 * Weight)
    BY <1>3, <1>4, <2>1, UsedUp
  <2>3. QED
    BY <1>1, <1>3, <2>1, <2>2
<1>10. Partial' * Weight' + low2 = Multiplicand * done
  <2>1. low \in Nat /\ done \in Nat /\ P = 16 * T + r /\ P * p + low = A * done
    BY <1>1, <1>6, <1>names
  <2>2. T * (16 * p) + (low + r * p) = A * done
    BY <2>1, ShiftStep
  <2>3. QED
    BY <1>3, <1>names, <2>2
<1>11. mode_reg' = MODE_MULT /\ ~negate_reg' /\ aa_reg' = Multiplicand' % 2^Width
  BY <1>4 DEF Multiplying, MultSkip
<1>12. \E d, l \in 0 .. Weight' - 1, j \in 0 .. Left' - 1 :
         /\ Unsigned(goal.b)' = bb_reg' * Weight' + d
         /\ lower_reg' = l * Left' + j
         /\ Partial' * Weight' + l = Multiplicand' * d
  BY <1>4, <1>8, <1>9, <1>10
<1>13. QED
  BY <1>3, <1>7, <1>11, <1>12 DEF Multiplying

-----------------------------------------------------------------------------
(* Division.                                                               *)

(* The divisor fits as soon as it is all there and not above the rest.     *)
LEMMA FitsWhenAllThere ==
  ASSUME NEW p \in Nat \ {0}, NEW q \in Nat \ {0}, NEW D \in Nat \ {0},
         NEW B \in Nat, NEW done \in Nat, NEW rest \in 0 .. 2 * (p * q) - 1,
         D = B * (2 * p) + done
  PROVE  /\ D * q = B * (2 * (p * q)) + done * q
         /\ B = 0 => done * q # 0 /\ D * q = done * q
         /\ B # 0 => rest < D * q
<1>1. D * q = B * (2 * (p * q)) + done * q
  OBVIOUS
<1>2. D * q \in Nat \ {0} /\ p * q \in Nat \ {0} /\ done * q \in Nat
  OBVIOUS
<1>3. CASE B = 0
  BY <1>1, <1>2, <1>3
<1>4. CASE B # 0
  <2>1. PICK h \in Nat, e \in Nat : h = 2 * (p * q) /\ e = done * q
    BY <1>2
  <2>2. B * h >= h
    BY <1>4
  <2>3. D * q = B * h + e /\ rest < h
    BY <1>1, <2>1
  <2>4. PICK x \in Nat : x = B * h
    OBVIOUS
  <2>5. rest < D * q
    BY <2>2, <2>3, <2>4
  <2>6. QED
    BY <1>1, <1>4, <2>5
<1>5. QED
  BY <1>1, <1>3, <1>4

LEMMA QuotientStep ==
  ASSUME NEW q \in Nat \ {0}, NEW D \in Nat \ {0}, NEW N \in Nat,
         NEW quotient \in Nat, NEW rest \in Nat,
         N = quotient * D * (2 * q) + rest
  PROVE  /\ N = (2 * quotient) * D * q + rest
         /\ N = (2 * quotient + 1) * D * q + (rest - D * q)
OBVIOUS

(* The bits of the quotient move up in the lower word. *)
LEMMA QuotientShift ==
  ASSUME NEW p \in Nat \ {0}, NEW q \in Nat \ {0}, NEW f \in 0 .. 1,
         NEW junk \in Nat, NEW quotient \in 0 .. p - 1
  PROVE  /\ 2 * quotient + f \in 0 .. 2 * p - 1
         /\ 2 * (junk * p + quotient) + f = junk * (2 * p) + (2 * quotient + f)
         /\ junk * p + quotient >= p * q =>
              /\ junk - q \in Nat
              /\ 2 * (junk * p + quotient) - 2 * (p * q) + f
                   = (junk - q) * (2 * p) + (2 * quotient + f)
<1>1. 2 * quotient + f \in 0 .. 2 * p - 1
  OBVIOUS
<1>2. 2 * (junk * p + quotient) + f = junk * (2 * p) + (2 * quotient + f)
  OBVIOUS
<1>3. ASSUME junk * p + quotient >= p * q PROVE junk - q \in Nat
  <2>1. SUFFICES ASSUME junk + 1 <= q PROVE FALSE
    OBVIOUS
  <2>2. (junk + 1) * p <= q * p
    BY <2>1
  <2>3. (junk + 1) * p = junk * p + p /\ q * p = p * q
    OBVIOUS
  <2>4. PICK x \in Nat, y \in Nat : x = junk * p /\ y = p * q
    OBVIOUS
  <2>5. x + p <= y /\ x + quotient >= y
    BY <1>3, <2>2, <2>3, <2>4
  <2>6. QED
    BY <2>5
<1>4. 2 * (junk * p + quotient) - 2 * (p * q) + f = (junk - q) * (2 * p) + (2 * quotient + f)
  OBVIOUS
<1>5. QED
  BY <1>1, <1>2, <1>3, <1>4

(* Half of the divisor's part that is there, and the next bit above it. *)
LEMMA DivisorStep ==
  ASSUME NEW p \in Nat, NEW h \in Nat, NEW done \in Nat, NEW aa \in Nat, NEW b \in Nat,
         aa = done * (2 * h)
  PROVE  2 * (b * (p * (2 * h)) + (aa \div 2)) = (b * (2 * p) + done) * (2 * h)
<1>1. done * h \in Nat /\ aa = 2 * (done * h)
  OBVIOUS
<1>2. aa \div 2 = done * h
  BY <1>1
<1>3. QED
  BY <1>2

LEMMA DivideKeeps ==
  ASSUME MultiplierConstants, TypeOK, Scale, Dividing, goal.func \in {"DIVIDE", "SIGNED_DIVIDE"},
         goal.b # 0, count_reg # 0, Divide, UNCHANGED <<mode_reg, negate_reg, goal>>
  PROVE  Scale' /\ Dividing'
<1>1. PICK done \in 0 .. Weight - 1, quotient \in 0 .. Weight - 1, junk \in Nat :
        /\ Unsigned(goal.b) = bb_reg * Weight + done
        /\ 2 * aa_reg = ((bb_reg % 2) * Weight + done) * Left
        /\ lower_reg = junk * Weight + quotient
        /\ Unsigned(goal.a) = quotient * Unsigned(goal.b) * Left + upper_reg
        /\ upper_reg < Unsigned(goal.b) * Left
  BY DEF Dividing
<1>2. /\ Scale' /\ Weight' = 2 * Weight /\ Left = 2 * Left' /\ Weight * Left' = Half
      /\ Weight \in Nat \ {0} /\ Left' \in Nat \ {0} /\ 2^Width = 2 * Half
      /\ count_reg \in 1 .. Width /\ count_reg' = count_reg - 1
  <2>1. count_reg \in 1 .. Width /\ count_reg' = count_reg - 1
    BY DEF TypeOK, Divide
  <2>2. Scale' /\ Weight' = 2 * Weight /\ Left = 2 * Left' /\ Weight * Left' = Half
    BY <2>1, OneBit
  <2>3. QED
    BY <2>1, <2>2, Powers DEF Scale
<1>3. /\ Unsigned(goal.a)' = Unsigned(goal.a) /\ Unsigned(goal.b)' = Unsigned(goal.b)
      /\ Unsigned(goal.a) \in Nat /\ Unsigned(goal.b) \in Nat \ {0}
      /\ {aa_reg, bb_reg, upper_reg, lower_reg} \subseteq 0 .. 2^Width - 1
  BY SameGoal, Operands, Powers DEF Starts, TypeOK, Word
<1>4. PICK p \in Nat \ {0}, q \in Nat \ {0}, D \in Nat \ {0}, N \in Nat,
           aa \in Nat, bb \in Nat, rest \in Nat, lower \in Nat :
        /\ p = Weight /\ q = Left' /\ D = Unsigned(goal.b) /\ N = Unsigned(goal.a)
        /\ aa = aa_reg /\ bb = bb_reg /\ rest = upper_reg /\ lower = lower_reg
  <2>1. aa_reg \in Nat /\ bb_reg \in Nat /\ upper_reg \in Nat /\ lower_reg \in Nat
    BY <1>2, <1>3, Powers
  <2>2. QED
    BY <1>2, <1>3, <2>1
<1>5. PICK B \in Nat, b \in 0 .. 1 : B = bb \div 2 /\ b = bb % 2 /\ bb = 2 * B + b
  BY Halving
<1>6. PICK e \in Nat : e = b * p + done
  OBVIOUS
<1>7. /\ D = B * (2 * p) + e /\ e \in 0 .. 2 * p - 1
      /\ aa = e * q
      /\ N = quotient * D * (2 * q) + rest
      /\ rest < D * (2 * q)
      /\ rest \in 0 .. 2 * (p * q) - 1
      /\ lower = junk * p + quotient
  <2>1. done \in 0 .. p - 1 /\ quotient \in 0 .. p - 1
    BY <1>4
  <2>2. D = bb * p + done /\ 2 * aa = (b * p + done) * (2 * q)
    BY <1>1, <1>2, <1>4, <1>5
  <2>3. bb * p = (2 * B + b) * p
    BY <1>5
  <2>4. D = B * (2 * p) + e /\ e \in 0 .. 2 * p - 1
    BY <1>6, <2>1, <2>2, <2>3
  <2>5. aa = e * q
    BY <1>6, <2>2
  <2>6. /\ N = quotient * D * (2 * q) + rest
        /\ rest < D * (2 * q)
        /\ lower = junk * p + quotient
    BY <1>1, <1>2, <1>4
  <2>7. rest \in 0 .. 2 * (p * q) - 1
    BY <1>2, <1>3, <1>4
  <2>8. QED
    BY <2>4, <2>5, <2>6, <2>7
<1>8. /\ D * q = B * (2 * (p * q)) + e * q
      /\ B = 0 => aa # 0 /\ D * q = aa
      /\ B # 0 => rest < D * q
  BY <1>7, FitsWhenAllThere
<1>9. Fits <=> rest >= D * q
  <2>1. Carry <=> rest < aa
    BY <1>4 DEF Carry, Sum, Dividing, MODE_MULT, MODE_DIV
  <2>2. Fits <=> rest >= aa /\ aa # 0 /\ B = 0
    BY <1>4, <1>5, <2>1 DEF Fits
  <2>3. QED
    BY <1>8, <2>2
<1>10. upper_reg' = IF Fits THEN rest - D * q ELSE rest
  <2>1. CASE Fits
    <3>1. B = 0 /\ aa = D * q /\ rest >= aa
      BY <1>4, <1>5, <1>8, <1>9, <2>1 DEF Fits
    <3>2. Sum = rest - aa
      BY <1>4 DEF Sum, Dividing, MODE_MULT, MODE_DIV
    <3>3. Sum \in 0 .. 2^Width - 1
      BY <1>2, <1>3, <1>4, <3>1, <3>2
    <3>4. Sum % 2^Width = Sum
      BY <1>2, <3>3, InRange, Powers
    <3>5. QED
      BY <2>1, <3>1, <3>2, <3>4 DEF Divide, SumWord
  <2>2. CASE ~Fits
    BY <1>4, <2>2 DEF Divide
  <2>3. QED
    BY <2>1, <2>2
<1>11. PICK f \in 0 .. 1 : f = IF Fits THEN 1 ELSE 0
  OBVIOUS
<1>12. PICK quotient2 \in 0 .. 2 * p - 1, left \in Nat :
        /\ quotient2 = 2 * quotient + f /\ left = upper_reg'
        /\ N = quotient2 * D * q + left /\ left < D * q
  <2>1. /\ N = (2 * quotient) * D * q + rest
        /\ N = (2 * quotient + 1) * D * q + (rest - D * q)
    BY <1>7, QuotientStep
  <2>2. PICK Dq \in Nat : Dq = D * q /\ D * (2 * q) = 2 * Dq
    OBVIOUS
  <2>3. CASE Fits
    <3>1. f = 1 /\ upper_reg' = rest - Dq /\ rest >= Dq /\ rest < 2 * Dq
      BY <1>7, <1>9, <1>10, <1>11, <2>2, <2>3
    <3>2. PICK left \in Nat : left = rest - Dq /\ left < Dq
      BY <3>1
    <3>3. 2 * quotient + 1 \in 0 .. 2 * p - 1
      BY <1>4
    <3>4. QED
      BY <2>1, <2>2, <3>1, <3>2, <3>3
  <2>4. CASE ~Fits
    <3>1. f = 0 /\ upper_reg' = rest /\ rest < Dq
      BY <1>7, <1>9, <1>10, <1>11, <2>2, <2>4
    <3>2. 2 * quotient + 0 \in 0 .. 2 * p - 1 /\ 2 * quotient + 0 = 2 * quotient
      BY <1>4
    <3>3. QED
      BY <2>1, <2>2, <3>1, <3>2
  <2>5. QED
    BY <2>3, <2>4
<1>13. PICK junk2 \in Nat : lower_reg' = junk2 * (2 * p) + quotient2
  <2>1. lower_reg' = ((2 * lower_reg) % 2^Width) + f
    BY <1>11 DEF Divide
  <2>2. (2 * lower_reg) % 2^Width = IF lower < p * q THEN 2 * lower ELSE 2 * lower - 2 * (p * q)
    BY <1>2, <1>4, ShiftedUp
  <2>3. quotient \in 0 .. p - 1
    BY <1>4
  <2>4. /\ 2 * lower + f = junk * (2 * p) + quotient2
        /\ lower >= p * q =>
             /\ junk - q \in Nat
             /\ 2 * lower - 2 * (p * q) + f = (junk - q) * (2 * p) + quotient2
    BY <1>7, <1>12, <2>3, QuotientShift
  <2>5. CASE lower < p * q
    BY <2>1, <2>2, <2>4, <2>5
  <2>6. CASE ~(lower < p * q)
    <3>1. PICK j \in Nat : j = junk - q /\ 2 * lower - 2 * (p * q) + f = j * (2 * p) + quotient2
      BY <2>4, <2>6
    <3>2. QED
      BY <2>1, <2>2, <2>6, <3>1
  <2>7. QED
    BY <2>5, <2>6
<1>14. ASSUME count_reg' # 0
       PROVE  2 * aa_reg' = ((B % 2) * (2 * p) + e) * q
  <2>1. count_reg' - 1 \in 0 .. Width - 1 /\ (count_reg' - 1) + 1 = count_reg'
    BY <1>2, <1>14, Powers
  <2>2. PICK h \in Nat : q = 2 * h
    BY <1>4, <2>1, Powers DEF Left
  <2>3. PICK d \in 0 .. 1 : d = B % 2
    BY Halving
  <2>4. aa_reg' = d * (p * q) + (aa \div 2)
    BY <1>2, <1>4, <1>5, <2>3 DEF Divide
  <2>5. 2 * (d * (p * (2 * h)) + (aa \div 2)) = (d * (2 * p) + e) * (2 * h)
    BY <1>7, <2>2, DivisorStep
  <2>6. QED
    BY <2>2, <2>3, <2>4, <2>5
<1>15. bb_reg' = B
  BY <1>4, <1>5 DEF Divide
<1>16. /\ mode_reg' = MODE_DIV
       /\ negate_reg' <=> goal'.func = "SIGNED_DIVIDE" /\ Msb(goal'.a) # Msb(goal'.b)
  BY DEF Dividing, Msb
<1>17. /\ e \in 0 .. Weight' - 1 /\ quotient2 \in 0 .. Weight' - 1
       /\ Unsigned(goal.b)' = bb_reg' * Weight' + e
       /\ count_reg' # 0 => 2 * aa_reg' = ((bb_reg' % 2) * Weight' + e) * Left'
       /\ lower_reg' = junk2 * Weight' + quotient2
       /\ Unsigned(goal.a)' = quotient2 * Unsigned(goal.b)' * Left' + upper_reg'
       /\ upper_reg' < Unsigned(goal.b)' * Left'
  BY <1>2, <1>3, <1>4, <1>7, <1>12, <1>13, <1>14, <1>15
<1>18. QED
  BY <1>2, <1>16, <1>17 DEF Dividing

-----------------------------------------------------------------------------
(* The start of an operation.                                              *)

LEMMA NumberWord ==
  ASSUME MultiplierConstants, NEW signed \in BOOLEAN, NEW x \in Word
  PROVE  /\ Number(signed, x) % 2^Width = x
         /\ Number(signed, x) < 0 <=> signed /\ Msb(x)
         /\ Number(signed, x) \in Int
<1>1. 2^Width \in Nat \ {0} /\ Half \in Nat \ {0} /\ 2^Width = 2 * Half /\ x \in 0 .. 2^Width - 1
  BY Powers DEF Word
<1>2. CASE signed /\ Msb(x)
  <2>1. Number(signed, x) = x - 2^Width /\ x - 2^Width \in -(2^Width) .. -1
    BY <1>1, <1>2 DEF Number, Signed
  <2>2. (x - 2^Width) % 2^Width = (x - 2^Width) + 2^Width
    BY <1>1, <2>1, UnderRange
  <2>3. (x - 2^Width) + 2^Width = x /\ x - 2^Width < 0 /\ x - 2^Width \in Int
    BY <1>1
  <2>4. QED
    BY <1>2, <2>1, <2>2, <2>3
<1>3. CASE ~(signed /\ Msb(x))
  <2>1. Number(signed, x) = x
    BY <1>3 DEF Number, Signed
  <2>2. x % 2^Width = x
    BY <1>1, InRange
  <2>3. QED
    BY <1>1, <1>3, <2>1, <2>2
<1>4. QED
  BY <1>2, <1>3

LEMMA MagnitudeWord ==
  ASSUME MultiplierConstants, NEW x \in Word
  PROVE  Magnitude(x) \in Word /\ (x # 0 => Magnitude(x) # 0)
<1>1. 2^Width \in Nat \ {0} /\ x \in 0 .. 2^Width - 1
  BY Powers DEF Word
<1>2. Negate(x) = IF x = 0 THEN 0 ELSE 2^Width - x
  BY Negation
<1>3. Negate(x) \in 0 .. 2^Width - 1 /\ (x # 0 => Negate(x) # 0)
  BY <1>1, <1>2
<1>4. QED
  BY <1>1, <1>3 DEF Magnitude, Word

(* No bit is done yet. *)
LEMMA NothingDone ==
  ASSUME MultiplierConstants, count_reg' = Width
  PROVE  Scale' /\ Weight' = 1 /\ Left' = 2^Width
<1>1. Width - Width = 0 /\ Width \in 0 .. Width /\ 2^Width \in Nat \ {0} /\ 2^0 = 1
  BY Powers DEF MultiplierConstants, PowersOfTwo
<1>2. Weight' = 1 /\ Left' = 2^Width
  BY <1>1 DEF Weight, Left
<1>3. QED
  BY <1>1, <1>2 DEF Scale

LEMMA StartMultSets ==
  ASSUME MultiplierConstants, TypeOK, NEW i \in First \cup Later,
         i.func \in {"MULT", "SIGNED_MULT"}, StartMult(i.func = "SIGNED_MULT", i.a, i.b), goal' = i
  PROVE  Scale' /\ Multiplying'
<1> DEFINE signed == i.func = "SIGNED_MULT"
<1>1. i.a \in Word /\ i.b \in Word /\ signed \in BOOLEAN
  BY DEF MultiplierConstants
<1>2. /\ 2^Width \in Nat \ {0} /\ Half \in Nat \ {0} /\ 2^Width = 2 * Half
      /\ Scale' /\ Weight' = 1 /\ Left' = 2^Width
  BY Powers, NothingDone DEF StartMult
<1>3. aa_reg' \in Word
  <2>1. Negate(i.a) \in Word
    BY <1>1, <1>2, Negation DEF Word
  <2>2. QED
    BY <1>1, <2>1 DEF StartMult
<1>4. Multiplicand' = Number(signed, aa_reg')
  <2>1. aa_reg' = IF signed /\ Msb(i.b) THEN Negate(i.a) ELSE i.a
    BY DEF StartMult
  <2>2. Multiplicand' = Number(signed, IF signed /\ Msb(i.b) THEN Negate(i.a) ELSE i.a)
    BY DEF Multiplicand, Negated, Number, Signed, Msb, Negate
  <2>3. QED
    BY <2>1, <2>2
<1>5. PICK x \in Word : x = aa_reg'
  BY <1>3
<1>6. /\ Multiplicand' % 2^Width = aa_reg'
      /\ Multiplicand' < 0 <=> signed /\ Msb(x)
      /\ Multiplicand' \in Int
  BY <1>1, <1>4, <1>5, NumberWord
<1>7. (sign_reg' <=> signed /\ Msb(x)) /\ ~sign2_reg' /\ upper_reg' = 0
  BY <1>5 DEF StartMult
<1>8. Partial' = 0
  BY <1>7 DEF Partial
<1>9. Signs'
  <2>1. PICK M \in Int : M = Multiplicand'
    BY <1>6
  <2>2. CASE M >= 0
    <3>1. ~(M < 0)
      BY <2>2
    <3>2. ~sign_reg' /\ ~sign2_reg'
      BY <1>6, <1>7, <2>1, <3>1
    <3>3. QED
      BY <2>1, <3>1, <3>2 DEF Signs
  <2>3. CASE ~(M >= 0)
    <3>1. M < 0 /\ 0 \in M .. 0
      BY <2>3
    <3>2. sign_reg' /\ ~sign2_reg'
      BY <1>6, <1>7, <2>1, <3>1
    <3>3. QED
      BY <1>7, <1>8, <2>1, <2>3, <3>1, <3>2 DEF Signs
  <2>4. QED
    BY <2>2, <2>3
<1>10. Unsigned(goal.b)' = bb_reg' /\ bb_reg' \in Word /\ lower_reg' \in Word
  <2>1. bb_reg' = IF signed THEN Magnitude(i.b) ELSE i.b
    BY DEF StartMult
  <2>2. Unsigned(goal.b)' = IF signed /\ Msb(i.b) THEN Negate(i.b) ELSE i.b
    BY DEF Unsigned, Negated, Msb, Negate
  <2>3. bb_reg' \in Word
    BY <1>1, <2>1, MagnitudeWord
  <2>4. QED
    BY <2>1, <2>2, <2>3 DEF Magnitude, StartMult, TypeOK
<1>11. /\ 0 \in 0 .. Weight' - 1 /\ lower_reg' \in 0 .. Left' - 1
       /\ Unsigned(goal.b)' = bb_reg' * Weight' + 0
       /\ lower_reg' = 0 * Left' + lower_reg'
       /\ Partial' * Weight' + 0 = Multiplicand' * 0
  <2>1. PICK b \in Nat, l \in 0 .. 2^Width - 1, M \in Int :
          b = bb_reg' /\ l = lower_reg' /\ M = Multiplicand'
    BY <1>2, <1>6, <1>10 DEF Word
  <2>2. /\ 0 \in 0 .. 1 - 1 /\ b = b * 1 + 0 /\ l = 0 * 2^Width + l /\ 0 * 1 + 0 = M * 0
    BY <1>2
  <2>3. QED
    BY <1>2, <1>8, <1>10, <2>1, <2>2
<1>12. mode_reg' = MODE_MULT /\ ~negate_reg'
  BY DEF StartMult
<1>13. QED
  BY <1>2, <1>6, <1>9, <1>11, <1>12 DEF Multiplying

LEMMA StartDivideSets ==
  ASSUME MultiplierConstants, TypeOK, NEW i \in First \cup Later, i.b # 0,
         i.func \in {"DIVIDE", "SIGNED_DIVIDE"}, StartDivide(i.func = "SIGNED_DIVIDE", i.a, i.b),
         goal' = i
  PROVE  Scale' /\ Dividing'
<1> DEFINE signed == i.func = "SIGNED_DIVIDE"
<1>1. i.a \in Word /\ i.b \in Word /\ signed \in BOOLEAN
  BY DEF MultiplierConstants
<1>2. /\ 2^Width \in Nat \ {0} /\ Half \in Nat \ {0} /\ 2^Width = 2 * Half
      /\ Scale' /\ Weight' = 1 /\ Left' = 2^Width
  BY Powers, NothingDone DEF StartDivide
<1>3. /\ bb_reg' = IF signed THEN Magnitude(i.b) ELSE i.b
      /\ upper_reg' = IF signed THEN Magnitude(i.a) ELSE i.a
      /\ aa_reg' = (bb_reg' % 2) * Half
      /\ mode_reg' = MODE_DIV /\ lower_reg' = lower_reg
      /\ negate_reg' = (signed /\ Msb(i.a) # Msb(i.b))
  BY DEF StartDivide
<1>4. /\ Unsigned(goal.b)' = bb_reg' /\ Unsigned(goal.a)' = upper_reg'
      /\ bb_reg' \in Word /\ upper_reg' \in Word /\ lower_reg' \in Word /\ bb_reg' # 0
  <2>1. /\ Unsigned(goal.b)' = IF signed /\ Msb(i.b) THEN Negate(i.b) ELSE i.b
        /\ Unsigned(goal.a)' = IF signed /\ Msb(i.a) THEN Negate(i.a) ELSE i.a
    BY DEF Unsigned, Negated, Msb, Negate
  <2>2. bb_reg' \in Word /\ upper_reg' \in Word /\ bb_reg' # 0
    BY <1>1, <1>3, MagnitudeWord
  <2>3. QED
    BY <1>3, <2>1, <2>2 DEF Magnitude, TypeOK
<1>5. PICK D \in Nat \ {0}, N \in 0 .. 2^Width - 1, l \in Nat, b \in 0 .. 1 :
        D = bb_reg' /\ N = upper_reg' /\ l = lower_reg' /\ b = D % 2
  <2>1. bb_reg' \in Nat \ {0} /\ upper_reg' \in 0 .. 2^Width - 1 /\ lower_reg' \in Nat
    BY <1>2, <1>4 DEF Word
  <2>2. \A D \in Nat : D % 2 \in 0 .. 1
    BY Halving
  <2>3. QED
    BY <2>1, <2>2
<1>6. /\ 0 \in 0 .. 1 - 1 /\ D = D * 1 + 0
      /\ 2 * (b * Half) = (b * 1 + 0) * 2^Width
      /\ l = l * 1 + 0 /\ N = 0 * D * 2^Width + N /\ N < D * 2^Width
  <2>1. D * 2^Width >= 2^Width
    BY <1>2
  <2>2. QED
    BY <1>2, <2>1
<1>7. /\ 0 \in 0 .. Weight' - 1 /\ lower_reg' \in Nat
      /\ Unsigned(goal.b)' = bb_reg' * Weight' + 0
      /\ count_reg' # 0 => 2 * aa_reg' = ((bb_reg' % 2) * Weight' + 0) * Left'
      /\ lower_reg' = lower_reg' * Weight' + 0
      /\ Unsigned(goal.a)' = 0 * Unsigned(goal.b)' * Left' + upper_reg'
      /\ upper_reg' < Unsigned(goal.b)' * Left'
  BY <1>2, <1>3, <1>4, <1>5, <1>6
<1>8. negate_reg' <=> goal'.func = "SIGNED_DIVIDE" /\ Msb(goal'.a) # Msb(goal'.b)
  BY <1>3
<1>9. QED
  BY <1>2, <1>3, <1>7, <1>8 DEF Dividing, Msb

-----------------------------------------------------------------------------
(* A result that is there.                                                 *)

(* Nothing is left to do. *)
LEMMA AllDone ==
  ASSUME MultiplierConstants, count_reg = 0
  PROVE  Weight = 2^Width /\ Left = 1
<1>1. Width - 0 = Width /\ 2^0 = 1
  BY Powers DEF MultiplierConstants, PowersOfTwo
<1>2. QED
  BY <1>1 DEF Weight, Left

(* Changing the signs of both operands changes the product only where the  *)
(* multiplicand has no negation: by a multiple of 2^Width.                 *)
LEMMA ProductOfUnsigned ==
  ASSUME MultiplierConstants, TypeOK, goal.func \in {"MULT", "SIGNED_MULT"}
  PROVE  \E k \in Int :
           /\ Multiplicand * Unsigned(goal.b)
                = Number(goal.func = "SIGNED_MULT", goal.a)
                    * Number(goal.func = "SIGNED_MULT", goal.b) + k * 2^Width
           /\ ~Overflows => k = 0
<1>1. PICK a \in Nat, b \in Nat, H \in Nat \ {0} :
        a = goal.a /\ b = goal.b /\ H = Half /\ 2^Width = 2 * H /\ a < 2 * H /\ b < 2 * H
  BY Powers DEF TypeOK, Word, Starts
<1>2. a \in Word /\ b \in Word
  BY <1>1 DEF Word
<1>3. /\ Negate(a) = IF a = 0 THEN 0 ELSE 2 * H - a
      /\ Negate(b) = IF b = 0 THEN 0 ELSE 2 * H - b
  BY <1>1, <1>2, Negation
<1>4. CASE goal.func = "MULT"
  <2>1. /\ Multiplicand = a /\ Unsigned(goal.b) = b
        /\ Number(goal.func = "SIGNED_MULT", goal.a) = a
        /\ Number(goal.func = "SIGNED_MULT", goal.b) = b
    BY <1>1, <1>4 DEF Multiplicand, Unsigned, Negated, Number
  <2>2. a * b = a * b + 0 * 2^Width
    BY <1>1
  <2>3. QED
    BY <2>1, <2>2
<1>5. CASE goal.func = "SIGNED_MULT"
  <2>1. PICK sa \in Int, sb \in Int : /\ sa = Signed(a) /\ sa = IF a >= H THEN a - 2 * H ELSE a
                                      /\ sb = Signed(b) /\ sb = IF b >= H THEN b - 2 * H ELSE b
    BY <1>1 DEF Signed, Msb
  <2>2. /\ Number(goal.func = "SIGNED_MULT", goal.a) = sa
        /\ Number(goal.func = "SIGNED_MULT", goal.b) = sb
    BY <1>1, <1>5, <2>1 DEF Number
  <2>3. CASE b < H
    <3>1. ~Msb(b)
      BY <1>1, <2>3 DEF Msb
    <3>2. Multiplicand = sa /\ Unsigned(goal.b) = sb
      <4>1. Multiplicand = Signed(a) /\ Unsigned(goal.b) = b
        BY <1>1, <1>5, <3>1 DEF Multiplicand, Unsigned, Negated, Number
      <4>2. sb = b
        BY <2>1, <2>3
      <4>3. QED
        BY <2>1, <4>1, <4>2
    <3>3. sa * sb = sa * sb + 0 * 2^Width
      BY <1>1
    <3>4. QED
      BY <2>2, <3>2, <3>3
  <2>4. CASE b >= H
    <3>1. Msb(b)
      BY <1>1, <2>4 DEF Msb
    <3>2. Multiplicand = Signed(Negate(a)) /\ Unsigned(goal.b) = Negate(b)
      BY <1>1, <1>5, <3>1 DEF Multiplicand, Unsigned, Negated, Number
    <3>3. Unsigned(goal.b) = -sb
      BY <1>1, <1>3, <2>1, <2>4, <3>2
    <3>4. CASE a # H
      <4>1. Multiplicand = -sa
        BY <1>1, <1>3, <2>1, <3>2, <3>4 DEF Signed, Msb
      <4>2. (-sa) * (-sb) = sa * sb + 0 * 2^Width
        BY <1>1
      <4>3. QED
        BY <2>2, <3>3, <4>1, <4>2
    <3>5. CASE a = H
      <4>1. Multiplicand = -H /\ sa = -H
        BY <1>1, <1>3, <2>1, <3>2, <3>5 DEF Signed, Msb
      <4>2. (-H) * (-sb) = sa * sb + sb * 2^Width
        BY <1>1, <4>1
      <4>3. Overflows
        BY <1>1, <1>5, <3>1, <3>5 DEF Overflows
      <4>4. QED
        BY <2>2, <3>3, <4>1, <4>2, <4>3
    <3>6. QED
      BY <3>4, <3>5
  <2>5. QED
    BY <1>1, <2>3, <2>4
<1>6. QED
  BY <1>4, <1>5

(* The registers after the last step of a multiplication. *)
LEMMA MultResult ==
  ASSUME MultiplierConstants, TypeOK, Multiplying, count_reg = 0,
         goal.func \in {"MULT", "SIGNED_MULT"}
  PROVE  /\ lower_reg = Product % 2^Width
         /\ ~Overflows => upper_reg = (Product \div 2^Width) % 2^Width
<1> DEFINE signed == goal.func = "SIGNED_MULT"
<1>1. /\ count_reg = 0 /\ goal.func \in {"MULT", "SIGNED_MULT"}
      /\ TypeOK /\ Multiplying
  OBVIOUS
<1>2. PICK W \in Nat \ {0}, upper \in Nat, lower \in Nat :
        /\ W = 2^Width /\ W = Weight /\ Left = 1
        /\ upper = upper_reg /\ lower = lower_reg /\ upper < W /\ lower < W
  BY <1>1, AllDone, Powers DEF TypeOK, Word
<1>3. PICK bits \in Nat, U \in Nat, M \in Int, P \in Int :
        /\ bits = bb_reg /\ U = Unsigned(goal.b) /\ U < W /\ M = Multiplicand /\ P = Partial
  <2>1. goal.func \in Starts
    BY <1>1 DEF Starts
  <2>2. Unsigned(goal.b) \in 0 .. W - 1 /\ Multiplicand \in Int
    BY <1>1, <1>2, <2>1, Operands, Powers DEF Word
  <2>3. bb_reg \in Nat /\ upper_reg \in Nat
    BY <1>1, <1>2 DEF TypeOK, Word
  <2>4. Partial \in Int
    BY <1>2, <2>3 DEF Partial
  <2>5. QED
    BY <1>2, <2>2, <2>3, <2>4
<1>4. PICK done \in 0 .. W - 1, low \in 0 .. W - 1, junk \in 0 .. 1 - 1 :
        U = bits * W + done /\ lower = low * 1 + junk /\ P * W + low = M * done
  BY <1>1, <1>2, <1>3 DEF Multiplying
<1>5. P * W + lower = M * U
  <2>1. bits = 0
    <3>1. bits * W < W
      <4>1. PICK x \in Nat : x = bits * W
        OBVIOUS
      <4>2. QED
        BY <1>3, <1>4, <4>1
    <3>2. QED
      BY <3>1
  <2>2. U = done /\ lower = low
    BY <1>4, <2>1
  <2>3. QED
    BY <1>4, <2>2
<1>6. PICK A \in Int, B \in Int, k \in Int :
        /\ A = Number(signed, goal.a) /\ B = Number(signed, goal.b)
        /\ M * U = A * B + k * W /\ (~Overflows => k = 0)
  <2>1. Number(signed, goal.a) \in Int /\ Number(signed, goal.b) \in Int
    BY <1>1, Powers DEF Number, Signed, TypeOK, Word, Starts
  <2>2. QED
    BY <1>1, <1>2, <1>3, <2>1, ProductOfUnsigned
<1>7. A * B = (P - k) * W + lower
  <2>1. (P - k) * W = P * W - k * W
    OBVIOUS
  <2>2. PICK x \in Int, y \in Int, z \in Int : x = P * W /\ y = k * W /\ z = A * B
    OBVIOUS
  <2>3. QED
    BY <1>5, <1>6, <2>1, <2>2
<1>8. (A * B) \div W = P - k /\ (A * B) % W = lower
  <2>1. PICK z \in Int, q \in Int : z = A * B /\ q = P - k
    OBVIOUS
  <2>2. z = q * W + lower /\ lower \in 0 .. W - 1
    BY <1>2, <1>7, <2>1
  <2>3. z \div W = q /\ z % W = lower
    BY <2>2, Quotient
  <2>4. QED
    BY <2>1, <2>3
<1>9. P % W = upper
  <2>1. CASE sign2_reg
    <3>1. P = upper - W /\ P \in -W .. -1
      BY <1>2, <1>3, <2>1 DEF Partial
    <3>2. P % W = P + W
      BY <3>1, UnderRange
    <3>3. QED
      BY <3>1, <3>2
  <2>2. CASE ~sign2_reg
    <3>1. P = upper /\ P \in 0 .. W - 1
      BY <1>2, <1>3, <2>2 DEF Partial
    <3>2. QED
      BY <3>1, InRange
  <2>3. QED
    BY <2>1, <2>2
<1>10. ~Overflows => (A * B) \div W = P
  BY <1>6, <1>8
<1>11. Product = A * B
  BY <1>6 DEF Product
<1>12. QED
  BY <1>2, <1>8, <1>9, <1>10, <1>11

(* The registers after the last step of a division. *)
LEMMA DivResult ==
  ASSUME MultiplierConstants, TypeOK, Dividing, count_reg = 0,
         goal.func \in {"DIVIDE", "SIGNED_DIVIDE"}, goal.b # 0
  PROVE  /\ lower_reg = Abs(Dividend) \div Abs(Divisor)
         /\ upper_reg = Abs(Dividend) % Abs(Divisor)
         /\ negate_reg <=> ((Dividend < 0) # (Divisor < 0))
<1> DEFINE signed == goal.func = "SIGNED_DIVIDE"
<1>1. /\ count_reg = 0 /\ goal.func \in {"DIVIDE", "SIGNED_DIVIDE"}
      /\ TypeOK /\ Dividing /\ goal.a \in Word /\ goal.b \in Word
  BY DEF TypeOK, Starts
<1>2. PICK W \in Nat \ {0}, upper \in Nat, lower \in Nat :
        /\ W = 2^Width /\ W = Weight /\ Left = 1
        /\ upper = upper_reg /\ lower = lower_reg /\ upper < W /\ lower < W
  BY <1>1, AllDone, Powers DEF TypeOK, Word
<1>3. PICK D \in Nat \ {0}, N \in Nat :
        D = Unsigned(goal.b) /\ N = Unsigned(goal.a)
  BY <1>1, Operands, Powers DEF Word, Starts
<1>4. PICK quotient \in 0 .. W - 1, junk \in Nat :
        /\ lower = junk * W + quotient
        /\ N = quotient * D * 1 + upper /\ upper < D * 1
  BY <1>1, <1>2, <1>3 DEF Dividing
<1>5. lower = quotient
  <2>1. junk * W < W
    <3>1. PICK x \in Nat : x = junk * W
      OBVIOUS
    <3>2. QED
      BY <1>2, <1>4, <3>1
  <2>2. junk = 0
    BY <2>1
  <2>3. QED
    BY <1>4, <2>2
<1>6. N \div D = quotient /\ N % D = upper
  <2>1. N = quotient * D + upper /\ upper \in 0 .. D - 1
    BY <1>4
  <2>2. QED
    BY <2>1, Quotient
<1>7. PICK a \in Int, b \in Int :
        /\ a = Number(signed, goal.a) /\ b = Number(signed, goal.b)
        /\ Abs(a) = N /\ Abs(b) = D
        /\ a < 0 <=> signed /\ Msb(goal.a)
        /\ b < 0 <=> signed /\ Msb(goal.b)
  <2>1. ASSUME NEW x \in Word
        PROVE  /\ Number(signed, x) \in Int
               /\ Number(signed, x) < 0 <=> signed /\ Msb(x)
               /\ Abs(Number(signed, x)) = Unsigned(x)
    <3>1. PICK H \in Nat \ {0}, y \in Nat : /\ H = Half /\ 2^Width = 2 * H /\ y = x /\ y < 2 * H
                                            /\ Negate(x) = IF y = 0 THEN 0 ELSE 2 * H - y
      BY Negation, Powers DEF Word
    <3>2. CASE signed /\ Msb(x)
      <4>1. y >= H
        BY <3>1, <3>2 DEF Msb
      <4>2. Number(signed, x) = y - 2 * H /\ Unsigned(x) = 2 * H - y
        BY <1>1, <3>1, <3>2, <4>1 DEF Number, Signed, Unsigned, Negated
      <4>3. y - 2 * H < 0 /\ y - 2 * H \in Int /\ -(y - 2 * H) = 2 * H - y
        BY <3>1
      <4>4. QED
        BY <3>2, <4>2, <4>3 DEF Abs
    <3>3. CASE ~(signed /\ Msb(x))
      <4>1. Number(signed, x) = y /\ Unsigned(x) = y
        BY <1>1, <3>1, <3>3 DEF Number, Signed, Unsigned, Negated
      <4>2. QED
        BY <3>3, <4>1 DEF Abs
    <3>4. QED
      BY <3>2, <3>3
  <2>2. QED
    BY <1>1, <1>3, <2>1
<1>8. negate_reg <=> ((a < 0) # (b < 0))
  <2>1. negate_reg <=> signed /\ Msb(goal.a) # Msb(goal.b)
    BY <1>1 DEF Dividing
  <2>2. Msb(goal.a) \in BOOLEAN /\ Msb(goal.b) \in BOOLEAN
    BY <1>1, Powers DEF Msb, Word
  <2>3. CASE signed
    <3>1. (a < 0 <=> Msb(goal.a)) /\ (b < 0 <=> Msb(goal.b))
      BY <1>7, <2>3
    <3>2. QED
      BY <2>1, <2>2, <2>3, <3>1
  <2>4. CASE ~signed
    BY <1>7, <2>1, <2>4
  <2>5. QED
    BY <2>3, <2>4
<1>9. Dividend = a /\ Divisor = b
  BY <1>7 DEF Dividend, Divisor
<1>10. QED
  BY <1>2, <1>5, <1>6, <1>7, <1>8, <1>9

LEMMA ResultsThere ==
  ASSUME MultiplierConstants, IInv, count_reg = 0
  PROVE  Results
<1>1. CASE wrote = Unwritten
  <2>1. wrote["WRITE_LO"] = Nothing /\ wrote["WRITE_HI"] = Nothing
    BY <1>1 DEF Unwritten, Writes
  <2>2. TypeOK
    BY DEF IInv
  <2>3. CASE goal.func \in {"MULT", "SIGNED_MULT"}
    BY <1>1, <2>1, <2>2, <2>3, MultResult DEF IInv, Results, Shows
  <2>4. CASE goal.func \in {"DIVIDE", "SIGNED_DIVIDE"} /\ goal.b # 0
    BY <1>1, <2>1, <2>2, <2>4, DivResult DEF IInv, Results, Shows
  <2>5. QED
    BY <2>3, <2>4 DEF Results
<1>2. CASE wrote # Unwritten
  BY <1>2 DEF IInv
<1>3. QED
  BY <1>1, <1>2

-----------------------------------------------------------------------------
(***************************************************************************)
(* The registers always hold the part of the operation that is done, and   *)
(* the powers of two of the bits done and left make the word; a write of   *)
(* one of them leaves the other part of a result that is there.            *)
(***************************************************************************)
LEMMA StartKeeps ==
  ASSUME MultiplierConstants, IInv, NEW i \in First \cup Later, Issue(i), i.func \in Starts
  PROVE  IInv'
<1>1. TypeOK' /\ goal' = i /\ wrote' = Unwritten /\ TypeOK /\ i.func \notin Writes
  <2>1. i.func \notin Writes
    BY DEF Starts, Writes
  <2>2. QED
    BY <2>1, IssueTypes DEF IInv, Issue, Observe
<1>2. CASE i.func \in {"MULT", "SIGNED_MULT"}
  <2>1. StartMult(i.func = "SIGNED_MULT", i.a, i.b)
    BY <1>2 DEF Issue
  <2>2. Scale' /\ Multiplying'
    BY <1>1, <1>2, <2>1, StartMultSets
  <2>3. QED
    BY <1>1, <1>2, <2>2 DEF IInv, Unwritten
<1>3. CASE i.func \in {"DIVIDE", "SIGNED_DIVIDE"}
  <2>1. StartDivide(i.func = "SIGNED_DIVIDE", i.a, i.b)
    BY <1>3 DEF Issue
  <2>2. Scale'
    BY <2>1, NothingDone DEF StartDivide
  <2>3. i.b # 0 => Dividing'
    BY <1>1, <1>3, <2>1, StartDivideSets
  <2>4. QED
    BY <1>1, <1>3, <2>2, <2>3 DEF IInv, Unwritten
<1>4. QED
  BY <1>2, <1>3 DEF Starts

LEMMA WriteKeeps ==
  ASSUME MultiplierConstants, IInv, NEW i \in First \cup Later, Issue(i), i.func \in Writes
  PROVE  IInv'
<1>1. TypeOK' /\ TypeOK /\ i.a \in Word /\ i.a # Nothing
  <2>1. \A x \in Word : x # Nothing
    BY Powers DEF Word, Nothing
  <2>2. QED
    BY <2>1, IssueTypes DEF IInv, MultiplierConstants
<1>2. /\ count_reg' = count_reg /\ ~negate_reg'
      /\ i.func = "WRITE_LO" => lower_reg' = i.a /\ upper_reg' = upper_reg
      /\ i.func = "WRITE_HI" => upper_reg' = i.a /\ lower_reg' = lower_reg
  BY DEF Issue, WriteLo, WriteHi, Writes
<1>3. Scale'
  BY <1>2 DEF IInv, Scale, Weight, Left
<1>4. CASE Pause
  <2>1. goal' = i /\ wrote' = Unwritten
    BY <1>4 DEF Issue, Observe
  <2>2. i.func \notin {"MULT", "SIGNED_MULT", "DIVIDE", "SIGNED_DIVIDE"}
    BY DEF Writes
  <2>3. QED
    BY <1>1, <1>3, <2>1, <2>2 DEF IInv, Unwritten
<1>5. CASE ~Pause
  <2>1. goal' = goal /\ wrote' = [wrote EXCEPT ![i.func] = i.a] /\ count_reg = 0
    BY <1>5 DEF Issue, Observe, Pause
  <2>2. wrote \in [Writes -> Word \cup {Nothing}]
    BY <1>1 DEF TypeOK
  <2>3. wrote'[i.func] = i.a /\ \A w \in Writes : w # i.func => wrote'[w] = wrote[w]
    BY <2>1, <2>2
  <2>4. wrote' # Unwritten
    BY <1>1, <2>3 DEF Unwritten
  <2>5. Results
    BY <2>1, ResultsThere
  <2>6. ASSUME NEW result
        PROVE  /\ Shows(lower_reg, "WRITE_LO", result)
                    => lower_reg' = IF wrote'["WRITE_LO"] = Nothing THEN result ELSE wrote'["WRITE_LO"]
               /\ Shows(upper_reg, "WRITE_HI", result)
                    => upper_reg' = IF wrote'["WRITE_HI"] = Nothing THEN result ELSE wrote'["WRITE_HI"]
    <3>1. "WRITE_LO" \in Writes /\ "WRITE_HI" \in Writes /\ "WRITE_LO" # "WRITE_HI"
      BY DEF Writes
    <3>2. CASE i.func = "WRITE_LO"
      BY <1>1, <1>2, <2>3, <3>1, <3>2 DEF Shows
    <3>3. CASE i.func = "WRITE_HI"
      BY <1>1, <1>2, <2>3, <3>1, <3>3 DEF Shows
    <3>4. QED
      BY <3>2, <3>3 DEF Writes
  <2>7. Product' = Product /\ Dividend' = Dividend /\ Divisor' = Divisor
    BY <2>1 DEF Product, Dividend, Divisor, Number, Signed, Msb
  <2>8. Overflows' <=> Overflows
    BY <2>1 DEF Overflows, Msb
  <2>9. Results'
    <3>1. CASE goal.func \in {"MULT", "SIGNED_MULT"}
      BY <2>1, <2>5, <2>6, <2>7, <2>8, <3>1 DEF Results, Shows
    <3>2. CASE goal.func \in {"DIVIDE", "SIGNED_DIVIDE"} /\ goal.b # 0
      BY <2>1, <2>5, <2>6, <2>7, <3>2 DEF Results, Shows, Abs
    <3>3. QED
      BY <2>1, <3>1, <3>2 DEF Results
  <2>10. QED
    BY <1>1, <1>2, <1>3, <2>1, <2>4, <2>9 DEF IInv, Unwritten
<1>6. QED
  BY <1>4, <1>5

LEMMA StepKeeps ==
  ASSUME MultiplierConstants, IInv, Step
  PROVE  IInv'
<1>1. /\ TypeOK' /\ TypeOK /\ Scale /\ count_reg # 0
      /\ UNCHANGED <<mode_reg, negate_reg, goal>> /\ wrote' = wrote /\ wrote = Unwritten
  BY StepTypes DEF IInv, Step, history
<1>2. Scale'
  <2>1. CASE MultSkip
    <3>1. count_reg \in 4 .. Width /\ count_reg' = count_reg - 4
      BY <1>1, <2>1, Powers DEF TypeOK, MultSkip, CanSkip
    <3>2. QED
      BY <1>1, <3>1, FourBits
  <2>2. CASE ~MultSkip
    <3>1. count_reg \in 1 .. Width /\ count_reg' = count_reg - 1
      BY <1>1, <2>2 DEF TypeOK, Step, MultAdd, MultShift, Divide
    <3>2. QED
      BY <1>1, <3>1, OneBit
  <2>3. QED
    BY <2>1, <2>2
<1>3. CASE goal.func \in {"MULT", "SIGNED_MULT"}
  <2>1. Multiplying /\ mode_reg = MODE_MULT
    BY <1>1, <1>3 DEF IInv, Multiplying
  <2>2. MultAdd \/ MultSkip \/ MultShift
    BY <2>1 DEF Step, Divide, MODE_MULT, MODE_DIV
  <2>3. Multiplying'
    BY <1>1, <1>3, <2>1, <2>2, MultAddKeeps, MultSkipKeeps, MultShiftKeeps
  <2>4. QED
    BY <1>1, <1>2, <1>3, <2>3 DEF IInv, Unwritten
<1>4. CASE goal.func \in {"DIVIDE", "SIGNED_DIVIDE"} /\ goal.b # 0
  <2>1. Dividing /\ mode_reg = MODE_DIV
    BY <1>1, <1>4 DEF IInv, Dividing
  <2>2. Divide
    BY <2>1 DEF Step, MultAdd, MultSkip, MultShift, MODE_MULT, MODE_DIV
  <2>3. Dividing'
    BY <1>1, <1>4, <2>1, <2>2, DivideKeeps
  <2>4. QED
    BY <1>1, <1>2, <1>4, <2>3 DEF IInv, Unwritten
<1>5. QED
  BY <1>1, <1>2, <1>3, <1>4 DEF IInv, Unwritten

THEOREM Invariant ==
  ASSUME MultiplierConstants
  PROVE  Spec => []IInv
<1>1. ASSUME Init PROVE IInv
  <2>1. /\ Width \in Nat /\ 0 \in 0 .. Width /\ Width - 0 = Width
        /\ 2^Width \in Nat \ {0} /\ 2^0 = 1
    BY Powers DEF MultiplierConstants, PowersOfTwo
  <2>2. Weight = 2^Width /\ Left = 1
    BY <1>1, <2>1 DEF Init, Weight, Left
  <2>3. Scale
    BY <2>1, <2>2 DEF Scale
  <2>4. TypeOK
    <3>1. 0 \in Word /\ count_reg \in 0 .. Width
      BY <1>1, <2>1 DEF Init, Word
    <3>2. {negate_reg, sign_reg, sign2_reg} \subseteq BOOLEAN
      BY <1>1 DEF Init
    <3>3. goal.func \notin Starts /\ {aa_reg, bb_reg, upper_reg, lower_reg} = {0}
      BY <1>1 DEF Init, Starts
    <3>4. wrote \in [Writes -> Word \cup {Nothing}]
      BY <1>1 DEF Init, Unwritten
    <3>5. QED
      BY <1>1, <3>1, <3>2, <3>3, <3>4 DEF Init, TypeOK
  <2>5. goal.func = "none" /\ wrote = Unwritten
    BY <1>1 DEF Init
  <2>6. QED
    BY <2>3, <2>4, <2>5 DEF IInv
<1>2. ASSUME IInv, [Next]_vars PROVE IInv'
  <2>1. CASE Step
    BY <1>2, <2>1, StepKeeps
  <2>2. ASSUME NEW i \in First \cup Later, Issue(i) PROVE IInv'
    <3>1. i.func \in Starts \cup Writes
      BY DEF MultiplierConstants
    <3>2. QED
      BY <1>2, <2>2, <3>1, StartKeeps, WriteKeeps
  <2>3. CASE UNCHANGED vars
    <3>1. UNCHANGED <<Weight, Left, Multiplicand, Partial, Product, Dividend, Divisor>>
      BY <2>3 DEF vars, unitVars, history, Weight, Left, Multiplicand, Partial, Number, Signed,
                  Msb, Negate, Negated, Product, Dividend, Divisor
    <3>2. Results => Results'
      BY <2>3, <3>1 DEF vars, unitVars, history, Results, Shows, Overflows, Msb, Abs
    <3>3. QED
      BY <1>2, <2>3, <3>1, <3>2 DEF vars, unitVars, history, IInv, TypeOK, Scale, Multiplying,
                              Dividing, Signs, Unsigned, Negated, Negate, Msb, Unwritten
  <2>4. QED
    BY <1>2, <2>1, <2>2, <2>3 DEF Next, Idle
<1>3. QED
  BY <1>1, <1>2, PTL DEF Spec

-----------------------------------------------------------------------------
(* What the invariant says of a read.                                      *)

(* MULT and MULTU, every width and every pair of operands: HI and LO hold  *)
(* the product, whatever was computed before or interrupted, and the words *)
(* written to them later.                                                  *)
THEOREM Products ==
  ASSUME MultiplierConstants
  PROVE  Spec => []ProductsRight
<1>1. ASSUME IInv PROVE ProductsRight
  <2> SUFFICES ASSUME Done({"MULT", "SIGNED_MULT"})
               PROVE  /\ Shows(ReadLo, "WRITE_LO", Product % 2^Width)
                      /\ ~Overflows => Shows(ReadHi, "WRITE_HI", (Product \div 2^Width) % 2^Width)
    BY DEF ProductsRight, Product
  <2>1. count_reg = 0 /\ goal.func \in {"MULT", "SIGNED_MULT"}
    BY DEF Done, Pause
  <2>2. ~negate_reg
    BY <1>1, <2>1 DEF IInv, Multiplying
  <2>3. ReadLo = lower_reg /\ ReadHi = upper_reg
    BY <2>2 DEF ReadLo, ReadHi
  <2>4. QED
    BY <1>1, <2>1, <2>3, ResultsThere DEF Results
<1>2. QED
  BY <1>1, Invariant, PTL

(* DIV and DIVU by anything but zero, every width and every pair of        *)
(* operands: LO is the quotient, HI the remainder of the magnitudes, until *)
(* they are written; a write of HI leaves LO without its sign.             *)
THEOREM Quotients ==
  ASSUME MultiplierConstants
  PROVE  Spec => []QuotientsRight
<1>1. ASSUME IInv PROVE QuotientsRight
  <2> DEFINE sign == IF wrote # Unwritten \/ (Dividend < 0) = (Divisor < 0) THEN 1 ELSE -1
             q == Abs(Dividend) \div Abs(Divisor)
  <2> SUFFICES ASSUME Done({"DIVIDE", "SIGNED_DIVIDE"}), goal.b # 0
               PROVE  /\ Shows(ReadLo, "WRITE_LO", (sign * q) % 2^Width)
                      /\ Shows(ReadHi, "WRITE_HI", Abs(Dividend) % Abs(Divisor))
    BY DEF QuotientsRight, Dividend, Divisor
  <2>1. count_reg = 0 /\ goal.func \in {"DIVIDE", "SIGNED_DIVIDE"}
    BY DEF Done, Pause
  <2>2. /\ Shows(lower_reg, "WRITE_LO", q)
        /\ Shows(ReadHi, "WRITE_HI", Abs(Dividend) % Abs(Divisor))
    BY <1>1, <2>1, ResultsThere DEF Results, ReadHi
  <2>3. PICK W \in Nat \ {0}, lower \in Nat : W = 2^Width /\ lower = lower_reg /\ lower < W
    BY <1>1, Powers DEF IInv, TypeOK, Word
  <2>4. lower % W = lower
    BY <2>3, InRange
  <2>5. CASE wrote # Unwritten
    <3>1. ReadLo = lower
      BY <1>1, <2>3, <2>5 DEF IInv, ReadLo
    <3>2. q = lower => (sign * q) % 2^Width = lower
      BY <2>3, <2>4, <2>5
    <3>3. QED
      BY <2>2, <2>3, <3>1, <3>2 DEF Shows
  <2>6. CASE wrote = Unwritten
    <3>1. wrote["WRITE_LO"] = Nothing
      BY <2>6 DEF Unwritten, Writes
    <3>2. q = lower /\ (negate_reg <=> ((Dividend < 0) # (Divisor < 0)))
      BY <1>1, <2>1, <2>3, <2>6, DivResult DEF IInv
    <3>3. CASE negate_reg
      <4>1. sign = -1 /\ (-1) * lower = -lower
        BY <2>6, <3>2, <3>3
      <4>2. ReadLo = (-lower) % W
        BY <2>3, <3>3 DEF ReadLo, Negate
      <4>3. QED
        BY <2>2, <2>3, <3>1, <3>2, <4>1, <4>2 DEF Shows
    <3>4. CASE ~negate_reg
      <4>1. sign = 1 /\ 1 * lower = lower
        BY <3>2, <3>4
      <4>2. ReadLo = lower
        BY <2>3, <3>4 DEF ReadLo
      <4>3. QED
        BY <2>2, <2>3, <2>4, <3>1, <3>2, <4>1, <4>2 DEF Shows
    <3>5. QED
      BY <3>3, <3>4
  <2>7. QED
    BY <2>5, <2>6
<1>2. QED
  BY <1>1, Invariant, PTL
=============================================================================
