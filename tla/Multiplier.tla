------------------------------ MODULE Multiplier ------------------------------
(***************************************************************************)
(* The multiplication and division unit, rtl/plasma/mult.vhd, for words of *)
(* Width bits (32 in the source).  Registers are numbers below 2^Width.    *)
(* An edge carries one function of the CPU's instruction: the start of an  *)
(* operation, a write of LO or HI, or none; a read is paused until the     *)
(* result is there and changes nothing.                                    *)
(***************************************************************************)
EXTENDS Integers

CONSTANTS
  Width,
  First,        \* the possible first functions, [func, a, b]
  Later,        \* those that may follow, at any edge
  MaxIssued     \* bound: how many functions are issued

Starts == {"MULT", "SIGNED_MULT", "DIVIDE", "SIGNED_DIVIDE"}
Writes == {"WRITE_LO", "WRITE_HI"}
Word == 0 .. 2^Width - 1

(* What 2^n is, which holds of every Width: the provers have to be told. *)
PowersOfTwo ==
  /\ 2^0 = 1
  /\ \A n \in 0 .. Width - 1 : 2^n \in Nat \ {0} /\ 2^(n + 1) = 2 * 2^n

(* What a use of the module has to assume of the constants. *)
MultiplierConstants ==
  /\ Width \in Nat \ {0} /\ MaxIssued \in Nat
  /\ PowersOfTwo
  /\ First \cup Later \subseteq [func : Starts \cup Writes, a : Word, b : Word]

VARIABLES
  mode_reg,             \* MODE_MULT or MODE_DIV
  negate_reg,           \* LO is to be read negated
  sign_reg, sign2_reg,  \* the multiplicand is negative; the sum is
  count_reg,            \* bits left to do
  aa_reg, bb_reg, upper_reg, lower_reg,
  goal,                 \* history: the operation started last, or a write
                        \* that came into it
  wrote,                \* history: what LO and HI were written since its
                        \* result was there
  issued                \* how many functions were issued

unitVars == <<mode_reg, negate_reg, sign_reg, sign2_reg, count_reg,
              aa_reg, bb_reg, upper_reg, lower_reg>>
history == <<goal, wrote, issued>>
vars == <<unitVars, history>>

Nothing == -1
Unwritten == [w \in Writes |-> Nothing]

Half == 2^(Width - 1)
MODE_MULT == "mult"
MODE_DIV  == "div"

(* bit Width - 1 of a word, and bv_negate *)
Msb(x)    == x >= Half
Negate(x) == (-x) % 2^Width
Magnitude(x) == IF Msb(x) THEN Negate(x) ELSE x

(* sum: the word and its carry, or its borrow when dividing *)
Sum   == IF mode_reg = MODE_MULT THEN upper_reg + aa_reg ELSE upper_reg - aa_reg
Carry == IF mode_reg = MODE_MULT THEN Sum >= 2^Width ELSE Sum < 0
SumWord == Sum % 2^Width

(* c_mult *)
ReadLo == IF negate_reg THEN Negate(lower_reg) ELSE lower_reg
ReadHi == upper_reg

(* pause_out, for a read *)
Pause == count_reg # 0

Init ==
  /\ mode_reg = MODE_DIV /\ negate_reg = FALSE
  /\ sign_reg = FALSE /\ sign2_reg = FALSE
  /\ count_reg = 0
  /\ aa_reg = 0 /\ bb_reg = 0 /\ upper_reg = 0 /\ lower_reg = 0
  /\ goal = [func |-> "none", a |-> 0, b |-> 0] /\ wrote = Unwritten
  /\ issued = 0

-----------------------------------------------------------------------------
(* Functions.                                                              *)

(* A faulty write, which leaves the sign of a quotient behind. *)
WriteLoSigned(a) ==
  /\ lower_reg' = a
  /\ UNCHANGED <<mode_reg, negate_reg, sign_reg, sign2_reg, count_reg, aa_reg, bb_reg, upper_reg>>

WriteLo(a) ==
  /\ lower_reg' = a /\ negate_reg' = FALSE
  /\ UNCHANGED <<mode_reg, sign_reg, sign2_reg, count_reg, aa_reg, bb_reg, upper_reg>>

WriteHi(a) ==
  /\ upper_reg' = a /\ negate_reg' = FALSE
  /\ UNCHANGED <<mode_reg, sign_reg, sign2_reg, count_reg, aa_reg, bb_reg, lower_reg>>

(* A negative multiplier makes both operands change their signs. *)
StartMult(signed, a, b) ==
  LET aa == IF signed /\ Msb(b) THEN Negate(a) ELSE a
  IN /\ mode_reg' = MODE_MULT
     /\ aa_reg' = aa
     /\ bb_reg' = IF signed THEN Magnitude(b) ELSE b
     /\ sign_reg' = (signed /\ Msb(aa)) /\ sign2_reg' = FALSE
     /\ upper_reg' = 0
     /\ count_reg' = Width
     /\ negate_reg' = FALSE
     /\ UNCHANGED lower_reg

StartDivide(signed, a, b) ==
  LET divisor == IF signed THEN Magnitude(b) ELSE b
  IN /\ mode_reg' = MODE_DIV
     /\ aa_reg' = (divisor % 2) * Half
     /\ bb_reg' = divisor
     /\ upper_reg' = IF signed THEN Magnitude(a) ELSE a
     /\ count_reg' = Width
     /\ negate_reg' = (signed /\ Msb(a) # Msb(b))
     /\ UNCHANGED <<sign_reg, sign2_reg, lower_reg>>

-----------------------------------------------------------------------------
(* One step of the iteration; LO fills up from above, or from below.       *)

ShiftIntoLower(bits, n) == bits * 2^(Width - n) + (lower_reg \div 2^n)

MultAdd ==
  /\ mode_reg = MODE_MULT /\ bb_reg % 2 = 1
  /\ upper_reg' = (IF sign_reg # Carry THEN Half ELSE 0) + (SumWord \div 2)
  /\ lower_reg' = ShiftIntoLower(SumWord % 2, 1)
  /\ sign2_reg' = (sign2_reg \/ sign_reg) /\ sign_reg' = FALSE
  /\ bb_reg' = bb_reg \div 2
  /\ count_reg' = count_reg - 1
  /\ UNCHANGED aa_reg

(* A faulty shortcut, which skips whatever the sign. *)
CanSkipSigned == bb_reg % 16 = 0 /\ count_reg >= 4

(* Four zero bits of the multiplier at once, while the sum has no sign. *)
CanSkip == bb_reg % 16 = 0 /\ ~sign2_reg /\ count_reg >= 4

MultSkip ==
  /\ mode_reg = MODE_MULT /\ bb_reg % 2 = 0 /\ CanSkip
  /\ upper_reg' = upper_reg \div 16
  /\ lower_reg' = ShiftIntoLower(upper_reg % 16, 4)
  /\ bb_reg' = bb_reg \div 16
  /\ count_reg' = count_reg - 4
  /\ UNCHANGED <<sign_reg, sign2_reg, aa_reg>>

MultShift ==
  /\ mode_reg = MODE_MULT /\ bb_reg % 2 = 0 /\ ~CanSkip
  /\ upper_reg' = (IF sign2_reg THEN Half ELSE 0) + (upper_reg \div 2)
  /\ lower_reg' = ShiftIntoLower(upper_reg % 2, 1)
  /\ bb_reg' = bb_reg \div 2
  /\ count_reg' = count_reg - 1
  /\ UNCHANGED <<sign_reg, sign2_reg, aa_reg>>

(* The divisor comes down from above; it fits once all of it is in aa_reg. *)
Fits == ~Carry /\ aa_reg # 0 /\ bb_reg \div 2 = 0

Divide ==
  /\ mode_reg = MODE_DIV
  /\ upper_reg' = IF Fits THEN SumWord ELSE upper_reg
  /\ lower_reg' = ((2 * lower_reg) % 2^Width) + (IF Fits THEN 1 ELSE 0)
  /\ aa_reg' = ((bb_reg \div 2) % 2) * Half + (aa_reg \div 2)
  /\ bb_reg' = bb_reg \div 2
  /\ count_reg' = count_reg - 1
  /\ UNCHANGED <<sign_reg, sign2_reg>>

-----------------------------------------------------------------------------
(* A write leaves the rest of a result that is there already. *)
Observe(i) ==
  LET kept == i.func \in Writes /\ ~Pause
  IN /\ goal' = IF kept THEN goal ELSE i
     /\ wrote' = IF kept THEN [wrote EXCEPT ![i.func] = i.a] ELSE Unwritten

Issue(i) ==
  /\ issued < MaxIssued
  /\ \/ i.func = "WRITE_LO" /\ WriteLo(i.a)
     \/ i.func = "WRITE_HI" /\ WriteHi(i.a)
     \/ i.func \in {"MULT", "SIGNED_MULT"} /\ StartMult(i.func = "SIGNED_MULT", i.a, i.b)
     \/ i.func \in {"DIVIDE", "SIGNED_DIVIDE"} /\ StartDivide(i.func = "SIGNED_DIVIDE", i.a, i.b)
  /\ Observe(i) /\ issued' = issued + 1

Step ==
  /\ count_reg # 0
  /\ MultAdd \/ MultSkip \/ MultShift \/ Divide
  /\ UNCHANGED <<mode_reg, negate_reg, history>>

Idle == count_reg = 0 /\ UNCHANGED vars

Next == Step \/ Idle \/ \E i \in IF issued = 0 THEN First ELSE Later : Issue(i)

Spec == Init /\ [][Next]_vars

-----------------------------------------------------------------------------
Signed(x) == IF Msb(x) THEN x - 2^Width ELSE x
Number(signed, x) == IF signed THEN Signed(x) ELSE x
Abs(x) == IF x < 0 THEN -x ELSE x

Done(funcs) == ~Pause /\ goal.func \in funcs

(* What a register shows: its part of the result, until it is written. *)
Shows(read, w, result) == read = IF wrote[w] = Nothing THEN result ELSE wrote[w]

(* The most negative multiplicand has no positive counterpart: with a      *)
(* negative multiplier its product gets the wrong sign, and HI is wrong.   *)
Overflows == goal.func = "SIGNED_MULT" /\ goal.a = Half /\ Msb(goal.b)

(***************************************************************************)
(* MULT and MULTU: once a read is no longer paused, HI and LO hold the     *)
(* product, with the four-bit shortcut and without, whatever was computed  *)
(* before or interrupted, and each the word written to it from then on.    *)
(* HI is the upper word: mult.vhd describes a 64-bit answer, control.vhd   *)
(* says "s->hi=0;".                                                        *)
(***************************************************************************)
ProductsRight ==
  Done({"MULT", "SIGNED_MULT"}) =>
    LET signed  == goal.func = "SIGNED_MULT"
        product == Number(signed, goal.a) * Number(signed, goal.b)
    IN /\ Shows(ReadLo, "WRITE_LO", product % 2^Width)
       /\ ~Overflows => Shows(ReadHi, "WRITE_HI", (product \div 2^Width) % 2^Width)

(***************************************************************************)
(* DIV and DIVU by anything but zero: LO is the quotient, rounded towards  *)
(* zero, and HI the remainder of the magnitudes, and each the word written *)
(* to it from then on; but a write of HI takes the sign from LO.           *)
(***************************************************************************)
QuotientsRight ==
  Done({"DIVIDE", "SIGNED_DIVIDE"}) /\ goal.b # 0 =>
    LET signed == goal.func = "SIGNED_DIVIDE"
        a == Number(signed, goal.a)
        b == Number(signed, goal.b)
        sign == IF wrote # Unwritten \/ (a < 0) = (b < 0) THEN 1 ELSE -1
    IN /\ Shows(ReadLo, "WRITE_LO", (sign * (Abs(a) \div Abs(b))) % 2^Width)
       /\ Shows(ReadHi, "WRITE_HI", Abs(a) % Abs(b))

(* DIV: "s->hi=r[rs]%r[rt]", which in C has the sign of the dividend.      *)
RemainderSigned ==
  Done({"SIGNED_DIVIDE"}) /\ goal.b # 0 /\ wrote = Unwritten =>
    LET magnitude == Abs(Signed(goal.a)) % Abs(Signed(goal.b))
    IN Signed(ReadHi) = IF Msb(goal.a) THEN -magnitude ELSE magnitude
=============================================================================
