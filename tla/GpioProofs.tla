------------------------------ MODULE GpioProofs ------------------------------
(***************************************************************************)
(* Theorems about Gpio, for every set of words that may be written to its  *)
(* registers or shown by its pins, and for either bus master.              *)
(***************************************************************************)
EXTENDS Gpio, TLAPS

(* An access takes two cycles: the strobe, and the answer, in which the    *)
(* bridge still strobes and the CPU does not.                              *)
TwoCycles ==
  /\ master \in {"cpu", "hps"}
  /\ ~cyc => ~stb
  /\ cyc /\ ~Answered => stb
  /\ cyc /\ Answered => (stb <=> master = "hps")

(* The bridge's second strobe writes what the first one wrote. *)
WrittenAgain ==
  cyc /\ Answered /\ stb /\ req.we =>
    /\ req.reg = CtrlReg => ctrl_s = req.dat
    /\ req.reg = MaskReg => mask_s = req.dat

(* gpio.vhd has the mask an edge after the register, the access's second.  *)
MaskSettled == ~cyc /\ ~Rst(ctrl_s) => pin_mask = MaskIn

(* The CPU's write opens the latch once.  The bridge's opens it twice, and *)
(* what the first opening shows is not yet the word written.               *)
LatchSettled ==
  /\ master = "cpu" => gpio_o = shown
  /\ master = "hps" /\ ~Rst(ctrl_s) /\ (cyc => ~req.we) => gpio_o = shown

IInv == TwoCycles /\ WrittenAgain /\ dat_is = written /\ MaskSettled /\ LatchSettled

-----------------------------------------------------------------------------
(* One lemma for each conjunct that an edge may disturb.                   *)

LEMMA TickTwoCycles ==
  ASSUME TwoCycles, Tick
  PROVE  TwoCycles'
<1>1. master' = master
  BY DEF Tick
<1>2. stb => Answered'
  BY DEF Tick, Registers, Answered
<1>3. ~stb => ~Answered'
  BY DEF Tick, Registers, Answered
<1>4. CASE Begin
  BY <1>1, <1>3, <1>4 DEF TwoCycles, Begin
<1>5. CASE Rest
  BY <1>1, <1>5 DEF TwoCycles, Rest
<1>6. CASE Wait
  BY <1>1, <1>2, <1>6 DEF TwoCycles, Wait
<1>7. CASE End
  BY <1>1, <1>7 DEF TwoCycles, End
<1>8. QED
  BY <1>4, <1>5, <1>6, <1>7 DEF Tick

LEMMA TickWrittenAgain ==
  ASSUME TwoCycles, Tick
  PROVE  WrittenAgain'
<1>1. CASE Wait
  <2>1. stb /\ req' = req
    BY <1>1 DEF TwoCycles, Wait
  <2>2. QED
    BY <2>1 DEF WrittenAgain, Tick, Registers, CtrlReg, MaskReg, Elsewhere
<1>2. CASE ~Wait
  <2>1. cyc' => ~Answered'
    BY <1>2 DEF TwoCycles, Tick, Begin, Rest, End, Registers, Answered
  <2>2. QED
    BY <2>1 DEF WrittenAgain
<1>3. QED
  BY <1>1, <1>2

(* The registers at the end of an access, and between two accesses.        *)
LEMMA RegistersKept ==
  ASSUME TwoCycles, WrittenAgain, Registers, cyc => Answered
  PROVE  ctrl_s' = ctrl_s /\ mask_s' = mask_s
BY DEF TwoCycles, WrittenAgain, Registers, Elsewhere, CtrlReg, MaskReg

LEMMA TickMaskSettled ==
  ASSUME TwoCycles, WrittenAgain, Tick
  PROVE  MaskSettled'
<1>1. CASE Rest \/ End
  <2>1. ctrl_s' = ctrl_s /\ mask_s' = mask_s
    BY <1>1, RegistersKept DEF Tick, Rest, End
  <2>2. QED
    BY <2>1 DEF MaskSettled, MaskIn, Tick, Pins
<1>2. CASE Begin \/ Wait
  BY <1>2 DEF MaskSettled, Begin, Wait
<1>3. QED
  BY <1>1, <1>2 DEF Tick

LEMMA TickLatchSettled ==
  ASSUME TwoCycles, WrittenAgain, dat_is = written, LatchSettled, Tick
  PROVE  LatchSettled'
<1> USE DEF Tick, Pins, Observe, Open, we_i, Shows
<1>1. CASE master = "cpu"
  BY <1>1 DEF LatchSettled
<1>2. CASE master = "hps"
  <2>1. master' = "hps"
    BY <1>2
  <2>2. CASE Begin \/ Rest
    <3>1. ctrl_s' = ctrl_s
      BY <2>2, RegistersKept DEF Begin, Rest
    <3>2. gpio_o' = gpio_o /\ shown' = shown
      BY <1>2, <2>2 DEF Begin, Rest, End
    <3>3. QED
      BY <1>2, <2>1, <2>2, <3>1, <3>2 DEF LatchSettled, Begin, Rest
  <2>3. CASE Wait
    <3>1. req.we => (cyc' /\ req'.we)
      BY <2>3 DEF Wait
    <3>2. ~req.we => /\ gpio_o' = gpio_o /\ shown' = shown
                     /\ ctrl_s' = ctrl_s
      BY <2>3 DEF Registers
    <3>3. QED
      BY <1>2, <2>1, <3>1, <3>2 DEF LatchSettled
  <2>4. CASE End
    <3>1. ctrl_s' = ctrl_s
      BY <2>4, RegistersKept DEF End
    <3>2. CASE req.we
      BY <1>2, <2>1, <2>4, <3>1, <3>2 DEF LatchSettled, End
    <3>3. CASE ~req.we
      BY <1>2, <2>1, <2>4, <3>1, <3>3 DEF LatchSettled, End
    <3>4. QED
      BY <3>2, <3>3
  <2>5. QED
    BY <2>2, <2>3, <2>4
<1>3. QED
  BY <1>1, <1>2 DEF TwoCycles

-----------------------------------------------------------------------------
LEMMA Inductive ==
  ASSUME IInv, [Next]_vars
  PROVE  IInv'
<1>1. CASE Tick
  <2>1. (dat_is = written)'
    BY <1>1 DEF IInv, Tick, Registers, Observe, DataReg, Elsewhere
  <2>2. QED
    BY <1>1, <2>1, TickTwoCycles, TickWrittenAgain, TickMaskSettled, TickLatchSettled DEF IInv
<1>2. CASE Reset
  <2>1. ~cyc' /\ ~stb' /\ master' = master /\ (dat_is = written)'
    BY <1>2 DEF Reset
  <2>2. MaskSettled'
    BY <1>2 DEF Reset, MaskSettled, MaskIn, MaskEn
  <2>3. LatchSettled'
    BY <1>2, <2>1 DEF IInv, TwoCycles, Reset, LatchSettled
  <2>4. QED
    BY <2>1, <2>2, <2>3 DEF IInv, TwoCycles, WrittenAgain
<1>3. CASE UNCHANGED vars
  BY <1>3 DEF vars, IInv, TwoCycles, WrittenAgain, MaskSettled, LatchSettled, MaskIn, Answered
<1>4. QED
  BY <1>1, <1>2, <1>3 DEF Next

(* The inductive invariant holds. *)
THEOREM EdgesAreKept == ASSUME GpioConstants PROVE Spec => []IInv
<1>1. Init => IInv
  BY DEF GpioConstants, Init, IInv, TwoCycles, WrittenAgain, MaskSettled, LatchSettled,
         MaskIn, MaskEn
<1>2. IInv /\ [Next]_vars => IInv'
  BY Inductive
<1>3. QED
  BY <1>1, <1>2, PTL DEF Spec

(***************************************************************************)
(* Between two accesses the output pins of slave_gpio.vhd show the word    *)
(* the bridge wrote last, or the one the CPU had written before its last   *)
(* store to any slave, for all words and whatever resets come between.     *)
(***************************************************************************)
THEOREM PinsShowWhatWasWritten == ASSUME GpioConstants PROVE Spec => []PinsAsWritten
<1>1. IInv => PinsAsWritten
  BY DEF IInv, TwoCycles, LatchSettled, PinsAsWritten
<1>2. QED
  BY <1>1, EdgesAreKept, PTL

(***************************************************************************)
(* Between two accesses the interrupt of gpio.vhd is up exactly while an   *)
(* input is up that the mask leaves open, for all masks and inputs.        *)
(***************************************************************************)
THEOREM InterruptFollowsMask == ASSUME GpioConstants PROVE Spec => []InterruptsAsMasked
<1>1. IInv => InterruptsAsMasked
  BY DEF IInv, MaskSettled, MaskIn, Irq, InterruptsAsMasked
<1>2. QED
  BY <1>1, EdgesAreKept, PTL
=============================================================================
