------------------------------ MODULE CoresProofs ------------------------------
(***************************************************************************)
(* What is proved of each core by itself, for Cores, where the cores stand *)
(* side by side: a behaviour of Cores is, for each core, one of its own.   *)
(* Multiplier, bridges, timer and GPIO have proof modules of their own,    *)
(* whose definitions and those of Cores are two copies: both are expanded. *)
(* What is proved of the serial cores is proved here.                      *)
(***************************************************************************)
EXTENDS Cores, SequenceTheorems, TLAPS

MultProofs == INSTANCE MultiplierProofs

PairProofs == INSTANCE BridgePairProofs WITH dat_os <- bridge_dat_os

TimProofs == INSTANCE TimerSetupProofs WITH
  ctrl_s <- tim_ctrl_s, dat_os <- tim_dat_os, ack_s <- tim_ack_s, err_s <- tim_err_s,
  age <- write_age

GpProofs == INSTANCE GpioProofs WITH
  ctrl_s <- gp_ctrl_s, dat_is <- gp_dat_is, dat_os <- gp_dat_os, ack_s <- gp_ack_s,
  err_s <- gp_err_s, master <- gp_master, cyc <- gp_cyc, stb <- gp_stb, req <- gp_req

-----------------------------------------------------------------------------
(* Words as sequences of bits.                                             *)

LEMMA WordIsSeq ==
  ASSUME NEW S, NEW n \in Nat, NEW w \in [1 .. n -> S]
  PROVE  w \in Seq(S) /\ Len(w) = n
BY SeqDef

LEMMA HeadIsFirst ==
  ASSUME NEW S, NEW s \in Seq(S), Len(s) > 0
  PROVE  Head(s) = s[1] /\ s # <<>>
<1>1. Len(s) \in Nat /\ 1 \in 1 .. Len(s) /\ Len(s) \in 1 .. Len(s)
  BY LenProperties
<1>2. QED
  BY <1>1, SubSeqFull, HeadTailOfSubSeq, EmptySeq

(* A shift to the left, which brings in b at the end. *)
LEMMA ShiftedWord ==
  ASSUME NEW S, NEW n \in Nat \ {0}, NEW w \in [1 .. n -> S], NEW b \in S
  PROVE  /\ Append(Tail(w), b) \in [1 .. n -> S]
         /\ \A i \in 1 .. n : Append(Tail(w), b)[i] = IF i = n THEN b ELSE w[i + 1]
<1>1. w \in Seq(S) /\ Len(w) = n /\ w # <<>>
  BY WordIsSeq
<1>2. /\ Tail(w) \in Seq(S) /\ Len(Tail(w)) = n - 1
      /\ \A i \in 1 .. n - 1 : Tail(w)[i] = w[i + 1]
  BY <1>1, HeadTailProperties
<1>3. /\ Append(Tail(w), b) \in Seq(S) /\ Len(Append(Tail(w), b)) = n
      /\ \A i \in 1 .. n - 1 : Append(Tail(w), b)[i] = w[i + 1]
      /\ Append(Tail(w), b)[n] = b
  BY <1>2, AppendProperties
<1>4. Append(Tail(w), b) \in [1 .. n -> S]
  BY <1>3, LenProperties, Zenon
<1>5. ASSUME NEW i \in 1 .. n PROVE Append(Tail(w), b)[i] = IF i = n THEN b ELSE w[i + 1]
  <2>1. i = n \/ (i \in 1 .. n - 1 /\ i # n)
    OBVIOUS
  <2>2. QED
    BY <1>3, <2>1, Zenon
<1>6. QED
  BY <1>4, <1>5

-----------------------------------------------------------------------------
(* The multiplier.                                                         *)

LEMMA MultRuns == Spec => MultProofs!Spec
<1>1. Init => MultProofs!Init
  BY DEF Init, Mult!Init, MultProofs!Init, Mult!MODE_DIV, MultProofs!MODE_DIV,
      Mult!Unwritten, Mult!Writes, Mult!Nothing, MultProofs!Unwritten, MultProofs!Writes,
      MultProofs!Nothing
<1>2. Mult!Next => MultProofs!Next
  BY DEF
      Mult!Next, Mult!Step, Mult!Idle, Mult!Issue, Mult!MultAdd, Mult!MultSkip,
      Mult!MultShift, Mult!Divide, Mult!CanSkip, Mult!Fits, Mult!Carry, Mult!Sum,
      Mult!SumWord, Mult!ShiftIntoLower, Mult!WriteLo, Mult!WriteHi, Mult!StartMult,
      Mult!StartDivide, Mult!Magnitude, Mult!Negate, Mult!Msb, Mult!Half, Mult!MODE_MULT,
      Mult!MODE_DIV, Mult!vars, Mult!unitVars, Mult!history, Mult!Observe, Mult!Pause,
      Mult!Writes, Mult!Unwritten, Mult!Nothing, MultProofs!history, MultProofs!Observe,
      MultProofs!Pause, MultProofs!Writes, MultProofs!Unwritten, MultProofs!Nothing,
      MultProofs!Next, MultProofs!Step,
      MultProofs!Idle, MultProofs!Issue, MultProofs!MultAdd, MultProofs!MultSkip,
      MultProofs!MultShift, MultProofs!Divide, MultProofs!CanSkip, MultProofs!Fits,
      MultProofs!Carry, MultProofs!Sum, MultProofs!SumWord, MultProofs!ShiftIntoLower,
      MultProofs!WriteLo, MultProofs!WriteHi, MultProofs!StartMult,
      MultProofs!StartDivide, MultProofs!Magnitude, MultProofs!Negate, MultProofs!Msb,
      MultProofs!Half, MultProofs!MODE_MULT, MultProofs!MODE_DIV, MultProofs!vars,
      MultProofs!unitVars
<1>3. UNCHANGED multVars => UNCHANGED MultProofs!vars
  BY DEF multVars, MultProofs!vars, MultProofs!unitVars, MultProofs!history
<1>4. [Next]_vars => [MultProofs!Next]_MultProofs!vars
  BY <1>2, <1>3 DEF Next, vars
<1>5. QED
  BY <1>1, <1>4, PTL DEF Spec, MultProofs!Spec

LEMMA MultConstants == MultProofs!MultiplierConstants
BY CoresAssumption DEF
      Mult!MultiplierConstants, Mult!PowersOfTwo, Mult!Starts, Mult!Word, Mult!Writes,
      MultProofs!Writes, MultProofs!MultiplierConstants, MultProofs!PowersOfTwo, MultProofs!Starts,
      MultProofs!Word

(* HI and LO hold the product of the operands, of every width, and then    *)
(* what is written to them: mult.vhd, with the four-bit shortcut and       *)
(* without.                                                                *)
THEOREM Products == Spec => []ProductsRight
<1>1. MultProofs!ProductsRight => ProductsRight
  BY DEF ProductsRight, Mult!ProductsRight, MultProofs!ProductsRight,
      Mult!Shows, Mult!Nothing, MultProofs!Shows, MultProofs!Nothing,
      Mult!Done, Mult!Pause, Mult!Overflows, Mult!ReadLo, Mult!ReadHi, Mult!Number,
      Mult!Signed, Mult!Negate, Mult!Msb, Mult!Half, MultProofs!Done, MultProofs!Pause,
      MultProofs!Overflows, MultProofs!ReadLo, MultProofs!ReadHi, MultProofs!Number,
      MultProofs!Signed, MultProofs!Negate, MultProofs!Msb, MultProofs!Half
<1>2. QED
  BY <1>1, MultConstants, MultRuns, MultProofs!Products, PTL

(* LO holds the quotient and HI the remainder of the magnitudes, and then  *)
(* what is written to them; LO loses its sign when HI is written.          *)
THEOREM Quotients == Spec => []QuotientsRight
<1>1. MultProofs!QuotientsRight => QuotientsRight
  BY DEF QuotientsRight, Mult!QuotientsRight, MultProofs!QuotientsRight,
      Mult!Shows, Mult!Nothing, Mult!Unwritten, Mult!Writes, MultProofs!Shows,
      MultProofs!Nothing, MultProofs!Unwritten, MultProofs!Writes,
      Mult!Done, Mult!Pause, Mult!ReadLo, Mult!ReadHi, Mult!Number, Mult!Signed,
      Mult!Negate, Mult!Msb, Mult!Half, Mult!Abs, MultProofs!Done, MultProofs!Pause,
      MultProofs!ReadLo, MultProofs!ReadHi, MultProofs!Number, MultProofs!Signed,
      MultProofs!Negate, MultProofs!Msb, MultProofs!Half, MultProofs!Abs
<1>2. QED
  BY <1>1, MultConstants, MultRuns, MultProofs!Quotients, PTL

-----------------------------------------------------------------------------
(* The Avalon bridges.                                                     *)

LEMMA PairActions ==
  /\ Pair!Tick <=> PairProofs!Tick
  /\ Pair!Reset <=> PairProofs!Reset
BY DEF
      Pair!Tick, Pair!Reset, Pair!Master, Pair!Begin, Pair!Rest, Pair!Strobed, Pair!End,
      Pair!Ends, Pair!FarSlave, Pair!Observe, Pair!MaxTaken, Pair!Requests,
      Pair!Out!Reset, Pair!Out!Clock, Pair!Out!Off, Pair!Out!Answered, Pair!Out!Waiting,
      Pair!Back!Cycle, Pair!Back!Busy, Pair!Back!Done, Pair!Command, Pair!waitrequest_n,
      Pair!err_o, Pair!Ack, Pair!Err, PairProofs!Tick, PairProofs!Reset,
      PairProofs!Master, PairProofs!Begin, PairProofs!Rest, PairProofs!Strobed,
      PairProofs!End, PairProofs!Ends, PairProofs!FarSlave, PairProofs!Observe,
      PairProofs!MaxTaken, PairProofs!Requests, PairProofs!Out!Reset,
      PairProofs!Out!Clock, PairProofs!Out!Off, PairProofs!Out!Answered,
      PairProofs!Out!Waiting, PairProofs!Back!Cycle, PairProofs!Back!Busy,
      PairProofs!Back!Done, PairProofs!Command, PairProofs!waitrequest_n,
      PairProofs!err_o, PairProofs!Ack, PairProofs!Err

LEMMA PairRuns == Spec => PairProofs!Spec
<1>1. Init => PairProofs!Init
  BY DEF Init,
      Pair!Init, Pair!Out!Init, PairProofs!Init, PairProofs!Out!Init
<1>2. Pair!Next => PairProofs!Next
  BY PairActions DEF Pair!Next, PairProofs!Next
<1>3. UNCHANGED pairVars => UNCHANGED PairProofs!vars
  BY DEF pairVars, PairProofs!vars
<1>4. [Next]_vars => [PairProofs!Next]_PairProofs!vars
  BY <1>2, <1>3 DEF Next, vars
<1>5. QED
  BY <1>1, <1>4, PTL DEF Spec, PairProofs!Spec

LEMMA PairConstants == PairProofs!PairConstants
BY CoresAssumption DEF Pair!PairConstants, PairProofs!PairConstants

(* An access out over Avalon and back is one transfer of the slave there,  *)
(* the one asked for, with its answer: wb_to_avalon_bridge.vhd.            *)
THEOREM Once == Spec => TransferredOnce
<1> DEFINE Answered ==
      /\ Len(taken') = 1
      /\ taken'[1].op = req.op /\ taken'[1].dat = req.dat
      /\ taken'[1].answer = IF Pair!err_o THEN "err" ELSE "ack"
      /\ ~Pair!err_o => taken'[1].word = bridge_dat_os
    AnsweredProofs ==
      /\ Len(taken') = 1
      /\ taken'[1].op = req.op /\ taken'[1].dat = req.dat
      /\ taken'[1].answer = IF PairProofs!err_o THEN "err" ELSE "ack"
      /\ ~PairProofs!err_o => taken'[1].word = bridge_dat_os
<1>1. [PairProofs!Tick /\ PairProofs!Ends => AnsweredProofs]_PairProofs!vars
        => [Pair!Tick /\ Pair!Ends => Answered]_Pair!vars
  BY PairActions DEF
      Pair!vars, Pair!Ends, Pair!err_o, Pair!Err, PairProofs!vars, PairProofs!Ends,
      PairProofs!err_o, PairProofs!Err
<1>2. Spec => PairProofs!TransferredOnce
  BY PairConstants, PairRuns, PairProofs!Once
<1>3. QED
  BY <1>1, <1>2, PTL DEF TransferredOnce, Pair!TransferredOnce, PairProofs!TransferredOnce

(* The outgoing bridge keeps its command until waitrequest_n.              *)
THEOREM Held == Spec => CommandHeld
<1>1. [PairProofs!Back!Clock(PairProofs!Ack, PairProofs!Err)
         \/ PairProofs!Reset]_(PairProofs!Back!bridgeVars)
        => [Pair!Back!Clock(Pair!Ack, Pair!Err) \/ Pair!Reset]_(Pair!Back!bridgeVars)
  BY PairActions DEF
      Pair!Back!Clock, Pair!Back!bridgeVars, Pair!Back!Cycle, Pair!Back!Busy,
      Pair!Back!Done, Pair!Command, Pair!Ack, Pair!Err, PairProofs!Back!Clock,
      PairProofs!Back!bridgeVars, PairProofs!Back!Cycle, PairProofs!Back!Busy,
      PairProofs!Back!Done, PairProofs!Command, PairProofs!Ack, PairProofs!Err
<1>2. Spec => PairProofs!CommandHeld
  BY PairConstants, PairRuns, PairProofs!Held
<1>3. QED
  BY <1>1, <1>2, PTL DEF CommandHeld, Pair!CommandHeld, PairProofs!CommandHeld

-----------------------------------------------------------------------------
(* The timer and the software that sets it up.                             *)

LEMMA TimRuns == Spec => TimProofs!Spec
<1>1. Init => TimProofs!Init
  BY DEF Init,
      Tim!Init, Tim!NoWrite, Tim!Tim!Init, Tim!Tim!Core!Init, TimProofs!Init,
      TimProofs!NoWrite, TimProofs!Tim!Init, TimProofs!Tim!Core!Init
<1>2. Tim!Next => TimProofs!Next
  BY DEF
      Tim!Next, Tim!Between, Tim!SetReload, Tim!SetUnit, Tim!ResetTimer, Tim!EnableTimer,
      Tim!Reset, Tim!Write, Tim!Word, Tim!Elapse, Tim!Period, Tim!NoWrite, Tim!Tim!Clock,
      Tim!Tim!Registers, Tim!Tim!Convert, Tim!Tim!Converted, Tim!Tim!ReadRegister,
      Tim!Tim!Stat, Tim!Tim!Overflow, Tim!Tim!Enable, Tim!Tim!Rst, Tim!Tim!En,
      Tim!Tim!Autoreload, Tim!Tim!Unit, Tim!Tim!Readable, Tim!Tim!Writable,
      Tim!Tim!CtrlReg, Tim!Tim!StatReg, Tim!Tim!DataReg, Tim!Tim!ReloadReg, Tim!Tim!Reset,
      Tim!Tim!Core!Clock, Tim!Tim!Core!Reload, Tim!Tim!Core!Held, Tim!Tim!Core!Count,
      Tim!Tim!Core!CountUp, Tim!Tim!Core!CountDown, Tim!Tim!Core!Overflow,
      Tim!Tim!Core!AtEndUp, Tim!Tim!Core!AtEndDown, TimProofs!Next, TimProofs!Between,
      TimProofs!SetReload, TimProofs!SetUnit, TimProofs!ResetTimer, TimProofs!EnableTimer,
      TimProofs!Reset, TimProofs!Write, TimProofs!Word, TimProofs!Elapse,
      TimProofs!Period, TimProofs!NoWrite, TimProofs!Tim!Clock, TimProofs!Tim!Registers,
      TimProofs!Tim!Convert, TimProofs!Tim!Converted, TimProofs!Tim!ReadRegister,
      TimProofs!Tim!Stat, TimProofs!Tim!Overflow, TimProofs!Tim!Enable, TimProofs!Tim!Rst,
      TimProofs!Tim!En, TimProofs!Tim!Autoreload, TimProofs!Tim!Unit,
      TimProofs!Tim!Readable, TimProofs!Tim!Writable, TimProofs!Tim!CtrlReg,
      TimProofs!Tim!StatReg, TimProofs!Tim!DataReg, TimProofs!Tim!ReloadReg,
      TimProofs!Tim!Reset, TimProofs!Tim!Core!Clock, TimProofs!Tim!Core!Reload,
      TimProofs!Tim!Core!Held, TimProofs!Tim!Core!Count, TimProofs!Tim!Core!CountUp,
      TimProofs!Tim!Core!CountDown, TimProofs!Tim!Core!Overflow,
      TimProofs!Tim!Core!AtEndUp, TimProofs!Tim!Core!AtEndDown
<1>3. UNCHANGED timerVars => UNCHANGED TimProofs!vars
  BY DEF timerVars, TimProofs!vars, TimProofs!Tim!timerVars
<1>4. [Next]_vars => [TimProofs!Next]_TimProofs!vars
  BY <1>2, <1>3 DEF Next, vars
<1>5. QED
  BY <1>1, <1>4, PTL DEF Spec, TimProofs!Spec

(* A timer that is set up in counter.vhd's order overflows when its        *)
(* reload, in the unit chosen, is over: timer.vhd.                         *)
THEOREM Expiries == Spec => []ExpiresOnTime
<1>1. TimProofs!SetupConstants
  BY CoresAssumption DEF Tim!SetupConstants, TimProofs!SetupConstants
<1>2. TimProofs!ExpiresOnTime => ExpiresOnTime
  BY DEF ExpiresOnTime, Tim!ExpiresOnTime, TimProofs!ExpiresOnTime,
      Tim!Tim!Overflow, Tim!Tim!Core!Overflow, Tim!Tim!Core!AtEndUp,
      Tim!Tim!Core!AtEndDown, TimProofs!Tim!Overflow, TimProofs!Tim!Core!Overflow,
      TimProofs!Tim!Core!AtEndUp, TimProofs!Tim!Core!AtEndDown
<1>3. QED
  BY <1>1, <1>2, TimRuns, TimProofs!TimerExpiresOnTime, PTL

-----------------------------------------------------------------------------
(* The GPIO.                                                               *)

LEMMA GpRuns == Spec => GpProofs!Spec
<1>1. Init => GpProofs!Init
  BY DEF Init,
      Gp!Init, Gp!Read, Gp!CtrlReg, GpProofs!Init, GpProofs!Read, GpProofs!CtrlReg
<1>2. Gp!Next => GpProofs!Next
  BY DEF
      Gp!Next, Gp!Tick, Gp!Reset, Gp!Registers, Gp!Pins, Gp!ReadRegister, Gp!Stat, Gp!Irq,
      Gp!Rst, Gp!MaskEn, Gp!MaskIn, Gp!Open, Gp!we_i, Gp!Begin, Gp!Rest, Gp!Wait, Gp!End,
      Gp!Answered, Gp!Observe, Gp!Shows, Gp!Requests, Gp!Read, Gp!Writes, Gp!CtrlReg,
      Gp!StatReg, Gp!DataReg, Gp!MaskReg, Gp!Elsewhere, Gp!Readable, Gp!Writable,
      GpProofs!Next, GpProofs!Tick, GpProofs!Reset, GpProofs!Registers, GpProofs!Pins,
      GpProofs!ReadRegister, GpProofs!Stat, GpProofs!Irq, GpProofs!Rst, GpProofs!MaskEn,
      GpProofs!MaskIn, GpProofs!Open, GpProofs!we_i, GpProofs!Begin, GpProofs!Rest,
      GpProofs!Wait, GpProofs!End, GpProofs!Answered, GpProofs!Observe, GpProofs!Shows,
      GpProofs!Requests, GpProofs!Read, GpProofs!Writes, GpProofs!CtrlReg,
      GpProofs!StatReg, GpProofs!DataReg, GpProofs!MaskReg, GpProofs!Elsewhere,
      GpProofs!Readable, GpProofs!Writable
<1>3. UNCHANGED gpioVars => UNCHANGED GpProofs!vars
  BY DEF gpioVars, GpProofs!vars
<1>4. [Next]_vars => [GpProofs!Next]_GpProofs!vars
  BY <1>2, <1>3 DEF Next, vars
<1>5. QED
  BY <1>1, <1>4, PTL DEF Spec, GpProofs!Spec

LEMMA GpConstants == GpProofs!GpioConstants
BY CoresAssumption DEF Gp!GpioConstants, GpProofs!GpioConstants

(* The pins show the word the bridge wrote last, and, after the CPU, the   *)
(* one before its last write: slave_gpio.vhd.                              *)
THEOREM Pins == Spec => []PinsAsWritten
<1>1. GpProofs!PinsAsWritten => PinsAsWritten
  BY DEF PinsAsWritten, Gp!PinsAsWritten, GpProofs!PinsAsWritten, Gp!Rst, GpProofs!Rst
<1>2. QED
  BY <1>1, GpConstants, GpRuns, GpProofs!PinsShowWhatWasWritten, PTL

(* The interrupt of a GPIO is up for the inputs the mask leaves open.      *)
THEOREM Masked == Spec => []InterruptsAsMasked
<1>1. GpProofs!InterruptsAsMasked => InterruptsAsMasked
  BY DEF InterruptsAsMasked, Gp!InterruptsAsMasked, GpProofs!InterruptsAsMasked,
         Gp!Rst, GpProofs!Rst, Gp!Irq, GpProofs!Irq, Gp!MaskEn, GpProofs!MaskEn
<1>2. QED
  BY <1>1, GpConstants, GpRuns, GpProofs!InterruptFollowsMask, PTL
-----------------------------------------------------------------------------
(* The UART and its bus master.                                            *)

LEMMA UartSteps ==
  /\ Init => Uart!Init
  /\ [Next]_vars => Uart!Tick \/ Uart!Reset \/ UNCHANGED uartVars
BY DEF Init, Next, vars, Uart!Next

LEMMA UartNumbers == UartBits \in Nat /\ UartBits > 1 /\ CountValue \in Nat
BY CoresAssumption DEF Uart!LineConstants

Writing == access.we
Busy == Uart!Core!busy_write

UartAccess == [we : BOOLEAN, reg : 0 .. 3, dat : Uart!Char]

(* The types of what the transmitter is fed with; only two tasks write. *)
UartTypes ==
  /\ driver \in [master : {"cpu", "hps"}, task : {"send", "blind", "receive", "poll"}]
  /\ {ctrl_s, dat_tx} \subseteq Uart!Char
  /\ access \in UartAccess
  /\ Writing => access \in Uart!Writes /\ driver.task \in {"send", "blind"}
  /\ {enable_write, ack_s} \subseteq BOOLEAN
  /\ bits_write_reg \in Nat /\ data_avail \in BOOLEAN

LEMMA ZerosAreAChar == Uart!Core!Zeros \in Uart!Char
BY UartNumbers DEF Uart!Char, Uart!Core!Char, Uart!Core!Zeros, Uart!Core!Bit

LEMMA RequestsAreAccesses ==
  ASSUME UartTypes, NEW r \in Uart!Requests \cup {Uart!NoAccess}
  PROVE  r \in UartAccess /\ (r.we => r \in Uart!Writes /\ driver.task \in {"send", "blind"})
<1>1. ASSUME NEW w \in Uart!Writes PROVE w \in UartAccess
  <2>1. PICK reg \in Uart!Slave!Writable, dat \in Uart!Char :
             w = [we |-> TRUE, reg |-> reg, dat |-> dat]
    BY <1>1 DEF Uart!Writes, Uart!Request
  <2>2. reg \in 0 .. 3
    BY DEF Uart!Slave!Writable, Uart!Slave!CtrlReg, Uart!Slave!DataReg
  <2>3. QED
    BY <2>1, <2>2 DEF UartAccess
<1>2. \A reg \in 0 .. 3 : Uart!ReadOf(reg) \in UartAccess /\ ~Uart!ReadOf(reg).we
  BY ZerosAreAChar DEF Uart!ReadOf, Uart!Request, UartAccess
<1>3. CASE r = Uart!NoAccess
  BY <1>3, ZerosAreAChar DEF Uart!NoAccess, UartAccess
<1>4. CASE r \in Uart!Requests
  <2>1. Uart!Slave!DataReg \in 0 .. 3 /\ Uart!Slave!StatReg \in 0 .. 3
    BY DEF Uart!Slave!DataReg, Uart!Slave!StatReg
  <2>2. \/ r \in Uart!Writes /\ driver.task \in {"send", "blind"}
        \/ \E reg \in 0 .. 3 : r = Uart!ReadOf(reg)
    <3>1. driver.task \in {"send", "blind", "receive", "poll"}
      BY DEF UartTypes
    <3>2. CASE driver.task = "receive"
      BY <1>4, <2>1, <3>2 DEF Uart!Requests
    <3>3. CASE driver.task = "poll"
      BY <1>4, <2>1, <3>3 DEF Uart!Requests
    <3>4. CASE driver.task = "send"
      BY <1>4, <2>1, <3>4 DEF Uart!Requests
    <3>5. CASE driver.task = "blind"
      BY <1>4, <3>5 DEF Uart!Requests
    <3>6. QED
      BY <3>1, <3>2, <3>3, <3>4, <3>5
  <2>3. QED
    BY <1>1, <1>2, <2>2
<1>5. QED
  BY <1>3, <1>4

(* Only the bridge's write is still one after an edge that did not end it. *)
LEMMA StrobesAgain ==
  ASSUME UartTypes
  PROVE  /\ Uart!StrobeAgain \in UartAccess
         /\ driver.master = "hps" \/ ~Writing => Uart!StrobeAgain = access
         /\ Uart!StrobeAgain.we => Uart!StrobeAgain = access
<1>1. access \in UartAccess /\ driver.master \in {"cpu", "hps"}
  BY DEF UartTypes
<1>2. /\ [access EXCEPT !.we = FALSE] \in UartAccess /\ ~[access EXCEPT !.we = FALSE].we
      /\ ~access.we => [access EXCEPT !.we = FALSE] = access
  BY <1>1 DEF UartAccess
<1>3. Uart!StrobeAgain = IF driver.master = "cpu" THEN [access EXCEPT !.we = FALSE] ELSE access
  BY DEF Uart!StrobeAgain
<1>4. "cpu" # "hps"
  OBVIOUS
<1>5. QED
  BY <1>1, <1>2, <1>3, <1>4 DEF Writing

LEMMA MasterTakes ==
  ASSUME UartTypes, Uart!Master
  PROVE  /\ driver' = driver
         /\ \/ Uart!stb /\ ~Uart!AccessEnds /\ access' = Uart!StrobeAgain
            \/ Uart!AccessEnds /\ access' = Uart!NoAccess
            \/ ~Uart!stb /\ access' \in Uart!Requests \cup {Uart!NoAccess}
         /\ access' \in UartAccess
         /\ access'.we => access' \in Uart!Writes /\ driver.task \in {"send", "blind"}
<1>1. driver' = driver
  BY DEF Uart!Master
<1>2. Uart!AccessEnds => Uart!stb
  BY DEF Uart!AccessEnds
<1>3. \/ Uart!stb /\ ~Uart!AccessEnds /\ access' = Uart!StrobeAgain
      \/ Uart!AccessEnds /\ access' = Uart!NoAccess
      \/ ~Uart!stb /\ access' \in Uart!Requests \cup {Uart!NoAccess}
  BY <1>2 DEF Uart!Master
<1>4. QED
  BY <1>1, <1>3, RequestsAreAccesses, StrobesAgain DEF UartTypes, Writing

LEMMA UartTypesInit == Init => UartTypes
<1> SUFFICES ASSUME Uart!Init PROVE UartTypes
  BY UartSteps
<1>1. Uart!NoAccess \in UartAccess /\ ~Uart!NoAccess.we
  BY ZerosAreAChar DEF Uart!NoAccess, UartAccess
<1>2. ctrl_s \in Uart!Char /\ dat_tx \in Uart!Char
  BY ZerosAreAChar, UartNumbers DEF Uart!Init, Uart!Slave!Init, Uart!Char, Uart!Core!Char,
     Uart!Core!Bit
<1>3. driver \in [master : {"cpu", "hps"}, task : {"send", "blind", "receive", "poll"}]
  BY CoresAssumption DEF Uart!Init, Uart!LineConstants
<1>4. QED
  BY <1>1, <1>2, <1>3 DEF Uart!Init, Uart!Slave!Init, Uart!Core!Init, UartTypes, Writing

LEMMA UartTypesStep == UartTypes /\ [Next]_vars => UartTypes'
<1> SUFFICES ASSUME UartTypes, [Next]_vars PROVE UartTypes'
  OBVIOUS
<1>1. CASE Uart!Tick
  <2>1. Uart!Master /\ Uart!Registers /\ Uart!UartCore
    BY <1>1 DEF Uart!Tick
  <2>2. Uart!Slave!Registers(Uart!stb, access.we, access.reg, access.dat)
    BY <2>1 DEF Uart!Registers
  <2>3. access.dat \in Uart!Char /\ access.we \in BOOLEAN
    BY DEF UartTypes, UartAccess
  <2>4. ctrl_s' \in Uart!Char /\ dat_tx' \in Uart!Char
    BY <2>2, <2>3 DEF Uart!Slave!Registers, UartTypes
  <2>5. enable_write' \in BOOLEAN /\ ack_s' \in BOOLEAN
    BY <2>2, <2>3 DEF Uart!Slave!Registers, Uart!stb
  <2>6. bits_write_reg' \in Nat
    <3>1. bits_write_reg \in Nat /\ (Busy => bits_write_reg - 1 \in Nat)
      BY DEF UartTypes, Busy, Uart!Core!busy_write
    <3>2. \/ bits_write_reg' \in {0, bits_write_reg, UartBits + 2}
          \/ Busy /\ bits_write_reg' = bits_write_reg - 1
      BY <2>1 DEF Uart!UartCore, Uart!Core!Reset, Uart!Core!Clock, Uart!Core!Write,
         Uart!Core!WriteStart, Uart!Core!WriteIdle, Uart!Core!WriteDelay,
         Uart!Core!WriteShift, Busy
    <3>3. QED
      BY <3>1, <3>2, UartNumbers
  <2>7. data_avail' \in BOOLEAN
    BY <2>1 DEF Uart!UartCore, Uart!Core!Reset, Uart!Core!Clock, Uart!Core!Save
  <2>8. QED
    BY <2>1, <2>4, <2>5, <2>6, <2>7, MasterTakes DEF UartTypes, Writing
<1>2. CASE Uart!Reset
  <2>1. access' = Uart!NoAccess /\ driver' = driver
    BY <1>2 DEF Uart!Reset
  <2>2. access' \in UartAccess /\ ~access'.we
    BY <2>1, ZerosAreAChar DEF Uart!NoAccess, UartAccess
  <2>3. QED
    BY <1>2, <2>1, <2>2, ZerosAreAChar DEF Uart!Reset, Uart!Slave!Reset, Uart!Core!Reset,
       UartTypes, Writing
<1>3. CASE UNCHANGED uartVars
  BY <1>3 DEF uartVars, UartTypes, Writing
<1>4. QED
  BY <1>1, <1>2, <1>3, UartSteps

(* Seen from the bus the UART with all its bits is SystemBus's: what the   *)
(* stall, the registers and the answers do is what SlaveUart says.         *)
THEOREM LooksLikeSlaveUart == Spec => ImplementsSlaveUart
<1> DEFINE UartResets == {c \in Uart!Char : Uart!Resets(c)}
           UartEnables == {c \in Uart!Char : Uart!Enables(c)}
<1>1. UartTypes /\ UartTypes' /\ [Next]_vars
        => [Uart!Slave!Reset \/ Uart!Slave!Clock(Uart!stb, access.we, access.reg, access.dat)]_(Uart!Slave!uartVars)
  <2> SUFFICES ASSUME UartTypes, UartTypes', [Next]_vars
               PROVE  \/ Uart!Slave!Reset
                      \/ Uart!Slave!Clock(Uart!stb, access.we, access.reg, access.dat)
                      \/ UNCHANGED Uart!Slave!uartVars
    OBVIOUS
  <2>1. CASE Uart!Tick
    <3>1. Uart!Slave!Registers(Uart!stb, access.we, access.reg, access.dat) /\ Uart!UartCore
      BY <2>1 DEF Uart!Tick, Uart!Registers
    <3>2. Uart!InReset <=> ctrl_s \in UartResets \/ ctrl_s' \in UartResets
      BY DEF Uart!InReset, UartTypes
    <3>3. Uart!Enables(ctrl_s) <=> ctrl_s \in UartEnables
      BY DEF UartTypes
    <3>4. CASE Uart!InReset
      <4>1. bits_write_reg' = 0
        BY <3>1, <3>4 DEF Uart!UartCore, Uart!Core!Reset
      <4>2. QED
        BY <3>1, <3>2, <3>4, <4>1 DEF Uart!Slave!Clock, Uart!Slave!Transmit, Uart!Slave!TxReset,
           Uart!Core!busy_write
    <3>5. CASE ~Uart!InReset
      <4>1. Uart!Core!Write(enable_write /\ Uart!Enables(ctrl_s), dat_tx)
        BY <3>1, <3>5 DEF Uart!UartCore, Uart!Core!Clock
      <4>2. Uart!Slave!TxStart \/ Uart!Slave!TxIdle \/ Uart!Slave!TxShift
        <5>1. CASE Uart!Core!WriteStart(enable_write /\ Uart!Enables(ctrl_s), dat_tx)
          BY <3>3, <5>1, UartNumbers DEF Uart!Core!WriteStart, Uart!Slave!TxStart,
             Uart!Core!busy_write
        <5>2. CASE Uart!Core!WriteIdle(enable_write /\ Uart!Enables(ctrl_s))
          BY <3>3, <5>2 DEF Uart!Core!WriteIdle, Uart!Slave!TxIdle, Uart!Core!busy_write
        <5>3. CASE Uart!Core!WriteDelay \/ Uart!Core!WriteShift
          BY <5>3 DEF Uart!Core!WriteDelay, Uart!Core!WriteShift, Uart!Slave!TxShift,
             Uart!Core!busy_write
        <5>4. QED
          BY <4>1, <5>1, <5>2, <5>3 DEF Uart!Core!Write
      <4>3. QED
        BY <3>1, <3>2, <3>5, <4>2 DEF Uart!Slave!Clock, Uart!Slave!Transmit
    <3>6. QED
      BY <3>4, <3>5
  <2>2. CASE Uart!Reset
    BY <2>2 DEF Uart!Reset, Uart!Core!Reset, Uart!Core!busy_write, Uart!Slave!Reset
  <2>3. CASE UNCHANGED uartVars
    BY <2>3 DEF uartVars, Uart!Slave!uartVars, Uart!Core!busy_write
  <2>4. QED
    BY <2>1, <2>2, <2>3, UartSteps
<1>2. QED
  BY <1>1, UartTypesInit, UartTypesStep, PTL DEF Spec, ImplementsSlaveUart, Uart!ImplementsSlaveUart
(***************************************************************************)
(* Why no character is lost that is written after a status which said      *)
(* ready.  Nothing was about to start when that status was read, so the    *)
(* write finds an idle transmitter: the CPU's ends at its first edge and   *)
(* never loses its write enable in a stall; the bridge's is performed at   *)
(* every edge of its strobe, and what it is to send is settled from the    *)
(* edge after the first.                                                   *)
(***************************************************************************)
Sending == driver.task = "send"

Pending == IF Uart!Enables(ctrl_s) /\ ~Uart!Resets(ctrl_s) THEN <<dat_tx>> ELSE <<>>

Performed ==
  Writing /\ enable_write =>
    /\ access.reg = Uart!Slave!CtrlReg => ctrl_s = access.dat
    /\ access.reg = Uart!Slave!DataReg => dat_tx = access.dat

OwesOne ==
  owed = IF Writing THEN Uart!Due(access)
         ELSE IF enable_write /\ ~Busy THEN Pending ELSE <<>>

ReadsStartNothing == Uart!stb /\ ~Writing => ~enable_write

HeedsStatus ==
  /\ Writing => ~Busy
  /\ Writing /\ driver.master = "hps" => (ack_s <=> enable_write)
  /\ told[1] = 1 => ~Busy /\ (~Writing => ~enable_write)
  /\ access = Uart!ReadOf(Uart!Slave!StatReg) /\ ack_s /\ dat_os[1] = 1 => ~Busy

OnceInv ==
  UartTypes /\ (Sending => Performed /\ OwesOne /\ ReadsStartNothing /\ HeedsStatus)

LEMMA TransmitterStarts ==
  ASSUME UartTypes, Uart!Tick
  PROVE  /\ Uart!Started <=> ~Busy /\ enable_write /\ Uart!Enables(ctrl_s) /\ ~Uart!InReset
         /\ Uart!Started => Busy' /\ data_write_reg' = <<0>> \o dat_tx
         /\ ~Busy /\ ~Uart!Started => ~Busy'
<1> DEFINE go == enable_write /\ Uart!Enables(ctrl_s)
<1>1. Uart!UartCore
  BY DEF Uart!Tick
<1>2. CASE Uart!InReset
  <2>1. bits_write_reg' = 0
    BY <1>1, <1>2 DEF Uart!UartCore, Uart!Core!Reset
  <2>2. QED
    BY <1>2, <2>1 DEF Uart!Started, Busy, Uart!Core!busy_write
<1>3. CASE ~Uart!InReset
  <2>1. Uart!Core!Write(go, dat_tx)
    BY <1>1, <1>3 DEF Uart!UartCore, Uart!Core!Clock
  <2>2. CASE Uart!Core!WriteStart(go, dat_tx)
    BY <1>3, <2>2, UartNumbers DEF Uart!Core!WriteStart, Uart!Started, Busy, Uart!Core!busy_write
  <2>3. CASE Uart!Core!WriteIdle(go)
    BY <1>3, <2>3 DEF Uart!Core!WriteIdle, Uart!Started, Busy, Uart!Core!busy_write
  <2>4. CASE Uart!Core!WriteDelay \/ Uart!Core!WriteShift
    BY <1>3, <2>4 DEF Uart!Core!WriteDelay, Uart!Core!WriteShift, Uart!Started, Busy,
       Uart!Core!busy_write
  <2>5. QED
    BY <2>1, <2>2, <2>3, <2>4 DEF Uart!Core!Write
<1>4. QED
  BY <1>2, <1>3

LEMMA StatusSaysReady ==
  ASSUME NEW b \in BOOLEAN, NEW a \in BOOLEAN
  PROVE  Uart!StatusWord[b, a][1] = 1 => ~b
<1>1. \A x, y \in BOOLEAN : Uart!StatusWord[x, y] =
        [i \in 1 .. UartBits |-> IF (i = 1 /\ ~x) \/ (i = 2 /\ y) THEN 1 ELSE 0]
  BY DEF Uart!StatusWord
<1>2. Uart!StatusWord[TRUE, a] =
        [i \in 1 .. UartBits |-> IF (i = 1 /\ ~TRUE) \/ (i = 2 /\ a) THEN 1 ELSE 0]
  BY <1>1, Zenon
<1>3. Uart!StatusWord[TRUE, a][1] = 0
  <2>1. 1 \in 1 .. UartBits /\ 1 # 2
    BY UartNumbers
  <2>2. QED
    BY <1>2, <2>1, Zenon
<1>4. b => b = TRUE
  OBVIOUS
<1>5. 0 # 1
  OBVIOUS
<1>6. QED
  BY <1>3, <1>4, <1>5, Zenon

(* What an edge does to the registers the transmitter is fed with. *)
LEMMA RegistersStep ==
  ASSUME UartTypes, Uart!Tick
  PROVE  /\ enable_write' <=> Uart!stb /\ Writing
         /\ ctrl_s' = IF Uart!stb /\ Writing /\ access.reg = Uart!Slave!CtrlReg
                      THEN access.dat ELSE ctrl_s
         /\ dat_tx' = IF Uart!stb /\ Writing /\ access.reg = Uart!Slave!DataReg
                      THEN access.dat ELSE dat_tx
         /\ ~Uart!stb => ~ack_s'
         /\ Uart!stb /\ Writing => ack_s'
         /\ access = Uart!ReadOf(Uart!Slave!StatReg) /\ dat_os'[1] = 1 => ~Busy
<1>1. Uart!Slave!Registers(Uart!stb, access.we, access.reg, access.dat)
  BY DEF Uart!Tick, Uart!Registers
<1>2. Writing => access.reg \in Uart!Slave!Writable
  <2> SUFFICES ASSUME Writing PROVE access.reg \in Uart!Slave!Writable
    OBVIOUS
  <2>1. PICK reg \in Uart!Slave!Writable, dat \in Uart!Char :
             access = [we |-> TRUE, reg |-> reg, dat |-> dat]
    BY DEF UartTypes, Uart!Writes, Uart!Request
  <2>2. QED
    BY <2>1
<1>3. Uart!stb /\ Writing => ack_s'
  BY <1>1, <1>2 DEF Uart!Slave!Registers, Writing
<1>4. ASSUME access = Uart!ReadOf(Uart!Slave!StatReg), dat_os'[1] = 1 PROVE ~Busy
  <2>1. /\ access.reg = Uart!Slave!StatReg /\ ~access.we
        /\ Uart!Slave!StatReg \in Uart!Slave!Readable /\ Uart!stb
    BY <1>4 DEF Uart!ReadOf, Uart!Request, Uart!NoAccess, Uart!stb, Uart!Slave!StatReg,
       Uart!Slave!Readable
  <2>2. dat_os' = Uart!Slave!ReadRegister(Uart!Slave!StatReg)
    BY <1>1, <2>1 DEF Uart!Slave!Registers
  <2>3. dat_os' = Uart!StatusWord[Uart!Core!busy_write, data_avail]
    <3>1. 1 # 0 /\ 1 # 2
      OBVIOUS
    <3>2. QED
      BY <2>2, <3>1, Zenon DEF Uart!Slave!ReadRegister, Uart!Slave!CtrlReg, Uart!Slave!StatReg,
         Uart!Slave!DataReg
  <2>4. Uart!StatusWord[Uart!Core!busy_write, data_avail][1] = 1
    BY <1>4, <2>3, Zenon
  <2>5. Uart!Core!busy_write \in BOOLEAN /\ data_avail \in BOOLEAN
    BY DEF UartTypes, Uart!Core!busy_write
  <2>6. QED
    BY <2>4, <2>5, StatusSaysReady, Zenon DEF Busy
<1>5. QED
  BY <1>1, <1>3, <1>4 DEF Uart!Slave!Registers, Writing
(* The CPU's access ends at an edge that finds the transmitter idle. *)
LEMMA CpuEnds ==
  ASSUME UartTypes, driver.master = "cpu"
  PROVE  Uart!AccessEnds <=> Uart!stb /\ ~Busy
BY DEF Uart!AccessEnds, Uart!Slave!Stall, Busy

(* Where the master stands after an edge. *)
LEMMA WritingStep ==
  ASSUME OnceInv, Uart!Tick, Sending
  PROVE  /\ Writing => Uart!stb
         /\ \/ Uart!stb /\ ~Uart!AccessEnds /\ access' = access
            \/ Uart!AccessEnds /\ access' = Uart!NoAccess /\ ~Writing'
            \/ ~Uart!stb /\ ~Writing /\ access' = Uart!NoAccess /\ ~Writing'
            \/ ~Uart!stb /\ ~Writing /\ Uart!Begins /\ access' \in Uart!Requests
<1>1. Uart!Master /\ UartTypes /\ HeedsStatus
  BY DEF Uart!Tick, OnceInv
<1>2. ~Uart!NoAccess.we
  BY DEF Uart!NoAccess
<1>3. Writing => Uart!stb
  BY <1>2 DEF Writing, Uart!stb
<1>4. access' = Uart!NoAccess => ~Writing'
  BY <1>2 DEF Writing
<1>5. Uart!stb /\ ~Uart!AccessEnds => driver.master = "hps" \/ ~Writing
  <2>1. driver.master \in {"cpu", "hps"} /\ (Writing => ~Busy)
    BY <1>1 DEF UartTypes, HeedsStatus
  <2>2. QED
    BY <1>1, <2>1, CpuEnds
<1>6. QED
  BY <1>1, <1>3, <1>4, <1>5, MasterTakes, StrobesAgain DEF Uart!Begins

LEMMA PerformedStep == OnceInv /\ Uart!Tick /\ Sending => Performed'
<1> SUFFICES ASSUME OnceInv, Uart!Tick, Sending, Writing', enable_write'
             PROVE  /\ access'.reg = Uart!Slave!CtrlReg => ctrl_s' = access'.dat
                    /\ access'.reg = Uart!Slave!DataReg => dat_tx' = access'.dat
  BY DEF Performed
<1>1. UartTypes
  BY DEF OnceInv
<1>2. Uart!stb /\ Writing
  BY <1>1, RegistersStep
<1>3. access' = access
  BY <1>2, WritingStep
<1>4. QED
  BY <1>1, <1>2, <1>3, RegistersStep

LEMMA ReadsStartNothingStep == OnceInv /\ Uart!Tick /\ Sending => ReadsStartNothing'
<1> SUFFICES ASSUME OnceInv, Uart!Tick, Sending, Uart!stb', ~Writing' PROVE ~enable_write'
  BY DEF ReadsStartNothing
<1>1. UartTypes
  BY DEF OnceInv
<1>2. access' # Uart!NoAccess
  BY DEF Uart!stb
<1>3. access' = access \/ ~Uart!stb
  BY <1>2, WritingStep
<1>4. QED
  BY <1>1, <1>3, RegistersStep DEF Writing

(* A write finds an idle transmitter; one that goes on does not start it. *)
LEMMA WriteMeetsIdle ==
  ASSUME OnceInv, Uart!Tick, Sending, Writing
  PROVE  ~Busy /\ (~Uart!AccessEnds => ~Uart!Started)
<1>1. UartTypes /\ HeedsStatus /\ Uart!stb /\ ~Busy
  BY WritingStep DEF OnceInv, HeedsStatus
<1>2. driver.master \in {"cpu", "hps"}
  BY <1>1 DEF UartTypes
<1>3. CASE driver.master = "cpu"
  BY <1>1, <1>3, CpuEnds
<1>4. CASE driver.master = "hps"
  <2>1. Uart!AccessEnds <=> ack_s
    BY <1>1, <1>4 DEF Uart!AccessEnds
  <2>2. ack_s <=> enable_write
    BY <1>1, <1>4 DEF HeedsStatus
  <2>3. QED
    BY <1>1, <2>1, <2>2, TransmitterStarts
<1>5. QED
  BY <1>1, <1>2, <1>3, <1>4

(* What a write is to send stays the same while it is performed. *)
LEMMA DueStays ==
  ASSUME UartTypes, Uart!Tick, Writing
  PROVE  Pending' = Uart!Due(access) /\ (access' = access => Uart!Due(access)' = Uart!Due(access))
<1>1. Uart!stb
  BY DEF Writing, Uart!stb, Uart!NoAccess
<1>2. access.reg \in {Uart!Slave!CtrlReg, Uart!Slave!DataReg}
        /\ Uart!Slave!CtrlReg # Uart!Slave!DataReg
  <2>1. PICK reg \in Uart!Slave!Writable, dat \in Uart!Char :
             access = [we |-> TRUE, reg |-> reg, dat |-> dat]
    BY DEF UartTypes, Uart!Writes, Uart!Request
  <2>2. QED
    BY <2>1 DEF Uart!Slave!Writable, Uart!Slave!CtrlReg, Uart!Slave!DataReg
<1>3. CASE access.reg = Uart!Slave!CtrlReg
  <2>1. ctrl_s' = access.dat /\ dat_tx' = dat_tx
    BY <1>1, <1>2, <1>3, RegistersStep
  <2>2. QED
    BY <1>2, <1>3, <2>1, Zenon DEF Uart!Due, Pending, Uart!Enables, Uart!Resets
<1>4. CASE access.reg = Uart!Slave!DataReg
  <2>1. ctrl_s' = ctrl_s /\ dat_tx' = access.dat
    BY <1>1, <1>2, <1>4, RegistersStep
  <2>2. QED
    BY <1>2, <1>4, <2>1, Zenon DEF Uart!Due, Pending, Uart!Enables, Uart!Resets
<1>5. QED
  BY <1>2, <1>3, <1>4

(* Without a write in progress what is owed starts at the next edge. *)
LEMMA PendingStarts ==
  ASSUME OnceInv, Uart!Tick, Sending, ~Writing
  PROVE  owed = <<>> \/ Uart!Started
<1>1. UartTypes /\ OwesOne
  BY DEF OnceInv
<1>2. ctrl_s' = ctrl_s
  BY <1>1, RegistersStep
<1>3. Uart!InReset <=> Uart!Resets(ctrl_s)
  BY <1>2 DEF Uart!InReset, Uart!Resets
<1>4. QED
  BY <1>1, <1>3, TransmitterStarts DEF OwesOne, Pending

LEMMA OwesOneStep == OnceInv /\ Uart!Tick /\ Sending => OwesOne'
<1> SUFFICES ASSUME OnceInv, Uart!Tick, Sending PROVE OwesOne'
  OBVIOUS
<1>1. UartTypes /\ OwesOne /\ ReadsStartNothing /\ Uart!Observe
  BY DEF OnceInv, Uart!Tick
<1>2. owed' = IF Uart!Begins /\ access'.we THEN Uart!Due(access')
              ELSE IF Uart!Started THEN <<>> ELSE owed
  BY <1>1 DEF Uart!Observe
<1>3. enable_write' <=> Uart!stb /\ Writing
  BY <1>1, RegistersStep
<1>4. CASE ~Writing
  <2>1. owed = <<>> \/ Uart!Started
    BY <1>4, PendingStarts
  <2>2. ~enable_write'
    BY <1>3, <1>4
  <2>3. CASE Uart!Begins /\ access'.we
    <3>1. ctrl_s' = ctrl_s /\ dat_tx' = dat_tx
      BY <1>1, <1>4, RegistersStep
    <3>2. Uart!Due(access)' = Uart!Due(access')
      BY <3>1, Zenon DEF Uart!Due, Uart!Enables, Uart!Resets
    <3>3. QED
      BY <1>2, <2>3, <3>2 DEF OwesOne, Writing
  <2>4. CASE ~(Uart!Begins /\ access'.we)
    <3>1. owed' = <<>>
      BY <1>2, <2>1, <2>4
    <3>2. ~Writing'
      BY <1>1, <1>4, <2>4, WritingStep DEF Writing
    <3>3. QED
      BY <2>2, <3>1, <3>2 DEF OwesOne
  <2>5. QED
    BY <2>3, <2>4
<1>5. CASE Writing
  <2>1. Uart!stb /\ owed = Uart!Due(access)
    BY <1>1, <1>5, WritingStep DEF OwesOne
  <2>2. owed' = IF Uart!Started THEN <<>> ELSE owed
    BY <1>2, <2>1 DEF Uart!Begins
  <2>3. CASE ~Uart!AccessEnds
    <3>1. access' = access
      BY <1>1, <2>1, <2>3, WritingStep
    <3>2. owed' = Uart!Due(access)'
      BY <1>1, <1>5, <2>1, <2>2, <2>3, <3>1, DueStays, WriteMeetsIdle
    <3>3. QED
      BY <1>5, <3>1, <3>2 DEF OwesOne, Writing
  <2>4. CASE Uart!AccessEnds
    <3>1. ~Writing' /\ enable_write' /\ ~Busy
      BY <1>1, <1>3, <1>5, <2>1, <2>4, WritingStep, WriteMeetsIdle
    <3>2. owed' = IF ~Busy' THEN Pending' ELSE <<>>
      BY <1>1, <1>5, <2>1, <2>2, <3>1, DueStays, TransmitterStarts
    <3>3. QED
      BY <3>1, <3>2 DEF OwesOne
  <2>5. QED
    BY <2>3, <2>4
<1>6. QED
  BY <1>4, <1>5
(* An edge at which nothing is about to start leaves an idle transmitter   *)
(* idle.                                                                   *)
LEMMA StaysIdle ==
  ASSUME OnceInv, Uart!Tick, ~Busy, ~enable_write
  PROVE  ~Busy'
BY TransmitterStarts DEF OnceInv

LEMMA HeedsStatusStep == OnceInv /\ Uart!Tick /\ Sending => HeedsStatus'
<1> SUFFICES ASSUME OnceInv, Uart!Tick, Sending PROVE HeedsStatus'
  OBVIOUS
<1> DEFINE AsksStatus == access = Uart!ReadOf(Uart!Slave!StatReg)
<1>1. UartTypes /\ HeedsStatus /\ ReadsStartNothing /\ driver' = driver
  BY MasterTakes DEF OnceInv, Uart!Tick
<1>2. /\ Writing => ~Busy
      /\ Writing /\ driver.master = "hps" => (ack_s <=> enable_write)
      /\ told[1] = 1 => ~Busy /\ (~Writing => ~enable_write)
      /\ AsksStatus /\ ack_s /\ dat_os[1] = 1 => ~Busy
  BY <1>1 DEF HeedsStatus
<1>3. /\ driver.master = "hps" => (Uart!AccessEnds <=> Uart!stb /\ ack_s)
      /\ driver.master # "hps" => (Uart!AccessEnds <=> Uart!stb /\ ~Busy)
  <2>1. driver.master \in {"cpu", "hps"}
    BY <1>1 DEF UartTypes
  <2>2. "cpu" # "hps"
    OBVIOUS
  <2>3. driver.master = "hps" => (Uart!AccessEnds <=> Uart!stb /\ ack_s)
    BY <2>2 DEF Uart!AccessEnds
  <2>4. QED
    BY <1>1, <2>1, <2>3, CpuEnds
<1>4. ~Writing /\ Uart!stb => ~enable_write
  BY <1>1 DEF ReadsStartNothing
<1>5. AsksStatus => Uart!stb /\ ~Writing
  BY DEF Uart!ReadOf, Uart!Request, Uart!NoAccess, Uart!stb, Uart!Slave!StatReg, Writing
<1>6. Writing' => ~Busy' /\ (driver.master = "hps" => (ack_s' <=> enable_write'))
  <2> SUFFICES ASSUME Writing'
               PROVE  ~Busy' /\ (driver.master = "hps" => (ack_s' <=> enable_write'))
    OBVIOUS
  <2>1. CASE Uart!stb /\ ~Uart!AccessEnds /\ access' = access
    <3>1. Writing
      BY <2>1 DEF Writing
    <3>2. driver.master = "hps" /\ ~Busy /\ ~enable_write
      BY <1>2, <1>3, <2>1, <3>1
    <3>3. QED
      BY <1>1, <2>1, <3>1, <3>2, RegistersStep, StaysIdle
  <2>2. CASE ~Uart!stb /\ ~Writing /\ Uart!Begins /\ access' \in Uart!Requests
    <3>1. told[1] = 1
      <4>1. access' \in {Uart!ReadOf(Uart!Slave!StatReg)} \cup IF told[1] = 1 THEN Uart!Writes ELSE {}
        BY <2>2 DEF Uart!Requests, Sending
      <4>2. ~Uart!ReadOf(Uart!Slave!StatReg).we
        BY DEF Uart!ReadOf, Uart!Request
      <4>3. QED
        BY <4>1, <4>2 DEF Writing
    <3>2. ~Busy /\ ~enable_write
      BY <1>2, <2>2, <3>1
    <3>3. QED
      BY <1>1, <2>2, <3>2, RegistersStep, StaysIdle
  <2>3. QED
    BY <2>1, <2>2, WritingStep
<1>7. told'[1] = 1 => ~Busy' /\ (~Writing' => ~enable_write')
  <2> SUFFICES ASSUME told'[1] = 1
               PROVE  ~Busy' /\ (~Writing' => ~enable_write')
    OBVIOUS
  <2>1. told' = CASE ~Uart!AccessEnds -> told
                  [] Uart!AccessEnds /\ AsksStatus -> Uart!Returned
                  [] OTHER -> Uart!Core!Zeros
    <3>1. Sending => driver.task # "blind"
      BY DEF Sending
    <3>2. QED
      BY <3>1 DEF Uart!Tick, Uart!Master, Uart!Learn
  <2>2. Uart!Core!Zeros[1] = 0
    BY UartNumbers DEF Uart!Core!Zeros
  <2>3. CASE ~Uart!AccessEnds
    <3>1. told[1] = 1
      BY <2>1, <2>3
    <3>2. ~Busy /\ ~enable_write
      BY <1>2, <1>3, <1>4, <2>3, <3>1, WritingStep
    <3>3. Writing => Writing'
      BY <2>3, WritingStep DEF Writing
    <3>4. QED
      BY <1>1, <3>2, <3>3, RegistersStep, StaysIdle
  <2>4. CASE Uart!AccessEnds /\ AsksStatus
    <3>1. IF ack_s THEN dat_os[1] = 1 ELSE dat_os'[1] = 1
      BY <2>1, <2>4 DEF Uart!Returned
    <3>2. ~Busy /\ ~enable_write /\ ~Writing
      BY <1>1, <1>2, <1>4, <1>5, <2>4, <3>1, RegistersStep
    <3>3. QED
      BY <1>1, <3>2, RegistersStep, StaysIdle
  <2>5. QED
    BY <2>1, <2>2, <2>3, <2>4
<1>8. (AsksStatus)' /\ ack_s' /\ dat_os'[1] = 1 => ~Busy'
  <2> SUFFICES ASSUME (AsksStatus)', ack_s', dat_os'[1] = 1 PROVE ~Busy'
    OBVIOUS
  <2>1. access' # Uart!NoAccess
    BY DEF Uart!ReadOf, Uart!Request, Uart!NoAccess, Uart!Slave!StatReg
  <2>2. Uart!stb
    BY <1>1, RegistersStep
  <2>3. AsksStatus
    BY <2>1, <2>2, WritingStep DEF Uart!ReadOf, Uart!Request, Uart!Slave!StatReg
  <2>4. ~Busy /\ ~enable_write
    BY <1>1, <1>4, <1>5, <2>3, RegistersStep
  <2>5. QED
    BY <2>4, StaysIdle
<1>9. QED
  BY <1>1, <1>6, <1>7, <1>8 DEF HeedsStatus

LEMMA OnceInit == Init => OnceInv
<1> SUFFICES ASSUME Uart!Init, UartTypes PROVE OnceInv
  BY UartSteps, UartTypesInit
<1>1. access = Uart!NoAccess /\ ~enable_write /\ owed = <<>> /\ told = Uart!Core!Zeros /\ ~ack_s
  BY DEF Uart!Init, Uart!Slave!Init
<1>2. ~Writing /\ ~Uart!stb
  BY <1>1 DEF Writing, Uart!NoAccess, Uart!stb
<1>3. told[1] = 0
  BY <1>1, UartNumbers DEF Uart!Core!Zeros
<1>4. QED
  BY <1>1, <1>2, <1>3 DEF OnceInv, Performed, OwesOne, ReadsStartNothing, HeedsStatus

LEMMA OnceReset == UartTypes' /\ Uart!Reset => OnceInv'
<1> SUFFICES ASSUME Uart!Reset, UartTypes' PROVE OnceInv'
  OBVIOUS
<1>1. /\ access' = Uart!NoAccess /\ ~enable_write' /\ owed' = <<>> /\ told' = Uart!Core!Zeros
      /\ ~ack_s'
  BY DEF Uart!Reset, Uart!Slave!Reset
<1>2. ~Writing' /\ ~Uart!stb'
  BY <1>1 DEF Writing, Uart!NoAccess, Uart!stb
<1>3. told'[1] = 0
  BY <1>1, UartNumbers DEF Uart!Core!Zeros
<1>4. QED
  BY <1>1, <1>2, <1>3 DEF OnceInv, Performed, OwesOne, ReadsStartNothing, HeedsStatus

LEMMA OnceStutters == OnceInv /\ UNCHANGED uartVars => OnceInv'
<1> SUFFICES ASSUME OnceInv, UNCHANGED uartVars PROVE OnceInv'
  OBVIOUS
<1>1. /\ access' = access /\ enable_write' = enable_write /\ owed' = owed /\ told' = told
      /\ ack_s' = ack_s /\ dat_os' = dat_os /\ ctrl_s' = ctrl_s /\ dat_tx' = dat_tx
      /\ driver' = driver /\ bits_write_reg' = bits_write_reg /\ data_avail' = data_avail
  BY DEF uartVars
<1>2. Uart!Due(access)' = Uart!Due(access) /\ Pending' = Pending
  BY <1>1, Zenon DEF Uart!Due, Pending, Uart!Enables, Uart!Resets
<1>3. (Busy <=> Busy') /\ (Writing <=> Writing') /\ (Uart!stb <=> Uart!stb')
  BY <1>1 DEF Busy, Uart!Core!busy_write, Writing, Uart!stb
<1>4. UartTypes'
  BY <1>1 DEF OnceInv, UartTypes, Writing
<1>5. QED
  BY <1>1, <1>2, <1>3, <1>4 DEF OnceInv, Sending, Performed, OwesOne, ReadsStartNothing, HeedsStatus

LEMMA OnceStep == OnceInv /\ [Next]_vars => OnceInv'
<1> SUFFICES ASSUME OnceInv, [Next]_vars PROVE OnceInv'
  OBVIOUS
<1>1. UartTypes'
  BY UartTypesStep DEF OnceInv
<1>2. CASE Uart!Tick
  <2>1. Sending' => Sending
    BY <1>2, MasterTakes DEF OnceInv, Uart!Tick, Sending
  <2>2. QED
    BY <1>1, <1>2, <2>1, PerformedStep, OwesOneStep, ReadsStartNothingStep, HeedsStatusStep
       DEF OnceInv
<1>3. CASE Uart!Reset
  BY <1>1, <1>3, OnceReset
<1>4. CASE UNCHANGED uartVars
  BY <1>4, OnceStutters
<1>5. QED
  BY <1>2, <1>3, <1>4, UartSteps

LEMMA CharAfterStartBit ==
  ASSUME NEW c \in Uart!Char
  PROVE  SubSeq(<<0>> \o c, 2, UartBits + 1) = c
<1> DEFINE B == Uart!Core!Bit
<1>1. c \in Seq(B) /\ Len(c) = UartBits /\ <<0>> \in Seq(B) /\ Len(<<0>>) = 1
  BY UartNumbers, WordIsSeq DEF Uart!Char, Uart!Core!Char, Uart!Core!Bit
<1>2. 2 \in 2 .. UartBits + 1 /\ UartBits + 1 \in 2 .. UartBits + 1
  BY UartNumbers
<1>3. SubSeq(<<0>> \o c, 2, UartBits + 1) = SubSeq(c, 1, UartBits)
  BY <1>1, <1>2, UartNumbers, SubSeqOfConcat2
<1>4. QED
  BY <1>1, <1>3, SubSeqFull

(* A driver that writes only after a status which said ready: each write   *)
(* of a character, or of a control word that leaves the UART enabled,      *)
(* starts one transmission, of the right character, before the next write, *)
(* from the CPU's strobe of one edge as from the bridge's of three:        *)
(* slave_uart.vhd.                                                         *)
THEOREM SentOnce == Spec => OncePerWrite
<1>1. OnceInv /\ [Next]_vars
        => [driver.task = "send" =>
              /\ Uart!Started => owed = <<SubSeq(data_write_reg', 2, UartBits + 1)>>
              /\ Uart!Begins /\ access'.we => owed = <<>> \/ Uart!Started]_Uart!vars
  <2> SUFFICES ASSUME OnceInv, [Next]_vars, Sending
               PROVE  \/ /\ Uart!Started => owed = <<SubSeq(data_write_reg', 2, UartBits + 1)>>
                         /\ Uart!Begins /\ access'.we => owed = <<>> \/ Uart!Started
                      \/ UNCHANGED Uart!vars
    BY DEF Sending
  <2>1. CASE Uart!Tick
    <3>1. UartTypes /\ Performed /\ OwesOne
      BY DEF OnceInv
    <3>2. ASSUME Uart!Started PROVE owed = <<dat_tx>>
      <4>1. /\ ~Busy /\ enable_write /\ Uart!Enables(ctrl_s) /\ ~Uart!Resets(ctrl_s)
        BY <2>1, <3>1, <3>2, TransmitterStarts DEF Uart!InReset
      <4>2. Pending = <<dat_tx>>
        BY <4>1 DEF Pending
      <4>3. Writing => Uart!Due(access) = Pending
        <5> SUFFICES ASSUME Writing PROVE Uart!Due(access) = Pending
          OBVIOUS
        <5>1. Uart!stb /\ ctrl_s' = ctrl_s /\ dat_tx' = dat_tx
          BY <2>1, <3>1, <4>1, RegistersStep, WritingStep DEF Performed
        <5>2. Pending' = Pending
          BY <5>1, Zenon DEF Pending, Uart!Enables, Uart!Resets
        <5>3. QED
          BY <2>1, <3>1, <5>2, DueStays
      <4>4. QED
        BY <3>1, <4>1, <4>2, <4>3 DEF OwesOne
    <3>3. ASSUME Uart!Started PROVE SubSeq(data_write_reg', 2, UartBits + 1) = dat_tx
      <4>1. data_write_reg' = <<0>> \o dat_tx /\ dat_tx \in Uart!Char
        BY <2>1, <3>1, <3>3, TransmitterStarts DEF UartTypes
      <4>2. QED
        BY <4>1, CharAfterStartBit
    <3>4. ASSUME Uart!Begins PROVE owed = <<>> \/ Uart!Started
      BY <2>1, <3>1, <3>4, PendingStarts, WritingStep DEF Uart!Begins
    <3>5. QED
      BY <3>2, <3>3, <3>4
  <2>2. CASE Uart!Reset
    BY <2>2 DEF Uart!Reset, Uart!Core!Reset, Uart!Started, Uart!Begins
  <2>3. CASE UNCHANGED uartVars
    BY <2>3 DEF uartVars, Uart!vars, Uart!Core!coreVars, Uart!lineVars, Uart!driverVars,
       Uart!history
  <2>4. QED
    BY <2>1, <2>2, <2>3, UartSteps
<1>2. QED
  BY <1>1, OnceInit, OnceStep, PTL DEF Spec, OncePerWrite, Uart!OncePerWrite
(***************************************************************************)
(* The transmitter's shift register is the frame on the line: behind the   *)
(* bits still to go out it is full of ones, the first of them the stop     *)
(* bit.                                                                    *)
(***************************************************************************)
Bit == Uart!Core!Bit

ShiftsFrames ==
  /\ data_write_reg \in [1 .. UartBits + 1 -> Bit]
  /\ bits_write_reg \in 0 .. UartBits + 2 /\ delay_write_reg \in 0 .. CountValue
  /\ IF bits_write_reg = 0 THEN data_write_reg[1] = 1
     ELSE \A i \in bits_write_reg .. UartBits + 1 : data_write_reg[i] = 1

(* What SerialFrame calls rest. *)
ToGo(reg, bits) == SubSeq(reg \o <<1>>, 1, bits)

LEMMA ToGoIs ==
  ASSUME NEW reg \in [1 .. UartBits + 1 -> Bit], NEW bits \in 0 .. UartBits + 2
  PROVE  /\ ToGo(reg, bits) \in Seq(Bit) /\ Len(ToGo(reg, bits)) = bits
         /\ \A i \in 1 .. bits : ToGo(reg, bits)[i] = IF i <= UartBits + 1 THEN reg[i] ELSE 1
<1>1. UartBits + 1 \in Nat /\ <<1>> \in Seq(Bit) /\ Len(<<1>>) = 1 /\ <<1>>[1] = 1
  BY UartNumbers DEF Bit, Uart!Core!Bit
<1>2. reg \in Seq(Bit) /\ Len(reg) = UartBits + 1
  BY <1>1, WordIsSeq
<1>3. /\ reg \o <<1>> \in Seq(Bit) /\ Len(reg \o <<1>>) = UartBits + 2
      /\ \A i \in 1 .. UartBits + 2 :
           (reg \o <<1>>)[i] = IF i <= UartBits + 1 THEN reg[i] ELSE <<1>>[i - (UartBits + 1)]
  BY <1>1, <1>2, ConcatProperties, UartNumbers
<1>4. \A i \in 1 .. bits : i \in 1 .. UartBits + 2 /\ (reg \o <<1>>)[i] \in Bit
  BY <1>3, ElementOfSeq, UartNumbers
<1>5. /\ ToGo(reg, bits) \in Seq(Bit) /\ Len(ToGo(reg, bits)) = bits
      /\ \A i \in 1 .. bits : ToGo(reg, bits)[i] = (reg \o <<1>>)[i]
  <2>1. bits \in Int /\ 1 \in Int /\ bits - 1 + 1 = bits
        /\ (IF 1 <= bits THEN bits - 1 + 1 ELSE 0) = bits
    OBVIOUS
  <2>2. /\ SubSeq(reg \o <<1>>, 1, bits) \in Seq(Bit) /\ Len(SubSeq(reg \o <<1>>, 1, bits)) = bits
        /\ \A i \in 1 .. bits : SubSeq(reg \o <<1>>, 1, bits)[i] = (reg \o <<1>>)[1 + i - 1]
    <3> DEFINE all == reg \o <<1>>
    <3> HIDE DEF all
    <3>1. \A i \in 1 .. bits : all[i] \in Bit
      BY <1>4 DEF all
    <3>2. /\ SubSeq(all, 1, bits) \in Seq(Bit)
          /\ Len(SubSeq(all, 1, bits)) = IF 1 <= bits THEN bits - 1 + 1 ELSE 0
          /\ \A i \in 1 .. bits - 1 + 1 : SubSeq(all, 1, bits)[i] = all[1 + i - 1]
      BY <2>1, <3>1, SubSeqProperties
    <3>3. QED
      BY <2>1, <3>2, Zenon DEF all
  <2>3. \A i \in 1 .. bits : 1 + i - 1 = i
    OBVIOUS
  <2>4. QED
    BY <2>2, <2>3 DEF ToGo
<1>6. ASSUME NEW i \in 1 .. bits
      PROVE  ToGo(reg, bits)[i] = IF i <= UartBits + 1 THEN reg[i] ELSE 1
  <2>1. ToGo(reg, bits)[i] = IF i <= UartBits + 1 THEN reg[i] ELSE <<1>>[i - (UartBits + 1)]
    BY <1>3, <1>4, <1>5
  <2>2. i <= UartBits + 1 \/ i - (UartBits + 1) = 1
    BY UartNumbers
  <2>3. QED
    BY <1>1, <2>1, <2>2
<1>7. QED
  BY <1>5, <1>6

LEMMA ToGoEmpty ==
  ASSUME NEW reg \in [1 .. UartBits + 1 -> Bit], NEW bits \in 0 .. UartBits + 2
  PROVE  ToGo(reg, bits) = <<>> <=> bits = 0
BY ToGoIs, EmptySeq

(* A character and its frame. *)
LEMMA ToGoStarts ==
  ASSUME NEW c \in Uart!Char
  PROVE  /\ <<0>> \o c \in [1 .. UartBits + 1 -> Bit] /\ Head(<<0>> \o c) = 0
         /\ ToGo(<<0>> \o c, UartBits + 2) = Uart!Sent!Frame(c)
<1>1. c \in Seq(Bit) /\ Len(c) = UartBits /\ <<0>> \in Seq(Bit) /\ Len(<<0>>) = 1 /\ <<0>>[1] = 0
      /\ <<1>> \in Seq(Bit) /\ Len(<<1>>) = 1
  BY UartNumbers, WordIsSeq DEF Uart!Char, Uart!Core!Char, Uart!Core!Bit, Bit
<1>2. <<0>> \o c \in Seq(Bit) /\ Len(<<0>> \o c) = UartBits + 1 /\ (<<0>> \o c)[1] = 0
  BY <1>1, ConcatProperties, UartNumbers
<1>3. <<0>> \o c \o <<1>> \in Seq(Bit) /\ Len(<<0>> \o c \o <<1>>) = UartBits + 2
  BY <1>1, <1>2, ConcatProperties, UartNumbers
<1>4. <<0>> \o c \in [1 .. UartBits + 1 -> Bit]
  BY <1>2, LenProperties
<1>5. Head(<<0>> \o c) = 0
  BY <1>2, HeadIsFirst, EmptySeq
<1>6. SubSeq(<<0>> \o c \o <<1>>, 1, UartBits + 2) = <<0>> \o c \o <<1>>
  BY <1>3, SubSeqFull
<1>7. QED
  BY <1>4, <1>5, <1>6 DEF ToGo, Uart!Sent!Frame

(* The shift at the end of a bit. *)
LEMMA ToGoShifts ==
  ASSUME NEW reg \in [1 .. UartBits + 1 -> Bit], NEW bits \in 1 .. UartBits + 2,
         \A i \in bits .. UartBits + 1 : reg[i] = 1
  PROVE  /\ Append(Tail(reg), 1) \in [1 .. UartBits + 1 -> Bit]
         /\ \A i \in 1 .. UartBits + 1 : i >= bits - 1 => Append(Tail(reg), 1)[i] = 1
         /\ ToGo(Append(Tail(reg), 1), bits - 1) = Tail(ToGo(reg, bits))
<1> DEFINE shifted == Append(Tail(reg), 1)
           left    == bits - 1
           now     == ToGo(reg, bits)
<1>1. /\ left \in 0 .. UartBits + 1 /\ UartBits + 1 \in Nat \ {0} /\ 1 \in Bit
      /\ left + 1 = bits /\ left \in 0 .. UartBits + 2 /\ bits \in 0 .. UartBits + 2
  BY UartNumbers DEF Bit, Uart!Core!Bit
<1>2. /\ shifted \in [1 .. UartBits + 1 -> Bit]
      /\ \A i \in 1 .. UartBits + 1 : shifted[i] = IF i = UartBits + 1 THEN 1 ELSE reg[i + 1]
  <2>1. PICK n \in Nat \ {0} : n = UartBits + 1
    BY <1>1
  <2>2. reg \in [1 .. n -> Bit] /\ 1 \in Bit
    BY <1>1, <2>1
  <2>3. /\ Append(Tail(reg), 1) \in [1 .. n -> Bit]
        /\ \A i \in 1 .. n : Append(Tail(reg), 1)[i] = IF i = n THEN 1 ELSE reg[i + 1]
    BY <2>2, ShiftedWord
  <2>4. QED
    BY <2>1, <2>3, Zenon
<1>3. /\ now \in Seq(Bit) /\ Len(now) = bits
      /\ \A i \in 1 .. bits : now[i] = IF i <= UartBits + 1 THEN reg[i] ELSE 1
  BY <1>1, ToGoIs
<1> HIDE DEF shifted, left, now
<1>4. ASSUME NEW i \in 1 .. UartBits + 1, i >= left PROVE shifted[i] = 1
  <2>1. CASE i = UartBits + 1
    BY <1>2, <2>1
  <2>2. CASE i # UartBits + 1
    <3>1. i + 1 \in bits .. UartBits + 1
      BY <1>1, <1>4, <2>2, UartNumbers
    <3>2. QED
      BY <1>2, <2>2, <3>1
  <2>3. QED
    BY <2>1, <2>2
<1>5. ToGo(shifted, left) = Tail(now)
  <2>1. now # <<>>
    BY <1>1, <1>3, EmptySeq
  <2>2. /\ Tail(now) \in Seq(Bit) /\ Len(Tail(now)) = left
        /\ \A i \in 1 .. left : Tail(now)[i] = now[i + 1]
    <3>1. /\ Tail(now) \in Seq(Bit) /\ Len(Tail(now)) = Len(now) - 1
          /\ \A i \in 1 .. Len(Tail(now)) : Tail(now)[i] = now[i + 1]
      BY <1>3, <2>1, HeadTailProperties
    <3>2. QED
      BY <1>3, <3>1 DEF left
  <2>3. /\ ToGo(shifted, left) \in Seq(Bit) /\ Len(ToGo(shifted, left)) = left
        /\ \A i \in 1 .. left :
             ToGo(shifted, left)[i] = IF i <= UartBits + 1 THEN shifted[i] ELSE 1
    BY <1>1, <1>2, ToGoIs
  <2>4. ASSUME NEW i \in 1 .. left PROVE ToGo(shifted, left)[i] = Tail(now)[i]
    <3>1. i \in 1 .. UartBits + 1 /\ i + 1 \in 1 .. bits /\ i <= UartBits + 1
      BY <1>1, UartNumbers
    <3>2. ToGo(shifted, left)[i] = IF i = UartBits + 1 THEN 1 ELSE reg[i + 1]
      BY <1>2, <2>3, <3>1
    <3>3. Tail(now)[i] = IF i + 1 <= UartBits + 1 THEN reg[i + 1] ELSE 1
      BY <1>3, <2>2, <3>1
    <3>4. i = UartBits + 1 <=> ~(i + 1 <= UartBits + 1)
      BY <3>1, UartNumbers
    <3>5. CASE i = UartBits + 1
      <4>1. ToGo(shifted, left)[i] = 1 /\ Tail(now)[i] = 1
        BY <3>2, <3>3, <3>4, <3>5
      <4>2. QED
        BY <4>1
    <3>6. CASE i # UartBits + 1
      <4>1. ToGo(shifted, left)[i] = reg[i + 1] /\ Tail(now)[i] = reg[i + 1]
        BY <3>2, <3>3, <3>4, <3>6
      <4>2. QED
        BY <4>1
    <3>7. QED
      BY <3>5, <3>6
  <2>5. QED
    BY <2>2, <2>3, <2>4, SeqEqual
<1>6. QED
  BY <1>2, <1>4, <1>5 DEF shifted, left, now
(* The shift register after a reset: the line rests. *)
Resting == <<1>> \o Uart!Core!Zeros

LEMMA RestingRegister ==
  /\ Resting \in [1 .. UartBits + 1 -> Bit] /\ Resting[1] = 1 /\ Head(Resting) = 1
  /\ ToGo(Resting, 0) = <<>>
<1>1. /\ Uart!Core!Zeros \in Seq(Bit) /\ Len(Uart!Core!Zeros) = UartBits
      /\ <<1>> \in Seq(Bit) /\ Len(<<1>>) = 1 /\ <<1>>[1] = 1
  BY ZerosAreAChar, WordIsSeq, UartNumbers DEF Uart!Char, Uart!Core!Char, Uart!Core!Bit, Bit
<1>2. Resting \in Seq(Bit) /\ Len(Resting) = UartBits + 1 /\ Resting[1] = 1
  BY <1>1, ConcatProperties, UartNumbers DEF Resting
<1>3. Resting \in [1 .. UartBits + 1 -> Bit] /\ Head(Resting) = 1
  BY <1>2, LenProperties, HeadIsFirst, UartNumbers
<1>4. 0 \in 0 .. UartBits + 2
  BY UartNumbers
<1>5. QED
  BY <1>2, <1>3, <1>4, ToGoEmpty

LEMMA FramesInit == Init => ShiftsFrames /\ Uart!Sent!Init
<1> SUFFICES ASSUME Uart!Init PROVE ShiftsFrames /\ Uart!Sent!Init
  BY UartSteps
<1>1. data_write_reg = Resting /\ bits_write_reg = 0 /\ delay_write_reg = 0
  BY DEF Uart!Init, Uart!Core!Init, Resting
<1>2. ShiftsFrames
  BY <1>1, RestingRegister, UartNumbers DEF ShiftsFrames
<1>3. Uart!Sent!Init
  BY <1>1, RestingRegister DEF Uart!Sent!Init, Uart!Core!uart_write, ToGo
<1>4. QED
  BY <1>2, <1>3

(* The level of the line, and the age of its bit, as SerialFrame has them. *)
LEMMA LevelOfLine ==
  ASSUME ShiftsFrames
  PROVE  /\ ToGo(data_write_reg, bits_write_reg) = <<>> <=> bits_write_reg = 0
         /\ Uart!Core!uart_write = data_write_reg[1]
         /\ bits_write_reg = 0 => data_write_reg[1] = 1
         /\ bits_write_reg # 0 =>
              Head(ToGo(data_write_reg, bits_write_reg)) = data_write_reg[1]
<1>1. /\ data_write_reg \in [1 .. UartBits + 1 -> Bit] /\ bits_write_reg \in 0 .. UartBits + 2
      /\ UartBits + 1 \in Nat
  BY UartNumbers DEF ShiftsFrames
<1>2. data_write_reg \in Seq(Bit) /\ Len(data_write_reg) = UartBits + 1
  BY <1>1, WordIsSeq
<1>3. Head(data_write_reg) = data_write_reg[1]
  BY <1>2, HeadIsFirst, UartNumbers
<1>4. PICK bits \in 0 .. UartBits + 2 : bits = bits_write_reg
  BY <1>1
<1>5. bits # 0 => Head(ToGo(data_write_reg, bits)) = data_write_reg[1]
  BY <1>1, ToGoIs, HeadIsFirst, UartNumbers
<1>6. ToGo(data_write_reg, bits) = <<>> <=> bits = 0
  BY <1>1, ToGoEmpty
<1>7. QED
  BY <1>3, <1>4, <1>5, <1>6 DEF ShiftsFrames, Uart!Core!uart_write

LEMMA FramesReset ==
  ASSUME Uart!Core!Reset
  PROVE  ShiftsFrames' /\ Uart!Sent!Abort
<1>1. data_write_reg' = Resting /\ bits_write_reg' = 0 /\ delay_write_reg' = 0
  BY DEF Uart!Core!Reset, Resting
<1>2. ShiftsFrames'
  BY <1>1, RestingRegister, UartNumbers DEF ShiftsFrames
<1>3. Uart!Sent!Abort
  BY <1>1, RestingRegister DEF Uart!Sent!Abort, Uart!Core!uart_write, ToGo, Uart!Period
<1>4. QED
  BY <1>2, <1>3

LEMMA FramesShift ==
  ASSUME ShiftsFrames, Uart!Core!WriteShift
  PROVE  ShiftsFrames' /\ Uart!Sent!Shift
<1>1. PICK bits \in 1 .. UartBits + 2 : bits = bits_write_reg
  <2>1. bits_write_reg \in 0 .. UartBits + 2 /\ bits_write_reg # 0
    BY DEF ShiftsFrames, Uart!Core!WriteShift, Uart!Core!busy_write
  <2>2. QED
    BY <2>1
<1>2. /\ delay_write_reg = CountValue /\ delay_write_reg' = 0
      /\ bits_write_reg' = bits - 1
      /\ data_write_reg' = Append(Tail(data_write_reg), 1)
  BY <1>1 DEF Uart!Core!WriteShift, Uart!Core!ShiftIn
<1>3. data_write_reg \in [1 .. UartBits + 1 -> Bit]
        /\ \A i \in bits .. UartBits + 1 : data_write_reg[i] = 1
  BY <1>1 DEF ShiftsFrames
<1>4. /\ data_write_reg' \in [1 .. UartBits + 1 -> Bit]
      /\ \A i \in 1 .. UartBits + 1 : i >= bits - 1 => data_write_reg'[i] = 1
      /\ ToGo(data_write_reg', bits - 1) = Tail(ToGo(data_write_reg, bits))
  BY <1>2, <1>3, ToGoShifts
<1>5. bits - 1 \in 0 .. UartBits + 2 /\ 0 \in 0 .. CountValue
  BY UartNumbers
<1>6. IF bits - 1 = 0 THEN data_write_reg'[1] = 1
      ELSE \A i \in bits - 1 .. UartBits + 1 : data_write_reg'[i] = 1
  BY <1>4, UartNumbers
<1>7. ShiftsFrames'
  BY <1>2, <1>4, <1>5, <1>6 DEF ShiftsFrames
<1>8. /\ ToGo(data_write_reg, bits_write_reg) # <<>>
      /\ Uart!Core!uart_write' = IF ToGo(data_write_reg, bits_write_reg)' = <<>> THEN 1
                                 ELSE Head(ToGo(data_write_reg, bits_write_reg)')
  <2>1. ToGo(data_write_reg, bits_write_reg) # <<>>
    BY <1>1, LevelOfLine
  <2>2. (ShiftsFrames
         => /\ ToGo(data_write_reg, bits_write_reg) = <<>> <=> bits_write_reg = 0
            /\ Uart!Core!uart_write = data_write_reg[1]
            /\ bits_write_reg = 0 => data_write_reg[1] = 1
            /\ bits_write_reg # 0 =>
                 Head(ToGo(data_write_reg, bits_write_reg)) = data_write_reg[1])'
    BY LevelOfLine, PTL
  <2>3. QED
    BY <1>7, <2>1, <2>2
<1>9. (IF bits_write_reg = 0 THEN 0 ELSE delay_write_reg) + 1 = Uart!Period
        /\ (IF bits_write_reg = 0 THEN 0 ELSE delay_write_reg)' = 0
  BY <1>1, <1>2 DEF Uart!Period
<1>10. ToGo(data_write_reg, bits_write_reg)' = Tail(ToGo(data_write_reg, bits_write_reg))
  BY <1>1, <1>2, <1>4 DEF ToGo
<1>11. QED
  BY <1>7, <1>8, <1>9, <1>10 DEF Uart!Sent!Shift, ToGo, Uart!Period

LEMMA FramesStart ==
  ASSUME ShiftsFrames, NEW c \in Uart!Char, NEW go, Uart!Core!WriteStart(go, c)
  PROVE  ShiftsFrames' /\ Uart!Sent!Start(c)
<1>1. /\ bits_write_reg = 0 /\ delay_write_reg' = 0 /\ bits_write_reg' = UartBits + 2
      /\ data_write_reg' = <<0>> \o c
  BY DEF Uart!Core!WriteStart, Uart!Core!busy_write
<1>2. /\ data_write_reg' \in [1 .. UartBits + 1 -> Bit] /\ Head(data_write_reg') = 0
      /\ ToGo(data_write_reg', bits_write_reg') = Uart!Sent!Frame(c)
  BY <1>1, ToGoStarts
<1>3. ShiftsFrames'
  BY <1>1, <1>2, UartNumbers DEF ShiftsFrames
<1>4. ToGo(data_write_reg, bits_write_reg) = <<>>
  BY <1>1, LevelOfLine
<1>5. QED
  BY <1>1, <1>2, <1>3, <1>4 DEF Uart!Sent!Start, Uart!Core!uart_write, ToGo, Uart!Period

LEMMA FramesHold ==
  ASSUME ShiftsFrames, Uart!Core!WriteDelay
  PROVE  ShiftsFrames' /\ Uart!Sent!Hold
<1>1. /\ bits_write_reg # 0 /\ delay_write_reg # CountValue
      /\ delay_write_reg' = delay_write_reg + 1
      /\ bits_write_reg' = bits_write_reg /\ data_write_reg' = data_write_reg
  BY DEF Uart!Core!WriteDelay, Uart!Core!busy_write
<1>2. delay_write_reg + 1 \in 0 .. CountValue /\ delay_write_reg + 1 < CountValue + 1
  BY <1>1, UartNumbers DEF ShiftsFrames
<1>3. ShiftsFrames'
  BY <1>1, <1>2 DEF ShiftsFrames
<1>4. ToGo(data_write_reg, bits_write_reg) # <<>>
  BY <1>1, LevelOfLine
<1>5. QED
  BY <1>1, <1>2, <1>3, <1>4 DEF Uart!Sent!Hold, Uart!Core!uart_write, ToGo, Uart!Period

LEMMA FramesTick ==
  ASSUME ShiftsFrames, UartTypes, Uart!Tick
  PROVE  /\ ShiftsFrames'
         /\ Uart!Sent!Clock \/ Uart!Sent!Abort \/ UNCHANGED Uart!Sent!frameVars
<1> DEFINE go == enable_write /\ Uart!Enables(ctrl_s)
<1>1. Uart!Core!Reset \/ Uart!Core!Write(go, dat_tx)
  BY DEF Uart!Tick, Uart!UartCore, Uart!Core!Clock
<1>2. dat_tx \in Uart!Char
  BY DEF UartTypes
<1>3. CASE Uart!Core!Reset
  BY <1>3, FramesReset
<1>4. CASE Uart!Core!WriteStart(go, dat_tx)
  BY <1>2, <1>4, FramesStart DEF Uart!Sent!Clock
<1>5. CASE Uart!Core!WriteIdle(go)
  BY <1>5 DEF Uart!Core!WriteIdle, ShiftsFrames, Uart!Sent!frameVars, Uart!Core!uart_write,
     Uart!Period
<1>6. CASE Uart!Core!WriteDelay
  BY <1>6, FramesHold DEF Uart!Sent!Clock
<1>7. CASE Uart!Core!WriteShift
  BY <1>7, FramesShift DEF Uart!Sent!Clock
<1>8. QED
  BY <1>1, <1>3, <1>4, <1>5, <1>6, <1>7 DEF Uart!Core!Write

(* The transmitter puts whole frames on the line, each bit for as many     *)
(* edges as the next, and only a reset breaks one off: uart.vhd.           *)
THEOREM LineCarriesFrames == Spec => FramesOnTheLine
<1>1. ShiftsFrames /\ UartTypes /\ [Next]_vars
        => /\ ShiftsFrames'
           /\ [Uart!Sent!Clock \/ Uart!Sent!Abort]_(Uart!Sent!frameVars)
  <2> SUFFICES ASSUME ShiftsFrames, UartTypes, [Next]_vars
               PROVE  /\ ShiftsFrames'
                      /\ \/ Uart!Sent!Clock \/ Uart!Sent!Abort
                         \/ UNCHANGED Uart!Sent!frameVars
    OBVIOUS
  <2>1. CASE Uart!Tick
    BY <2>1, FramesTick
  <2>2. CASE Uart!Reset
    BY <2>2, FramesReset DEF Uart!Reset
  <2>3. CASE UNCHANGED uartVars
    BY <2>3 DEF uartVars, ShiftsFrames, Uart!Sent!frameVars, Uart!Core!uart_write, Uart!Period
  <2>4. QED
    BY <2>1, <2>2, <2>3, UartSteps
<1>2. QED
  BY <1>1, FramesInit, UartTypesInit, UartTypesStep, PTL
     DEF Spec, FramesOnTheLine, Uart!FramesOnTheLine, Uart!Sent!Spec

-----------------------------------------------------------------------------
(* The SPI controller, its bus master and the device at its pins.          *)

LEMMA SpiSteps ==
  /\ Init => Spi!Init
  /\ [Next]_vars => Spi!Tick \/ Spi!Reset \/ UNCHANGED spiVars
BY DEF Init, Next, vars, Spi!Next

LEMMA SpiNumbers ==
  /\ SpiBits \in Nat /\ SpiBits > 1 /\ Divisor \in Nat /\ Divisor > 2
  /\ SpiMaster \subseteq {"cpu", "hps"} /\ Words \subseteq [1 .. SpiBits -> {0, 1}]
BY CoresAssumption DEF Spi!TransferConstants, Spi!Word

En  == Spi!En(spi_ctrl_s)
Rst == Spi!Rst(spi_ctrl_s)
Adr == IF adr_is = Spi!Zeros THEN 0 ELSE 1

SpiAccess == [we : BOOLEAN, reg : 0 .. 15, dat : Spi!Word]

SpiTypes ==
  /\ {spi_ctrl_s, dat_is, adr_is, sent, fifo_s} \subseteq Spi!Word
  /\ {spi_ack_s, spi_err_s, finished, aligned, spi_clk_falling} \subseteq BOOLEAN
  /\ state_s \in Spi!Spi!States /\ {adr_s, spi_clk_s, MOSI} \subseteq {0, 1}
  /\ master \in {"cpu", "hps"} /\ spi_access \in SpiAccess
  /\ {dev_in, dev_out} \subseteq Seq({0, 1})

(* The bits of a control word. *)
LEMMA ControlBits ==
  ASSUME NEW r \in BOOLEAN, NEW e \in BOOLEAN
  PROVE  /\ Spi!Bits(r, e) \in Spi!Word
         /\ Spi!Rst(Spi!Bits(r, e)) <=> r
         /\ Spi!En(Spi!Bits(r, e)) <=> e
<1>1. SpiBits \in 1 .. SpiBits /\ SpiBits - 1 \in 1 .. SpiBits /\ SpiBits # SpiBits - 1
  BY SpiNumbers
<1>2. QED
  BY <1>1 DEF Spi!Bits, Spi!Rst, Spi!En, Spi!Word

LEMMA SameWord ==
  ASSUME NEW v \in [1 .. SpiBits -> {0, 1}], NEW w \in [1 .. SpiBits -> {0, 1}],
         \A i \in 1 .. SpiBits : v[i] = w[i]
  PROVE  v = w
<1>1. v = [i \in 1 .. SpiBits |-> v[i]] /\ w = [i \in 1 .. SpiBits |-> w[i]]
  OBVIOUS
<1>2. [i \in 1 .. SpiBits |-> v[i]] = [i \in 1 .. SpiBits |-> w[i]]
  BY Zenon
<1>3. QED
  BY <1>1, <1>2

LEMMA ConstantWords == Spi!Zeros \in Spi!Word /\ Spi!Ones \in Spi!Word
BY SpiNumbers DEF Spi!Zeros, Spi!Ones, Spi!Word

LEMMA Accesses ==
  /\ Spi!SetEnable \in SpiAccess /\ Spi!NoAccess \in SpiAccess
  /\ Spi!SetEnable.we /\ Spi!SetEnable.reg = Spi!CtrlReg
  /\ Spi!En(Spi!SetEnable.dat) /\ ~Spi!Rst(Spi!SetEnable.dat)
  /\ ~Spi!NoAccess.we
  /\ \A r \in Spi!Leave : /\ r \in SpiAccess /\ r.we /\ r.reg = Spi!CtrlReg
                          /\ ~Spi!En(r.dat)
<1>1. Spi!NoAccess \in SpiAccess /\ ~Spi!NoAccess.we
  BY ConstantWords DEF Spi!NoAccess, Spi!ReadOf, Spi!Request, SpiAccess
<1>2. ASSUME NEW r \in BOOLEAN, NEW e \in BOOLEAN
      PROVE  /\ Spi!WriteCtrl(r, e) \in SpiAccess /\ Spi!WriteCtrl(r, e).we
             /\ Spi!WriteCtrl(r, e).reg = Spi!CtrlReg
             /\ Spi!WriteCtrl(r, e).dat = Spi!Bits(r, e)
  BY ControlBits DEF Spi!WriteCtrl, Spi!Request, SpiAccess, Spi!CtrlReg
<1>3. QED
  BY <1>1, <1>2, ControlBits DEF Spi!SetEnable, Spi!Leave

(* What a driver asks for, when it is not yet done and when it is.         *)
LEMMA RequestKinds ==
  ASSUME NEW r \in Spi!Requests
  PROVE  /\ r \in SpiAccess /\ r # Spi!NoAccess
         /\ ~finished => r = Spi!SetEnable
         /\ finished => \/ r \in Spi!Leave
                        \/ ~r.we
                        \/ r.we /\ r.reg \in {Spi!DataReg, Spi!AdrReg}
<1>1. CASE ~finished
  BY <1>1, Accesses DEF Spi!Requests
<1>2. CASE finished
  <2>1. ASSUME NEW reg \in {Spi!StatReg, Spi!DataReg, 1}, r = Spi!ReadOf(reg)
        PROVE  r \in SpiAccess /\ ~r.we /\ r # Spi!NoAccess
    BY <2>1, ConstantWords DEF Spi!ReadOf, Spi!Request, SpiAccess, Spi!StatReg, Spi!DataReg,
       Spi!NoAccess
  <2>2. ASSUME NEW reg \in {Spi!DataReg, Spi!AdrReg}, NEW w \in Words \cup {Spi!Zeros, Spi!Ones},
               r = Spi!Request(TRUE, reg, w)
        PROVE  r \in SpiAccess /\ r.we /\ r.reg = reg /\ r # Spi!NoAccess
    BY <2>2, ConstantWords, SpiNumbers, Accesses
       DEF Spi!Request, SpiAccess, Spi!DataReg, Spi!AdrReg, Spi!Word
  <2>3. CASE r \in Spi!Leave
    BY <1>2, <2>3, Accesses
  <2>4. CASE r \in {Spi!ReadOf(Spi!StatReg), Spi!ReadOf(Spi!DataReg), Spi!ReadOf(1)}
    BY <1>2, <2>1, <2>4
  <2>5. CASE r \in {Spi!Request(TRUE, Spi!DataReg, w) : w \in Words}
    BY <1>2, <2>2, <2>5
  <2>6. CASE r \in {Spi!Request(TRUE, Spi!AdrReg, w) : w \in {Spi!Zeros, Spi!Ones}}
    BY <1>2, <2>2, <2>6
  <2>7. QED
    BY <1>2, <2>3, <2>4, <2>5, <2>6 DEF Spi!Requests
<1>3. QED
  BY <1>1, <1>2

(* The driver and the registers.  Before a transfer is done the only       *)
(* access is the one that sets the enable bit, and it lasts until then.    *)
(* The bridge's clearing of that bit is acknowledged one edge after the    *)
(* bit is clear (Left).                                                    *)
Left == /\ spi_access \in Spi!Leave /\ spi_ctrl_s = spi_access.dat
        /\ spi_ack_s /\ master = "hps"

Transferring == state_s \in {"send", "hold1", "hold2", "hold3", "hold4"}

Asks ==
  /\ ~finished => spi_access \in {Spi!NoAccess, Spi!SetEnable}
  /\ finished /\ spi_access.we =>
       spi_access \in Spi!Leave \/ spi_access.reg \in {Spi!DataReg, Spi!AdrReg}
  /\ spi_access.we /\ spi_access.reg = Spi!CtrlReg => ~spi_err_s

Enabled ==
  /\ finished => (state_s = "done" /\ En) \/ Left
  /\ Transferring => ~finished /\ En /\ adr_s = Adr
  /\ state_s = "done" /\ ~En => finished \/ spi_access = Spi!NoAccess
  /\ Rst => state_s = "idle" /\ ~En
  /\ state_s = "idle" /\ En => ~finished /\ adr_s \in {0, Adr}
  /\ spi_access = Spi!SetEnable /\ spi_ack_s => state_s = "done"

Driving == Asks /\ Enabled

Waits == /\ ~finished /\ spi_access = Spi!NoAccess
         /\ spi_ctrl_s' = spi_ctrl_s /\ ~finished'
         /\ spi_access' \in {Spi!NoAccess, Spi!SetEnable} /\ ~spi_ack_s'

Enables == /\ ~finished /\ spi_access = Spi!SetEnable
           /\ spi_ctrl_s' = Spi!SetEnable.dat /\ ~finished'
           /\ spi_access' = Spi!SetEnable
           /\ spi_ack_s' => state_s = "done"

Finishes == /\ ~finished /\ spi_access = Spi!SetEnable /\ state_s = "done"
            /\ spi_ctrl_s' = Spi!SetEnable.dat /\ finished'
            /\ spi_access' = Spi!NoAccess

Uses == /\ finished /\ spi_access \notin Spi!Leave
        /\ spi_ctrl_s' = spi_ctrl_s /\ finished'
        /\ spi_access' # Spi!SetEnable

Clears == /\ finished /\ spi_access \in Spi!Leave
          /\ spi_ctrl_s' = spi_access.dat
          /\ IF finished' THEN Left' ELSE spi_access' = Spi!NoAccess
          /\ spi_access' # Spi!SetEnable

LEMMA Distinct ==
  /\ Spi!NoAccess \notin Spi!Leave /\ Spi!SetEnable \notin Spi!Leave
  /\ Spi!SetEnable # Spi!NoAccess
  /\ \A r \in Spi!Leave : r # Spi!NoAccess
  /\ Spi!CtrlReg \notin {Spi!DataReg, Spi!AdrReg} /\ Spi!CtrlReg \in Spi!Writable
<1>1. Spi!CtrlReg \notin {Spi!DataReg, Spi!AdrReg} /\ Spi!CtrlReg \in Spi!Writable
  BY DEF Spi!CtrlReg, Spi!DataReg, Spi!AdrReg, Spi!Writable
<1>2. QED
  BY <1>1, Accesses, Zenon

LEMMA AsksStep ==
  ASSUME SpiTypes, Driving, Spi!Tick
  PROVE  Asks'
<1>1. Spi!Drive /\ Spi!Registers
  BY DEF Spi!Tick
<1>2. \/ spi_access' = Spi!NoAccess
      \/ spi_access' = spi_access /\ finished' = finished /\ Spi!stb
      \/ spi_access' \in Spi!Requests /\ finished' = finished /\ ~Spi!stb
  BY <1>1 DEF Spi!Drive, Spi!AccessEnds
<1>3. CASE spi_access' = Spi!NoAccess
  BY <1>3, Accesses DEF Asks
<1>4. CASE spi_access' = spi_access /\ finished' = finished /\ Spi!stb
  <2>1. spi_access.we /\ spi_access.reg = Spi!CtrlReg => ~spi_err_s'
    BY <1>1, Distinct DEF Spi!Registers
  <2>2. QED
    BY <1>4, <2>1 DEF Asks, Driving
<1>5. CASE spi_access' \in Spi!Requests /\ finished' = finished /\ ~Spi!stb
  <2>1. ~spi_err_s'
    BY <1>1, <1>5 DEF Spi!Registers
  <2>2. PICK r \in Spi!Requests : r = spi_access'
    BY <1>5
  <2>3. /\ ~finished => r = Spi!SetEnable
        /\ finished /\ r.we => r \in Spi!Leave \/ r.reg \in {Spi!DataReg, Spi!AdrReg}
    BY RequestKinds
  <2>4. QED
    BY <1>5, <2>1, <2>2, <2>3 DEF Asks
<1>6. QED
  BY <1>2, <1>3, <1>4, <1>5

(* What an edge does to the enable bit. *)
LEMMA Moves ==
  ASSUME SpiTypes, Driving, Spi!Tick
  PROVE  Waits \/ Enables \/ Finishes \/ Uses \/ Clears
<1>1. Spi!Drive /\ Spi!Registers
  BY DEF Spi!Tick
<1>2. spi_ctrl_s' = IF Spi!stb /\ spi_access.we /\ spi_access.reg = Spi!CtrlReg
                    THEN spi_access.dat ELSE spi_ctrl_s
  BY <1>1 DEF Spi!Registers, Spi!Ctrl
<1>3. spi_ack_s' => Spi!stb /\ state_s = "done"
  BY <1>1 DEF Spi!Registers, Spi!Ready, Spi!Spi!ack_o
<1>4. spi_access.we /\ spi_access.reg = Spi!CtrlReg /\ Spi!AccessEnds
        => state_s = "done" \/ (master = "hps" /\ spi_ack_s)
  BY DEF Spi!AccessEnds, Spi!Stall, Spi!Ready, Spi!Spi!ack_o, Driving, Asks, SpiTypes
<1>5. CASE ~finished /\ spi_access = Spi!NoAccess
  <2>1. ~Spi!stb /\ ~Spi!AccessEnds
    BY <1>5 DEF Spi!stb, Spi!AccessEnds
  <2>2. spi_access' \in {Spi!NoAccess} \cup Spi!Requests /\ finished' = finished
    BY <1>1, <2>1 DEF Spi!Drive
  <2>3. \A r \in Spi!Requests : r = Spi!SetEnable
    BY <1>5, RequestKinds
  <2>4. QED
    BY <1>2, <1>3, <1>5, <2>1, <2>2, <2>3 DEF Waits
<1>6. CASE ~finished /\ spi_access = Spi!SetEnable
  <2>1. Spi!stb /\ spi_ctrl_s' = Spi!SetEnable.dat
    BY <1>2, <1>6, Accesses, Distinct DEF Spi!stb
  <2>2. CASE Spi!AccessEnds
    <3>1. state_s = "done"
      BY <1>4, <1>6, <2>2, Accesses DEF Driving, Enabled
    <3>2. spi_access' = Spi!NoAccess /\ finished' = TRUE
      BY <1>1, <1>6, <2>1, <2>2, Distinct DEF Spi!Drive
    <3>3. QED
      BY <1>6, <2>1, <3>1, <3>2 DEF Finishes
  <2>3. CASE ~Spi!AccessEnds
    <3>1. spi_access' = spi_access /\ finished' = finished
      BY <1>1, <2>1, <2>3 DEF Spi!Drive
    <3>2. QED
      BY <1>3, <1>6, <2>1, <3>1 DEF Enables
  <2>4. QED
    BY <2>2, <2>3
<1>7. CASE finished /\ spi_access \notin Spi!Leave
  <2>1. ~(spi_access.we /\ spi_access.reg = Spi!CtrlReg) /\ spi_access # Spi!SetEnable
    BY <1>7, Distinct, Accesses DEF Driving, Asks
  <2>2. finished'
    BY <1>1, <1>7, <2>1 DEF Spi!Drive
  <2>3. spi_access' # Spi!SetEnable
    <3>1. \A r \in Spi!Requests : r # Spi!SetEnable
      BY <1>7, RequestKinds, Distinct, Accesses
    <3>2. spi_access' \in {spi_access, Spi!NoAccess} \cup Spi!Requests
      BY <1>1 DEF Spi!Drive
    <3>3. QED
      BY <2>1, <3>1, <3>2, Distinct
  <2>4. QED
    BY <1>2, <1>7, <2>1, <2>2, <2>3 DEF Uses
<1>8. CASE finished /\ spi_access \in Spi!Leave
  <2>1. Spi!stb /\ spi_ctrl_s' = spi_access.dat /\ spi_access # Spi!SetEnable
        /\ spi_access.we /\ spi_access.reg = Spi!CtrlReg
    BY <1>2, <1>8, Accesses, Distinct DEF Spi!stb
  <2>2. CASE Spi!AccessEnds
    <3>1. spi_access' = Spi!NoAccess /\ finished' = FALSE
      BY <1>1, <1>8, <2>1, <2>2 DEF Spi!Drive
    <3>2. QED
      BY <1>8, <2>1, <3>1, Distinct DEF Clears
  <2>3. CASE ~Spi!AccessEnds
    <3>1. spi_access' = spi_access /\ finished' = finished /\ master' = master
      BY <1>1, <2>1, <2>3 DEF Spi!Drive
    <3>2. ~Left /\ ~spi_err_s
      BY <2>1, <2>3 DEF Left, Spi!AccessEnds, Driving, Asks
    <3>3. state_s = "done"
      BY <1>8, <3>2 DEF Driving, Enabled
    <3>4. spi_ack_s' = TRUE
      BY <1>1, <2>1, <3>2, <3>3 DEF Spi!Registers, Spi!Ready, Spi!Spi!ack_o
    <3>5. master = "hps"
      BY <2>1, <2>3, <3>3 DEF Spi!AccessEnds, Spi!Stall, Spi!Ready, Spi!Spi!ack_o, SpiTypes
    <3>6. QED
      BY <1>8, <2>1, <3>1, <3>4, <3>5 DEF Clears, Left
  <2>4. QED
    BY <2>2, <2>3
<1>9. QED
  BY <1>5, <1>6, <1>7, <1>8 DEF Driving, Asks

(* What an edge does to the state. *)
LEMMA ControllerMoves ==
  ASSUME SpiTypes, Spi!Tick
  PROVE  /\ Rst \/ Rst' => state_s' = "idle" /\ adr_s' = 0
         /\ ~Rst /\ ~Rst' =>
              /\ adr_s' = Adr
              /\ state_s = "idle" => state_s' = IF En THEN "send" ELSE "idle"
              /\ state_s = "send" => state_s' \in {"send", "hold1"}
              /\ state_s = "hold1" => state_s' = "hold2"
              /\ state_s = "hold2" => state_s' = "hold3"
              /\ state_s = "hold3" => state_s' = "hold4"
              /\ state_s = "hold4" => state_s' = "done"
              /\ state_s = "done" => state_s' = IF En THEN "done" ELSE "idle"
<1>1. /\ Rst \/ Rst' => state_s' = "idle" /\ adr_s' = 0
      /\ ~Rst /\ ~Rst' => state_s' = Spi!Spi!NextState(En) /\ adr_s' = Adr
  BY DEF Spi!Tick, Spi!Spi!Clock, Rst, En, Adr
<1>2. /\ state_s = "idle" => Spi!Spi!NextState(En) = IF En THEN "send" ELSE "idle"
      /\ state_s = "send" => Spi!Spi!NextState(En) \in {"send", "hold1"}
      /\ state_s = "hold1" => Spi!Spi!NextState(En) = "hold2"
      /\ state_s = "hold2" => Spi!Spi!NextState(En) = "hold3"
      /\ state_s = "hold3" => Spi!Spi!NextState(En) = "hold4"
      /\ state_s = "hold4" => Spi!Spi!NextState(En) = "done"
      /\ state_s = "done" => Spi!Spi!NextState(En) = IF En THEN "done" ELSE "idle"
  BY DEF Spi!Spi!NextState
<1>3. QED
  BY <1>1, <1>2

LEMMA AddressKept ==
  ASSUME Driving, Spi!Tick, ~finished
  PROVE  adr_is' = adr_is /\ dat_is' = dat_is
<1>1. spi_access.we => spi_access.reg \notin {Spi!DataReg, Spi!AdrReg}
  BY Accesses, Distinct DEF Driving, Asks
<1>2. QED
  BY <1>1 DEF Spi!Tick, Spi!Registers

LEMMA EnabledStep ==
  ASSUME SpiTypes, Driving, Spi!Tick
  PROVE  Enabled'
<1>1. state_s \in {"idle", "send", "hold1", "hold2", "hold3", "hold4", "done"}
  BY DEF SpiTypes, Spi!Spi!States
<1>2. ~finished => Adr' = Adr
  BY AddressKept DEF Adr
<1>3. /\ Rst \/ Rst' => state_s' = "idle" /\ adr_s' = 0
      /\ ~Rst /\ ~Rst' => adr_s' = Adr
  BY ControllerMoves
<1>4. CASE Waits
  <2>1. En' = En /\ Rst' = Rst
    BY <1>4 DEF Waits, En, Rst
  <2>2. CASE Rst
    BY <1>3, <1>4, <2>1, <2>2 DEF Waits, Driving, Enabled, Transferring
  <2>3. CASE ~Rst
    BY <1>1, <1>2, <1>4, <2>1, <2>3, ControllerMoves DEF Waits, Driving, Enabled, Transferring
  <2>4. QED
    BY <2>2, <2>3
<1>5. (En' /\ ~Rst') \/ spi_ctrl_s' # Spi!SetEnable.dat
  BY Accesses DEF En, Rst
<1>6. CASE Enables
  <2>1. En' /\ ~Rst' /\ ~finished' /\ Adr' = Adr
    BY <1>2, <1>5, <1>6 DEF Enables
  <2>2. Transferring' => adr_s' = Adr'
    BY <1>3, <2>1 DEF Transferring
  <2>3. adr_s' \in {0, Adr'}
    BY <1>3, <2>1
  <2>4. spi_ack_s' => state_s' = "done"
    <3>1. spi_ack_s' => state_s = "done"
      BY <1>6 DEF Enables
    <3>2. state_s = "done" => En /\ ~Rst
      BY <1>6, Distinct DEF Enables, Driving, Enabled
    <3>3. QED
      BY <2>1, <3>1, <3>2, ControllerMoves
  <2>5. QED
    BY <2>1, <2>2, <2>3, <2>4 DEF Enabled
<1>7. CASE Finishes
  <2>1. En' /\ ~Rst' /\ finished' /\ spi_access' = Spi!NoAccess
    BY <1>5, <1>7 DEF Finishes
  <2>2. En /\ ~Rst
    BY <1>7, Distinct DEF Finishes, Driving, Enabled
  <2>3. state_s' = "done"
    BY <1>7, <2>1, <2>2, ControllerMoves DEF Finishes
  <2>4. QED
    BY <2>1, <2>3, Distinct DEF Enabled, Transferring
<1>8. CASE Uses
  <2>1. En' = En /\ Rst' = Rst
    BY <1>8 DEF Uses, En, Rst
  <2>2. state_s = "done" /\ En
    BY <1>8 DEF Uses, Driving, Enabled, Left
  <2>3. ~Rst
    BY <2>2 DEF Driving, Enabled
  <2>4. state_s' = "done"
    BY <2>1, <2>2, <2>3, ControllerMoves
  <2>5. QED
    BY <1>8, <2>1, <2>2, <2>3, <2>4 DEF Uses, Enabled, Transferring
<1>9. CASE Clears
  <2>1. ~En'
    BY <1>9, Accesses DEF Clears, En
  <2>2. state_s \in {"idle", "done"} /\ (state_s = "idle" => ~En)
    BY <1>1, <1>9 DEF Clears, Driving, Enabled, Transferring
  <2>3. state_s' \in {"idle", "done"}
    BY <1>3, <2>2, ControllerMoves
  <2>4. Rst' => state_s' = "idle"
    BY <1>3
  <2>5. QED
    BY <1>9, <2>1, <2>3, <2>4 DEF Clears, Enabled, Transferring
<1>10. QED
  BY <1>4, <1>6, <1>7, <1>8, <1>9, Moves

LEMMA BitOfDevice ==
  ASSUME SpiTypes
  PROVE  Spi!MISO \in {0, 1}
<1>1. CASE dev_out = <<>>
  BY <1>1 DEF Spi!MISO
<1>2. CASE dev_out # <<>>
  <2>1. Head(dev_out) \in {0, 1}
    BY <1>2, HeadTailProperties DEF SpiTypes
  <2>2. QED
    BY <1>2, <2>1 DEF Spi!MISO
<1>3. QED
  BY <1>1, <1>2

LEMMA HeadOfWord ==
  ASSUME NEW w \in Spi!Word
  PROVE  Head(w) = w[1] /\ Head(w) \in {0, 1}
<1>1. w \in Seq({0, 1}) /\ Len(w) > 0
  BY SpiNumbers, WordIsSeq DEF Spi!Word
<1>2. Head(w) = w[1]
  BY <1>1, HeadIsFirst
<1>3. w[1] \in {0, 1}
  BY SpiNumbers DEF Spi!Word
<1>4. QED
  BY <1>2, <1>3

(* A bit from the left goes out, one comes in at the right. *)
LEMMA WordShifts ==
  ASSUME NEW w \in Spi!Word, NEW b \in {0, 1}
  PROVE  /\ Append(Tail(w), b) \in Spi!Word
         /\ \A i \in 1 .. SpiBits : Append(Tail(w), b)[i] = IF i = SpiBits THEN b ELSE w[i + 1]
<1>1. PICK n \in Nat \ {0} : n = SpiBits
  BY SpiNumbers
<1>2. w \in Seq({0, 1}) /\ Len(w) = n /\ w # <<>>
  BY <1>1, SpiNumbers, WordIsSeq DEF Spi!Word
<1>3. /\ Tail(w) \in Seq({0, 1}) /\ Len(Tail(w)) = n - 1
      /\ \A i \in 1 .. n - 1 : Tail(w)[i] = w[i + 1]
  BY <1>2, HeadTailProperties
<1>4. /\ Append(Tail(w), b) \in Seq({0, 1}) /\ Len(Append(Tail(w), b)) = n
      /\ \A i \in 1 .. n - 1 : Append(Tail(w), b)[i] = w[i + 1]
      /\ Append(Tail(w), b)[n] = b
  BY <1>3, AppendProperties
<1>5. Append(Tail(w), b) \in [1 .. n -> {0, 1}]
  BY <1>4, LenProperties, Zenon
<1>6. ASSUME NEW i \in 1 .. n PROVE Append(Tail(w), b)[i] = IF i = n THEN b ELSE w[i + 1]
  <2>1. i = n \/ (i \in 1 .. n - 1 /\ i # n)
    OBVIOUS
  <2>2. QED
    BY <1>4, <2>1, Zenon
<1>7. QED
  BY <1>1, <1>5, <1>6, Zenon DEF Spi!Word

LEMMA DeviceTypes ==
  ASSUME SpiTypes, Spi!Device
  PROVE  {dev_in', dev_out'} \subseteq Seq({0, 1})
<1>1. <<>> \in Seq({0, 1}) /\ \A w \in Words : w \in Seq({0, 1})
  <2>1. ASSUME NEW w \in Words PROVE w \in Seq({0, 1})
    <3>1. w \in [1 .. SpiBits -> {0, 1}]
      BY SpiNumbers
    <3>2. QED
      BY <3>1, SpiNumbers, WordIsSeq
  <2>2. QED
    BY <2>1, EmptySeq
<1>2. Append(dev_in, MOSI) \in Seq({0, 1}) /\ (dev_out # <<>> => Tail(dev_out) \in Seq({0, 1}))
  BY AppendProperties, HeadTailProperties DEF SpiTypes
<1>3. QED
  BY <1>1, <1>2 DEF Spi!Device, Spi!Unselected, Spi!Selected, Spi!Exchange, SpiTypes

LEMMA SpiTypesInit == Spi!Init => SpiTypes
<1> SUFFICES ASSUME Spi!Init PROVE SpiTypes
  OBVIOUS
<1>1. <<>> \in Seq({0, 1})
  BY EmptySeq
<1>2. QED
  BY <1>1, ConstantWords, Accesses, SpiNumbers
     DEF Spi!Init, Spi!Spi!Init, SpiTypes, Spi!Spi!States

LEMMA SpiTypesTick ==
  ASSUME SpiTypes, Driving, Spi!Tick
  PROVE  SpiTypes'
<1>1. /\ Spi!Registers /\ Spi!Drive /\ Spi!Device /\ Spi!Observe
      /\ Spi!Spi!Shift(dat_is, Spi!MISO) /\ Spi!Spi!SpiClk
  BY DEF Spi!Tick, Spi!Spi!Clock
<1>2. {spi_ctrl_s', dat_is', adr_is', sent'} \subseteq Spi!Word
  BY <1>1 DEF Spi!Registers, Spi!Ctrl, Spi!Observe, SpiTypes, SpiAccess
<1>3. fifo_s' \in Spi!Word /\ MOSI' \in {0, 1} /\ spi_clk_falling' \in BOOLEAN
  <2>1. Append(Tail(fifo_s), Spi!MISO) \in Spi!Word /\ Head(fifo_s) \in {0, 1}
    BY BitOfDevice, WordShifts, HeadOfWord DEF SpiTypes
  <2>2. QED
    BY <1>1, <2>1 DEF Spi!Spi!Shift, SpiTypes
<1>4. {spi_ack_s', spi_err_s'} \subseteq BOOLEAN
  BY <1>1 DEF Spi!Registers
<1>5. {finished', aligned'} \subseteq BOOLEAN /\ master' = master
  BY <1>1 DEF Spi!Drive, Spi!Observe, SpiTypes
<1>6. spi_clk_s' \in {0, 1}
  BY <1>1 DEF Spi!Spi!SpiClk, SpiTypes
<1>7. state_s' \in Spi!Spi!States /\ adr_s' \in {0, 1}
  BY ControllerMoves DEF SpiTypes, Spi!Spi!States, Adr
<1>8. spi_access' \in SpiAccess
  <2>1. spi_access' \in {spi_access, Spi!NoAccess} \cup Spi!Requests
    BY <1>1 DEF Spi!Drive
  <2>2. QED
    BY <2>1, RequestKinds, Accesses DEF SpiTypes
<1>9. QED
  BY <1>1, <1>2, <1>3, <1>4, <1>5, <1>6, <1>7, <1>8, DeviceTypes DEF SpiTypes

LEMMA SpiTypesReset ==
  ASSUME SpiTypes, Spi!Reset
  PROVE  SpiTypes'
<1>1. spi_access' \in SpiAccess
  BY Accesses DEF Spi!Reset
<1>2. Spi!Device
  BY DEF Spi!Reset
<1>3. aligned' \in BOOLEAN
  BY DEF Spi!Reset
<1>4. QED
  BY <1>1, <1>2, <1>3, DeviceTypes DEF SpiTypes, Spi!Reset, Spi!Spi!Reset, Spi!Spi!States

LEMMA DrivingInit == Spi!Init => Driving
<1> SUFFICES ASSUME Spi!Init PROVE Driving
  OBVIOUS
<1>1. ~Spi!En(Spi!Zeros) /\ ~Spi!Rst(Spi!Zeros)
  BY SpiNumbers DEF Spi!En, Spi!Rst, Spi!Zeros
<1>2. QED
  BY <1>1, Accesses, Distinct
     DEF Spi!Init, Spi!Spi!Init, Driving, Asks, Enabled, Transferring, En, Rst

LEMMA DrivingReset ==
  ASSUME SpiTypes, Driving, Spi!Reset
  PROVE  Driving'
<1>1. /\ spi_access' = Spi!NoAccess /\ ~finished' /\ state_s' = "idle" /\ adr_s' = 0
      /\ spi_ctrl_s' = spi_ctrl_s
  BY DEF Spi!Reset, Spi!Spi!Reset
<1>2. En' = En /\ Rst' = Rst
  BY <1>1 DEF En, Rst
<1>3. QED
  BY <1>1, <1>2, Accesses, Distinct DEF Driving, Asks, Enabled, Transferring

-----------------------------------------------------------------------------
(* SCLK and its two counters.  A low phase begins with a bit on its way    *)
(* out and in, and the transfer ends in the high phase after the last one. *)
Clocking ==
  /\ clk_cnt \in 0 .. Divisor - 1 /\ bit_cnt \in 0 .. SpiBits
  /\ clk_rld \in {0, Divisor - 1} /\ bit_rld \in {0, SpiBits}
  /\ clk_cnt > 0 \/ spi_clk_s = 0 \/ bit_cnt > 0 => clk_rld = Divisor - 1 /\ bit_rld = SpiBits
  /\ state_s # "send" => spi_clk_s = 1 /\ clk_cnt = 0 /\ bit_cnt = 0
  /\ spi_clk_s = 0 /\ clk_cnt = 0 => ~spi_clk_falling
  /\ spi_clk_s = 0 /\ clk_cnt > 0 => spi_clk_falling /\ bit_cnt > 0
  /\ spi_clk_s = 1 /\ clk_cnt > 0 => ~spi_clk_falling
  /\ bit_cnt = SpiBits => \/ spi_clk_s = 0 /\ clk_cnt > 0
                          \/ spi_clk_s = 1 /\ clk_cnt = 0 /\ spi_clk_falling
                          \/ spi_clk_s = 1 /\ clk_cnt = 1

LEMMA NoOverflow ==
  ASSUME NEW k \in Nat \ {0}, NEW n \in 0 .. k - 1
  PROVE  n % (2 * k) = n /\ n \in Nat
OBVIOUS

LEMMA OverflowFree ==
  /\ (Divisor - 1) % (2 * Divisor) = Divisor - 1
  /\ ((SpiBits + 1) - 1) % (2 * (SpiBits + 1)) = SpiBits
  /\ \A n \in 0 .. Divisor - 2 : (n + 1) % (2 * Divisor) = n + 1
  /\ \A n \in 0 .. SpiBits - 1 : (n + 1) % (2 * (SpiBits + 1)) = n + 1
<1>1. Divisor \in Nat \ {0} /\ SpiBits + 1 \in Nat \ {0} /\ Divisor - 1 \in 0 .. Divisor - 1
      /\ SpiBits \in 0 .. (SpiBits + 1) - 1
  BY SpiNumbers
<1>2. ((SpiBits + 1) - 1) = SpiBits
  BY SpiNumbers
<1>3. ASSUME NEW n \in 0 .. Divisor - 2 PROVE (n + 1) % (2 * Divisor) = n + 1
  <2>1. n + 1 \in 0 .. Divisor - 1
    BY <1>1, <1>3
  <2>2. QED
    BY <1>1, <2>1, NoOverflow
<1>4. ASSUME NEW n \in 0 .. SpiBits - 1 PROVE (n + 1) % (2 * (SpiBits + 1)) = n + 1
  <2>1. n + 1 \in 0 .. (SpiBits + 1) - 1
    BY <1>1, <1>4
  <2>2. QED
    BY <1>1, <2>1, NoOverflow
<1>5. QED
  BY <1>1, <1>2, <1>3, <1>4, NoOverflow

LEMMA RestingEdge ==
  ASSUME SpiTypes, Clocking, Spi!Tick, state_s # "send"
  PROVE  /\ clk_cnt' = 0 /\ bit_cnt' = 0 /\ spi_clk_s' = 1
         /\ clk_rld' = clk_rld /\ bit_rld' = bit_rld
<1>1. Spi!Spi!Counters /\ Spi!Spi!SpiClk
  BY DEF Spi!Tick, Spi!Spi!Clock
<1>2. clk_cnt = 0 /\ bit_cnt = 0
  BY DEF Clocking
<1>3. clk_cnt' = 0 /\ clk_rld' = clk_rld
  BY <1>1, <1>2 DEF Spi!Spi!Counters, Spi!Spi!ClkCounter!Clock, Spi!Spi!ClkCounter!Reload,
     Spi!Spi!ClkCounter!Held, Spi!Spi!ClkCounter!Count
<1>4. bit_cnt' = 0 /\ bit_rld' = bit_rld
  BY <1>1, <1>2 DEF Spi!Spi!Counters, Spi!Spi!BitCounter!Clock, Spi!Spi!BitCounter!Reload,
     Spi!Spi!BitCounter!Held, Spi!Spi!BitCounter!Count
<1>5. spi_clk_s' = 1
  BY <1>1 DEF Spi!Spi!SpiClk, Spi!Spi!Sending
<1>6. QED
  BY <1>3, <1>4, <1>5

LEMMA BitEdgeIs ==
  ASSUME SpiTypes, Clocking
  PROVE  /\ Spi!Spi!BitEdge <=> state_s = "send" /\ spi_clk_s = 0 /\ clk_cnt = 0
         /\ Spi!Spi!BitEdge => bit_cnt \in 0 .. SpiBits - 1
<1>1. clk_cnt \in Nat /\ bit_cnt \in 0 .. SpiBits
  BY SpiNumbers DEF Clocking
<1>2. Spi!Spi!BitEdge <=> state_s = "send" /\ spi_clk_s = 0 /\ clk_cnt = 0
  BY <1>1 DEF Spi!Spi!BitEdge, Spi!Spi!Sending, Clocking
<1>3. Spi!Spi!BitEdge => bit_cnt # SpiBits
  BY <1>1, <1>2 DEF Clocking
<1>4. QED
  BY <1>1, <1>2, <1>3, SpiNumbers

(* The transfer goes on, or ends in the second edge of a high phase.       *)
LEMMA SendingEdge ==
  ASSUME SpiTypes, Driving, Clocking, Spi!Tick, state_s = "send"
  PROVE  \/ /\ state_s' = "send" /\ (bit_cnt = SpiBits => spi_clk_falling)
            /\ clk_rld' = Divisor - 1 /\ bit_rld' = SpiBits
            /\ clk_cnt' = IF clk_cnt = Divisor - 1 THEN 0 ELSE clk_cnt + 1
            /\ spi_clk_s' = IF clk_cnt = Divisor - 1 THEN 1 - spi_clk_s ELSE spi_clk_s
            /\ bit_cnt' = IF Spi!Spi!BitEdge THEN bit_cnt + 1 ELSE bit_cnt
         \/ /\ state_s' = "hold1" /\ bit_cnt = SpiBits /\ spi_clk_s = 1
            /\ clk_rld' = Divisor - 1 /\ bit_rld' = SpiBits
            /\ clk_cnt' = 0 /\ bit_cnt' = 0 /\ spi_clk_s' = 1
<1>1. Spi!Spi!Counters /\ Spi!Spi!SpiClk
  BY DEF Spi!Tick, Spi!Spi!Clock
<1>2. clk_cnt \in 0 .. Divisor - 1 /\ bit_cnt \in 0 .. SpiBits
      /\ Divisor - 1 # 0 /\ SpiBits # 0 /\ 0 < Divisor - 1
  BY SpiNumbers DEF Clocking
<1>3. Spi!Spi!spi_stb_s <=> clk_cnt = Divisor - 1
  <2>1. clk_cnt = Divisor - 1 => clk_rld = Divisor - 1
    BY <1>2 DEF Clocking
  <2>2. clk_rld \in {0, Divisor - 1}
    BY DEF Clocking
  <2>3. QED
    BY <1>2, <2>1, <2>2
       DEF Spi!Spi!spi_stb_s, Spi!Spi!ClkCounter!Overflow, Spi!Spi!ClkCounter!AtEndUp
<1>4. Spi!Spi!spi_ack_s <=> bit_cnt = SpiBits
  <2>1. bit_cnt = SpiBits => bit_rld = SpiBits
    BY <1>2, SpiNumbers DEF Clocking
  <2>2. bit_rld \in {0, SpiBits}
    BY DEF Clocking
  <2>3. QED
    BY <1>2, <2>1, <2>2
       DEF Spi!Spi!spi_ack_s, Spi!Spi!BitCounter!Overflow, Spi!Spi!BitCounter!AtEndUp
<1>5. clk_rld' = Divisor - 1 /\ bit_rld' = SpiBits
  <2>1. clk_rld' = (Divisor - 1) % (2 * Divisor)
    BY <1>1, Zenon DEF Spi!Spi!Counters, Spi!Spi!ClkCounter!Clock, Spi!Spi!ClkCounter!Reload
  <2>2. bit_rld' = ((SpiBits + 1) - 1) % (2 * (SpiBits + 1))
    BY <1>1, Zenon DEF Spi!Spi!Counters, Spi!Spi!BitCounter!Clock, Spi!Spi!BitCounter!Reload
  <2>3. QED
    BY <2>1, <2>2, OverflowFree, Zenon
<1>6. En /\ ~Rst /\ ~finished
  BY DEF Driving, Enabled, Transferring
<1>7. En' /\ ~Rst'
  BY <1>6, Moves, Accesses DEF Waits, Enables, Finishes, Uses, Clears, En, Rst
<1>8. state_s' = IF bit_cnt = SpiBits /\ ~spi_clk_falling THEN "hold1" ELSE "send"
  BY <1>4, <1>6, <1>7 DEF Spi!Tick, Spi!Spi!Clock, Spi!Spi!NextState, En, Rst
<1>9. CASE bit_cnt = SpiBits /\ ~spi_clk_falling
  <2>1. state_s' = "hold1"
    BY <1>8, <1>9
  <2>2. spi_clk_s = 1
    BY <1>9 DEF Clocking
  <2>3. clk_cnt' = 0 /\ bit_cnt' = 0
    BY <1>1, <2>1 DEF Spi!Spi!Counters, Spi!Spi!ClkCounter!Clock, Spi!Spi!ClkCounter!Held,
       Spi!Spi!BitCounter!Clock, Spi!Spi!BitCounter!Held
  <2>4. spi_clk_s' = 1
    BY <1>1, <2>1 DEF Spi!Spi!SpiClk
  <2>5. QED
    BY <1>5, <1>9, <2>1, <2>2, <2>3, <2>4
<1>10. CASE ~(bit_cnt = SpiBits /\ ~spi_clk_falling)
  <2>1. state_s' = "send"
    BY <1>8, <1>10
  <2>2. clk_cnt' = IF Spi!Spi!spi_stb_s THEN 0 ELSE (clk_cnt + 1) % (2 * Divisor)
    BY <1>1, <2>1 DEF Spi!Spi!Counters, Spi!Spi!ClkCounter!Clock, Spi!Spi!ClkCounter!Count,
       Spi!Spi!ClkCounter!CountUp, Spi!Spi!spi_stb_s, Spi!Spi!ClkCounter!Overflow,
       Spi!Spi!Sending
  <2>3. clk_cnt' = IF clk_cnt = Divisor - 1 THEN 0 ELSE clk_cnt + 1
    <3>1. clk_cnt # Divisor - 1 => clk_cnt \in 0 .. Divisor - 2
      BY <1>2, SpiNumbers
    <3>2. QED
      BY <1>3, <2>2, <3>1, OverflowFree
  <2>4. bit_cnt' = IF ~Spi!Spi!BitEdge THEN bit_cnt
                   ELSE IF Spi!Spi!spi_ack_s THEN 0 ELSE (bit_cnt + 1) % (2 * (SpiBits + 1))
    BY <1>1, <2>1 DEF Spi!Spi!Counters, Spi!Spi!BitCounter!Clock, Spi!Spi!BitCounter!Count,
       Spi!Spi!BitCounter!CountUp, Spi!Spi!spi_ack_s, Spi!Spi!BitCounter!Overflow
  <2>5. bit_cnt' = IF Spi!Spi!BitEdge THEN bit_cnt + 1 ELSE bit_cnt
    <3>1. CASE Spi!Spi!BitEdge
      <4>1. bit_cnt \in 0 .. SpiBits - 1 /\ bit_cnt # SpiBits
        BY <3>1, BitEdgeIs, SpiNumbers
      <4>2. QED
        BY <1>4, <2>4, <3>1, <4>1, OverflowFree
    <3>2. CASE ~Spi!Spi!BitEdge
      BY <2>4, <3>2
    <3>3. QED
      BY <3>1, <3>2
  <2>6. spi_clk_s' = IF clk_cnt = Divisor - 1 THEN 1 - spi_clk_s ELSE spi_clk_s
    BY <1>1, <1>3, <2>1 DEF Spi!Spi!SpiClk, Spi!Spi!Sending
  <2>7. QED
    BY <1>5, <1>10, <2>1, <2>3, <2>5, <2>6 DEF SpiTypes
<1>11. QED
  BY <1>9, <1>10

LEMMA PhaseServed ==
  ASSUME SpiTypes, Clocking, Spi!Tick, state_s = "send"
  PROVE  (spi_clk_s = 0 => spi_clk_falling') /\ (spi_clk_s = 1 => ~spi_clk_falling')
<1>1. Spi!Spi!Shift(dat_is, Spi!MISO)
  BY DEF Spi!Tick, Spi!Spi!Clock
<1>2. spi_clk_falling' = CASE Spi!Spi!BitEdge -> TRUE
                           [] Spi!Spi!Sending /\ spi_clk_s = 1 -> FALSE
                           [] OTHER -> spi_clk_falling
  BY <1>1 DEF Spi!Spi!Shift
<1>3. CASE spi_clk_s = 1
  <2>1. ~Spi!Spi!BitEdge /\ Spi!Spi!Sending
    BY <1>3 DEF Spi!Spi!BitEdge, Spi!Spi!Sending
  <2>2. spi_clk_falling' = FALSE
    BY <1>2, <1>3, <2>1
  <2>3. QED
    BY <1>3, <2>2
<1>4. CASE spi_clk_s = 0 /\ Spi!Spi!BitEdge
  <2>1. spi_clk_falling' = TRUE
    BY <1>2, <1>4
  <2>2. QED
    BY <1>4, <2>1
<1>5. CASE spi_clk_s = 0 /\ ~Spi!Spi!BitEdge
  <2>1. spi_clk_falling' = spi_clk_falling
    BY <1>2, <1>5
  <2>2. spi_clk_falling
    BY <1>5 DEF Spi!Spi!BitEdge, Spi!Spi!Sending
  <2>3. QED
    BY <1>5, <2>1, <2>2
<1>6. QED
  BY <1>3, <1>4, <1>5 DEF SpiTypes

LEMMA ClockingTick ==
  ASSUME SpiTypes, Driving, Clocking, Spi!Tick
  PROVE  Clocking'
<1>1. CASE state_s # "send"
  BY <1>1, RestingEdge, SpiNumbers DEF Clocking
<1>2. CASE state_s = "send" /\ state_s' # "send"
  BY <1>2, SendingEdge, SpiNumbers DEF Clocking
<1>3. CASE state_s = "send" /\ state_s' = "send"
  <2>1. PICK c \in 0 .. Divisor - 1, b \in 0 .. SpiBits, s \in {0, 1} :
             c = clk_cnt /\ b = bit_cnt /\ s = spi_clk_s
    BY DEF Clocking, SpiTypes
  <2>2. PICK cc \in 0 .. Divisor - 1, bb \in 0 .. SpiBits, ss \in {0, 1} :
             /\ cc = clk_cnt' /\ bb = bit_cnt' /\ ss = spi_clk_s'
             /\ cc = IF c = Divisor - 1 THEN 0 ELSE c + 1
             /\ ss = IF c = Divisor - 1 THEN 1 - s ELSE s
             /\ bb = IF s = 0 /\ c = 0 THEN b + 1 ELSE b
             /\ b = SpiBits => spi_clk_falling
    <3>1. /\ clk_cnt' = IF c = Divisor - 1 THEN 0 ELSE c + 1
          /\ spi_clk_s' = IF c = Divisor - 1 THEN 1 - s ELSE s
          /\ bit_cnt' = IF s = 0 /\ c = 0 THEN b + 1 ELSE b
          /\ b = SpiBits => spi_clk_falling
      BY <1>3, <2>1, SendingEdge, BitEdgeIs
    <3>2. s = 0 /\ c = 0 => b \in 0 .. SpiBits - 1
      BY <1>3, <2>1, BitEdgeIs
    <3>3. /\ (IF c = Divisor - 1 THEN 0 ELSE c + 1) \in 0 .. Divisor - 1
          /\ (IF c = Divisor - 1 THEN 1 - s ELSE s) \in {0, 1}
          /\ (IF s = 0 /\ c = 0 THEN b + 1 ELSE b) \in 0 .. SpiBits
      BY <3>2, SpiNumbers
    <3>4. QED
      BY <3>1, <3>3
  <2>3. clk_rld' = Divisor - 1 /\ bit_rld' = SpiBits
    BY <1>3, SendingEdge
  <2>4. (s = 0 => spi_clk_falling') /\ (s = 1 => ~spi_clk_falling')
    BY <1>3, <2>1, PhaseServed
  <2>5. /\ s = 0 /\ c > 0 => b > 0
        /\ s = 1 /\ c > 0 => ~spi_clk_falling
    BY <2>1 DEF Clocking
  <2>6. /\ ss = 0 /\ cc = 0 => s = 1
        /\ ss = 0 /\ cc > 0 => s = 0 /\ bb > 0
        /\ ss = 1 /\ cc > 0 => s = 1
        /\ bb = SpiBits => \/ ss = 0 /\ cc > 0
                           \/ ss = 1 /\ cc = 0 /\ s = 0
                           \/ ss = 1 /\ cc = 1
    BY <2>2, <2>5, SpiNumbers
  <2>7. QED
    BY <1>3, <2>2, <2>3, <2>4, <2>6 DEF Clocking
<1>4. QED
  BY <1>1, <1>2, <1>3

LEMMA ClockingReset ==
  ASSUME Clocking, Spi!Reset
  PROVE  Clocking'
BY SpiNumbers DEF Clocking, Spi!Reset, Spi!Spi!Reset

LEMMA ClockingInit == Spi!Init => Clocking
BY SpiNumbers DEF Clocking, Spi!Init, Spi!Spi!Init, Spi!Spi!ClkCounter!Init, Spi!Spi!BitCounter!Init

-----------------------------------------------------------------------------
(* The words on their way.  BitsOut bits have left the shift register and  *)
(* as many have come in; the device took and showed BitsIn of them, one    *)
(* fewer during a low phase.                                               *)
BitsOut == IF state_s = "send" THEN bit_cnt ELSE SpiBits
BitsIn  == IF spi_clk_s = 0 /\ clk_cnt > 0 THEN BitsOut - 1 ELSE BitsOut

Swapped(out, in) ==
  /\ replied \in Words
  /\ Len(dev_in) = in /\ \A i \in 1 .. in : dev_in[i] = sent[i]
  /\ Len(dev_out) = SpiBits - in /\ \A i \in 1 .. SpiBits - in : dev_out[i] = replied[i + in]
  /\ \A i \in 1 .. SpiBits :
       fifo_s[i] = IF i <= SpiBits - out THEN sent[i + out] ELSE replied[i - (SpiBits - out)]
  /\ in # out => MOSI = sent[out]

OnesBehind(out) == \A i \in 1 .. SpiBits : i > SpiBits - out => fifo_s[i] = 1

Exchanging ==
  /\ Spi!CS = 1 => dev_in = <<>> /\ dev_out = <<>>
  /\ state_s = "idle" /\ En /\ aligned /\ Spi!CS = 0 => dev_in = <<>> /\ dev_out \in Words
  /\ Transferring /\ aligned /\ Spi!CS = 0 => Swapped(BitsOut, BitsIn)
  /\ Transferring /\ Spi!CS = 1 => OnesBehind(BitsOut)

LEMMA BitGoesOut ==
  ASSUME SpiTypes, NEW b \in 0 .. SpiBits - 1, Swapped(b, b),
         fifo_s' = Append(Tail(fifo_s), Spi!MISO), MOSI' = Head(fifo_s),
         UNCHANGED <<dev_in, dev_out, sent, replied>>
  PROVE  Swapped(b + 1, b)'
<1>1. b \in Nat /\ b < SpiBits /\ SpiBits \in Nat
  BY SpiNumbers
<1>2. dev_out \in Seq({0, 1}) /\ Len(dev_out) = SpiBits - b /\ Len(dev_out) > 0
  BY <1>1 DEF SpiTypes, Swapped
<1>3. Spi!MISO = dev_out[1]
  BY <1>2, HeadIsFirst DEF Spi!MISO
<1>4. dev_out[1] = replied[b + 1]
  BY <1>1 DEF Swapped
<1>5. Head(fifo_s) = fifo_s[1]
  BY HeadOfWord DEF SpiTypes
<1>6. fifo_s[1] = sent[b + 1]
  BY <1>1 DEF Swapped
<1>7. \A i \in 1 .. SpiBits : fifo_s'[i] = IF i = SpiBits THEN replied[b + 1] ELSE fifo_s[i + 1]
  BY <1>3, <1>4, BitOfDevice, WordShifts DEF SpiTypes
<1>8. ASSUME NEW i \in 1 .. SpiBits
      PROVE  fifo_s'[i] = IF i <= SpiBits - (b + 1) THEN sent[i + (b + 1)]
                          ELSE replied[i - (SpiBits - (b + 1))]
  <2>1. CASE i = SpiBits
    <3>1. ~(i <= SpiBits - (b + 1)) /\ i - (SpiBits - (b + 1)) = b + 1
      BY <1>1, <2>1
    <3>2. QED
      BY <1>7, <2>1, <3>1
  <2>2. CASE i # SpiBits
    <3>1. i + 1 \in 1 .. SpiBits
      BY <2>2, SpiNumbers
    <3>2. fifo_s[i + 1] = IF i + 1 <= SpiBits - b THEN sent[i + 1 + b]
                          ELSE replied[i + 1 - (SpiBits - b)]
      BY <3>1 DEF Swapped
    <3>3. /\ (i + 1 <= SpiBits - b <=> i <= SpiBits - (b + 1))
          /\ i + 1 + b = i + (b + 1) /\ i + 1 - (SpiBits - b) = i - (SpiBits - (b + 1))
      BY <1>1
    <3>4. fifo_s'[i] = fifo_s[i + 1]
      BY <1>7, <2>2
    <3>5. QED
      BY <3>2, <3>3, <3>4
  <2>3. QED
    BY <2>1, <2>2
<1>9. QED
  BY <1>5, <1>6, <1>8 DEF Swapped

LEMMA BitComesIn ==
  ASSUME SpiTypes, NEW b \in 1 .. SpiBits, Swapped(b, b - 1),
         dev_in' = Append(dev_in, MOSI), dev_out' = Tail(dev_out),
         UNCHANGED <<fifo_s, sent, replied>>
  PROVE  Swapped(b, b)'
<1>1. b \in Nat /\ b > 0 /\ b <= SpiBits /\ SpiBits \in Nat
  BY SpiNumbers
<1>2. dev_in \in Seq({0, 1}) /\ Len(dev_in) = b - 1 /\ MOSI \in {0, 1} /\ MOSI = sent[b]
  BY <1>1 DEF SpiTypes, Swapped
<1>3. /\ Len(dev_in') = b
      /\ \A i \in 1 .. b - 1 : dev_in'[i] = dev_in[i]
      /\ dev_in'[b] = sent[b]
  BY <1>1, <1>2, AppendProperties
<1>4. ASSUME NEW i \in 1 .. b PROVE dev_in'[i] = sent[i]
  <2>1. i = b \/ i \in 1 .. b - 1
    OBVIOUS
  <2>2. QED
    BY <1>3, <2>1 DEF Swapped
<1>5. /\ dev_out \in Seq({0, 1}) /\ Len(dev_out) = SpiBits - (b - 1) /\ Len(dev_out) > 0
      /\ \A i \in 1 .. SpiBits - (b - 1) : dev_out[i] = replied[i + (b - 1)]
  BY <1>1 DEF SpiTypes, Swapped
<1>6. dev_out # <<>>
  BY <1>5, HeadIsFirst
<1>7. /\ Len(dev_out') = SpiBits - b
      /\ \A i \in 1 .. SpiBits - b : dev_out'[i] = dev_out[i + 1]
  <2>1. /\ Len(Tail(dev_out)) = Len(dev_out) - 1
        /\ \A i \in 1 .. Len(dev_out) - 1 : Tail(dev_out)[i] = dev_out[i + 1]
    BY <1>5, <1>6, HeadTailProperties
  <2>2. Len(dev_out) - 1 = SpiBits - b
    BY <1>1, <1>5
  <2>3. QED
    BY <2>1, <2>2
<1>8. ASSUME NEW i \in 1 .. SpiBits - b PROVE dev_out'[i] = replied[i + b]
  <2>1. i + 1 \in 1 .. SpiBits - (b - 1) /\ i + 1 + (b - 1) = i + b
    BY <1>1
  <2>2. dev_out[i + 1] = replied[i + 1 + (b - 1)]
    BY <1>5, <2>1
  <2>3. QED
    BY <1>7, <2>1, <2>2
<1>9. QED
  BY <1>3, <1>4, <1>7, <1>8 DEF Swapped

LEMMA ShiftRegister ==
  ASSUME Spi!Tick, state_s # "idle"
  PROVE  /\ ~Spi!Spi!BitEdge => fifo_s' = fifo_s /\ MOSI' = MOSI
         /\ Spi!Spi!BitEdge => fifo_s' = Append(Tail(fifo_s), Spi!MISO) /\ MOSI' = Head(fifo_s)
         /\ sent' = sent /\ replied' = replied
<1>1. Spi!Spi!Shift(dat_is, Spi!MISO) /\ Spi!Observe
  BY DEF Spi!Tick, Spi!Spi!Clock
<1>2. QED
  BY <1>1 DEF Spi!Spi!Shift, Spi!Observe, Spi!Begins

LEMMA DeviceExchanges ==
  ASSUME Spi!Tick, Spi!CS = 0, Spi!CS' = 0
  PROVE  /\ ~Spi!Rises => dev_in' = dev_in /\ dev_out' = dev_out
         /\ Spi!Rises => /\ Len(dev_in) <= SpiBits => dev_in' = Append(dev_in, MOSI)
                         /\ dev_out # <<>> => dev_out' = Tail(dev_out)
BY DEF Spi!Tick, Spi!Device, Spi!Unselected, Spi!Selected, Spi!Exchange

LEMMA StillSwapped ==
  ASSUME NEW o, NEW i, Swapped(o, i),
         UNCHANGED <<dev_in, dev_out, fifo_s, MOSI, sent, replied>>
  PROVE  Swapped(o, i)'
BY DEF Swapped

LEMMA SwappedStep ==
  ASSUME SpiTypes, Driving, Clocking, Spi!Tick, Transferring, Transferring',
         Spi!CS = 0, Spi!CS' = 0, Swapped(BitsOut, BitsIn)
  PROVE  Swapped(BitsOut, BitsIn)'
<1>1. state_s # "idle"
  BY DEF Transferring
<1>2. SpiBits \in Nat /\ SpiBits > 1 /\ Divisor \in Nat /\ Divisor > 2
  BY SpiNumbers
<1>3. CASE state_s # "send"
  <2>1. spi_clk_s = 1 /\ spi_clk_s' = 1 /\ clk_cnt' = 0
    BY <1>3, RestingEdge DEF Clocking
  <2>2. state_s' # "send"
    BY <1>1, <1>3, ControllerMoves DEF Transferring
  <2>3. BitsOut = SpiBits /\ BitsIn = SpiBits
    BY <1>3, <2>1 DEF BitsOut, BitsIn
  <2>4. BitsOut' = SpiBits /\ BitsIn' = SpiBits
    BY <2>1, <2>2 DEF BitsOut, BitsIn
  <2>5. ~Spi!Spi!BitEdge /\ ~Spi!Rises
    BY <2>1 DEF Spi!Spi!BitEdge, Spi!Rises
  <2>6. UNCHANGED <<dev_in, dev_out, fifo_s, MOSI, sent, replied>>
    BY <1>1, <2>5, ShiftRegister, DeviceExchanges
  <2>7. Swapped(SpiBits, SpiBits)'
    BY <2>3, <2>6, StillSwapped
  <2>8. QED
    BY <2>4, <2>7 DEF Swapped
<1>4. CASE state_s = "send" /\ state_s' # "send"
  <2>1. bit_cnt = SpiBits /\ spi_clk_s = 1 /\ spi_clk_s' = 1 /\ clk_cnt' = 0
    BY <1>4, SendingEdge
  <2>3. BitsOut = SpiBits /\ BitsIn = SpiBits
    BY <1>4, <2>1 DEF BitsOut, BitsIn
  <2>4. BitsOut' = SpiBits /\ BitsIn' = SpiBits
    BY <1>4, <2>1 DEF BitsOut, BitsIn
  <2>5. ~Spi!Spi!BitEdge /\ ~Spi!Rises
    BY <2>1 DEF Spi!Spi!BitEdge, Spi!Rises
  <2>6. UNCHANGED <<dev_in, dev_out, fifo_s, MOSI, sent, replied>>
    BY <1>1, <2>5, ShiftRegister, DeviceExchanges
  <2>7. Swapped(SpiBits, SpiBits)'
    BY <2>3, <2>6, StillSwapped
  <2>8. QED
    BY <2>4, <2>7 DEF Swapped
<1>5. CASE state_s = "send" /\ state_s' = "send"
  <2>1. PICK c \in 0 .. Divisor - 1, b \in 0 .. SpiBits, s \in {0, 1} :
             c = clk_cnt /\ b = bit_cnt /\ s = spi_clk_s
    BY DEF Clocking, SpiTypes
  <2>2. /\ clk_cnt' = IF c = Divisor - 1 THEN 0 ELSE c + 1
        /\ spi_clk_s' = IF c = Divisor - 1 THEN 1 - s ELSE s
        /\ bit_cnt' = IF s = 0 /\ c = 0 THEN b + 1 ELSE b
    BY <1>5, <2>1, SendingEdge, BitEdgeIs
  <2>3. BitsOut = b /\ BitsIn = IF s = 0 /\ c > 0 THEN b - 1 ELSE b
    BY <1>5, <2>1 DEF BitsOut, BitsIn
  <2>4. CASE s = 0 /\ c = 0
    <3>1. Spi!Spi!BitEdge /\ b \in 0 .. SpiBits - 1
      BY <1>5, <2>1, <2>4, BitEdgeIs
    <3>2. clk_cnt' = 1 /\ spi_clk_s' = 0 /\ bit_cnt' = b + 1
      BY <1>2, <2>2, <2>4
    <3>3. BitsOut' = b + 1 /\ BitsIn' = b
      BY <1>5, <3>2 DEF BitsOut, BitsIn
    <3>4. ~Spi!Rises
      BY <3>2 DEF Spi!Rises
    <3>5. Swapped(b, b)
      BY <2>3, <2>4
    <3>6. Swapped(b + 1, b)'
      BY <1>1, <3>1, <3>4, <3>5, ShiftRegister, DeviceExchanges, BitGoesOut
    <3>7. QED
      BY <3>3, <3>6 DEF Swapped
  <2>5. ~(s = 0 /\ c = 0) => ~Spi!Spi!BitEdge
    BY <2>1, BitEdgeIs
  <2>6. CASE s = 0 /\ c = Divisor - 1
    <3>1. c > 0 /\ ~Spi!Spi!BitEdge
      BY <1>2, <2>5, <2>6
    <3>2. b \in 1 .. SpiBits
      BY <2>1, <2>6, <3>1 DEF Clocking
    <3>3. clk_cnt' = 0 /\ spi_clk_s' = 1 /\ bit_cnt' = b
      BY <2>2, <2>6, <3>1
    <3>4. BitsOut' = b /\ BitsIn' = b
      BY <1>5, <3>3 DEF BitsOut, BitsIn
    <3>5. Spi!Rises
      BY <2>1, <2>6, <3>3 DEF Spi!Rises
    <3>6. Swapped(b, b - 1)
      BY <2>3, <2>6, <3>1
    <3>7. Len(dev_in) <= SpiBits /\ dev_out # <<>>
      <4>1. Len(dev_in) = b - 1 /\ Len(dev_out) = SpiBits - (b - 1) /\ b - 1 <= SpiBits
            /\ SpiBits - (b - 1) > 0 /\ dev_out \in Seq({0, 1})
        BY <1>2, <3>2, <3>6 DEF Swapped, SpiTypes
      <4>2. Len(dev_out) > 0
        BY <4>1
      <4>3. QED
        BY <4>1, <4>2, HeadIsFirst
    <3>8. Swapped(b, b)'
      BY <1>1, <3>1, <3>2, <3>5, <3>6, <3>7, ShiftRegister, DeviceExchanges, BitComesIn
    <3>9. QED
      BY <3>4, <3>8 DEF Swapped
  <2>7. CASE ~(s = 0 /\ c = 0) /\ ~(s = 0 /\ c = Divisor - 1)
    <3>1. bit_cnt' = b /\ (s = 0 => spi_clk_s' = 0 /\ clk_cnt' = c + 1)
      BY <2>2, <2>7
    <3>2. s = 1 => spi_clk_s' = 1 \/ clk_cnt' = 0
      BY <2>2
    <3>3. BitsOut' = b /\ BitsIn' = IF s = 0 /\ c > 0 THEN b - 1 ELSE b
      <4>1. BitsOut' = b
        BY <1>5, <3>1 DEF BitsOut
      <4>2. CASE s = 0
        <5>1. c > 0 /\ c + 1 > 0
          BY <2>7, <4>2
        <5>2. BitsIn' = b - 1
          BY <3>1, <4>1, <4>2, <5>1 DEF BitsIn
        <5>3. QED
          BY <4>1, <4>2, <5>1, <5>2
      <4>3. CASE s = 1
        <5>1. ~(spi_clk_s = 0 /\ clk_cnt > 0)'
          BY <3>2, <4>3
        <5>2. BitsIn' = b
          BY <4>1, <5>1 DEF BitsIn
        <5>3. QED
          BY <4>1, <4>3, <5>2
      <4>4. QED
        BY <4>2, <4>3
    <3>4. ~Spi!Rises
      BY <2>1, <3>1 DEF Spi!Rises
    <3>5. UNCHANGED <<dev_in, dev_out, fifo_s, MOSI, sent, replied>>
      BY <1>1, <2>5, <2>7, <3>4, ShiftRegister, DeviceExchanges
    <3>6. BitsOut' = BitsOut /\ BitsIn' = BitsIn
      BY <2>3, <3>3
    <3>7. Swapped(BitsOut, BitsIn)'
      BY <3>5, <3>6, Zenon DEF Swapped
    <3>8. QED
      BY <3>7
  <2>8. QED
    BY <2>4, <2>6, <2>7
<1>6. QED
  BY <1>3, <1>4, <1>5

(* Nobody is addressed: nobody answers, and ones come in. *)
LEMMA OnesStep ==
  ASSUME SpiTypes, Driving, Clocking, Spi!Tick, Transferring, Transferring',
         dev_out = <<>>, OnesBehind(BitsOut)
  PROVE  OnesBehind(BitsOut)'
<1>1. state_s # "idle"
  BY DEF Transferring
<1>2. Spi!MISO = 1
  BY DEF Spi!MISO
<1>3. PICK b \in 0 .. SpiBits : b = BitsOut
  BY SpiNumbers DEF BitsOut, Clocking
<1>4. CASE ~Spi!Spi!BitEdge
  <2>1. fifo_s' = fifo_s
    BY <1>1, <1>4, ShiftRegister
  <2>2. BitsOut' = BitsOut
    <3>1. CASE state_s # "send"
      <4>1. state_s' # "send"
        BY <1>1, <3>1, ControllerMoves DEF Transferring
      <4>2. QED
        BY <3>1, <4>1 DEF BitsOut
    <3>2. CASE state_s = "send"
      BY <1>4, <3>2, SendingEdge DEF BitsOut
    <3>3. QED
      BY <3>1, <3>2
  <2>3. QED
    BY <2>1, <2>2 DEF OnesBehind
<1>5. CASE Spi!Spi!BitEdge
  <2>1. /\ state_s = "send" /\ spi_clk_s = 0 /\ bit_cnt \in 0 .. SpiBits - 1
        /\ bit_cnt # SpiBits /\ b = bit_cnt
    BY <1>3, <1>5, BitEdgeIs, SpiNumbers DEF BitsOut
  <2>2. BitsOut' = b + 1
    BY <1>5, <2>1, SendingEdge DEF BitsOut
  <2>3. \A i \in 1 .. SpiBits : fifo_s'[i] = IF i = SpiBits THEN 1 ELSE fifo_s[i + 1]
    <3>1. fifo_s' = Append(Tail(fifo_s), 1)
      BY <1>1, <1>2, <1>5, ShiftRegister
    <3>2. fifo_s \in Spi!Word /\ 1 \in {0, 1}
      BY DEF SpiTypes
    <3>3. \A i \in 1 .. SpiBits :
            Append(Tail(fifo_s), 1)[i] = IF i = SpiBits THEN 1 ELSE fifo_s[i + 1]
      BY <3>2, WordShifts
    <3>4. QED
      BY <3>1, <3>3
  <2>4. ASSUME NEW i \in 1 .. SpiBits, i > SpiBits - (b + 1) PROVE fifo_s'[i] = 1
    <3>1. i = SpiBits \/ (i # SpiBits /\ i + 1 \in 1 .. SpiBits /\ i + 1 > SpiBits - b)
      BY <2>4, SpiNumbers
    <3>2. i + 1 \in 1 .. SpiBits /\ i + 1 > SpiBits - b => fifo_s[i + 1] = 1
      BY <1>3 DEF OnesBehind
    <3>3. QED
      BY <2>3, <3>1, <3>2
  <2>5. QED
    BY <2>2, <2>4 DEF OnesBehind
<1>6. QED
  BY <1>4, <1>5

(* A transfer starts one edge after the enable bit is up. *)
LEMMA JustEnabled ==
  ASSUME SpiTypes, Driving, Spi!Tick, state_s' = "idle", En'
  PROVE  state_s = "idle" /\ ~En
<1>1. CASE Waits
  <2>1. En' = En /\ Rst' = Rst
    BY <1>1 DEF Waits, En, Rst
  <2>2. En /\ ~Rst /\ ~Rst'
    BY <2>1 DEF Driving, Enabled
  <2>3. QED
    BY <2>2, ControllerMoves DEF SpiTypes, Spi!Spi!States
<1>2. CASE Enables
  <2>1. ~Rst'
    BY <1>2, Accesses DEF Enables, Rst
  <2>2. CASE Rst
    BY <2>2 DEF Driving, Enabled
  <2>3. CASE ~Rst
    <3>1. (state_s = "idle" \/ state_s = "done") /\ ~En
      BY <2>1, <2>3, ControllerMoves DEF SpiTypes, Spi!Spi!States
    <3>2. QED
      BY <1>2, <3>1, Distinct DEF Enables, Driving, Enabled
  <2>4. QED
    BY <2>2, <2>3
<1>3. CASE Finishes
  <2>1. En /\ ~Rst /\ ~Rst'
    BY <1>3, Accesses, Distinct DEF Finishes, Driving, Enabled, Rst
  <2>2. QED
    BY <1>3, <2>1, ControllerMoves DEF Finishes
<1>4. CASE Uses
  <2>1. state_s = "done" /\ En
    BY <1>4 DEF Uses, Driving, Enabled, Left
  <2>2. ~Rst /\ ~Rst'
    BY <1>4, <2>1 DEF Uses, Driving, Enabled, Rst
  <2>3. QED
    BY <2>1, <2>2, ControllerMoves
<1>5. CASE Clears
  BY <1>5, Accesses DEF Clears, En
<1>6. QED
  BY <1>1, <1>2, <1>3, <1>4, <1>5, Moves

SelectOf == IF adr_s # 0 \/ (state_s = "idle" /\ ~En) THEN 1 ELSE 0

LEMMA SelectIs == Spi!CS = SelectOf
BY DEF Spi!CS, Spi!Spi!CS, SelectOf, En

(* A transfer starts, with the words as they are. *)
LEMMA TransferStarts ==
  ASSUME SpiTypes, Driving, Clocking, Exchanging, Spi!Tick, ~Transferring, Transferring'
  PROVE  /\ BitsOut' = 0 /\ BitsIn' = 0
         /\ aligned' /\ Spi!CS' = 0 => Swapped(0, 0)'
<1>1. state_s = "idle" /\ En /\ ~Rst /\ ~Rst' /\ state_s' = "send"
  BY ControllerMoves DEF Transferring, SpiTypes, Spi!Spi!States
<1>2. bit_cnt' = 0 /\ spi_clk_s = 1 /\ spi_clk_s' = 1
  BY <1>1, RestingEdge DEF Clocking
<1>3. BitsOut' = 0 /\ BitsIn' = 0
  BY <1>1, <1>2 DEF BitsOut, BitsIn
<1>4. ASSUME aligned', Spi!CS' = 0 PROVE Swapped(0, 0)'
  <2>1. aligned
    <3>1. aligned' = (aligned \/ Spi!CS' = 1)
      BY DEF Spi!Tick, Spi!Observe
    <3>2. Spi!CS' # 1
      BY <1>4
    <3>3. QED
      BY <1>4, <3>1, <3>2, Zenon
  <2>2. adr_s' = 0 /\ adr_s' = Adr /\ adr_s \in {0, Adr}
    <3>1. adr_s' = 0
      BY <1>4, SelectIs DEF Spi!CS, Spi!Spi!CS
    <3>2. QED
      BY <1>1, <3>1, ControllerMoves DEF Driving, Enabled
  <2>3. Spi!CS = 0
    BY <1>1, <2>2, SelectIs DEF SelectOf
  <2>4. dev_in = <<>> /\ dev_out \in Words
    BY <1>1, <2>1, <2>3 DEF Exchanging
  <2>5. dev_in' = dev_in /\ dev_out' = dev_out
    <3>1. ~Spi!Rises
      BY <1>2 DEF Spi!Rises
    <3>2. QED
      BY <1>4, <2>3, <3>1, DeviceExchanges
  <2>6. replied' = dev_out /\ sent' = dat_is /\ fifo_s' = dat_is
    <3>1. Spi!Observe /\ Spi!Spi!Shift(dat_is, Spi!MISO)
      BY DEF Spi!Tick, Spi!Spi!Clock
    <3>2. ~Spi!Spi!BitEdge
      BY <1>1 DEF Spi!Spi!BitEdge, Spi!Spi!Sending
    <3>3. fifo_s' = dat_is
      BY <1>1, <3>1, <3>2 DEF Spi!Spi!Shift
    <3>4. QED
      BY <1>1, <3>1, <3>3 DEF Spi!Observe, Spi!Begins
  <2>7. dev_out \in [1 .. SpiBits -> {0, 1}]
    BY <2>4, SpiNumbers
  <2>8. Len(dev_out) = SpiBits /\ Len(<<>>) = 0
    BY <2>7, SpiNumbers, WordIsSeq
  <2>9. SpiBits \in Nat
    BY SpiNumbers
  <2>10. QED
    BY <2>4, <2>5, <2>6, <2>8, <2>9 DEF Swapped
<1>5. QED
  BY <1>3, <1>4

LEMMA SelectKept ==
  ASSUME SpiTypes, Driving, Spi!Tick, Transferring, Transferring'
  PROVE  Spi!CS' = Spi!CS
<1>1. state_s # "idle" /\ state_s' # "idle" /\ adr_s = Adr
  BY DEF Transferring, Driving, Enabled
<1>2. adr_s' = Adr
  BY <1>1, ControllerMoves
<1>3. QED
  BY <1>1, <1>2 DEF Spi!CS, Spi!Spi!CS

LEMMA ExchangingTick ==
  ASSUME SpiTypes, Driving, Clocking, Exchanging, Spi!Tick
  PROVE  Exchanging'
<1>1. Spi!Device /\ Spi!Observe
  BY DEF Spi!Tick
<1>2. Spi!CS \in {0, 1}
  BY SelectIs DEF SelectOf
<1>3. Spi!CS' = 1 => dev_in' = <<>> /\ dev_out' = <<>>
  BY <1>1 DEF Spi!Device, Spi!Unselected, Spi!Selected, Spi!Exchange
<1>4. ASSUME state_s' = "idle", En', Spi!CS' = 0
      PROVE  dev_in' = <<>> /\ dev_out' \in Words
  <2>1. Spi!CS = 1
    BY <1>4, JustEnabled, SelectIs DEF SelectOf
  <2>2. QED
    BY <1>1, <1>4, <2>1 DEF Spi!Device, Spi!Unselected, Spi!Selected, Spi!Exchange
<1>5. ASSUME Transferring', aligned', Spi!CS' = 0
      PROVE  Swapped(BitsOut, BitsIn)'
  <2>1. CASE ~Transferring
    BY <1>5, <2>1, TransferStarts DEF Swapped
  <2>2. CASE Transferring
    <3>1. Spi!CS = 0
      BY <1>5, <2>2, SelectKept
    <3>2. aligned
      <4>1. aligned' = (aligned \/ Spi!CS' = 1)
        BY <1>1 DEF Spi!Observe
      <4>2. Spi!CS' # 1
        BY <1>5
      <4>3. QED
        BY <1>5, <4>1, <4>2, Zenon
    <3>3. Swapped(BitsOut, BitsIn)
      BY <2>2, <3>1, <3>2 DEF Exchanging
    <3>4. QED
      BY <1>5, <2>2, <3>1, <3>3, SwappedStep
  <2>3. QED
    BY <2>1, <2>2
<1>6. ASSUME Transferring', Spi!CS' = 1
      PROVE  OnesBehind(BitsOut)'
  <2>1. CASE ~Transferring
    BY <1>6, <2>1, SpiNumbers, TransferStarts DEF OnesBehind
  <2>2. CASE Transferring
    <3>1. Spi!CS = 1
      BY <1>6, <2>2, SelectKept
    <3>2. dev_out = <<>> /\ OnesBehind(BitsOut)
      BY <2>2, <3>1 DEF Exchanging
    <3>3. QED
      BY <1>6, <2>2, <3>2, OnesStep
  <2>3. QED
    BY <2>1, <2>2
<1>7. QED
  BY <1>3, <1>4, <1>5, <1>6 DEF Exchanging

LEMMA ExchangingReset ==
  ASSUME SpiTypes, Spi!Reset
  PROVE  Exchanging'
<1>1. Spi!Device /\ state_s' = "idle" /\ aligned' = (Spi!CS' = 1)
  BY DEF Spi!Reset, Spi!Spi!Reset
<1>2. Spi!CS' = 1 => dev_in' = <<>> /\ dev_out' = <<>>
  BY <1>1 DEF Spi!Device, Spi!Unselected, Spi!Selected, Spi!Exchange
<1>3. ASSUME Spi!CS' = 0 PROVE ~aligned'
  <2>1. Spi!CS' # 1
    BY <1>3
  <2>2. QED
    BY <1>1, <2>1, Zenon
<1>4. ~Transferring'
  BY <1>1 DEF Transferring
<1>5. QED
  BY <1>2, <1>3, <1>4 DEF Exchanging

LEMMA ExchangingInit == Spi!Init => Exchanging
<1> SUFFICES ASSUME Spi!Init PROVE Exchanging
  OBVIOUS
<1>1. ~Spi!En(Spi!Zeros)
  BY SpiNumbers DEF Spi!En, Spi!Zeros
<1>2. state_s = "idle" /\ ~En /\ dev_in = <<>> /\ dev_out = <<>> /\ ~Transferring
  BY <1>1 DEF Spi!Init, Spi!Spi!Init, En, Transferring
<1>3. QED
  BY <1>2 DEF Exchanging

SpiInv == SpiTypes /\ Driving /\ Clocking /\ Exchanging

LEMMA SpiStutters == SpiInv /\ UNCHANGED spiVars => SpiInv'
<1> SUFFICES ASSUME SpiInv, UNCHANGED spiVars PROVE SpiInv'
  OBVIOUS
<1>1. SpiTypes'
  BY DEF SpiInv, spiVars, SpiTypes
<1>2. Driving'
  BY DEF SpiInv, spiVars, Driving, Asks, Enabled, Left, Transferring, En, Rst, Adr
<1>3. Clocking'
  BY DEF SpiInv, spiVars, Clocking
<1>4. Exchanging'
  BY DEF SpiInv, spiVars, Exchanging, Transferring, En, Spi!CS, Spi!Spi!CS, Swapped, OnesBehind,
     BitsOut, BitsIn
<1>5. QED
  BY <1>1, <1>2, <1>3, <1>4 DEF SpiInv

(* Both words are over when the transfer is: SCLK has as many low phases   *)
(* as a word has bits, a bit leaves at the beginning of each and is taken  *)
(* at its end.  spi_control.vhd.                                           *)
THEOREM WordsAreExchanged == Spec => WordsExchanged
<1>1. Init => SpiInv
  BY SpiSteps, SpiTypesInit, DrivingInit, ClockingInit, ExchangingInit DEF SpiInv
<1>2. SpiInv /\ [Next]_vars => SpiInv'
  <2> SUFFICES ASSUME SpiInv, [Next]_vars PROVE SpiInv'
    OBVIOUS
  <2>1. CASE Spi!Tick
    BY <2>1, SpiTypesTick, AsksStep, EnabledStep, ClockingTick, ExchangingTick
       DEF SpiInv, Driving
  <2>2. CASE Spi!Reset
    BY <2>2, SpiTypesReset, DrivingReset, ClockingReset, ExchangingReset DEF SpiInv
  <2>3. CASE UNCHANGED spiVars
    BY <2>3, SpiStutters
  <2>4. QED
    BY <2>1, <2>2, <2>3, SpiSteps
<1>3. SpiInv /\ state_s = "hold4" /\ aligned
        => IF Spi!CS = 0 THEN dev_in = sent /\ fifo_s = replied
           ELSE dev_in = <<>> /\ fifo_s = Spi!Ones
  <2> SUFFICES ASSUME SpiInv, state_s = "hold4", aligned
               PROVE  IF Spi!CS = 0 THEN dev_in = sent /\ fifo_s = replied
                      ELSE dev_in = <<>> /\ fifo_s = Spi!Ones
    OBVIOUS
  <2>1. Transferring /\ BitsOut = SpiBits /\ BitsIn = SpiBits /\ SpiBits \in Nat
        /\ Spi!CS \in {0, 1}
    BY SpiNumbers, SelectIs DEF SpiInv, Clocking, Transferring, BitsOut, BitsIn, SelectOf
  <2>2. sent \in [1 .. SpiBits -> {0, 1}] /\ fifo_s \in [1 .. SpiBits -> {0, 1}]
        /\ dev_in \in Seq({0, 1})
    BY DEF SpiInv, SpiTypes, Spi!Word
  <2>3. CASE Spi!CS = 0
    <3>1. Swapped(SpiBits, SpiBits)
      BY <2>1, <2>3 DEF SpiInv, Exchanging
    <3>2. Len(dev_in) = SpiBits /\ \A i \in 1 .. SpiBits : dev_in[i] = sent[i]
      BY <3>1 DEF Swapped
    <3>3. dev_in \in [1 .. SpiBits -> {0, 1}]
      BY <2>2, <3>2, LenProperties
    <3>4. dev_in = sent
      BY <2>2, <3>2, <3>3, SameWord
    <3>5. replied \in [1 .. SpiBits -> {0, 1}]
      BY <3>1, SpiNumbers DEF Swapped
    <3>6. ASSUME NEW i \in 1 .. SpiBits PROVE fifo_s[i] = replied[i]
      <4>1. ~(i <= SpiBits - SpiBits) /\ i - (SpiBits - SpiBits) = i
        BY <2>1
      <4>2. QED
        BY <3>1, <4>1 DEF Swapped
    <3>7. fifo_s = replied
      BY <2>2, <3>5, <3>6, SameWord
    <3>8. QED
      BY <2>3, <3>4, <3>7
  <2>4. CASE Spi!CS = 1
    <3>1. dev_in = <<>> /\ OnesBehind(SpiBits)
      BY <2>1, <2>4 DEF SpiInv, Exchanging
    <3>2. \A i \in 1 .. SpiBits : fifo_s[i] = 1
      BY <2>1, <3>1 DEF OnesBehind
    <3>3. Spi!Ones = [i \in 1 .. SpiBits |-> 1]
      BY DEF Spi!Ones
    <3>4. fifo_s = Spi!Ones
      BY <2>2, <3>2, <3>3
    <3>5. QED
      BY <2>4, <3>1, <3>4
  <2>5. QED
    BY <2>1, <2>3, <2>4
<1>4. QED
  BY <1>1, <1>2, <1>3, PTL DEF Spec, WordsExchanged, Spi!WordsExchanged
=============================================================================
