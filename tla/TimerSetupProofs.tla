--------------------------- MODULE TimerSetupProofs ---------------------------
(***************************************************************************)
(* Theorems about TimerSetup, for every width of the counter, every table  *)
(* of units, every set of reloads that are a period in each unit, and      *)
(* every pace of two edges per write or slower.                            *)
(***************************************************************************)
EXTENDS TimerSetup, TLAPS

Units == DOMAIN Ticks

(* A control word has the bits it was put together from. *)
LEMMA BitsOfWord ==
  ASSUME NEW r \in {0, 1}, NEW e \in {0, 1}, NEW a \in {0, 1}, NEW u \in 0 .. 4
  PROVE  /\ Tim!Rst(Word(r, e, a, u)) <=> r = 1
         /\ Tim!En(Word(r, e, a, u)) <=> e = 1
         /\ Tim!Autoreload(Word(r, e, a, u)) <=> a = 1
         /\ Tim!Unit(Word(r, e, a, u)) = u
BY DEF Word, Tim!Rst, Tim!En, Tim!Autoreload, Tim!Unit

-----------------------------------------------------------------------------
(***************************************************************************)
(* The inductive invariant: what each write of the set-up has brought      *)
(* about when the next one may come.  The unit is behind its register an   *)
(* edge after the write, the ticks an edge later, when the reset may have  *)
(* come already; the counter has them an edge after it was enabled.        *)
(***************************************************************************)
(* The second strobe of the last write changes nothing. *)
Repeats ==
  \/ write.reg = Tim!CtrlReg /\ write.dat = ctrl_s
  \/ write.reg = Tim!ReloadReg /\ write.dat = reload_s

UnitChosen ==
  /\ \E u \in Units : ctrl_s = Word(0, 0, 0, u)
  /\ age > 1 => unit_s = Tim!Unit(ctrl_s)

TicksReady == unit_s = Tim!Unit(ctrl_s) /\ ticks_s = Period

Loaded ==
  /\ \E u \in Units : ctrl_s = Word(1, 0, 0, u)
  /\ TicksReady /\ cnt_s = 0

Counting ==
  /\ \E u \in Units, a \in {0, 1} : ctrl_s = Word(0, 1, a, u)
  /\ TicksReady
  /\ due \in 1 .. Period /\ cnt_s = Period - due
  /\ rld_s = Period - 1 \/ (age = 1 /\ due = Period)

IInv ==
  /\ phase \in {"stopped", "reload", "unit", "reset", "running"}
  /\ age \in 1 .. Gap /\ (age = 1 => Repeats)
  /\ phase # "stopped" => reload_s \in Reloads
  /\ phase = "unit" => UnitChosen
  /\ phase = "reset" => Loaded
  /\ phase = "running" => Counting

(* In each phase that has a unit, the control word and the period are      *)
(* what they are made of.                                                  *)
LEMMA PeriodIsRight ==
  ASSUME SetupConstants, reload_s \in Reloads,
         NEW r \in {0, 1}, NEW e \in {0, 1}, NEW a \in {0, 1}, NEW u \in Units,
         ctrl_s = Word(r, e, a, u)
  PROVE  /\ Period \in 2 .. Modulus - 1
         /\ Tim!Rst(ctrl_s) <=> r = 1
         /\ Tim!En(ctrl_s) <=> e = 1
         /\ Tim!Autoreload(ctrl_s) <=> a = 1
         /\ Tim!Unit(ctrl_s) = u
         /\ unit_s = u => Tim!Converted = Period
<1>1. u \in 0 .. 4
  BY DEF SetupConstants, Units
<1>2. /\ Tim!Rst(ctrl_s) <=> r = 1
      /\ Tim!En(ctrl_s) <=> e = 1
      /\ Tim!Autoreload(ctrl_s) <=> a = 1
      /\ Tim!Unit(ctrl_s) = u
  BY <1>1, BitsOfWord
<1>3. Period = reload_s * Ticks[u]
  BY <1>2 DEF Period
<1>4. Period \in 2 .. Modulus - 1
  BY <1>3 DEF SetupConstants, Units
<1>5. unit_s = u => Tim!Converted = Period
  BY <1>3 DEF Tim!Converted, Units
<1>6. QED
  BY <1>2, <1>4, <1>5

(* An edge without a new write leaves the registers of the slave.          *)
Quiet ==
  /\ Tim!Convert
  /\ Tim!Core!Clock(Tim!Rst(ctrl_s), Tim!Enable, FALSE, ticks_s, Tim!Rst(ctrl_s'), FALSE)
  /\ UNCHANGED <<ctrl_s, reload_s, phase, write>>
  /\ age' \in 2 .. Gap

LEMMA BetweenIsQuiet ==
  ASSUME SetupConstants, IInv, Between
  PROVE  Quiet
<1>1. age' \in 2 .. Gap
  BY DEF SetupConstants, IInv, Between
<1>2. UNCHANGED <<ctrl_s, reload_s>>
  <2>1. CASE Tim!Clock(FALSE, FALSE, 0, 0)
    BY <2>1 DEF Tim!Clock, Tim!Registers
  <2>2. CASE age = 1 /\ Tim!Clock(TRUE, TRUE, write.reg, write.dat)
    BY <2>2 DEF IInv, Repeats, Tim!Clock, Tim!Registers, Tim!CtrlReg, Tim!ReloadReg
  <2>3. CASE \E reg \in Tim!Readable : Tim!Clock(TRUE, FALSE, reg, 0)
    BY <2>3 DEF Tim!Clock, Tim!Registers
  <2>4. QED
    BY <2>1, <2>2, <2>3 DEF Between
<1>3. QED
  BY <1>1, <1>2 DEF Between, Quiet, Tim!Clock

-----------------------------------------------------------------------------
(* One lemma for each phase a quiet edge may fall into.                    *)

LEMMA UnitChosenStays ==
  ASSUME SetupConstants, reload_s \in Reloads, UnitChosen, Quiet
  PROVE  UnitChosen'
<1>1. PICK u \in Units : ctrl_s = Word(0, 0, 0, u)
  BY DEF UnitChosen
<1>2. ~Tim!Rst(ctrl_s)
  BY <1>1, PeriodIsRight
<1>3. ctrl_s' = ctrl_s /\ unit_s' = Tim!Unit(ctrl_s)
  BY <1>2 DEF Quiet, Tim!Convert
<1>4. QED
  BY <1>1, <1>3 DEF UnitChosen

LEMMA LoadedStays ==
  ASSUME SetupConstants, reload_s \in Reloads, Loaded, Quiet
  PROVE  Loaded'
<1>1. PICK u \in Units : ctrl_s = Word(1, 0, 0, u)
  BY DEF Loaded
<1>2. Tim!Rst(ctrl_s) /\ ctrl_s' = ctrl_s /\ reload_s' = reload_s
  BY <1>1, PeriodIsRight DEF Quiet
<1>3. unit_s' = unit_s /\ ticks_s' = ticks_s
  BY <1>2 DEF Quiet, Tim!Convert
<1>4. cnt_s' = 0
  BY <1>2 DEF Quiet, Tim!Core!Clock, Tim!Core!Held
<1>5. QED
  BY <1>1, <1>2, <1>3, <1>4 DEF Loaded, TicksReady, Period

(* The counter moves on, or starts over, or waits at the end of a period   *)
(* that is not to be followed by another one.                              *)
LEMMA CountingStep ==
  ASSUME SetupConstants, reload_s \in Reloads, Counting, age \in 1 .. Gap,
         Quiet, Elapse
  PROVE  Counting'
<1>1. PICK u \in Units, a \in {0, 1} : ctrl_s = Word(0, 1, a, u)
  BY DEF Counting
<1>2. /\ Period \in 2 .. Modulus - 1 /\ Modulus \in Nat
      /\ ~Tim!Rst(ctrl_s) /\ Tim!En(ctrl_s)
      /\ Tim!Converted = Period
  BY <1>1, PeriodIsRight DEF Counting, TicksReady, SetupConstants
<1>3. ctrl_s' = ctrl_s /\ reload_s' = reload_s /\ Period' = Period /\ ~Tim!Rst(ctrl_s')
  BY <1>2 DEF Quiet, Period
<1>4. TicksReady'
  BY <1>2, <1>3 DEF Quiet, Tim!Convert, TicksReady
<1>5. rld_s' = Period - 1
  <2>1. rld_s' = (Period - 1) % Modulus
    BY <1>2 DEF Counting, TicksReady, Quiet, Tim!Core!Clock, Tim!Core!Reload
  <2>2. QED
    BY <1>2, <2>1
<1>6. Tim!Overflow <=> due = 1
  BY <1>2 DEF Counting, Tim!Overflow, Tim!Core!Overflow, Tim!Core!AtEndUp
<1>7. cnt_s' = IF due = 1 THEN IF Tim!Autoreload(ctrl_s) THEN 0 ELSE cnt_s
               ELSE (cnt_s + 1) % Modulus
  BY <1>2, <1>3, <1>6
  DEF Quiet, Tim!Core!Clock, Tim!Core!Count, Tim!Core!CountUp, Tim!Enable, Tim!Overflow,
      Tim!Core!Overflow
<1>8. due' \in 1 .. Period /\ cnt_s' = Period - due'
  <2>1. CASE due = 1
    BY <1>2, <1>7, <2>1 DEF Counting, Elapse
  <2>2. CASE due # 1
    <3>1. cnt_s + 1 \in 0 .. Modulus - 1 /\ due' = due - 1
      BY <1>2, <2>2 DEF Counting, Elapse
    <3>2. QED
      BY <1>2, <1>7, <2>2, <3>1 DEF Counting
  <2>3. QED
    BY <2>1, <2>2
<1>9. QED
  BY <1>1, <1>3, <1>4, <1>5, <1>8 DEF Counting

LEMMA BetweenStep ==
  ASSUME SetupConstants, IInv, Between
  PROVE  IInv'
<1>1. Quiet
  BY BetweenIsQuiet
<1>2. /\ phase' = phase /\ reload_s' = reload_s
      /\ age' \in 1 .. Gap /\ age' # 1
  BY <1>1 DEF Quiet, SetupConstants
<1>3. phase = "unit" => UnitChosen'
  BY <1>1, UnitChosenStays DEF IInv
<1>4. phase = "reset" => Loaded'
  BY <1>1, LoadedStays DEF IInv
<1>5. phase = "running" => Counting'
  BY <1>1, CountingStep DEF IInv, Between
<1>6. QED
  BY <1>2, <1>3, <1>4, <1>5 DEF IInv

-----------------------------------------------------------------------------
(* One lemma for each write.                                               *)

LEMMA SetReloadStep ==
  ASSUME SetupConstants, IInv, SetReload
  PROVE  IInv'
<1>1. PICK r \in Reloads : Write(Tim!ReloadReg, r)
  BY DEF SetReload
<1>2. reload_s' = r /\ age' = 1 /\ write' = [reg |-> Tim!ReloadReg, dat |-> r]
  BY <1>1 DEF Write, Tim!Clock, Tim!Registers
<1>3. Repeats'
  BY <1>2 DEF Repeats, Tim!ReloadReg
<1>4. phase' = "reload" /\ 1 \in 1 .. Gap
  BY DEF SetReload, SetupConstants
<1>5. QED
  BY <1>2, <1>3, <1>4 DEF IInv

(* What a write of the control register does.                              *)
LEMMA ControlWritten ==
  ASSUME SetupConstants, IInv, NEW w, Write(Tim!CtrlReg, w)
  PROVE  /\ ctrl_s' = w /\ reload_s' = reload_s
         /\ age' = 1 /\ age' \in 1 .. Gap /\ Repeats' /\ age = Gap
         /\ Tim!Convert
         /\ Tim!Core!Clock(Tim!Rst(ctrl_s), Tim!Enable, FALSE, ticks_s, Tim!Rst(ctrl_s'), FALSE)
<1>1. ctrl_s' = w /\ reload_s' = reload_s
  BY DEF Write, Tim!Clock, Tim!Registers, Tim!CtrlReg, Tim!ReloadReg
<1>2. age' = 1 /\ age = Gap /\ write' = [reg |-> Tim!CtrlReg, dat |-> w]
  BY DEF Write
<1>3. Repeats'
  BY <1>1, <1>2 DEF Repeats
<1>4. age' \in 1 .. Gap
  BY <1>2 DEF SetupConstants
<1>5. /\ Tim!Convert
      /\ Tim!Core!Clock(Tim!Rst(ctrl_s), Tim!Enable, FALSE, ticks_s, Tim!Rst(ctrl_s'), FALSE)
  BY Zenon DEF Write, Tim!Clock
<1>6. QED
  BY <1>1, <1>2, <1>3, <1>4, <1>5

LEMMA SetUnitStep ==
  ASSUME SetupConstants, IInv, SetUnit
  PROVE  IInv'
<1>1. PICK u \in Units : Write(Tim!CtrlReg, Word(0, 0, 0, u))
  BY DEF SetUnit, Units
<1>2. /\ ctrl_s' = Word(0, 0, 0, u) /\ reload_s' = reload_s
      /\ age' = 1 /\ age' \in 1 .. Gap /\ Repeats'
  BY <1>1, ControlWritten
<1>3. UnitChosen'
  BY <1>2 DEF UnitChosen, Units
<1>4. phase' = "unit" /\ phase = "reload"
  BY DEF SetUnit
<1>5. QED
  BY <1>2, <1>3, <1>4 DEF IInv

LEMMA ResetTimerStep ==
  ASSUME SetupConstants, IInv, ResetTimer
  PROVE  IInv'
<1>1. reload_s \in Reloads /\ UnitChosen /\ phase = "unit" /\ phase' = "reset"
  BY DEF ResetTimer, IInv
<1>2. PICK u \in Units : ctrl_s = Word(0, 0, 0, u)
  BY <1>1 DEF UnitChosen
<1>3. Tim!Unit(ctrl_s) = u /\ ~Tim!Rst(ctrl_s)
  BY <1>1, <1>2, PeriodIsRight
<1>4. Write(Tim!CtrlReg, Word(1, 0, 0, u))
  BY <1>3 DEF ResetTimer
<1>5. /\ ctrl_s' = Word(1, 0, 0, u) /\ reload_s' = reload_s
      /\ age' = 1 /\ age' \in 1 .. Gap /\ Repeats' /\ age = Gap
      /\ Tim!Convert
      /\ Tim!Core!Clock(Tim!Rst(ctrl_s), Tim!Enable, FALSE, ticks_s, Tim!Rst(ctrl_s'), FALSE)
  BY <1>4, ControlWritten
<1>6. Tim!Unit(ctrl_s') = u /\ Tim!Rst(ctrl_s') /\ Period' = Period
  <2>1. u \in 0 .. 4
    BY DEF SetupConstants, Units
  <2>2. Tim!Unit(ctrl_s') = u /\ Tim!Rst(ctrl_s')
    BY <1>5, <2>1, BitsOfWord
  <2>3. QED
    BY <1>3, <1>5, <2>2 DEF Period
<1>7. unit_s = u
  BY <1>1, <1>3, <1>5 DEF UnitChosen, SetupConstants
<1>8. Tim!Converted = Period
  BY <1>1, <1>2, <1>7, PeriodIsRight
<1>9. unit_s' = u /\ ticks_s' = Period /\ cnt_s' = 0
  BY <1>3, <1>5, <1>6, <1>8 DEF Tim!Convert, Tim!Core!Clock, Tim!Core!Held
<1>10. Loaded'
  BY <1>5, <1>6, <1>9 DEF Loaded, TicksReady, Units
<1>11. QED
  BY <1>1, <1>5, <1>10 DEF IInv

LEMMA EnableTimerStep ==
  ASSUME SetupConstants, IInv, EnableTimer
  PROVE  IInv'
<1>1. reload_s \in Reloads /\ Loaded /\ phase = "reset" /\ phase' = "running" /\ due' = Period
  BY DEF EnableTimer, IInv
<1>2. PICK u \in Units : ctrl_s = Word(1, 0, 0, u)
  BY <1>1 DEF Loaded
<1>3. Tim!Unit(ctrl_s) = u /\ Tim!Rst(ctrl_s) /\ Period \in 2 .. Modulus - 1
  BY <1>1, <1>2, PeriodIsRight
<1>4. PICK a \in {0, 1} : Write(Tim!CtrlReg, Word(0, 1, a, u))
  BY <1>3 DEF EnableTimer
<1>5. /\ ctrl_s' = Word(0, 1, a, u) /\ reload_s' = reload_s
      /\ age' = 1 /\ age' \in 1 .. Gap /\ Repeats'
      /\ Tim!Convert
      /\ Tim!Core!Clock(Tim!Rst(ctrl_s), Tim!Enable, FALSE, ticks_s, Tim!Rst(ctrl_s'), FALSE)
  BY <1>4, ControlWritten
<1>6. Tim!Unit(ctrl_s') = u /\ ~Tim!Rst(ctrl_s') /\ Period' = Period
  <2>1. u \in 0 .. 4
    BY DEF SetupConstants, Units
  <2>2. Tim!Unit(ctrl_s') = u /\ ~Tim!Rst(ctrl_s')
    BY <1>5, <2>1, BitsOfWord
  <2>3. QED
    BY <1>3, <1>5, <2>2 DEF Period
<1>7. TicksReady' /\ cnt_s' = 0
  BY <1>1, <1>3, <1>5, <1>6
  DEF Loaded, TicksReady, Tim!Convert, Tim!Core!Clock, Tim!Core!Count
<1>8. Counting'
  <2>1. due' \in 1 .. Period' /\ cnt_s' = Period' - due' /\ due' = Period'
    BY <1>1, <1>3, <1>6, <1>7 DEF SetupConstants
  <2>2. QED
    BY <1>5, <1>7, <2>1 DEF Counting, Units
<1>9. QED
  BY <1>1, <1>5, <1>8 DEF IInv

-----------------------------------------------------------------------------
LEMMA InitIInv ==
  ASSUME SetupConstants, Init
  PROVE  IInv
BY DEF SetupConstants, Init, IInv

LEMMA NextIInv ==
  ASSUME SetupConstants, IInv, [Next]_vars
  PROVE  IInv'
<1>1. CASE Reset
  BY <1>1 DEF SetupConstants, Reset, IInv
<1>2. CASE UNCHANGED vars
  BY <1>2 DEF vars, Tim!timerVars, IInv, Repeats, UnitChosen, Loaded, Counting, TicksReady, Period
<1>3. QED
  BY <1>1, <1>2, BetweenStep, SetReloadStep, SetUnitStep, ResetTimerStep, EnableTimerStep DEF Next

(* The inductive invariant holds. *)
THEOREM SetUpIsConsistent == ASSUME SetupConstants PROVE Spec => []IInv
<1>1. Init => IInv
  BY InitIInv
<1>2. IInv /\ [Next]_vars => IInv'
  BY NextIInv
<1>3. QED
  BY <1>1, <1>2, PTL DEF Spec

(***************************************************************************)
(* A timer set up as counter.vhd says, at the pace of either bus master,   *)
(* overflows when its reload, in the unit chosen, is over and not before,  *)
(* whatever an earlier reload or unit left between registers and counter.  *)
(***************************************************************************)
THEOREM TimerExpiresOnTime == ASSUME SetupConstants PROVE Spec => []ExpiresOnTime
<1>1. ASSUME IInv, phase = "running" PROVE Tim!Overflow <=> due = 1
  <2>1. Counting /\ reload_s \in Reloads
    BY <1>1 DEF IInv
  <2>2. PICK u \in Units, a \in {0, 1} : ctrl_s = Word(0, 1, a, u)
    BY <2>1 DEF Counting
  <2>3. Period \in 2 .. Modulus - 1 /\ Modulus \in Nat
    BY <2>1, <2>2, PeriodIsRight DEF SetupConstants
  <2>4. QED
    BY <2>1, <2>3 DEF Counting, Tim!Overflow, Tim!Core!Overflow, Tim!Core!AtEndUp
<1>2. IInv => ExpiresOnTime
  BY <1>1 DEF ExpiresOnTime
<1>3. QED
  BY <1>2, SetUpIsConsistent, PTL
=============================================================================
