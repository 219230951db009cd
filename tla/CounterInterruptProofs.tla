------------------------ MODULE CounterInterruptProofs ------------------------
(***************************************************************************)
(* Theorems about CounterInterrupt, for every width of the counter and     *)
(* every set of reloads from 2 on.                                         *)
(***************************************************************************)
EXTENDS CounterInterrupt, TLAPS

(* A number of the counter's width is its own remainder. *)
LEMMA SmallMod ==
  ASSUME NEW n \in 0 .. Modulus - 1
  PROVE  n % Modulus = n
BY CounterAssumption

(* A control word has the bits it was put together from. *)
LEMMA BitsOfWord ==
  ASSUME NEW r \in {0, 1}, NEW e \in {0, 1}, NEW a \in {0, 1}, NEW d \in {0, 1}
  PROVE  /\ Word(r, e, a, d) \in 0 .. 15
         /\ Ctr!Rst(Word(r, e, a, d)) <=> r = 1
         /\ Ctr!En(Word(r, e, a, d)) <=> e = 1
         /\ Ctr!Autoreload(Word(r, e, a, d)) <=> a = 1
         /\ Ctr!Dir(Word(r, e, a, d)) <=> d = 1
BY DEF Word, Ctr!Rst, Ctr!En, Ctr!Autoreload, Ctr!Dir

(***************************************************************************)
(* The inductive invariant.  What the controller did with a period needs   *)
(* to be known of its inputs as well: the end of a period was sampled, and *)
(* is an edge when it comes.                                               *)
(***************************************************************************)
Sampled ==
  /\ inv_s = {}
  /\ ended => raw_s = Chan
  /\ Ends => raw_s = {}

IInv == TypeOK /\ SetUpConsistent /\ Sampled /\ NoInterruptLost

-----------------------------------------------------------------------------
(* One edge of the counter keeps its types, whatever is written to it.     *)
LEMMA CoreTypes ==
  ASSUME TypeOK,
         Ctr!Core!Clock(Ctr!Rst(ctrl_s), Ctr!Enable, Ctr!Dir(ctrl_s), reload_s,
                        Ctr!Rst(ctrl_s'), Ctr!Dir(ctrl_s'))
  PROVE  {rld_s', cnt_s'} \subseteq 0 .. Modulus - 1
<1>1. Modulus \in Nat \ {0} /\ {reload_s, rld_s, cnt_s} \subseteq 0 .. Modulus - 1
  BY CounterAssumption DEF TypeOK
<1>2. (reload_s - 1) % Modulus \in 0 .. Modulus - 1 /\ (cnt_s + 1) % Modulus \in 0 .. Modulus - 1
  BY <1>1
<1>3. rld_s' \in 0 .. Modulus - 1
  BY <1>1, <1>2 DEF Ctr!Core!Clock, Ctr!Core!Reload
<1>4. Ctr!Core!CountUp \in 0 .. Modulus - 1 /\ Ctr!Core!CountDown \in 0 .. Modulus - 1
  BY <1>1, <1>2 DEF Ctr!Core!CountUp, Ctr!Core!CountDown, Ctr!Core!AtEndDown
<1>5. cnt_s' \in 0 .. Modulus - 1
  BY <1>1, <1>3, <1>4 DEF Ctr!Core!Clock, Ctr!Core!Held, Ctr!Core!Count
<1>6. QED
  BY <1>3, <1>5

(* And so do the registers in front of it.                                 *)
LEMMA CounterTypes ==
  ASSUME TypeOK,
         NEW stb \in BOOLEAN, NEW we \in BOOLEAN, NEW reg \in 0 .. 3,
         NEW dat \in 0 .. Modulus - 1,
         Ctr!Clock(stb, we, reg, dat)
  PROVE  /\ {ctrl_s', reload_s', dat_os', cnt_s', rld_s'} \subseteq 0 .. Modulus - 1
         /\ {ack_s', err_s'} \subseteq BOOLEAN
<1>1. {rld_s', cnt_s'} \subseteq 0 .. Modulus - 1
  BY CoreTypes DEF Ctr!Clock
<1>2. Ctr!ReadRegister(reg) \in 0 .. Modulus - 1
  BY CounterAssumption
  DEF TypeOK, Ctr!ReadRegister, Ctr!Stat, Ctr!CtrlReg, Ctr!StatReg, Ctr!DataReg, Ctr!ReloadReg
<1>3. {ctrl_s', reload_s', dat_os'} \subseteq 0 .. Modulus - 1
  BY <1>2 DEF TypeOK, Ctr!Clock, Ctr!Registers
<1>4. {ack_s', err_s'} \subseteq BOOLEAN
  BY DEF Ctr!Clock, Ctr!Registers
<1>5. QED
  BY <1>1, <1>3, <1>4

(* One edge of the controller keeps its types and the polarity.            *)
LEMMA IrcTypes ==
  ASSUME TypeOK,
         NEW stb \in BOOLEAN, NEW reg \in 0 .. 7 \ {Irc!InvReg}, NEW dat \in SUBSET Chan,
         IrcClock(stb, reg, dat)
  PROVE  /\ {clear_s', inv_s', mask_s', edge_s', raw_s', prev_s', state_s'} \subseteq SUBSET Chan
         /\ inv_s' = inv_s
<1>1. /\ {clear_s', inv_s', mask_s', edge_s'} \subseteq SUBSET Chan
      /\ inv_s' = inv_s
  BY DEF TypeOK, IrcClock, Irc!Clock, Irc!Registers
<1>2. raw_s' \subseteq Chan /\ prev_s' \subseteq Chan
  BY DEF TypeOK, IrcClock, Irc!Clock, Irc!Sample, Irc!Active
<1>3. state_s' \subseteq Chan
  BY <1>1, <1>2 DEF TypeOK, IrcClock, Irc!Clock, Irc!Capture, Irc!Active
<1>4. QED
  BY <1>1, <1>2, <1>3

(* One edge, with an access to either, keeps the types.                    *)
LEMMA EdgeTypes ==
  ASSUME TypeOK,
         NEW stb \in BOOLEAN, NEW we \in BOOLEAN, NEW reg \in 0 .. 3,
         NEW dat \in 0 .. Modulus - 1,
         NEW istb \in BOOLEAN, NEW ireg \in 0 .. 7 \ {Irc!InvReg}, NEW idat \in SUBSET Chan,
         Ctr!Clock(stb, we, reg, dat), IrcClock(istb, ireg, idat), Observe,
         phase' \in {"stopped", "reload", "direction", "reset", "running"}
  PROVE  TypeOK' /\ inv_s' = inv_s
<1>1. /\ {ctrl_s', reload_s', dat_os', cnt_s', rld_s'} \subseteq 0 .. Modulus - 1
      /\ {ack_s', err_s'} \subseteq BOOLEAN
  BY CounterTypes
<1>2. /\ {clear_s', inv_s', mask_s', edge_s', raw_s', prev_s', state_s'} \subseteq SUBSET Chan
      /\ inv_s' = inv_s
  BY IrcTypes
<1>3. {ended', owed'} \subseteq BOOLEAN
  BY Zenon DEF TypeOK, Observe
<1>4. since' \in 0 .. MaxSince
  BY CounterAssumption DEF TypeOK, Observe, MaxSince
<1>5. QED
  BY <1>1, <1>2, <1>3, <1>4 DEF TypeOK

-----------------------------------------------------------------------------
(* An edge that writes neither register of the counter, or one that only   *)
(* reads them.                                                             *)
Quiet ==
  /\ Ctr!Core!Clock(Ctr!Rst(ctrl_s), Ctr!Enable, Ctr!Dir(ctrl_s), reload_s,
                    Ctr!Rst(ctrl_s'), Ctr!Dir(ctrl_s'))
  /\ UNCHANGED <<ctrl_s, reload_s, phase>>

(* A running counter moves by one, and at the end of a period starts over  *)
(* if it reloads and stays if not.                                         *)
LEMMA RunningStep ==
  ASSUME TypeOK, SetUpConsistent, Running, Quiet
  PROVE  /\ rld_s' = rld_s
         /\ Ctr!Dir(ctrl_s) /\ cnt_s # 0 => cnt_s' = cnt_s - 1
         /\ Ctr!Dir(ctrl_s) /\ cnt_s = 0 =>
              cnt_s' = IF Ctr!Autoreload(ctrl_s) THEN rld_s ELSE cnt_s
         /\ ~Ctr!Dir(ctrl_s) /\ cnt_s # rld_s => cnt_s' = cnt_s + 1
         /\ ~Ctr!Dir(ctrl_s) /\ cnt_s = rld_s =>
              cnt_s' = IF Ctr!Autoreload(ctrl_s) THEN 0 ELSE cnt_s
<1>1. /\ ~Ctr!Rst(ctrl_s) /\ ~Ctr!Rst(ctrl_s') /\ Ctr!En(ctrl_s)
      /\ rld_s = reload_s - 1 /\ cnt_s <= rld_s /\ reload_s \in 2 .. Modulus - 1
      /\ cnt_s \in Nat /\ rld_s \in 1 .. Modulus - 2 /\ Modulus \in Nat
  BY CounterAssumption DEF TypeOK, SetUpConsistent, Running, Quiet
<1>2. rld_s' = rld_s
  <2>1. (reload_s - 1) % Modulus = reload_s - 1
    BY <1>1, SmallMod
  <2>2. QED
    BY <1>1, <2>1 DEF Quiet, Ctr!Core!Clock, Ctr!Core!Reload
<1>3. cnt_s' = IF ~Ctr!Enable THEN cnt_s
               ELSE IF Ctr!Dir(ctrl_s) THEN Ctr!Core!CountDown ELSE Ctr!Core!CountUp
  BY <1>1 DEF Quiet, Ctr!Core!Clock, Ctr!Core!Count
<1>4. Ctr!Enable <=> Ctr!Autoreload(ctrl_s) \/ cnt_s # IF Ctr!Dir(ctrl_s) THEN 0 ELSE rld_s
  BY <1>1 DEF Ctr!Enable, Ctr!Overflow, Ctr!Core!Overflow, Ctr!Core!AtEndUp, Ctr!Core!AtEndDown
<1>5. cnt_s # rld_s => (cnt_s + 1) % Modulus = cnt_s + 1
  BY <1>1, SmallMod
<1>6. QED
  BY <1>1, <1>2, <1>3, <1>4, <1>5
  DEF Ctr!Core!CountUp, Ctr!Core!CountDown, Ctr!Core!AtEndUp, Ctr!Core!AtEndDown

(* The counter overflows in the last clock of its period, and only there.  *)
LEMMA OverflowAtEnd ==
  ASSUME TypeOK, SetUpConsistent
  PROVE  /\ Left \in Nat
         /\ Left # 0 => Running
         /\ Running => Left \in 1 .. reload_s /\ (Ctr!Overflow <=> Left = 1)
<1>1. CASE Running
  <2>1. /\ rld_s = reload_s - 1 /\ cnt_s <= rld_s /\ reload_s \in 2 .. Modulus - 1
        /\ cnt_s \in Nat
    BY <1>1, CounterAssumption DEF TypeOK, SetUpConsistent, Running
  <2>2. Ctr!Overflow <=> cnt_s = IF Ctr!Dir(ctrl_s) THEN 0 ELSE rld_s
    BY <2>1 DEF Ctr!Overflow, Ctr!Core!Overflow, Ctr!Core!AtEndUp, Ctr!Core!AtEndDown
  <2>3. QED
    BY <1>1, <2>1, <2>2, CounterAssumption DEF Left
<1>2. CASE ~Running
  BY <1>2 DEF Left
<1>3. QED
  BY <1>1, <1>2

(* What is left of the period falls by one at each edge.                   *)
LEMMA LeftFalls ==
  ASSUME TypeOK, SetUpConsistent, Running, Quiet
  PROVE  Left' = IF Left > 1 THEN Left - 1 ELSE IF Ctr!Autoreload(ctrl_s) THEN reload_s ELSE Left
<1>1. /\ rld_s = reload_s - 1 /\ cnt_s <= rld_s /\ reload_s \in 2 .. Modulus - 1
      /\ cnt_s \in Nat /\ Modulus \in Nat
  BY CounterAssumption DEF TypeOK, SetUpConsistent, Running
<1>2. ctrl_s' = ctrl_s /\ reload_s' = reload_s /\ Running'
  BY DEF Quiet, Running
<1>3. CASE Ctr!Dir(ctrl_s)
  <2>1. Left = cnt_s + 1 /\ Left' = cnt_s' + 1
    BY <1>2, <1>3 DEF Left
  <2>2. QED
    BY <1>1, <1>3, <2>1, RunningStep
<1>4. CASE ~Ctr!Dir(ctrl_s)
  <2>1. Left = reload_s - cnt_s /\ Left' = reload_s - cnt_s'
    BY <1>2, <1>4 DEF Left
  <2>2. QED
    BY <1>1, <1>4, <2>1, RunningStep
<1>5. QED
  BY <1>3, <1>4

-----------------------------------------------------------------------------
(* The registers stay in step with the software while it writes nothing.   *)
LEMMA QuietSetUp ==
  ASSUME TypeOK, SetUpConsistent, Quiet
  PROVE  SetUpConsistent'
<1>1. ctrl_s' = ctrl_s /\ reload_s' = reload_s /\ phase' = phase
  BY DEF Quiet
<1>2. CASE phase = "reset"
  <2>1. Ctr!Rst(ctrl_s) /\ Ctr!Rst(ctrl_s') /\ rld_s = reload_s - 1
    BY <1>1, <1>2 DEF SetUpConsistent
  <2>2. rld_s' = rld_s /\ cnt_s' = IF Ctr!Dir(ctrl_s') THEN rld_s' ELSE 0
    BY <2>1 DEF Quiet, Ctr!Core!Clock, Ctr!Core!Reload, Ctr!Core!Held
  <2>3. QED
    BY <1>1, <1>2, <2>1, <2>2 DEF SetUpConsistent, Running
<1>3. CASE Running
  <2>1. /\ cnt_s <= rld_s /\ cnt_s \in Nat /\ rld_s \in Nat
    BY <1>3 DEF TypeOK, SetUpConsistent
  <2>2. rld_s' = rld_s /\ cnt_s' <= rld_s
    BY <1>3, <2>1, RunningStep
  <2>3. QED
    BY <1>1, <1>3, <2>2 DEF SetUpConsistent, Running
<1>4. CASE phase # "reset" /\ ~Running
  BY <1>1, <1>4 DEF SetUpConsistent, Running
<1>5. QED
  BY <1>2, <1>3, <1>4

(* The reset, a write of its own, loads the count from the new reload.     *)
LEMMA ResetSetUp ==
  ASSUME TypeOK, SetUpConsistent, ResetCounter
  PROVE  SetUpConsistent'
<1>1. /\ ctrl_s' = Word(1, 0, 0, DirBit) /\ reload_s' = reload_s /\ phase' = "reset"
      /\ reload_s \in Reloads /\ ~Ctr!Rst(ctrl_s)
  BY DEF ResetCounter, WriteCounter, Ctr!Clock, Ctr!Registers, Ctr!CtrlReg, Ctr!ReloadReg,
         SetUpConsistent
<1>2. Ctr!Rst(ctrl_s')
  BY <1>1, BitsOfWord DEF DirBit
<1>3. rld_s' = (reload_s - 1) % Modulus /\ cnt_s' = IF Ctr!Dir(ctrl_s') THEN rld_s' ELSE 0
  BY <1>1, <1>2 DEF ResetCounter, WriteCounter, Ctr!Clock, Ctr!Core!Clock, Ctr!Core!Reload,
                    Ctr!Core!Held
<1>4. (reload_s - 1) % Modulus = reload_s - 1
  BY <1>1, CounterAssumption, SmallMod
<1>5. QED
  BY <1>1, <1>2, <1>3, <1>4 DEF SetUpConsistent, Running

(* The enable starts the period that the reset has loaded.                 *)
LEMMA EnableSetUp ==
  ASSUME TypeOK, SetUpConsistent, EnableCounter
  PROVE  SetUpConsistent' /\ Running' /\ Left' = reload_s' /\ reload_s' \in Reloads
<1>1. PICK a \in {0, 1} : WriteCounter(Ctr!CtrlReg, Word(0, 1, a, DirBit))
  BY DEF EnableCounter
<1>2. /\ ctrl_s' = Word(0, 1, a, DirBit) /\ reload_s' = reload_s /\ phase' = "running"
      /\ reload_s \in Reloads /\ Ctr!Rst(ctrl_s) /\ rld_s = reload_s - 1
      /\ cnt_s = IF Ctr!Dir(ctrl_s) THEN rld_s ELSE 0
  BY <1>1 DEF EnableCounter, WriteCounter, Ctr!Clock, Ctr!Registers, Ctr!CtrlReg, Ctr!ReloadReg,
              SetUpConsistent
<1>3. ~Ctr!Rst(ctrl_s') /\ Ctr!En(ctrl_s') /\ (Ctr!Dir(ctrl_s') <=> Ctr!Dir(ctrl_s))
  BY <1>2, BitsOfWord DEF DirBit
<1>4. rld_s' = rld_s /\ cnt_s' = cnt_s
  BY <1>1, <1>2, <1>3 DEF WriteCounter, Ctr!Clock, Ctr!Core!Clock, Ctr!Core!Reload, Ctr!Core!Count
<1>5. reload_s \in 2 .. Modulus - 1
  BY <1>2, CounterAssumption
<1>6. SetUpConsistent' /\ Running'
  BY <1>2, <1>3, <1>4, <1>5, CounterAssumption DEF SetUpConsistent, Running
<1>7. Left' = reload_s'
  BY <1>2, <1>3, <1>4, <1>5, <1>6, CounterAssumption DEF Left
<1>8. QED
  BY <1>2, <1>6, <1>7

-----------------------------------------------------------------------------
(* The controller samples the overflow.                                    *)
LEMMA RawIsOverflow ==
  ASSUME TypeOK, inv_s = {},
         NEW stb \in BOOLEAN, NEW reg \in 0 .. 7 \ {Irc!InvReg}, NEW dat \in SUBSET Chan,
         IrcClock(stb, reg, dat)
  PROVE  /\ raw_s' = IF Ctr!Overflow THEN Chan ELSE {}
         /\ state_s' = ((raw_s' \ (raw_s \cap edge_s')) \cap mask_s') \cup (state_s \ clear_s')
<1>1. inv_s' = {}
  BY IrcTypes
<1>2. QED
  BY <1>1 DEF TypeOK, IrcClock, Irc!Clock, Irc!Sample, Irc!Capture, Irc!Active

(* An edge at which no period begins with its last clock keeps the samples *)
(* in step with the periods, and owes nothing it does not have pending.    *)
LEMMA SampledStep ==
  ASSUME IInv, Left' = 1 => Left \in {1, 2},
         NEW stb \in BOOLEAN, NEW reg \in 0 .. 7 \ {Irc!InvReg}, NEW dat \in SUBSET Chan,
         IrcClock(stb, reg, dat), Observe
  PROVE  Sampled' /\ NoInterruptLost'
<1>1. /\ TypeOK /\ SetUpConsistent /\ Sampled /\ NoInterruptLost
      /\ inv_s = {} /\ inv_s' = {}
  BY IrcTypes DEF IInv, Sampled
<1>2. /\ raw_s' = IF Ctr!Overflow THEN Chan ELSE {}
      /\ state_s' = ((raw_s' \ (raw_s \cap edge_s')) \cap mask_s') \cup (state_s \ clear_s')
  BY <1>1, RawIsOverflow
<1>3. (Left = 1 => Ctr!Overflow) /\ (Left = 2 => ~Ctr!Overflow)
  BY <1>1, OverflowAtEnd
<1>4. ended' <=> Left = 1
  BY DEF Observe
<1>5. Sampled'
  <2>1. ended' => raw_s' = Chan
    BY <1>2, <1>3, <1>4
  <2>2. Ends' => Left = 2
    BY <1>4 DEF Ends
  <2>3. QED
    BY <1>1, <1>2, <1>3, <2>1, <2>2 DEF Sampled
<1>6. NoInterruptLost'
  <2>1. SUFFICES ASSUME owed'
                 PROVE  "counter" \in state_s'
    BY DEF NoInterruptLost, Pending
  <2>2. clear_s' = {} /\ (owed \/ (Ends /\ mask_s' = Chan))
    BY <2>1 DEF Observe
  <2>3. CASE owed
    BY <1>1, <1>2, <2>2, <2>3 DEF NoInterruptLost, Pending
  <2>4. CASE Ends /\ mask_s' = Chan
    <3>1. raw_s = {} /\ raw_s' = Chan
      BY <1>1, <1>2, <1>3, <2>4 DEF Sampled, Ends
    <3>2. QED
      BY <1>2, <2>4, <3>1 DEF Chan
  <2>5. QED
    BY <2>2, <2>3, <2>4
<1>7. QED
  BY <1>5, <1>6

-----------------------------------------------------------------------------
(* The accesses that leave the set-up of the counter alone.                *)
Watch == NoAccess \/ ReadCounter \/ WriteIrc

(* Reading the counter, or leaving it alone, changes none of its settings. *)
LEMMA ReadIsQuiet ==
  ASSUME NEW stb \in BOOLEAN, NEW reg, Ctr!Clock(stb, FALSE, reg, 0), phase' = phase
  PROVE  Quiet
BY DEF Ctr!Clock, Ctr!Registers, Quiet

(* Every such access is one edge of the counter and of the controller.     *)
LEMMA WatchIsEdge ==
  ASSUME Watch
  PROVE  /\ Quiet /\ Observe
         /\ \E stb \in BOOLEAN, reg \in 0 .. 3 : Ctr!Clock(stb, FALSE, reg, 0)
         /\ \E stb \in BOOLEAN, reg \in 0 .. 7 \ {Irc!InvReg}, dat \in SUBSET Chan :
              IrcClock(stb, reg, dat)
<1>1. TRUE \in BOOLEAN /\ FALSE \in BOOLEAN /\ {} \in SUBSET Chan
      /\ 0 \in 0 .. 3 /\ 0 \in 0 .. 7 \ {Irc!InvReg}
  BY DEF Irc!InvReg
<1>2. CASE NoAccess
  <2>1. Ctr!Clock(FALSE, FALSE, 0, 0) /\ IrcClock(FALSE, 0, {}) /\ Observe /\ phase' = phase
    BY <1>2 DEF NoAccess
  <2>2. QED
    BY <1>1, <2>1, ReadIsQuiet, Zenon
<1>3. CASE ReadCounter
  <2>1. PICK reg \in Ctr!Readable : Ctr!Clock(TRUE, FALSE, reg, 0)
    BY <1>3 DEF ReadCounter
  <2>2. reg \in 0 .. 3
    BY DEF Ctr!Readable, Ctr!CtrlReg, Ctr!StatReg, Ctr!DataReg, Ctr!ReloadReg
  <2>3. IrcClock(FALSE, 0, {}) /\ Observe /\ phase' = phase
    BY <1>3 DEF ReadCounter
  <2>4. QED
    BY <1>1, <2>1, <2>2, <2>3, ReadIsQuiet, Zenon
<1>4. CASE WriteIrc
  <2>1. PICK reg \in {Irc!ClearReg, Irc!MaskReg, Irc!EdgeReg}, dat \in SUBSET Chan :
          Ctr!Clock(FALSE, FALSE, 0, 0) /\ IrcClock(TRUE, reg, dat) /\ Observe
    BY <1>4 DEF WriteIrc
  <2>2. reg \in 0 .. 7 \ {Irc!InvReg}
    BY DEF Irc!ClearReg, Irc!MaskReg, Irc!EdgeReg, Irc!InvReg
  <2>3. phase' = phase
    BY <1>4 DEF WriteIrc
  <2>4. QED
    BY <1>1, <2>1, <2>2, <2>3, ReadIsQuiet, Zenon
<1>5. QED
  BY <1>2, <1>3, <1>4 DEF Watch

(* The writes of the set-up, as edges.                                     *)
SetUpWrite == SetReload \/ SetDirection \/ ResetCounter \/ EnableCounter

LEMMA SetUpWriteIsEdge ==
  ASSUME TypeOK, SetUpWrite
  PROVE  /\ Observe /\ phase' \in {"reload", "direction", "reset", "running"}
         /\ \E reg \in 0 .. 3, dat \in 0 .. Modulus - 1 : Ctr!Clock(TRUE, TRUE, reg, dat)
         /\ IrcClock(FALSE, 0, {})
<1>1. Ctr!CtrlReg \in 0 .. 3 /\ Ctr!ReloadReg \in 0 .. 3 /\ DirBit \in {0, 1}
  BY DEF Ctr!CtrlReg, Ctr!ReloadReg, DirBit
<1>2. Reloads \subseteq 0 .. Modulus - 1 /\ 0 .. 15 \subseteq 0 .. Modulus - 1
  BY CounterAssumption
<1>3. CASE SetReload
  BY <1>1, <1>2, <1>3 DEF SetReload, WriteCounter
<1>4. CASE SetDirection
  <2>1. \A dir \in {0, 1} : Word(0, 0, 0, dir) \in 0 .. Modulus - 1
    BY <1>2, BitsOfWord
  <2>2. QED
    BY <1>1, <1>4, <2>1 DEF SetDirection, WriteCounter
<1>5. CASE ResetCounter
  <2>1. Word(1, 0, 0, DirBit) \in 0 .. Modulus - 1
    BY <1>1, <1>2, BitsOfWord
  <2>2. QED
    BY <1>1, <1>5, <2>1 DEF ResetCounter, WriteCounter
<1>6. CASE EnableCounter
  <2>1. \A a \in {0, 1} : Word(0, 1, a, DirBit) \in 0 .. Modulus - 1
    BY <1>1, <1>2, BitsOfWord
  <2>2. QED
    BY <1>1, <1>6, <2>1 DEF EnableCounter, WriteCounter
<1>7. QED
  BY <1>3, <1>4, <1>5, <1>6 DEF SetUpWrite

-----------------------------------------------------------------------------
(* The invariant holds while nobody writes to the counter.                 *)
LEMMA WatchKeepsIInv ==
  ASSUME IInv, Watch
  PROVE  IInv'
<1>1. TypeOK /\ SetUpConsistent /\ inv_s = {}
  BY DEF IInv, Sampled
<1>2. Quiet /\ Observe
  BY WatchIsEdge
<1>3. PICK stb \in BOOLEAN, reg \in 0 .. 3 : Ctr!Clock(stb, FALSE, reg, 0)
  BY WatchIsEdge
<1>4. PICK istb \in BOOLEAN, ireg \in 0 .. 7 \ {Irc!InvReg}, idat \in SUBSET Chan :
        IrcClock(istb, ireg, idat)
  BY WatchIsEdge
<1>5. TypeOK'
  <2>1. phase' \in {"stopped", "reload", "direction", "reset", "running"}
    BY <1>1, <1>2 DEF Quiet, TypeOK
  <2>2. 0 \in 0 .. Modulus - 1
    BY CounterAssumption
  <2>3. QED
    BY <1>1, <1>2, <1>3, <1>4, <2>1, <2>2, EdgeTypes
<1>6. SetUpConsistent'
  BY <1>1, <1>2, QuietSetUp
<1>7. Left' = 1 => Left \in {1, 2}
  <2>1. CASE Running
    <3>1. reload_s \in 2 .. Modulus - 1
      BY <1>1, <2>1, CounterAssumption DEF SetUpConsistent, Running
    <3>2. QED
      BY <1>1, <1>2, <2>1, <3>1, LeftFalls, OverflowAtEnd
  <2>2. CASE ~Running
    BY <1>2, <2>2 DEF Quiet, Left, Running
  <2>3. QED
    BY <2>1, <2>2
<1>8. Sampled' /\ NoInterruptLost'
  BY <1>2, <1>4, <1>7, SampledStep
<1>9. QED
  BY <1>5, <1>6, <1>8 DEF IInv

(* It holds across each write of the set-up.                               *)
LEMMA SetUpKeepsIInv ==
  ASSUME IInv, SetUpWrite
  PROVE  IInv'
<1>1. TypeOK /\ SetUpConsistent
  BY DEF IInv
<1>2. /\ Observe /\ phase' \in {"reload", "direction", "reset", "running"}
      /\ IrcClock(FALSE, 0, {})
  BY <1>1, SetUpWriteIsEdge
<1>3. PICK reg \in 0 .. 3, dat \in 0 .. Modulus - 1 : Ctr!Clock(TRUE, TRUE, reg, dat)
  BY <1>1, SetUpWriteIsEdge
<1>4. /\ TRUE \in BOOLEAN /\ FALSE \in BOOLEAN
      /\ 0 \in 0 .. 7 \ {Irc!InvReg} /\ {} \in SUBSET Chan
  BY DEF Irc!InvReg
<1>5. TypeOK'
  BY <1>1, <1>2, <1>3, <1>4, EdgeTypes
<1>6. SetUpConsistent' /\ (Left' = 1 => Left \in {1, 2})
  <2>1. CASE SetReload
    <3>1. reload_s' \in Reloads /\ phase' = "reload"
      BY <2>1 DEF SetReload, WriteCounter, Ctr!Clock, Ctr!Registers
    <3>2. QED
      BY <3>1 DEF SetUpConsistent, Running, Left
  <2>2. CASE SetDirection
    <3>1. PICK dir \in {0, 1} : ctrl_s' = Word(0, 0, 0, dir)
      BY <2>2 DEF SetDirection, WriteCounter, Ctr!Clock, Ctr!Registers
    <3>2. phase = "reload" /\ phase' = "direction" /\ reload_s' = reload_s
      BY <2>2 DEF SetDirection, WriteCounter, Ctr!Clock, Ctr!Registers, Ctr!CtrlReg, Ctr!ReloadReg
    <3>3. ~Ctr!Rst(ctrl_s')
      BY <3>1, BitsOfWord
    <3>4. QED
      BY <1>1, <3>2, <3>3 DEF SetUpConsistent, Running, Left
  <2>3. CASE ResetCounter
    BY <1>1, <2>3, ResetSetUp DEF ResetCounter, Left, Running
  <2>4. CASE EnableCounter
    <3>1. SetUpConsistent' /\ Left' = reload_s' /\ reload_s' \in Reloads
      BY <1>1, <2>4, EnableSetUp
    <3>2. QED
      BY <3>1, CounterAssumption
  <2>5. QED
    BY <2>1, <2>2, <2>3, <2>4 DEF SetUpWrite
<1>7. Sampled' /\ NoInterruptLost'
  BY <1>2, <1>4, <1>6, SampledStep
<1>8. QED
  BY <1>5, <1>6, <1>7 DEF IInv

(* It holds after a reset of the system.                                   *)
LEMMA ResetKeepsIInv ==
  ASSUME IInv, Reset
  PROVE  IInv'
<1>1. 0 \in 0 .. Modulus - 1 /\ 0 \in 0 .. MaxSince
  BY CounterAssumption DEF MaxSince
<1>2. /\ ctrl_s' = 0 /\ reload_s' = 0 /\ dat_os' = 0 /\ cnt_s' = 0 /\ rld_s' = rld_s
      /\ ack_s' = FALSE /\ err_s' = FALSE
  BY DEF Reset, Ctr!Reset
<1>3. /\ clear_s' = {} /\ inv_s' = {} /\ mask_s' = {} /\ edge_s' = {}
      /\ raw_s' = {} /\ prev_s' = {} /\ state_s' = {}
  BY DEF Reset, Irc!Reset
<1>4. phase' = "stopped" /\ ended' = FALSE /\ owed' = FALSE /\ since' = 0
  BY DEF Reset
<1>5. TypeOK'
  <2>1. {ctrl_s', reload_s', dat_os', cnt_s', rld_s'} \subseteq 0 .. Modulus - 1
    BY <1>1, <1>2 DEF IInv, TypeOK
  <2>2. {ack_s', err_s', ended', owed'} \subseteq BOOLEAN
    BY <1>2, <1>4
  <2>3. QED
    BY <1>1, <1>3, <1>4, <2>1, <2>2 DEF TypeOK
<1>6. SetUpConsistent' /\ Sampled' /\ NoInterruptLost'
  BY <1>3, <1>4 DEF SetUpConsistent, Sampled, NoInterruptLost, Ends, Left, Running
<1>7. QED
  BY <1>5, <1>6 DEF IInv

(* It holds at power-up.                                                   *)
LEMMA InitIInv == Init => IInv
<1> SUFFICES ASSUME Init PROVE IInv
  OBVIOUS
<1>1. 0 \in 0 .. Modulus - 1 /\ 0 \in 0 .. MaxSince
  BY CounterAssumption DEF MaxSince
<1>2. TypeOK
  BY <1>1 DEF Init, Ctr!Init, Ctr!Core!Init, Irc!Init, TypeOK
<1>3. SetUpConsistent /\ Sampled /\ NoInterruptLost
  BY DEF Init, Irc!Init, SetUpConsistent, Sampled, NoInterruptLost, Ends, Left, Running
<1>4. QED
  BY <1>2, <1>3 DEF IInv

(* Nothing happens.                                                        *)
LEMMA StutterKeepsIInv ==
  ASSUME IInv, UNCHANGED vars
  PROVE  IInv' /\ Left' = Left /\ Pending' = Pending
<1>1. /\ UNCHANGED <<ctrl_s, reload_s, dat_os, ack_s, err_s, cnt_s, rld_s>>
      /\ UNCHANGED <<clear_s, inv_s, mask_s, edge_s, raw_s, prev_s, state_s>>
      /\ UNCHANGED <<phase, ended, owed, since>>
  BY DEF vars, Ctr!slaveVars, Irc!ircVars
<1>2. TypeOK'
  BY <1>1 DEF IInv, TypeOK
<1>3. Left' = Left /\ Pending' = Pending
  BY <1>1 DEF Left, Running, Pending
<1>4. SetUpConsistent'
  BY <1>1 DEF IInv, SetUpConsistent, Running
<1>5. Sampled' /\ NoInterruptLost'
  BY <1>1, <1>3 DEF IInv, Sampled, NoInterruptLost, Ends
<1>6. QED
  BY <1>2, <1>3, <1>4, <1>5 DEF IInv

(* The parts of the invariant hold together.                               *)
LEMMA Invariance == Spec => []IInv
<1>1. IInv /\ [Next]_vars => IInv'
  <2> SUFFICES ASSUME IInv, [Next]_vars
               PROVE  IInv'
    OBVIOUS
  <2>1. CASE Watch
    BY <2>1, WatchKeepsIInv
  <2>2. CASE SetUpWrite
    BY <2>2, SetUpKeepsIInv
  <2>3. CASE Reset
    BY <2>3, ResetKeepsIInv
  <2>4. CASE UNCHANGED vars
    BY <2>4, StutterKeepsIInv
  <2>5. QED
    BY <2>1, <2>2, <2>3, <2>4 DEF Next, Watch, SetUpWrite
<1>2. QED
  BY <1>1, InitIInv, PTL DEF Spec

(* The registers of counter and controller keep their types.               *)
THEOREM TypeCorrect == Spec => []TypeOK
<1>1. IInv => TypeOK
  BY DEF IInv
<1>2. QED
  BY <1>1, Invariance, PTL

(* Reload, direction, reset and enable, written in this order with any     *)
(* number of edges between them, leave the counter at the start of a       *)
(* period of reload_s clocks.                                              *)
THEOREM SetUpIsConsistent == Spec => []SetUpConsistent
<1>1. IInv => SetUpConsistent
  BY DEF IInv
<1>2. QED
  BY <1>1, Invariance, PTL

(* A period that ends on an enabled channel is pending until it is         *)
(* cleared, whatever is masked or reconfigured in the meantime.            *)
THEOREM InterruptsAreKept == Spec => []NoInterruptLost
<1>1. IInv => NoInterruptLost
  BY DEF IInv
<1>2. QED
  BY <1>1, Invariance, PTL

-----------------------------------------------------------------------------
(* One edge of the controller raises the channel only at the end of a      *)
(* period, if it looks for edges.                                          *)
LEMMA EdgeRaisesOnce ==
  ASSUME IInv, Running, ~Pending, Pending', edge_s' = Chan,
         NEW stb \in BOOLEAN, NEW reg \in 0 .. 7 \ {Irc!InvReg}, NEW dat \in SUBSET Chan,
         IrcClock(stb, reg, dat)
  PROVE  Ends
<1>1. TypeOK /\ SetUpConsistent /\ Sampled
  BY DEF IInv
<1>2. /\ raw_s' = IF Ctr!Overflow THEN Chan ELSE {}
      /\ state_s' = ((raw_s' \ (raw_s \cap edge_s')) \cap mask_s') \cup (state_s \ clear_s')
  BY <1>1, RawIsOverflow DEF Sampled
<1>3. "counter" \in raw_s' /\ "counter" \notin raw_s
  BY <1>2 DEF Pending, Chan
<1>4. Left = 1
  BY <1>1, <1>2, <1>3, OverflowAtEnd
<1>5. ~ended
  BY <1>1, <1>3 DEF Sampled, Chan
<1>6. QED
  BY <1>4, <1>5 DEF Ends

(* Each pending interrupt of a running counter stands for one end of a     *)
(* period: the capture of ir_channel.vhd neither repeats a period nor      *)
(* invents one.                                                            *)
THEOREM RaisedOnce == Spec => RaisedOncePerPeriod
<1>1. IInv /\ [Next]_vars
        => [Running /\ ~Pending /\ Pending' /\ edge_s' = Chan => Ends]_vars
  <2> SUFFICES ASSUME IInv, Next, Running, ~Pending, Pending', edge_s' = Chan
               PROVE  Ends
    OBVIOUS
  <2>1. CASE Watch
    BY <2>1, WatchIsEdge, EdgeRaisesOnce
  <2>2. CASE SetUpWrite
    <3>1. IrcClock(FALSE, 0, {})
      BY <2>2, SetUpWriteIsEdge, Zenon DEF IInv
    <3>2. 0 \in 0 .. 7 \ {Irc!InvReg} /\ {} \in SUBSET Chan /\ FALSE \in BOOLEAN
      BY DEF Irc!InvReg
    <3>3. QED
      BY <3>1, <3>2, EdgeRaisesOnce
  <2>3. CASE Reset
    BY <2>3 DEF Reset, Irc!Reset, Pending
  <2>4. QED
    BY <2>1, <2>2, <2>3 DEF Next, Watch, SetUpWrite
<1>2. QED
  BY <1>1, Invariance, PTL DEF Spec, RaisedOncePerPeriod

-----------------------------------------------------------------------------
(* While it is watched, a running counter ticks and another one waits.     *)
LEMMA WatchTicks ==
  ASSUME IInv, Watch
  PROVE  [Promise!Next]_(Promise!vars)
<1>1. TypeOK /\ SetUpConsistent /\ Quiet
  BY WatchIsEdge DEF IInv
<1>2. ctrl_s' = ctrl_s /\ reload_s' = reload_s /\ (Running' <=> Running)
  BY <1>1 DEF Quiet, Running
<1>3. CASE Running
  <2>1. reload_s \in 2 .. Modulus - 1
    BY <1>1, <1>3, CounterAssumption DEF SetUpConsistent, Running
  <2>2. Promise!Tick
    <3>1. Left' = IF Left > 1 THEN Left - 1
                  ELSE IF Running /\ Ctr!Autoreload(ctrl_s)
                       THEN IF Running THEN reload_s ELSE 0 ELSE Left
      BY <1>1, <1>3, LeftFalls
    <3>2. (IF Running THEN reload_s ELSE 0)' = IF Running THEN reload_s ELSE 0
      BY <1>2, <1>3
    <3>3. (Running /\ Ctr!Autoreload(ctrl_s))' = (Running /\ Ctr!Autoreload(ctrl_s))
      BY <1>2, <1>3
    <3>4. QED
      BY <3>1, <3>2, <3>3 DEF Promise!Tick
  <2>3. QED
    BY <1>3, <2>1, <2>2, CounterAssumption DEF Promise!Next
<1>4. CASE ~Running
  BY <1>2, <1>4 DEF Promise!vars, Left
<1>5. QED
  BY <1>3, <1>4

(* The writes before the enable end the promise, and so does a reset.      *)
LEMMA NotRunningSetsUp ==
  ASSUME ~Running'
  PROVE  Promise!SetUp
BY DEF Promise!SetUp, Left

(* The enable starts a period of the new reload.                           *)
LEMMA EnableStarts ==
  ASSUME IInv, EnableCounter
  PROVE  Promise!Next
<1>1. Running' /\ Left' = reload_s' /\ reload_s' \in 2 .. Modulus - 1
  BY EnableSetUp, CounterAssumption DEF IInv
<1>2. ~Running
  BY DEF EnableCounter, Running
<1>3. Promise!Start
  BY <1>1, CounterAssumption DEF Promise!Start, Running
<1>4. QED
  BY <1>2, <1>3 DEF Promise!Next

(* Set up in the order of counter.vhd, a counter overflows after exactly   *)
(* reload clocks, in both directions and for every width and reload, and   *)
(* with autoreload again after every further reload clocks.                *)
THEOREM CounterKeepsItsPromise == Spec => KeepsItsPromise
<1>1. Init => Promise!Init
  BY DEF Init, Promise!Init, Running, Left
<1>2. IInv /\ [Next]_vars => [Promise!Next]_(Promise!vars)
  <2> SUFFICES ASSUME IInv, [Next]_vars
               PROVE  [Promise!Next]_(Promise!vars)
    OBVIOUS
  <2>1. CASE Watch
    BY <2>1, WatchTicks
  <2>2. CASE EnableCounter
    BY <2>2, EnableStarts
  <2>3. CASE SetReload \/ SetDirection \/ ResetCounter \/ Reset
    <3>1. ~Running'
      BY <2>3 DEF SetReload, SetDirection, ResetCounter, Reset, Running
    <3>2. QED
      BY <3>1, NotRunningSetsUp DEF Promise!Next
  <2>4. CASE UNCHANGED vars
    BY <2>4 DEF vars, Ctr!slaveVars, Promise!vars, Left, Running
  <2>5. QED
    BY <2>1, <2>2, <2>3, <2>4 DEF Next, Watch
<1>3. QED
  BY <1>1, <1>2, Invariance, PTL DEF Spec, KeepsItsPromise, Promise!Spec
=============================================================================
