-------------------------------- MODULE Timer --------------------------------
(***************************************************************************)
(* A timer: the registers of rtl/timer/slave_timer.vhd, the conversion of  *)
(* the reload to clock ticks in rtl/timer/timer.vhd, and the counter       *)
(* behind both, which only counts up.  A new reload takes three edges from *)
(* its register to the counter, a new unit too; none of them during reset. *)
(***************************************************************************)
EXTENDS Integers

CONSTANTS
  Modulus,      \* of the counter: 2^64 in the source
  Ticks         \* clocks per unit, by the unit's code

VARIABLES
  ctrl_s, reload_s, dat_os, ack_s, err_s,   \* the slave; reload_s is its "rld_s"
  unit_s, ticks_s,                          \* timer.vhd; ticks_s is its "rld_s"
  cnt_s, rld_s                              \* the counter

Core == INSTANCE Counter

timerVars == <<ctrl_s, reload_s, dat_os, ack_s, err_s, unit_s, ticks_s, cnt_s, rld_s>>

(* Word offsets of the registers, adr_i(3 downto 0) / 4. *)
CtrlReg   == 0
StatReg   == 1
DataReg   == 2
ReloadReg == 3

Readable == {CtrlReg, StatReg, DataReg, ReloadReg}
Writable == {CtrlReg, ReloadReg}

(* The bits of the control register. *)
Rst(ctrl)        == ctrl % 2 = 1
En(ctrl)         == (ctrl \div 2) % 2 = 1
Autoreload(ctrl) == (ctrl \div 4) % 2 = 1
Unit(ctrl)       == (ctrl \div 8) % 8

Overflow == Core!Overflow(FALSE)

Stat == IF Overflow THEN 3 ELSE 1

(* A faulty enable, which does not look at autoreload. *)
EnableOnce == En(ctrl_s) /\ ~Overflow

(* en_i: without autoreload the timer stops at its overflow. *)
Enable == En(ctrl_s) /\ (~Overflow \/ Autoreload(ctrl_s))

(* A code that is no unit makes the period one tick. *)
Converted == IF unit_s \in DOMAIN Ticks THEN reload_s * Ticks[unit_s] ELSE 1

Init ==
  /\ ctrl_s = 0 /\ reload_s = 0 /\ dat_os = 0
  /\ ack_s = FALSE /\ err_s = FALSE
  /\ unit_s \in 0 .. 7 /\ ticks_s = 0
  /\ Core!Init

ReadRegister(reg) ==
  CASE reg = CtrlReg   -> ctrl_s
    [] reg = StatReg   -> Stat
    [] reg = DataReg   -> cnt_s
    [] reg = ReloadReg -> reload_s

Registers(stb, we, reg, dat) ==
  /\ dat_os'   = IF stb /\ ~we /\ reg \in Readable THEN ReadRegister(reg) ELSE dat_os
  /\ ctrl_s'   = IF stb /\ we /\ reg = CtrlReg THEN dat ELSE ctrl_s
  /\ reload_s' = IF stb /\ we /\ reg = ReloadReg THEN dat ELSE reload_s
  /\ err_s' = (stb /\ reg \notin IF we THEN Writable ELSE Readable)
  /\ ack_s' = (stb /\ ~err_s')

Convert ==
  /\ unit_s'  = IF Rst(ctrl_s) THEN unit_s ELSE Unit(ctrl_s)
  /\ ticks_s' = IF Rst(ctrl_s) THEN ticks_s ELSE Converted

Clock(stb, we, reg, dat) ==
  /\ Registers(stb, we, reg, dat)
  /\ Convert
  /\ Core!Clock(Rst(ctrl_s), Enable, FALSE, ticks_s, Rst(ctrl_s'), FALSE)

(* rst_i clears the slave and the count, and keeps what is behind them. *)
Reset ==
  /\ ctrl_s' = 0 /\ reload_s' = 0 /\ dat_os' = 0
  /\ ack_s' = FALSE /\ err_s' = FALSE
  /\ cnt_s' = 0
  /\ UNCHANGED <<unit_s, ticks_s, rld_s>>
=============================================================================
