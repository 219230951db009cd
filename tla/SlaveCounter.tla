----------------------------- MODULE SlaveCounter -----------------------------
(***************************************************************************)
(* The register file of a counter, rtl/counter/slave_counter.vhd, and the  *)
(* counter behind it.  Words are numbers below Modulus = 2^data_w.         *)
(***************************************************************************)
EXTENDS Integers

CONSTANT Modulus

VARIABLES
  ctrl_s,       \* control register
  reload_s,     \* reload register ("rld_s" of the slave)
  dat_os,       \* data returned by a read
  ack_s, err_s, \* registered answer
  cnt_s, rld_s  \* the counter

Core == INSTANCE Counter

slaveVars == <<ctrl_s, reload_s, dat_os, ack_s, err_s, cnt_s, rld_s>>

(* Word offsets of the registers, adr_i(3 downto 0) / 4. *)
CtrlReg   == 0
StatReg   == 1
DataReg   == 2
ReloadReg == 3

Readable == {CtrlReg, StatReg, DataReg, ReloadReg}
Writable == {CtrlReg, ReloadReg}

(* The bits of the control register. *)
Rst(ctrl)        == ctrl % 2 = 1
En(ctrl)         == (ctrl \div 2) % 2 = 1
Autoreload(ctrl) == (ctrl \div 4) % 2 = 1
Dir(ctrl)        == (ctrl \div 8) % 2 = 1

Overflow == Core!Overflow(Dir(ctrl_s))

(* Bit 0 is "ready" and always set, bit 1 is the overflow. *)
Stat == IF Overflow THEN 3 ELSE 1

(* A faulty enable, which does not look at autoreload. *)
EnableOnce == En(ctrl_s) /\ ~Overflow

(* en_i: without autoreload the counter stops at its overflow. *)
Enable == En(ctrl_s) /\ (~Overflow \/ Autoreload(ctrl_s))

Init ==
  /\ ctrl_s = 0 /\ reload_s = 0 /\ dat_os = 0
  /\ ack_s = FALSE /\ err_s = FALSE
  /\ Core!Init

ReadRegister(reg) ==
  CASE reg = CtrlReg   -> ctrl_s
    [] reg = StatReg   -> Stat
    [] reg = DataReg   -> cnt_s
    [] reg = ReloadReg -> reload_s

Registers(stb, we, reg, dat) ==
  /\ dat_os'   = IF stb /\ ~we /\ reg \in Readable THEN ReadRegister(reg) ELSE dat_os
  /\ ctrl_s'   = IF stb /\ we /\ reg = CtrlReg THEN dat ELSE ctrl_s
  /\ reload_s' = IF stb /\ we /\ reg = ReloadReg THEN dat ELSE reload_s
  /\ err_s' = (stb /\ reg \notin IF we THEN Writable ELSE Readable)
  /\ ack_s' = (stb /\ ~err_s')

Clock(stb, we, reg, dat) ==
  /\ Registers(stb, we, reg, dat)
  /\ Core!Clock(Rst(ctrl_s), Enable, Dir(ctrl_s), reload_s, Rst(ctrl_s'), Dir(ctrl_s'))

(* rst_i: the counter's own reset keeps rld_s, and counts up from zero. *)
Reset ==
  /\ ctrl_s' = 0 /\ reload_s' = 0 /\ dat_os' = 0
  /\ ack_s' = FALSE /\ err_s' = FALSE
  /\ cnt_s' = 0
  /\ UNCHANGED rld_s
=============================================================================
