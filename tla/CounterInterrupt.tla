--------------------------- MODULE CounterInterrupt ---------------------------
(***************************************************************************)
(* A counter of the SoC, the interrupt controller its overflow is wired to *)
(* (plasma_soc.de1_soc.vhd, irq_inputs) and the software that uses both.   *)
(* The software sets a counter up in the order counter.vhd 5-8 asks for:   *)
(* reload, direction, reset, enable; and sets up and clears the controller *)
(* at any time.  There is one bus: at most one register is accessed at an  *)
(* edge.                                                                   *)
(***************************************************************************)
EXTENDS Integers

CONSTANTS
  Modulus,      \* 2^data_w of the counter
  Reloads       \* the reload values the software uses

ASSUME CounterAssumption ==
  /\ Modulus \in Nat /\ Modulus > 15        \* the control word has four bits
  /\ Reloads \subseteq 2 .. Modulus - 1

VARIABLES
  ctrl_s, reload_s, dat_os, ack_s, err_s, cnt_s, rld_s,           \* counter
  clear_s, inv_s, mask_s, edge_s, raw_s, prev_s, state_s,         \* controller
  phase,        \* how far the software is in setting up the counter
  ended,        \* history: at the last edge a period was at its end
  owed,         \* history: a period ended, enabled and not cleared since
  since         \* history: clocks since the last overflow

Chan == {"counter"}

Ctr == INSTANCE SlaveCounter
Irc == INSTANCE SlaveIrc

vars == <<Ctr!slaveVars, Irc!ircVars, phase, ended, owed, since>>

Running == phase = "running"
Pending == "counter" \in state_s

(* What is left of the period, as the user sees it. *)
Left ==
  IF ~Running THEN 0
  ELSE IF Ctr!Dir(ctrl_s) THEN cnt_s + 1 ELSE reload_s - cnt_s

Ends == Left = 1 /\ ~ended

MaxSince == 2 * Modulus     \* bound of the history variable

Init ==
  /\ Ctr!Init /\ Irc!Init
  /\ phase = "stopped"
  /\ ended = FALSE /\ owed = FALSE /\ since = 0

-----------------------------------------------------------------------------
(* One edge: an access to the counter, to the controller, or none.         *)
Observe ==
  /\ ended' = (Left = 1)
  /\ owed' = (clear_s' = {} /\ (owed \/ (Ends /\ mask_s' = Chan)))
  /\ since' = IF Ctr!Overflow \/ ~Running THEN 0
              ELSE IF since < MaxSince THEN since + 1 ELSE since

IrcClock(stb, reg, dat) == Irc!Clock(stb, reg, dat, IF Ctr!Overflow THEN Chan ELSE {})

WriteCounter(reg, dat) ==
  Ctr!Clock(TRUE, TRUE, reg, dat) /\ IrcClock(FALSE, 0, {}) /\ Observe

NoAccess ==
  /\ Ctr!Clock(FALSE, FALSE, 0, 0) /\ IrcClock(FALSE, 0, {}) /\ Observe
  /\ UNCHANGED phase

(* Anyone may look at the counter at any time. *)
ReadCounter ==
  /\ \E reg \in Ctr!Readable : Ctr!Clock(TRUE, FALSE, reg, 0)
  /\ IrcClock(FALSE, 0, {}) /\ Observe
  /\ UNCHANGED phase

(* Control words: bits reset, enable, autoreload, direction. *)
Word(rst, en, autoreload, dir) == rst + 2 * en + 4 * autoreload + 8 * dir
DirBit == IF Ctr!Dir(ctrl_s) THEN 1 ELSE 0

SetReload ==
  /\ phase \in {"stopped", "running"}
  /\ \E r \in Reloads : WriteCounter(Ctr!ReloadReg, r)
  /\ phase' = "reload"

SetDirection ==
  /\ phase = "reload"
  /\ \E dir \in {0, 1} : WriteCounter(Ctr!CtrlReg, Word(0, 0, 0, dir))
  /\ phase' = "direction"

ResetCounter ==
  /\ phase = "direction"
  /\ WriteCounter(Ctr!CtrlReg, Word(1, 0, 0, DirBit))
  /\ phase' = "reset"

EnableCounter ==
  /\ phase = "reset"
  /\ \E autoreload \in {0, 1} :
       WriteCounter(Ctr!CtrlReg, Word(0, 1, autoreload, DirBit))
  /\ phase' = "running"

(* Masking, clearing and the choice of edge or level, at any time. *)
WriteIrc ==
  /\ \E reg \in {Irc!ClearReg, Irc!MaskReg, Irc!EdgeReg}, dat \in SUBSET Chan :
       Ctr!Clock(FALSE, FALSE, 0, 0) /\ IrcClock(TRUE, reg, dat) /\ Observe
  /\ UNCHANGED phase

Reset ==
  /\ Ctr!Reset /\ Irc!Reset
  /\ phase' = "stopped"
  /\ ended' = FALSE /\ owed' = FALSE /\ since' = 0

Next ==
  \/ NoAccess \/ ReadCounter \/ SetReload \/ SetDirection \/ ResetCounter \/ EnableCounter
  \/ WriteIrc \/ Reset

Spec == Init /\ [][Next]_vars

(* The clock runs; the software may stop at any point. *)
FairSpec == Spec /\ WF_vars(Next)

(***************************************************************************)
(* With the host's led_pattern_mgr as well: a key halves or doubles the    *)
(* reload of the counter while it runs.                                    *)
(***************************************************************************)
KeyPressed ==
  /\ Running
  /\ \E r \in {reload_s \div 2, 2 * reload_s} \cap Reloads :
       WriteCounter(Ctr!ReloadReg, r)
  /\ UNCHANGED phase

KeySpec == Init /\ [][Next \/ KeyPressed]_vars

-----------------------------------------------------------------------------
(* Types of the registers and the history. *)
TypeOK ==
  /\ {ctrl_s, reload_s, dat_os, cnt_s, rld_s} \subseteq 0 .. Modulus - 1
  /\ {ack_s, err_s, ended, owed} \subseteq BOOLEAN
  /\ {clear_s, inv_s, mask_s, edge_s, raw_s, prev_s, state_s} \subseteq SUBSET Chan
  /\ phase \in {"stopped", "reload", "direction", "reset", "running"}
  /\ since \in 0 .. MaxSince

(***************************************************************************)
(* How far the registers are when the software has come to a phase.  The   *)
(* reload arrives in the counter one edge after its register and not       *)
(* during reset, and the reset loads the count from it: the order of the   *)
(* writes, and that the reset is a step of its own, is what makes them     *)
(* agree when the counter starts.                                          *)
(***************************************************************************)
SetUpConsistent ==
  /\ phase # "stopped" => reload_s \in Reloads
  /\ phase = "direction" => ~Ctr!Rst(ctrl_s)
  /\ phase = "reset" => /\ Ctr!Rst(ctrl_s)
                        /\ rld_s = reload_s - 1
                        /\ cnt_s = IF Ctr!Dir(ctrl_s) THEN rld_s ELSE 0
  /\ Running => /\ ~Ctr!Rst(ctrl_s) /\ Ctr!En(ctrl_s)
                /\ rld_s = reload_s - 1
                /\ cnt_s <= rld_s

(***************************************************************************)
(* Set up in the documented order the counter keeps its promise, in both   *)
(* directions, whatever it was doing before and however many edges lie     *)
(* between the writes.                                                     *)
(***************************************************************************)
Promise == INSTANCE PeriodicCounter WITH
  period <- IF Running THEN reload_s ELSE 0,
  left   <- Left,
  auto   <- Running /\ Ctr!Autoreload(ctrl_s)
KeepsItsPromise == Promise!Spec

(***************************************************************************)
(* The end of a period on an enabled channel leaves the channel pending    *)
(* until it is cleared, although the overflow may last one cycle only.     *)
(***************************************************************************)
NoInterruptLost == owed => Pending

(***************************************************************************)
(* With edge detection a channel becomes pending only when a period ends,  *)
(* and once for each: neither the overflow that stays without autoreload   *)
(* nor masking and unmasking raises it again.                              *)
(***************************************************************************)
RaisedOncePerPeriod ==
  [][Running /\ ~Pending /\ Pending' /\ edge_s' = Chan => Ends]_vars

(* With autoreload an enabled channel is raised again and again. *)
KeepsInterrupting ==
  <>[](Running /\ Ctr!Autoreload(ctrl_s) /\ mask_s = Chan) => []<>Pending

(***************************************************************************)
(* No period is longer than the longest reload in use.                     *)
(***************************************************************************)
PeriodBounded == \A r \in Reloads : (\A q \in Reloads : q <= r) => since < r
=============================================================================
