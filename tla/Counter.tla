------------------------------- MODULE Counter -------------------------------
(***************************************************************************)
(* The counter core, rtl/counter/counter.vhd.  "down" is dir_i = '1'.      *)
(*                                                                         *)
(* The reset is a level: Clock gets it, and the direction, as they are     *)
(* before the edge and as they are after it.                               *)
(***************************************************************************)
EXTENDS Integers

CONSTANT
  Modulus       \* 2^data_w

VARIABLES
  cnt_s,        \* the count
  rld_s         \* the last count of a period: reload - 1

counterVars == <<cnt_s, rld_s>>

Init == cnt_s = 0 /\ rld_s = 0

(* A faulty comparison, with the reload instead of the count before it. *)
AtEndUpLate == cnt_s = (rld_s + 1) % Modulus /\ rld_s # 0

(* The count is the last one of its period; reload 1 has none going up. *)
AtEndUp   == cnt_s = rld_s /\ rld_s # 0
AtEndDown == cnt_s = 0

(* irq_o *)
Overflow(down) == IF down THEN AtEndDown ELSE AtEndUp

(* A faulty count, which does not start over. *)
CountDownOn == cnt_s - 1

CountUp   == IF AtEndUp THEN 0 ELSE (cnt_s + 1) % Modulus
CountDown == IF AtEndDown THEN rld_s ELSE cnt_s - 1

(* A faulty reload register, which has no edge of its own but the reset's. *)
ReloadHeld(rst, reload) == rld_s' = IF rst THEN (reload - 1) % Modulus ELSE rld_s

(* The reload follows its input one edge later, and not during reset. *)
Reload(rst, reload) == rld_s' = IF rst THEN rld_s ELSE (reload - 1) % Modulus

(* A reset loads the start of a period: going down, whatever rld_s holds. *)
Held(downNext) == cnt_s' = IF downNext THEN rld_s' ELSE 0

Count(rst, en, down) ==
  cnt_s' = IF rst \/ ~en THEN cnt_s ELSE IF down THEN CountDown ELSE CountUp

Clock(rst, en, down, reload, rstNext, downNext) ==
  /\ Reload(rst, reload)
  /\ \/ rstNext /\ Held(downNext)
     \/ ~rstNext /\ Count(rst, en, down)
=============================================================================
