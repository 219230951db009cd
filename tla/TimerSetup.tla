------------------------------ MODULE TimerSetup ------------------------------
(***************************************************************************)
(* A timer and the software that sets it up, in the order counter.vhd 5-8  *)
(* asks for: the reload, the unit, reset, enable.  Two accesses of one bus *)
(* master are at least Gap edges apart, from the first strobe of one to    *)
(* the first strobe of the next.  The HPS's bridge strobes every access    *)
(* twice and needs three edges, the CPU more: a Gap of 2 allows for both.  *)
(***************************************************************************)
EXTENDS Integers

CONSTANTS
  Modulus, Ticks,   \* see Timer
  Reloads,          \* the reload values the software uses
  Gap               \* edges between two writes, at the least

SetupConstants ==
  /\ Gap \in Nat /\ Gap > 1
  /\ Modulus \in Nat
  /\ DOMAIN Ticks \subseteq 0 .. 4
  /\ \A u \in DOMAIN Ticks, r \in Reloads : r * Ticks[u] \in 2 .. Modulus - 1

VARIABLES
  ctrl_s, reload_s, dat_os, ack_s, err_s, unit_s, ticks_s, cnt_s, rld_s,
  phase,        \* how far the software is in setting up the timer
  write, age,   \* its last write, and how long ago that was
  due           \* history: edges until the overflow, from 1; 0 before the start

Tim == INSTANCE Timer

vars == <<Tim!timerVars, phase, write, age, due>>

NoWrite == [reg |-> 0, dat |-> 0]

Init ==
  /\ Tim!Init
  /\ phase = "stopped"
  /\ write = NoWrite /\ age = Gap /\ due = 0

Period == reload_s * Ticks[Tim!Unit(ctrl_s)]

Elapse ==
  due' = IF due > 1 THEN due - 1
         ELSE IF due = 1 /\ Tim!Autoreload(ctrl_s) THEN Period ELSE due

(* The second strobe of a write, or anyone's read, or nothing. *)
Between ==
  /\ age < Gap => age' = age + 1
  /\ age = Gap => age' = age
  /\ \/ Tim!Clock(FALSE, FALSE, 0, 0)
     \/ age = 1 /\ Tim!Clock(TRUE, TRUE, write.reg, write.dat)
     \/ age > 1 /\ \E reg \in Tim!Readable : Tim!Clock(TRUE, FALSE, reg, 0)
  /\ Elapse
  /\ UNCHANGED <<phase, write>>

Write(reg, dat) ==
  /\ age = Gap /\ age' = 1
  /\ write' = [reg |-> reg, dat |-> dat]
  /\ Tim!Clock(TRUE, TRUE, reg, dat)

(* Control words: bits reset, enable, autoreload, and the unit. *)
Word(rst, en, autoreload, unit) == rst + 2 * en + 4 * autoreload + 8 * unit

SetReload ==
  /\ phase \in {"stopped", "running"}
  /\ \E r \in Reloads : Write(Tim!ReloadReg, r)
  /\ phase' = "reload" /\ due' = 0

SetUnit ==
  /\ phase = "reload"
  /\ \E u \in DOMAIN Ticks : Write(Tim!CtrlReg, Word(0, 0, 0, u))
  /\ phase' = "unit" /\ UNCHANGED due

ResetTimer ==
  /\ phase = "unit"
  /\ Write(Tim!CtrlReg, Word(1, 0, 0, Tim!Unit(ctrl_s)))
  /\ phase' = "reset" /\ UNCHANGED due

EnableTimer ==
  /\ phase = "reset"
  /\ \E autoreload \in {0, 1} :
       Write(Tim!CtrlReg, Word(0, 1, autoreload, Tim!Unit(ctrl_s)))
  /\ phase' = "running" /\ due' = Period

Reset ==
  /\ Tim!Reset
  /\ phase' = "stopped" /\ write' = NoWrite /\ age' = Gap /\ due' = 0

Next == Between \/ SetReload \/ SetUnit \/ ResetTimer \/ EnableTimer \/ Reset

Spec == Init /\ [][Next]_vars

-----------------------------------------------------------------------------
(***************************************************************************)
(* Set up in this order, at this pace, a timer overflows when its reload,  *)
(* in the unit chosen, is over, and not before: what an earlier reload or  *)
(* unit left on its way to the counter is gone when the timer starts.      *)
(* With autoreload it does so again a period later, and without it stays.  *)
(***************************************************************************)
ExpiresOnTime == phase = "running" => (Tim!Overflow <=> due = 1)
=============================================================================
