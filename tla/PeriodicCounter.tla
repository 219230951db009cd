--------------------------- MODULE PeriodicCounter ---------------------------
(***************************************************************************)
(* What a counter promises its user: once started it overflows after       *)
(* exactly "period" clocks, and then, with autoreload, again after every   *)
(* further "period" clocks; without it the overflow stays.                 *)
(***************************************************************************)
EXTENDS Naturals

VARIABLES
  period,       \* clocks per overflow; 0 while the counter is being set up
  left,         \* clocks until the end of the period, this one included
  auto          \* start over at the end

vars == <<period, left, auto>>

Overflow == left = 1

Init == period = 0 /\ left = 0 /\ auto = FALSE

Start ==
  /\ period' \in Nat \ {0}
  /\ auto' \in BOOLEAN
  /\ left' = period'

Tick ==
  /\ left' = IF left > 1 THEN left - 1 ELSE IF auto THEN period ELSE left
  /\ UNCHANGED <<period, auto>>

SetUp == period' = 0 /\ left' = 0 /\ auto' = FALSE

Next ==
  \/ period = 0 /\ Start
  \/ period # 0 /\ Tick
  \/ SetUp

Spec == Init /\ [][Next]_vars
=============================================================================
