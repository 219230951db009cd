-------------------------- MODULE MCCounterInterrupt --------------------------
(* TLC instance: a four-bit counter; some reloads are twice another one.     *)
EXTENDS CounterInterrupt

MCReloads == {2, 4, 7}
=============================================================================
