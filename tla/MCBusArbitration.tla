--------------------------- MODULE MCBusArbitration ---------------------------
(* TLC instance: four masters, twice as many as the DE1-SoC has, so that    *)
(* the round robin passes over several waiting masters and wraps around.    *)
EXTENDS BusArbitration
=============================================================================
