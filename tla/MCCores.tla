------------------------------- MODULE MCCores -------------------------------
(***************************************************************************)
(* TLC instance of the cores: characters, SPI words and the multiplier's   *)
(* operands of a few bits, units of one clock and of three.                *)
(***************************************************************************)
EXTENDS Cores

MCBlind == {[master |-> "cpu", task |-> "blind"]}
MCDriver == [master : {"cpu", "hps"}, task : {"send", "receive"}] \cup MCBlind
MCPolling == [master : {"cpu", "hps"}, task : {"poll"}]

MCTicks == [u \in {0, 1} |-> IF u = 0 THEN 1 ELSE 3]

MCWords == {<<0, 1, 1>>, <<1, 0, 0>>}

(* Every operation first; what follows may interrupt it. *)
Operands == 0 .. 2^Width - 1
MCStarts == {"MULT", "SIGNED_MULT", "DIVIDE", "SIGNED_DIVIDE"}
MCFirst == [func : MCStarts, a : Operands, b : Operands]
MCLater == [func : MCStarts, a : {1, 26}, b : {3}]
             \cup [func : {"WRITE_LO", "WRITE_HI"}, a : {5}, b : {0}]
=============================================================================
