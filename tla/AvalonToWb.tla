----------------------------- MODULE AvalonToWb -----------------------------
(***************************************************************************)
(* The second master of the bus: rtl/avalon/avalon_to_wb_bridge.vhd, which *)
(* turns the transfers of the HPS (an Avalon-MM master) into wishbone      *)
(* cycles.  Unlike the CPU it holds its strobe until the acknowledge, and  *)
(* does not look at stall.                                                 *)
(*                                                                         *)
(* avs is what the HPS drives: op, adr and dat.  By the Avalon protocol it *)
(* keeps a transfer steady until waitrequest_n, then drives the next one.  *)
(* A reset of the fabric does not reset the HPS.                           *)
(***************************************************************************)
EXTENDS Integers

CONSTANT
  Transfer      \* the records [op, adr, dat] the HPS may drive, op = "idle",
                \* "read" or "write"

VARIABLES
  cycstb_s,     \* cyc and stb of the bridge
  avs           \* the transfer on the Avalon side

bridgeVars == <<cycstb_s, avs>>

Init == cycstb_s = FALSE /\ avs \in {t \in Transfer : t.op = "idle"}

Busy == avs.op # "idle"

(* A faulty bridge, which does not wait for the answer. *)
DoneAtOnce(ack, err) == cycstb_s

(* waitrequest_n: the transfer ends in this cycle. *)
Done(ack, err) == cycstb_s /\ (ack \/ err)

Cycle(ack, err) == cycstb_s' = IF ack \/ err THEN FALSE ELSE cycstb_s \/ Busy

Clock(ack, err) ==
  /\ Cycle(ack, err)
  /\ avs' \in IF Busy /\ ~Done(ack, err) THEN {avs} ELSE Transfer

(* rst_i is synchronous; the HPS keeps its transfer pending. *)
Reset ==
  /\ cycstb_s' = FALSE
  /\ UNCHANGED avs
=============================================================================
