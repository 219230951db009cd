------------------------------- MODULE Arbiter -------------------------------
(***************************************************************************)
(* The bus arbiter of the SoC, rtl/wishbone/arbiter.vhd: a registered      *)
(* round-robin arbiter.  The vectors request_i, ack_i, grant_q and         *)
(* grant_prev are the sets of the channels whose bit is set.               *)
(*                                                                         *)
(* The module is a component: Clock is one rising edge for given inputs    *)
(* and Reset is the asynchronous reset; the module that instantiates it    *)
(* says where the inputs come from.                                        *)
(***************************************************************************)
EXTENDS Integers

CONSTANT
  N             \* the generic "channels": number of masters on the bus

ASSUME NAssumption == N \in Nat \ {0}

VARIABLES
  grant_q,      \* channels granted (one or none, which is to be shown)
  grant_prev,   \* the last grant that was not empty
  grant_enc     \* binary number of the granted channel

arbiterVars == <<grant_q, grant_prev, grant_enc>>

Channel == 0 .. N - 1

(* x and (not x + 1): the least significant set bit, or nothing. *)
Lsb(S) == {m \in S : \A k \in S : m <= k}

(* Faulty masks: the previous grant is ignored; it is not masked itself. *)
MaskNothing(request) == request
MaskBelow(request) == {m \in request : \E k \in Lsb(grant_prev) : k <= m}

(***************************************************************************)
(* request_i and not ((grant_prev - 1) or grant_prev): the requests above  *)
(* the previous grant.  Without a previous grant the subtraction wraps to  *)
(* all ones and masks every request.                                       *)
(***************************************************************************)
Mask(request) ==
  {m \in request : /\ m \notin grant_prev
                   /\ \E k \in Lsb(grant_prev) : k < m}

(* A faulty grant: the least significant bit of the masked requests is not taken. *)
GrantAllMasked(request) ==
  IF Mask(request) # {} THEN Mask(request) ELSE Lsb(request)

Grant(request) ==
  IF Mask(request) # {} THEN Lsb(Mask(request)) ELSE Lsb(request)

(* A faulty encoder, which counts the channels from one. *)
EncodeFromOne(grant) == IF grant = {} THEN 0 ELSE (CHOOSE m \in grant : TRUE) + 1

(* The loop that ors the numbers of the granted channels: Lsb leaves one. *)
Encode(grant) == IF grant = {} THEN 0 ELSE CHOOSE m \in grant : TRUE

Init ==
  /\ grant_q = {}
  /\ grant_prev = {}
  /\ grant_enc = 0

(* Faulty hand-overs: without an acknowledge; only after an idle cycle. *)
FreeAlways(ack) == TRUE
FreeNever(ack) == grant_q = {}

(* The arbiter may hand the bus over on this edge. *)
Free(ack) == grant_q = {} \/ ack # {}

Clock(request, ack) ==
  \/ /\ Free(ack)
     /\ grant_q' = Grant(request)
     /\ grant_prev' = IF Grant(request) # {} THEN Grant(request) ELSE grant_prev
     /\ grant_enc' = Encode(Grant(request))
  \/ /\ ~Free(ack)
     /\ UNCHANGED arbiterVars

(* rst_i: the encoder is not reset. *)
Reset ==
  /\ grant_q' = {}
  /\ grant_prev' = {}
  /\ UNCHANGED grant_enc
=============================================================================
