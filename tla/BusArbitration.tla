---------------------------- MODULE BusArbitration ----------------------------
(***************************************************************************)
(* The arbiter between masters that follow the bus protocol: the closed    *)
(* system in which its round robin is checked and proved.                  *)
(*                                                                         *)
(* request is the aggregated cyc of the masters (plasma_soc.de1_soc.vhd    *)
(* connects it to request_i) and an acknowledge only reaches a granted     *)
(* master (shared_bus.vhd, master_ack_o).  It may reach it while its cyc   *)
(* is low: the bus acknowledges an undecoded address at once.              *)
(***************************************************************************)
EXTENDS Arbiter

VARIABLES
  request,      \* the masters whose cyc is up
  acked,        \* history: the masters acknowledged at the last edge
  overtaken     \* history: grants to others since a waiting master's cyc rose

vars == <<grant_q, grant_prev, grant_enc, request, acked, overtaken>>

ArbitrationInit ==
  /\ Init
  /\ request = {}
  /\ acked = {}
  /\ overtaken = [m \in Channel |-> 0]

(* cyc falls only when the cycle was acknowledged. *)
MastersMove(ack) ==
  request' \in {R \in SUBSET Channel : request \ ack \subseteq R}

(* The history variable after an edge. *)
Overtaken(ack) ==
  [m \in Channel |->
     IF m \notin request' \/ (Free(ack) /\ m \in Grant(request)) THEN 0
     ELSE IF Free(ack) /\ m \in request THEN overtaken[m] + 1
     ELSE overtaken[m]]

Edge(ack) ==
  /\ Clock(request, ack)
  /\ MastersMove(ack)
  /\ acked' = ack
  /\ overtaken' = Overtaken(ack)

(* An edge that ends the owner's cycle, and one that does not. *)
Acknowledge == grant_q # {} /\ Edge(grant_q)
Wait        == Edge({})

SystemReset ==
  /\ Reset
  /\ request' = {}
  /\ acked' = {}
  /\ overtaken' = [m \in Channel |-> 0]

Next == Acknowledge \/ Wait \/ SystemReset

Spec == ArbitrationInit /\ [][Next]_vars

(***************************************************************************)
(* The clock runs and every granted cycle is acknowledged in the end: each *)
(* slave answers a strobe, and an undecoded address is answered by the bus *)
(* itself.  SystemBus discharges the assumption for the CPU and the bridge.*)
(***************************************************************************)
FairSpec ==
  /\ Spec
  /\ WF_vars(Wait)
  /\ WF_vars(Acknowledge)
  /\ <>[][~SystemReset]_vars

-----------------------------------------------------------------------------
(* Types of the registers, of the requests and of the history. *)
TypeOK ==
  /\ grant_q \in SUBSET Channel
  /\ grant_prev \in SUBSET Channel
  /\ grant_enc \in Channel
  /\ request \in SUBSET Channel
  /\ acked \in SUBSET Channel
  /\ overtaken \in [Channel -> Nat]

(***************************************************************************)
(* The bus multiplexes address and data by grant_enc but gates strobes and *)
(* acknowledges by grant_q (shared_bus.vhd 80-119): while somebody is      *)
(* granted the two registers name the same single master, and the round    *)
(* robin continues from it.                                                *)
(***************************************************************************)
GrantConsistent ==
  /\ \A i, j \in grant_q : i = j
  /\ grant_q # {} => grant_enc \in grant_q /\ grant_prev = grant_q

(***************************************************************************)
(* Round robin: no master is overtaken by more than one grant to each of   *)
(* the others between raising cyc and being granted.                       *)
(***************************************************************************)
BoundedBypass == \A m \in Channel : overtaken[m] < N

(* Grants that can still come before m's turn when p was granted last. *)
Ahead(p, m) == IF m > p THEN m - p - 1 ELSE m - p - 1 + N

(***************************************************************************)
(* Why the bypass is bounded: each grant to somebody else moves the round  *)
(* robin closer to a waiting master, so what it has waited and what it may *)
(* still wait never exceed N - 1 together.                                 *)
(***************************************************************************)
TurnComesCloser ==
  /\ \A i, j \in grant_prev : i = j
  /\ \A m \in Channel, p \in grant_prev : overtaken[m] + Ahead(p, m) <= N - 1
  /\ grant_prev = {} => \A m \in Channel : overtaken[m] = 0
  /\ \A m \in Channel : m \notin request => overtaken[m] = 0

(* The arbiter implements the bus ownership the masters rely on. *)
Owner == IF grant_q = {} THEN N ELSE grant_enc
Ownership == INSTANCE BusOwnership WITH owner <- Owner
ImplementsOwnership == Ownership!Spec

(* Every master that asks for the bus gets it. *)
NoStarvation == \A m \in Channel : m \in request ~> m \in grant_q \/ m \notin request
=============================================================================
