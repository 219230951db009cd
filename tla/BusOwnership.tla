----------------------------- MODULE BusOwnership -----------------------------
(***************************************************************************)
(* What the masters of the bus rely on, without saying how the arbiter     *)
(* does it: at most one owner, an owner that keeps the bus until its cycle *)
(* is acknowledged, a new owner that asked for the bus, and no requester   *)
(* overtaken by N or more grants to other masters.                         *)
(***************************************************************************)
EXTENDS Integers

CONSTANT N

Channel == 0 .. N - 1
NoOwner == N

VARIABLES
  owner,      \* the master that owns the bus, or NoOwner
  request,    \* the masters that ask for a bus cycle
  acked,      \* the masters whose cycle was acknowledged at the last edge
  overtaken   \* grants to others since a waiting master started to ask

vars == <<owner, request, acked, overtaken>>

Init ==
  /\ owner = NoOwner
  /\ request = {}
  /\ acked = {}
  /\ overtaken = [m \in Channel |-> 0]

(* Masters raise requests, and withdraw one only when their cycle is acked. *)
Requests == request' \in SUBSET Channel /\ request \ acked' \subseteq request'

(* What a grant to "new" does to the waiting times. *)
Overtake(new) ==
  overtaken' = [m \in Channel |->
                  IF m \notin request' \/ new = m THEN 0
                  ELSE IF m \in request /\ new # NoOwner THEN overtaken[m] + 1
                  ELSE overtaken[m]]

(* The bus is idle, or the owner's cycle ends: anybody who asks may get it. *)
HandOver ==
  /\ acked' \in SUBSET {owner}
  /\ owner = NoOwner \/ acked' = {owner}
  /\ \E new \in request \cup {NoOwner} :
       /\ owner' = new
       /\ request # {} => new # NoOwner
       /\ Overtake(new)
  /\ \A m \in Channel : overtaken'[m] < N

(* The owner's cycle goes on. *)
Keep ==
  /\ owner # NoOwner /\ acked' = {}
  /\ UNCHANGED owner
  /\ overtaken' = [m \in Channel |-> IF m \in request' THEN overtaken[m] ELSE 0]

Next ==
  \/ Requests /\ HandOver
  \/ Requests /\ Keep
  \/ (* reset: everybody starts over *)
     /\ owner' = NoOwner
     /\ request' = {}
     /\ acked' = {}
     /\ overtaken' = [m \in Channel |-> 0]

Spec == Init /\ [][Next]_vars
=============================================================================
