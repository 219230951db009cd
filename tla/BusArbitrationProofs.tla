------------------------ MODULE BusArbitrationProofs ------------------------
(***************************************************************************)
(* Proofs about the arbiter for any number N of masters: types, the        *)
(* consistency of its registers, the bound on overtaking, and that it      *)
(* implements BusOwnership.                                                *)
(***************************************************************************)
EXTENDS BusArbitration, WellFoundedInduction, TLAPS

(***************************************************************************)
(* The inductive invariant.  GrantConsistent and BoundedBypass are not     *)
(* inductive alone: the bound needs the distance argument of               *)
(* TurnComesCloser, and that needs a single previous grant.                *)
(***************************************************************************)
IInv == TypeOK /\ GrantConsistent /\ TurnComesCloser

-----------------------------------------------------------------------------
(* The arithmetic of rtl/wishbone/arbiter.vhd isolates one bit: a set of   *)
(* channels that is not empty has exactly one least element.               *)
LEMMA LsbExists ==
  ASSUME NEW S \in SUBSET Channel, S # {}
  PROVE  \E m \in S : Lsb(S) = {m}
<1>1. S \subseteq Nat
  BY NAssumption DEF Channel
<1>2. PICK m \in S : \A k \in S : ~(<<k, m>> \in OpToRel(<, Nat))
  BY <1>1, NatLessThanWellFounded, WFMin
<1>3. \A k \in S : m <= k
  <2>1. OpToRel(<, Nat) = {ss \in Nat \X Nat : ss[1] < ss[2]}
    BY DEF OpToRel
  <2>2. \A j, k \in Nat : j < k => <<j, k>> \in OpToRel(<, Nat)
    BY <2>1
  <2>3. \A k \in S : ~(k < m)
    BY <1>1, <1>2, <2>2, Zenon
  <2>4. QED
    BY <1>1, <2>3
<1>4. \A k \in S : (\A j \in S : k <= j) => k = m
  BY <1>1, <1>3
<1>5. QED
  BY <1>3, <1>4 DEF Lsb

(* A grant goes to one of the requesters, whenever there is one. *)
LEMMA GrantIsOneRequester ==
  ASSUME NEW R \in SUBSET Channel, R # {}
  PROVE  \E x \in R : Grant(R) = {x}
<1>1. CASE Mask(R) # {}
  <2>1. Mask(R) \subseteq R
    BY DEF Mask
  <2>2. PICK x \in Mask(R) : Lsb(Mask(R)) = {x}
    BY <1>1, <2>1, LsbExists
  <2>3. QED
    BY <1>1, <2>1, <2>2 DEF Grant
<1>2. CASE Mask(R) = {}
  BY <1>2, LsbExists DEF Grant
<1>3. QED
  BY <1>1, <1>2

(* Without requests nobody is granted. *)
LEMMA NoRequestNoGrant == Grant({}) = {}
  BY DEF Grant, Mask, Lsb

(***************************************************************************)
(* The heart of the round robin: when x is granted after p, every other    *)
(* requester m has fewer grants ahead of it than before.                   *)
(***************************************************************************)
LEMMA GrantComesCloser ==
  ASSUME NEW R \in SUBSET Channel, NEW p \in Channel, grant_prev = {p},
         NEW x \in R, Grant(R) = {x}, NEW m \in R, m # x
  PROVE  Ahead(x, m) + 1 <= Ahead(p, m)
<1>1. Lsb(grant_prev) = {p}
  BY DEF Lsb, Channel
<1>2. Mask(R) = {r \in R : p < r}
  BY <1>1 DEF Mask, Channel
<1>3. x \in Int /\ p \in Int /\ m \in Int /\ N \in Int
  BY NAssumption DEF Channel
<1>4. CASE Mask(R) # {}
  <2>1. p < x /\ \A k \in Mask(R) : x <= k
    BY <1>2, <1>4 DEF Grant, Lsb
  <2>2. CASE m > p
    BY <1>2, <1>3, <2>1, <2>2 DEF Ahead
  <2>3. CASE ~(m > p)
    BY <1>3, <2>1, <2>3 DEF Ahead
  <2>4. QED
    BY <2>2, <2>3
<1>5. CASE Mask(R) = {}
  <2>1. \A k \in R : x <= k
    BY <1>5 DEF Grant, Lsb
  <2>2. x < m /\ ~(p < m)
    BY <1>2, <1>3, <1>5, <2>1
  <2>3. p - x + 1 <= N
    BY NAssumption DEF Channel
  <2>4. QED
    BY <1>3, <2>2, <2>3 DEF Ahead
<1>6. QED
  BY <1>4, <1>5

(* Nobody but the last one granted is N - 1 grants away from its turn. *)
LEMMA AheadBound ==
  ASSUME NEW p \in Channel, NEW m \in Channel
  PROVE  /\ Ahead(p, m) \in 0 .. N - 1
         /\ m # p => Ahead(p, m) <= N - 2
  BY NAssumption DEF Ahead, Channel

-----------------------------------------------------------------------------
(* The registers start without a grant and nobody has waited. *)
LEMMA InitEstablishesIInv == ArbitrationInit => IInv
  BY NAssumption
  DEF ArbitrationInit, Init, IInv, TypeOK, GrantConsistent, TurnComesCloser, Channel

(***************************************************************************)
(* An edge of the clock, with acknowledges for the granted master or none. *)
(***************************************************************************)
LEMMA EdgePreservesIInv ==
  ASSUME IInv, NEW ack \in SUBSET Channel, Edge(ack)
  PROVE  IInv'
<1> USE DEF IInv
<1>1. request' \in SUBSET Channel /\ acked' \in SUBSET Channel
  BY DEF Edge, MastersMove
<1>2. CASE ~Free(ack)
  <2>1. UNCHANGED <<grant_q, grant_prev, grant_enc>>
    BY <1>2 DEF Edge, Clock, arbiterVars
  <2>2. overtaken' = [m \in Channel |-> IF m \notin request' THEN 0 ELSE overtaken[m]]
    BY <1>2 DEF Edge, Overtaken
  <2>3. TypeOK' /\ GrantConsistent'
    BY <1>1, <2>1, <2>2 DEF TypeOK, GrantConsistent
  <2>4. TurnComesCloser'
    <3>1. ASSUME NEW m \in Channel, NEW p \in grant_prev
          PROVE  overtaken'[m] + Ahead(p, m) <= N - 1
      <4>1. p \in Channel
        BY DEF TypeOK
      <4>2. Ahead(p, m) \in 0 .. N - 1
        BY <4>1, AheadBound
      <4>3. overtaken'[m] \in {0, overtaken[m]} /\ overtaken[m] \in Nat
        BY <2>2 DEF TypeOK
      <4>4. QED
        BY <4>2, <4>3, NAssumption DEF TurnComesCloser
    <3>2. QED
      BY <2>1, <2>2, <3>1 DEF TurnComesCloser
  <2>5. QED
    BY <2>3, <2>4
<1>3. CASE Free(ack) /\ request = {}
  <2>1. /\ grant_q' = {} /\ grant_prev' = grant_prev
        /\ grant_enc' = 0
    BY <1>3, NoRequestNoGrant DEF Edge, Clock, Encode
  <2>2. \A m \in Channel : overtaken[m] = 0
    BY <1>3 DEF TurnComesCloser
  <2>3. overtaken' = [m \in Channel |-> 0]
    BY <1>3, <2>2, NoRequestNoGrant DEF Edge, Overtaken
  <2>4. QED
    BY <1>1, <2>1, <2>2, <2>3, NAssumption DEF TypeOK, GrantConsistent, TurnComesCloser, Channel
<1>4. CASE Free(ack) /\ request # {}
  <2>1. PICK x \in request : Grant(request) = {x}
    BY <1>4, GrantIsOneRequester DEF TypeOK
  <2>2. x \in Channel
    BY <2>1 DEF TypeOK
  <2>3. grant_q' = {x} /\ grant_prev' = {x} /\ grant_enc' = x
    BY <1>4, <2>1 DEF Edge, Clock, Encode
  <2>4. overtaken' = [m \in Channel |->
                        IF m \notin request' \/ m = x THEN 0
                        ELSE IF m \in request THEN overtaken[m] + 1
                        ELSE overtaken[m]]
    BY <1>4, <2>1 DEF Edge, Overtaken
  <2>5. TypeOK' /\ GrantConsistent'
    BY <1>1, <2>2, <2>3, <2>4 DEF TypeOK, GrantConsistent
  <2>6. ASSUME NEW m \in Channel
        PROVE  overtaken'[m] + Ahead(x, m) <= N - 1
    <3>1. Ahead(x, m) \in 0 .. N - 1 /\ (m # x => Ahead(x, m) <= N - 2)
      BY <2>2, AheadBound
    <3>2. CASE m \notin request' \/ m = x \/ m \notin request
      <4>1. overtaken'[m] = 0
        BY <2>4, <3>2 DEF TurnComesCloser
      <4>2. QED
        BY <3>1, <4>1
    <3>3. CASE m \in request' /\ m # x /\ m \in request
      <4>1. overtaken'[m] = overtaken[m] + 1 /\ overtaken[m] \in Nat
        BY <2>4, <3>3 DEF TypeOK
      <4>2. CASE grant_prev = {}
        BY <3>1, <3>3, <4>1, <4>2, NAssumption DEF TurnComesCloser
      <4>3. CASE grant_prev # {}
        <5>1. PICK p \in Channel : grant_prev = {p}
          BY <4>3 DEF TypeOK, TurnComesCloser
        <5>2. Ahead(x, m) + 1 <= Ahead(p, m)
          BY <2>1, <3>3, <5>1, GrantComesCloser DEF TypeOK
        <5>3. overtaken[m] + Ahead(p, m) <= N - 1
          BY <5>1 DEF TurnComesCloser
        <5>4. Ahead(p, m) \in 0 .. N - 1
          BY <5>1, AheadBound
        <5>5. QED
          BY <3>1, <4>1, <5>2, <5>3, <5>4, NAssumption
      <4>4. QED
        BY <4>2, <4>3
    <3>4. QED
      BY <3>2, <3>3
  <2>7. TurnComesCloser'
    BY <2>3, <2>4, <2>6 DEF TurnComesCloser
  <2>8. QED
    BY <2>5, <2>7
<1>5. QED
  BY <1>2, <1>3, <1>4

(* Every step of the system, the reset included, preserves the invariant. *)
LEMMA NextPreservesIInv == IInv /\ [Next]_vars => IInv'
<1> SUFFICES ASSUME IInv, [Next]_vars PROVE IInv'
  OBVIOUS
<1>1. CASE Acknowledge
  BY <1>1, EdgePreservesIInv DEF Acknowledge, IInv, TypeOK
<1>2. CASE Wait
  BY <1>2, EdgePreservesIInv DEF Wait
<1>3. CASE SystemReset
  BY <1>3, NAssumption
  DEF SystemReset, Reset, IInv, TypeOK, GrantConsistent, TurnComesCloser, Channel
<1>4. CASE UNCHANGED vars
  BY <1>4 DEF vars, IInv, TypeOK, GrantConsistent, TurnComesCloser
<1>5. QED
  BY <1>1, <1>2, <1>3, <1>4 DEF Next

(* The invariant holds in every reachable state. *)
LEMMA Invariance == Spec => []IInv
<1>1. QED
  BY InitEstablishesIInv, NextPreservesIInv, PTL DEF Spec

(* The registers of the arbiter keep their types. *)
THEOREM TypeCorrect == Spec => []TypeOK
<1>1. IInv => TypeOK
  BY DEF IInv
<1>2. QED
  BY <1>1, Invariance, PTL

(***************************************************************************)
(* While a master is granted, grant_q, grant_enc and grant_prev name one   *)
(* and the same master: the bus drives the address of the master whose     *)
(* strobe it lets through.                                                 *)
(***************************************************************************)
THEOREM GrantIsConsistent == Spec => []GrantConsistent
<1>1. IInv => GrantConsistent
  BY DEF IInv
<1>2. QED
  BY <1>1, Invariance, PTL

(***************************************************************************)
(* Why a waiting master's turn comes: every grant to somebody else brings  *)
(* the round robin of rtl/wishbone/arbiter.vhd closer to it.               *)
(***************************************************************************)
THEOREM TurnsComeCloser == Spec => []TurnComesCloser
<1>1. IInv => TurnComesCloser
  BY DEF IInv
<1>2. QED
  BY <1>1, Invariance, PTL

(* The distance argument gives the bound. *)
LEMMA IInvImpliesBoundedBypass == IInv => BoundedBypass
<1> SUFFICES ASSUME IInv, NEW m \in Channel PROVE overtaken[m] < N
  BY DEF BoundedBypass
<1>1. CASE grant_prev = {}
  BY <1>1, NAssumption DEF IInv, TurnComesCloser
<1>2. CASE grant_prev # {}
  <2>1. PICK p \in grant_prev : p \in Channel
    BY <1>2 DEF IInv, TypeOK
  <2>2. Ahead(p, m) \in 0 .. N - 1
    BY <2>1, AheadBound
  <2>3. overtaken[m] \in Nat /\ overtaken[m] + Ahead(p, m) <= N - 1
    BY <2>1 DEF IInv, TypeOK, TurnComesCloser
  <2>4. QED
    BY <2>2, <2>3, NAssumption
<1>3. QED
  BY <1>1, <1>2

(***************************************************************************)
(* Round robin for any number of masters: a master that asks for the bus   *)
(* is overtaken by at most N - 1 grants.                                   *)
(***************************************************************************)
THEOREM BypassIsBounded == Spec => []BoundedBypass
  BY Invariance, IInvImpliesBoundedBypass, PTL

-----------------------------------------------------------------------------
(* Refinement: BusOwnership sees the granted channel as the owner.         *)

(* The owner the abstract specification sees is the one granted channel. *)
LEMMA OwnerIsGranted ==
  ASSUME TypeOK, GrantConsistent
  PROVE  /\ grant_q = {} => Owner = N
         /\ grant_q # {} => Owner \in Channel /\ Owner # N /\ grant_q = {Owner}
<1>1. CASE grant_q = {}
  BY <1>1 DEF Owner
<1>2. CASE grant_q # {}
  <2>1. Owner = grant_enc
    BY <1>2 DEF Owner
  <2>2. grant_q = {grant_enc}
    BY <1>2 DEF GrantConsistent
  <2>3. grant_enc \in Channel /\ grant_enc # N
    BY NAssumption DEF TypeOK, Channel
  <2>4. QED
    BY <2>1, <2>2, <2>3
<1>3. QED
  BY <1>1, <1>2

(* Both specifications number the masters alike; N stands for "no owner". *)
LEMMA ChannelsAgree == Channel = Ownership!Channel /\ Ownership!NoOwner = N
  BY DEF Channel, Ownership!Channel, Ownership!NoOwner

(* An edge at which the arbiter keeps its grant. *)
LEMMA HeldEdgeRefines ==
  ASSUME IInv, NEW ack \in SUBSET Channel, ack \in {{}, grant_q},
         Edge(ack), ~Free(ack)
  PROVE  Ownership!Next
<1> USE ChannelsAgree
<1>1. ack = {} /\ grant_q # {}
  BY DEF Free
<1>2. Owner' = Owner /\ Owner # N
  BY <1>1, OwnerIsGranted DEF IInv, Edge, Clock, arbiterVars, Owner
<1>3. overtaken' = [m \in Channel |-> IF m \in request' THEN overtaken[m] ELSE 0]
  BY DEF Edge, Overtaken
<1>4. Ownership!Requests /\ acked' = {}
  BY <1>1 DEF Edge, MastersMove, Ownership!Requests
<1>5. Ownership!Keep
  BY <1>2, <1>3, <1>4 DEF Ownership!Keep
<1>6. QED
  BY <1>4, <1>5 DEF Ownership!Next

(* An edge at which it hands the bus over, or back to the same master. *)
LEMMA FreeEdgeRefines ==
  ASSUME IInv, NEW ack \in SUBSET Channel, ack \in {{}, grant_q},
         Edge(ack), Free(ack), BoundedBypass'
  PROVE  Ownership!Next
<1> USE ChannelsAgree
<1>1. /\ acked' \in SUBSET {Owner}
      /\ Owner = N \/ acked' = {Owner}
  <2>1. CASE grant_q = {}
    BY <2>1, OwnerIsGranted DEF IInv, Edge
  <2>2. CASE grant_q # {}
    BY <2>2, OwnerIsGranted DEF IInv, Free, Edge
  <2>3. QED
    BY <2>1, <2>2
<1>2. Ownership!Requests
  BY <1>1 DEF Edge, MastersMove, Ownership!Requests
<1>3. \A m \in Channel : overtaken'[m] < N
  BY DEF BoundedBypass
<1>4. CASE request = {}
  <2>1. Owner' = N
    BY <1>4, NoRequestNoGrant DEF Edge, Clock, Owner
  <2>2. \A m \in Channel : overtaken[m] = 0
    BY <1>4 DEF IInv, TurnComesCloser
  <2>3. overtaken' = [m \in Channel |-> 0]
    BY <1>4, <2>2, NoRequestNoGrant DEF Edge, Overtaken
  <2>4. Ownership!Overtake(N)
    BY <1>4, <2>2, <2>3, NAssumption DEF Ownership!Overtake, Channel
  <2>5. Ownership!HandOver
    BY <1>1, <1>3, <1>4, <2>1, <2>4 DEF Ownership!HandOver
  <2>6. QED
    BY <1>2, <2>5 DEF Ownership!Next
<1>5. CASE request # {}
  <2>1. PICK x \in request : Grant(request) = {x}
    BY <1>5, GrantIsOneRequester DEF IInv, TypeOK
  <2>2. x \in Channel /\ x # N
    BY <2>1, NAssumption DEF IInv, TypeOK, Channel
  <2>3. Owner' = x
    BY <2>1 DEF Edge, Clock, Encode, Owner
  <2>4. overtaken' = [m \in Channel |->
                        IF m \notin request' \/ m = x THEN 0
                        ELSE IF m \in request THEN overtaken[m] + 1
                        ELSE overtaken[m]]
    BY <2>1 DEF Edge, Overtaken
  <2>5. Ownership!Overtake(x)
    BY <2>2, <2>4 DEF Ownership!Overtake
  <2>6. Ownership!HandOver
    BY <1>1, <1>3, <2>1, <2>2, <2>3, <2>5 DEF Ownership!HandOver
  <2>7. QED
    BY <1>2, <2>6 DEF Ownership!Next
<1>6. QED
  BY <1>4, <1>5

(***************************************************************************)
(* The arbiter implements what the masters rely on: one owner, kept until  *)
(* its acknowledge, succeeded by a requester, with bounded overtaking.     *)
(***************************************************************************)
THEOREM ArbiterImplementsOwnership == Spec => ImplementsOwnership
<1>1. ArbitrationInit => Ownership!Init
  BY ChannelsAgree DEF ArbitrationInit, Init, Ownership!Init, Owner
<1>2. IInv /\ BoundedBypass' /\ [Next]_vars => [Ownership!Next]_(Ownership!vars)
  <2> SUFFICES ASSUME IInv, BoundedBypass', [Next]_vars
               PROVE  [Ownership!Next]_(Ownership!vars)
    OBVIOUS
  <2>1. CASE Acknowledge
    <3>1. Edge(grant_q) /\ grant_q \in SUBSET Channel
      BY <2>1 DEF Acknowledge, IInv, TypeOK
    <3>2. QED
      BY <3>1, HeldEdgeRefines, FreeEdgeRefines
  <2>2. CASE Wait
    BY <2>2, HeldEdgeRefines, FreeEdgeRefines DEF Wait
  <2>3. CASE SystemReset
    BY <2>3, ChannelsAgree DEF SystemReset, Reset, Owner, Ownership!Next
  <2>4. CASE UNCHANGED vars
    BY <2>4 DEF vars, Owner, Ownership!vars
  <2>5. QED
    BY <2>1, <2>2, <2>3, <2>4 DEF Next
<1>3. QED
  BY <1>1, <1>2, Invariance, BypassIsBounded, PTL
  DEF Spec, ImplementsOwnership, Ownership!Spec
=============================================================================
