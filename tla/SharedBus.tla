------------------------------ MODULE SharedBus ------------------------------
(***************************************************************************)
(* The combinational part of the system bus, rtl/wishbone/shared_bus.vhd.  *)
(* A master's signals are a record of the fields cyc, stb, we, adr, dat; a *)
(* slave's answer is a record of ack, err, stall, dat.  sel (byte lanes)   *)
(* and rty (constant '0' in every slave) are left out.                     *)
(***************************************************************************)
EXTENDS Integers, FiniteSets

CONSTANTS
  Slave,        \* the slaves, one per entry of the generic memmap
  MemMap,       \* [Slave -> [base, size]]: the generic itself
  Value,        \* data words
  Zero          \* the data word with all bits cleared

(* The entries of the SoC's map: a size is 2^k - 1, a base a multiple of   *)
(* it, and no two of them overlap.                                         *)
BusConstants ==
  /\ \A s \in Slave : /\ MemMap[s].size \in Nat /\ MemMap[s].base \in Nat
                      /\ MemMap[s].base % (MemMap[s].size + 1) = 0
  /\ \A s, t \in Slave :
       s # t => \/ MemMap[s].base + MemMap[s].size < MemMap[t].base
                \/ MemMap[t].base + MemMap[t].size < MemMap[s].base

(* memmap(i).base_addr = (addr and not memmap(i).size) *)
Cs(adr) == {s \in Slave : MemMap[s].base = adr - (adr % (MemMap[s].size + 1))}

(* addr and the sizes of the selected slaves: no slave, no offset. *)
Offset(adr) ==
  IF Cs(adr) = {} THEN 0
  ELSE LET sel == CHOOSE s \in Cs(adr) : TRUE IN adr % (MemMap[sel].size + 1)

(***************************************************************************)
(* Towards the slaves.  m is the record of the master that grant_enc       *)
(* names, granted says whether grant_q has its bit.  Only the strobe is    *)
(* gated: address, data and we of that master are always on the bus.       *)
(***************************************************************************)
SlaveStb(m, granted, s) == s \in Cs(m.adr) /\ m.stb /\ granted

(* A faulty bus, which does not answer an address that selects nobody. *)
MasterErrSelected(adr, slaves) == \E s \in Cs(adr) : slaves[s].err

(***************************************************************************)
(* Towards a granted master that drives address adr: slaves is the         *)
(* function of the slaves' answers.  An address that selects nobody is     *)
(* acknowledged at once, with an error, whether or not there is a cycle.   *)
(***************************************************************************)
MasterErr(adr, slaves)   == Cs(adr) = {} \/ \E s \in Cs(adr) : slaves[s].err
MasterAck(adr, slaves)   == MasterErr(adr, slaves) \/ \E s \in Cs(adr) : slaves[s].ack
MasterStall(adr, slaves) == \E s \in Cs(adr) : slaves[s].stall

(***************************************************************************)
(* master_dat_o is shared by all masters.  While nobody is selected it     *)
(* keeps its value (the process infers a latch); that answer is an error   *)
(* and no master uses its data.                                            *)
(***************************************************************************)
MasterDat(adr, slaves) ==
  IF Cs(adr) = {} THEN Zero
  ELSE LET sel == CHOOSE s \in Cs(adr) : TRUE IN slaves[sel].dat
=============================================================================
