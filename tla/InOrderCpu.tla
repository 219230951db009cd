------------------------------ MODULE InOrderCpu ------------------------------
(***************************************************************************)
(* What a program may rely on: its instructions execute one at a time and  *)
(* in order, a jump after its delay slot; each load or store accesses      *)
(* memory once, between the start and the end of its execution; and the    *)
(* next opcode is the word the memory holds at the program counter.        *)
(*                                                                         *)
(* Addresses below MemSize are memory, the others are peripherals.  No     *)
(* program overwrites the words it executes.                               *)
(***************************************************************************)
EXTENDS Integers

CONSTANTS Zero, Decode, PcSize, MemSize

VARIABLES
  opcode,     \* the opcode in execution
  pc,         \* the address of the one behind it
  accessed,   \* the load or store in execution has accessed memory
  memory      \* the contents of memory

vars == <<opcode, pc, accessed, memory>>

Op == Decode[opcode]
IsAccess == Op.op \in {"load", "store"}

Access ==
  /\ IsAccess /\ ~accessed
  /\ accessed' = TRUE
  /\ memory' = IF Op.op = "store" /\ Op.adr < MemSize
               THEN [memory EXCEPT ![Op.adr] = Op.dat] ELSE memory
  /\ UNCHANGED <<opcode, pc>>

Retire ==
  /\ IsAccess => accessed
  /\ opcode' = memory[pc]
  /\ pc' = IF Op.op = "jump" THEN Op.adr ELSE (pc + 1) % PcSize
  /\ accessed' = FALSE
  /\ UNCHANGED memory

Restart ==
  /\ opcode' = Zero /\ pc' = 0 /\ accessed' = FALSE
  /\ UNCHANGED memory

Init ==
  /\ opcode = Zero /\ pc = 0 /\ accessed = FALSE
  /\ memory \in [0 .. MemSize - 1 -> DOMAIN Decode]

Next == Access \/ Retire \/ Restart

Spec == Init /\ [][Next]_vars
=============================================================================
