----------------------------- MODULE SlaveMemory -----------------------------
(***************************************************************************)
(* The on-chip memory, rtl/wishbone/wrapper/slave_memory.vhd with its      *)
(* access_delay of 0 and the RAM of rtl/plasma/ram.vhd behind it.  The RAM *)
(* registers its address on every edge, selected or not, and shows a word  *)
(* that is written at once.                                                *)
(***************************************************************************)
EXTENDS Integers

CONSTANTS
  MemSize,      \* words of memory
  Value         \* what a word can hold

VARIABLES
  ram,          \* the contents
  mem_ack,      \* ack_o
  mem_dat       \* dat_o

memoryVars == <<ram, mem_ack, mem_dat>>

Init(program) ==
  /\ ram = program
  /\ mem_ack = FALSE
  /\ mem_dat = program[0]

Clock(stb, we, adr, dat) ==
  /\ ram' = IF stb /\ we THEN [ram EXCEPT ![adr % MemSize] = dat] ELSE ram
  /\ mem_dat' = ram'[adr % MemSize]
  /\ mem_ack' = stb

(* The contents survive a reset, during which nobody is granted. *)
Reset(adr) ==
  /\ mem_ack' = FALSE
  /\ mem_dat' = ram[adr % MemSize]
  /\ UNCHANGED ram
=============================================================================
