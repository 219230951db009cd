------------------------------ MODULE MasterCpu ------------------------------
(***************************************************************************)
(* The CPU as a bus master: the wishbone front end                         *)
(* rtl/wishbone/wrapper/master_cpu.vhd around the parts of the CPU that    *)
(* drive it, rtl/plasma/mem_ctrl.vhd and pc_next.vhd.                      *)
(*                                                                         *)
(* An opcode is a word of memory; Decode gives what the decoder makes of   *)
(* it: the operation and, for loads, stores and jumps, the word address    *)
(* and the data.  The register file and the ALU are behind that function.  *)
(* A "mult" reads the result of the multiplier and may have to wait for    *)
(* it; "enable" sets the interrupt enable of the status register, and      *)
(* "return" jumps to the opcode that was interrupted.  All accesses are of *)
(* one whole word.                                                         *)
(*                                                                         *)
(* Clock is one rising edge; "paused" is pause_non_ctrl of mlite_cpu.vhd   *)
(* in the cycle before it, which the module that instantiates this one     *)
(* resolves: it depends on the bus, and the address the CPU drives on the  *)
(* bus depends on it.                                                      *)
(***************************************************************************)
EXTENDS Integers

CONSTANTS
  Value,        \* data words
  Zero,         \* the data word with all bits cleared, a nop
  Decode,       \* [Value -> [op, adr, dat]]
  PcSize,       \* the program counter wraps at this many words
  Vector        \* where interrupts go to

(* What a use of the module has to assume of the constants. *)
CpuConstants ==
  /\ Zero \in Value
  /\ PcSize \in Nat \ {0}
  /\ Decode[Zero].op = "alu"
  /\ \A v \in Value :
       Decode[v].op \in {"alu", "mult", "jump", "load", "store", "enable", "return"}

VARIABLES
  cyc_os, stb_os,     \* the wishbone cycle and its strobe
  we_o,               \* write enable, registered
  dat_is,             \* the last word the bus returned
  core_reset,         \* mlite_cpu keeps its core in reset for some edges
  mem_state_reg,      \* "ADDR" or "ACCESS"
  opcode_reg,         \* the opcode in execution
  next_opcode_reg,    \* the one behind it, kept during a data access
  pc_reg,             \* address of the opcode being fetched
  intr_signal,        \* the opcode in execution is replaced by the interrupt
  intr_enable, epc    \* the enable bit, and where the interrupt was: pc_reg then

cpuVars == <<cyc_os, stb_os, we_o, dat_is, core_reset, mem_state_reg,
             opcode_reg, next_opcode_reg, pc_reg, intr_signal, intr_enable, epc>>

Interrupt == [op |-> "interrupt", adr |-> Vector, dat |-> Zero]

(* The control word; epc is one word behind the opcode to return to. *)
Op ==
  CASE intr_signal -> Interrupt
    [] ~intr_signal /\ Decode[opcode_reg].op = "return" ->
         [Decode[opcode_reg] EXCEPT !.adr = (epc - 1) % PcSize]
    [] OTHER -> Decode[opcode_reg]

Jumps == {"jump", "return", "interrupt"}      \* pc_source is not FROM_INC4
MemFetch == Op.op \notin {"load", "store"}

(* pause_ctrl: a load or store holds the pipeline in its address cycle. *)
PauseCtrl(paused) == ~MemFetch /\ mem_state_reg = "ADDR" /\ ~paused

(* pc_future *)
PcFuture(paused) ==
  IF paused \/ PauseCtrl(paused) \/ core_reset THEN pc_reg
  ELSE IF Op.op \in Jumps THEN Op.adr
  ELSE (pc_reg + 1) % PcSize

(* mem_ctrl addresses memory for the data access of a load or store. *)
DataAccess(paused) ==
  /\ ~MemFetch
  /\ IF paused THEN mem_state_reg = "ACCESS" ELSE mem_state_reg = "ADDR"

AdrO(paused) == IF DataAccess(paused) THEN Op.adr ELSE PcFuture(paused)

(* mem_data_w is driven for as long as a store is in execution. *)
DatO == IF Op.op = "store" THEN Op.dat ELSE Zero

(* Faulty write enables: after the access instead of before it; throughout. *)
ByteWeLate(paused) == Op.op = "store" /\ mem_state_reg = "ACCESS" /\ ~paused
ByteWeHeld(paused) == Op.op = "store" /\ DataAccess(paused)

(* mem_byte_we: the byte lanes are up in the address cycle only. *)
ByteWe(paused) == Op.op = "store" /\ PauseCtrl(paused)

Init ==
  /\ cyc_os = FALSE /\ stb_os = FALSE /\ we_o = FALSE
  /\ dat_is = Zero
  /\ core_reset = TRUE
  /\ mem_state_reg = "ADDR"
  /\ opcode_reg = Zero /\ next_opcode_reg = Zero
  /\ pc_reg = 0
  /\ intr_signal = FALSE /\ intr_enable = FALSE /\ epc = 0

-----------------------------------------------------------------------------
(* The front end: grant, ack, err, stall and dat are the bus's answer.     *)

(* An error ends the cycle and leaves dat_is as it was. *)
BusError(err) ==
  /\ err /\ cyc_os
  /\ cyc_os' = FALSE /\ stb_os' = FALSE
  /\ UNCHANGED dat_is

(* A faulty front end, which takes an accepted strobe for an answer. *)
BusStrobeEager(grant, ack, err, stall, dat) ==
  /\ ~(err /\ cyc_os)
  /\ stb_os /\ grant
  /\ stb_os' = stall
  /\ cyc_os' = stall
  /\ dat_is' = IF stall THEN dat_is ELSE dat

(* The strobe reached the bus: it falls unless the slave stalls, and a     *)
(* slave that acknowledges already ends the cycle.                         *)
BusStrobe(grant, ack, err, stall, dat) ==
  /\ ~(err /\ cyc_os)
  /\ stb_os /\ grant
  /\ stb_os' = stall
  /\ cyc_os' = IF ~stall /\ ack THEN FALSE ELSE cyc_os
  /\ dat_is' = IF ~stall /\ ack THEN dat ELSE dat_is

(* The strobe was accepted before: wait for the acknowledge. *)
BusAwait(grant, ack, err, dat) ==
  /\ ~(err /\ cyc_os)
  /\ ~stb_os /\ cyc_os /\ grant
  /\ cyc_os' = ~ack
  /\ dat_is' = IF ack THEN dat ELSE dat_is
  /\ UNCHANGED stb_os

(* No cycle, or one without the bus: (re)start it. *)
BusStart(grant, err) ==
  /\ ~(err /\ cyc_os)
  /\ ~((stb_os \/ cyc_os) /\ grant)
  /\ cyc_os' = TRUE /\ stb_os' = TRUE
  /\ UNCHANGED dat_is

FrontEnd(grant, ack, err, stall, dat) ==
  \/ BusError(err)
  \/ BusStrobe(grant, ack, err, stall, dat)
  \/ BusAwait(grant, ack, err, dat)
  \/ BusStart(grant, err)

-----------------------------------------------------------------------------
(* The core.                                                               *)

(* reset_reg counts the core's own reset down; its length is left open. *)
CoreInReset ==
  /\ core_reset
  /\ core_reset' \in BOOLEAN
  /\ UNCHANGED <<mem_state_reg, opcode_reg, next_opcode_reg, pc_reg>>

CorePaused(paused) ==
  /\ ~core_reset /\ paused
  /\ UNCHANGED <<core_reset, mem_state_reg, opcode_reg, next_opcode_reg, pc_reg>>

(* The opcode in execution retires; the one just fetched follows it, but   *)
(* not an interrupt (nullify_op).                                          *)
CoreFetch(paused) ==
  /\ ~core_reset /\ ~paused /\ MemFetch
  /\ opcode_reg' = IF intr_signal THEN Zero ELSE dat_is
  /\ next_opcode_reg' = IF mem_state_reg = "ADDR" THEN dat_is ELSE next_opcode_reg
  /\ mem_state_reg' = "ADDR"
  /\ pc_reg' = PcFuture(paused)
  /\ UNCHANGED core_reset

(* A load or store: the opcode fetched behind it waits for the access. *)
CoreAddress(paused) ==
  /\ ~core_reset /\ ~paused /\ ~MemFetch /\ mem_state_reg = "ADDR"
  /\ next_opcode_reg' = dat_is
  /\ mem_state_reg' = "ACCESS"
  /\ UNCHANGED <<core_reset, opcode_reg, pc_reg>>

(* The access is over: dat_is is what a load writes to its register. *)
CoreAccess(paused) ==
  /\ ~core_reset /\ ~paused /\ ~MemFetch /\ mem_state_reg = "ACCESS"
  /\ opcode_reg' = next_opcode_reg
  /\ mem_state_reg' = "ADDR"
  /\ pc_reg' = PcFuture(paused)
  /\ UNCHANGED <<core_reset, next_opcode_reg>>

Core(paused) ==
  CoreInReset \/ CorePaused(paused) \/ CoreFetch(paused)
    \/ CoreAddress(paused) \/ CoreAccess(paused)

-----------------------------------------------------------------------------
(* Interrupts.                                                             *)

(* A faulty sample, which separates a jump from its delay slot. *)
SampleAfterJump(paused, irq) ==
  intr_signal' = IF paused \/ PauseCtrl(paused) THEN intr_signal
                 ELSE irq /\ intr_enable

(* intr_in is looked at when an opcode retires. *)
Sample(paused, irq) ==
  intr_signal' = IF paused \/ PauseCtrl(paused) THEN intr_signal
                 ELSE irq /\ intr_enable /\ Op.op \notin Jumps

(* A faulty enable bit, which an interrupt does not clear. *)
StatusKeepsEnable(paused) ==
  /\ intr_enable' = (Op.op = "enable" \/ intr_enable)
  /\ epc' = IF intr_signal /\ ~paused THEN pc_reg ELSE epc

(* The enable bit does not wait for the end of a pause, epc does. *)
StatusBits(paused) ==
  /\ intr_enable' = (Op.op = "enable" \/ (intr_enable /\ ~intr_signal))
  /\ epc' = IF intr_signal /\ ~paused THEN pc_reg ELSE epc

-----------------------------------------------------------------------------
Clock(paused, grant, ack, err, stall, dat, irq) ==
  /\ FrontEnd(grant, ack, err, stall, dat)
  /\ we_o' = ByteWe(paused)
  /\ Core(paused)
  /\ Sample(paused, irq)
  /\ StatusBits(paused)

(* rst_i leaves we_o alone, and epc, which is a word of the register bank. *)
Reset ==
  /\ cyc_os' = FALSE /\ stb_os' = FALSE
  /\ dat_is' = Zero
  /\ core_reset' = TRUE
  /\ mem_state_reg' = "ADDR"
  /\ opcode_reg' = Zero /\ next_opcode_reg' = Zero
  /\ pc_reg' = 0
  /\ intr_signal' = FALSE /\ intr_enable' = FALSE
  /\ UNCHANGED <<we_o, epc>>
=============================================================================
