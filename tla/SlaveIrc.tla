------------------------------- MODULE SlaveIrc -------------------------------
(***************************************************************************)
(* The interrupt controller, rtl/irc/slave_irc.vhd with ir_control.vhd and *)
(* ir_channel.vhd.  A word is the set of the channels whose bit is set.    *)
(*                                                                         *)
(* A step is a rising edge, at which the inputs are sampled and a register *)
(* may be written, and the falling edge after it, at which the state of    *)
(* the channels is updated from the new values.  The control register,     *)
(* which nothing uses, and the read-only status are left out, and reads    *)
(* with them: they only change what the bus returns.                       *)
(***************************************************************************)
EXTENDS Integers

CONSTANT Chan   \* the channels

VARIABLES
  clear_s,      \* channels whose state is being cleared
  inv_s,        \* channels that are active when low
  mask_s,       \* channels that are enabled
  edge_s,       \* channels that react to an edge, the others to a level
  raw_s,        \* inputs at the last rising edge
  prev_s,       \* active inputs one edge before ("edge_s" of ir_channel)
  state_s       \* pending channels

ircVars == <<clear_s, inv_s, mask_s, edge_s, raw_s, prev_s, state_s>>

(* Word offsets of the registers that can be written, adr_i(7 downto 0) / 4. *)
ClearReg == 4
InvReg   == 5
MaskReg  == 6
EdgeReg  == 7

Init ==
  /\ clear_s = {} /\ inv_s = {} /\ mask_s = {} /\ edge_s = {}
  /\ raw_s = {} /\ prev_s = {} /\ state_s = {}

(* raw_s xor inv_i *)
Active(raw, inv) == (raw \ inv) \cup (inv \ raw)

Registers(stb, reg, dat) ==
  /\ clear_s' = IF stb /\ reg = ClearReg THEN dat ELSE clear_s
  /\ inv_s'   = IF stb /\ reg = InvReg   THEN dat ELSE inv_s
  /\ mask_s'  = IF stb /\ reg = MaskReg  THEN dat ELSE mask_s
  /\ edge_s'  = IF stb /\ reg = EdgeReg  THEN dat ELSE edge_s

Sample(ir) ==
  /\ raw_s' = ir
  /\ prev_s' = Active(raw_s, inv_s)

(* A faulty channel, which forgets its state when it is disabled. *)
CaptureMasked ==
  LET active == Active(raw_s', inv_s') IN
  state_s' = ((active \ (prev_s' \cap edge_s')) \cup (state_s \ clear_s')) \cap mask_s'

(* A faulty channel, which takes every level for an edge. *)
CaptureLevel ==
  state_s' = (Active(raw_s', inv_s') \cap mask_s') \cup (state_s \ clear_s')

(* The falling edge: a new edge wins over the clear. *)
Capture ==
  LET active == Active(raw_s', inv_s') IN
  state_s' = ((active \ (prev_s' \cap edge_s')) \cap mask_s') \cup (state_s \ clear_s')

Irq == state_s # {}

Clock(stb, reg, dat, ir) ==
  /\ Registers(stb, reg, dat)
  /\ Sample(ir)
  /\ Capture

Reset ==
  /\ clear_s' = {} /\ inv_s' = {} /\ mask_s' = {} /\ edge_s' = {}
  /\ raw_s' = {} /\ prev_s' = {} /\ state_s' = {}
=============================================================================
