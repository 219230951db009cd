--------------------------------- MODULE Gpio ---------------------------------
(***************************************************************************)
(* The GPIO: the registers of rtl/gpio/slave_gpio.vhd and the pins of      *)
(* rtl/gpio/gpio.vhd, with one bus master.  A word is the set of its bits  *)
(* that are up.                                                            *)
(*                                                                         *)
(* The output latch opens with the write enable of the bus, whichever      *)
(* slave is written to, and takes what the data register holds then.  The  *)
(* master is the CPU, whose write enable is up for the one edge of its     *)
(* strobe, or the HPS's bridge, which holds both until it is answered.     *)
(***************************************************************************)
EXTENDS Integers

CONSTANTS
  Data,         \* what is written to the pins
  Masks,        \* ... to the mask
  Controls,     \* ... to the control register
  Inputs,       \* what the pins may show
  GpioMaster    \* who writes: "cpu", "hps"

(* What a use of the module has to assume of the constants. *)
GpioConstants == GpioMaster \subseteq {"cpu", "hps"}

VARIABLES
  ctrl_s, dat_is, dat_os, mask_s, ack_s, err_s,
  gpio_in_s, pin_mask, gpio_o,   \* pin_mask is "mask_s" of gpio.vhd
  gpio_i,                 \* the input pins
  master, cyc, stb, req,  \* the master: its cycle and strobe, what it asks for
  written,      \* history: the word written last
  shown         \* history: the word that is to be at the pins

vars == <<ctrl_s, dat_is, dat_os, mask_s, ack_s, err_s, gpio_in_s, pin_mask, gpio_o,
          gpio_i, master, cyc, stb, req, written, shown>>

(* Word offsets of the registers; Elsewhere is another slave. *)
CtrlReg == 0
StatReg == 1
DataReg == 2
MaskReg == 3
Elsewhere == 4

Readable == {CtrlReg, StatReg, DataReg, MaskReg}
Writable == {CtrlReg, DataReg, MaskReg}

(* Bits of the control register, and those of the status. *)
Rst(ctrl)    == 0 \in ctrl
MaskEn(ctrl) == 2 \in ctrl
Irq  == gpio_i \ pin_mask # {}
Stat == IF Irq THEN {0, 1} ELSE {0}

(* A faulty mask, which is always in use. *)
MaskUnconditional == mask_s

(* mask_i *)
MaskIn == IF MaskEn(ctrl_s) THEN mask_s ELSE {}

(* A faulty latch, which is the GPIO's own: it misses the later writes. *)
OpenWithStrobe(we) == we /\ stb /\ req.reg # Elsewhere

(* we_i *)
Open(we) == we

Read(reg)  == [we |-> FALSE, reg |-> reg, dat |-> {}]
Writes(reg, words) == [we : {TRUE}, reg : {reg}, dat : words]
Requests ==
  {Read(reg) : reg \in Readable}
    \cup Writes(CtrlReg, Controls) \cup Writes(DataReg, Data) \cup Writes(MaskReg, Masks)
    \cup Writes(StatReg, {{}}) \cup Writes(Elsewhere, {{}})

-----------------------------------------------------------------------------
Init ==
  /\ ctrl_s = {} /\ dat_is = {} /\ dat_os = {} /\ mask_s = {}
  /\ ack_s = FALSE /\ err_s = FALSE
  /\ gpio_in_s = {} /\ pin_mask = {} /\ gpio_o = {} /\ gpio_i = {}
  /\ master \in GpioMaster /\ cyc = FALSE /\ stb = FALSE /\ req = Read(CtrlReg)
  /\ written = {} /\ shown = {}

ReadRegister ==
  CASE req.reg = CtrlReg -> ctrl_s
    [] req.reg = StatReg -> Stat
    [] req.reg = DataReg -> gpio_in_s
    [] req.reg = MaskReg -> mask_s

Registers ==
  LET selected == stb /\ req.reg # Elsewhere
      write(reg) == selected /\ req.we /\ req.reg = reg
  IN /\ ctrl_s' = IF write(CtrlReg) THEN req.dat ELSE ctrl_s
     /\ dat_is' = IF write(DataReg) THEN req.dat ELSE dat_is
     /\ mask_s' = IF write(MaskReg) THEN req.dat ELSE mask_s
     /\ dat_os' = IF selected /\ ~req.we THEN ReadRegister ELSE dat_os
     /\ err_s' = (selected /\ req.reg \notin IF req.we THEN Writable ELSE Readable)
     /\ ack_s' = (stb /\ ~err_s')

(* The write enable: the CPU's is registered, and up with its strobe. *)
we_i == req.we /\ IF master = "cpu" THEN stb ELSE cyc

(* The pins; the reset is a level, and leaves the outputs as they are. *)
Pins ==
  LET rst == Rst(ctrl_s) \/ Rst(ctrl_s')
  IN /\ pin_mask'  = IF rst THEN {} ELSE MaskIn
     /\ gpio_in_s' = IF rst THEN {} ELSE gpio_i
     /\ gpio_o' = IF Open(we_i) /\ ~Rst(ctrl_s) THEN dat_is ELSE gpio_o
     /\ gpio_i' \in Inputs

-----------------------------------------------------------------------------
(* The master, and what it may expect of the pins.                         *)

Answered == ack_s \/ err_s

Begin == ~cyc /\ cyc' = TRUE /\ stb' = TRUE /\ req' \in Requests
Rest  == ~cyc /\ UNCHANGED <<cyc, stb, req>>
Wait  == cyc /\ ~Answered /\ stb' = (master = "hps") /\ UNCHANGED <<cyc, req>>
End   == cyc /\ Answered /\ cyc' = FALSE /\ stb' = FALSE /\ UNCHANGED req

(* The CPU's write shows the word written before it, the bridge's its own. *)
Shows == req.we /\ IF master = "cpu" THEN stb /\ ~Rst(ctrl_s) ELSE End /\ ~Rst(ctrl_s')

Observe ==
  /\ written' = IF stb /\ req.we /\ req.reg = DataReg THEN req.dat ELSE written
  /\ shown' = IF Shows THEN written ELSE shown

Tick ==
  /\ Registers /\ Pins
  /\ Begin \/ Rest \/ Wait \/ End
  /\ UNCHANGED master
  /\ Observe

(* rst_i leaves the output pins as they are; a write that it cuts off, or  *)
(* one into the GPIO's own reset, may have been shown or not.              *)
Reset ==
  /\ ctrl_s' = {} /\ dat_is' = {} /\ dat_os' = {} /\ mask_s' = {}
  /\ ack_s' = FALSE /\ err_s' = FALSE
  /\ gpio_in_s' = {} /\ pin_mask' = {}
  /\ gpio_i' \in Inputs
  /\ cyc' = FALSE /\ stb' = FALSE /\ written' = {}
  /\ shown' = IF cyc \/ Rst(ctrl_s) THEN gpio_o ELSE shown
  /\ UNCHANGED <<gpio_o, master, req>>

Next == Tick \/ Reset

Spec == Init /\ [][Next]_vars

-----------------------------------------------------------------------------
(***************************************************************************)
(* Between two accesses, out of reset, the output pins show the word       *)
(* written last, if the bridge wrote it, and if the CPU did, the word that *)
(* was the last one when its last write to any slave began: a program sees *)
(* its word at the pins only after it has stored something else, anywhere. *)
(***************************************************************************)
PinsAsWritten == ~cyc /\ ~Rst(ctrl_s) => gpio_o = shown

(* Between two accesses, out of reset, the interrupt is up exactly while   *)
(* an input is that the mask, if it is in use, leaves open.                *)
InterruptsAsMasked ==
  ~cyc /\ ~Rst(ctrl_s) => (Irq <=> \E i \in gpio_i : ~(MaskEn(ctrl_s) /\ i \in mask_s))
=============================================================================
