----------------------------- MODULE SpiTransfer -----------------------------
(***************************************************************************)
(* The SPI controller behind its registers, rtl/spi/slave_spi_control.vhd, *)
(* with a bus master in front of it and a device at its pins.  Words are   *)
(* as wide as a transfer.                                                  *)
(*                                                                         *)
(* The controller is ready only when a transfer is done, and it stalls or  *)
(* leaves unacknowledged every access in other states.  A driver can live  *)
(* with that in one way: while a transfer is done it reads and writes as   *)
(* it likes and then clears the enable bit; after that all it may do is    *)
(* set it again, an access that lasts until the transfer is done.          *)
(*                                                                         *)
(* The device takes MOSI at the rising edges of SCLK, and shows its next   *)
(* bit from there on: the controller looks at MISO just after the falling  *)
(* edge.                                                                   *)
(***************************************************************************)
EXTENDS Integers, Sequences

CONSTANTS
  DataBits, Divisor,   \* see SpiControl
  SpiMaster,    \* who may drive: "cpu", "hps"
  Words         \* what may be exchanged, as sequences of bits

Word  == [1 .. DataBits -> {0, 1}]

(* What a use of the module has to assume of the constants. *)
TransferConstants ==
  /\ DataBits \in Nat /\ DataBits > 1
  /\ Divisor \in Nat /\ Divisor > 2
  /\ SpiMaster \subseteq {"cpu", "hps"}
  /\ Words \subseteq Word

VARIABLES
  ctrl_s, dat_is, adr_is, dat_o, ack_s, err_s,
  state_s, adr_s, spi_clk_s, spi_clk_falling, fifo_s, MOSI,
  clk_cnt, clk_rld, bit_cnt, bit_rld,
  master, access,   \* who uses the controller, and its access on the bus
  finished,     \* the driver's transfer is done, and not left
  dev_out,      \* the bits the device has yet to show
  dev_in,       \* the bits it has taken since it was selected; one too many at most
  sent,         \* history: the word to send at the start of the transfer
  replied,      \* history: the device's word then
  aligned       \* history: no reset since the device was selected

Spi == INSTANCE SpiControl

slaveVars == <<ctrl_s, dat_is, adr_is, dat_o, ack_s, err_s>>
outside == <<master, access, finished, dev_out, dev_in, sent, replied, aligned>>
vars == <<slaveVars, Spi!spiVars, outside>>

Zeros == [i \in 1 .. DataBits |-> 0]
Ones  == [i \in 1 .. DataBits |-> 1]

(* Bit 0 and bit 1 of the control and of the status register. *)
Bits(bit0, bit1) ==
  [i \in 1 .. DataBits |-> IF (i = DataBits /\ bit0) \/ (i = DataBits - 1 /\ bit1) THEN 1 ELSE 0]
Rst(ctrl) == ctrl[DataBits] = 1
En(ctrl)  == ctrl[DataBits - 1] = 1

(* adr_i(7 downto 4) *)
CtrlReg == 0
StatReg == 4
DataReg == 8
AdrReg  == 12
Readable == {CtrlReg, StatReg, DataReg, AdrReg}
Writable == {CtrlReg, DataReg, AdrReg}

Request(we, reg, dat) == [we |-> we, reg |-> reg, dat |-> dat]
ReadOf(reg) == Request(FALSE, reg, Zeros)
WriteCtrl(rst, en) == Request(TRUE, CtrlReg, Bits(rst, en))
NoAccess == ReadOf(15)
stb == access # NoAccess

Ready == Spi!ack_o           \* stat_ready_a
Stall == stb /\ ~Ready       \* stall_o
CS == Spi!CS(En(ctrl_s))

-----------------------------------------------------------------------------
(* The register file; a stalled access is performed all the same, at every *)
(* edge.  The acknowledge looks at the error of the edge before.           *)
ReadRegister(reg) ==
  CASE reg = CtrlReg -> ctrl_s
    [] reg = StatReg -> Bits(Ready, Spi!irq_o)
    [] reg = DataReg -> fifo_s
    [] reg = AdrReg  -> adr_is

(* A faulty register, which waits for the controller to be ready. *)
CtrlWhenReady ==
  ctrl_s' = IF stb /\ access.we /\ access.reg = CtrlReg /\ Ready THEN access.dat ELSE ctrl_s

Ctrl == ctrl_s' = IF stb /\ access.we /\ access.reg = CtrlReg THEN access.dat ELSE ctrl_s

Registers ==
  /\ Ctrl
  /\ dat_is' = IF stb /\ access.we /\ access.reg = DataReg THEN access.dat ELSE dat_is
  /\ adr_is' = IF stb /\ access.we /\ access.reg = AdrReg THEN access.dat ELSE adr_is
  /\ dat_o' = IF stb /\ ~access.we /\ access.reg \in Readable
              THEN ReadRegister(access.reg) ELSE dat_o
  /\ err_s' = (stb /\ access.reg \notin IF access.we THEN Writable ELSE Readable)
  /\ ack_s' = (stb /\ ~err_s /\ Ready)

-----------------------------------------------------------------------------
(* The master and its driver.                                              *)

(* The strobe falls: the CPU waits for the stall, the bridge for an answer. *)
(* The CPU's write enable is up at the first edge of its strobe only.  The  *)
(* one write that is stalled, of the enable, would write the same word at   *)
(* every further edge, so that the access is kept as it is here.            *)
AccessEnds == stb /\ IF master = "cpu" THEN ~Stall ELSE ack_s \/ err_s

SetEnable == WriteCtrl(FALSE, TRUE)
Leave == {WriteCtrl(FALSE, FALSE), WriteCtrl(TRUE, FALSE)}

(* One of the reads is of a register that does not exist. *)
Requests ==
  IF finished
  THEN {ReadOf(StatReg), ReadOf(DataReg), ReadOf(1)} \cup Leave
         \cup {Request(TRUE, DataReg, w) : w \in Words}
         \cup {Request(TRUE, AdrReg, w) : w \in {Zeros, Ones}}
  ELSE {SetEnable}

Drive ==
  /\ access' \in CASE stb /\ ~AccessEnds -> {access}
                   [] AccessEnds -> {NoAccess}
                   [] OTHER -> {NoAccess} \cup Requests
  /\ finished' = CASE AccessEnds /\ access = SetEnable -> TRUE
                   [] AccessEnds /\ access \in Leave -> FALSE
                   [] OTHER -> finished
  /\ UNCHANGED master

-----------------------------------------------------------------------------
(* The device, and what is remembered of a transfer.                       *)

Begins == state_s = "idle" /\ state_s' = "send"
Rises  == spi_clk_s = 0 /\ spi_clk_s' = 1
MISO   == IF dev_out = <<>> THEN 1 ELSE Head(dev_out)

Unselected == CS' = 1 /\ dev_out' = <<>> /\ dev_in' = <<>>
Selected   == CS = 1 /\ CS' = 0 /\ dev_out' \in Words /\ dev_in' = <<>>
Exchange ==
  /\ CS = 0 /\ CS' = 0
  /\ dev_in'  = IF Rises /\ Len(dev_in) <= DataBits THEN Append(dev_in, MOSI) ELSE dev_in
  /\ dev_out' = IF Rises /\ dev_out # <<>> THEN Tail(dev_out) ELSE dev_out

Device == Unselected \/ Selected \/ Exchange

Observe ==
  /\ sent' = IF Begins THEN dat_is ELSE sent
  /\ replied' = IF Begins THEN dev_out ELSE replied
  /\ aligned' = (aligned \/ CS' = 1)

-----------------------------------------------------------------------------
Init ==
  /\ ctrl_s = Zeros /\ dat_is = Zeros /\ adr_is = Zeros /\ dat_o = Zeros
  /\ ack_s = FALSE /\ err_s = FALSE
  /\ Spi!Init(Zeros)
  /\ master \in SpiMaster /\ access = NoAccess /\ finished = FALSE
  /\ dev_out = <<>> /\ dev_in = <<>>
  /\ sent = Zeros /\ replied = <<>> /\ aligned = TRUE

Tick ==
  /\ Registers
  /\ Spi!Clock(Rst(ctrl_s), En(ctrl_s), IF adr_is = Zeros THEN 0 ELSE 1, dat_is, MISO,
               Rst(ctrl_s'))
  /\ Drive
  /\ Device
  /\ Observe

(* rst_i: the control register, the data and the address outlive it, so    *)
(* that a transfer starts over, and with it the word, while the device     *)
(* stays selected.                                                         *)
Reset ==
  /\ dat_o' = Zeros /\ ack_s' = FALSE /\ err_s' = FALSE
  /\ UNCHANGED <<ctrl_s, dat_is, adr_is, master>>
  /\ Spi!Reset(dat_is)
  /\ access' = NoAccess /\ finished' = FALSE
  /\ Device
  /\ aligned' = (CS' = 1)
  /\ UNCHANGED <<sent, replied>>

Next == Tick \/ Reset

Spec == Init /\ [][Next]_vars

(* The clock runs, and resets end. *)
FairSpec == Spec /\ WF_vars(Tick) /\ <>[][~Reset]_vars

-----------------------------------------------------------------------------
(***************************************************************************)
(* A transfer exchanges the two words: when it is done, the device         *)
(* addressed has the driver's word, all of it and nothing else, and the    *)
(* controller has the device's; no other device notices.                   *)
(***************************************************************************)
WordsExchanged ==
  [][state_s = "hold4" /\ state_s' = "done" /\ aligned =>
       IF CS = 0 THEN dev_in = sent /\ fifo_s = replied
                 ELSE dev_in = <<>> /\ fifo_s = Ones]_vars

(* Every access of a driver like this one ends. *)
AccessesEnd == stb ~> ~stb
=============================================================================
