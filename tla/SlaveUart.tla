------------------------------ MODULE SlaveUart ------------------------------
(***************************************************************************)
(* The bus side of the UART, rtl/wishbone/wrapper/slave_uart.vhd, with the *)
(* transmitter of rtl/plasma/uart.vhd behind it: the one slave of the SoC  *)
(* that stalls its master, and one that reports errors.  A character keeps *)
(* the transmitter busy for one or more edges, and the receiver shows what *)
(* it likes; Uart has the bits of both, and UartLine shows that it behaves *)
(* like this.                                                              *)
(***************************************************************************)
EXTENDS Integers

CONSTANTS
  Value, Zero,  \* data words
  UartEnable,   \* the control words with ctrl_enable_a set
  UartReset,    \* the control words with ctrl_reset_a set
  Status        \* the status word by "busy" and "data available"

(* What a use of the module has to assume of the constants. *)
UartConstants ==
  /\ UartEnable \subseteq Value \ {Zero}
  /\ UartReset \subseteq Value \ {Zero}
  /\ Status \in [BOOLEAN \X BOOLEAN -> Value]

VARIABLES
  ctrl_s,       \* control register
  dat_os,       \* data returned by a read
  dat_tx,       \* character to send
  enable_write, \* start of a transmission, one edge after the bus write
  ack_s, err_s, \* registered answer
  tx_busy,      \* bits_write_reg # 0
  dat_rx,       \* data_save_reg: the last character received
  data_avail    \* ... and whether it is new

uartVars == <<ctrl_s, dat_os, dat_tx, enable_write, ack_s, err_s, tx_busy>>

(* Word offsets of the registers, adr_i(3 downto 0) / 4. *)
CtrlReg == 0
StatReg == 1
DataReg == 2

Readable == {CtrlReg, StatReg, DataReg}
Writable == {CtrlReg, DataReg}

Init(ctrl) ==
  /\ ctrl_s = ctrl
  /\ dat_os = Zero /\ dat_tx = Zero
  /\ enable_write = FALSE
  /\ ack_s = FALSE /\ err_s = FALSE
  /\ tx_busy = FALSE

(* stall_o: for every register, and whether or not there is a strobe. *)
Stall == tx_busy

ReadRegister(reg) ==
  CASE reg = CtrlReg -> ctrl_s
    [] reg = StatReg -> Status[tx_busy, data_avail]
    [] reg = DataReg -> dat_rx

(* The control process: any write starts a transmission, whatever register *)
(* it is for, and a stalled strobe is served like any other.               *)
Registers(stb, we, reg, dat) ==
  /\ enable_write' = (stb /\ we)
  /\ dat_os' = IF stb /\ ~we /\ reg \in Readable THEN ReadRegister(reg) ELSE dat_os
  /\ ctrl_s' = IF stb /\ we /\ reg = CtrlReg THEN dat ELSE ctrl_s
  /\ dat_tx' = IF stb /\ we /\ reg = DataReg THEN dat ELSE dat_tx
  /\ err_s' = (stb /\ reg \notin IF we THEN Writable ELSE Readable)
  /\ ack_s' = (stb /\ ~err_s')

(* The transmitter, which the control register holds in reset. *)
TxReset ==
  /\ ctrl_s \in UartReset \/ ctrl_s' \in UartReset
  /\ tx_busy' = FALSE

TxStart ==
  /\ ~tx_busy /\ enable_write /\ ctrl_s \in UartEnable
  /\ tx_busy' = TRUE

TxIdle ==
  /\ ~tx_busy /\ ~(enable_write /\ ctrl_s \in UartEnable)
  /\ UNCHANGED tx_busy

TxShift ==
  /\ tx_busy
  /\ tx_busy' \in BOOLEAN

Transmit ==
  \/ TxReset
  \/ /\ ctrl_s \notin UartReset /\ ctrl_s' \notin UartReset
     /\ TxStart \/ TxIdle \/ TxShift

Clock(stb, we, reg, dat) == Registers(stb, we, reg, dat) /\ Transmit

Reset ==
  /\ ctrl_s' = Zero /\ dat_os' = Zero /\ dat_tx' = Zero
  /\ enable_write' = FALSE
  /\ ack_s' = FALSE /\ err_s' = FALSE
  /\ tx_busy' = FALSE
=============================================================================
