--------------------------------- MODULE Uart ---------------------------------
(***************************************************************************)
(* The UART core, rtl/plasma/uart.vhd: transmitter, averaged input and     *)
(* receiver.  Shift registers are sequences of bits, bit 0 first.  Clock   *)
(* is one rising edge; its inputs are the ports.                           *)
(***************************************************************************)
EXTENDS Integers, Sequences

CONSTANTS
  DataBits,     \* width of a character: 8 in the source
  CountValue,   \* COUNT_VALUE: a bit lasts CountValue + 1 edges
  Average       \* the largest value of read_value_reg: 2^8 - 1

VARIABLES
  delay_write_reg, bits_write_reg, data_write_reg,
  read_value_reg,
  delay_read_reg, bits_read_reg, data_read_reg,
  data_save_reg, data_avail   \* the character and bit 8 of data_save_reg

coreVars == <<delay_write_reg, bits_write_reg, data_write_reg, read_value_reg,
              delay_read_reg, bits_read_reg, data_read_reg, data_save_reg, data_avail>>

Bit  == {0, 1}
Char == [1 .. DataBits -> Bit]
Zeros == [i \in 1 .. DataBits |-> 0]

(* A shift to the right: bit 0 falls out, b comes in at the other end. *)
ShiftIn(b, reg) == Append(Tail(reg), b)

uart_write == Head(data_write_reg)

(* A faulty flag, which falls with the stop bit. *)
BusyUntilStopBit == bits_write_reg > 1

busy_write == bits_write_reg # 0
uart_read2 == IF 2 * read_value_reg > Average THEN 1 ELSE 0

Init ==
  /\ delay_write_reg = 0 /\ bits_write_reg = 0
  /\ data_write_reg = <<1>> \o Zeros
  /\ read_value_reg = Average
  /\ delay_read_reg = 0 /\ bits_read_reg = 0 /\ data_read_reg = Zeros
  /\ data_save_reg = Zeros /\ data_avail = FALSE

-----------------------------------------------------------------------------
(* Write UART.  The stop bit is the first of those that come in. *)
WriteStart(enable_write, data_in) ==
  /\ ~busy_write /\ enable_write
  /\ delay_write_reg' = 0
  /\ bits_write_reg' = DataBits + 2
  /\ data_write_reg' = <<0>> \o data_in

WriteIdle(enable_write) ==
  /\ ~busy_write /\ ~enable_write
  /\ UNCHANGED <<delay_write_reg, bits_write_reg, data_write_reg>>

(* A faulty delay, which wraps before it gets to the end of a bit. *)
WriteDelayWraps ==
  /\ busy_write /\ delay_write_reg # CountValue
  /\ delay_write_reg' = (delay_write_reg + 1) % CountValue
  /\ UNCHANGED <<bits_write_reg, data_write_reg>>

WriteDelay ==
  /\ busy_write /\ delay_write_reg # CountValue
  /\ delay_write_reg' = delay_write_reg + 1
  /\ UNCHANGED <<bits_write_reg, data_write_reg>>

(* A faulty shift, which fills up with low bits: there is no stop bit. *)
WriteShiftLow ==
  /\ busy_write /\ delay_write_reg = CountValue
  /\ delay_write_reg' = 0
  /\ bits_write_reg' = bits_write_reg - 1
  /\ data_write_reg' = ShiftIn(0, data_write_reg)

WriteShift ==
  /\ busy_write /\ delay_write_reg = CountValue
  /\ delay_write_reg' = 0
  /\ bits_write_reg' = bits_write_reg - 1
  /\ data_write_reg' = ShiftIn(1, data_write_reg)

Write(enable_write, data_in) ==
  WriteStart(enable_write, data_in) \/ WriteIdle(enable_write) \/ WriteDelay \/ WriteShift

-----------------------------------------------------------------------------
(* Average uart_read signal: a counter that saturates at both ends. *)
AverageInput(uart_read) ==
  read_value_reg' = CASE uart_read = 1 /\ read_value_reg # Average -> read_value_reg + 1
                      [] uart_read = 0 /\ read_value_reg # 0 -> read_value_reg - 1
                      [] OTHER -> read_value_reg

(* Read UART. *)
ReadDelay ==
  /\ delay_read_reg # 0
  /\ delay_read_reg' = delay_read_reg - 1
  /\ UNCHANGED <<bits_read_reg, data_read_reg>>

ReadIdle ==
  /\ delay_read_reg = 0 /\ bits_read_reg = 0 /\ uart_read2 = 1
  /\ UNCHANGED <<delay_read_reg, bits_read_reg, data_read_reg>>

(* A faulty start, after which the bits are sampled where they begin. *)
ReadStartAtEdge ==
  /\ delay_read_reg = 0 /\ bits_read_reg = 0 /\ uart_read2 = 0
  /\ delay_read_reg' = 0
  /\ bits_read_reg' = DataBits + 1
  /\ UNCHANGED data_read_reg

(* A start bit: sample from the middle of it on. *)
ReadStart ==
  /\ delay_read_reg = 0 /\ bits_read_reg = 0 /\ uart_read2 = 0
  /\ delay_read_reg' = CountValue \div 2
  /\ bits_read_reg' = DataBits + 1
  /\ UNCHANGED data_read_reg

(* The sampled start bit falls out again with the last data bit. *)
ReadSample ==
  /\ delay_read_reg = 0 /\ bits_read_reg # 0
  /\ delay_read_reg' = CountValue
  /\ bits_read_reg' = bits_read_reg - 1
  /\ data_read_reg' = ShiftIn(uart_read2, data_read_reg)

Read == ReadDelay \/ ReadIdle \/ ReadStart \/ ReadSample

-----------------------------------------------------------------------------
(* The edge after the last sample. *)
Complete == bits_read_reg = 0 /\ delay_read_reg = CountValue

(* A faulty flag, which no read clears. *)
SaveForGood(enable_read) ==
  /\ data_save_reg' = IF Complete THEN data_read_reg ELSE data_save_reg
  /\ data_avail' = (Complete \/ data_avail)

Save(enable_read) ==
  /\ data_save_reg' = IF Complete THEN data_read_reg ELSE data_save_reg
  /\ data_avail' = (Complete \/ (data_avail /\ ~enable_read))

Clock(enable_read, enable_write, data_in, uart_read) ==
  Write(enable_write, data_in) /\ AverageInput(uart_read) /\ Read /\ Save(enable_read)

Reset ==
  /\ delay_write_reg' = 0 /\ bits_write_reg' = 0
  /\ data_write_reg' = <<1>> \o Zeros
  /\ read_value_reg' = Average
  /\ delay_read_reg' = 0 /\ bits_read_reg' = 0 /\ data_read_reg' = Zeros
  /\ data_save_reg' = Zeros /\ data_avail' = FALSE
=============================================================================
