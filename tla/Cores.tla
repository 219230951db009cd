-------------------------------- MODULE Cores --------------------------------
(***************************************************************************)
(* The cores that work on their own for many edges at a time: the UART,    *)
(* the SPI controller and the Avalon bridges, each with a bus master in    *)
(* front of it and its counterpart outside, the multiplier of the CPU, a   *)
(* timer with the software that sets it up, and a GPIO with a master.      *)
(*                                                                         *)
(* They share the clock and nothing else, and a core nobody addresses      *)
(* stays as it is; so each is looked at by itself.  A behaviour has one    *)
(* subject, and the other cores keep one of their initial states.          *)
(***************************************************************************)
EXTENDS Integers, Sequences

CONSTANTS
  UartBits, CountValue, Average, Drift, Driver,     \* see UartLine
  SpiBits, Divisor, SpiMaster, Words,               \* see SpiTransfer
  Width, First, Later, MaxIssued,                   \* see Multiplier
  Value, Zero,                                      \* see BridgePair
  Modulus, Ticks, Reloads, Gap,                     \* see TimerSetup
  Data, Masks, Controls, Inputs, GpioMaster         \* see Gpio

VARIABLES
  subject,
  (* UartLine *)
  ctrl_s, dat_os, dat_tx, enable_read, enable_write, ack_s, err_s,
  delay_write_reg, bits_write_reg, data_write_reg, read_value_reg,
  delay_read_reg, bits_read_reg, data_read_reg, data_save_reg, data_avail,
  rx, rest, age, period, driver, access, told, owed, arriving, unread, seen,
  (* SpiTransfer *)
  spi_ctrl_s, dat_is, adr_is, dat_o, spi_ack_s, spi_err_s,
  state_s, adr_s, spi_clk_s, spi_clk_falling, fifo_s, MOSI,
  clk_cnt, clk_rld, bit_cnt, bit_rld,
  master, spi_access, finished, dev_out, dev_in, sent, replied, aligned,
  (* Multiplier *)
  mode_reg, negate_reg, sign_reg, sign2_reg, count_reg,
  aa_reg, bb_reg, upper_reg, lower_reg, goal, wrote, issued,
  (* BridgePair *)
  write_os, read_os, ack_os, bridge_dat_os, cycstb_s,
  cyc, stb, req, answer, answer_dat, taken,
  (* TimerSetup *)
  tim_ctrl_s, reload_s, tim_dat_os, tim_ack_s, tim_err_s,
  unit_s, ticks_s, cnt_s, rld_s, phase, write, write_age, due,
  (* Gpio *)
  gp_ctrl_s, gp_dat_is, gp_dat_os, mask_s, gp_ack_s, gp_err_s,
  gpio_in_s, pin_mask, gpio_o, gpio_i, gp_master, gp_cyc, gp_stb, gp_req, written, shown

uartVars == <<
  ctrl_s, dat_os, dat_tx, enable_read, enable_write, ack_s, err_s,
  delay_write_reg, bits_write_reg, data_write_reg, read_value_reg,
  delay_read_reg, bits_read_reg, data_read_reg, data_save_reg, data_avail,
  rx, rest, age, period, driver, access, told, owed, arriving, unread, seen>>

spiVars == <<
  spi_ctrl_s, dat_is, adr_is, dat_o, spi_ack_s, spi_err_s,
  state_s, adr_s, spi_clk_s, spi_clk_falling, fifo_s, MOSI,
  clk_cnt, clk_rld, bit_cnt, bit_rld,
  master, spi_access, finished, dev_out, dev_in, sent, replied, aligned>>

multVars == <<
  mode_reg, negate_reg, sign_reg, sign2_reg, count_reg,
  aa_reg, bb_reg, upper_reg, lower_reg, goal, wrote, issued>>

pairVars == <<
  write_os, read_os, ack_os, bridge_dat_os, cycstb_s,
  cyc, stb, req, answer, answer_dat, taken>>

timerVars == <<
  tim_ctrl_s, reload_s, tim_dat_os, tim_ack_s, tim_err_s,
  unit_s, ticks_s, cnt_s, rld_s, phase, write, write_age, due>>

gpioVars == <<
  gp_ctrl_s, gp_dat_is, gp_dat_os, mask_s, gp_ack_s, gp_err_s,
  gpio_in_s, pin_mask, gpio_o, gpio_i, gp_master, gp_cyc, gp_stb, gp_req, written, shown>>

vars == <<subject, uartVars, spiVars, multVars, pairVars, timerVars, gpioVars>>

Uart == INSTANCE UartLine WITH DataBits <- UartBits

Spi == INSTANCE SpiTransfer WITH
  DataBits <- SpiBits, ctrl_s <- spi_ctrl_s, ack_s <- spi_ack_s, err_s <- spi_err_s,
  access <- spi_access

Mult == INSTANCE Multiplier

Pair == INSTANCE BridgePair WITH dat_os <- bridge_dat_os

Tim == INSTANCE TimerSetup WITH
  ctrl_s <- tim_ctrl_s, dat_os <- tim_dat_os, ack_s <- tim_ack_s, err_s <- tim_err_s,
  age <- write_age

Gp == INSTANCE Gpio WITH
  ctrl_s <- gp_ctrl_s, dat_is <- gp_dat_is, dat_os <- gp_dat_os, ack_s <- gp_ack_s,
  err_s <- gp_err_s, master <- gp_master, cyc <- gp_cyc, stb <- gp_stb, req <- gp_req

ASSUME CoresAssumption ==
  /\ Uart!LineConstants /\ Spi!TransferConstants /\ Mult!MultiplierConstants
  /\ Pair!PairConstants /\ Tim!SetupConstants
  /\ Gp!GpioConstants

Subjects == {"uart", "spi", "mult", "pair", "timer", "gpio"}

Init ==
  /\ subject \in Subjects
  /\ Uart!Init /\ Spi!Init /\ Mult!Init /\ Pair!Init /\ Tim!Init /\ Gp!Init
  /\ subject # "uart" => driver = CHOOSE d \in Driver : TRUE
  /\ subject # "spi" => master = CHOOSE m \in SpiMaster : TRUE
  /\ subject # "timer" => unit_s = 0
  /\ subject # "gpio" => gp_master = CHOOSE m \in GpioMaster : TRUE

Next ==
  /\ UNCHANGED subject
  /\ \/ /\ subject = "uart" /\ Uart!Next
        /\ UNCHANGED <<spiVars, multVars, pairVars, timerVars, gpioVars>>
     \/ /\ subject = "spi" /\ Spi!Next
        /\ UNCHANGED <<uartVars, multVars, pairVars, timerVars, gpioVars>>
     \/ /\ subject = "mult" /\ Mult!Next
        /\ UNCHANGED <<uartVars, spiVars, pairVars, timerVars, gpioVars>>
     \/ /\ subject = "pair" /\ Pair!Next
        /\ UNCHANGED <<uartVars, spiVars, multVars, timerVars, gpioVars>>
     \/ /\ subject = "timer" /\ Tim!Next
        /\ UNCHANGED <<uartVars, spiVars, multVars, pairVars, gpioVars>>
     \/ /\ subject = "gpio" /\ Gp!Next
        /\ UNCHANGED <<uartVars, spiVars, multVars, pairVars, timerVars>>

Spec == Init /\ [][Next]_vars

UartTick == subject = "uart" /\ Uart!Tick
SpiTick  == subject = "spi" /\ Spi!Tick
PairTick == subject = "pair" /\ Pair!Tick
PairAnswers == subject = "pair" /\ Pair!Answers

(* The clock runs, resets end, and the slave behind the bridges answers. *)
FairSpec ==
  /\ Spec
  /\ WF_(uartVars)(UartTick)
  /\ WF_(spiVars)(SpiTick)
  /\ WF_(pairVars)(PairTick) /\ WF_(pairVars)(PairAnswers)
  /\ <>[][~Spi!Reset]_(spiVars) /\ <>[][~Pair!Reset]_(pairVars)

-----------------------------------------------------------------------------
(* The UART sends what is written to it once, and after what was written   *)
(* before, if the driver reads the status first: slave_uart.vhd starts a   *)
(* transmission one edge late.                                             *)
OncePerWrite == Uart!OncePerWrite

(* "Uart Write (will pause CPU if busy)", of a driver that does not.       *)
HeldWhileBusy == Uart!HeldWhileBusy

(* Its transmitter puts whole frames on the line, every bit equally long.  *)
FramesOnTheLine == Uart!FramesOnTheLine

(* It is, seen from the bus, the UART that SystemBus has, ...              *)
ImplementsSlaveUart == Uart!ImplementsSlaveUart

(* ... which assumes that a transmission ends.                             *)
TransmissionEnds == Uart!TransmissionEnds

(* Its receiver gets each character of a device with a clock of its own.   *)
EachCharacterOnce == Uart!EachCharacterOnce

(* A driver that reads when it is interrupted reads each of them once.     *)
ReadOnce == Uart!ReadOnce

(* A transfer of the SPI controller exchanges two words, ...               *)
WordsExchanged == Spi!WordsExchanged

(* ... and a driver that keeps to the one order there is never hangs.      *)
AccessesEnd == Spi!AccessesEnd

(* The multiplier's products, and its quotients and remainders, of words   *)
(* of every sign, by whatever path through the iteration.                  *)
ProductsRight == Mult!ProductsRight
QuotientsRight == Mult!QuotientsRight

(* DIV leaves the remainder in HI, with the sign of the dividend: control's *)
(* table has "s->hi=r[rs]%r[rt]".                                          *)
RemainderSigned == Mult!RemainderSigned

(* A character that arrived is announced until a driver has been told.     *)
AnnouncedUntilSeen == Uart!AnnouncedUntilSeen

(* A transfer out over Avalon and back happens once; the bridge keeps its  *)
(* command as Avalon wants it, and lets its master go.                     *)
TransferredOnce == Pair!TransferredOnce
CommandHeld == Pair!CommandHeld
TransfersEnd == Pair!TransfersEnd

(* A timer that is set up as counter.vhd says overflows when its reload,   *)
(* in the unit chosen, is over: nothing older is left behind its register. *)
ExpiresOnTime == Tim!ExpiresOnTime

(* The pins of a GPIO show the word the bridge wrote last, and, after the  *)
(* CPU, the one before its last write: slave_gpio.vhd's write enable.      *)
PinsAsWritten == Gp!PinsAsWritten

(* Its interrupt is up for the inputs the mask leaves open, and no other.  *)
InterruptsAsMasked == Gp!InterruptsAsMasked
=============================================================================
