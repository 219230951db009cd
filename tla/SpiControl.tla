------------------------------ MODULE SpiControl ------------------------------
(***************************************************************************)
(* The SPI controller, rtl/spi/spi_control.vhd, for one slave device.  A   *)
(* word is a sequence of bits, the most significant first: the order they  *)
(* go out in.  Clock is one rising edge; the reset is a level, given as it *)
(* is before the edge and after it.                                        *)
(***************************************************************************)
EXTENDS Integers, Sequences

CONSTANTS
  DataBits,     \* data_w
  Divisor       \* half a period of SCLK, in edges

VARIABLES
  state_s,
  adr_s,                \* the device addressed; 0 is the one there is
  spi_clk_s,            \* SCLK
  spi_clk_falling,      \* the present low phase has been served
  fifo_s, MOSI,
  clk_cnt, clk_rld,     \* spi_clk_cnt
  bit_cnt, bit_rld      \* spi_bit_cnt

spiVars == <<state_s, adr_s, spi_clk_s, spi_clk_falling, fifo_s, MOSI,
             clk_cnt, clk_rld, bit_cnt, bit_rld>>

ClkCounter == INSTANCE Counter WITH
  Modulus <- 2 * Divisor, cnt_s <- clk_cnt, rld_s <- clk_rld
BitCounter == INSTANCE Counter WITH
  Modulus <- 2 * (DataBits + 1), cnt_s <- bit_cnt, rld_s <- bit_rld

States == {"idle", "send", "hold1", "hold2", "hold3", "hold4", "done"}

spi_stb_s == ClkCounter!Overflow(FALSE)
spi_ack_s == BitCounter!Overflow(FALSE)
Sending   == state_s = "send"

(* The first edge of a low phase of SCLK: a bit goes out, and one comes in. *)
BitEdge == Sending /\ spi_clk_s = 0 /\ ~spi_clk_falling

ack_o == state_s = "done"
irq_o == state_s = "done" /\ spi_stb_s
CS(en_i) == IF adr_s # 0 \/ (state_s = "idle" /\ ~en_i) THEN 1 ELSE 0

Init(dat) ==
  /\ state_s = "idle" /\ adr_s = 0
  /\ spi_clk_s = 1 /\ spi_clk_falling = FALSE
  /\ fifo_s = dat /\ MOSI = 1
  /\ ClkCounter!Init /\ BitCounter!Init

-----------------------------------------------------------------------------
NextState(en_i) ==
  CASE state_s = "idle" /\ en_i -> "send"
    [] state_s = "send" /\ spi_ack_s /\ ~spi_clk_falling -> "hold1"
    [] state_s = "hold1" -> "hold2"
    [] state_s = "hold2" -> "hold3"
    [] state_s = "hold3" -> "hold4"
    [] state_s = "hold4" -> "done"
    [] state_s = "done" /\ ~en_i -> "idle"
    [] OTHER -> state_s

(* Both counters are held while nothing is sent. *)
Counters ==
  LET held == state_s # "send"  heldNext == state_s' # "send"
  IN /\ ClkCounter!Clock(held, Sending, FALSE, Divisor, heldNext, FALSE)
     /\ BitCounter!Clock(held, BitEdge, FALSE, DataBits + 1, heldNext, FALSE)

SpiClk ==
  spi_clk_s' = IF ~Sending \/ state_s' # "send" THEN 1
               ELSE IF spi_stb_s THEN 1 - spi_clk_s ELSE spi_clk_s

(* A faulty shift, which is not limited to one bit per low phase. *)
ShiftThroughout(dat_i, MISO) ==
  LET low == Sending /\ spi_clk_s = 0
  IN /\ MOSI' = IF low THEN Head(fifo_s) ELSE IF state_s = "idle" THEN 1 ELSE MOSI
     /\ fifo_s' = CASE state_s = "idle" -> dat_i
                    [] low -> Append(Tail(fifo_s), MISO)
                    [] OTHER -> fifo_s
     /\ spi_clk_falling' = low

Shift(dat_i, MISO) ==
  /\ MOSI' = IF BitEdge THEN Head(fifo_s) ELSE IF state_s = "idle" THEN 1 ELSE MOSI
  /\ fifo_s' = CASE state_s = "idle" -> dat_i
                 [] BitEdge -> Append(Tail(fifo_s), MISO)
                 [] OTHER -> fifo_s
  /\ spi_clk_falling' =
       CASE BitEdge -> TRUE
         [] Sending /\ spi_clk_s = 1 -> FALSE
         [] OTHER -> spi_clk_falling

Clock(rst, en_i, adr_i, dat_i, MISO, rstNext) ==
  /\ state_s' = IF rst \/ rstNext THEN "idle" ELSE NextState(en_i)
  /\ adr_s' = IF rst \/ rstNext THEN 0 ELSE adr_i
  /\ Counters
  /\ SpiClk
  /\ Shift(dat_i, MISO)

(* A reset of some edges leaves the reloads and spi_clk_falling alone. *)
Reset(dat_i) ==
  /\ state_s' = "idle" /\ adr_s' = 0
  /\ spi_clk_s' = 1
  /\ fifo_s' = dat_i /\ MOSI' = 1
  /\ clk_cnt' = 0 /\ bit_cnt' = 0
  /\ UNCHANGED <<spi_clk_falling, clk_rld, bit_rld>>
=============================================================================
