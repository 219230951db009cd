------------------------------- MODULE UartLine -------------------------------
(***************************************************************************)
(* The UART bit by bit: the registers of slave_uart.vhd, the core of       *)
(* uart.vhd, one bus master in front of it and another serial device at    *)
(* the end of its line.  Words are as wide as characters.                  *)
(*                                                                         *)
(* The master is the CPU, which holds its strobe while the UART stalls,    *)
(* but its write enable for the first edge of it only, or the bridge,      *)
(* which does not look at the stall and holds both until it sees the       *)
(* acknowledge.  It has one task:                                          *)
(*   send     write characters and control words, each after a status that *)
(*            said ready                                                   *)
(*   blind    write characters whenever it likes and rely on the stall     *)
(*   receive  read the data register when the interrupt is up, which takes *)
(*            longer than the edge a read needs to lower it                *)
(*   poll     read the status, and the data register when it is said to    *)
(*            have a character                                             *)
(* The other device sends with a clock of its own, and its next character  *)
(* after the last one has been read.                                       *)
(***************************************************************************)
EXTENDS Integers, Sequences

CONSTANTS
  DataBits, CountValue, Average,   \* see Uart
  Drift,        \* by how many edges the other device's bits may differ
  Driver        \* the possible [master, task]

VARIABLES
  ctrl_s, dat_os, dat_tx, enable_read, enable_write, ack_s, err_s,
  delay_write_reg, bits_write_reg, data_write_reg, read_value_reg,
  delay_read_reg, bits_read_reg, data_read_reg, data_save_reg, data_avail,
  rx, rest, age, period,    \* the other device's end of the line
  driver,       \* who uses the UART and what for
  access,       \* its access on the bus, or NoAccess
  told,         \* what the driver learned from its last status read
  owed,         \* history: characters to be sent, and not yet started
  arriving,     \* history: characters sent by the other device, not yet complete
  unread,       \* history: the last character was not read since
  seen          \* history: ... but a status read announced it

Core == INSTANCE Uart
Char == Core!Char
Period == CountValue + 1

Line == INSTANCE SerialFrame WITH
  line <- rx, Periods <- {p \in Period - Drift .. Period + Drift : p > 0}

Enables(ctrl) == ctrl[2] = 1     \* ctrl_enable_a
Resets(ctrl)  == ctrl[1] = 1     \* ctrl_reset_a

(* stat_s: bit 0 is ready, bit 1 is davail. *)
StatusWord == [s \in BOOLEAN \X BOOLEAN |->
                 [i \in 1 .. DataBits |->
                    IF (i = 1 /\ ~s[1]) \/ (i = 2 /\ s[2]) THEN 1 ELSE 0]]

Slave == INSTANCE SlaveUart WITH
  Value <- Char, Zero <- Core!Zeros, Status <- StatusWord,
  UartEnable <- {c \in Char : Enables(c)}, UartReset <- {c \in Char : Resets(c)},
  tx_busy <- Core!busy_write, dat_rx <- data_save_reg

(* What a use of the module has to assume of the constants. *)
LineConstants ==
  /\ DataBits \in Nat /\ DataBits > 1
  /\ {CountValue, Average, Drift} \subseteq Nat
  /\ Driver \subseteq [master : {"cpu", "hps"}, task : {"send", "blind", "receive", "poll"}]

lineVars == <<rx, rest, age, period>>
driverVars == <<driver, access, told>>
history == <<owed, arriving, unread, seen>>
vars == <<ctrl_s, dat_os, dat_tx, enable_read, enable_write, ack_s, err_s,
          Core!coreVars, lineVars, driverVars, history>>

-----------------------------------------------------------------------------
(* The master.                                                             *)

NoAccess == [we |-> FALSE, reg |-> 3, dat |-> Core!Zeros]
stb == access # NoAccess
Request(we, reg, dat) == [we |-> we, reg |-> reg, dat |-> dat]
ReadOf(reg) == Request(FALSE, reg, Core!Zeros)

Writes == {Request(TRUE, reg, dat) : reg \in Slave!Writable, dat \in Char}

(* What the driver may ask for next. *)
Requests ==
  CASE driver.task = "receive" ->
         IF data_avail /\ ~enable_read THEN {ReadOf(Slave!DataReg)} ELSE {}
    [] driver.task = "poll" ->
         {ReadOf(IF told[2] = 1 THEN Slave!DataReg ELSE Slave!StatReg)}
    [] driver.task = "send" ->
         {ReadOf(Slave!StatReg)} \cup IF told[1] = 1 THEN Writes ELSE {}
    [] driver.task = "blind" -> {w \in Writes : w.reg = Slave!DataReg}

(* The strobe falls. *)
AccessEnds == stb /\ IF driver.master = "cpu" THEN ~Slave!Stall ELSE ack_s

(* A stalled access of the CPU goes on as a read (mem_byte_we is up in the *)
(* address cycle only), one of the bridge as it is.                        *)
StrobeAgain == IF driver.master = "cpu" THEN [access EXCEPT !.we = FALSE] ELSE access

(* The word a read returns: what is there when the strobe falls with the   *)
(* acknowledge up, the answer to the strobe one edge before; without it    *)
(* the answer to this strobe, which is taken an edge later.                *)
Returned == IF ack_s THEN dat_os ELSE dat_os'

(* A status read tells the driver something, any other access outdates it. *)
Learn ==
  told' = CASE ~AccessEnds \/ driver.task = "blind" -> told
            [] AccessEnds /\ access = ReadOf(Slave!StatReg) -> Returned
            [] OTHER -> Core!Zeros

Master ==
  /\ access' \in CASE stb /\ ~AccessEnds -> {StrobeAgain}
                   [] AccessEnds -> {NoAccess}
                   [] OTHER -> {NoAccess} \cup Requests
  /\ Learn
  /\ UNCHANGED driver

-----------------------------------------------------------------------------
(* The UART.                                                               *)

(* The control process of slave_uart.vhd; any read clears data_avail. *)
Registers ==
  /\ Slave!Registers(stb, access.we, access.reg, access.dat)
  /\ enable_read' = (stb /\ ~access.we)

InReset == Resets(ctrl_s) \/ Resets(ctrl_s')

(* A faulty wiring, without the enable bit. *)
UartCoreUngated ==
  \/ InReset /\ Core!Reset
  \/ ~InReset /\ Core!Clock(enable_read, enable_write, dat_tx, rx)

UartCore ==
  \/ InReset /\ Core!Reset
  \/ /\ ~InReset
     /\ Core!Clock(enable_read /\ Enables(ctrl_s), enable_write /\ Enables(ctrl_s),
                   dat_tx, rx)

(* The other device starts a character only when it knows the last one read. *)
OtherDevice ==
  \/ \E c \in Char :
       /\ driver.task \in {"receive", "poll"} /\ ~unread
       /\ Line!Start(c)
  \/ rest = <<>> /\ UNCHANGED lineVars
  \/ Line!Hold \/ Line!Shift

-----------------------------------------------------------------------------
(* The history.                                                            *)

Started   == bits_write_reg = 0 /\ bits_write_reg' # 0
Completed == Core!Complete /\ ~InReset
Begins    == ~stb /\ access' # NoAccess
Taken     == AccessEnds /\ access = ReadOf(Slave!DataReg)

(* Every write that leaves the UART enabled sends dat_tx, one to the       *)
(* control register as well.                                               *)
Due(req) ==
  LET ctrl == IF req.reg = Slave!CtrlReg THEN req.dat ELSE ctrl_s
  IN IF Enables(ctrl) /\ ~Resets(ctrl)
     THEN <<IF req.reg = Slave!DataReg THEN req.dat ELSE dat_tx>> ELSE <<>>

Observe ==
  /\ owed' = IF Begins /\ access'.we THEN Due(access') ELSE IF Started THEN <<>> ELSE owed
  /\ arriving' = (IF Completed THEN Tail(arriving) ELSE arriving)
                   \o IF rest = <<>> /\ rest' # <<>> THEN <<SubSeq(rest', 2, DataBits + 1)>>
                      ELSE <<>>
  /\ unread' = (Completed \/ (unread /\ ~Taken))
  /\ seen' = (~Completed /\ (seen \/ (access = ReadOf(Slave!StatReg) /\ dat_os'[2] = 1)))

-----------------------------------------------------------------------------
Init ==
  /\ driver \in Driver
  /\ Core!Init
  /\ Slave!Init(IF driver.task = "send" THEN Core!Zeros
                ELSE [i \in 1 .. DataBits |-> IF i = 2 THEN 1 ELSE 0])
  /\ enable_read = FALSE
  /\ rx = 1 /\ rest = <<>> /\ age = 0 /\ period = Period
  /\ access = NoAccess /\ told = Core!Zeros
  /\ owed = <<>> /\ arriving = <<>> /\ unread = FALSE /\ seen = FALSE

Tick == Registers /\ UartCore /\ OtherDevice /\ Master /\ Observe

(* rst_i, while nothing arrives; the driver starts over, sending again. *)
Reset ==
  /\ driver.task = "send"
  /\ Core!Reset /\ Slave!Reset /\ enable_read' = FALSE
  /\ access' = NoAccess /\ told' = Core!Zeros
  /\ owed' = <<>> /\ arriving' = <<>> /\ unread' = FALSE /\ seen' = FALSE
  /\ UNCHANGED <<driver, lineVars>>

Next == Tick \/ Reset

Spec == Init /\ [][Next]_vars

(* The clock runs. *)
FairSpec == Spec /\ WF_vars(Tick)

-----------------------------------------------------------------------------
(***************************************************************************)
(* What a driver writes that reads the status first is sent once: a        *)
(* transmission starts with the character owed, and no write comes before  *)
(* the one owed has started.  No status says "ready" with a transmission   *)
(* about to start.                                                         *)
(***************************************************************************)
OncePerWrite ==
  [][driver.task = "send" =>
       /\ Started => owed = <<SubSeq(data_write_reg', 2, DataBits + 1)>>
       /\ Begins /\ access'.we => owed = <<>> \/ Started]_vars

(* "Uart Write (will pause CPU if busy)": until a character that was       *)
(* written starts, its driver is held in the access that wrote it.         *)
HeldWhileBusy == owed # <<>> => stb \/ enable_write

(* The transmitter puts whole frames on the line, every bit equally long. *)
Sent == INSTANCE SerialFrame WITH
  Periods <- {Period}, period <- Period,
  line <- Core!uart_write,
  rest <- SubSeq(data_write_reg \o <<1>>, 1, bits_write_reg),
  age  <- IF bits_write_reg = 0 THEN 0 ELSE delay_write_reg
FramesOnTheLine == Sent!Spec

(* Seen from the bus it is the UART of the system bus, stall and all. *)
ImplementsSlaveUart ==
  [][Slave!Reset \/ Slave!Clock(stb, access.we, access.reg, access.dat)]_(Slave!uartVars)

(* A transmission ends: what SystemBus assumes of the stall. *)
TransmissionEnds == Core!busy_write ~> ~Core!busy_write

(***************************************************************************)
(* What arrives is received once and as it was sent, by a device whose     *)
(* clock is up to Drift edges per bit away.                                *)
(***************************************************************************)
EachCharacterOnce ==
  [][/\ Completed => arriving = <<data_read_reg>>
     /\ rest = <<>> /\ rest' # <<>> => arriving = <<>>]_vars

(* An interrupt means one character: none is read twice, or before it is   *)
(* complete.                                                               *)
ReadOnce ==
  [][Taken /\ driver.task = "receive" => unread /\ Returned = data_save_reg]_vars

(* "davail: data available": a character nobody read is announced, by the  *)
(* flag and the interrupt, until a status read has told the driver of it.  *)
AnnouncedUntilSeen == unread => data_avail \/ seen
=============================================================================
