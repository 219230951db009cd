------------------------------ MODULE SystemBus ------------------------------
(***************************************************************************)
(* The system bus of rtl/plasma_soc.de1_soc.vhd: the CPU (master 0) and    *)
(* the HPS behind its bridge (master 1), the arbiter, the shared bus, the  *)
(* on-chip memory and one peripheral, the UART.  The other peripherals     *)
(* answer the bus the way the UART does, without its stall.                *)
(*                                                                         *)
(* All registers change on the same clock edge, so a step of the system is *)
(* the conjunction of the steps of its components; what varies is what the *)
(* HPS does next, how long the multiplier and the UART take, and what an   *)
(* unstable combinational loop settles on.                                 *)
(***************************************************************************)
EXTENDS Integers, FiniteSets

CONSTANTS
  MemMap,       \* base and size of "mem" and "uart", in words
  Value, Zero,  \* data words, and the one with all bits cleared
  Decode,       \* what the CPU makes of a word it executes
  PcSize,       \* the CPU's program counter wraps here
  Vector,       \* its interrupts go here
  Irq,          \* what the interrupt line may show when it is looked at
  Program,      \* the possible contents of the memory
  Transfer,     \* what the HPS may drive
  UartEnable, UartReset, Status,   \* see SlaveUart
  RxWord,       \* what the UART's receiver shows: nothing arrives here
  UartCtrl      \* the control words the UART may have been set up with

VARIABLES
  grant_q, grant_prev, grant_enc,
  cyc_os, stb_os, we_o, dat_is, core_reset, mem_state_reg,
  opcode_reg, next_opcode_reg, pc_reg, intr_signal, intr_enable, epc,
  cycstb_s, avs,
  ram, mem_ack, mem_dat,
  ctrl_s, dat_os, dat_tx, enable_write, ack_s, err_s, tx_busy,
  cpu_access,   \* history: what the CPU's bus cycle did so far
  hps_access,   \* history: the same for the HPS
  handling      \* history: an interrupt is being handled

CPU == 0
HPS == 1
Slave == {"mem", "uart"}

Arb  == INSTANCE Arbiter WITH N <- 2
Bus  == INSTANCE SharedBus
Cpu  == INSTANCE MasterCpu
Hps  == INSTANCE AvalonToWb
Mem  == INSTANCE SlaveMemory WITH MemSize <- MemMap["mem"].size + 1
Uart == INSTANCE SlaveUart WITH dat_rx <- RxWord, data_avail <- FALSE

ASSUME SystemAssumption ==
  /\ Bus!BusConstants /\ Cpu!CpuConstants /\ Uart!UartConstants
  /\ Decode \in [Value -> [op : {"alu", "mult", "jump", "load", "store", "enable", "return"},
                           adr : Nat, dat : Value]]
  /\ Vector \in Nat /\ Irq \subseteq BOOLEAN
  /\ Program \subseteq [0 .. MemMap["mem"].size -> Value]
  /\ Transfer \subseteq [op : {"idle", "read", "write"}, adr : Nat, dat : Value]
  /\ RxWord \in Value /\ UartCtrl \subseteq Value

vars == <<grant_q, grant_prev, grant_enc, Cpu!cpuVars, Hps!bridgeVars,
          Mem!memoryVars, Uart!uartVars, cpu_access, hps_access, handling>>

-----------------------------------------------------------------------------
(* The wires between the components.                                       *)

(* The ports of the masters; the CPU's address depends on "paused". *)
CpuPort(paused) == [cyc |-> cyc_os, stb |-> stb_os, we |-> we_o,
                    adr |-> Cpu!AdrO(paused), dat |-> Cpu!DatO]
HpsPort == [cyc |-> cycstb_s, stb |-> cycstb_s, we |-> avs.op = "write",
            adr |-> avs.adr, dat |-> avs.dat]
Port(paused) == [m \in {CPU, HPS} |-> IF m = CPU THEN CpuPort(paused) ELSE HpsPort]

(* The slaves' answers. *)
Answer ==
  [s \in Slave |->
     IF s = "mem"
     THEN [ack |-> mem_ack, err |-> FALSE, stall |-> FALSE, dat |-> mem_dat]
     ELSE [ack |-> ack_s, err |-> err_s, stall |-> Uart!Stall, dat |-> dat_os]]

(* request_i of the arbiter. *)
Request == {m \in {CPU, HPS} : Port(TRUE)[m].cyc}

(***************************************************************************)
(* The master grant_enc names drives the bus.  The bus's answers reach a   *)
(* master only while grant_q has its bit.                                  *)
(***************************************************************************)
Driver(paused) == Port(paused)[grant_enc]
Ack(m, paused)   == m \in grant_q /\ Bus!MasterAck(Driver(paused).adr, Answer)
Err(m, paused)   == m \in grant_q /\ Bus!MasterErr(Driver(paused).adr, Answer)
Stall(m, paused) == m \in grant_q /\ Bus!MasterStall(Driver(paused).adr, Answer)
Dat(paused)      == Bus!MasterDat(Driver(paused).adr, Answer)
SlaveStb(s, paused) == Bus!SlaveStb(Driver(paused), grant_enc \in grant_q, s)
SlaveAdr(paused)    == Bus!Offset(Driver(paused).adr)

(***************************************************************************)
(* mem_pause is cyc or stall, stall depends on the address the CPU drives, *)
(* and that address depends on the pause: a combinational loop.  It rests  *)
(* at a consistent value; where there is none it oscillates, where there   *)
(* are two it keeps either.  In both cases the edge may see either value.  *)
(***************************************************************************)
PauseSettles ==
  LET Consistent == {p \in BOOLEAN : p = (cyc_os \/ Stall(CPU, p))}
  IN IF Consistent = {} THEN BOOLEAN ELSE Consistent

(* pause_mult holds the CPU as well while the multiplier is at work. *)
Paused ==
  IF Cpu!Op.op = "mult" THEN PauseSettles \cup {TRUE} ELSE PauseSettles

-----------------------------------------------------------------------------
(***************************************************************************)
(* The history of an access, from the edge at which the CPU presents a new *)
(* address, or the HPS a transfer, which may be the one before once more:  *)
(* how many of its strobes slaves saw as writes, the words they returned   *)
(* for its strobes, and whether it was answered by an error.               *)
(***************************************************************************)
NoAccess == [writes |-> 0, words |-> {}, err |-> FALSE]
MaxWrites == 2     \* bound of the counter

Strobed(m, paused) ==
  {s \in Slave : m = grant_enc /\ SlaveStb(s, paused)}

Observe(m, access, paused) ==
  [writes |-> IF Strobed(m, paused) # {} /\ Driver(paused).we /\ access.writes < MaxWrites
              THEN access.writes + 1 ELSE access.writes,
   words  |-> access.words \cup {IF s = "mem" THEN mem_dat' ELSE dat_os' :
                                    s \in Strobed(m, paused)},
   err    |-> access.err \/ (Port(paused)[m].cyc /\ Err(m, paused))]

(* From the jump to the vector until the "enable" of the handler, in the   *)
(* delay slot of its return, retires.                                      *)
Handling(paused) ==
  handling' = IF paused THEN handling
              ELSE intr_signal \/ (handling /\ Cpu!Op.op # "enable")

-----------------------------------------------------------------------------
Init ==
  /\ Arb!Init
  /\ Cpu!Init
  /\ Hps!Init
  /\ \E p \in Program : Mem!Init(p)
  /\ \E c \in UartCtrl : Uart!Init(c)
  /\ cpu_access = NoAccess /\ hps_access = NoAccess /\ handling = FALSE

Clock(paused, irq) ==
  /\ Arb!Clock(Request, {m \in {CPU, HPS} : Ack(m, paused)})
  /\ Cpu!Clock(paused, CPU \in grant_q, Ack(CPU, paused), Err(CPU, paused),
               Stall(CPU, paused), Dat(paused), irq)
  /\ Hps!Clock(Ack(HPS, paused), Err(HPS, paused))
  /\ Mem!Clock(SlaveStb("mem", paused), Driver(paused).we,
               SlaveAdr(paused), Driver(paused).dat)
  /\ Uart!Clock(SlaveStb("uart", paused), Driver(paused).we,
                SlaveAdr(paused), Driver(paused).dat)
  /\ cpu_access' = IF paused THEN Observe(CPU, cpu_access, paused) ELSE NoAccess
  /\ hps_access' = IF Hps!Busy /\ ~Hps!Done(Ack(HPS, paused), Err(HPS, paused))
                     THEN Observe(HPS, hps_access, paused) ELSE NoAccess
  /\ Handling(paused)

Tick == \E paused \in Paused, irq \in Irq : Clock(paused, irq)

(* The reset of the fabric, which lasts at least one edge. *)
Reset ==
  /\ Arb!Reset /\ Cpu!Reset /\ Hps!Reset /\ Uart!Reset
  /\ Mem!Reset(SlaveAdr(TRUE))
  /\ cpu_access' = NoAccess /\ hps_access' = NoAccess /\ handling' = FALSE

Next == Tick \/ Reset

Spec == Init /\ [][Next]_vars

(***************************************************************************)
(* The clock runs.  A character is sent in the end, a product is ready     *)
(* after at most 32 edges and the reset of the core lasts 15; the fabric   *)
(* is not reset for ever.  Nothing is assumed of the HPS.                  *)
(***************************************************************************)
SendingEnds   == tx_busy /\ Tick /\ ~tx_busy'
ProductReady  == Cpu!Op.op = "mult" /\ \E irq \in Irq : Clock(FALSE, irq)
CoreStarts    == core_reset /\ Tick /\ ~core_reset'

FairSpec ==
  /\ Spec
  /\ WF_vars(Tick)
  /\ WF_vars(SendingEnds)
  /\ SF_vars(ProductReady)
  /\ WF_vars(CoreStarts)
  /\ <>[][~Reset]_vars

-----------------------------------------------------------------------------
(* Types of all registers and of the history. *)
TypeOK ==
  /\ grant_q \subseteq {CPU, HPS} /\ grant_prev \subseteq {CPU, HPS}
  /\ grant_enc \in {CPU, HPS}
  /\ {cyc_os, stb_os, we_o, core_reset, cycstb_s, mem_ack, handling} \subseteq BOOLEAN
  /\ {enable_write, ack_s, err_s, tx_busy} \subseteq BOOLEAN
  /\ {dat_is, opcode_reg, next_opcode_reg, mem_dat} \subseteq Value
  /\ {ctrl_s, dat_os, dat_tx} \subseteq Value
  /\ mem_state_reg \in {"ADDR", "ACCESS"}
  /\ {intr_signal, intr_enable} \subseteq BOOLEAN
  /\ {pc_reg, epc} \subseteq Nat
  /\ avs \in Transfer
  /\ ram \in [0 .. MemMap["mem"].size -> Value]
  /\ cpu_access \in [writes : 0 .. MaxWrites, words : SUBSET Value, err : BOOLEAN]
  /\ hps_access \in [writes : 0 .. MaxWrites, words : SUBSET Value, err : BOOLEAN]

(* The CPU's access is over, without an error, and its pipeline moves on. *)
CpuProceeds == FALSE \in Paused /\ ~core_reset /\ ~cpu_access.err

(* The HPS's transfer ends in this cycle, without an error. *)
HpsDone == Hps!Done(Ack(HPS, TRUE), FALSE) /\ ~Err(HPS, TRUE)

(***************************************************************************)
(* What the CPU takes from the bus, as an opcode or as the data of a load, *)
(* is a word that a slave returned for the very address it drove.          *)
(***************************************************************************)
CpuGetsWhatItAddressed == CpuProceeds => dat_is \in cpu_access.words

(* The same for what the HPS reads. *)
HpsGetsWhatItAddressed ==
  HpsDone /\ avs.op = "read" => Dat(TRUE) \in hps_access.words

(* A store that the CPU has executed reached its slave. *)
StoreDelivered ==
  CpuProceeds /\ Cpu!Op.op = "store" /\ mem_state_reg = "ACCESS"
    => cpu_access.writes > 0

(* No store reaches a slave twice, however often the cycle is restarted. *)
NoDoubleStore == cpu_access.writes <= 1

(***************************************************************************)
(* Once its strobe has been accepted the CPU keeps the bus until the       *)
(* acknowledge: an arbitration in between would make master_cpu strobe     *)
(* again, and repeat the access.                                           *)
(***************************************************************************)
AcceptedKeepsBus ==
  /\ cyc_os /\ ~stb_os => CPU \in grant_q
  /\ stb_os => cyc_os

(***************************************************************************)
(* The CPU alone on the bus executes its program in order, and interrupts  *)
(* do not show: while one is handled the opcode it replaced has not begun, *)
(* and it begins when the handler is over.                                 *)
(***************************************************************************)
InOrder == INSTANCE InOrderCpu WITH
  MemSize  <- MemMap["mem"].size + 1,
  opcode   <- IF handling THEN ram[(epc - 1) % PcSize] ELSE opcode_reg,
  pc       <- IF handling THEN epc ELSE pc_reg,
  accessed <- /\ ~handling /\ ~intr_signal /\ mem_state_reg = "ACCESS"
              /\ cpu_access.words # {} \/ cpu_access.err,
  memory   <- ram
ExecutesInOrder == InOrder!Spec

(* The CPU is never held for ever, neither by the HPS nor by a stall. *)
CpuKeepsRunning == []<>(FALSE \in Paused)

(* A handler gets to its end: it is not interrupted itself.  What it       *)
(* returns to may be interrupted before it executes a single opcode, again *)
(* and again, while the line stays up.                                     *)
HandlerReturns == handling ~> ~handling

(* A transfer of the HPS always ends. *)
HpsServed == Hps!Busy ~> (~Hps!Busy \/ Hps!Done(Ack(HPS, TRUE), Err(HPS, TRUE)))
=============================================================================
