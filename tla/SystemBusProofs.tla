---------------------------- MODULE SystemBusProofs ----------------------------
(***************************************************************************)
(* Theorems about SystemBus, for every program, memory map, decoder and    *)
(* HPS.  The first three hold of every behaviour.  The others are false of *)
(* some, where the masters meet at a slave, and name what they ask of the  *)
(* masters: first of the behaviour, then of the constants.                 *)
(***************************************************************************)
EXTENDS SystemBus, TLAPS

(* The bus has one owner at a time: what BusArbitrationProofs shows of the *)
(* arbiter between any masters, here of the two and with no assumption     *)
(* about what they do.                                                     *)
OneOwner == grant_q \in {{}, {CPU}, {HPS}}

LEMMA LsbOfTwo ==
  ASSUME NEW S, S \subseteq {CPU, HPS}
  PROVE  Arb!Lsb(S) \in {{}, {CPU}, {HPS}}
<1>1. S \in {{}, {CPU}, {HPS}, {CPU, HPS}}
  OBVIOUS
<1>2. CASE S = {}
  BY <1>2 DEF Arb!Lsb
<1>3. CASE S = {CPU}
  BY <1>3 DEF Arb!Lsb, CPU
<1>4. CASE S = {HPS}
  BY <1>4 DEF Arb!Lsb, HPS
<1>5. CASE S = {CPU, HPS}
  BY <1>5 DEF Arb!Lsb, CPU, HPS
<1>6. QED
  BY <1>1, <1>2, <1>3, <1>4, <1>5

LEMMA GrantOfTwo ==
  ASSUME NEW R, R \subseteq {CPU, HPS}
  PROVE  Arb!Grant(R) \in {{}, {CPU}, {HPS}}
<1>1. Arb!Mask(R) \subseteq {CPU, HPS}
  BY DEF Arb!Mask
<1>2. QED
  BY <1>1, LsbOfTwo DEF Arb!Grant

(* An edge of the arbiter: one owner, kept while nothing is acknowledged.  *)
LEMMA ArbiterStep ==
  ASSUME OneOwner, NEW R, R \subseteq {CPU, HPS}, NEW A, Arb!Clock(R, A)
  PROVE  /\ OneOwner'
         /\ grant_q # {} /\ A = {} => grant_q' = grant_q
BY GrantOfTwo DEF OneOwner, Arb!Clock, Arb!Free, Arb!arbiterVars

-----------------------------------------------------------------------------
(* An edge of the CPU's front end, by what the bus tells it.               *)
CycTypes == {cyc_os, stb_os} \subseteq BOOLEAN

LEMMA FrontEndStep ==
  ASSUME CycTypes, stb_os => cyc_os,
         NEW grant \in BOOLEAN, NEW ack \in BOOLEAN, NEW err \in BOOLEAN,
         NEW stall \in BOOLEAN, NEW dat,
         Cpu!FrontEnd(grant, ack, err, stall, dat)
  PROVE  /\ CycTypes' /\ (stb_os' => cyc_os')
         /\ cyc_os' /\ ~stb_os' => grant /\ ~ack
<1>1. CASE Cpu!BusError(err)
  BY <1>1 DEF CycTypes, Cpu!BusError
<1>2. CASE Cpu!BusStrobe(grant, ack, err, stall, dat)
  BY <1>2 DEF CycTypes, Cpu!BusStrobe
<1>3. CASE Cpu!BusAwait(grant, ack, err, dat)
  BY <1>3 DEF CycTypes, Cpu!BusAwait
<1>4. CASE Cpu!BusStart(grant, err)
  BY <1>4 DEF CycTypes, Cpu!BusStart
<1>5. QED
  BY <1>1, <1>2, <1>3, <1>4 DEF Cpu!FrontEnd

IInv == CycTypes /\ OneOwner /\ AcceptedKeepsBus

LEMMA TickKeepsBus ==
  ASSUME IInv, Tick
  PROVE  IInv'
<1>1. PICK paused \in Paused, irq \in Irq : Clock(paused, irq)
  BY DEF Tick
<1> DEFINE Acks == {m \in {CPU, HPS} : Ack(m, paused)}
<1>2. Cpu!FrontEnd(CPU \in grant_q, Ack(CPU, paused), Err(CPU, paused), Stall(CPU, paused),
                   Dat(paused))
  BY <1>1 DEF Clock, Cpu!Clock
<1>3. /\ CycTypes' /\ (stb_os' => cyc_os')
      /\ cyc_os' /\ ~stb_os' => CPU \in grant_q /\ ~Ack(CPU, paused)
  <2>1. /\ Ack(CPU, paused) \in BOOLEAN /\ Err(CPU, paused) \in BOOLEAN
        /\ Stall(CPU, paused) \in BOOLEAN
    BY Zenon DEF Ack, Err, Stall
  <2>2. CycTypes /\ (stb_os => cyc_os)
    BY DEF IInv, AcceptedKeepsBus
  <2>3. (CPU \in grant_q) \in BOOLEAN
    OBVIOUS
  <2>4. QED
    BY <1>2, <2>1, <2>2, <2>3, FrontEndStep, Zenon
<1>4. OneOwner' /\ (grant_q # {} /\ Acks = {} => grant_q' = grant_q)
  <2>1. Arb!Clock(Request, Acks)
    BY <1>1 DEF Clock
  <2>2. Request \subseteq {CPU, HPS}
    BY DEF Request
  <2> HIDE DEF Acks
  <2>3. QED
    BY <2>1, <2>2, ArbiterStep DEF IInv
<1>5. CPU \in grant_q /\ ~Ack(CPU, paused) => Acks = {}
  BY DEF IInv, OneOwner, Ack, CPU, HPS
<1>6. cyc_os' /\ ~stb_os' => CPU \in grant_q'
  BY <1>3, <1>4, <1>5
<1>7. QED
  BY <1>3, <1>4, <1>6 DEF IInv, AcceptedKeepsBus

(***************************************************************************)
(* Once its strobe has been accepted the CPU keeps the bus until the       *)
(* acknowledge, so that master_cpu never repeats an accepted access: for   *)
(* every program and whatever the HPS does.                                *)
(***************************************************************************)
THEOREM BusIsKept == Spec => []AcceptedKeepsBus
<1>1. Init => IInv
  BY DEF Init, Arb!Init, Cpu!Init, IInv, CycTypes, OneOwner, AcceptedKeepsBus
<1>2. IInv /\ [Next]_vars => IInv'
  <2>1. IInv /\ Reset => IInv'
    BY DEF Reset, Arb!Reset, Cpu!Reset, IInv, CycTypes, OneOwner, AcceptedKeepsBus
  <2>2. IInv /\ UNCHANGED vars => IInv'
    BY DEF vars, Cpu!cpuVars, IInv, CycTypes, OneOwner, AcceptedKeepsBus
  <2>3. QED
    BY <2>1, <2>2, TickKeepsBus DEF Next
<1>3. IInv => AcceptedKeepsBus
  BY DEF IInv
<1>4. QED
  BY <1>1, <1>2, <1>3, PTL DEF Spec

-----------------------------------------------------------------------------
(* What makes NoDoubleStore inductive: the write enable is up for one      *)
(* cycle, the first one of an access.                                      *)
WriteFirst ==
  /\ cpu_access.writes \in 0 .. MaxWrites
  /\ we_o => cpu_access.writes = 0

(* No store reaches a slave twice, however often master_cpu restarts its   *)
(* cycle and however long the slave stalls.                                *)
THEOREM StoredOnce == Spec => []NoDoubleStore
<1> DEFINE Inv == WriteFirst /\ NoDoubleStore
<1>1. Init => Inv
  <2>1. Init => cpu_access = NoAccess
    BY DEF Init
  <2>2. NoAccess.writes = 0
    BY DEF NoAccess
  <2>3. QED
    BY <2>1, <2>2 DEF WriteFirst, NoDoubleStore, MaxWrites
<1>2. Inv /\ [Next]_vars => Inv'
  <2> SUFFICES ASSUME Inv, [Next]_vars PROVE Inv'
    OBVIOUS
  <2>1. CASE Tick
    <3>1. PICK paused \in Paused, irq \in Irq : Clock(paused, irq)
      BY <2>1 DEF Tick
    <3>2. paused \in BOOLEAN
      BY DEF Paused, PauseSettles
    <3>3. we_o' = Cpu!ByteWe(paused)
      BY <3>1 DEF Clock, Cpu!Clock
    <3>4. CASE ~paused
      <4>1. cpu_access' = NoAccess
        BY <3>1, <3>4 DEF Clock
      <4>2. QED
        BY <3>3, <4>1 DEF NoAccess, WriteFirst, NoDoubleStore, MaxWrites, Cpu!ByteWe
    <3>5. CASE paused
      <4>1. ~we_o'
        BY <3>3, <3>5 DEF Cpu!ByteWe, Cpu!PauseCtrl
      <4>2. cpu_access' = Observe(CPU, cpu_access, paused)
        BY <3>1, <3>5 DEF Clock
      <4>3. Strobed(CPU, paused) # {} => Driver(paused).we = we_o
        BY DEF Strobed, Driver, Port, CpuPort
      <4>4. cpu_access'.writes = IF Strobed(CPU, paused) # {} /\ Driver(paused).we
                                    /\ cpu_access.writes < MaxWrites
                                 THEN cpu_access.writes + 1 ELSE cpu_access.writes
        BY <4>2 DEF Observe
      <4>5. cpu_access'.writes \in 0 .. 1
        BY <4>3, <4>4 DEF WriteFirst, NoDoubleStore, MaxWrites
      <4>6. QED
        BY <4>1, <4>5 DEF WriteFirst, NoDoubleStore, MaxWrites
    <3>6. QED
      BY <3>2, <3>4, <3>5
  <2>2. CASE Reset
    BY <2>2 DEF Reset, Cpu!Reset, NoAccess, WriteFirst, NoDoubleStore, MaxWrites
  <2>3. CASE UNCHANGED vars
    BY <2>3 DEF vars, Cpu!cpuVars, WriteFirst, NoDoubleStore
  <2>4. QED
    BY <2>1, <2>2, <2>3 DEF Next
<1>3. QED
  BY <1>1, <1>2, PTL DEF Spec

-----------------------------------------------------------------------------
(* Types.                                                                  *)

LEMMA EncodeOfTwo ==
  ASSUME NEW R, R \subseteq {CPU, HPS}
  PROVE  Arb!Encode(Arb!Grant(R)) \in {CPU, HPS} /\ Arb!Grant(R) \subseteq {CPU, HPS}
<1>1. Arb!Grant(R) \in {{}, {CPU}, {HPS}}
  BY GrantOfTwo
<1>2. Arb!Grant(R) = {} => Arb!Encode(Arb!Grant(R)) = CPU
  BY DEF Arb!Encode, CPU
<1>3. Arb!Grant(R) # {} => Arb!Encode(Arb!Grant(R)) \in Arb!Grant(R)
  BY DEF Arb!Encode
<1>4. QED
  BY <1>1, <1>2, <1>3

(* What the opcode in execution asks for. *)
LEMMA OpTypes ==
  ASSUME TypeOK
  PROVE  Cpu!Op.adr \in Nat /\ Cpu!Op.dat \in Value
<1>1. PcSize \in Nat \ {0} /\ epc \in Nat /\ Zero \in Value /\ opcode_reg \in Value
  BY SystemAssumption DEF TypeOK, Cpu!CpuConstants
<1>2. Decode[opcode_reg] \in [op : {"alu", "mult", "jump", "load", "store", "enable", "return"},
                              adr : Nat, dat : Value]
  BY <1>1, SystemAssumption
<1>3. CASE intr_signal
  BY <1>1, <1>3, SystemAssumption DEF Cpu!Op, Cpu!Interrupt
<1>4. CASE ~intr_signal
  <2>1. (epc - 1) % PcSize \in Nat
    BY <1>1
  <2>2. Cpu!Op = IF Decode[opcode_reg].op = "return"
                 THEN [Decode[opcode_reg] EXCEPT !.adr = (epc - 1) % PcSize]
                 ELSE Decode[opcode_reg]
    BY <1>4 DEF Cpu!Op
  <2>3. QED
    BY <1>2, <2>1, <2>2
<1>5. QED
  BY <1>3, <1>4

LEMMA PcTypes ==
  ASSUME TypeOK, NEW paused \in BOOLEAN
  PROVE  Cpu!PcFuture(paused) \in Nat /\ Cpu!AdrO(paused) \in Nat /\ Cpu!DatO \in Value
<1>1. pc_reg \in Nat /\ PcSize \in Nat \ {0} /\ Zero \in Value
  BY SystemAssumption DEF TypeOK, Cpu!CpuConstants
<1>2. (pc_reg + 1) % PcSize \in Nat
  BY <1>1
<1>3. Cpu!PcFuture(paused) \in Nat
  BY <1>1, <1>2, OpTypes DEF Cpu!PcFuture
<1>4. QED
  BY <1>1, <1>3, OpTypes DEF Cpu!AdrO, Cpu!DatO

(* What drives the bus, and the address a slave sees of it. *)
LEMMA DriverTypes ==
  ASSUME TypeOK, NEW paused \in BOOLEAN
  PROVE  /\ Driver(paused).adr \in Nat /\ Driver(paused).dat \in Value
         /\ SlaveAdr(paused) \in Nat
<1>1. Driver(paused) = IF grant_enc = CPU THEN CpuPort(paused) ELSE HpsPort
  BY DEF TypeOK, Driver, Port, CPU, HPS
<1>2. CpuPort(paused).adr \in Nat /\ CpuPort(paused).dat \in Value
  BY PcTypes DEF CpuPort
<1>3. HpsPort.adr \in Nat /\ HpsPort.dat \in Value
  BY SystemAssumption DEF TypeOK, HpsPort
<1>4. Driver(paused).adr \in Nat /\ Driver(paused).dat \in Value
  BY <1>1, <1>2, <1>3
<1>5. ASSUME NEW adr \in Nat PROVE Bus!Offset(adr) \in Nat
  <2>1. \A s \in Slave : MemMap[s].size \in Nat
    BY SystemAssumption DEF Bus!BusConstants
  <2>2. Bus!Cs(adr) \subseteq Slave
    BY DEF Bus!Cs
  <2>3. CASE Bus!Cs(adr) = {}
    BY <2>3 DEF Bus!Offset
  <2>4. CASE Bus!Cs(adr) # {}
    <3>1. PICK sel \in Slave : Bus!Offset(adr) = adr % (MemMap[sel].size + 1)
      BY <2>2, <2>4 DEF Bus!Offset
    <3>2. MemMap[sel].size + 1 \in Nat \ {0}
      BY <2>1
    <3>3. QED
      BY <3>1, <3>2
  <2>5. QED
    BY <2>3, <2>4
<1>6. QED
  BY <1>4, <1>5 DEF SlaveAdr

(* What the bus shows its masters. *)
LEMMA DatTypes ==
  ASSUME TypeOK, NEW paused
  PROVE  Dat(paused) \in Value
<1>1. \A s \in Slave : Answer[s].dat \in Value
  BY DEF TypeOK, Answer, Slave
<1>2. Zero \in Value
  BY SystemAssumption DEF Cpu!CpuConstants
<1>3. Bus!Cs(Driver(paused).adr) \subseteq Slave
  BY DEF Bus!Cs
<1>4. QED
  BY <1>1, <1>2, <1>3 DEF Dat, Bus!MasterDat

-----------------------------------------------------------------------------
(* One edge of each component.                                             *)

ArbiterTypes == grant_q \subseteq {CPU, HPS} /\ grant_prev \subseteq {CPU, HPS}
                  /\ grant_enc \in {CPU, HPS}

FrontEndTypes == {cyc_os, stb_os} \subseteq BOOLEAN /\ dat_is \in Value

CoreTypes ==
  /\ core_reset \in BOOLEAN
  /\ {opcode_reg, next_opcode_reg} \subseteq Value
  /\ mem_state_reg \in {"ADDR", "ACCESS"}
  /\ pc_reg \in Nat

InterruptTypes == {we_o, intr_signal, intr_enable} \subseteq BOOLEAN /\ epc \in Nat

HpsTypes == cycstb_s \in BOOLEAN /\ avs \in Transfer

MemoryTypes ==
  mem_ack \in BOOLEAN /\ mem_dat \in Value /\ ram \in [0 .. MemMap["mem"].size -> Value]

UartTypes ==
  /\ {enable_write, ack_s, err_s, tx_busy} \subseteq BOOLEAN
  /\ {ctrl_s, dat_os, dat_tx} \subseteq Value

Access == [writes : 0 .. MaxWrites, words : SUBSET Value, err : BOOLEAN]
HistoryTypes == handling \in BOOLEAN /\ cpu_access \in Access /\ hps_access \in Access

LEMMA TypesOfParts ==
  TypeOK <=> /\ ArbiterTypes /\ FrontEndTypes /\ CoreTypes /\ InterruptTypes
             /\ HpsTypes /\ MemoryTypes /\ UartTypes /\ HistoryTypes
BY DEF TypeOK, ArbiterTypes, FrontEndTypes, CoreTypes, InterruptTypes, HpsTypes, MemoryTypes,
       UartTypes, HistoryTypes, Access

LEMMA ArbiterTypesStep ==
  ASSUME ArbiterTypes, NEW R, R \subseteq {CPU, HPS}, NEW A, Arb!Clock(R, A)
  PROVE  ArbiterTypes'
BY EncodeOfTwo DEF ArbiterTypes, Arb!Clock, Arb!arbiterVars

LEMMA FrontEndTypesStep ==
  ASSUME FrontEndTypes,
         NEW grant \in BOOLEAN, NEW ack \in BOOLEAN, NEW err \in BOOLEAN,
         NEW stall \in BOOLEAN, NEW dat \in Value,
         Cpu!FrontEnd(grant, ack, err, stall, dat)
  PROVE  FrontEndTypes'
<1>1. CASE Cpu!BusError(err)
  BY <1>1 DEF FrontEndTypes, Cpu!BusError
<1>2. CASE Cpu!BusStrobe(grant, ack, err, stall, dat)
  BY <1>2 DEF FrontEndTypes, Cpu!BusStrobe
<1>3. CASE Cpu!BusAwait(grant, ack, err, dat)
  BY <1>3 DEF FrontEndTypes, Cpu!BusAwait
<1>4. CASE Cpu!BusStart(grant, err)
  BY <1>4 DEF FrontEndTypes, Cpu!BusStart
<1>5. QED
  BY <1>1, <1>2, <1>3, <1>4 DEF Cpu!FrontEnd

LEMMA CoreTypesStep ==
  ASSUME TypeOK, NEW paused \in BOOLEAN, Cpu!Core(paused)
  PROVE  CoreTypes'
<1>1. CoreTypes /\ dat_is \in Value /\ Zero \in Value /\ Cpu!PcFuture(paused) \in Nat
  BY TypesOfParts, PcTypes, SystemAssumption DEF FrontEndTypes, Cpu!CpuConstants
<1>2. CASE Cpu!CoreInReset
  BY <1>1, <1>2 DEF CoreTypes, Cpu!CoreInReset
<1>3. CASE Cpu!CorePaused(paused)
  BY <1>1, <1>3 DEF CoreTypes, Cpu!CorePaused
<1>4. CASE Cpu!CoreFetch(paused)
  BY <1>1, <1>4 DEF CoreTypes, Cpu!CoreFetch
<1>5. CASE Cpu!CoreAddress(paused)
  BY <1>1, <1>5 DEF CoreTypes, Cpu!CoreAddress
<1>6. CASE Cpu!CoreAccess(paused)
  BY <1>1, <1>6 DEF CoreTypes, Cpu!CoreAccess
<1>7. QED
  BY <1>2, <1>3, <1>4, <1>5, <1>6 DEF Cpu!Core

LEMMA InterruptTypesStep ==
  ASSUME TypeOK, NEW paused \in BOOLEAN, NEW irq \in BOOLEAN,
         we_o' = Cpu!ByteWe(paused), Cpu!Sample(paused, irq), Cpu!StatusBits(paused)
  PROVE  InterruptTypes'
<1>1. intr_signal \in BOOLEAN /\ intr_enable \in BOOLEAN /\ epc \in Nat /\ pc_reg \in Nat
  BY DEF TypeOK
<1>2. we_o' \in BOOLEAN
  BY DEF Cpu!ByteWe
<1>3. intr_signal' \in BOOLEAN
  BY <1>1, Zenon DEF Cpu!Sample
<1>4. intr_enable' \in BOOLEAN /\ epc' \in Nat
  BY <1>1 DEF Cpu!StatusBits
<1>5. QED
  BY <1>2, <1>3, <1>4 DEF InterruptTypes

LEMMA HpsTypesStep ==
  ASSUME HpsTypes, NEW ack \in BOOLEAN, NEW err \in BOOLEAN, Hps!Clock(ack, err)
  PROVE  HpsTypes'
BY DEF HpsTypes, Hps!Clock, Hps!Cycle, Hps!Busy

LEMMA MemoryTypesStep ==
  ASSUME MemoryTypes, NEW stb \in BOOLEAN, NEW we, NEW adr \in Nat, NEW dat \in Value,
         Mem!Clock(stb, we, adr, dat)
  PROVE  MemoryTypes'
<1>1. MemMap["mem"].size \in Nat
  BY SystemAssumption DEF Bus!BusConstants, Slave
<1>2. adr % (MemMap["mem"].size + 1) \in 0 .. MemMap["mem"].size
  BY <1>1
<1>3. ram' \in [0 .. MemMap["mem"].size -> Value]
  BY DEF MemoryTypes, Mem!Clock
<1>4. QED
  BY <1>2, <1>3 DEF MemoryTypes, Mem!Clock

LEMMA UartTypesStep ==
  ASSUME UartTypes, NEW stb, NEW we, NEW reg, NEW dat \in Value,
         Uart!Clock(stb, we, reg, dat)
  PROVE  UartTypes'
<1>1. reg \in Uart!Readable => Uart!ReadRegister(reg) \in Value
  BY SystemAssumption
  DEF UartTypes, Uart!UartConstants, Uart!Readable, Uart!ReadRegister, Uart!CtrlReg,
      Uart!StatReg, Uart!DataReg
<1>2. {ctrl_s', dat_os', dat_tx'} \subseteq Value
  BY <1>1 DEF UartTypes, Uart!Clock, Uart!Registers
<1>3. enable_write' \in BOOLEAN /\ err_s' \in BOOLEAN /\ ack_s' \in BOOLEAN
  BY DEF Uart!Clock, Uart!Registers
<1>4. tx_busy' \in BOOLEAN
  BY DEF UartTypes, Uart!Clock, Uart!Transmit, Uart!TxReset, Uart!TxStart, Uart!TxIdle,
         Uart!TxShift
<1>5. QED
  BY <1>2, <1>3, <1>4 DEF UartTypes

LEMMA ObserveTypes ==
  ASSUME TypeOK, NEW m \in {CPU, HPS}, NEW access \in Access, NEW paused \in BOOLEAN,
         mem_dat' \in Value, dat_os' \in Value
  PROVE  Observe(m, access, paused) \in Access
<1>1. /\ access.writes \in 0 .. MaxWrites /\ access.words \subseteq Value
      /\ access.err \in BOOLEAN
  BY DEF Access
<1> DEFINE writes == IF Strobed(m, paused) # {} /\ Driver(paused).we /\ access.writes < MaxWrites
                     THEN access.writes + 1 ELSE access.writes
           words  == access.words \cup {IF s = "mem" THEN mem_dat' ELSE dat_os' :
                                           s \in Strobed(m, paused)}
           err    == access.err \/ (Port(paused)[m].cyc /\ Err(m, paused))
<1>2. writes \in 0 .. MaxWrites
  BY <1>1 DEF MaxWrites
<1>3. words \subseteq Value
  BY <1>1
<1>4. err \in BOOLEAN
  BY <1>1
<1>5. Observe(m, access, paused) = [writes |-> writes, words |-> words, err |-> err]
  BY DEF Observe
<1> HIDE DEF writes, words, err
<1>6. QED
  BY <1>2, <1>3, <1>4, <1>5 DEF Access

-----------------------------------------------------------------------------
LEMMA NoAccessTypes == NoAccess \in Access
<1>1. 0 \in 0 .. MaxWrites
  BY DEF MaxWrites
<1>2. QED
  BY <1>1 DEF NoAccess, Access

LEMMA InitTypes == Init => TypeOK
<1> SUFFICES ASSUME Init PROVE TypeOK
  OBVIOUS
<1>1. Zero \in Value
  BY SystemAssumption DEF Cpu!CpuConstants
<1>2. ArbiterTypes
  BY DEF Init, Arb!Init, ArbiterTypes, CPU
<1>3. FrontEndTypes /\ CoreTypes /\ InterruptTypes
  BY <1>1 DEF Init, Cpu!Init, FrontEndTypes, CoreTypes, InterruptTypes
<1>4. HpsTypes
  BY DEF Init, Hps!Init, HpsTypes
<1>5. MemoryTypes
  <2>1. PICK p \in Program : Mem!Init(p)
    BY DEF Init
  <2>2. p \in [0 .. MemMap["mem"].size -> Value] /\ 0 \in 0 .. MemMap["mem"].size
    BY SystemAssumption DEF Bus!BusConstants, Slave
  <2>3. QED
    BY <2>1, <2>2 DEF Mem!Init, MemoryTypes
<1>6. UartTypes
  BY <1>1, SystemAssumption DEF Init, Uart!Init, UartTypes
<1>7. HistoryTypes
  BY NoAccessTypes DEF Init, HistoryTypes
<1>8. QED
  BY <1>2, <1>3, <1>4, <1>5, <1>6, <1>7, TypesOfParts

LEMMA TickTypes == TypeOK /\ Tick => TypeOK'
<1> SUFFICES ASSUME TypeOK, Tick PROVE TypeOK'
  OBVIOUS
<1>1. PICK paused \in Paused, irq \in Irq : Clock(paused, irq)
  BY DEF Tick
<1>2. paused \in BOOLEAN /\ irq \in BOOLEAN
  BY SystemAssumption DEF Paused, PauseSettles
<1>3. ASSUME NEW m PROVE /\ Ack(m, paused) \in BOOLEAN /\ Err(m, paused) \in BOOLEAN
                         /\ Stall(m, paused) \in BOOLEAN
  BY Zenon DEF Ack, Err, Stall
<1>4. /\ ArbiterTypes /\ FrontEndTypes /\ CoreTypes /\ InterruptTypes
      /\ HpsTypes /\ MemoryTypes /\ UartTypes /\ HistoryTypes
  BY TypesOfParts
<1>5. ArbiterTypes'
  <2>1. Request \subseteq {CPU, HPS}
    BY DEF Request
  <2>2. QED
    BY <1>1, <1>4, <2>1, ArbiterTypesStep DEF Clock
<1>6. FrontEndTypes'
  <2>1. (CPU \in grant_q) \in BOOLEAN /\ Dat(paused) \in Value
    BY DatTypes
  <2>2. Cpu!FrontEnd(CPU \in grant_q, Ack(CPU, paused), Err(CPU, paused), Stall(CPU, paused),
                     Dat(paused))
    BY <1>1 DEF Clock, Cpu!Clock
  <2>3. QED
    BY <1>3, <1>4, <2>1, <2>2, FrontEndTypesStep, Zenon
<1>7. CoreTypes' /\ InterruptTypes'
  BY <1>1, <1>2, CoreTypesStep, InterruptTypesStep DEF Clock, Cpu!Clock
<1>8. HpsTypes'
  <2>1. Hps!Clock(Ack(HPS, paused), Err(HPS, paused))
    BY <1>1 DEF Clock
  <2>2. QED
    BY <1>3, <1>4, <2>1, HpsTypesStep, Zenon
<1>9. /\ SlaveStb("mem", paused) \in BOOLEAN
      /\ SlaveAdr(paused) \in Nat /\ Driver(paused).dat \in Value
  <2>1. SlaveStb("mem", paused) \in BOOLEAN
    BY Zenon DEF SlaveStb, Bus!SlaveStb
  <2>2. QED
    BY <1>2, <2>1, DriverTypes
<1>10. MemoryTypes'
  BY <1>1, <1>4, <1>9, MemoryTypesStep DEF Clock
<1>11. UartTypes'
  BY <1>1, <1>4, <1>9, UartTypesStep DEF Clock
<1>12. HistoryTypes'
  <2>1. mem_dat' \in Value /\ dat_os' \in Value
    BY <1>10, <1>11 DEF MemoryTypes, UartTypes
  <2>2. NoAccess \in Access
    BY NoAccessTypes
  <2>3. Observe(CPU, cpu_access, paused) \in Access /\ Observe(HPS, hps_access, paused) \in Access
    BY <1>2, <1>4, <2>1, ObserveTypes DEF HistoryTypes
  <2>4. cpu_access' \in Access /\ hps_access' \in Access
    BY <1>1, <2>2, <2>3 DEF Clock
  <2>5. handling' \in BOOLEAN
    <3>1. handling' = IF paused THEN handling
                      ELSE intr_signal \/ (handling /\ Cpu!Op.op # "enable")
      BY <1>1 DEF Clock, Handling
    <3>2. handling \in BOOLEAN
      BY <1>4 DEF HistoryTypes
    <3>3. QED
      BY <3>1, <3>2, Zenon
  <2>6. QED
    BY <2>4, <2>5 DEF HistoryTypes, Access
<1>13. QED
  BY <1>5, <1>6, <1>7, <1>8, <1>10, <1>11, <1>12
  DEF TypeOK, ArbiterTypes, FrontEndTypes, CoreTypes, InterruptTypes, HpsTypes,
      MemoryTypes, UartTypes, HistoryTypes, Access

LEMMA ResetTypes == TypeOK /\ Reset => TypeOK'
<1> SUFFICES ASSUME TypeOK, Reset PROVE TypeOK'
  OBVIOUS
<1>1. /\ ArbiterTypes /\ FrontEndTypes /\ CoreTypes /\ InterruptTypes
      /\ HpsTypes /\ MemoryTypes /\ UartTypes /\ HistoryTypes
  BY TypesOfParts
<1>2. Zero \in Value
  BY SystemAssumption DEF Cpu!CpuConstants
<1>3. ArbiterTypes'
  BY <1>1 DEF Reset, Arb!Reset, ArbiterTypes
<1>4. FrontEndTypes' /\ CoreTypes' /\ InterruptTypes'
  BY <1>1, <1>2 DEF Reset, Cpu!Reset, FrontEndTypes, CoreTypes, InterruptTypes
<1>5. HpsTypes'
  BY <1>1 DEF Reset, Hps!Reset, HpsTypes
<1>6. MemoryTypes'
  <2>1. SlaveAdr(TRUE) \in Nat
    BY DriverTypes, Zenon
  <2>2. \A adr \in Nat : adr % (MemMap["mem"].size + 1) \in 0 .. MemMap["mem"].size
    BY SystemAssumption DEF Bus!BusConstants, Slave
  <2>3. SlaveAdr(TRUE) % (MemMap["mem"].size + 1) \in 0 .. MemMap["mem"].size
    BY <2>1, <2>2, Zenon
  <2>4. QED
    BY <1>1, <2>3 DEF Reset, Mem!Reset, MemoryTypes
<1>7. UartTypes'
  BY <1>2 DEF Reset, Uart!Reset, UartTypes
<1>8. HistoryTypes'
  BY NoAccessTypes DEF Reset, HistoryTypes, Access
<1>9. QED
  BY <1>3, <1>4, <1>5, <1>6, <1>7, <1>8
  DEF TypeOK, ArbiterTypes, FrontEndTypes, CoreTypes, InterruptTypes, HpsTypes,
      MemoryTypes, UartTypes, HistoryTypes, Access

(* Every register of the system keeps its type. *)
THEOREM TypeCorrect == Spec => []TypeOK
<1>1. TypeOK /\ UNCHANGED vars => TypeOK'
  BY DEF vars, Cpu!cpuVars, Hps!bridgeVars, Mem!memoryVars, Uart!uartVars, TypeOK
<1>2. TypeOK /\ [Next]_vars => TypeOK'
  BY <1>1, TickTypes, ResetTypes DEF Next
<1>3. QED
  BY <1>2, InitTypes, PTL DEF Spec

-----------------------------------------------------------------------------
(* Who drives the bus and who answers.                                     *)

Acked(s) == IF s = "mem" THEN mem_ack ELSE ack_s
Shown(s) == IF s = "mem" THEN mem_dat ELSE dat_os

LEMMA AnswerOfSlave ==
  ASSUME NEW s \in Slave
  PROVE  Answer[s].ack = Acked(s) /\ Answer[s].dat = Shown(s)
BY DEF Answer, Acked, Shown

(* The map has no overlap: an address selects one slave at most. *)
LEMMA OneSelected ==
  ASSUME NEW adr \in Nat, NEW s \in Bus!Cs(adr), NEW t \in Bus!Cs(adr)
  PROVE  s = t
<1>1. ASSUME NEW u \in Bus!Cs(adr)
      PROVE  /\ MemMap[u].base \in Nat /\ MemMap[u].size \in Nat
             /\ MemMap[u].base <= adr /\ adr <= MemMap[u].base + MemMap[u].size
  <2>1. PICK n \in Nat : n = MemMap[u].size
    BY SystemAssumption DEF Bus!BusConstants, Bus!Cs
  <2>2. PICK b \in Nat : b = MemMap[u].base
    BY SystemAssumption DEF Bus!BusConstants, Bus!Cs
  <2>3. b = adr - (adr % (n + 1))
    BY <2>1, <2>2 DEF Bus!Cs
  <2>4. adr % (n + 1) \in 0 .. n
    OBVIOUS
  <2>5. QED
    BY <2>1, <2>2, <2>3, <2>4
<1>2. s \in Slave /\ t \in Slave
  BY DEF Bus!Cs
<1>3. s # t => \/ MemMap[s].base + MemMap[s].size < MemMap[t].base
               \/ MemMap[t].base + MemMap[t].size < MemMap[s].base
  BY <1>2, SystemAssumption DEF Bus!BusConstants
<1>4. QED
  BY <1>1, <1>3

(* While the CPU is in a bus cycle it is paused. *)
LEMMA CycleHolds ==
  ASSUME cyc_os = TRUE, NEW paused \in Paused
  PROVE  paused = TRUE
BY DEF Paused, PauseSettles

(* The encoder names the master that is granted. *)
GrantNamed == \A m \in grant_q : m = grant_enc

LEMMA GrantNamedStep ==
  ASSUME GrantNamed, NEW R, R \subseteq {CPU, HPS}, NEW A, Arb!Clock(R, A)
  PROVE  GrantNamed'
<1>1. Arb!Grant(R) \in {{}, {CPU}, {HPS}}
  BY GrantOfTwo
<1>2. \A m \in Arb!Grant(R) : m = Arb!Encode(Arb!Grant(R))
  BY <1>1 DEF Arb!Encode
<1>3. QED
  BY <1>2 DEF GrantNamed, Arb!Clock, Arb!arbiterVars

LEMMA DriverIs ==
  ASSUME GrantNamed, NEW m \in grant_q, m \in {CPU, HPS}, NEW paused
  PROVE  /\ m = grant_enc
         /\ m = CPU => Driver(paused) = CpuPort(paused)
         /\ m = HPS => Driver(paused) = HpsPort
BY DEF GrantNamed, Driver, Port, CPU, HPS

(* A word the bus hands out with an acknowledge that is no error is the    *)
(* word of the one slave that is addressed.                                *)
LEMMA WordOfSlave ==
  ASSUME NEW adr \in Nat, Bus!MasterAck(adr, Answer), ~Bus!MasterErr(adr, Answer)
  PROVE  \E s \in Bus!Cs(adr) : s \in Slave /\ Acked(s) /\ Bus!MasterDat(adr, Answer) = Shown(s)
<1>1. PICK s \in Bus!Cs(adr) : Answer[s].ack
  BY DEF Bus!MasterAck
<1>2. s \in Slave
  BY DEF Bus!Cs
<1>3. (CHOOSE t \in Bus!Cs(adr) : TRUE) = s
  BY <1>1, OneSelected
<1>4. Bus!MasterDat(adr, Answer) = Answer[s].dat
  BY <1>1, <1>3 DEF Bus!MasterDat
<1>5. QED
  BY <1>1, <1>2, <1>4, AnswerOfSlave

(* A slave acknowledges what was strobed on the edge before. *)
LEMMA AckedWasStrobed ==
  ASSUME NEW s \in Slave, NEW paused, NEW irq, Clock(paused, irq), Acked(s)'
  PROVE  SlaveStb(s, paused)
BY DEF Slave, Clock, Mem!Clock, Uart!Clock, Uart!Registers, Acked

-----------------------------------------------------------------------------
(* Masters that use different slaves.                                      *)

(* The CPU addresses slaves of a set Mine, the HPS others.  Which slaves   *)
(* the CPU uses is up to its program, so this is a condition on what       *)
(* happens and not on the constants.                                       *)
Separate(Mine) ==
  /\ cyc_os => Bus!Cs(Cpu!AdrO(TRUE)) \subseteq Mine
  /\ Hps!Busy => Bus!Cs(avs.adr) \cap Mine = {}

(* The bridge has a cycle only while the HPS has a transfer. *)
CycleForTransfer == cycstb_s => Hps!Busy

Wires == TypeOK /\ AcceptedKeepsBus /\ GrantNamed /\ CycleForTransfer

LEMMA WiresStep ==
  ASSUME Wires, [Next]_vars
  PROVE  GrantNamed' /\ CycleForTransfer'
<1>1. CASE Tick
  <2>1. PICK paused \in Paused, irq \in Irq : Clock(paused, irq)
    BY <1>1 DEF Tick
  <2>2. Request \subseteq {CPU, HPS} /\ GrantNamed
    BY DEF Request, Wires
  <2>3. Arb!Clock(Request, {m \in {CPU, HPS} : Ack(m, paused)})
    BY <2>1 DEF Clock
  <2>4. GrantNamed'
    BY <2>2, <2>3, GrantNamedStep
  <2>5. CycleForTransfer'
    BY <2>1 DEF Wires, CycleForTransfer, Clock, Hps!Clock, Hps!Cycle, Hps!Done, Hps!Busy
  <2>6. QED
    BY <2>4, <2>5
<1>2. CASE Reset
  BY <1>2 DEF Reset, Arb!Reset, Hps!Reset, GrantNamed, CycleForTransfer
<1>3. CASE UNCHANGED vars
  BY <1>3 DEF vars, Hps!bridgeVars, Wires, GrantNamed, CycleForTransfer, Hps!Busy
<1>4. QED
  BY <1>1, <1>2, <1>3 DEF Next

LEMMA WiresInit == Init => GrantNamed /\ CycleForTransfer
BY DEF Init, Arb!Init, Hps!Init, GrantNamed, CycleForTransfer

LEMMA WiresHold == Spec => []Wires
<1>1. TypeOK /\ AcceptedKeepsBus /\ TypeOK' /\ AcceptedKeepsBus'
        /\ GrantNamed /\ CycleForTransfer /\ [Next]_vars => GrantNamed' /\ CycleForTransfer'
  BY WiresStep DEF Wires
<1>2. TypeOK /\ AcceptedKeepsBus /\ GrantNamed /\ CycleForTransfer => Wires
  BY DEF Wires
<1>3. QED
  BY <1>1, <1>2, WiresInit, TypeCorrect, BusIsKept, PTL DEF Spec

(* How a cycle of the CPU ends: with an answer, whose word it takes unless *)
(* the answer is an error.                                                 *)
LEMMA CycleEnds ==
  ASSUME Wires, NEW paused \in Paused, NEW irq \in Irq, Clock(paused, irq), ~cyc_os'
  PROVE  /\ cyc_os /\ paused = TRUE /\ CPU \in grant_q /\ Ack(CPU, paused)
         /\ Err(CPU, paused) \/ dat_is' = Dat(paused)
<1>1. Cpu!FrontEnd(CPU \in grant_q, Ack(CPU, paused), Err(CPU, paused),
                   Stall(CPU, paused), Dat(paused))
  BY DEF Clock, Cpu!Clock
<1>2. Err(CPU, paused) => Ack(CPU, paused)
  BY DEF Ack, Err, Bus!MasterAck
<1>3. cyc_os /\ Ack(CPU, paused) /\ (Err(CPU, paused) \/ dat_is' = Dat(paused))
  <2>1. CASE Cpu!BusError(Err(CPU, paused))
    BY <1>2, <2>1 DEF Cpu!BusError
  <2>2. CASE Cpu!BusStrobe(CPU \in grant_q, Ack(CPU, paused), Err(CPU, paused),
                           Stall(CPU, paused), Dat(paused))
    BY <2>2 DEF Cpu!BusStrobe, Wires, AcceptedKeepsBus
  <2>3. CASE Cpu!BusAwait(CPU \in grant_q, Ack(CPU, paused), Err(CPU, paused), Dat(paused))
    BY <2>3 DEF Cpu!BusAwait
  <2>4. CASE Cpu!BusStart(CPU \in grant_q, Err(CPU, paused))
    BY <2>4 DEF Cpu!BusStart
  <2>5. QED
    BY <1>1, <2>1, <2>2, <2>3, <2>4 DEF Cpu!FrontEnd
<1>4. cyc_os = TRUE
  BY <1>3 DEF Wires, TypeOK
<1>5. QED
  BY <1>3, <1>4, CycleHolds DEF Ack

(* A slave of the CPU that acknowledges shows a word of the CPU's access,  *)
(* and what the CPU took is one.                                           *)
CpuWords(Mine) ==
  /\ \A s \in Slave \cap Mine : Acked(s) => Shown(s) \in cpu_access.words
  /\ ~cyc_os /\ ~core_reset /\ ~cpu_access.err => dat_is \in cpu_access.words

LEMMA CpuStrobesOwn ==
  ASSUME NEW CONSTANT Mine, Wires, Separate(Mine), NEW s \in Slave \cap Mine,
         NEW paused \in Paused, SlaveStb(s, paused)
  PROVE  paused = TRUE /\ cyc_os /\ s \in Strobed(CPU, paused)
<1>1. s \in Bus!Cs(Driver(paused).adr) /\ Driver(paused).stb /\ grant_enc \in grant_q
  BY DEF SlaveStb, Bus!SlaveStb
<1>2. grant_q \subseteq {CPU, HPS} /\ cyc_os \in BOOLEAN /\ stb_os \in BOOLEAN
  BY DEF Wires, TypeOK
<1>3. ASSUME grant_enc = HPS PROVE FALSE
  <2>1. Driver(paused) = HpsPort
    BY <1>1, <1>2, <1>3, DriverIs DEF Wires
  <2>2. cycstb_s /\ s \in Bus!Cs(avs.adr)
    BY <1>1, <2>1 DEF HpsPort
  <2>3. QED
    BY <2>2 DEF Separate, Wires, CycleForTransfer
<1>4. grant_enc = CPU
  BY <1>1, <1>2, <1>3
<1>5. Driver(paused) = CpuPort(paused)
  BY <1>1, <1>2, <1>4, DriverIs DEF Wires
<1>6. cyc_os = TRUE
  BY <1>1, <1>2, <1>5 DEF CpuPort, Wires, AcceptedKeepsBus
<1>7. paused = TRUE
  BY <1>6, CycleHolds
<1>8. QED
  BY <1>4, <1>6, <1>7 DEF Strobed

LEMMA CpuTakesOwn ==
  ASSUME NEW CONSTANT Mine, Wires, Separate(Mine), CpuWords(Mine), cyc_os,
         Ack(CPU, TRUE), ~Err(CPU, TRUE)
  PROVE  Dat(TRUE) \in cpu_access.words
<1>1. CPU \in grant_q
  BY DEF Ack
<1>2. ASSUME NEW paused PROVE Driver(paused).adr = Cpu!AdrO(paused)
  BY <1>1, DriverIs DEF Wires, CpuPort
<1>3. Driver(TRUE).adr = Cpu!AdrO(TRUE)
  BY <1>2, Zenon
<1>4. Cpu!AdrO(TRUE) \in Nat
  BY PcTypes DEF Wires
<1>5. Bus!MasterAck(Cpu!AdrO(TRUE), Answer) /\ ~Bus!MasterErr(Cpu!AdrO(TRUE), Answer)
  BY <1>1, <1>3 DEF Ack, Err
<1>6. PICK s \in Bus!Cs(Cpu!AdrO(TRUE)) :
        s \in Slave /\ Acked(s) /\ Bus!MasterDat(Cpu!AdrO(TRUE), Answer) = Shown(s)
  BY <1>4, <1>5, WordOfSlave
<1>7. s \in Mine
  BY DEF Separate
<1>8. QED
  BY <1>3, <1>6, <1>7 DEF CpuWords, Dat

LEMMA CpuWordsStep ==
  ASSUME NEW CONSTANT Mine, Wires, Separate(Mine), CpuWords(Mine), [Next]_vars
  PROVE  CpuWords(Mine)'
<1>1. CASE Tick
  <2>1. PICK paused \in Paused, irq \in Irq : Clock(paused, irq)
    BY <1>1 DEF Tick
  <2>2. ASSUME NEW s \in Slave \cap Mine, Acked(s)' PROVE Shown(s)' \in cpu_access'.words
    <3>1. SlaveStb(s, paused)
      BY <2>1, <2>2, AckedWasStrobed
    <3>2. paused = TRUE /\ s \in Strobed(CPU, paused)
      BY <3>1, CpuStrobesOwn
    <3>3. cpu_access' = Observe(CPU, cpu_access, paused)
      BY <2>1, <3>2 DEF Clock
    <3>4. QED
      BY <3>2, <3>3 DEF Observe, Shown
  <2>3. ASSUME ~cyc_os', ~core_reset', ~cpu_access'.err PROVE dat_is' \in cpu_access'.words
    <3>1. /\ cyc_os /\ paused = TRUE /\ Ack(CPU, paused)
          /\ Err(CPU, paused) \/ dat_is' = Dat(paused)
      BY <2>1, <2>3, CycleEnds
    <3>2. cpu_access' = Observe(CPU, cpu_access, TRUE)
      BY <2>1, <3>1 DEF Clock
    <3>3. ~Err(CPU, TRUE)
      BY <2>3, <3>1, <3>2 DEF Observe, Port, CpuPort
    <3>4. Dat(TRUE) \in cpu_access.words
      BY <3>1, <3>3, CpuTakesOwn
    <3>5. cpu_access.words \subseteq cpu_access'.words
      BY <3>2 DEF Observe
    <3>6. QED
      BY <3>1, <3>3, <3>4, <3>5
  <2>4. QED
    BY <2>2, <2>3 DEF CpuWords
<1>2. CASE Reset
  BY <1>2 DEF Reset, Cpu!Reset, Mem!Reset, Uart!Reset, CpuWords, Acked
<1>3. CASE UNCHANGED vars
  BY <1>3 DEF vars, Cpu!cpuVars, Mem!memoryVars, Uart!uartVars, CpuWords, Acked, Shown
<1>4. QED
  BY <1>1, <1>2, <1>3 DEF Next

(* As long as the masters use different slaves, what the CPU takes from    *)
(* the bus is what the slave it addressed returned for that address: the   *)
(* late acknowledge of the other master's strobe, which shared_bus.vhd     *)
(* passes on to whoever is granted, is then never taken for its own.       *)
THEOREM CpuGetsItsOwn ==
  ASSUME NEW CONSTANT Mine
  PROVE  Spec /\ []Separate(Mine) => []CpuGetsWhatItAddressed
<1>1. Init => CpuWords(Mine)
  BY DEF Init, Cpu!Init, Mem!Init, Uart!Init, CpuWords, Acked
<1>2. Wires /\ Separate(Mine) /\ CpuWords(Mine) /\ [Next]_vars => CpuWords(Mine)'
  BY CpuWordsStep
<1>3. Wires /\ CpuWords(Mine) => CpuGetsWhatItAddressed
  <2> SUFFICES ASSUME Wires, CpuWords(Mine), CpuProceeds PROVE dat_is \in cpu_access.words
    BY DEF CpuGetsWhatItAddressed
  <2>1. cyc_os # TRUE
    BY CycleHolds DEF CpuProceeds
  <2>2. ~cyc_os
    BY <2>1 DEF Wires, TypeOK
  <2>3. QED
    BY <2>2 DEF CpuWords, CpuProceeds
<1>4. QED
  BY <1>1, <1>2, <1>3, WiresHold, PTL DEF Spec

(* A slave of the HPS that acknowledges during its cycle shows a word of   *)
(* its transfer; between two cycles an acknowledge may be a late one.      *)
HpsWords(Mine) ==
  cycstb_s => \A s \in Slave \ Mine : Acked(s) => Shown(s) \in hps_access.words

LEMMA HpsStrobesOwn ==
  ASSUME NEW CONSTANT Mine, Wires, Separate(Mine), NEW s \in Slave \ Mine,
         NEW paused \in Paused, SlaveStb(s, paused)
  PROVE  cycstb_s /\ s \in Strobed(HPS, paused)
<1>1. s \in Bus!Cs(Driver(paused).adr) /\ Driver(paused).stb /\ grant_enc \in grant_q
  BY DEF SlaveStb, Bus!SlaveStb
<1>2. grant_q \subseteq {CPU, HPS} /\ cyc_os \in BOOLEAN /\ stb_os \in BOOLEAN
  BY DEF Wires, TypeOK
<1>3. ASSUME grant_enc = CPU PROVE FALSE
  <2>1. Driver(paused) = CpuPort(paused)
    BY <1>1, <1>2, <1>3, DriverIs DEF Wires
  <2>2. s \in Bus!Cs(Cpu!AdrO(paused)) /\ stb_os
    BY <1>1, <2>1 DEF CpuPort
  <2>3. cyc_os = TRUE
    BY <1>2, <2>2 DEF Wires, AcceptedKeepsBus
  <2>4. paused = TRUE
    BY <2>3, CycleHolds
  <2>5. s \in Mine
    BY <2>2, <2>3, <2>4 DEF Separate
  <2>6. QED
    BY <2>5
<1>4. grant_enc = HPS
  BY <1>1, <1>2, <1>3
<1>5. Driver(paused) = HpsPort
  BY <1>1, <1>2, <1>4, DriverIs DEF Wires
<1>6. cycstb_s
  BY <1>1, <1>5 DEF HpsPort
<1>7. QED
  BY <1>4, <1>6 DEF Strobed

LEMMA HpsWordsStep ==
  ASSUME NEW CONSTANT Mine, Wires, Separate(Mine), HpsWords(Mine), [Next]_vars
  PROVE  HpsWords(Mine)'
<1>1. CASE Tick
  <2>1. PICK paused \in Paused, irq \in Irq : Clock(paused, irq)
    BY <1>1 DEF Tick
  <2>2. SUFFICES ASSUME cycstb_s', NEW s \in Slave \ Mine, Acked(s)'
                 PROVE  Shown(s)' \in hps_access'.words
    BY DEF HpsWords
  <2>3. cycstb_s /\ s \in Strobed(HPS, paused)
    BY <2>1, <2>2, AckedWasStrobed, HpsStrobesOwn
  <2>4. Hps!Busy /\ ~Hps!Done(Ack(HPS, paused), Err(HPS, paused))
    BY <2>1, <2>2, <2>3
    DEF Wires, CycleForTransfer, Clock, Hps!Clock, Hps!Cycle, Hps!Done
  <2>5. hps_access' = Observe(HPS, hps_access, paused)
    BY <2>1, <2>4 DEF Clock
  <2>6. QED
    BY <2>3, <2>5 DEF Observe, Shown
<1>2. CASE Reset
  BY <1>2 DEF Reset, Hps!Reset, HpsWords
<1>3. CASE UNCHANGED vars
  BY <1>3 DEF vars, Hps!bridgeVars, Mem!memoryVars, Uart!uartVars, HpsWords, Acked, Shown
<1>4. QED
  BY <1>1, <1>2, <1>3 DEF Next

(* The same for the HPS: a read that ends without an error returns what    *)
(* the addressed slave showed for it.                                      *)
THEOREM HpsGetsItsOwn ==
  ASSUME NEW CONSTANT Mine
  PROVE  Spec /\ []Separate(Mine) => []HpsGetsWhatItAddressed
<1>1. Init => HpsWords(Mine)
  BY DEF Init, Hps!Init, HpsWords
<1>2. Wires /\ Separate(Mine) /\ HpsWords(Mine) /\ [Next]_vars => HpsWords(Mine)'
  BY HpsWordsStep
<1>3. Wires /\ Separate(Mine) /\ HpsWords(Mine) => HpsGetsWhatItAddressed
  <2> SUFFICES ASSUME Wires, Separate(Mine), HpsWords(Mine), HpsDone
               PROVE  Dat(TRUE) \in hps_access.words
    BY DEF HpsGetsWhatItAddressed
  <2>1. cycstb_s /\ Ack(HPS, TRUE) /\ ~Err(HPS, TRUE)
    BY DEF HpsDone, Hps!Done
  <2>2. HPS \in grant_q
    BY <2>1 DEF Ack
  <2>3. ASSUME NEW paused PROVE Driver(paused).adr = avs.adr
    BY <2>2, DriverIs DEF Wires, HpsPort
  <2>4. Driver(TRUE).adr = avs.adr
    BY <2>3, Zenon
  <2>5. Bus!MasterAck(avs.adr, Answer) /\ ~Bus!MasterErr(avs.adr, Answer)
    BY <2>1, <2>2, <2>4 DEF Ack, Err
  <2>6. avs.adr \in Nat
    BY SystemAssumption DEF Wires, TypeOK
  <2>7. PICK s \in Bus!Cs(avs.adr) :
          s \in Slave /\ Acked(s) /\ Bus!MasterDat(avs.adr, Answer) = Shown(s)
    BY <2>5, <2>6, WordOfSlave
  <2>8. s \notin Mine
    BY <2>1 DEF Wires, CycleForTransfer, Separate
  <2>9. QED
    BY <2>1, <2>4, <2>7, <2>8 DEF HpsWords, Dat
<1>4. QED
  BY <1>1, <1>2, <1>3, WiresHold, PTL DEF Spec

(* What the constants may say of it: the CPU can fetch only from slaves of *)
(* Mine, its loads and stores are to them, and the HPS uses none of them.  *)
FetchesOnly(Mine) ==
  /\ \A adr \in (0 .. PcSize - 1) \cup {Vector} : Bus!Cs(adr) \subseteq Mine
  /\ \A v \in Value : Decode[v].op = "jump" => Bus!Cs(Decode[v].adr) \subseteq Mine

UsesOnly(Mine) ==
  /\ FetchesOnly(Mine)
  /\ \A v \in Value : Decode[v].op \in {"load", "store"} => Bus!Cs(Decode[v].adr) \subseteq Mine
  /\ \A t \in Transfer : t.op # "idle" => Bus!Cs(t.adr) \cap Mine = {}

LEMMA PcStaysOwn ==
  ASSUME NEW CONSTANT Mine, FetchesOnly(Mine), TypeOK, Bus!Cs(pc_reg) \subseteq Mine, [Next]_vars
  PROVE  (Bus!Cs(pc_reg) \subseteq Mine)'
<1>1. /\ PcSize \in Nat \ {0} /\ opcode_reg \in Value /\ epc \in Nat /\ pc_reg \in Nat
      /\ 0 \in 0 .. PcSize - 1
  BY SystemAssumption DEF TypeOK, Cpu!CpuConstants
<1>2. (epc - 1) % PcSize \in 0 .. PcSize - 1 /\ (pc_reg + 1) % PcSize \in 0 .. PcSize - 1
  BY <1>1
<1>3. ASSUME Cpu!Op.op \in Cpu!Jumps PROVE Bus!Cs(Cpu!Op.adr) \subseteq Mine
  <2>1. CASE intr_signal
    BY <2>1 DEF Cpu!Op, Cpu!Interrupt, FetchesOnly
  <2>2. CASE ~intr_signal /\ Decode[opcode_reg].op = "return"
    <3>1. Decode[opcode_reg] \in [op : {"alu", "mult", "jump", "load", "store", "enable", "return"},
                                  adr : Nat, dat : Value]
      BY <1>1, SystemAssumption
    <3>2. Cpu!Op.adr = (epc - 1) % PcSize
      BY <2>2, <3>1 DEF Cpu!Op
    <3>3. QED
      BY <1>2, <3>2 DEF FetchesOnly
  <2>3. CASE ~intr_signal /\ Decode[opcode_reg].op # "return"
    <3>1. Cpu!Op = Decode[opcode_reg]
      BY <2>3 DEF Cpu!Op
    <3>2. Decode[opcode_reg].op \in {"alu", "mult", "jump", "load", "store", "enable", "return"}
      BY <1>1, SystemAssumption DEF Cpu!CpuConstants
    <3>3. Decode[opcode_reg].op = "jump"
      BY <1>3, <2>3, <3>1, <3>2 DEF Cpu!Jumps
    <3>4. QED
      BY <1>1, <3>1, <3>3 DEF FetchesOnly
  <2>4. QED
    BY <2>1, <2>2, <2>3
<1>4. ASSUME NEW paused PROVE Bus!Cs(Cpu!PcFuture(paused)) \subseteq Mine
  BY <1>2, <1>3 DEF Cpu!PcFuture, FetchesOnly
<1>5. CASE Tick
  <2>1. PICK paused \in Paused, irq \in Irq : Clock(paused, irq)
    BY <1>5 DEF Tick
  <2>2. Cpu!Core(paused)
    BY <2>1 DEF Clock, Cpu!Clock
  <2>3. pc_reg' = pc_reg \/ pc_reg' = Cpu!PcFuture(paused)
    BY <2>2 DEF Cpu!Core, Cpu!CoreInReset, Cpu!CorePaused, Cpu!CoreFetch, Cpu!CoreAddress,
                Cpu!CoreAccess
  <2>4. QED
    BY <1>4, <2>3 DEF Bus!Cs
<1>6. CASE Reset
  <2>1. pc_reg' = 0
    BY <1>6 DEF Reset, Cpu!Reset
  <2>2. QED
    BY <1>1, <2>1 DEF FetchesOnly, Bus!Cs
<1>7. CASE UNCHANGED vars
  BY <1>7 DEF vars, Cpu!cpuVars, Bus!Cs
<1>8. QED
  BY <1>5, <1>6, <1>7 DEF Next

LEMMA OwnAddress ==
  ASSUME NEW CONSTANT Mine, UsesOnly(Mine), TypeOK, Bus!Cs(pc_reg) \subseteq Mine
  PROVE  Separate(Mine)
<1>1. ASSUME NEW paused, Cpu!DataAccess(paused) PROVE Bus!Cs(Cpu!Op.adr) \subseteq Mine
  <2>1. Cpu!Op.op \in {"load", "store"}
    BY <1>1 DEF Cpu!DataAccess, Cpu!MemFetch
  <2>2. ~intr_signal
    BY <2>1 DEF Cpu!Op, Cpu!Interrupt
  <2>3. opcode_reg \in Value
    BY DEF TypeOK
  <2>4. Decode[opcode_reg].op # "return"
    <3> SUFFICES ASSUME Decode[opcode_reg].op = "return" PROVE FALSE
      OBVIOUS
    <3>1. Cpu!Op = [Decode[opcode_reg] EXCEPT !.adr = (epc - 1) % PcSize]
      BY <2>2 DEF Cpu!Op
    <3>2. Decode[opcode_reg] \in [op : {"alu", "mult", "jump", "load", "store", "enable", "return"},
                                  adr : Nat, dat : Value]
      BY <2>3, SystemAssumption
    <3>3. Cpu!Op.op = "return"
      BY <3>1, <3>2
    <3>4. QED
      BY <2>1, <3>3
  <2>5. Cpu!Op = Decode[opcode_reg]
    BY <2>2, <2>4 DEF Cpu!Op
  <2>6. QED
    BY <2>1, <2>3, <2>5 DEF UsesOnly
<1>2. ASSUME NEW paused, paused = TRUE PROVE Bus!Cs(Cpu!AdrO(paused)) \subseteq Mine
  BY <1>1, <1>2 DEF Cpu!AdrO, Cpu!PcFuture
<1>3. Bus!Cs(Cpu!AdrO(TRUE)) \subseteq Mine
  BY <1>2, Zenon
<1>4. Hps!Busy => Bus!Cs(avs.adr) \cap Mine = {}
  BY DEF TypeOK, UsesOnly, Hps!Busy
<1>5. QED
  BY <1>3, <1>4 DEF Separate

(* Masters whose addresses, by the constants, are those of different       *)
(* slaves: both get the words they ask for.                                *)
THEOREM SeparateMasters ==
  ASSUME NEW CONSTANT Mine, UsesOnly(Mine)
  PROVE  Spec => [](CpuGetsWhatItAddressed /\ HpsGetsWhatItAddressed)
<1> DEFINE Own == Bus!Cs(pc_reg) \subseteq Mine
<1>1. Init => Own
  <2>1. 0 \in 0 .. PcSize - 1
    BY SystemAssumption DEF Cpu!CpuConstants
  <2>2. QED
    BY <2>1 DEF Init, Cpu!Init, UsesOnly, FetchesOnly
<1>2. TypeOK /\ Own /\ [Next]_vars => Own'
  BY PcStaysOwn DEF UsesOnly
<1>3. TypeOK /\ Own => Separate(Mine)
  BY OwnAddress
<1> HIDE DEF Own
<1>4. QED
  BY <1>1, <1>2, <1>3, TypeCorrect, CpuGetsItsOwn, HpsGetsItsOwn, PTL DEF Spec

-----------------------------------------------------------------------------
(* The CPU alone on the bus.                                               *)

(* The HPS is silent, and no opcode is fetched from the slave that stalls: *)
(* the late acknowledge such a fetch leaves behind would give the bus away *)
(* in the one cycle in which a store has its write enable up.              *)
Alone == ~Hps!Busy /\ "uart" \notin Bus!Cs(pc_reg)

LEMMA LsbOfOne ==
  ASSUME NEW S, S \subseteq {CPU}
  PROVE  Arb!Lsb(S) = S
<1>1. S = {} \/ S = {CPU}
  OBVIOUS
<1>2. QED
  BY <1>1 DEF Arb!Lsb, CPU

LEMMA GrantOfOne ==
  ASSUME NEW R, R \subseteq {CPU}
  PROVE  Arb!Grant(R) = R
<1>1. Arb!Mask(R) \subseteq R
  BY DEF Arb!Mask
<1>2. CASE Arb!Mask(R) = {}
  BY <1>2, LsbOfOne DEF Arb!Grant
<1>3. CASE Arb!Mask(R) # {}
  <2>1. Arb!Mask(R) = R
    BY <1>1, <1>3
  <2>2. QED
    BY <1>3, <2>1, LsbOfOne DEF Arb!Grant
<1>4. QED
  BY <1>2, <1>3

(* The CPU has the bus for as long as its core runs; its strobe of the     *)
(* memory is over when the acknowledge is there; and no acknowledge is     *)
(* left over when a data access may begin.                                 *)
OnlyCpu == ~cycstb_s /\ HPS \notin grant_q

HasBus == ~cyc_os /\ ~core_reset => CPU \in grant_q

MemoryAnswersOnce == mem_ack => cyc_os /\ ~stb_os

NothingLeft == ~cyc_os /\ mem_state_reg = "ADDR" => ~ack_s /\ ~err_s

ResetInAddress == core_reset => mem_state_reg = "ADDR"

(* A store in its access: it has reached a slave, or does so in this first *)
(* cycle, or addresses nobody, which ends in an error.                     *)
Storing == Cpu!Op.op = "store" /\ mem_state_reg = "ACCESS"

StoreOnItsWay ==
  Storing => \/ cpu_access.writes > 0
             \/ we_o /\ cyc_os /\ stb_os /\ CPU \in grant_q
             \/ Bus!Cs(Cpu!Op.adr) = {} /\ (~cyc_os => cpu_access.err)

AloneInv == /\ OnlyCpu /\ HasBus /\ MemoryAnswersOnce /\ NothingLeft /\ ResetInAddress
            /\ StoreOnItsWay

LEMMA AloneInit == Init => AloneInv
BY DEF Init, Arb!Init, Cpu!Init, Hps!Init, Mem!Init, Uart!Init, AloneInv, OnlyCpu, HasBus,
       MemoryAnswersOnce, NothingLeft, ResetInAddress, StoreOnItsWay, Storing

LEMMA AloneReset == AloneInv /\ Reset => AloneInv'
BY DEF Reset, Arb!Reset, Cpu!Reset, Hps!Reset, Mem!Reset, Uart!Reset, AloneInv, OnlyCpu, HasBus,
       MemoryAnswersOnce, NothingLeft, ResetInAddress, StoreOnItsWay, Storing

LEMMA AloneStutters == AloneInv /\ UNCHANGED vars => AloneInv'
<1> SUFFICES ASSUME AloneInv, UNCHANGED vars PROVE AloneInv'
  OBVIOUS
<1>1. Cpu!Op' = Cpu!Op /\ Bus!Cs(Cpu!Op.adr)' = Bus!Cs(Cpu!Op.adr)
  BY DEF vars, Cpu!cpuVars, Cpu!Op, Bus!Cs
<1>2. QED
  BY <1>1
  DEF vars, Cpu!cpuVars, Hps!bridgeVars, Mem!memoryVars, Uart!uartVars, AloneInv, OnlyCpu, HasBus,
      MemoryAnswersOnce, NothingLeft, ResetInAddress, StoreOnItsWay, Storing

-----------------------------------------------------------------------------
(* One edge of the CPU alone.                                              *)

LEMMA AloneArbiter ==
  ASSUME Wires, Alone, OnlyCpu, NEW paused \in Paused, NEW irq \in Irq, Clock(paused, irq)
  PROVE  /\ OnlyCpu'
         /\ cyc_os /\ Ack(CPU, paused) => CPU \in grant_q'
         /\ ~Ack(CPU, paused) /\ CPU \in grant_q => CPU \in grant_q'
<1>1. Request \subseteq {CPU} /\ (cyc_os => Request = {CPU})
  BY DEF Request, Port, CpuPort, HpsPort, OnlyCpu, CPU, HPS
<1>2. Arb!Grant(Request) = Request
  BY <1>1, GrantOfOne
<1> DEFINE Acks == {m \in {CPU, HPS} : Ack(m, paused)}
<1>3. Acks \subseteq {CPU} /\ (Ack(CPU, paused) <=> CPU \in Acks)
  BY DEF Ack, OnlyCpu
<1>4. Arb!Clock(Request, Acks)
  BY DEF Clock
<1>5. ~cycstb_s'
  BY DEF Clock, Hps!Clock, Hps!Cycle, OnlyCpu, Alone
<1> HIDE DEF Acks
<1>6. HPS \notin grant_q'
  BY <1>1, <1>2, <1>4 DEF Arb!Clock, Arb!arbiterVars, OnlyCpu, CPU, HPS
<1>7. cyc_os /\ Ack(CPU, paused) => CPU \in grant_q'
  BY <1>1, <1>2, <1>3, <1>4 DEF Arb!Clock, Arb!Free
<1>8. ~Ack(CPU, paused) /\ CPU \in grant_q => CPU \in grant_q'
  BY <1>3, <1>4 DEF Arb!Clock, Arb!Free, Arb!arbiterVars
<1>9. QED
  BY <1>5, <1>6, <1>7, <1>8 DEF OnlyCpu

(* A strobe any slave sees is the CPU's, in a cycle that holds it.         *)
LEMMA AloneStrobe ==
  ASSUME Wires, OnlyCpu, NEW s \in Slave, NEW paused \in Paused, SlaveStb(s, paused)
  PROVE  /\ paused = TRUE /\ cyc_os /\ stb_os /\ CPU \in grant_q /\ grant_enc = CPU
         /\ s \in Bus!Cs(Cpu!AdrO(paused))
<1>1. s \in Bus!Cs(Driver(paused).adr) /\ Driver(paused).stb /\ grant_enc \in grant_q
  BY DEF SlaveStb, Bus!SlaveStb
<1>2. grant_enc = CPU
  BY <1>1 DEF OnlyCpu, Wires, TypeOK
<1>3. Driver(paused) = CpuPort(paused)
  BY <1>1, <1>2, DriverIs DEF Wires
<1>4. s \in Bus!Cs(Cpu!AdrO(paused)) /\ stb_os
  BY <1>1, <1>3 DEF CpuPort
<1>5. cyc_os = TRUE
  BY <1>4 DEF Wires, AcceptedKeepsBus, TypeOK
<1>6. QED
  BY <1>1, <1>2, <1>4, <1>5, CycleHolds

LEMMA HasBusStep ==
  ASSUME Wires, Alone, AloneInv, NEW paused \in Paused, NEW irq \in Irq, Clock(paused, irq)
  PROVE  OnlyCpu' /\ HasBus'
BY AloneArbiter, CycleEnds DEF AloneInv, HasBus

LEMMA MemoryAnswersOnceStep ==
  ASSUME Wires, Alone, AloneInv, NEW paused \in Paused, NEW irq \in Irq, Clock(paused, irq)
  PROVE  MemoryAnswersOnce'
<1> SUFFICES ASSUME mem_ack' PROVE cyc_os' /\ ~stb_os'
  BY DEF MemoryAnswersOnce
<1>1. SlaveStb("mem", paused)
  BY DEF Clock, Mem!Clock
<1>2. /\ cyc_os /\ stb_os /\ CPU \in grant_q
      /\ "mem" \in Bus!Cs(Cpu!AdrO(paused))
  BY <1>1, AloneStrobe DEF AloneInv, Slave
<1>3. ~mem_ack
  BY <1>2 DEF AloneInv, MemoryAnswersOnce
<1>4. PICK adr \in Nat : adr = Cpu!AdrO(paused)
  BY PcTypes DEF Wires, Paused, PauseSettles
<1>5. \A s \in Bus!Cs(adr) : s = "mem"
  BY <1>2, <1>4, OneSelected
<1>6. Driver(paused).adr = adr
  BY <1>2, <1>4, DriverIs DEF Wires, CpuPort
<1>7. ~Bus!MasterErr(adr, Answer) /\ ~Bus!MasterAck(adr, Answer) /\ ~Bus!MasterStall(adr, Answer)
  BY <1>2, <1>3, <1>4, <1>5
  DEF Bus!MasterErr, Bus!MasterAck, Bus!MasterStall, Answer, Slave
<1>8. ~Err(CPU, paused) /\ ~Ack(CPU, paused) /\ ~Stall(CPU, paused)
  BY <1>6, <1>7 DEF Err, Ack, Stall
<1>9. Cpu!FrontEnd(CPU \in grant_q, Ack(CPU, paused), Err(CPU, paused),
                   Stall(CPU, paused), Dat(paused))
  BY DEF Clock, Cpu!Clock
<1>10. Cpu!BusStrobe(CPU \in grant_q, Ack(CPU, paused), Err(CPU, paused),
                     Stall(CPU, paused), Dat(paused))
  BY <1>2, <1>8, <1>9 DEF Cpu!FrontEnd, Cpu!BusError, Cpu!BusAwait, Cpu!BusStart
<1>11. QED
  BY <1>2, <1>8, <1>10 DEF Cpu!BusStrobe

LEMMA NothingLeftStep ==
  ASSUME Wires, Alone, AloneInv, NEW paused \in Paused, NEW irq \in Irq, Clock(paused, irq)
  PROVE  NothingLeft' /\ ResetInAddress'
<1>1. Cpu!Core(paused)
  BY DEF Clock, Cpu!Clock
<1>2. ResetInAddress'
  BY <1>1
  DEF AloneInv, ResetInAddress, Cpu!Core, Cpu!CoreInReset, Cpu!CorePaused, Cpu!CoreFetch,
      Cpu!CoreAddress, Cpu!CoreAccess
<1>3. ASSUME ~cyc_os', mem_state_reg' = "ADDR" PROVE ~ack_s' /\ ~err_s'
  <2>1. paused = TRUE
    BY <1>3, CycleEnds
  <2>2. mem_state_reg = "ADDR"
    BY <1>1, <1>3, <2>1
    DEF Cpu!Core, Cpu!CoreInReset, Cpu!CorePaused, Cpu!CoreFetch, Cpu!CoreAddress, Cpu!CoreAccess
  <2>3. Cpu!AdrO(paused) = pc_reg
    BY <2>1, <2>2 DEF Cpu!AdrO, Cpu!DataAccess, Cpu!PcFuture
  <2>4. ~SlaveStb("uart", paused)
    BY <2>3, AloneStrobe DEF AloneInv, Slave, Alone
  <2>5. QED
    BY <2>4 DEF Clock, Uart!Clock, Uart!Registers
<1>4. QED
  BY <1>2, <1>3 DEF NothingLeft

(* A data access goes on, or it has just begun: either way the opcode is   *)
(* what it was.                                                            *)
LEMMA AccessSince ==
  ASSUME ResetInAddress, NEW paused \in Paused, NEW irq \in Irq, Clock(paused, irq),
         mem_state_reg' = "ACCESS"
  PROVE  /\ Cpu!Op' = Cpu!Op /\ ~core_reset /\ pc_reg' = pc_reg
         /\ \/ /\ paused = TRUE /\ mem_state_reg = "ACCESS"
               /\ next_opcode_reg' = next_opcode_reg
            \/ /\ paused = FALSE /\ ~Cpu!MemFetch /\ mem_state_reg = "ADDR"
               /\ next_opcode_reg' = dat_is
<1>1. /\ paused \in BOOLEAN /\ Cpu!Core(paused) /\ Cpu!Sample(paused, irq)
      /\ Cpu!StatusBits(paused)
  BY DEF Clock, Cpu!Clock, Paused, PauseSettles
<1>2. CASE Cpu!CorePaused(paused)
  <2>1. /\ paused = TRUE /\ mem_state_reg = "ACCESS" /\ opcode_reg' = opcode_reg
        /\ ~core_reset /\ next_opcode_reg' = next_opcode_reg /\ pc_reg' = pc_reg
    BY <1>1, <1>2 DEF Cpu!CorePaused
  <2>2. intr_signal' = intr_signal /\ epc' = epc
    BY <1>1, <2>1 DEF Cpu!Sample, Cpu!StatusBits
  <2>3. Cpu!Op' = Cpu!Op
    BY <2>1, <2>2 DEF Cpu!Op
  <2>4. QED
    BY <2>1, <2>3
<1>3. CASE Cpu!CoreAddress(paused)
  <2>1. /\ paused = FALSE /\ ~core_reset /\ mem_state_reg = "ADDR" /\ ~Cpu!MemFetch
        /\ opcode_reg' = opcode_reg /\ next_opcode_reg' = dat_is /\ pc_reg' = pc_reg
    BY <1>1, <1>3 DEF Cpu!CoreAddress
  <2>2. ~intr_signal
    BY <2>1 DEF Cpu!MemFetch, Cpu!Op, Cpu!Interrupt
  <2>3. intr_signal' = intr_signal /\ epc' = epc
    BY <1>1, <2>1, <2>2 DEF Cpu!Sample, Cpu!StatusBits, Cpu!PauseCtrl
  <2>4. Cpu!Op' = Cpu!Op
    BY <2>1, <2>3 DEF Cpu!Op
  <2>5. QED
    BY <2>1, <2>4
<1>4. QED
  BY <1>1, <1>2, <1>3
  DEF ResetInAddress, Cpu!Core, Cpu!CoreInReset, Cpu!CoreFetch, Cpu!CoreAccess

(* The first cycle of a store: the bus is still the CPU's, unless nobody   *)
(* is addressed.                                                           *)
LEMMA StoreStarts ==
  ASSUME Wires, Alone, AloneInv, NEW paused \in Paused, NEW irq \in Irq, Clock(paused, irq),
         paused = FALSE, ~core_reset, Cpu!Op.op = "store", mem_state_reg = "ADDR"
  PROVE  /\ we_o' /\ cyc_os' /\ stb_os'
         /\ Bus!Cs(Cpu!Op.adr) # {} => CPU \in grant_q'
<1>1. ~cyc_os
  BY CycleHolds DEF Wires, TypeOK
<1>2. Cpu!AdrO(paused) = Cpu!Op.adr /\ Cpu!ByteWe(paused)
  BY DEF Cpu!AdrO, Cpu!DataAccess, Cpu!MemFetch, Cpu!ByteWe, Cpu!PauseCtrl
<1>3. cyc_os' /\ stb_os' /\ we_o'
  BY <1>1, <1>2
  DEF Wires, AcceptedKeepsBus, Clock, Cpu!Clock, Cpu!FrontEnd, Cpu!BusError, Cpu!BusStrobe,
      Cpu!BusAwait, Cpu!BusStart
<1>4. CPU \in grant_q
  BY <1>1 DEF AloneInv, HasBus
<1>5. ASSUME Bus!Cs(Cpu!Op.adr) # {} PROVE ~Ack(CPU, paused)
  <2>1. Driver(paused).adr = Cpu!Op.adr
    BY <1>2, <1>4, DriverIs DEF Wires, CpuPort
  <2>2. ~mem_ack /\ ~ack_s /\ ~err_s
    BY <1>1 DEF AloneInv, MemoryAnswersOnce, NothingLeft
  <2>3. \A s \in Slave : ~Answer[s].ack /\ ~Answer[s].err
    BY <2>2 DEF Answer
  <2>4. Bus!Cs(Cpu!Op.adr) \subseteq Slave
    BY DEF Bus!Cs
  <2>5. ~Bus!MasterAck(Cpu!Op.adr, Answer)
    BY <1>5, <2>3, <2>4 DEF Bus!MasterAck, Bus!MasterErr
  <2>6. QED
    BY <2>1, <2>5 DEF Ack
<1>6. QED
  BY <1>3, <1>4, <1>5, AloneArbiter DEF AloneInv

(* In its access a store addresses what its opcode says, and that cycle's  *)
(* strobe counts.                                                          *)
LEMMA StoreContinues ==
  ASSUME Wires, Alone, AloneInv, NEW paused \in Paused, NEW irq \in Irq, Clock(paused, irq),
         paused = TRUE, Storing
  PROVE  \/ cpu_access'.writes > 0
         \/ Bus!Cs(Cpu!Op.adr) = {} /\ (~cyc_os' => cpu_access'.err)
<1>1. Cpu!AdrO(paused) = Cpu!Op.adr
  BY DEF Storing, Cpu!AdrO, Cpu!DataAccess, Cpu!MemFetch
<1>2. cpu_access' = Observe(CPU, cpu_access, paused)
  BY DEF Clock
<1>3. PICK w \in 0 .. MaxWrites :
        /\ w = cpu_access.writes
        /\ cpu_access'.writes = IF Strobed(CPU, paused) # {} /\ Driver(paused).we /\ w < MaxWrites
                                THEN w + 1 ELSE w
        /\ cpu_access'.err = (cpu_access.err \/ (Port(paused)[CPU].cyc /\ Err(CPU, paused)))
  BY <1>2 DEF Observe, Wires, TypeOK
<1>4. ASSUME CPU \in grant_q
      PROVE  /\ grant_enc = CPU /\ Driver(paused).adr = Cpu!AdrO(paused)
             /\ Driver(paused).stb = stb_os /\ Driver(paused).we = we_o
  <2>1. grant_enc = CPU /\ Driver(paused) = CpuPort(paused)
    BY <1>4, DriverIs DEF Wires
  <2>2. /\ CpuPort(paused).adr = Cpu!AdrO(paused)
        /\ CpuPort(paused).stb = stb_os /\ CpuPort(paused).we = we_o
    BY DEF CpuPort
  <2>3. QED
    BY <2>1, <2>2
<1>5. CASE cpu_access.writes > 0
  <2>1. w > 0 /\ w + 1 > 0
    BY <1>3, <1>5
  <2>2. QED
    BY <1>3, <2>1
<1>6. CASE we_o /\ cyc_os /\ stb_os /\ CPU \in grant_q /\ Bus!Cs(Cpu!Op.adr) # {}
  <2>1. PICK s \in Bus!Cs(Cpu!Op.adr) : s \in Slave
    BY <1>6 DEF Bus!Cs
  <2>2. SlaveStb(s, paused) /\ Driver(paused).we
    BY <1>1, <1>4, <1>6 DEF SlaveStb, Bus!SlaveStb
  <2>3. Strobed(CPU, paused) # {}
    BY <1>4, <1>6, <2>1, <2>2 DEF Strobed
  <2>4. cpu_access'.writes = IF w < 2 THEN w + 1 ELSE w
    BY <1>3, <2>2, <2>3 DEF MaxWrites
  <2>5. (IF w < 2 THEN w + 1 ELSE w) > 0
    BY <1>3 DEF MaxWrites
  <2>6. QED
    BY <2>4, <2>5
<1>7. CASE Bus!Cs(Cpu!Op.adr) = {} /\ (cyc_os \/ cpu_access.err)
  <2>1. ASSUME ~cyc_os' PROVE cpu_access'.err
    <3>1. CPU \in grant_q /\ cyc_os
      BY <2>1, CycleEnds
    <3>2. Driver(paused).adr = Cpu!Op.adr
      BY <1>1, <1>4, <3>1
    <3>3. Err(CPU, paused)
      BY <1>7, <3>1, <3>2 DEF Err, Bus!MasterErr
    <3>4. Port(paused)[CPU].cyc
      BY <3>1 DEF Port, CpuPort
    <3>5. QED
      BY <1>3, <3>3, <3>4
  <2>2. QED
    BY <1>7, <2>1
<1>8. QED
  BY <1>5, <1>6, <1>7 DEF AloneInv, StoreOnItsWay

LEMMA StoreOnItsWayStep ==
  ASSUME Wires, Alone, AloneInv, NEW paused \in Paused, NEW irq \in Irq, Clock(paused, irq)
  PROVE  StoreOnItsWay'
<1> SUFFICES ASSUME Storing'
             PROVE  \/ cpu_access'.writes > 0
                    \/ we_o' /\ cyc_os' /\ stb_os' /\ CPU \in grant_q'
                    \/ Bus!Cs(Cpu!Op.adr)' = {} /\ (~cyc_os' => cpu_access'.err)
  BY DEF StoreOnItsWay
<1>1. /\ Cpu!Op' = Cpu!Op /\ ~core_reset
      /\ \/ paused = TRUE /\ mem_state_reg = "ACCESS"
         \/ paused = FALSE /\ mem_state_reg = "ADDR"
  BY AccessSince DEF AloneInv, Storing
<1>2. Bus!Cs(Cpu!Op.adr)' = Bus!Cs(Cpu!Op.adr)
  BY <1>1 DEF Bus!Cs
<1>3. Cpu!Op.op = "store"
  BY <1>1 DEF Storing
<1>4. CASE paused = TRUE /\ mem_state_reg = "ACCESS"
  BY <1>2, <1>3, <1>4, StoreContinues DEF Storing
<1>5. CASE paused = FALSE /\ mem_state_reg = "ADDR"
  BY <1>1, <1>2, <1>3, <1>5, StoreStarts
<1>6. QED
  BY <1>1, <1>4, <1>5

(* A CPU alone on the bus loses no store: once it has executed one that    *)
(* did not end in an error, a slave has seen the strobe as a write.        *)
THEOREM StoreArrives == Spec /\ []Alone => []StoreDelivered
<1>1. Wires /\ Alone /\ AloneInv /\ Tick => AloneInv'
  BY HasBusStep, MemoryAnswersOnceStep, NothingLeftStep, StoreOnItsWayStep DEF Tick, AloneInv
<1>2. Wires /\ Alone /\ AloneInv /\ [Next]_vars => AloneInv'
  BY <1>1, AloneReset, AloneStutters DEF Next
<1>3. Wires /\ AloneInv => StoreDelivered
  <2> SUFFICES ASSUME Wires, AloneInv, CpuProceeds, Storing PROVE cpu_access.writes > 0
    BY DEF StoreDelivered, Storing
  <2>1. ~cyc_os
    BY CycleHolds DEF CpuProceeds, Wires, TypeOK
  <2>2. QED
    BY <2>1 DEF AloneInv, StoreOnItsWay, CpuProceeds
<1>4. QED
  BY <1>2, <1>3, AloneInit, WiresHold, PTL DEF Spec

(* By the constants: a HPS that never has a transfer, and a program that   *)
(* can fetch from memory only.                                             *)
THEOREM StoreArrivesAlone ==
  ASSUME FetchesOnly({"mem"}), \A t \in Transfer : t.op = "idle"
  PROVE  Spec => []StoreDelivered
<1> DEFINE Own == Bus!Cs(pc_reg) \subseteq {"mem"}
<1>1. Init => Own
  <2>1. 0 \in 0 .. PcSize - 1
    BY SystemAssumption DEF Cpu!CpuConstants
  <2>2. QED
    BY <2>1 DEF Init, Cpu!Init, FetchesOnly
<1>2. TypeOK /\ Own /\ [Next]_vars => Own'
  BY PcStaysOwn
<1>3. TypeOK /\ Own => Alone
  BY DEF TypeOK, Alone, Hps!Busy
<1> HIDE DEF Own
<1>4. QED
  BY <1>1, <1>2, <1>3, TypeCorrect, StoreArrives, PTL DEF Spec

-----------------------------------------------------------------------------
(* The CPU executes in order.                                              *)

MemSize == MemMap["mem"].size + 1

(* What is asked of the program, and of the HPS while it runs: opcodes are *)
(* fetched from memory and no store changes the opcode right behind it;    *)
(* only a handler returns, and it leaves the memory as it is.              *)
Conventions ==
  /\ ~Hps!Busy
  /\ pc_reg \in 0 .. PcSize - 1 /\ pc_reg < MemSize
  /\ Cpu!Op.op = "store" => Cpu!Op.adr # pc_reg
  /\ ~handling => Cpu!Op.op # "return"
  /\ handling /\ Cpu!Op.op = "store" => Cpu!Op.adr >= MemSize

(* A handler enables interrupts in the delay slot of its return. *)
EnablesOnReturn == handling' /\ Cpu!Op.op' = "enable" => Cpu!Op.op \in {"return", "enable"}

(* The state of InOrderCpu that SystemBus names for its own. *)
OpcodeBar == IF handling THEN ram[(epc - 1) % PcSize] ELSE opcode_reg
PcBar == IF handling THEN epc ELSE pc_reg
AccessedBar == /\ ~handling /\ ~intr_signal /\ mem_state_reg = "ACCESS"
               /\ cpu_access.words # {} \/ cpu_access.err

LEMMA StutterOf ==
  ASSUME OpcodeBar' = OpcodeBar, PcBar' = PcBar, AccessedBar' = AccessedBar, ram' = ram
  PROVE  UNCHANGED InOrder!vars
BY Zenon DEF InOrder!vars, OpcodeBar, PcBar, AccessedBar

LEMMA AccessOf ==
  ASSUME Decode[OpcodeBar].op \in {"load", "store"}, ~AccessedBar, AccessedBar' = TRUE,
         OpcodeBar' = OpcodeBar, PcBar' = PcBar,
         ram' = IF Decode[OpcodeBar].op = "store" /\ Decode[OpcodeBar].adr < MemSize
                THEN [ram EXCEPT ![Decode[OpcodeBar].adr] = Decode[OpcodeBar].dat] ELSE ram
  PROVE  InOrder!Next
<1>1. InOrder!Access
  BY Zenon DEF InOrder!Access, InOrder!IsAccess, InOrder!Op, OpcodeBar, PcBar, AccessedBar, MemSize
<1>2. QED
  BY <1>1 DEF InOrder!Next

LEMMA RetireOf ==
  ASSUME Decode[OpcodeBar].op \in {"load", "store"} => AccessedBar,
         OpcodeBar' = ram[PcBar],
         PcBar' = IF Decode[OpcodeBar].op = "jump" THEN Decode[OpcodeBar].adr
                  ELSE (PcBar + 1) % PcSize,
         AccessedBar' = FALSE, ram' = ram
  PROVE  InOrder!Next
<1>1. InOrder!Retire
  BY Zenon DEF InOrder!Retire, InOrder!IsAccess, InOrder!Op, OpcodeBar, PcBar, AccessedBar
<1>2. QED
  BY <1>1 DEF InOrder!Next

LEMMA RestartOf ==
  ASSUME OpcodeBar' = Zero, PcBar' = 0, AccessedBar' = FALSE, ram' = ram
  PROVE  InOrder!Next
<1>1. InOrder!Restart
  BY Zenon DEF InOrder!Restart, OpcodeBar, PcBar, AccessedBar
<1>2. QED
  BY <1>1 DEF InOrder!Next

-----------------------------------------------------------------------------
(* The memory at the bottom of the map. *)
LEMMA MemoryAddress ==
  ASSUME MemMap["mem"].base = 0, NEW adr \in Nat
  PROVE  /\ "mem" \in Bus!Cs(adr) <=> adr < MemSize
         /\ adr < MemSize => /\ Bus!Cs(adr) = {"mem"}
                             /\ Bus!Offset(adr) % MemSize = adr
<1>1. PICK n \in Nat : n = MemMap["mem"].size
  BY SystemAssumption DEF Bus!BusConstants, Slave
<1>2. adr % (n + 1) \in 0 .. n /\ (adr <= n => adr % (n + 1) = adr)
  OBVIOUS
<1>3. "mem" \in Bus!Cs(adr) <=> adr <= n
  BY <1>1, <1>2 DEF Bus!Cs, Slave
<1>4. ASSUME adr <= n PROVE Bus!Cs(adr) = {"mem"} /\ Bus!Offset(adr) = adr
  <2>1. Bus!Cs(adr) = {"mem"}
    BY <1>3, <1>4, OneSelected
  <2>2. (CHOOSE s \in Bus!Cs(adr) : TRUE) = "mem"
    BY <2>1
  <2>3. QED
    BY <1>1, <1>2, <1>4, <2>1, <2>2 DEF Bus!Offset
<1>5. QED
  BY <1>1, <1>2, <1>3, <1>4 DEF MemSize

(* A write enable that meets a strobe is that of a store in its first      *)
(* cycle.                                                                  *)
WritesFirst == we_o /\ stb_os => Storing /\ cpu_access = NoAccess

WritesAreWords == cpu_access.writes > 0 => cpu_access.words # {}

(* Between the accesses of an opcode the word behind it has arrived, or    *)
(* waits in the memory's output; during the second one it is kept.         *)
Fetched ==
  /\ mem_state_reg = "ADDR" /\ ~cyc_os /\ ~core_reset => dat_is = ram[pc_reg]
  /\ mem_state_reg = "ADDR" /\ mem_ack => mem_dat = ram[pc_reg]
  /\ mem_state_reg = "ACCESS" => next_opcode_reg = ram[pc_reg] /\ ~Cpu!MemFetch

StartsClean == core_reset => opcode_reg = Zero /\ ~intr_signal /\ ~intr_enable /\ ~handling

(* What is replaced by an interrupt is the opcode before the pc; a handler *)
(* is not interrupted, and when it enables interrupts it is on its way     *)
(* back to that opcode.                                                    *)
Interrupted ==
  /\ intr_signal => mem_state_reg = "ADDR" /\ opcode_reg = ram[(pc_reg - 1) % PcSize]
  /\ handling => /\ ~intr_signal /\ (intr_enable => Cpu!Op.op = "enable")
                 /\ epc \in 0 .. PcSize - 1
                 /\ Cpu!Op.op = "enable" => pc_reg = (epc - 1) % PcSize

OrderInv == /\ AloneInv /\ CpuWords(Slave) /\ WritesFirst /\ WritesAreWords /\ Fetched
            /\ StartsClean /\ Interrupted

Ordered == MemMap["mem"].base = 0 /\ Wires /\ Conventions /\ OrderInv

LEMMA ConventionsAlone ==
  ASSUME MemMap["mem"].base = 0, TypeOK, Conventions
  PROVE  Alone /\ Separate(Slave)
<1>1. "uart" \notin Bus!Cs(pc_reg)
  BY MemoryAddress DEF Conventions, TypeOK
<1>2. ASSUME NEW adr PROVE Bus!Cs(adr) \subseteq Slave
  BY DEF Bus!Cs
<1>3. Bus!Cs(Cpu!AdrO(TRUE)) \subseteq Slave
  BY <1>2, Zenon
<1>4. QED
  BY <1>1, <1>3 DEF Alone, Separate, Conventions

(* What a data access asks for is what the decoder made of the opcode. *)
LEMMA OpOf ==
  ASSUME TypeOK, ~intr_signal, Cpu!Op.op # "return"
  PROVE  Cpu!Op = Decode[opcode_reg]
<1>1. CASE Decode[opcode_reg].op = "return"
  <2>1. Cpu!Op = [Decode[opcode_reg] EXCEPT !.adr = (epc - 1) % PcSize]
    BY <1>1 DEF Cpu!Op
  <2>2. Decode[opcode_reg] \in [op : {"alu", "mult", "jump", "load", "store", "enable", "return"},
                                adr : Nat, dat : Value]
    BY SystemAssumption DEF TypeOK
  <2>3. Cpu!Op.op = "return"
    BY <1>1, <2>1, <2>2
  <2>4. QED
    BY <2>3
<1>2. CASE Decode[opcode_reg].op # "return"
  BY <1>2 DEF Cpu!Op
<1>3. QED
  BY <1>1, <1>2

LEMMA NopOf ==
  ASSUME opcode_reg = Zero, ~intr_signal
  PROVE  Cpu!Op.op = "alu"
BY SystemAssumption DEF Cpu!Op, Cpu!CpuConstants

(* An edge changes the memory only in the first cycle of a store, which    *)
(* addresses it, and there it does.                                        *)
LEMMA MemoryStep ==
  ASSUME Ordered, NEW paused \in Paused, NEW irq \in Irq, Clock(paused, irq), ram' # ram
  PROVE  /\ paused = TRUE /\ Storing /\ cpu_access = NoAccess /\ cpu_access'.words # {}
         /\ Cpu!Op.adr \in 0 .. MemSize - 1
         /\ ram' = [ram EXCEPT ![Cpu!Op.adr] = Cpu!Op.dat]
<1>1. SlaveStb("mem", paused) /\ Driver(paused).we
  BY DEF Clock, Mem!Clock
<1>2. /\ paused = TRUE /\ cyc_os /\ stb_os /\ CPU \in grant_q /\ grant_enc = CPU
      /\ "mem" \in Bus!Cs(Cpu!AdrO(paused))
  BY <1>1, AloneStrobe DEF Ordered, OrderInv, AloneInv, Slave
<1>3. Driver(paused) = CpuPort(paused)
  BY <1>2, DriverIs DEF Ordered, Wires
<1>4. we_o /\ Driver(paused).adr = Cpu!AdrO(paused) /\ Driver(paused).dat = Cpu!DatO
  BY <1>1, <1>3 DEF CpuPort
<1>5. Storing /\ cpu_access = NoAccess
  BY <1>2, <1>4 DEF Ordered, OrderInv, WritesFirst
<1>6. Cpu!AdrO(paused) = Cpu!Op.adr /\ Cpu!DatO = Cpu!Op.dat
  BY <1>2, <1>5 DEF Storing, Cpu!AdrO, Cpu!DataAccess, Cpu!MemFetch, Cpu!DatO
<1>7. /\ Cpu!Op.adr \in 0 .. MemSize - 1
      /\ SlaveAdr(paused) % MemSize = Cpu!Op.adr
  <2>1. Cpu!Op.adr \in Nat /\ MemSize \in Nat
    <3>1. Cpu!Op.adr \in Nat
      BY OpTypes DEF Ordered, Wires
    <3>2. MemSize \in Nat
      BY SystemAssumption DEF MemSize, Bus!BusConstants, Slave
    <3>3. QED
      BY <3>1, <3>2
  <2>2. "mem" \in Bus!Cs(Cpu!Op.adr)
    BY <1>2, <1>6
  <2>3. Cpu!Op.adr < MemSize /\ Bus!Offset(Cpu!Op.adr) % MemSize = Cpu!Op.adr
    BY <2>1, <2>2, MemoryAddress DEF Ordered
  <2>4. QED
    BY <1>4, <1>6, <2>1, <2>3 DEF SlaveAdr
<1>8. ram' = [ram EXCEPT ![Cpu!Op.adr] = Cpu!Op.dat]
  BY <1>1, <1>4, <1>6, <1>7 DEF Clock, Mem!Clock, MemSize
<1>9. cpu_access'.words # {}
  <2>1. "mem" \in Strobed(CPU, paused)
    BY <1>1, <1>2 DEF Strobed, Slave
  <2>2. cpu_access' = Observe(CPU, cpu_access, paused)
    BY <1>2 DEF Clock
  <2>3. QED
    BY <2>1, <2>2 DEF Observe
<1>10. QED
  BY <1>2, <1>5, <1>7, <1>8, <1>9

(* Edges at which the pipeline moves: the CPU is between two cycles. *)
LEMMA MovesBetweenCycles ==
  ASSUME Ordered, NEW paused \in Paused, NEW irq \in Irq, Clock(paused, irq), paused = FALSE
  PROVE  ~cyc_os /\ cyc_os' /\ ~mem_ack /\ ~mem_ack' /\ ram' = ram /\ cpu_access' = NoAccess
<1>1. ~cyc_os /\ cyc_os \in BOOLEAN
  BY CycleHolds DEF Ordered, Wires, TypeOK
<1>2. cyc_os'
  BY <1>1, CycleEnds DEF Ordered
<1>3. ~mem_ack
  BY <1>1 DEF Ordered, OrderInv, AloneInv, MemoryAnswersOnce
<1>4. ~SlaveStb("mem", paused)
  BY AloneStrobe DEF Ordered, OrderInv, AloneInv, Slave
<1>5. QED
  BY <1>1, <1>2, <1>3, <1>4, MemoryStep DEF Clock, Mem!Clock

(* The others: neither the opcode nor its address changes. *)
LEMMA StaysInPlace ==
  ASSUME StartsClean, NEW paused \in Paused, NEW irq \in Irq, Clock(paused, irq), paused = TRUE
  PROVE  /\ opcode_reg' = opcode_reg /\ next_opcode_reg' = next_opcode_reg /\ pc_reg' = pc_reg
         /\ mem_state_reg' = mem_state_reg /\ intr_signal' = intr_signal /\ epc' = epc
         /\ handling' = handling /\ Cpu!Op' = Cpu!Op
<1>1. Cpu!Core(paused) /\ Cpu!Sample(paused, irq) /\ Cpu!StatusBits(paused)
  BY DEF Clock, Cpu!Clock
<1>2. /\ opcode_reg' = opcode_reg /\ next_opcode_reg' = next_opcode_reg /\ pc_reg' = pc_reg
      /\ mem_state_reg' = mem_state_reg
  BY <1>1
  DEF Cpu!Core, Cpu!CoreInReset, Cpu!CorePaused, Cpu!CoreFetch, Cpu!CoreAddress, Cpu!CoreAccess
<1>3. intr_signal' = intr_signal /\ epc' = epc
  BY <1>1 DEF Cpu!Sample, Cpu!StatusBits
<1>4. handling' = handling
  BY DEF Clock, Handling
<1>5. QED
  BY <1>2, <1>3, <1>4 DEF Cpu!Op

(* The word at the pc is not written. *)
LEMMA WordBehindKept ==
  ASSUME Ordered, NEW paused \in Paused, NEW irq \in Irq, Clock(paused, irq)
  PROVE  /\ ram'[pc_reg] = ram[pc_reg]
         /\ mem_state_reg = "ADDR" => ram' = ram
<1>1. CASE ram' = ram
  BY <1>1
<1>2. CASE ram' # ram
  <2>1. /\ Storing /\ Cpu!Op.adr # pc_reg
        /\ ram' = [ram EXCEPT ![Cpu!Op.adr] = Cpu!Op.dat]
    BY <1>2, MemoryStep DEF Ordered, Conventions, Storing
  <2>2. pc_reg \in 0 .. MemMap["mem"].size
    <3>1. PICK n \in Nat : n = MemMap["mem"].size
      BY SystemAssumption DEF Bus!BusConstants, Slave
    <3>2. pc_reg \in Nat /\ pc_reg < n + 1
      BY <3>1 DEF Ordered, Wires, TypeOK, Conventions, MemSize
    <3>3. QED
      BY <3>1, <3>2
  <2>3. ram \in [0 .. MemMap["mem"].size -> Value]
    BY DEF Ordered, Wires, TypeOK
  <2>4. QED
    BY <2>1, <2>2, <2>3 DEF Storing
<1>3. QED
  BY <1>1, <1>2

-----------------------------------------------------------------------------
(* One edge: the words fetched.                                            *)

LEMMA ArrivesInAddress ==
  ASSUME Ordered, NEW paused \in Paused, NEW irq \in Irq, Clock(paused, irq),
         mem_state_reg' = "ADDR", ~cyc_os'
  PROVE  (dat_is = ram[pc_reg])'
<1>1. /\ cyc_os /\ paused = TRUE /\ CPU \in grant_q /\ Ack(CPU, paused)
      /\ Err(CPU, paused) \/ dat_is' = Dat(paused)
  BY CycleEnds DEF Ordered
<1>2. mem_state_reg = "ADDR" /\ pc_reg' = pc_reg
  BY <1>1, StaysInPlace DEF Ordered, OrderInv
<1>3. Cpu!AdrO(paused) = pc_reg
  BY <1>1, <1>2 DEF Cpu!AdrO, Cpu!DataAccess, Cpu!PcFuture
<1>4. Driver(paused).adr = pc_reg
  <2>1. Driver(paused) = CpuPort(paused)
    BY <1>1, DriverIs DEF Ordered, Wires
  <2>2. CpuPort(paused).adr = Cpu!AdrO(paused)
    BY DEF CpuPort
  <2>3. QED
    BY <1>3, <2>1, <2>2
<1>5. pc_reg \in Nat /\ Bus!Cs(pc_reg) = {"mem"}
  BY MemoryAddress DEF Ordered, Wires, TypeOK, Conventions
<1>6. ~Bus!MasterErr(pc_reg, Answer)
  BY <1>5 DEF Bus!MasterErr, Answer, Slave
<1>7. PICK s \in Bus!Cs(pc_reg) :
        s \in Slave /\ Acked(s) /\ Bus!MasterDat(pc_reg, Answer) = Shown(s)
  <2>1. Bus!MasterAck(pc_reg, Answer)
    BY <1>1, <1>4 DEF Ack
  <2>2. QED
    BY <1>5, <1>6, <2>1, WordOfSlave
<1>8. mem_ack /\ Dat(paused) = mem_dat
  BY <1>4, <1>5, <1>7 DEF Acked, Shown, Dat
<1>9. dat_is' = mem_dat
  BY <1>1, <1>4, <1>6, <1>8 DEF Err
<1>10. mem_dat = ram[pc_reg] /\ ram' = ram
  BY <1>2, <1>8, WordBehindKept DEF Ordered, OrderInv, Fetched
<1>11. QED
  BY <1>2, <1>9, <1>10

LEMMA WaitsInOutput ==
  ASSUME Ordered, NEW paused \in Paused, NEW irq \in Irq, Clock(paused, irq),
         mem_state_reg' = "ADDR", mem_ack'
  PROVE  (mem_dat = ram[pc_reg])'
<1>1. SlaveStb("mem", paused)
  BY DEF Clock, Mem!Clock
<1>2. paused = TRUE /\ CPU \in grant_q
  BY <1>1, AloneStrobe DEF Ordered, OrderInv, AloneInv, Slave
<1>3. mem_state_reg = "ADDR" /\ pc_reg' = pc_reg
  BY <1>2, StaysInPlace DEF Ordered, OrderInv
<1>4. Cpu!AdrO(paused) = pc_reg
  BY <1>2, <1>3 DEF Cpu!AdrO, Cpu!DataAccess, Cpu!PcFuture
<1>5. Driver(paused).adr = pc_reg
  <2>1. Driver(paused) = CpuPort(paused)
    BY <1>2, DriverIs DEF Ordered, Wires
  <2>2. CpuPort(paused).adr = Cpu!AdrO(paused)
    BY DEF CpuPort
  <2>3. QED
    BY <1>4, <2>1, <2>2
<1>6. SlaveAdr(paused) % MemSize = pc_reg
  BY <1>5, MemoryAddress DEF Ordered, Wires, TypeOK, Conventions, SlaveAdr
<1>7. mem_dat' = ram'[pc_reg]
  BY <1>6 DEF Clock, Mem!Clock, MemSize
<1>8. QED
  BY <1>3, <1>7

LEMMA FetchedStep ==
  ASSUME Ordered, NEW paused \in Paused, NEW irq \in Irq, Clock(paused, irq)
  PROVE  Fetched'
<1>1. ASSUME mem_state_reg' = "ACCESS"
      PROVE  (next_opcode_reg = ram[pc_reg] /\ ~Cpu!MemFetch)'
  <2>1. /\ Cpu!Op' = Cpu!Op /\ ~core_reset /\ pc_reg' = pc_reg
        /\ \/ /\ paused = TRUE /\ mem_state_reg = "ACCESS"
              /\ next_opcode_reg' = next_opcode_reg
           \/ /\ paused = FALSE /\ ~Cpu!MemFetch /\ mem_state_reg = "ADDR"
              /\ next_opcode_reg' = dat_is
    BY <1>1, AccessSince DEF Ordered, OrderInv, AloneInv
  <2>2. ~Cpu!MemFetch
    BY <2>1 DEF Ordered, OrderInv, Fetched
  <2>3. next_opcode_reg' = ram[pc_reg]
    <3>1. paused = FALSE => ~cyc_os
      BY MovesBetweenCycles
    <3>2. QED
      BY <2>1, <3>1 DEF Ordered, OrderInv, Fetched
  <2>4. ram'[pc_reg] = ram[pc_reg]
    BY WordBehindKept
  <2>5. QED
    BY <2>1, <2>2, <2>3, <2>4 DEF Cpu!MemFetch
<1>2. QED
  BY <1>1, ArrivesInAddress, WaitsInOutput DEF Fetched

LEMMA WritesStep ==
  ASSUME Ordered, NEW paused \in Paused, NEW irq \in Irq, Clock(paused, irq)
  PROVE  WritesFirst' /\ WritesAreWords'
<1>1. we_o' = Cpu!ByteWe(paused)
  BY DEF Clock, Cpu!Clock
<1>2. CASE paused = TRUE
  <2>1. ~we_o'
    BY <1>1, <1>2 DEF Cpu!ByteWe, Cpu!PauseCtrl
  <2>2. cpu_access' = Observe(CPU, cpu_access, paused)
    BY <1>2 DEF Clock
  <2>3. PICK w \in 0 .. MaxWrites :
          /\ w = cpu_access.writes
          /\ cpu_access'.writes = IF Strobed(CPU, paused) # {} /\ Driver(paused).we
                                     /\ w < MaxWrites
                                  THEN w + 1 ELSE w
    BY <2>2 DEF Observe, Ordered, Wires, TypeOK
  <2>4. /\ cpu_access.words \subseteq cpu_access'.words
        /\ Strobed(CPU, paused) # {} => cpu_access'.words # {}
    BY <2>2 DEF Observe
  <2>5. WritesAreWords'
    BY <2>3, <2>4 DEF WritesAreWords, Ordered, OrderInv
  <2>6. QED
    BY <2>1, <2>5 DEF WritesFirst
<1>3. CASE paused = FALSE
  <2>1. cpu_access' = NoAccess
    BY <1>3, MovesBetweenCycles
  <2>2. ASSUME we_o' PROVE Storing'
    <3>1. /\ Cpu!Op.op = "store" /\ mem_state_reg = "ADDR"
      BY <1>1, <2>2 DEF Cpu!ByteWe, Cpu!PauseCtrl
    <3>2. ~core_reset
      BY <3>1, NopOf DEF Ordered, OrderInv, StartsClean
    <3>3. Cpu!CoreAddress(paused)
      BY <1>3, <3>1, <3>2
      DEF Clock, Cpu!Clock, Cpu!Core, Cpu!CoreInReset, Cpu!CorePaused, Cpu!CoreFetch,
          Cpu!CoreAccess, Cpu!MemFetch
    <3>4. mem_state_reg' = "ACCESS"
      BY <3>3 DEF Cpu!CoreAddress
    <3>5. Cpu!Op' = Cpu!Op
      BY <3>4, AccessSince DEF Ordered, OrderInv, AloneInv
    <3>6. QED
      BY <3>1, <3>4, <3>5 DEF Storing
  <2>3. ~(cpu_access'.writes > 0)
    BY <2>1 DEF NoAccess
  <2>4. QED
    BY <2>1, <2>2, <2>3 DEF WritesFirst, WritesAreWords, NoAccess
<1>4. QED
  BY <1>2, <1>3 DEF Paused, PauseSettles

-----------------------------------------------------------------------------
(* One edge: interrupts.                                                   *)

LEMMA WrapAround ==
  ASSUME NEW P \in Nat \ {0}, NEW n \in 0 .. P - 1
  PROVE  /\ (n + 1) % P \in 0 .. P - 1 /\ (((n + 1) % P) - 1) % P = n
         /\ (n - 1) % P \in 0 .. P - 1 /\ (((n - 1) % P) + 1) % P = n
<1>1. \A k \in 0 .. P - 1 : k % P = k
  OBVIOUS
<1>2. P % P = 0 /\ (-1) % P = P - 1
  OBVIOUS
<1>3. (n + 1) % P = IF n = P - 1 THEN 0 ELSE n + 1
  BY <1>1, <1>2
<1>4. (n - 1) % P = IF n = 0 THEN P - 1 ELSE n - 1
  BY <1>1, <1>2
<1>5. QED
  BY <1>1, <1>2, <1>3, <1>4

LEMMA StartsCleanStep ==
  ASSUME Ordered, NEW paused \in Paused, NEW irq \in Irq, Clock(paused, irq)
  PROVE  StartsClean'
<1> SUFFICES ASSUME core_reset'
             PROVE  opcode_reg' = Zero /\ ~intr_signal' /\ ~intr_enable' /\ ~handling'
  BY DEF StartsClean
<1>1. Cpu!CoreInReset
  BY DEF Clock, Cpu!Clock, Cpu!Core, Cpu!CorePaused, Cpu!CoreFetch, Cpu!CoreAddress,
         Cpu!CoreAccess
<1>2. opcode_reg = Zero /\ ~intr_signal /\ ~intr_enable /\ ~handling
  BY <1>1 DEF Cpu!CoreInReset, Ordered, OrderInv, StartsClean
<1>3. Cpu!Op.op = "alu"
  BY <1>2, NopOf
<1>4. opcode_reg' = Zero
  BY <1>1, <1>2 DEF Cpu!CoreInReset
<1>5. ~intr_signal' /\ ~intr_enable'
  BY <1>2, <1>3 DEF Clock, Cpu!Clock, Cpu!Sample, Cpu!StatusBits
<1>6. ~handling'
  BY <1>2 DEF Clock, Handling
<1>7. QED
  BY <1>4, <1>5, <1>6

(* An opcode retires: the next one is the word at the pc, and the pc moves *)
(* on.                                                                     *)
Retires(paused) == Cpu!CoreFetch(paused) \/ Cpu!CoreAccess(paused)

LEMMA Retirement ==
  ASSUME Ordered, NEW paused \in Paused, NEW irq \in Irq, Clock(paused, irq), Retires(paused)
  PROVE  /\ paused = FALSE /\ ~core_reset /\ mem_state_reg' = "ADDR" /\ ram' = ram
         /\ opcode_reg' = IF intr_signal THEN Zero ELSE ram[pc_reg]
         /\ pc_reg' = IF Cpu!Op.op \in Cpu!Jumps THEN Cpu!Op.adr ELSE (pc_reg + 1) % PcSize
         /\ Cpu!Op.op \in {"load", "store"}
              => ~intr_signal /\ (cpu_access.words # {} \/ cpu_access.err)
<1>1. paused \in BOOLEAN
  BY DEF Paused, PauseSettles
<1>2. paused = FALSE /\ ~core_reset
  BY <1>1 DEF Retires, Cpu!CoreFetch, Cpu!CoreAccess
<1>3. ~cyc_os /\ ram' = ram
  BY <1>2, MovesBetweenCycles
<1>4. CASE Cpu!CoreFetch(paused)
  <2>1. Cpu!MemFetch
    BY <1>4 DEF Cpu!CoreFetch
  <2>2. mem_state_reg = "ADDR"
    BY <2>1 DEF Ordered, OrderInv, Fetched, Wires, TypeOK
  <2>3. dat_is = ram[pc_reg]
    BY <1>2, <1>3, <2>2 DEF Ordered, OrderInv, Fetched
  <2>4. pc_reg' = IF Cpu!Op.op \in Cpu!Jumps THEN Cpu!Op.adr ELSE (pc_reg + 1) % PcSize
    BY <1>2, <1>4, <2>1 DEF Cpu!CoreFetch, Cpu!PcFuture, Cpu!PauseCtrl
  <2>5. QED
    BY <1>2, <1>3, <1>4, <2>1, <2>3, <2>4 DEF Cpu!CoreFetch, Cpu!MemFetch
<1>5. CASE Cpu!CoreAccess(paused)
  <2>1. ~Cpu!MemFetch /\ mem_state_reg = "ACCESS"
    BY <1>5 DEF Cpu!CoreAccess
  <2>2. Cpu!Op.op \in {"load", "store"} /\ ~intr_signal
    BY <2>1 DEF Cpu!MemFetch, Cpu!Op, Cpu!Interrupt
  <2>3. next_opcode_reg = ram[pc_reg]
    BY <2>1 DEF Ordered, OrderInv, Fetched
  <2>4. pc_reg' = (pc_reg + 1) % PcSize
    BY <1>2, <1>5, <2>1, <2>2 DEF Cpu!CoreAccess, Cpu!PcFuture, Cpu!PauseCtrl, Cpu!Jumps
  <2>5. cpu_access.words # {} \/ cpu_access.err
    BY <1>2, <1>3 DEF Ordered, OrderInv, CpuWords
  <2>6. QED
    BY <1>2, <1>3, <1>5, <2>2, <2>3, <2>4, <2>5 DEF Cpu!CoreAccess, Cpu!Jumps
<1>6. QED
  BY <1>4, <1>5 DEF Retires

LEMMA ReplacedStep ==
  ASSUME Ordered, NEW paused \in Paused, NEW irq \in Irq, Clock(paused, irq), intr_signal'
  PROVE  (mem_state_reg = "ADDR" /\ opcode_reg = ram[(pc_reg - 1) % PcSize])'
<1>1. Cpu!Sample(paused, irq) /\ Cpu!Core(paused)
  BY DEF Clock, Cpu!Clock
<1>2. CASE paused = TRUE
  <2>1. /\ opcode_reg' = opcode_reg /\ pc_reg' = pc_reg /\ mem_state_reg' = mem_state_reg
        /\ intr_signal' = intr_signal
    BY <1>2, StaysInPlace DEF Ordered, OrderInv
  <2>2. mem_state_reg = "ADDR" /\ opcode_reg = ram[(pc_reg - 1) % PcSize]
    BY <2>1 DEF Ordered, OrderInv, Interrupted
  <2>3. ram' = ram
    BY <2>2, WordBehindKept
  <2>4. QED
    BY <2>1, <2>2, <2>3
<1>3. CASE paused = FALSE
  <2>1. ~Cpu!PauseCtrl(paused)
    BY <1>1 DEF Cpu!Sample, Cpu!PauseCtrl, Cpu!MemFetch, Cpu!Op, Cpu!Interrupt
  <2>2. intr_enable /\ Cpu!Op.op \notin Cpu!Jumps
    BY <1>1, <1>3, <2>1 DEF Cpu!Sample
  <2>3. ~core_reset /\ ~intr_signal
    BY <2>2 DEF Ordered, OrderInv, StartsClean, Cpu!Jumps, Cpu!Op, Cpu!Interrupt
  <2>4. Retires(paused)
    BY <1>1, <1>3, <2>1, <2>3
    DEF Retires, Cpu!Core, Cpu!CoreInReset, Cpu!CorePaused, Cpu!CoreAddress, Cpu!PauseCtrl
  <2>5. /\ mem_state_reg' = "ADDR" /\ ram' = ram
        /\ opcode_reg' = ram[pc_reg] /\ pc_reg' = (pc_reg + 1) % PcSize
    BY <2>2, <2>3, <2>4, Retirement
  <2>6. (((pc_reg + 1) % PcSize) - 1) % PcSize = pc_reg
    BY WrapAround, SystemAssumption DEF Cpu!CpuConstants, Ordered, Conventions
  <2>7. QED
    BY <2>5, <2>6
<1>4. QED
  BY <1>2, <1>3 DEF Paused, PauseSettles

LEMMA ReturnAddress ==
  ASSUME TypeOK, Cpu!Op.op = "return"
  PROVE  Cpu!Op.adr = (epc - 1) % PcSize
<1>1. ~intr_signal
  BY DEF Cpu!Op, Cpu!Interrupt
<1>2. Decode[opcode_reg] \in [op : {"alu", "mult", "jump", "load", "store", "enable", "return"},
                              adr : Nat, dat : Value]
  BY SystemAssumption DEF TypeOK
<1>3. Decode[opcode_reg].op = "return"
  BY <1>1 DEF Cpu!Op
<1>4. Cpu!Op = [Decode[opcode_reg] EXCEPT !.adr = (epc - 1) % PcSize]
  BY <1>1, <1>3 DEF Cpu!Op
<1>5. QED
  BY <1>2, <1>4

(* What Interrupted says of a handler. *)
InHandler ==
  /\ ~intr_signal /\ (intr_enable => Cpu!Op.op = "enable")
  /\ epc \in 0 .. PcSize - 1
  /\ Cpu!Op.op = "enable" => pc_reg = (epc - 1) % PcSize

LEMMA HandlerBegins ==
  ASSUME Ordered, NEW paused \in Paused, NEW irq \in Irq, Clock(paused, irq),
         paused = FALSE, intr_signal
  PROVE  InHandler' /\ Retires(paused) /\ epc' = pc_reg /\ handling' = TRUE
<1>1. Cpu!Op.op = "interrupt" /\ Cpu!MemFetch
  BY DEF Cpu!Op, Cpu!Interrupt, Cpu!MemFetch
<1>2. ~core_reset
  BY DEF Ordered, OrderInv, StartsClean
<1>3. Cpu!CoreFetch(paused)
  BY <1>1, <1>2
  DEF Clock, Cpu!Clock, Cpu!Core, Cpu!CoreInReset, Cpu!CorePaused, Cpu!CoreAddress,
      Cpu!CoreAccess
<1>4. opcode_reg' = Zero
  BY <1>3 DEF Cpu!CoreFetch
<1>5. ~intr_signal' /\ ~intr_enable'
  BY <1>1 DEF Clock, Cpu!Clock, Cpu!Sample, Cpu!StatusBits, Cpu!Jumps, Cpu!PauseCtrl
<1>6. epc' = pc_reg
  BY DEF Clock, Cpu!Clock, Cpu!StatusBits
<1>7. Cpu!Op.op' = "alu"
  BY <1>4, <1>5, SystemAssumption DEF Cpu!Op, Cpu!CpuConstants
<1>8. handling' = TRUE
  BY DEF Clock, Handling
<1>9. QED
  BY <1>3, <1>5, <1>6, <1>7, <1>8 DEF InHandler, Retires, Ordered, Conventions

LEMMA HandlerGoesOn ==
  ASSUME Ordered, NEW paused \in Paused, NEW irq \in Irq, Clock(paused, irq), EnablesOnReturn,
         handling, handling'
  PROVE  InHandler' /\ epc' = epc
<1>1. InHandler
  BY DEF Ordered, OrderInv, Interrupted, InHandler
<1>2. epc' = epc
  BY <1>1 DEF InHandler, Clock, Cpu!Clock, Cpu!StatusBits
<1>3. CASE paused = TRUE
  <2>1. /\ Cpu!Op' = Cpu!Op /\ intr_signal' = intr_signal /\ pc_reg' = pc_reg
    BY <1>3, StaysInPlace DEF Ordered, OrderInv
  <2>2. intr_enable' => Cpu!Op.op = "enable"
    BY <1>1 DEF InHandler, Clock, Cpu!Clock, Cpu!StatusBits
  <2>3. QED
    BY <1>1, <1>2, <2>1, <2>2 DEF InHandler
<1>4. CASE paused = FALSE
  <2>1. Cpu!Op.op # "enable"
    BY <1>1, <1>4 DEF Clock, Handling, InHandler
  <2>2. ~intr_signal' /\ ~intr_enable'
    BY <1>1, <2>1 DEF InHandler, Clock, Cpu!Clock, Cpu!Sample, Cpu!StatusBits
  <2>3. ASSUME Cpu!Op.op' = "enable" PROVE pc_reg' = (epc - 1) % PcSize
    <3>1. Cpu!Op.op = "return" /\ Cpu!MemFetch
      BY <2>1, <2>3 DEF EnablesOnReturn, Cpu!MemFetch
    <3>2. ~core_reset
      BY DEF Ordered, OrderInv, StartsClean
    <3>3. Retires(paused)
      BY <1>4, <3>1, <3>2
      DEF Clock, Cpu!Clock, Cpu!Core, Cpu!CoreInReset, Cpu!CorePaused, Cpu!CoreAddress, Retires
    <3>4. pc_reg' = Cpu!Op.adr
      BY <3>1, <3>3, Retirement DEF Cpu!Jumps
    <3>5. QED
      BY <3>1, <3>4, ReturnAddress DEF Ordered, Wires
  <2>4. QED
    BY <1>1, <1>2, <2>2, <2>3 DEF InHandler
<1>5. QED
  BY <1>2, <1>3, <1>4 DEF Paused, PauseSettles

LEMMA InterruptedStep ==
  ASSUME Ordered, NEW paused \in Paused, NEW irq \in Irq, Clock(paused, irq), EnablesOnReturn
  PROVE  Interrupted'
<1>1. ASSUME handling' PROVE InHandler'
  <2>1. CASE handling
    BY <1>1, <2>1, HandlerGoesOn
  <2>2. CASE ~handling
    <3>1. paused = FALSE /\ intr_signal
      BY <1>1, <2>2 DEF Clock, Handling, Paused, PauseSettles
    <3>2. QED
      BY <3>1, HandlerBegins
  <2>3. QED
    BY <2>1, <2>2
<1>2. QED
  BY <1>1, ReplacedStep DEF Interrupted, InHandler

LEMMA OrderTick ==
  ASSUME Ordered, Tick, EnablesOnReturn
  PROVE  OrderInv'
<1>1. PICK paused \in Paused, irq \in Irq : Clock(paused, irq)
  BY DEF Tick
<1>2. Alone /\ Separate(Slave)
  BY ConventionsAlone DEF Ordered, Wires
<1>3. AloneInv'
  BY <1>1, <1>2, HasBusStep, MemoryAnswersOnceStep, NothingLeftStep, StoreOnItsWayStep
  DEF Ordered, OrderInv, AloneInv
<1>4. CpuWords(Slave)'
  BY <1>2, CpuWordsStep DEF Ordered, OrderInv, Next
<1>5. QED
  BY <1>1, <1>3, <1>4, WritesStep, FetchedStep, StartsCleanStep, InterruptedStep DEF OrderInv

LEMMA OrderInit == Init => OrderInv
<1> SUFFICES ASSUME Init PROVE OrderInv
  OBVIOUS
<1>1. AloneInv
  BY AloneInit
<1>2. CpuWords(Slave)
  BY DEF Init, Cpu!Init, Mem!Init, Uart!Init, CpuWords, Acked
<1>3. WritesFirst /\ WritesAreWords
  BY DEF Init, Cpu!Init, WritesFirst, WritesAreWords, NoAccess
<1>4. Fetched /\ StartsClean /\ Interrupted
  BY DEF Init, Cpu!Init, Mem!Init, Fetched, StartsClean, Interrupted
<1>5. QED
  BY <1>1, <1>2, <1>3, <1>4 DEF OrderInv

LEMMA OrderReset ==
  ASSUME Ordered, Reset
  PROVE  OrderInv'
<1>1. AloneInv'
  BY AloneReset DEF Ordered, OrderInv
<1>2. CpuWords(Slave)'
  BY DEF Reset, Cpu!Reset, Mem!Reset, Uart!Reset, CpuWords, Acked
<1>3. WritesFirst' /\ WritesAreWords'
  BY DEF Reset, Cpu!Reset, WritesFirst, WritesAreWords, NoAccess
<1>4. Fetched' /\ StartsClean' /\ Interrupted'
  BY DEF Reset, Cpu!Reset, Mem!Reset, Fetched, StartsClean, Interrupted
<1>5. QED
  BY <1>1, <1>2, <1>3, <1>4 DEF OrderInv

LEMMA OrderStutters ==
  ASSUME Ordered, UNCHANGED vars
  PROVE  OrderInv'
<1>1. AloneInv'
  BY AloneStutters DEF Ordered, OrderInv
<1>2. CpuWords(Slave)'
  BY DEF vars, Cpu!cpuVars, Mem!memoryVars, Uart!uartVars, CpuWords, Acked, Shown, Ordered,
         OrderInv
<1>3. Cpu!Op' = Cpu!Op
  BY DEF vars, Cpu!cpuVars, Cpu!Op
<1>4. WritesFirst' /\ WritesAreWords'
  BY <1>3 DEF vars, Cpu!cpuVars, WritesFirst, WritesAreWords, Storing, Ordered, OrderInv
<1>5. Fetched' /\ StartsClean' /\ Interrupted'
  BY <1>3 DEF vars, Cpu!cpuVars, Mem!memoryVars, Fetched, StartsClean, Interrupted, Cpu!MemFetch,
              Ordered, OrderInv
<1>6. QED
  BY <1>1, <1>2, <1>4, <1>5 DEF OrderInv

-----------------------------------------------------------------------------
(* One edge, as a step of InOrderCpu or none.                              *)

LEMMA OpcodeInOrder ==
  ASSUME Ordered, ~handling, ~intr_signal
  PROVE  OpcodeBar = opcode_reg /\ PcBar = pc_reg /\ Cpu!Op = Decode[OpcodeBar]
BY OpOf DEF OpcodeBar, PcBar, Ordered, Wires, Conventions

(* While the CPU is held, a load or store may take place. *)
LEMMA HeldInOrder ==
  ASSUME Ordered, NEW paused \in Paused, NEW irq \in Irq, Clock(paused, irq), paused = TRUE
  PROVE  InOrder!Next \/ UNCHANGED InOrder!vars
<1>1. /\ opcode_reg' = opcode_reg /\ pc_reg' = pc_reg /\ mem_state_reg' = mem_state_reg
      /\ intr_signal' = intr_signal /\ epc' = epc /\ handling' = handling
  BY StaysInPlace DEF Ordered, OrderInv
<1>2. /\ cpu_access.words \subseteq cpu_access'.words
      /\ cpu_access.err => cpu_access'.err
  <2>1. cpu_access' = Observe(CPU, cpu_access, paused)
    BY DEF Clock
  <2>2. QED
    BY <2>1 DEF Observe
<1>3. PcBar' = PcBar
  BY <1>1, Zenon DEF PcBar
<1>4. CASE handling \/ intr_signal \/ mem_state_reg # "ACCESS"
  <2>1. ram' = ram
    <3>1. ~(Storing /\ Cpu!Op.adr \in 0 .. MemSize - 1)
      <4>1. CASE handling
        BY <4>1, SystemAssumption
        DEF Storing, Ordered, Conventions, MemSize, Bus!BusConstants, Slave
      <4>2. CASE intr_signal \/ mem_state_reg # "ACCESS"
        BY <4>2 DEF Storing, Ordered, OrderInv, Interrupted
      <4>3. QED
        BY <1>4, <4>1, <4>2
    <3>2. QED
      BY <3>1, MemoryStep
  <2>2. OpcodeBar' = OpcodeBar
    BY <1>1, <2>1, Zenon DEF OpcodeBar
  <2>3. AccessedBar = FALSE /\ AccessedBar' = FALSE
    BY <1>1, <1>4 DEF AccessedBar
  <2>4. QED
    BY <1>3, <2>1, <2>2, <2>3, StutterOf
<1>5. CASE ~handling /\ ~intr_signal /\ mem_state_reg = "ACCESS"
  <2>1. OpcodeBar' = OpcodeBar
    BY <1>1, <1>5 DEF OpcodeBar
  <2>2. /\ Cpu!Op = Decode[OpcodeBar] /\ Decode[OpcodeBar].op \in {"load", "store"}
    BY <1>5, OpcodeInOrder DEF Ordered, OrderInv, Fetched, Cpu!MemFetch
  <2>3. CASE AccessedBar
    <3>1. cpu_access # NoAccess
      BY <2>3 DEF AccessedBar, NoAccess
    <3>2. ram' = ram
      BY <3>1, MemoryStep
    <3>3. AccessedBar' = TRUE /\ AccessedBar = TRUE
      BY <1>1, <1>2, <1>5, <2>3 DEF AccessedBar
    <3>4. QED
      BY <1>3, <2>1, <3>2, <3>3, StutterOf
  <2>4. CASE ~AccessedBar /\ ~AccessedBar'
    <3>1. cpu_access'.words = {}
      BY <1>1, <1>5, <2>4 DEF AccessedBar
    <3>2. ram' = ram
      BY <3>1, MemoryStep
    <3>3. AccessedBar' = FALSE /\ AccessedBar = FALSE
      BY <2>4 DEF AccessedBar
    <3>4. QED
      BY <1>3, <2>1, <3>2, <3>3, StutterOf
  <2>5. CASE ~AccessedBar /\ AccessedBar'
    <3>1. AccessedBar' = TRUE
      BY <2>5 DEF AccessedBar
    <3>2. ram' = IF Decode[OpcodeBar].op = "store" /\ Decode[OpcodeBar].adr < MemSize
                 THEN [ram EXCEPT ![Decode[OpcodeBar].adr] = Decode[OpcodeBar].dat] ELSE ram
      <4>1. ASSUME ram' # ram PROVE Cpu!Op.op = "store" /\ Cpu!Op.adr < MemSize
        <5>1. MemSize \in Nat
          BY SystemAssumption DEF MemSize, Bus!BusConstants, Slave
        <5>2. Storing /\ Cpu!Op.adr \in 0 .. MemSize - 1
          BY <4>1, MemoryStep
        <5>3. QED
          BY <5>1, <5>2 DEF Storing
      <4>2. ASSUME Cpu!Op.op = "store", Cpu!Op.adr < MemSize
            PROVE  ram' = [ram EXCEPT ![Cpu!Op.adr] = Cpu!Op.dat]
        <5>1. Bus!Cs(Cpu!Op.adr) = {"mem"} /\ Cpu!Op.adr \in Nat
                /\ Bus!Offset(Cpu!Op.adr) % MemSize = Cpu!Op.adr
          BY <4>2, OpTypes, MemoryAddress DEF Ordered, Wires
        <5>2. we_o /\ cyc_os /\ stb_os /\ CPU \in grant_q
          BY <1>5, <2>5, <4>2, <5>1
          DEF AccessedBar, Storing, Ordered, OrderInv, AloneInv, StoreOnItsWay, WritesAreWords
        <5>3. grant_enc = CPU /\ Driver(paused) = CpuPort(paused)
          BY <5>2, DriverIs DEF Ordered, Wires
        <5>4. /\ CpuPort(paused).adr = Cpu!AdrO(paused) /\ CpuPort(paused).stb = stb_os
              /\ CpuPort(paused).we = we_o /\ CpuPort(paused).dat = Cpu!DatO
          BY DEF CpuPort
        <5>5. Cpu!AdrO(paused) = Cpu!Op.adr /\ Cpu!DatO = Cpu!Op.dat
          BY <1>5, <4>2 DEF Cpu!AdrO, Cpu!DataAccess, Cpu!MemFetch, Cpu!DatO
        <5>6. SlaveStb("mem", paused) /\ Driver(paused).we /\ SlaveAdr(paused) % MemSize = Cpu!Op.adr
          BY <5>1, <5>2, <5>3, <5>4, <5>5 DEF SlaveStb, Bus!SlaveStb, SlaveAdr
        <5>7. QED
          BY <5>3, <5>4, <5>5, <5>6 DEF Clock, Mem!Clock, MemSize
      <4>3. QED
        BY <2>2, <4>1, <4>2
    <3>3. QED
      BY <1>3, <2>1, <2>2, <2>5, <3>1, <3>2, AccessOf
  <2>6. QED
    BY <2>3, <2>4, <2>5
<1>6. QED
  BY <1>4, <1>5

(* When the pipeline moves an opcode retires, unless it is a handler's. *)
LEMMA MovesInOrder ==
  ASSUME Ordered, NEW paused \in Paused, NEW irq \in Irq, Clock(paused, irq), EnablesOnReturn,
         paused = FALSE
  PROVE  InOrder!Next \/ UNCHANGED InOrder!vars
<1>1. ram' = ram /\ cpu_access' = NoAccess
  BY MovesBetweenCycles
<1>2. AccessedBar' = FALSE
  BY <1>1 DEF AccessedBar, NoAccess
<1>3. Cpu!Core(paused)
  BY DEF Clock, Cpu!Clock
<1>4. CASE Cpu!CoreInReset
  <2>1. core_reset /\ ~intr_signal /\ ~handling
    BY <1>4 DEF Cpu!CoreInReset, Ordered, OrderInv, StartsClean
  <2>2. ~handling'
    BY <2>1 DEF Clock, Handling
  <2>3. OpcodeBar' = OpcodeBar /\ PcBar' = PcBar
    BY <1>4, <2>1, <2>2 DEF Cpu!CoreInReset, OpcodeBar, PcBar
  <2>4. AccessedBar = FALSE
    BY <2>1 DEF AccessedBar, Ordered, OrderInv, AloneInv, ResetInAddress
  <2>5. QED
    BY <1>1, <1>2, <2>3, <2>4, StutterOf
<1>5. CASE Cpu!CoreAddress(paused)
  <2>1. /\ mem_state_reg = "ADDR" /\ opcode_reg' = opcode_reg /\ pc_reg' = pc_reg
        /\ Cpu!Op.op \in {"load", "store"}
    BY <1>5 DEF Cpu!CoreAddress, Cpu!MemFetch
  <2>2. ~intr_signal
    BY <2>1 DEF Cpu!Op, Cpu!Interrupt
  <2>3. epc' = epc
    BY <2>2 DEF Clock, Cpu!Clock, Cpu!StatusBits
  <2>4. handling' = handling
    <3>1. handling \in BOOLEAN
      BY DEF Ordered, Wires, TypeOK
    <3>2. handling' = (intr_signal \/ (handling /\ Cpu!Op.op # "enable"))
      BY DEF Clock, Handling
    <3>3. QED
      BY <2>1, <2>2, <3>1, <3>2
  <2>5. OpcodeBar' = OpcodeBar /\ PcBar' = PcBar
    BY <1>1, <2>1, <2>3, <2>4 DEF OpcodeBar, PcBar
  <2>6. AccessedBar = FALSE
    BY <2>1 DEF AccessedBar
  <2>7. QED
    BY <1>1, <1>2, <2>5, <2>6, StutterOf
<1>6. CASE Retires(paused) /\ (handling \/ intr_signal)
  <2>1. AccessedBar = FALSE
    BY <1>6 DEF AccessedBar
  <2>2. CASE intr_signal
    <3>1. epc' = pc_reg /\ handling' = TRUE
      BY <2>2, HandlerBegins
    <3>2. ~handling /\ opcode_reg = ram[(pc_reg - 1) % PcSize]
      BY <2>2 DEF Ordered, OrderInv, Interrupted
    <3>3. OpcodeBar' = OpcodeBar /\ PcBar' = PcBar
      BY <1>1, <3>1, <3>2 DEF OpcodeBar, PcBar
    <3>4. QED
      BY <1>1, <1>2, <2>1, <3>3, StutterOf
  <2>3. CASE handling /\ handling'
    <3>1. epc' = epc
      BY <2>3, HandlerGoesOn
    <3>2. OpcodeBar' = OpcodeBar /\ PcBar' = PcBar
      BY <1>1, <2>3, <3>1 DEF OpcodeBar, PcBar
    <3>3. QED
      BY <1>1, <1>2, <2>1, <3>2, StutterOf
  <2>4. CASE handling /\ ~handling'
    <3>1. InHandler
      BY <2>4 DEF Ordered, OrderInv, Interrupted, InHandler
    <3>2. Cpu!Op.op = "enable"
      BY <2>4 DEF Clock, Handling
    <3>3. /\ opcode_reg' = ram[pc_reg] /\ pc_reg' = (pc_reg + 1) % PcSize
      BY <1>6, <3>1, <3>2, Retirement DEF Cpu!Jumps, InHandler
    <3>4. pc_reg = (epc - 1) % PcSize /\ epc \in 0 .. PcSize - 1
      BY <3>1, <3>2 DEF InHandler
    <3>5. (pc_reg + 1) % PcSize = epc
      BY <3>4, WrapAround, SystemAssumption DEF Cpu!CpuConstants
    <3>6. OpcodeBar' = OpcodeBar /\ PcBar' = PcBar
      BY <2>4, <3>3, <3>4, <3>5 DEF OpcodeBar, PcBar
    <3>7. QED
      BY <1>1, <1>2, <2>1, <3>6, StutterOf
  <2>5. QED
    BY <1>6, <2>2, <2>3, <2>4
<1>7. CASE Retires(paused) /\ ~handling /\ ~intr_signal
  <2>1. /\ opcode_reg' = ram[pc_reg]
        /\ pc_reg' = IF Cpu!Op.op \in Cpu!Jumps THEN Cpu!Op.adr ELSE (pc_reg + 1) % PcSize
        /\ Cpu!Op.op \in {"load", "store"} => cpu_access.words # {} \/ cpu_access.err
    BY <1>7, Retirement
  <2>2. ~handling'
    BY <1>7 DEF Clock, Handling
  <2>3. OpcodeBar = opcode_reg /\ PcBar = pc_reg /\ Cpu!Op = Decode[OpcodeBar]
    BY <1>7, OpcodeInOrder
  <2>4. OpcodeBar' = ram[PcBar] /\ PcBar' = pc_reg'
    BY <2>1, <2>2, <2>3 DEF OpcodeBar, PcBar
  <2>5. Cpu!Op.op \in Cpu!Jumps <=> Cpu!Op.op = "jump"
    <3>1. Cpu!Op.op # "return"
      BY <1>7 DEF Ordered, Conventions
    <3>2. Decode[OpcodeBar].op # "interrupt"
      <4>1. opcode_reg \in Value
        BY DEF Ordered, Wires, TypeOK
      <4>2. QED
        BY <2>3, <4>1, SystemAssumption DEF Cpu!CpuConstants
    <3>3. QED
      BY <2>3, <3>1, <3>2 DEF Cpu!Jumps
  <2>6. PcBar' = IF Decode[OpcodeBar].op = "jump" THEN Decode[OpcodeBar].adr
                 ELSE (PcBar + 1) % PcSize
    BY <2>1, <2>3, <2>4, <2>5
  <2>7. Decode[OpcodeBar].op \in {"load", "store"} => AccessedBar
    <3>1. Cpu!Op.op \in {"load", "store"} => mem_state_reg = "ACCESS"
      BY <1>7 DEF Retires, Cpu!CoreFetch, Cpu!CoreAccess, Cpu!MemFetch
    <3>2. QED
      BY <1>7, <2>1, <2>3, <3>1 DEF AccessedBar
  <2>8. QED
    BY <1>1, <1>2, <2>4, <2>6, <2>7, RetireOf
<1>8. QED
  BY <1>3, <1>4, <1>5, <1>6, <1>7 DEF Cpu!Core, Cpu!CorePaused, Retires

(***************************************************************************)
(* The CPU alone on the bus executes its program in order, and interrupts  *)
(* do not show: for every memory, every decoder, every program that keeps  *)
(* to the conventions, and an interrupt line that does what it likes.      *)
(* Words are fetched one access ahead, wait while the bus or the           *)
(* multiplier holds the CPU, and are taken up after loads and stores and   *)
(* after a handler, over all of which the theorem looks no difference.     *)
(***************************************************************************)
THEOREM RunsInOrder ==
  ASSUME MemMap["mem"].base = 0
  PROVE  Spec /\ []Conventions /\ [][EnablesOnReturn]_vars => ExecutesInOrder
<1>1. Init => InOrder!Init
  <2> SUFFICES ASSUME Init PROVE InOrder!Init
    OBVIOUS
  <2>1. /\ opcode_reg = Zero /\ pc_reg = 0 /\ mem_state_reg = "ADDR" /\ ~handling
    BY DEF Init, Cpu!Init
  <2>2. ram \in [0 .. MemSize - 1 -> DOMAIN Decode]
    <3>1. MemSize - 1 = MemMap["mem"].size /\ DOMAIN Decode = Value
      BY SystemAssumption DEF MemSize, Bus!BusConstants, Slave
    <3>2. TypeOK
      BY InitTypes
    <3>3. QED
      BY <3>1, <3>2 DEF TypeOK
  <2>3. QED
    BY <2>1, <2>2 DEF InOrder!Init, MemSize
<1>2. Ordered /\ [Next]_vars /\ [EnablesOnReturn]_vars => [InOrder!Next]_(InOrder!vars)
  <2> SUFFICES ASSUME Ordered, [Next]_vars, [EnablesOnReturn]_vars
               PROVE  InOrder!Next \/ UNCHANGED InOrder!vars
    OBVIOUS
  <2>1. CASE UNCHANGED vars
    BY <2>1 DEF vars, Cpu!cpuVars, Mem!memoryVars, InOrder!vars
  <2>2. CASE Tick /\ EnablesOnReturn
    <3>1. PICK paused \in Paused, irq \in Irq : Clock(paused, irq)
      BY <2>2 DEF Tick
    <3>2. paused \in BOOLEAN
      BY DEF Paused, PauseSettles
    <3>3. QED
      BY <2>2, <3>1, <3>2, HeldInOrder, MovesInOrder
  <2>3. CASE Reset
    <3>1. OpcodeBar' = Zero /\ PcBar' = 0 /\ AccessedBar' = FALSE /\ ram' = ram
      BY <2>3 DEF Reset, Cpu!Reset, Mem!Reset, OpcodeBar, PcBar, AccessedBar
    <3>2. QED
      BY <3>1, RestartOf
  <2>4. QED
    BY <2>1, <2>2, <2>3 DEF Next
<1>3. Wires /\ Conventions /\ OrderInv /\ [Next]_vars /\ [EnablesOnReturn]_vars => OrderInv'
  <2> SUFFICES ASSUME Ordered, [Next]_vars, [EnablesOnReturn]_vars PROVE OrderInv'
    BY DEF Ordered
  <2>1. CASE UNCHANGED vars
    BY <2>1, OrderStutters
  <2>2. CASE Tick /\ EnablesOnReturn
    BY <2>2, OrderTick
  <2>3. CASE Reset
    BY <2>3, OrderReset
  <2>4. QED
    BY <2>1, <2>2, <2>3 DEF Next
<1>4. Wires /\ Conventions /\ OrderInv => Ordered
  BY DEF Ordered
<1>5. QED
  BY <1>1, <1>2, <1>3, <1>4, OrderInit, WiresHold, PTL DEF Spec, ExecutesInOrder, InOrder!Spec

(* By the constants: a HPS that never has a transfer, no interrupts, and a *)
(* program that stays in its memory and stores behind it.                  *)
KeepsToItself ==
  /\ \A t \in Transfer : t.op = "idle"
  /\ Irq = {FALSE}
  /\ PcSize <= MemSize
  /\ \A v \in Value : /\ Decode[v].op # "return"
                      /\ Decode[v].op = "jump" => Decode[v].adr < PcSize
                      /\ Decode[v].op = "store" => Decode[v].adr >= PcSize

Undisturbed == ~intr_signal /\ ~handling /\ pc_reg \in 0 .. PcSize - 1

LEMMA OpIsDecoded ==
  ASSUME TypeOK, KeepsToItself, Undisturbed
  PROVE  /\ Cpu!Op = Decode[opcode_reg] /\ Cpu!Op.op # "return"
         /\ Cpu!Op.op \in Cpu!Jumps => Cpu!Op.adr \in 0 .. PcSize - 1
         /\ Cpu!Op.op = "store" => Cpu!Op.adr # pc_reg
<1>1. opcode_reg \in Value /\ PcSize \in Nat \ {0} /\ pc_reg \in 0 .. PcSize - 1
  BY SystemAssumption DEF TypeOK, Cpu!CpuConstants, Undisturbed
<1>2. Decode[opcode_reg].adr \in Nat
  BY <1>1, SystemAssumption
<1>3. Decode[opcode_reg].op \in {"alu", "mult", "jump", "load", "store", "enable", "return"}
  BY <1>1, SystemAssumption
<1>4. Decode[opcode_reg].op # "return"
  BY <1>1 DEF KeepsToItself
<1>5. Cpu!Op = Decode[opcode_reg]
  BY <1>4 DEF Cpu!Op, Undisturbed
<1>6. /\ Decode[opcode_reg].op = "jump" => Decode[opcode_reg].adr < PcSize
      /\ Decode[opcode_reg].op = "store" => Decode[opcode_reg].adr >= PcSize
  BY <1>1 DEF KeepsToItself
<1>7. Cpu!Op.op \in Cpu!Jumps => Cpu!Op.op = "jump"
  BY <1>3, <1>4, <1>5 DEF Cpu!Jumps
<1>8. QED
  BY <1>1, <1>2, <1>4, <1>5, <1>6, <1>7

LEMMA StaysUndisturbed ==
  ASSUME TypeOK, KeepsToItself, Undisturbed, [Next]_vars
  PROVE  Undisturbed'
<1>1. PcSize \in Nat \ {0} /\ pc_reg \in 0 .. PcSize - 1
  BY SystemAssumption DEF Cpu!CpuConstants, Undisturbed
<1>2. CASE Tick
  <2>1. PICK paused \in Paused, irq \in Irq : Clock(paused, irq)
    BY <1>2 DEF Tick
  <2>2. ~irq
    BY <2>1 DEF KeepsToItself
  <2>3. ~intr_signal' /\ ~handling'
    BY <2>1, <2>2 DEF Clock, Cpu!Clock, Cpu!Sample, Handling, Undisturbed
  <2>4. (pc_reg + 1) % PcSize \in 0 .. PcSize - 1
    BY <1>1
  <2>5. Cpu!PcFuture(paused) \in 0 .. PcSize - 1
    BY <1>1, <2>4, OpIsDecoded DEF Cpu!PcFuture
  <2>6. Cpu!Core(paused)
    BY <2>1 DEF Clock, Cpu!Clock
  <2>7. pc_reg' = pc_reg \/ pc_reg' = Cpu!PcFuture(paused)
    BY <2>6 DEF Cpu!Core, Cpu!CoreInReset, Cpu!CorePaused, Cpu!CoreFetch, Cpu!CoreAddress,
                Cpu!CoreAccess
  <2>8. QED
    BY <1>1, <2>3, <2>5, <2>7 DEF Undisturbed
<1>3. CASE Reset
  BY <1>1, <1>3 DEF Reset, Cpu!Reset, Undisturbed
<1>4. CASE UNCHANGED vars
  BY <1>4 DEF vars, Cpu!cpuVars, Undisturbed
<1>5. QED
  BY <1>2, <1>3, <1>4 DEF Next

(* An uninterrupted CPU with the bus to itself executes its program in     *)
(* order, whatever the slaves do.                                          *)
THEOREM RunsInOrderUndisturbed ==
  ASSUME MemMap["mem"].base = 0, KeepsToItself
  PROVE  Spec => ExecutesInOrder
<1>1. Init => Undisturbed
  BY SystemAssumption DEF Init, Cpu!Init, Undisturbed, Cpu!CpuConstants
<1>2. TypeOK /\ Undisturbed /\ [Next]_vars => Undisturbed'
  BY StaysUndisturbed
<1>3. TypeOK /\ Undisturbed => Conventions
  <2> SUFFICES ASSUME TypeOK, Undisturbed PROVE Conventions
    OBVIOUS
  <2>1. ~Hps!Busy
    BY DEF TypeOK, KeepsToItself, Hps!Busy
  <2>2. MemSize \in Nat /\ PcSize \in Nat
    <3>1. MemMap["mem"].size \in Nat /\ PcSize \in Nat
      BY SystemAssumption, Zenon DEF Bus!BusConstants, Slave, Cpu!CpuConstants
    <3>2. QED
      BY <3>1 DEF MemSize
  <2>3. pc_reg \in 0 .. PcSize - 1 /\ pc_reg < MemSize /\ ~handling
    BY <2>2 DEF Undisturbed, KeepsToItself
  <2>4. QED
    BY <2>1, <2>3, OpIsDecoded DEF Conventions
<1>4. Undisturbed' => EnablesOnReturn
  BY DEF Undisturbed, EnablesOnReturn
<1>5. Undisturbed /\ Undisturbed' => [EnablesOnReturn]_vars
  BY <1>4
<1> HIDE DEF Undisturbed
<1>6. Spec => [](TypeOK /\ Undisturbed)
  BY <1>1, <1>2, TypeCorrect, PTL DEF Spec
<1>7. Spec => [][EnablesOnReturn]_vars
  BY <1>5, <1>6, PTL
<1>8. QED
  BY <1>3, <1>6, <1>7, RunsInOrder, PTL
=============================================================================
