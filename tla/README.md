# Plasma-SoC: a verification development

Plasma-SoC is a small system on chip in VHDL: the Plasma CPU (MIPS I), an
ARM host ("HPS") behind an Avalon bridge, and a set of peripherals on one
shared wishbone bus. This directory holds TLA+ modules that model the
hardware edge by edge, TLC configurations that check them on small instances,
and TLAPS proofs. The reference is `src/rtl`, in the DE1-SoC build
(`plasma_soc.de1_soc.vhd`).

## Inventory

| Part | State | Operations | Interacts through |
|---|---|---|---|
| Arbiter `wishbone/arbiter.vhd` | `grant_q`, `grant_prev`, `grant_enc` | an edge that holds the grant or hands it over; reset | `cyc` of the masters, `ack` from the bus, grant to the bus |
| Shared bus `wishbone/shared_bus.vhd` | none (a latch on the data) | decode, gate strobes, multiplex answers, error of an undecoded address | combinationally with everybody |
| CPU front end `wishbone/wrapper/master_cpu.vhd` | `cyc_os`, `stb_os`, `we_o`, `dat_is` | start, strobe, await, error, reset | bus; pauses the CPU |
| CPU core `plasma/*.vhd` | `pc_reg`, `opcode_reg`, `next_opcode_reg`, `mem_state_reg`, registers, multiplier; interrupt flag, enable bit, EPC | fetch, address, access, pause, interrupt, return | front end; interrupt controller |
| HPS bridge `avalon/avalon_to_wb_bridge.vhd` | `cycstb_s` | start, end, reset | bus; the HPS waits on `waitrequest_n` |
| Memory `wrapper/slave_memory.vhd`, `plasma/ram.vhd` | contents, `ack_o`, output word | access | bus |
| UART `wrapper/slave_uart.vhd`, `plasma/uart.vhd` | control, characters, transmitter and receiver | register read and write, shift, receive | bus (`stall`), serial line |
| Timers, counters `timer/`, `counter/` | control, reload, count | register access, count, overflow | bus, interrupt controller |
| Interrupt controller `irc/` | clear, invert, mask, edge, per channel raw, edge, state | register access, sample (rising edge), capture (falling edge) | bus, CPU |
| GPIO `gpio/` | output latch, mask | register access | bus, pins, interrupt controller |
| SPI `spi/` | state, clock, shift register | transfer, register access | bus, pins |
| OLED `oled/` (ZedBoard) | walk over pages and characters | start-up, update, text | bus, SPI |
| Wishbone to Avalon bridge `avalon/wb_to_avalon_bridge.vhd` | command, answer | command, wait | bus, fabric |
| Multiplier `plasma/mult.vhd` | two words, count, signs | 32 steps | CPU |
| Host software `sw/hps` | none | read and write registers | bridge |

What is hard here:

* **Concurrency.** Every register moves on the same edge; the CPU and the HPS
  issue accesses at any time and the slaves answer one edge later, when the
  bus may already belong to the other master.
* **Ordering.** Address, write enable, strobe and acknowledge of one access do
  not share their cycles: the write enable is registered, the address is
  combinational, the acknowledge is registered.
* **Waiting.** Stalls, multiplier pauses and a combinational loop between
  pause, address and stall.
* **Reset** in the middle of an access, of the fabric and not of the host.
* **Boundaries** in the counters, the multiplier and the SPI bit count.
* **Registers on the way.** A value written reaches the part it is for one to
  three edges later, in the UART, the timer and the GPIO, and part of the way is
  held by the reset the same write may set.
* **Foreign clocks** on the serial line, and a device on the SPI pins that counts
  edges of its own.
* **Interrupts** between any two opcodes, pauses and jumps included.

What makes each part correct: one consistent owner of the bus and bounded
waiting (arbiter); each master gets the answer to its own access (bus); each
access happens once (front end, bridges); instructions execute in order,
interrupted or not (core); no character or word is lost, invented or shifted
(UART, SPI); an overflow when the reload is over and each interrupt edge seen
once (counters, timers, interrupt controller); the pins follow the registers
(GPIO); products and quotients are right (multiplier).

## Modules

| Module | Models |
|---|---|
| `Arbiter` | the arbiter's registers; bit vectors are sets of channels |
| `BusArbitration` | the arbiter between masters that follow the protocol; its properties |
| `BusOwnership` | abstract: the bus has one owner at a time, kept until the acknowledge, with bounded overtaking |
| `BusArbitrationProofs` | theorems about `BusArbitration`, for any number of masters |
| `SharedBus` | decoding and multiplexing, as operators |
| `MasterCpu` | the CPU's front end, memory control, program counter and interrupt entry |
| `AvalonToWb` | the bridge and the HPS that drives it |
| `SlaveMemory`, `SlaveUart` | two slaves: one that always answers in one edge, one that stalls and reports errors, with a transmitter that ends when it likes |
| `SystemBus` | all of these composed; its properties |
| `SystemBusProofs` | theorems about `SystemBus`, for every program, memory map, decoder and HPS; some under conditions that they name |
| `InOrderCpu` | abstract: a program executes in order, each load and store accesses memory once |
| `Counter`, `SlaveCounter` | a counter and its register file |
| `SlaveIrc` | the interrupt controller: registers, sampling, capture |
| `CounterInterrupt` | both, wired as in the SoC, with the software that uses them; its properties |
| `PeriodicCounter` | abstract: once started, an overflow after every `period` clocks |
| `CounterInterruptProofs` | theorems about `CounterInterrupt`, for any width and reloads |
| `Uart` | transmitter, averaged input and receiver of `uart.vhd`, edge by edge |
| `UartLine` | `Uart` behind the registers of `SlaveUart`, with a bus master in front and a serial device of another clock at the end of the line |
| `SerialFrame` | abstract: a line that carries whole frames |
| `SpiControl` | the SPI state machine, its two counters and the shift register |
| `SpiTransfer` | `SpiControl` behind its registers, with a bus master and a device at the pins |
| `Multiplier` | multiplication and division, step by step, in any width; its properties |
| `MultiplierProofs` | theorems about `Multiplier`, for every width, every operand and every order of functions |
| `WbToAvalon`, `BridgePair` | the outgoing bridge; both bridges back to back, with a master and a slave |
| `BridgePairProofs` | theorems about `BridgePair`, for every set of words |
| `Timer`, `TimerSetup` | register file and unit conversion in front of `Counter`; with the software that sets it up |
| `TimerSetupProofs` | theorems about `TimerSetup`, for every width, table of units and pace |
| `Gpio` | registers, output latch, input register and mask, with a bus master |
| `GpioProofs` | theorems about `Gpio`, for all words and pins |
| `Cores` | the six of these that stand alone, side by side; their properties |
| `CoresProofs` | the theorems of the other proof modules about each core, carried over to `Cores`; theorems about its UART and SPI controller |
| `MCBusArbitration`, `MCSystemBus`, `MCCpuAlone`, `MCCounterInterrupt`, `MCCores` | TLC instances |

A component module has the registers of its entity as VARIABLES with the
source's names, `Init`, `Clock(inputs)` for one rising edge and `Reset` for
`rst_i`. Combinational signals are operators. `SystemBus` instantiates the
components, defines the wires between them, and takes one conjunction of all
`Clock`s per edge. `Cores` looks at one of its parts per behaviour (`subject`):
they share nothing but the clock, and a product of their states would only
multiply them. Operators marked "faulty" are deliberate mistakes; no
behaviour uses them, and each shows that a property notices that mistake.

### How the code maps to the model

* An opcode is a word of memory. `Decode` says whether it is a load, a store,
  a jump, a use of the multiplier or anything else, and what it addresses. The
  register file and the ALU are behind it.
* Addresses count words, and every access is of one word.
* Times become choices: the transmitter may end a character, and the
  multiplier may be ready, at any later edge; fairness says that they do.
* `mem_pause` depends on `stall`, `stall` on the address, the address on the
  pause. `SystemBus!PauseSettles` lets the loop rest at any consistent value,
  or take either value where there is none.
* Reset is asynchronous in most entities and synchronous in the bridge;
  `SystemBus!Reset` stands for a reset that lasts at least one edge.
* The wires of an instance that is not in the model (other slaves) are absent; a
  slave that does not stall answers like the UART or the memory.
* An interrupt replaces the opcode in execution by a jump to `Vector`; EPC is the
  program counter then, one word behind the opcode that was replaced. The handler
  is code outside the repository. What it has to do follows from
  `mlite_cpu.vhd` ("epc will contain pc+4"): subtract a word from EPC, jump
  there, and enable interrupts again in the delay slot of that jump. The model
  has it do so at once. The line (`Irq`) may be up or down whenever it is
  sampled. While it stays up the interrupted program need not advance by a
  single opcode, which `HandlerReturns` therefore does not ask for.
* In `UartLine`, `SpiTransfer` and `Gpio` the master is the CPU's front end,
  whose strobe is up for one edge or for as long as it is stalled, or the HPS's
  bridge, which ignores the stall and strobes until it sees the acknowledge.
* The write enable of the CPU is up for the first edge of a strobe, the
  bridge's for all of it. `SystemBus` and `UartLine` have it so; in `SpiTransfer`
  and `Gpio` a second edge would write the same word again.
* What the drivers do is what their core lets them do. `UartLine` has four, for
  sending with a look at the status, for sending without, for receiving by interrupt
  and for polling. `SpiTransfer` has the one
  order of accesses that does not hang (below). `TimerSetup` writes in the order
  that the head of `counter.vhd` gives.
* A word of the GPIO is the set of its bits that are up; words of the serial
  cores are sequences of bits.

* The CPU's program for the counters is not in the repository (its library,
  `dev/counter.h`, is elsewhere). `CounterInterrupt` lets it do what the head
  of `counter.vhd` asks for: reload, direction, reset, enable, each write a
  step of its own with any number of edges between them, starting over at any
  time. Anyone may read the counter, and mask, clear or change the detection of
  its channel, at any edge.
* A step of `SlaveIrc` is a rising edge and the falling edge after it. Its
  channels do not interact; the composition has the counter's.
* The reset of the counter is a level that acts between edges: `Counter!Clock`
  gets it, and the direction, before and after the edge.

History variables do not influence the system; each module marks its own.
`SystemBus` keeps the words returned and the writes performed for the access a
master has on the bus (`cpu_access`, `hps_access`); `CounterInterrupt` keeps
`ended`, `owed` (a period ended on an enabled channel and was not cleared since)
and `since`, the clocks since the last overflow; `UartLine` the characters
`owed` and `arriving`, and whether the last one was read or announced;
`SpiTransfer` the words at the start of a transfer and whether a reset broke it;
`Multiplier` its `goal` and what LO and HI were written since (`wrote`);
`BridgePair` what the far slave answered; `TimerSetup` the clocks until the
overflow is `due`; `Gpio` the words `written` and `shown`.

### Uses that the cores do not support

Met while modelling; no document says otherwise, so they are restrictions of the
model's masters and not findings.

* UART: the bridge does not look at the stall, so that a character it writes
  while one is being sent is lost; its driver has to see
  "ready" first (the CPU's too, see `lost_character`). `irq_uart` is not wired in
  the DE1-SoC build (the lines are commented out), only in the ZedBoard's; the driver that receives by interrupt
  is one of that wiring. A CPU that reads the data register during a
  transmission is stalled with its strobe up and repeats the read at each edge:
  a receiving driver does not send at the same time.
* SPI: the controller is ready only when a transfer is done. In every other
  state it stalls the CPU and leaves the bridge without an answer, except that
  the access which sets the enable bit ends when the transfer does. The reset
  keeps the control, data and address registers, so that a transfer starts over
  with the device still selected. `irq_o` never rises. The slave decodes address
  bits 7 to 4, of which the map of the DE1-SoC, 16 bytes, reaches one register.
* Outgoing bridge: a master that holds its strobe until the acknowledge, as the
  HPS's bridge does, has its command issued twice; a fabric that does not ask to
  wait while idle ends an access before its command is out. `BridgePair` has the
  master and the fabric of the repository's test proxy.
* Timer: its unit, tick and reload registers stand still during reset. A write
  that sets the unit and the reset bit together starts the counter with the old
  unit; the model's software writes the unit first. Two writes have to
  be two edges apart (`Gap`), which either master's pace guarantees.
* GPIO: the output latch opens with the write enable of the whole bus, one edge
  before the data register has the word. A word the CPU writes is at the pins
  only after its next write, to any slave; the bridge's is there at once.
* Multiplier: HI of a signed product is wrong when the multiplicand is the most
  negative word and the multiplier negative; `ProductsRight` leaves that one
  out (`Overflows`).

## Runs

| Run | Instance | Shows |
|---|---|---|
| `arbiter` | four masters, any requests and acknowledges | the two grant registers agree; a waiting master is overtaken at most `N - 1` times because each grant brings its turn closer; nobody starves; the arbiter implements `BusOwnership` |
| `cpu_alone` | 98 loops of two opcodes and a jump with its delay slot, over the memory, the UART, an undecoded address and the multiplier, and 27 that enable interrupts, with a handler and a line up or down at any sample; stalls, resets; HPS silent | interrupted anywhere or not, the CPU implements `InOrderCpu`: no jump loses its delay slot, no opcode is lost, repeated or split; stores arrive and arrive once (a stalled strobe is seen by the UART at every edge); it never hangs; the handler is never interrupted and returns |
| `separate_slaves` | CPU on the memory, HPS on the UART and on an undecoded address | each master gets the words of the addresses it drove, and the HPS is served |
| `shared_memory` | both on the memory | an accepted access keeps the bus, so that it is not repeated; the CPU keeps running |
| `stale_ack` | both on the memory | **violation**: the CPU takes the HPS's word for its own |
| `lost_store` | CPU stores, HPS on the UART | **violation**: a store is executed and reaches no slave |
| `counter_interrupt` | four-bit counter, three reloads, both directions, with and without autoreload | set up in the documented order the counter agrees with its registers (`SetUpConsistent`) and implements `PeriodicCounter`; the end of a period on an enabled channel is pending until cleared; each is raised once under edge detection; with autoreload they keep coming |
| `cores` | each of the six cores with its master and its counterpart | UART: one transmission per write after a status that said ready, whole frames on the line, each character received once from a device of another clock and read once; it implements `SlaveUart`, whose stall ends. SPI: words exchanged whole, accesses end. Multiplier: products, quotients and remainders. Bridges: one transfer each way, the command stable, the master released. Timer: the overflow when it is due. GPIO: pins and interrupts as written |
| `lost_character` | the UART with a CPU that writes whenever it likes | **violation**: the CPU is paused, and the character is never sent |
| `signed_remainder` | the multiplier of `cores` | **violation**: the remainder of a negative dividend has no sign |
| `polled_character` | the UART with a polling driver | **violation**: a character is announced to nobody |
| `running_reload` | the same as `counter_interrupt`, and a key that halves or doubles the reload of the running counter | **violation**: a period longer than every reload in use |

### The six violations

`stale_ack`. A slave acknowledges each cycle in which it saw a strobe, one edge
later. The bridge holds its strobe until it sees the acknowledge, so the slave
sees the strobe twice. The arbiter hands the bus to the CPU on the first
acknowledge; in the CPU's first strobe cycle the second acknowledge is up, and
the front end takes it together with the word the HPS read. `separate_slaves`
shows that different slaves suffice to avoid it.

`lost_store`. `we_o` is the byte enable delayed by one edge, and the byte enable
is up for one cycle. If the HPS owns the bus in the cycle in which `we_o` is up
the store's strobe reaches its slave later, as a read. `cpu_alone` shows that it
never happens without a second master.

`lost_character`. `plasma_soc.de1_soc.vhd` says "Uart Write (will pause CPU if
busy)". The CPU is paused, its strobe stays up at the UART, but the write enable
was up for the first edge of it only, as in `lost_store`. That edge pulses
`enable_write`, which `uart.vhd` ignores while it shifts out the character before;
when it is done the access ends as a read. The loop of address, stall and
pause has no stable value in the cycle before (`PauseSettles`), so the CPU may take
it for one that is not paused. `OncePerWrite` is about drivers that read the status
first, as the bridge must: what they write is sent.

`running_reload`. Going up, a period ends where the count equals `reload - 1`.
`led_pattern_mgr` halves the reload of a running counter to make the LED
pattern faster ("KEY1 pressed: pattern moves faster"). If the count is past the
new end by then, it runs to the end of its range, 2^32 clocks, before the next
overflow. Under `Spec`, without the keys, `KeepsItsPromise` says that every
period has its length. Which direction the pattern's counter runs in is not
said in the repository; up is the one after reset.

`signed_remainder`. `control.vhd` says of DIV `s->hi=r[rs]%r[rt]`. `mult.vhd`
divides the magnitudes and negates LO alone when it is read: −16 / 3 leaves −5 in
LO and 1 in HI. `QuotientsRight` shows that quotients are right and that HI is the
remainder of the magnitudes, for every sign.

`polled_character`. `slave_uart.vhd` latches the status on the edge of the
strobe, and clears `data_avail` one edge later after a read of any register. A
character that is complete in between sets the flag, which falls again at once:
no status read and no interrupt ever announces it. `EachCharacterOnce` and
`ReadOnce` show that it does not happen to a driver that never polls.

### Two more disagreements

`control.vhd` has a table of what the opcodes do. The multiplier differs from it in
three places, of which `signed_remainder` is one. The other two are stated by the
properties of `cores`, which say what `mult.vhd` does:

* MULT and MULTU. The table says `s->lo=r[rs]*r[rt]; s->hi=0;`; HI is the upper word
  of the product (`ProductsRight`), the 64-bit answer that the head of `mult.vhd`
  describes, and what MIPS asks for. The code is kept and the table is taken to be
  wrong.
* MTHI. The table says `s->hi=r[rs]` and nothing of LO. The sign of a quotient is
  in `negate_reg` until LO is read, and a write of either word clears it: a
  negative quotient that is read after MTHI has lost its sign (`QuotientsRight`).
  MIPS leaves LO undefined there.

### Bounds

* Four masters let the round robin pass over several waiting masters and wrap;
  the SoC has two. The proofs cover every number.
* A loop of `cpu_alone` holds a pair of opcodes, a jump back and, in
  its delay slot, a load from memory or a store to the UART; the state of the CPU
  spans at most two opcodes. The pairs are all of seven opcodes: a use of the multiplier, a jump, loads and stores of
  memory and UART, a load from nowhere. Interrupted, they are all of three, and
  so is the delay slot: a load, a store and a use of the multiplier.
* The address map has a memory, a peripheral and a hole: each way the bus can
  answer. Larger maps add slaves of the same two kinds.
* `MaxWrites` counts the writes of one access up to two, enough to tell twice
  from once.
* With the HPS active the programs are loops over a smaller set of opcodes
  (`MemoryLoops`, `ShortLoops`), and the HPS drives one or two addresses. No
  program writes the words it executes.
* `UartLine` has characters of three bits, of 13 edges each, and averages its
  input with a counter to 3; the SoC has eight bits of 869 edges and a counter to
  255, in about the same proportion. Accesses start at any edge of a character.
  The other device's bits are up to one edge longer or shorter (`Drift`).
* SPI words of three bits have a first, a middle and a last one; `Divisor` 3 is
  the smallest the model allows. The words to exchange differ in each bit.
* Multiplier: words of five bits hold each path of the iteration, the four-bit
  shortcut and one more bit. All pairs of operands for each function, and each of
  them cut short, at any step, by one of some later functions (`MaxIssued` 2).
* Timer: units of one clock and of three, reloads 2 to 4, a counter of four
  bits; in that range no product wraps. `Gap` 2 is faster than either master,
  and with a gap of one `ExpiresOnTime` does not hold.
* GPIO: one output and one input pin; pins do not interact.
* Four bits are the narrowest counter that holds its own control word. The
  reloads 2, 4 and 7 have the shortest period the model allows, two that halve
  into each other and an odd one; reload 0 and 1 are left out, since nothing
  says what they mean (0 is the full range, 1 never overflows going up).
* `MaxSince` stops the history `since` at twice the counter's range, beyond
  every reload.

### Fairness

`BusArbitration!FairSpec`: the clock runs, and the cycle of a granted master is
acknowledged in the end. It is an assumption about slaves, and `HpsServed` and
`CpuKeepsRunning` show it of the composed system, whose fairness is weaker:
`SystemBus!FairSpec` says that the clock runs, a character is finished (the
UART counts its bits), the multiplier is ready (it counts 32 steps; strong
fairness, since a use of it may be paused for other reasons in between), and
the core leaves its reset (a counter to 15). Resets stop. Nothing is assumed of
the HPS: it may stop, or issue transfers without a pause.

`Cores!FairSpec` says that the clock runs (`UartTick`, `SpiTick`, `PairTick`),
that resets end, and that the slave behind the two bridges answers
(`PairAnswers`), which `SystemBus` shows of its slaves. The drivers need not do
anything. `TransmissionEnds` is the fairness that `SystemBus!FairSpec` assumes of
the UART, shown here of the bits it counts.

`CounterInterrupt!FairSpec` says that the clock runs, whatever it does at each
edge. The software may stop at any point; `KeepsInterrupting` is about one that
leaves the counter running and its channel enabled from some point on.

## Proofs

Each theorem holds for every value of the constants that the named assumption
of its module allows; TLC evaluates the assumptions in the runs. Most of the
properties are not inductive. Each section says what had to be added to them.

### The arbiter

`BusArbitrationProofs`, for every `N` in `Nat \ {0}`:

* `TypeCorrect`, `GrantIsConsistent`, `TurnsComeCloser`, `BypassIsBounded`:
  `Spec => []TypeOK`, `[]GrantConsistent`, `[]TurnComesCloser`,
  `[]BoundedBypass`;
* `ArbiterImplementsOwnership`: `Spec => ImplementsOwnership`, the refinement.

`BoundedBypass` says nothing of how long a master still waits.
`TurnComesCloser` adds the distance to its turn (`Ahead`): what a master
was overtaken plus the grants still ahead of it is at most `N - 1`. With
`TypeOK` and `GrantConsistent` it is inductive (`IInv`). The core is lemma
`GrantComesCloser`: the masked least significant bit is closer to the previous
grant, around the ring, than every other requester. The refinement has one
lemma for an edge that holds the grant and one for an edge that hands it over.

### Counter and interrupt controller

`CounterInterruptProofs`, for every `Modulus > 15` (the control word has
four bits) and every set of `Reloads` from 2 to `Modulus - 1`:

* `TypeCorrect`, `SetUpIsConsistent`, `InterruptsAreKept`:
  `Spec => []TypeOK`, `[]SetUpConsistent`, `[]NoInterruptLost`;
* `RaisedOnce`: the action property `RaisedOncePerPeriod`;
* `CounterKeepsItsPromise`: `Spec => KeepsItsPromise`, the refinement.

`SetUpConsistent` is inductive with the types: each phase of the set-up carries
what the next write relies on. `NoInterruptLost` is not: an end of a period is
captured under edge detection only if the sample before it was low. `Sampled`
adds that the sample is high after an end of a period and low before a new one,
which holds since periods have at least two clocks. Every access but the writes
of the set-up is `Quiet` for the counter; `RunningStep` and `LeftFalls` say what
a quiet edge does, `SampledStep` what any edge does to the controller, and the
theorems follow per action.

### The system bus

`SystemBusProofs` assumes `SystemAssumption`, what the constants have to be to
describe a program, a memory map without overlaps and an HPS at all. Three
theorems hold of every behaviour:

* `TypeCorrect`: `Spec => []TypeOK`;
* `BusIsKept`: `Spec => []AcceptedKeepsBus`. It is inductive with the types of
  `cyc_os` and `stb_os` and with `OneOwner` (nobody or one of the two is
  granted): then an accepted strobe makes the CPU the owner, no acknowledge can
  be anybody else's, and without one the arbiter holds the grant. What the HPS
  and the slaves do is not used;
* `StoredOnce`: `Spec => []NoDoubleStore`, from `WriteFirst`: the write enable is
  up in the first cycle of an access only. It is also why a store can be lost
  (`lost_store`): the enable of the first cycle may meet a bus that is not
  granted.

The others are false of some programs, as `stale_ack` and `lost_store` show.
What they need besides is a condition on the behaviour, in the theorem, and
then one on the constants that makes it hold:

* `CpuGetsItsOwn`, `HpsGetsItsOwn`: `Spec /\ []Separate(Mine) =>
  []CpuGetsWhatItAddressed` and `[]HpsGetsWhatItAddressed`. `Separate(Mine)` says
  that the addresses the CPU drives select slaves of `Mine` only and those of the
  HPS's transfers none of them, for any set `Mine`. The invariants are `CpuWords`
  and `HpsWords`: a slave of the master that acknowledges shows a word of that
  master's access. The late acknowledge of a slave of the other
  master may still come and end an access, but it comes with no strobe of this
  master and its words are never taken (`CpuStrobesOwn`, `OneSelected`).
  `SeparateMasters` draws both from `UsesOnly`, about program, map and transfers
  alone, which the constants of `separate_slaves` satisfy;
* `StoreArrives`: `Spec /\ []Alone => []StoreDelivered`. `Alone` says that the HPS
  is silent and no opcode is fetched from the UART. The invariant (`AloneInv`)
  carries a store through its access: it has reached its slave, does so in this
  cycle, or addresses nobody. For the write enable to meet a granted bus the CPU
  has to own the bus whenever its core runs (`HasBus`), which a late
  acknowledge would end; the memory leaves none (`MemoryAnswersOnce`), and one
  of the UART is over before a data access can start (`NothingLeft`), unless it
  is a fetch from the UART that leaves it. `StoreArrivesAlone` has constants only,
  an HPS without transfers and programs that fetch from memory, as in
  `cpu_alone`;
* `RunsInOrder`: `Spec /\ []Conventions /\ [][EnablesOnReturn]_vars =>
  ExecutesInOrder`, the refinement of `InOrderCpu`, interrupts included.
  `Conventions` is the contract of program and handler: opcodes come from memory,
  no store overwrites the opcode behind it, only a handler returns, and it leaves
  the memory as it is; `EnablesOnReturn`, that it enables interrupts in the
  delay slot of its return. An interrupted CPU stands for one that holds the
  opcode it was about to execute (`OpcodeBar`, `PcBar`). The invariant
  (`OrderInv`) adds to the two above that the word a fetch brings is the one the
  memory holds at the program counter (`Fetched`), that a write is that of the
  store in execution, in its first cycle (`WritesFirst`, `WritesAreWords`), that
  the core leaves its reset with nothing in it (`StartsClean`), and where EPC
  points (`Interrupted`).
  `RunsInOrderUndisturbed` asks it of the constants (`KeepsToItself`): no HPS, no
  interrupts, jumps inside the program and stores behind it. The interrupted
  programs of `cpu_alone` keep the conventions.

### The multiplier

`MultiplierProofs` assumes `MultiplierConstants`, with `PowersOfTwo`: what `2^n`
is for the numbers a word needs, which the provers do not know of an exponent
that is not a literal; TLC evaluates it.

* `Invariant`: `Spec => []IInv`;
* `Products`, `Quotients`: `Spec => []ProductsRight`, `[]QuotientsRight`.

`Weight` is what the next bit counts and `Left` the weight of all that are left;
their product is `2^Width`. While multiplying (`Multiplying`), the bits done of
the multiplier times the multiplicand are the upper word, with its sign
(`Partial`), times the weight of the bits done, plus the low bits done. While
dividing (`Dividing`), the quotient so far times the shifted divisor plus the
rest is the dividend, and the rest is below the divisor. Each kind of step, one
bit added, one shifted, four skipped, one divided, keeps that. The signs are
their own part (`Signs`): the upper word is negative once a negative multiplicand
was added. At the end both words together are the product, and negating LO is
right since the product fits (`FitsWhenAllThere`), but for `Overflows`. What is
written to LO or HI after that is there until the next operation (`WriteKeeps`).

### Bridges, timer, GPIO

`BridgePairProofs` assumes `PairConstants`, that the word a reset leaves is one
of the words:

* `Once` and `Held`: `Spec => TransferredOnce`, `Spec => CommandHeld`. The
  invariant (`Progress`) says which of four phases an access is in, idle,
  strobing, commanding or acknowledged, and what the registers of both bridges
  are in each; an answer to the far bridge's second strobe is gone before it
  strobes again.

`TimerSetupProofs` assumes `SetupConstants`: two edges or more per write, and
periods (reload times ticks) from 2 to `Modulus - 1` in every unit of the table:

* `SetUpIsConsistent`, `TimerExpiresOnTime`: `Spec => []IInv`,
  `Spec => []ExpiresOnTime`. Each phase carries what the next write relies on:
  the unit is registered an edge after the write (`UnitChosen`), the ticks follow
  before the reset ends (`Loaded`), and the counter is the period less what is
  due, its own reload register right from the second edge on (`Counting`).

`GpioProofs` assumes `GpioConstants`, that the master is the CPU or the HPS:

* `PinsShowWhatWasWritten`, `InterruptFollowsMask`: `Spec => []PinsAsWritten`,
  `[]InterruptsAsMasked`. An access is two cycles (`TwoCycles`), the bridge's
  second strobe repeats the first (`WrittenAgain`), and between two accesses mask
  and latch have settled (`MaskSettled`, `LatchSettled`).

### Carried over to Cores

The runs check `Multiplier`, `BridgePair`, `TimerSetup` and `Gpio` through the
instances that `Cores` makes of them. `CoresProofs` instantiates their proof
modules in the same way: a step of `Cores` is a step of the core or leaves its
registers alone (`MultRuns`, `PairRuns`, `TimRuns`, `GpRuns`), and what is proved
of the core holds of `Cores`: `Products`, `Quotients`, `Once`, `Held`, `Expiries`,
`Pins`, `Masked`. The prover takes the definitions of two instances for different
ones; the lemmas expand both.

### The serial cores

`CoresProofs` proves these about `UartLine` inside `Cores`, for every width of
a character and length of a bit:

* `LooksLikeSlaveUart`: `Spec => ImplementsSlaveUart`. What `SystemBus` assumes of
  the UART on its bus is what this one, which counts its bits, does;
* `SentOnce`: `Spec => OncePerWrite`. A character is owed from the write to its
  start bit, two edges later and past two registers. `OnceInv` says where it is in
  each edge: on the bus (`Performed`), or in `dat_tx` behind `enable_write`
  (`OwesOne`). Either master has to have seen "ready"
  first; `HeedsStatus` says that what it has seen is still true when its write
  arrives, as nobody but the driver can start a transmission. The CPU's write is
  therefore not stalled, and its first strobe, the one with the write enable, is its
  only one (`CpuEnds`, `StrobesAgain`);
* `LineCarriesFrames`: `Spec => FramesOnTheLine`, the refinement of `SerialFrame`.
  What is to go out (`ToGo`) is the front of the shift register with the stop bit
  after it; behind it are ones only (`ShiftsFrames`), so that the line rests
  where the register runs empty.

And about `SpiTransfer` inside `Cores`, for every width of a word and every
divisor that `TransferConstants` allows:

* `WordsAreExchanged`: `Spec => WordsExchanged`. The invariant has three parts.
  `Driving`: before a transfer is done nothing changes the enable bit, the address
  or the data, since the driver's only access is the one that waits for it.
  `Clocking`: a low phase begins unserved, is served in its first edge, and the
  last bit counted is followed by the end of its low phase and one edge of the
  high one. `Exchanging`: the shift register holds the rest of the word to send
  and then the front of the reply (`Swapped`), with the device one bit behind
  during a low phase; with no device selected the bits behind are ones
  (`OnesBehind`). A reset in a transfer leaves the device counting
  (`aligned` is false), and nothing is promised until it was deselected.

### Model-checked only

Liveness (`NoStarvation`, `HpsServed`, `CpuKeepsRunning`, `KeepsInterrupting`,
`HandlerReturns`, `TransmissionEnds`, `AccessesEnd`, `TransfersEnd`): the proof
system has no rule for fairness here. Of safety, `EachCharacterOnce`
and `ReadOnce` of `UartLine`: they need the moment at which a receiver of one
clock samples each bit that a device of another clock sends, and an assumption
that relates `Drift`, the averaging and the length of a bit.

## Plan

1. Done: arbiter, bus, both masters, two slaves, the composition, the proofs
   about the arbiter.
2. Done: counter, its register file, interrupt controller, the proofs about
   them.
3. Done: interrupt entry; UART, SPI, multiplier, outgoing bridge, timer and GPIO,
   each with its master and its counterpart.
4. Done: the proofs about the bus and its masters, the execution in order, the
   bridge pair, the timer's set-up, the GPIO, the multiplier, the SPI controller
   and the UART's transmitter.
5. To prove: `UartLine!EachCharacterOnce` and `ReadOnce`.
6. To model, for a build that has it: `OledControl` on top of `SpiControl`.

## Not modelled

The OLED controller (instantiated by the ZedBoard's top level only, which is
written against older ports of bus and arbiter and does not compile with them);
the polarity register of the interrupt controller set to active low, its reads
and its unused control register; byte and half-word lanes; the CPU's decoder, ALU,
shifter and register bank (pure functions behind `Decode`); the four-stage pipeline, the FIFO,
the older Avalon adapters and `plasma.vhd` (not instantiated); the ZedBoard top
level; board support, generated projects and device trees; test benches (stimuli
without assertions). Most of the repository by size is vendored: the boot loader
and the files generated for the HPS. The system's own logic is the VHDL under
`src/rtl`, and its own C a counter driver and two test programs, of which
`led_pattern_mgr` is in `CounterInterrupt`. Gate delays, metastability and clock domains are below the level
of the model.
