----------------------------- MODULE MCSystemBus -----------------------------
(***************************************************************************)
(* TLC instance of the system bus with both of its masters: a memory of    *)
(* four words (a program of three and one word of data), the three         *)
(* registers of the UART and a hole in the address map.                    *)
(***************************************************************************)
EXTENDS SystemBus

MCMemMap == [s \in {"mem", "uart"} |->
               IF s = "mem" THEN [base |-> 0, size |-> 3] ELSE [base |-> 4, size |-> 3]]

(* Word addresses. *)
Scratch  == 3
UartStat == 5
UartData == 6
Unmapped == 9

(* Opcodes named for what they do, and words that are data. *)
Opcode == {"nop", "mult", "jump", "load", "store", "bad"}
MCValue == Opcode \cup {"on", "busy", "ready", "rx", "x", "y"}

Instr(op, adr, dat) == [op |-> op, adr |-> adr, dat |-> dat]

MCDecode == [v \in MCValue |->
  CASE v = "mult"  -> Instr("mult", 0, "nop")
    [] v = "jump"  -> Instr("jump", 0, "nop")
    [] v = "load"  -> Instr("load", Scratch, "nop")
    [] v = "store" -> Instr("store", Scratch, "x")
    [] v = "bad"   -> Instr("load", Unmapped, "nop")
    [] OTHER       -> Instr("alu", 0, "nop")]

MCStatus == [b \in BOOLEAN \X BOOLEAN |-> IF b[1] THEN "busy" ELSE "ready"]

(* The programs of three opcodes. *)
Programs(ops) == {p \in [0 .. 3 -> ops \cup {"nop"}] :
                    p[Scratch] = "nop" /\ \A i \in 0 .. 2 : p[i] \in ops}

(* Loops that use the memory, with or without the multiplier. *)
MemoryLoops ==
  {p \in Programs(Opcode) : p[2] = "jump"}

ShortLoops == {p \in Programs({"jump", "load", "bad"}) : p[2] = "jump"}

(* What the HPS drives: accesses to the CPU's memory, or accesses to a     *)
(* slave the CPU does not use.                                             *)
Idle(adr) == [op |-> "idle", adr |-> adr, dat |-> "nop"]
OnMemory == {Idle(Scratch), [op |-> "read", adr |-> Scratch, dat |-> "nop"],
             [op |-> "write", adr |-> Scratch, dat |-> "y"]}
OnUart == {Idle(UartStat), [op |-> "read", adr |-> UartStat, dat |-> "nop"],
           [op |-> "write", adr |-> UartData, dat |-> "y"],
           [op |-> "read", adr |-> Unmapped, dat |-> "nop"]}
=============================================================================
