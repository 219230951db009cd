------------------------------ MODULE MCCpuAlone ------------------------------
(***************************************************************************)
(* TLC instance of the system bus in which the CPU is alone and may be     *)
(* interrupted, by a line that is up or down whenever it is looked at.  A  *)
(* program enables interrupts, or does not, and then loops: two opcodes, a *)
(* jump and another one in its delay slot.  The handler returns at once,   *)
(* as the end of every handler does, with the enable in the delay slot.    *)
(***************************************************************************)
EXTENDS SystemBus

MCMemMap == [s \in {"mem", "uart"} |->
               IF s = "mem" THEN [base |-> 0, size |-> 7] ELSE [base |-> 8, size |-> 3]]

(* Word addresses. *)
LoopStart == 1
Scratch   == 7
UartStat  == 9
UartData  == 10
Unmapped  == 12

(* Opcodes named for what they do, and words that are data. *)
MCValue == {"nop", "mult", "jump", "load", "store", "poll", "send", "bad", "enable", "return",
            "on", "busy", "ready", "rx", "x"}

Instr(op, adr, dat) == [op |-> op, adr |-> adr, dat |-> dat]

MCDecode == [v \in MCValue |->
  CASE v \in {"mult", "enable", "return"} -> Instr(v, 0, "nop")
    [] v = "jump"  -> Instr("jump", LoopStart, "nop")
    [] v = "load"  -> Instr("load", Scratch, "nop")
    [] v = "store" -> Instr("store", Scratch, "x")
    [] v = "poll"  -> Instr("load", UartStat, "nop")
    [] v = "send"  -> Instr("store", UartData, "x")
    [] v = "bad"   -> Instr("load", Unmapped, "nop")
    [] OTHER       -> Instr("alu", 0, "nop")]

MCStatus == [b \in BOOLEAN \X BOOLEAN |-> IF b[1] THEN "busy" ELSE "ready"]

(* Loops around a jump: the first opcode is before the loop. *)
Loops(first, body, slot) ==
  {<<first, a, b, "jump", c, "return", "enable", "nop">> : a \in body, b \in body, c \in slot}

MCProgram ==
  {[i \in 0 .. 7 |-> p[i + 1]] :
     p \in Loops("nop", {"mult", "jump", "load", "store", "poll", "send", "bad"},
                        {"load", "send"})
             \cup Loops("enable", {"mult", "load", "store"}, {"mult", "load", "store"})}

MCTransfer == {[op |-> "idle", adr |-> 0, dat |-> "nop"]}
=============================================================================
