------------------------------ MODULE WbToAvalon ------------------------------
(***************************************************************************)
(* The way out of the system bus: rtl/avalon/wb_to_avalon_bridge.vhd, a    *)
(* slave of the bus and a master of an Avalon fabric.  Address, data and   *)
(* byte lanes go through; the command and the answer are registered.       *)
(***************************************************************************)
EXTENDS Integers

CONSTANT
  Zero          \* the data word with all bits cleared

VARIABLES
  write_os, read_os,    \* the command on the Avalon side
  ack_os, dat_os        \* the answer on the bus

portVars == <<write_os, read_os, ack_os, dat_os>>

Init == write_os = FALSE /\ read_os = FALSE /\ ack_os = FALSE /\ dat_os = Zero

(* No cycle: the command is taken back. *)
Off ==
  /\ write_os' = FALSE /\ read_os' = FALSE /\ ack_os' = FALSE
  /\ UNCHANGED dat_os

(* A faulty end, which leaves the command standing. *)
AnsweredLeavesCommand(stb, we, readdata) ==
  /\ ack_os' = TRUE /\ dat_os' = readdata
  /\ UNCHANGED <<write_os, read_os>>

(* A faulty answer, only to a master that still strobes. *)
AnsweredToStrobe(stb, we, readdata) ==
  /\ write_os' = FALSE /\ read_os' = FALSE
  /\ ack_os' = stb /\ dat_os' = readdata

(* waitrequest_n, whether or not there is a command, and also in the cycle *)
(* of the strobe, which then makes no command.                             *)
Answered(stb, we, readdata) ==
  /\ write_os' = FALSE /\ read_os' = FALSE
  /\ ack_os' = TRUE /\ dat_os' = readdata

(* A faulty command, which is out only as long as the strobe. *)
WaitingWithStrobe(stb, we) ==
  /\ write_os' = (stb /\ we)
  /\ read_os'  = (stb /\ ~we)
  /\ ack_os' = FALSE
  /\ UNCHANGED dat_os

Waiting(stb, we) ==
  /\ write_os' = IF stb THEN we ELSE write_os
  /\ read_os'  = IF stb THEN ~we ELSE read_os
  /\ ack_os' = FALSE
  /\ UNCHANGED dat_os

Clock(cyc, stb, we, waitrequest_n, readdata) ==
  \/ ~cyc /\ Off
  \/ cyc /\ waitrequest_n /\ Answered(stb, we, readdata)
  \/ cyc /\ ~waitrequest_n /\ Waiting(stb, we)

Reset == write_os' = FALSE /\ read_os' = FALSE /\ ack_os' = FALSE /\ dat_os' = Zero
=============================================================================
