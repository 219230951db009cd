------------------------------ MODULE BridgePair ------------------------------
(***************************************************************************)
(* The two Avalon bridges back to back, rtl/avalon/                        *)
(* wb_to_avalon_test_proxy.vhd: a bus master, the bridge to Avalon, the    *)
(* bridge back to a bus, and a slave there that answers when it likes.     *)
(*                                                                         *)
(* The master is the CPU, or the test bench, which strobes for one cycle   *)
(* and then waits.  A master that holds its strobe until it sees the       *)
(* acknowledge, as the HPS's bridge does, makes the bridge put its command *)
(* out a second time, in the cycle of the acknowledge.                     *)
(***************************************************************************)
EXTENDS Integers, Sequences

CONSTANTS
  Value, Zero   \* data words

PairConstants == Zero \in Value

VARIABLES
  write_os, read_os, ack_os, dat_os,
  cycstb_s,
  cyc, stb, req,        \* the master: its cycle, its strobe, what it asks for
  answer,               \* the slave's: "none", "ack" or "err", and a word
  answer_dat,
  taken                 \* history: what the slave answered since cyc rose

vars == <<write_os, read_os, ack_os, dat_os, cycstb_s,
          cyc, stb, req, answer, answer_dat, taken>>

Requests == [op : {"read"}, dat : {Zero}] \cup [op : {"write"}, dat : Value]

Out == INSTANCE WbToAvalon

(* What the first bridge drives is what the second takes for its master. *)
Command == [op |-> IF write_os THEN "write" ELSE IF read_os THEN "read" ELSE "idle",
            dat |-> req.dat]
Back == INSTANCE AvalonToWb WITH
  Transfer <- [op : {"idle", "read", "write"}, dat : Value], avs <- Command

Ack == answer = "ack"
Err == answer = "err"
waitrequest_n == Back!Done(Ack, Err)

(* err_o: the response is an error. *)
err_o == cyc /\ cycstb_s /\ Err

-----------------------------------------------------------------------------
Init ==
  /\ Out!Init /\ cycstb_s = FALSE
  /\ cyc = FALSE /\ stb = FALSE /\ req = [op |-> "read", dat |-> Zero]
  /\ answer = "none" /\ answer_dat = Zero
  /\ taken = <<>>

Begin == ~cyc /\ cyc' = TRUE /\ stb' = TRUE /\ req' \in Requests
Rest  == ~cyc /\ UNCHANGED <<cyc, stb, req>>
Ends  == cyc /\ (err_o \/ ack_os)

Strobed == cyc /\ ~Ends /\ stb' = FALSE /\ UNCHANGED <<cyc, req>>
End     == Ends /\ cyc' = FALSE /\ stb' = FALSE /\ UNCHANGED req

Master == Begin \/ Rest \/ Strobed \/ End

(* A slave registers its answer, to a strobe. *)
FarSlave ==
  /\ answer' \in IF cycstb_s THEN {"none", "ack", "err"} ELSE {"none"}
  /\ answer_dat' \in IF cycstb_s THEN Value ELSE {answer_dat}

(* One transfer more than there should be is enough to be noticed. *)
MaxTaken == 2

Observe ==
  taken' = IF ~cyc THEN <<>>
           ELSE IF waitrequest_n /\ Len(taken) < MaxTaken
           THEN Append(taken, [op |-> Command.op, dat |-> Command.dat,
                               answer |-> answer, word |-> answer_dat])
           ELSE taken

Tick ==
  /\ Out!Clock(cyc, stb, req.op = "write", waitrequest_n, answer_dat)
  /\ Back!Cycle(Ack, Err)
  /\ Master /\ FarSlave /\ Observe

Reset ==
  /\ Out!Reset /\ cycstb_s' = FALSE
  /\ cyc' = FALSE /\ stb' = FALSE
  /\ answer' = "none" /\ taken' = <<>>
  /\ UNCHANGED <<req, answer_dat>>

Next == Tick \/ Reset

Spec == Init /\ [][Next]_vars

(* The clock runs, resets end, and the slave answers in the end. *)
Answers == cycstb_s /\ Tick /\ answer' # "none"
FairSpec == Spec /\ WF_vars(Tick) /\ WF_vars(Answers) /\ <>[][~Reset]_vars

-----------------------------------------------------------------------------
(***************************************************************************)
(* When the master's access ends the slave has answered one transfer since *)
(* it began: the one asked for.  An acknowledge comes with the word the    *)
(* slave returned, and an error with its error.                            *)
(***************************************************************************)
TransferredOnce ==
  [][Tick /\ Ends =>
             /\ Len(taken') = 1
             /\ taken'[1].op = req.op /\ taken'[1].dat = req.dat
             /\ taken'[1].answer = IF err_o THEN "err" ELSE "ack"
             /\ ~err_o => taken'[1].word = dat_os]_vars

(* The bridge is an Avalon master: a command stays until waitrequest_n. *)
CommandHeld == [][Back!Clock(Ack, Err) \/ Reset]_(Back!bridgeVars)

(* The two bridges do not keep a master waiting for ever. *)
TransfersEnd == cyc ~> ~cyc
=============================================================================
