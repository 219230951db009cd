--------------------------- MODULE BridgePairProofs ---------------------------
(***************************************************************************)
(* Theorems about BridgePair, for every set of data words.                 *)
(***************************************************************************)
EXTENDS BridgePair, TLAPS

TypeOK ==
  /\ {write_os, read_os, ack_os, cycstb_s, cyc, stb} \subseteq BOOLEAN
  /\ req \in Requests
  /\ answer \in {"none", "ack", "err"}

Taken == [op |-> req.op, dat |-> req.dat, answer |-> "ack", word |-> dat_os]

(***************************************************************************)
(* How far an access is.  An answer that is left over from the second      *)
(* strobe of the transfer before is gone when the far bridge strobes next. *)
(***************************************************************************)
Idle     == ~cyc /\ ~stb /\ ~write_os /\ ~read_os /\ ~cycstb_s

Strobing == cyc /\ stb /\ ~write_os /\ ~read_os /\ ~ack_os /\ ~cycstb_s
              /\ answer = "none" /\ taken = <<>>

Commanding ==
  /\ cyc /\ ~stb /\ ~ack_os /\ taken = <<>>
  /\ write_os <=> req.op = "write"
  /\ read_os  <=> req.op = "read"
  /\ ~cycstb_s => answer = "none"

Acknowledged == cyc /\ ~stb /\ ~write_os /\ ~read_os /\ ack_os /\ ~cycstb_s
                  /\ taken = <<Taken>>

Progress == Idle \/ Strobing \/ Commanding \/ Acknowledged

IInv == TypeOK /\ Progress

-----------------------------------------------------------------------------
LEMMA InitProgress ==
  ASSUME PairConstants, Init
  PROVE  IInv
BY DEF PairConstants, Init, IInv, TypeOK, Progress, Idle, Requests, Out!Init

(* An edge keeps the types.                                                *)
LEMMA TickTypes ==
  ASSUME TypeOK, Tick
  PROVE  TypeOK'
<1>1. {write_os', read_os', ack_os'} \subseteq BOOLEAN
  <2>1. waitrequest_n \in BOOLEAN /\ (req.op = "write") \in BOOLEAN
    BY DEF waitrequest_n, Back!Done, Ack, Err
  <2>2. QED
    BY <2>1 DEF Tick, TypeOK, Out!Clock, Out!Off, Out!Answered, Out!Waiting
<1>2. cycstb_s' \in BOOLEAN
  BY DEF Tick, TypeOK, Back!Cycle, Back!Busy
<1>3. {cyc', stb'} \subseteq BOOLEAN /\ req' \in Requests
  BY DEF Tick, TypeOK, Master, Begin, Rest, Strobed, End
<1>4. answer' \in {"none", "ack", "err"}
  BY DEF Tick, TypeOK, FarSlave
<1>5. QED
  BY <1>1, <1>2, <1>3, <1>4 DEF TypeOK

(* What the bridges make of an edge, by the progress of the access.        *)
LEMMA FromIdle ==
  ASSUME TypeOK, Idle, Tick
  PROVE  Idle' \/ Strobing'
<1>1. ~write_os' /\ ~read_os' /\ ~ack_os' /\ taken' = <<>>
  BY DEF Idle, Tick, Out!Clock, Out!Off, Observe
<1>2. ~cycstb_s' /\ answer' = "none"
  BY DEF TypeOK, Idle, Tick, Back!Cycle, Back!Busy, Command, FarSlave
<1>3. CASE Begin
  BY <1>1, <1>2, <1>3 DEF Begin, Strobing
<1>4. CASE Rest
  BY <1>1, <1>2, <1>4 DEF Rest, Idle
<1>5. QED
  BY <1>3, <1>4 DEF Tick, Master, Strobed, End, Ends, Idle

LEMMA FromStrobing ==
  ASSUME TypeOK, Strobing, Tick
  PROVE  ~Ends /\ Commanding'
<1>1. ~waitrequest_n /\ ~Ends
  BY DEF Strobing, waitrequest_n, Back!Done, Ends, err_o
<1>2. cyc' /\ ~stb' /\ req' = req
  BY <1>1 DEF Strobing, Tick, Master, Begin, Rest, End, Strobed
<1>3. ~ack_os' /\ (write_os' <=> req.op = "write") /\ (read_os' <=> req.op = "read")
  BY <1>1 DEF Strobing, Tick, Out!Clock, Out!Waiting, TypeOK, Requests
<1>4. taken' = <<>> /\ answer' = "none"
  BY <1>1 DEF Strobing, Tick, Observe, FarSlave
<1>5. QED
  BY <1>1, <1>2, <1>3, <1>4 DEF Commanding

LEMMA CommandIsAsked ==
  ASSUME TypeOK, Commanding
  PROVE  Command = [op |-> req.op, dat |-> req.dat] /\ Back!Busy
<1>1. req.op \in {"read", "write"}
  BY DEF TypeOK, Requests
<1>2. QED
  BY <1>1 DEF Commanding, Command, Back!Busy

(* The far slave has not answered: the command stays.                      *)
LEMMA KeepsCommanding ==
  ASSUME TypeOK, Commanding, ~waitrequest_n, Tick
  PROVE  ~Ends /\ Commanding' /\ req' = req
<1>1. ~Ends
  BY DEF Commanding, waitrequest_n, Back!Done, Ends, err_o
<1>2. cyc' /\ ~stb' /\ req' = req
  BY <1>1 DEF Commanding, Tick, Master, Begin, Rest, End, Strobed
<1>3. ~ack_os' /\ write_os' = write_os /\ read_os' = read_os
  BY DEF Commanding, Tick, Out!Clock, Out!Waiting
<1>4. taken' = <<>>
  BY DEF Commanding, Tick, Observe
<1>5. ~cycstb_s' => answer' = "none"
  BY CommandIsAsked DEF Commanding, Tick, TypeOK, Back!Cycle, FarSlave, waitrequest_n, Back!Done
<1>6. QED
  BY <1>1, <1>2, <1>3, <1>4, <1>5 DEF Commanding

(* It has: its error ends the access on this edge, its acknowledge on the  *)
(* next.                                                                   *)
LEMMA Answering ==
  ASSUME TypeOK, Commanding, waitrequest_n, Tick
  PROVE  /\ taken' = <<[op |-> req.op, dat |-> req.dat, answer |-> answer, word |-> answer_dat]>>
         /\ req' = req /\ cycstb_s
         /\ answer = "err" => Ends /\ err_o /\ Idle'
         /\ answer = "ack" => ~Ends /\ Acknowledged'
<1>1. cycstb_s /\ answer \in {"ack", "err"} /\ (Ends <=> answer = "err") /\ (err_o <=> answer = "err")
  BY DEF TypeOK, Commanding, waitrequest_n, Back!Done, Ack, Err, Ends, err_o
<1>2. taken' = <<[op |-> req.op, dat |-> req.dat, answer |-> answer, word |-> answer_dat]>>
  BY CommandIsAsked DEF Commanding, Tick, Observe, MaxTaken
<1>3. ~write_os' /\ ~read_os' /\ ack_os' /\ dat_os' = answer_dat /\ ~cycstb_s' /\ ~stb' /\ req' = req
  BY <1>1 DEF Commanding, Tick, Out!Clock, Out!Answered, Back!Cycle, Ack, Err,
              Master, Begin, Rest, Strobed, End
<1>4. cyc' <=> answer = "ack"
  BY <1>1 DEF Commanding, Tick, Master, Begin, Rest, Strobed, End
<1>5. QED
  BY <1>1, <1>2, <1>3, <1>4 DEF Idle, Acknowledged, Taken

LEMMA FromAcknowledged ==
  ASSUME TypeOK, Acknowledged, Tick
  PROVE  Ends /\ ~err_o /\ taken' = taken /\ Idle'
<1>1. ~waitrequest_n /\ Ends /\ ~err_o
  BY DEF Acknowledged, waitrequest_n, Back!Done, Ends, err_o
<1>2. taken' = taken
  BY <1>1 DEF Acknowledged, Tick, Observe
<1>3. ~cyc' /\ ~stb'
  BY <1>1 DEF Acknowledged, Tick, Master, Begin, Rest, Strobed, End
<1>4. ~write_os' /\ ~read_os' /\ ~cycstb_s'
  BY <1>1 DEF Acknowledged, Tick, TypeOK, Out!Clock, Out!Waiting, Back!Cycle, Back!Busy, Command
<1>5. QED
  BY <1>1, <1>2, <1>3, <1>4 DEF Idle

-----------------------------------------------------------------------------
LEMMA NextProgress ==
  ASSUME PairConstants, IInv, [Next]_vars
  PROVE  IInv'
<1>1. CASE Tick
  <2>1. TypeOK'
    BY <1>1, TickTypes DEF IInv
  <2>2. CASE Idle
    BY <1>1, <2>1, <2>2, FromIdle DEF IInv, Progress
  <2>3. CASE Strobing
    BY <1>1, <2>1, <2>3, FromStrobing DEF IInv, Progress
  <2>4. CASE Commanding
    <3>1. waitrequest_n => answer \in {"ack", "err"}
      BY DEF waitrequest_n, Back!Done, Ack, Err
    <3>2. QED
      BY <1>1, <2>1, <2>4, <3>1, KeepsCommanding, Answering DEF IInv, Progress
  <2>5. CASE Acknowledged
    BY <1>1, <2>1, <2>5, FromAcknowledged DEF IInv, Progress
  <2>6. QED
    BY <2>2, <2>3, <2>4, <2>5 DEF IInv, Progress
<1>2. CASE Reset
  BY <1>2 DEF IInv, TypeOK, Progress, Idle, Reset, Out!Reset
<1>3. CASE UNCHANGED vars
  BY <1>3 DEF vars, IInv, TypeOK, Progress, Idle, Strobing, Commanding, Acknowledged, Taken,
              Requests
<1>4. QED
  BY <1>1, <1>2, <1>3 DEF Next

(* Where an access is, at every edge of every behaviour.                   *)
THEOREM Progresses == ASSUME PairConstants PROVE Spec => []IInv
<1>1. Init => IInv
  BY InitProgress
<1>2. IInv /\ [Next]_vars => IInv'
  BY NextProgress
<1>3. QED
  BY <1>1, <1>2, PTL DEF Spec

(***************************************************************************)
(* A transfer out over Avalon and back happens once, as it was asked for,  *)
(* and is answered with the far slave's answer: wb_to_avalon_bridge.vhd in *)
(* front of avalon_to_wb_bridge.vhd, for every slave.                      *)
(***************************************************************************)
THEOREM Once == ASSUME PairConstants PROVE Spec => TransferredOnce
<1> DEFINE Answered ==
      /\ Len(taken') = 1
      /\ taken'[1].op = req.op /\ taken'[1].dat = req.dat
      /\ taken'[1].answer = IF err_o THEN "err" ELSE "ack"
      /\ ~err_o => taken'[1].word = dat_os
<1>1. ASSUME IInv, Tick, Ends PROVE Answered
  <2>1. CASE Commanding
    <3>1. waitrequest_n /\ answer = "err"
      <4>1. waitrequest_n
        BY <1>1, <2>1, KeepsCommanding DEF IInv
      <4>2. answer \in {"ack", "err"}
        BY <4>1 DEF waitrequest_n, Back!Done, Ack, Err
      <4>3. QED
        BY <1>1, <2>1, <4>1, <4>2, Answering DEF IInv
    <3>2. taken' = <<[op |-> req.op, dat |-> req.dat, answer |-> "err", word |-> answer_dat]>>
          /\ err_o
      BY <1>1, <2>1, <3>1, Answering DEF IInv
    <3>3. QED
      BY <3>2
  <2>2. CASE Acknowledged
    <3>1. ~err_o /\ taken' = <<Taken>>
      BY <1>1, <2>2, FromAcknowledged DEF IInv, Acknowledged
    <3>2. QED
      BY <3>1 DEF Taken
  <2>3. ~Idle /\ ~Strobing
    BY <1>1, FromStrobing DEF IInv, Idle, Ends
  <2>4. QED
    BY <1>1, <2>1, <2>2, <2>3 DEF IInv, Progress
<1>2. IInv => [Tick /\ Ends => Answered]_vars
  BY <1>1
<1>3. QED
  BY <1>2, Progresses, PTL DEF TransferredOnce

(***************************************************************************)
(* The outgoing bridge keeps its command until waitrequest_n, which is     *)
(* what the incoming one, an Avalon slave, relies on.                      *)
(***************************************************************************)
THEOREM Held == ASSUME PairConstants PROVE Spec => CommandHeld
<1> DEFINE Clocked == Back!Clock(Ack, Err)
<1>1. ASSUME PairConstants, IInv, IInv', Tick PROVE Clocked
  <2>1. Command' \in [op : {"idle", "read", "write"}, dat : Value]
    <3>1. req'.dat \in Value
      BY <1>1 DEF IInv, TypeOK, Requests, PairConstants
    <3>2. QED
      BY <3>1 DEF Command
  <2>2. Back!Busy /\ ~Back!Done(Ack, Err) => Command' = Command
    <3>1. CASE Commanding /\ ~waitrequest_n
      <4>1. Commanding' /\ req' = req /\ TypeOK'
        BY <1>1, <3>1, KeepsCommanding DEF IInv
      <4>2. QED
        BY <4>1, <3>1 DEF Commanding, Command
    <3>2. ~Commanding => ~Back!Busy
      BY <1>1 DEF IInv, Progress, Idle, Strobing, Acknowledged, Back!Busy, Command
    <3>3. QED
      BY <3>1, <3>2 DEF waitrequest_n
  <2>3. QED
    BY <1>1, <2>1, <2>2 DEF Back!Clock, Tick
<1>2. IInv /\ IInv' /\ [Next]_vars => [Clocked \/ Reset]_(Back!bridgeVars)
  <2>1. UNCHANGED vars => UNCHANGED Back!bridgeVars
    BY DEF vars, Back!bridgeVars, Command
  <2>2. QED
    BY <1>1, <2>1 DEF Next
<1>3. QED
  BY <1>2, Progresses, PTL DEF CommandHeld, Spec
=============================================================================
