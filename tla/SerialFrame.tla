----------------------------- MODULE SerialFrame -----------------------------
(***************************************************************************)
(* What a serial line carries: it rests high; a character is a low start   *)
(* bit, its data bits and a high stop bit, each for the same number of     *)
(* clock edges.  The first of a character's bits is the least significant. *)
(***************************************************************************)
EXTENDS Integers, Sequences

CONSTANTS
  Char,         \* the characters, as sequences of bits
  Periods       \* how many edges a bit may last

VARIABLES
  line,         \* its level
  rest,         \* the bits of the frame that are not over, the present one first
  age,          \* how many edges the present bit has lasted
  period        \* how many it is to last

frameVars == <<line, rest, age, period>>

Frame(char) == <<0>> \o char \o <<1>>

Init == line = 1 /\ rest = <<>> /\ age = 0 /\ period \in Periods

Start(char) ==
  /\ rest = <<>>
  /\ rest' = Frame(char) /\ line' = 0
  /\ age' = 0
  /\ period' \in Periods

Hold ==
  /\ rest # <<>> /\ age + 1 < period
  /\ age' = age + 1
  /\ UNCHANGED <<line, rest, period>>

Shift ==
  /\ rest # <<>> /\ age + 1 = period
  /\ rest' = Tail(rest)
  /\ line' = IF rest' = <<>> THEN 1 ELSE Head(rest')
  /\ age' = 0
  /\ UNCHANGED period

Abort ==
  /\ line' = 1 /\ rest' = <<>> /\ age' = 0
  /\ UNCHANGED period

Clock == (\E char \in Char : Start(char)) \/ Hold \/ Shift

Spec == Init /\ [][Clock \/ Abort]_frameVars
=============================================================================
