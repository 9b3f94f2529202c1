------------------------------ MODULE ShiftPort ------------------------------
(***************************************************************************)
(* The shifter with a requester that drives it as cpu.v does (lines        *)
(* 1380-1399 and alike): it raises stb with its operands, holds both until *)
(* it sees ack, drops stb on the edge that sees it, and may come back with *)
(* the next shift on any later edge.  A reset may come at any edge.        *)
(*                                                                         *)
(* `asked' is a history variable: the inputs of the shift started last.    *)
(***************************************************************************)
EXTENDS Shifter

CONSTANT Requests    \* the inputs the requester may present

Inputs == [arith : BOOLEAN, left : BOOLEAN, value : Data, shift : Data]

ASSUME RequestsAssumption == Requests \subseteq Inputs

VARIABLES
  port,    \* the inputs, driven by the requester: stb and those of Requests
  asked    \* history

vars == <<sh, port, asked>>

NoShift == [arith |-> FALSE, left |-> FALSE, value |-> 0, shift |-> 0]
Drive(stb, p) == [stb |-> stb, arith |-> p.arith, left |-> p.left,
                  value |-> p.value, shift |-> p.shift]
PortInputs == [arith |-> port.arith, left |-> port.left,
               value |-> port.value, shift |-> port.shift]

Init == sh = ResetRegs /\ port = Drive(FALSE, NoShift) /\ asked = NoShift

Track == asked' = IF port.stb /\ ~sh.ack /\ ~sh.state THEN PortInputs ELSE asked

Ask(p) == ~port.stb /\ ~sh.ack /\ Edge(FALSE, port) /\ port' = Drive(TRUE, p) /\ Track
Hold == port.stb /\ ~sh.ack /\ Edge(FALSE, port) /\ UNCHANGED port /\ Track
Take == port.stb /\ sh.ack /\ Edge(FALSE, port) /\ port' = Drive(FALSE, PortInputs) /\ Track
Rest == ~port.stb /\ Edge(FALSE, port) /\ UNCHANGED port /\ Track
Reset == Edge(TRUE, port) /\ port' = Drive(FALSE, NoShift) /\ asked' = NoShift

Next == (\E p \in Requests : Ask(p)) \/ Hold \/ Take \/ Rest \/ Reset

Spec == Init /\ [][Next]_vars
LiveSpec == Spec /\ WF_vars(Hold)

-----------------------------------------------------------------------------

TypeOK ==
  /\ sh \in Registers
  /\ port \in [stb : BOOLEAN, arith : BOOLEAN, left : BOOLEAN, value : Data, shift : Data]
  /\ asked \in Inputs

\* What a shift of a register by any amount must give: an arithmetic right shift
\* divides the signed value, rounding down, and a shift by the width or more
\* leaves only copies of the sign.
ShiftOf(p) ==
  IF p.left THEN ShiftLeft(p.value, p.shift, W64)
  ELSE IF p.arith /\ Negative(p.value)
       THEN IF p.shift >= W64 THEN 2^W64 - 1
            ELSE Low(Signed(p.value, W64) \div 2^p.shift, W64)
       ELSE ShiftRight(p.value, p.shift, W64)

\* The result shown while ack meets stb, when cpu.v stores it in a register, is
\* the shift of the operands being presented (shifter.v 25-43), never of those of
\* an earlier shift.
ResultCorrect == sh.ack /\ port.stb => sh.out = ShiftOf(PortInputs)

\* ack is never high without a request: it cannot be mistaken for the answer to
\* the next one (cpu.v tests arsh64_ack before it raises arsh64_stb).
NoStrayAck == sh.ack => port.stb /\ asked = PortInputs

\* A request is answered: cpu.v re-decodes a shift until ack, with no timeout.
Answered == port.stb ~> (sh.ack \/ ~port.stb)
=============================================================================
