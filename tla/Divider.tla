------------------------------- MODULE Divider -------------------------------
(***************************************************************************)
(* The restoring divider of divider.v: one quotient bit per clock edge.    *)
(*                                                                         *)
(* The 2*data_width-bit register qr is kept as its two halves: rem is      *)
(* qr[2*data_width-1:data_width] (the output `remainder') and quo is       *)
(* qr[data_width-1:0] (the output `quotient').                             *)
(*                                                                         *)
(* `asked' is a history variable, not a register of the circuit: the       *)
(* operands of the last request the divider latched, NoRequest after reset.*)
(***************************************************************************)
EXTENDS Integers

CONSTANTS
  data_width,   \* divider.v's parameter; 64 in cpu.v
  NoRequest     \* what `asked' holds after a reset

ASSUME WidthAssumption == data_width \in Nat \ {0}

\* The facts about powers of two that the proofs use; arithmetic truths, stated
\* because the provers do not interpret exponentiation.
ASSUME PowerAssumption ==
  /\ 2^0 = 1
  /\ \A n \in 0 .. data_width :
       /\ 2^n \in Nat \ {0}
       /\ n < 2^n
       /\ 2^(n + 1) = 2 * 2^n
       /\ 2^n * 2^(data_width - n) = 2^data_width

Data == 0 .. (2^data_width - 1)

\* Keeps the request history apart from every pair of operands.
ASSUME NoRequestAssumption == NoRequest \notin Data \X Data

VARIABLES
  div,     \* the registers: [counter, rem, quo, divisor_r, err]
  asked    \* history: <<dividend, divisor>> of the last request, or NoRequest

vars == <<div, asked>>

Registers == [counter : 0 .. (2^(data_width + 1) - 1), rem : Data, quo : Data,
              divisor_r : Data, err : BOOLEAN]

\* The most significant bit of the low half: qr[data_width-1].
TopBit(q) == IF q >= 2^(data_width - 1) THEN 1 ELSE 0

\* qr[2*data_width-1:data_width-1], the data_width+1 bits the divisor is
\* subtracted from, and the subtraction's borrow, diff[data_width].
Partial == 2 * div.rem + TopBit(div.quo)
Borrow == Partial < div.divisor_r

\* The low half of qr shifted left by one with the bit b entering.
ShiftIn(b) == ((2 * div.quo) % 2^data_width) + b

ack == div.counter = 0

-----------------------------------------------------------------------------

\* reset_n low: the counter is set to all ones, so ack is low.
ResetRegs == [counter |-> 2^(data_width + 1) - 1, rem |-> 0, quo |-> 0,
              divisor_r |-> 0, err |-> FALSE]

\* A faulty RejectZero, which the properties must tell from the real one: err is
\* not raised.
RejectZeroSilently ==
  div' = [counter |-> 0, rem |-> 0, quo |-> 0, divisor_r |-> div.divisor_r, err |-> FALSE]

\* stb with a zero divisor is answered at once, with err; divisor_r keeps its value.
RejectZero ==
  div' = [counter |-> 0, rem |-> 0, quo |-> 0, divisor_r |-> div.divisor_r, err |-> TRUE]

\* A faulty Load, which the properties must tell from the real one: one iteration
\* too few.
LoadShort(dividend, divisor) ==
  div' = [counter |-> data_width - 1, rem |-> 0, quo |-> dividend,
          divisor_r |-> divisor, err |-> FALSE]

\* stb with any other divisor loads the operands, whatever was in progress.
Load(dividend, divisor) ==
  div' = [counter |-> data_width, rem |-> 0, quo |-> dividend,
          divisor_r |-> divisor, err |-> FALSE]

\* One bit of the quotient: restore on a borrow, otherwise keep the difference.
\* The difference has data_width+1 bits; the register takes the low data_width.
Iterate ==
  div' = [counter |-> div.counter - 1,
          rem |-> (IF Borrow THEN Partial ELSE Partial - div.divisor_r) % 2^data_width,
          quo |-> ShiftIn(IF Borrow THEN 0 ELSE 1),
          divisor_r |-> div.divisor_r, err |-> div.err]

\* One rising edge of clk with these values on the inputs.
Edge(reset_n, stb, dividend, divisor) ==
  \/ ~reset_n /\ div' = ResetRegs
  \/ reset_n /\ stb /\ divisor = 0 /\ RejectZero
  \/ reset_n /\ stb /\ divisor # 0 /\ Load(dividend, divisor)
  \/ reset_n /\ ~stb /\ ~ack /\ Iterate
  \/ reset_n /\ ~stb /\ ack /\ UNCHANGED div

-----------------------------------------------------------------------------

Init == div = ResetRegs /\ asked = NoRequest

\* The environment may reset, raise stb, or leave the divider alone, at any edge.
Reset == Edge(FALSE, FALSE, 0, 0) /\ asked' = NoRequest
Request(a, b) == Edge(TRUE, TRUE, a, b) /\ asked' = <<a, b>>
Wait == Edge(TRUE, FALSE, 0, 0) /\ UNCHANGED asked

Next == Reset \/ (\E a, b \in Data : Request(a, b)) \/ Wait

Spec == Init /\ [][Next]_vars

-----------------------------------------------------------------------------

TypeOK == div \in Registers /\ asked \in (Data \X Data) \cup {NoRequest}

\* The quotient and the remainder shown with ack are those of the operands of the
\* last request, even when that request replaced another one in mid-division
\* (divider.v 36-57); a zero divisor shows err and zeros (divider.v 38-41).
AnswerCorrect ==
  asked # NoRequest /\ ack =>
    LET a == asked[1]
        b == asked[2]
    IN IF b = 0 THEN div.err /\ div.quo = 0 /\ div.rem = 0
       ELSE ~div.err /\ div.quo = a \div b /\ div.rem = a % b

\* After counter = k iterations are left, the operands' relation the loop keeps:
\* with P = 2^k and Q = 2^(data_width - k), quo holds the k dividend bits not yet
\* used above the data_width - k quotient bits found so far.
Progress ==
  asked # NoRequest /\ asked[2] # 0 =>
    /\ ~div.err
    /\ div.divisor_r = asked[2]
    /\ div.counter \in 0 .. data_width
    /\ div.rem < div.divisor_r
    /\ \E low \in 0 .. (2^div.counter - 1),
          q \in 0 .. (2^(data_width - div.counter) - 1) :
         /\ div.quo = low * 2^(data_width - div.counter) + q
         /\ asked[1] = (q * div.divisor_r + div.rem) * 2^div.counter + low

ZeroProgress ==
  asked # NoRequest /\ asked[2] = 0 =>
    ack /\ div.err /\ div.quo = 0 /\ div.rem = 0

IInv == TypeOK /\ Progress /\ ZeroProgress
=============================================================================
