------------------------------- MODULE Shifter -------------------------------
(***************************************************************************)
(* The two-step shifter of shifter.v.  stb starts a shift from the inputs, *)
(* the next edge presents the result with ack, the one after takes ack     *)
(* away.  The result of an arithmetic shift is put together on the second  *)
(* edge from the input value's sign bit as it is THEN: the requester has   *)
(* to hold arith, left and value for both.                                 *)
(***************************************************************************)
EXTENDS Words

VARIABLE sh    \* the registers: [ack, out, state, tmp1, tmp2]

Data == Word(W64)
Registers == [ack : BOOLEAN, out : Data, state : BOOLEAN, tmp1 : Data, tmp2 : Data]

ResetRegs == [ack |-> FALSE, out |-> 0, state |-> FALSE, tmp1 |-> 0, tmp2 |-> 0]

\* A faulty Vacated, which the properties must tell from the real one: negated
\* instead of inverted, one too many.
VacatedNegated(n) == 2^W64 - ShiftRight(2^W64 - 1, n, W64)

\* ~({data_width{1'b1}} >> shift): ones in the places the shift vacates.
Vacated(n) == (2^W64 - 1) - ShiftRight(2^W64 - 1, n, W64)
Negative(x) == x >= 2^(W64 - 1)

\* A faulty Finish, which the properties must tell from the real one: ack stays.
FinishAcked == [ack |-> sh.ack, out |-> sh.out, state |-> FALSE, tmp1 |-> sh.tmp1, tmp2 |-> sh.tmp2]

Finish == [ack |-> FALSE, out |-> sh.out, state |-> FALSE, tmp1 |-> sh.tmp1, tmp2 |-> sh.tmp2]

\* A faulty Present, which the properties must tell from the real one: the sign
\* is not looked at.
PresentUnsigned(p) ==
  [ack |-> TRUE, out |-> IF ~p.left /\ p.arith THEN Or(sh.tmp1, sh.tmp2) ELSE sh.tmp2,
   state |-> sh.state, tmp1 |-> sh.tmp1, tmp2 |-> sh.tmp2]

Present(p) ==
  [ack |-> TRUE,
   out |-> IF ~p.left /\ p.arith /\ Negative(p.value) THEN Or(sh.tmp1, sh.tmp2) ELSE sh.tmp2,
   state |-> sh.state, tmp1 |-> sh.tmp1, tmp2 |-> sh.tmp2]

\* A faulty Start, which the properties must tell from the real one: the second
\* step is not requested.
StartOnly(p) ==
  [ack |-> sh.ack, out |-> sh.out, state |-> sh.state, tmp1 |-> Vacated(p.shift),
   tmp2 |-> ShiftRight(p.value, p.shift, W64)]

Start(p) ==
  [ack |-> sh.ack, out |-> sh.out, state |-> TRUE,
   tmp1 |-> IF p.left THEN sh.tmp1 ELSE Vacated(p.shift),
   tmp2 |-> IF p.left THEN ShiftLeft(p.value, p.shift, W64)
            ELSE ShiftRight(p.value, p.shift, W64)]

\* One rising edge of clk with the inputs p (a record with stb).
Edge(rst, p) ==
  sh' = IF rst THEN ResetRegs
        ELSE IF sh.ack THEN Finish
        ELSE IF sh.state THEN Present(p)
        ELSE IF p.stb THEN Start(p)
        ELSE sh
=============================================================================
