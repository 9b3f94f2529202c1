----------------------------- MODULE MCArithmetic -----------------------------
(***************************************************************************)
(* The divider with any requests, and the ALU one instruction at a time.   *)
(* The two have nothing to do with each other: instructions are decoded    *)
(* while the divider is in reset, and it runs while there is none.         *)
(***************************************************************************)
EXTENDS Divider, Datapath

\* Boundary values of 8-bit registers.
MCWords64 == {0, 1, 7, 8, 15, 16, 128, 255}

ArithmeticInit == Init /\ DatapathInit

ArithmeticNext ==
  \/ Idle /\ Next /\ UNCHANGED datapath
  \/ Init /\ DatapathNext /\ UNCHANGED vars

ArithmeticSpec == ArithmeticInit /\ [][ArithmeticNext]_<<vars, datapath>>
=============================================================================
