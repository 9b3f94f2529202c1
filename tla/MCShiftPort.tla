------------------------------ MODULE MCShiftPort -----------------------------
(* Shifts of boundary values by boundary amounts, up to past the width.     *)
EXTENDS ShiftPort

MCRequests ==
  {p \in [arith : BOOLEAN, left : BOOLEAN, value : {0, 1, 85, 127, 128, 254, 255},
          shift : {0, 1, 3, 7, 8, 9, 255}] : ~(p.arith /\ p.left)}
=============================================================================
