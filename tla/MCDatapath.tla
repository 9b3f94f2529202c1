----------------------------- MODULE MCDatapath ------------------------------
(* Every opcode on the boundary values of 8-bit registers, the immediates *)
(* around each boundary of 4 bits.                                          *)
EXTENDS Datapath

MCWords64 == {0, 1, 7, 8, 15, 16, 128, 255}
=============================================================================
