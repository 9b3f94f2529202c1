----------------------------- MODULE MCCallPort ------------------------------
(* Calls of every function, an unknown one included, on two addresses that  *)
(* exist, one of them under two names, and one past the depth of the store. *)
EXTENDS CallPort

MCCalls == [func : {FuncLeds, FuncStore, FuncRead, FuncBase + 4}, r1 : {0, 1, 3, 5}, r2 : {0, 255}]
=============================================================================
