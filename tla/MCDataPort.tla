----------------------------- MODULE MCDataPort ------------------------------
(* Stores of every width, the wide ones across the end of the memory, and   *)
(* loads in the middle and across the end.  A load leaves we low and ww at  *)
(* whatever the last store needed.                                          *)
EXTENDS DataPort

Store(a, n, x) == [stb |-> FALSE, adr |-> a, we |-> TRUE, ww |-> n, dat_w |-> x]
Load(a, n) == [stb |-> FALSE, adr |-> a, we |-> FALSE, ww |-> n, dat_w |-> 0]

MCAccesses ==
  {Store(12, 8, x) : x \in {0, 203}} \cup {Store(14, 4, x) : x \in {0, 5}}
    \cup {Store(6, 2, 1), Store(15, 1, 1)} \cup {Load(14, n) : n \in {0, 2}} \cup {Load(3, 0)}
=============================================================================
