------------------------------- MODULE MCBridge -------------------------------
(* Two servers that peek at two addresses and poke one of them.             *)
EXTENDS Bridge

MCBoot == [a \in Addrs |-> a]
MCOperations == Peeks \cup {Op("Poke", 0, v) : v \in Vals}
=============================================================================
