------------------------------ MODULE DataPort -------------------------------
(***************************************************************************)
(* The data memory with a requester that drives it as cpu.v does in        *)
(* STATE_DECODE and STATE_DATA_FETCH (lines 1146-1295 and 2255-2265): the  *)
(* address, we, ww and dat_w are set one edge before stb, everything is    *)
(* held until ack, stb and we drop on the edge that sees ack, and at least *)
(* two edges pass before stb rises again.  A reset may come at any edge.   *)
(*                                                                         *)
(* `want' is a history variable: the memory as it would be had every       *)
(* store that was started been done at once.                               *)
(***************************************************************************)
EXTENDS DataMem

CONSTANT Accesses    \* the accesses the requester may make, members of Ports

ASSUME AccessesAssumption ==
  Accesses \subseteq {p \in Ports : ~p.stb /\ (p.we => p.ww \in {1, 2, 4, 8})}

VARIABLES
  data,     \* the ports, driven by the requester
  phase,    \* "idle", "fetch" (STATE_DATA_FETCH), "loaded" or "stored" (stb just dropped)
  want      \* history: the memory every started store asks for

vars == <<dm, mem, data, phase, want>>

NoAccess == [stb |-> FALSE, adr |-> 0, we |-> FALSE, ww |-> 0, dat_w |-> 0]

Init ==
  /\ mem = [a \in Addr |-> 0]
  /\ dm = ClearRegs
  /\ data = NoAccess
  /\ phase = "idle"
  /\ want = mem

\* STATE_DECODE: address, we, ww and dat_w are set, stb is not yet.
Prepare(p) ==
  /\ phase = "idle"
  /\ Edge(FALSE, data)
  /\ data' = p
  /\ phase' = "fetch"
  /\ want' = IF p.we THEN WriteAt(want, p.adr, p.ww, p.dat_w) ELSE want

\* STATE_DATA_FETCH without ack.
Fetch ==
  /\ phase = "fetch" /\ ~dm.ack
  /\ Edge(FALSE, data)
  /\ data' = [data EXCEPT !.stb = TRUE]
  /\ UNCHANGED <<phase, want>>

\* STATE_DATA_FETCH with ack.
Acked ==
  /\ phase = "fetch" /\ dm.ack
  /\ Edge(FALSE, data)
  /\ data' = [data EXCEPT !.stb = FALSE, !.we = FALSE]
  /\ phase' = IF data.we THEN "stored" ELSE "loaded"
  /\ UNCHANGED want

\* The second STATE_DECODE, which takes the data of a load.
Complete ==
  /\ phase \in {"loaded", "stored"}
  /\ Edge(FALSE, data)
  /\ phase' = "idle"
  /\ UNCHANGED <<data, want>>

\* Any number of edges in other states.
Elsewhere == phase = "idle" /\ Edge(FALSE, data) /\ UNCHANGED <<data, phase, want>>

\* reset_n low: what a store had already written stays, the rest is lost.
Reset ==
  /\ Edge(TRUE, data)
  /\ data' = NoAccess
  /\ phase' = "idle"
  /\ want' = mem'

Next == (\E p \in Accesses : Prepare(p)) \/ Fetch \/ Acked \/ Complete \/ Elsewhere \/ Reset

Spec == Init /\ [][Next]_vars

\* The clock runs: STATE_DATA_FETCH is evaluated at every edge.
LiveSpec == Spec /\ WF_vars(Fetch) /\ WF_vars(Acked)

-----------------------------------------------------------------------------

TypeOK ==
  /\ dm \in Registers
  /\ mem \in [Addr -> Word(ByteBits)]
  /\ data \in Ports
  /\ phase \in {"idle", "fetch", "loaded", "stored"}

\* When the second decode takes the data (cpu.v 1155-1185) the eight bytes are
\* those at the address, wrapped around the end of the memory, whatever access or
\* reset came before.
ReadsWhatIsThere ==
  phase = "loaded" => dm.dat_r8 = ReadAt(mem, data.adr, 8)

\* Outside STATE_DATA_FETCH every store started since the last reset is in the
\* memory, all of its bytes and no others: the byte presented with ack is written
\* although the requester is already going on (ram_module_v3.v 168-178, 276).
StoresLand == phase # "fetch" => mem = want

\* A store in progress, even one that a reset cuts short, only ever changes bytes
\* of its own range, and only to the values it asks for.
InRange ==
  [][\A a \in Addr : mem'[a] # mem[a] =>
       /\ phase = "fetch"
       /\ (a - data.adr) % 2^AddrBits < data.ww
       /\ mem'[a] = Byte(data.dat_w, (a - data.adr) % 2^AddrBits)]_vars

\* The answer to one access is never still up when the next one starts, which
\* STATE_DATA_FETCH would take for its own (cpu.v 2256).
NoStaleAck == dm.ack => phase # "idle"

\* STATE_DATA_FETCH has no timeout: ack must come.
Answered == (phase = "fetch") ~> (phase # "fetch")
=============================================================================
