----------------------------- MODULE CallHandler -----------------------------
(***************************************************************************)
(* The helper functions of call_handler.v and the word store behind them   *)
(* (ram64_memory_v1.v, whose read port is combinational).  func selects    *)
(* the LEDs, a store or a read; r1 is the store's address, or the LED      *)
(* bits, and r2 the value to store.  r3 to r5 reach the handler and are    *)
(* used by no function, so they are left out.                              *)
(*                                                                         *)
(* The store's write port acts on write_enable, r1 and r2 at EVERY edge,   *)
(* whether or not stb is high.                                             *)
(***************************************************************************)
EXTENDS Words

CONSTANTS
  CallAddrBits,    \* 5 in the code
  CallDepth,       \* MEMORY_DEPTH of ram64_memory_v1.v, 20: not a power of two
  Unknowns         \* the values a read past CallDepth may give

ASSUME CallMemoryAssumption ==
  /\ CallAddrBits \in 1 .. W64 /\ CallDepth \in 1 .. 2^CallAddrBits
  /\ Unknowns \subseteq Word(W64) /\ Unknowns # {}

VARIABLES
  ch,       \* the registers of call_handler.v
  store     \* call_handler_mem

Data == Word(W64)
Registers == [ret : Data, ack : BOOLEAN, err : BOOLEAN, leds : [1 .. 3 -> 0 .. 1],
              write_enable : BOOLEAN, pause : BOOLEAN]

\* 0xff000001, 0xff000002 and 0xff000003.
FuncBase == (2^ByteBits - 1) * 2^(3 * ByteBits)
FuncLeds == FuncBase + 1
FuncStore == FuncBase + 2
FuncRead == FuncBase + 3

address(p) == p.r1 % 2^CallAddrBits

\* Reading past MEMORY_DEPTH gives an unknown value.
data_r(p) == IF address(p) < CallDepth THEN {store[address(p)]} ELSE Unknowns

ResetRegs == [ret |-> 0, ack |-> FALSE, err |-> FALSE, leds |-> [i \in 1 .. 3 |-> 0],
              write_enable |-> FALSE, pause |-> FALSE]

\* A faulty SetLeds, which the properties must tell from the real one: shifted
\* and not masked.
SetLedsUnmasked(p) ==
  [ch EXCEPT !.leds = [i \in 1 .. 3 |-> p.r1 \div 2^(i - 1)], !.ack = TRUE]

\* IP4_led, IPv6_led and pkt_err_led are bits 0 to 2 of r1.
SetLeds(p) ==
  [ch EXCEPT !.leds = [i \in 1 .. 3 |-> (p.r1 \div 2^(i - 1)) % 2], !.ack = TRUE]

\* A faulty StepStore, which the properties must tell from the real one: done
\* before the write.
StepStoreHasty ==
  IF ~ch.write_enable THEN [ch EXCEPT !.write_enable = TRUE, !.ack = TRUE]
  ELSE [ch EXCEPT !.write_enable = FALSE, !.ack = TRUE]

\* Three edges: write_enable, then pause, then done.
StepStore ==
  IF ~ch.write_enable THEN [ch EXCEPT !.write_enable = TRUE]
  ELSE IF ~ch.pause THEN [ch EXCEPT !.pause = TRUE]
  ELSE [ch EXCEPT !.pause = FALSE, !.write_enable = FALSE, !.ack = TRUE]

\* A faulty StepRead, which the properties must tell from the real one:
\* acknowledged with the pause, before the word is there.
StepReadHasty(data) ==
  IF ~ch.pause THEN [ch EXCEPT !.pause = TRUE, !.ack = TRUE]
  ELSE [ch EXCEPT !.ret = data, !.pause = FALSE, !.ack = TRUE]

\* A faulty StepRead, which the properties must tell from the real one: never
\* acknowledged.
StepReadMute(data) ==
  IF ~ch.pause THEN [ch EXCEPT !.pause = TRUE] ELSE [ch EXCEPT !.ret = data, !.pause = FALSE]

\* Two edges: pause, then the word read.
StepRead(data) ==
  IF ~ch.pause THEN [ch EXCEPT !.pause = TRUE]
  ELSE [ch EXCEPT !.ret = data, !.pause = FALSE, !.ack = TRUE]

Unknown == [ch EXCEPT !.err = TRUE, !.ack = TRUE]
\* A faulty Idle, which the properties must tell from the real one: ack stays.
IdleAcked == [ch EXCEPT !.err = FALSE]

Idle == [ch EXCEPT !.ack = FALSE, !.err = FALSE]

MemEdge(rst, p) ==
  store' = IF ~rst /\ ch.write_enable /\ address(p) < CallDepth
           THEN [store EXCEPT ![address(p)] = p.r2] ELSE store

\* The registers' possible next values with stb high.
Serve(p) ==
  CASE p.func = FuncLeds -> {SetLeds(p)}
    [] p.func = FuncStore -> {StepStore}
    [] p.func = FuncRead -> {StepRead(data) : data \in data_r(p)}
    [] OTHER -> {Unknown}

\* One rising edge of clk with the inputs p = [stb, func, r1, r2].
Edge(rst, p) ==
  /\ ch' \in IF rst THEN {ResetRegs} ELSE IF p.stb THEN Serve(p) ELSE {Idle}
  /\ MemEdge(rst, p)
=============================================================================
