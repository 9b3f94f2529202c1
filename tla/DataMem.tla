------------------------------- MODULE DataMem -------------------------------
(***************************************************************************)
(* The data memory of ram_module_v3.v: a byte memory behind an FSM that    *)
(* moves one byte per clock edge.  A read always fetches eight bytes       *)
(* (dat_r8, of which dat_r0, dat_r2 and dat_r4 are the low parts); a write *)
(* stores ww bytes.  stb has to stay high, with steady inputs, until ack.  *)
(*                                                                         *)
(* The FSM and the memory are two always blocks on the same clock: the     *)
(* memory acts on adr0, we1 and dat_w1 as the FSM left them one edge ago.  *)
(***************************************************************************)
EXTENDS Words

CONSTANT AddrBits    \* 11 in the code

ASSUME AddrBitsAssumption == AddrBits \in 3 .. W64    \* room for eight bytes

VARIABLES
  dm,     \* the registers of the FSM and the memory's output register dat_r1
  mem     \* the bytes

Addr == Word(AddrBits)
\* A faulty Next1, which the properties must tell from the real one: it does not
\* wrap.
Next1Unwrapped(a) == a + 1

Next1(a) == (a + 1) % 2^AddrBits

Registers ==
  [ack : BOOLEAN, dat_r8 : Word(W64), wcnt : 0 .. 15, wait_1 : BOOLEAN, adr0 : Addr,
   we1 : BOOLEAN, dat_w1 : Word(ByteBits), addr_t : Addr, write_complete_flag : BOOLEAN,
   dat_r1 : Word(ByteBits)]

\* What a requester presents: stb, the address, we0, ww and dat_w0.
Ports == [stb : BOOLEAN, adr : Addr, we : BOOLEAN, ww : 0 .. 15, dat_w : Word(W64)]

\* x with byte number n replaced.
PutByte(x, n, b) == x + (b - Byte(x, n)) * 2^(n * ByteBits)

\* The n bytes of memory m from address a on, as a number; the memory wraps.
ReadAt(m, a, n) ==
  LET val[k \in 0 .. n] ==
        IF k = 0 THEN 0
        ELSE val[k - 1] + m[(a + k - 1) % 2^AddrBits] * 2^((k - 1) * ByteBits)
  IN val[n]

\* Memory m with the low n bytes of x stored from address a on.
WriteAt(m, a, n, x) ==
  [b \in Addr |-> IF (b - a) % 2^AddrBits < n THEN Byte(x, (b - a) % 2^AddrBits) ELSE m[b]]

-----------------------------------------------------------------------------
(* The FSM, first always block.  Each operator is the registers' next      *)
(* value, dat_r1 aside, in one branch; p are the input ports.              *)

ResetRegs ==
  [dm EXCEPT !.ack = FALSE, !.dat_r8 = 0, !.wcnt = 0, !.wait_1 = FALSE, !.adr0 = 0,
             !.we1 = FALSE, !.dat_w1 = 0, !.addr_t = 0, !.write_complete_flag = FALSE]

\* The same with the memory's output register, which power-up leaves at 0 here.
ClearRegs ==
  [ack |-> FALSE, dat_r8 |-> 0, wcnt |-> 0, wait_1 |-> FALSE, adr0 |-> 0, we1 |-> FALSE,
   dat_w1 |-> 0, addr_t |-> 0, write_complete_flag |-> FALSE, dat_r1 |-> 0]

StartWrite(p) == [dm EXCEPT !.wcnt = 1, !.addr_t = p.adr]

\* A faulty WriteByte, which the properties must tell from the real one: we1
\* already falls with the last byte.
WriteByteShort(p) ==
  LET last == p.ww = dm.wcnt
  IN [dm EXCEPT !.adr0 = dm.addr_t,
                !.we1 = ~last,
                !.dat_w1 = IF dm.wcnt <= 8 THEN Byte(p.dat_w, dm.wcnt - 1) ELSE @,
                !.addr_t = IF last THEN @ ELSE Next1(@),
                !.wcnt = IF last THEN 0 ELSE (@ + 1) % 16,
                !.write_complete_flag = last,
                !.ack = last \/ @]

\* A faulty WriteByte, which the properties must tell from the real one: the
\* address is one ahead of the data.
WriteByteAhead(p) ==
  LET last == p.ww = dm.wcnt
  IN [dm EXCEPT !.adr0 = Next1(dm.addr_t),
                !.we1 = TRUE,
                !.dat_w1 = IF dm.wcnt <= 8 THEN Byte(p.dat_w, dm.wcnt - 1) ELSE @,
                !.addr_t = IF last THEN @ ELSE Next1(@),
                !.wcnt = IF last THEN 0 ELSE (@ + 1) % 16,
                !.write_complete_flag = last,
                !.ack = last \/ @]

\* Presents byte wcnt-1 to the memory; a wcnt beyond 8 keeps the last byte.  The
\* last byte, ww = wcnt, sets ack and write_complete_flag.
WriteByte(p) ==
  LET last == p.ww = dm.wcnt
  IN [dm EXCEPT !.adr0 = dm.addr_t,
                !.we1 = TRUE,
                !.dat_w1 = IF dm.wcnt <= 8 THEN Byte(p.dat_w, dm.wcnt - 1) ELSE @,
                !.addr_t = IF last THEN @ ELSE Next1(@),
                !.wcnt = IF last THEN 0 ELSE (@ + 1) % 16,
                !.write_complete_flag = last,
                !.ack = last \/ @]

\* stb after the answer: nothing but we1 and adr0 change.
AfterAck(p) == [dm EXCEPT !.we1 = FALSE, !.adr0 = p.adr]

\* A faulty StartRead, which the properties must tell from the real one: it does
\* not wait for the memory's output register.
StartReadHasty(p) == [dm EXCEPT !.we1 = FALSE, !.adr0 = p.adr, !.wcnt = 1, !.wait_1 = FALSE]

StartRead(p) == [dm EXCEPT !.we1 = FALSE, !.adr0 = p.adr, !.wcnt = 1, !.wait_1 = TRUE]

\* The memory's output register makes the first byte one edge late.
WaitRead == [dm EXCEPT !.we1 = FALSE, !.wait_1 = FALSE, !.adr0 = Next1(@)]

\* A faulty ReadByte, which the properties must tell from the real one: the last
\* byte is not acknowledged.
ReadByteMute(p) ==
  [dm EXCEPT !.we1 = FALSE,
             !.dat_r8 = IF dm.wcnt = 1 THEN dm.dat_r1 ELSE PutByte(@, dm.wcnt - 1, dm.dat_r1),
             !.adr0 = IF dm.wcnt = 8 THEN p.adr ELSE Next1(@),
             !.wcnt = IF dm.wcnt = 8 THEN @ ELSE @ + 1]

\* Latches byte wcnt-1; byte 0 clears the others.
ReadByte(p) ==
  LET last == dm.wcnt = 8
  IN [dm EXCEPT !.we1 = FALSE,
                !.dat_r8 = IF dm.wcnt = 1 THEN dm.dat_r1
                           ELSE IF dm.wcnt <= 8 THEN PutByte(@, dm.wcnt - 1, dm.dat_r1)
                           ELSE @,
                !.adr0 = IF last THEN p.adr ELSE Next1(@),
                !.wcnt = IF last THEN @ ELSE (@ + 1) % 16,
                !.ack = last]

\* A faulty Idle, which the properties must tell from the real one: ack stays.
IdleAcked == [dm EXCEPT !.wait_1 = TRUE, !.wcnt = 0, !.write_complete_flag = FALSE]

\* A faulty Idle, which the properties must tell from the real one: an access cut
\* short is taken up by the next.
IdleCounting == [dm EXCEPT !.ack = FALSE, !.wait_1 = TRUE, !.write_complete_flag = FALSE]

Idle == [dm EXCEPT !.ack = FALSE, !.wait_1 = TRUE, !.wcnt = 0, !.write_complete_flag = FALSE]

Fsm(rst, p) ==
  IF rst THEN ResetRegs
  ELSE IF ~p.stb THEN Idle
  ELSE IF p.we /\ ~dm.write_complete_flag
       THEN IF dm.wcnt = 0 THEN StartWrite(p) ELSE WriteByte(p)
  ELSE IF dm.ack THEN AfterAck(p)
  ELSE IF dm.wcnt = 0 THEN StartRead(p)
  ELSE IF dm.wait_1 THEN WaitRead
  ELSE ReadByte(p)

\* The memory, second always block: during a write the old byte is read.
MemWrite(rst) ==
  mem' = IF ~rst /\ dm.we1 THEN [mem EXCEPT ![dm.adr0] = dm.dat_w1] ELSE mem
MemRead(rst) == IF rst THEN dm.dat_r1 ELSE mem[dm.adr0]

\* One rising edge of clk.
Edge(rst, p) ==
  /\ dm' = [Fsm(rst, p) EXCEPT !.dat_r1 = MemRead(rst)]
  /\ MemWrite(rst)
=============================================================================
