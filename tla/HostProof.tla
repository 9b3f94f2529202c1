------------------------------ MODULE HostProof ------------------------------
(***************************************************************************)
(* The processor and its host, for every width, program, data memory, rule *)
(* and store.                                                              *)
(*                                                                         *)
(* First, the host's stores: what the host takes over may be a data memory *)
(* in the middle of anything.  Then, that portable programs run as the     *)
(* reference interpreter runs them.                                        *)
(***************************************************************************)
EXTENDS Reprogram, CpuProof, WordsProof

-----------------------------------------------------------------------------
(* The host's stores.                                                      *)

Size == 2^AddrBits
Addresses == Word(AddrBits)
At(a, k) == (a + k) % Size
Distance(a, b) == (b - a) % Size

\* The registers of the data memory and its bytes are there; what they hold when the
\* host comes does not matter.
MemoryShaped ==
  /\ {"ack", "we1", "adr0", "dat_w1", "wait_1", "wcnt", "write_complete_flag", "addr_t"}
       \subseteq DOMAIN dm
  /\ DOMAIN mem = Addresses /\ mem = [a \in Addresses |-> mem[a]]

HostDrives ==
  /\ csr_ctl1 \in BOOLEAN
  /\ host = "reset" => hport = NoData \/ hport \in Accesses
  /\ host = "reset" /\ hport.stb => csr_ctl1
  /\ host = "run" /\ hport.stb => want = NoMemory

Pending == host = "reset" /\ hport.stb

\* How many bytes of the host's store have been presented to the memory.
Presented == IF dm.write_complete_flag THEN hport.ww
             ELSE IF dm.wcnt = 0 THEN 0 ELSE dm.wcnt - 1

\* The memory takes the last byte presented on the next edge.  Until the first one is
\* presented, the write port may hold what was interrupted, which is there already.
HostStoring ==
  Pending =>
    /\ want = DataM!WriteAt(mem, hport.adr, hport.ww, hport.dat_w)
    /\ IF dm.write_complete_flag THEN dm.ack
       ELSE /\ ~dm.ack /\ dm.wcnt \in 0 .. hport.ww
            /\ dm.wcnt >= 1 => dm.addr_t = At(hport.adr, dm.wcnt - 1)
    /\ Presented = 0 => MemSettled
    /\ Presented >= 1 => /\ dm.we1
                         /\ dm.adr0 = At(hport.adr, Presented - 1)
                         /\ dm.dat_w1 = Byte(hport.dat_w, Presented - 1)
    /\ \A i \in 0 .. (Presented - 2) : mem[At(hport.adr, i)] = Byte(hport.dat_w, i)

HostStored == want # NoMemory /\ ~hport.stb => mem = want /\ MemSettled

HostInv == MemoryShaped /\ HostDrives /\ HostStoring /\ HostStored

-----------------------------------------------------------------------------
(* Storing several bytes.                                                  *)

LEMMA Room == Size \in Nat /\ Size >= 8 /\ Addresses = 0 .. Size - 1
BY WidthsAssumption, EightBytes DEF Addresses, Word, Size

LEMMA Offsets ==
  ASSUME NEW a \in Addresses, NEW k \in 0 .. Size - 1
  PROVE  At(a, k) \in Addresses /\ Distance(a, At(a, k)) = k
BY Room, Onward DEF At, Distance

LEMMA Return ==
  ASSUME NEW a \in Addresses, NEW b \in Addresses
  PROVE  Distance(a, b) \in 0 .. Size - 1 /\ At(a, Distance(a, b)) = b
BY Room, BackAgain DEF At, Distance

LEMMA NextByte ==
  ASSUME NEW a \in Addresses, NEW k \in 0 .. Size - 1
  PROVE  DataM!Next1(At(a, k)) = At(a, k + 1) /\ At(a, 0) = a
<1>1. DataM!Next1(At(a, k)) = (At(a, k) + 1) % Size
  BY DEF DataM!Next1, Size
<1> QED BY <1>1, Room, OneFurther DEF At

LEMMA WriteIs ==
  ASSUME NEW m, NEW a, NEW n, NEW v
  PROVE  DataM!WriteAt(m, a, n, v)
           = [b \in Addresses |-> IF Distance(a, b) < n THEN Byte(v, Distance(a, b)) ELSE m[b]]
BY Zenon DEF DataM!WriteAt, DataM!Addr, DataM!Word, DataM!Byte, Addresses, Word, Byte,
             Distance, Size

\* Storing one of the bytes early changes nothing in the end.
LEMMA WriteEarly ==
  ASSUME DOMAIN mem = Addresses, NEW a \in Addresses, NEW n \in 0 .. 8, NEW v,
         NEW j \in 0 .. 7, j < n
  PROVE  DataM!WriteAt([mem EXCEPT ![At(a, j)] = Byte(v, j)], a, n, v) = DataM!WriteAt(mem, a, n, v)
<1> DEFINE e == [mem EXCEPT ![At(a, j)] = Byte(v, j)]
<1>1. j \in 0 .. Size - 1
  BY Room
<1>2. ASSUME NEW b \in Addresses, ~(Distance(a, b) < n) PROVE e[b] = mem[b]
  BY <1>1, <1>2, Offsets
<1> HIDE DEF e
<1>3. DataM!WriteAt(e, a, n, v) = DataM!WriteAt(mem, a, n, v)
  BY <1>2, WriteIs
<1> QED BY <1>3 DEF e

\* Storing what is there already.
LEMMA WriteDone ==
  ASSUME NEW m, m = [a \in Addresses |-> m[a]], NEW a \in Addresses, NEW n \in 0 .. 8,
         NEW v, \A i \in 0 .. n - 1 : m[At(a, i)] = Byte(v, i)
  PROVE  DataM!WriteAt(m, a, n, v) = m
<1>1. ASSUME NEW b \in Addresses, Distance(a, b) < n PROVE m[b] = Byte(v, Distance(a, b))
  <2>1. Distance(a, b) \in 0 .. n - 1
    <3>1. Distance(a, b) \in 0 .. Size - 1 /\ Size \in Nat
      BY Return, Room
    <3> QED BY <1>1, <3>1
  <2> QED BY <2>1, Return
<1>2. DataM!WriteAt(m, a, n, v) = [b \in Addresses |-> m[b]]
  BY <1>1, WriteIs
<1> QED BY <1>2

-----------------------------------------------------------------------------
(* One edge.                                                               *)

\* The pins as the host drives them.
LEMMA DrivenPins ==
  ASSUME NEW in \in Inputs, NEW u
  PROVE  /\ Driven(in).reset_n_int = in.reset_n_int /\ Driven(in).csr_ctl1 = csr_ctl1
         /\ Driven(in).host = hport
         /\ Writing(in, u).reset_n_int = in.reset_n_int /\ Writing(in, u).csr_ctl1 = csr_ctl1
         /\ Writing(in, u).host = hport
<1>1. {"reset_n_int", "csr_ctl1", "host"} \subseteq DOMAIN in
  BY InputsAssumption DEF Pins
<1> QED  BY <1>1 DEF Driven, Writing

\* Reset being held, csr_ctl[1] decides who has the data memory.
LEMMA HostEdge ==
  ASSUME ResetEdge, csr_ctl1 \in BOOLEAN
  PROVE  /\ csr_ctl1 => DataM!Edge(FALSE, hport)
         /\ ~csr_ctl1 => DataM!Edge(TRUE, data)
<1>1. PICK in \in Inputs : /\ ~in.reset_n_int
                           /\ Reset(Driven(in)) \/ \E u \in Uploads : Reset(Writing(in, u))
  BY DEF ResetEdge, Resets
<1>2. PICK i : Parts(i) /\ ~i.reset_n_int /\ i.csr_ctl1 = csr_ctl1 /\ i.host = hport
  BY <1>1, DrivenPins DEF Reset
<1>3. DataM!Edge((~i.reset_n_int) # i.csr_ctl1, IF i.csr_ctl1 THEN i.host ELSE data)
  BY <1>2 DEF Parts
<1>4. CASE csr_ctl1
  <2>1. ((~i.reset_n_int) # i.csr_ctl1) = FALSE
    BY <1>2, <1>4
  <2> QED  BY <1>2, <1>3, <1>4, <2>1
<1>5. CASE ~csr_ctl1
  <2>1. ((~i.reset_n_int) # i.csr_ctl1) = TRUE
    BY <1>2, <1>5
  <2> QED  BY <1>2, <1>3, <1>5, <2>1
<1> QED  BY <1>4, <1>5

\* No edge takes a register or a byte away.
LEMMA StaysShaped ==
  ASSUME MemoryShaped, NEW rst, NEW p, DataM!Edge(rst, p)
  PROVE  MemoryShaped'
<1>1. DOMAIN dm' = DOMAIN dm
  BY DEF DataM!Edge, DataM!Fsm, DataM!ResetRegs, DataM!Idle, DataM!StartWrite,
         DataM!WriteByte, DataM!AfterAck, DataM!StartRead, DataM!WaitRead, DataM!ReadByte
<1>2. DOMAIN mem' = Addresses /\ mem' = [a \in Addresses |-> mem'[a]]
  BY DEF MemoryShaped, DataM!Edge, DataM!MemWrite
<1> QED  BY <1>1, <1>2 DEF MemoryShaped

\* An edge in reset without a request of the host: what the write port holds is in the
\* memory afterwards, and the FSM is at rest if the host has it.
LEMMA QuietEdge ==
  ASSUME HostInv, ResetEdge, ~hport.stb
  PROVE  /\ MemSettled' /\ (MemSettled => mem' = mem)
         /\ csr_ctl1 => ~dm.ack' /\ dm.wcnt' = 0 /\ ~dm.write_complete_flag'
<1> USE DEF HostInv, MemoryShaped
<1>1. CASE csr_ctl1
  <2>1. DataM!Edge(FALSE, hport)
    BY <1>1, HostEdge DEF HostDrives
  <2>2. /\ ~dm.ack' /\ dm.wcnt' = 0 /\ ~dm.write_complete_flag'
        /\ dm.we1' = dm.we1 /\ dm.adr0' = dm.adr0 /\ dm.dat_w1' = dm.dat_w1
    BY <2>1 DEF DataM!Edge, DataM!Fsm, DataM!Idle
  <2>3. mem' = IF dm.we1 THEN [mem EXCEPT ![dm.adr0] = dm.dat_w1] ELSE mem
    BY <2>1 DEF DataM!Edge, DataM!MemWrite
  <2> QED  BY <2>2, <2>3, WrittenTwice DEF MemSettled
<1>2. CASE ~csr_ctl1
  <2>1. DataM!Edge(TRUE, data)
    BY <1>2, HostEdge DEF HostDrives
  <2>2. ~dm.we1' /\ mem' = mem
    BY <2>1 DEF DataM!Edge, DataM!Fsm, DataM!ResetRegs, DataM!MemWrite
  <2> QED  BY <1>2, <2>2 DEF MemSettled
<1> QED  BY <1>1, <1>2

-----------------------------------------------------------------------------
(* The host's actions.                                                     *)

\* What a store of the host looks like while it is pending.
LEMMA PendingPort ==
  ASSUME HostInv, Pending
  PROVE  /\ csr_ctl1 /\ hport \in Accesses /\ hport.stb /\ hport.we
         /\ hport.ww \in {1, 2, 4, 8} /\ hport.ww \in 0 .. 8 /\ hport.adr \in Addresses
<1>1. csr_ctl1 /\ hport \in Accesses
  BY DEF HostInv, HostDrives, Pending, NoData
<1> QED
  BY <1>1, HostAssumption DEF DataM!Ports, DataM!Addr, DataM!Word, Addresses, Word

\* What the memory holds once it has taken the byte presented to it.
LEMMA TakeByte ==
  ASSUME HostInv, Pending, DataM!Edge(FALSE, hport)
  PROVE  /\ Presented \in 0 .. hport.ww
         /\ DataM!WriteAt(mem', hport.adr, hport.ww, hport.dat_w) = want
         /\ \A i \in 0 .. Presented - 1 : mem'[At(hport.adr, i)] = Byte(hport.dat_w, i)
         /\ Presented = 0 => mem' = mem
<1> USE DEF HostInv
<1>1. hport.ww \in {1, 2, 4, 8} /\ hport.ww \in 0 .. 8 /\ hport.adr \in Addresses
  BY PendingPort
<1>2. mem' = IF dm.we1 THEN [mem EXCEPT ![dm.adr0] = dm.dat_w1] ELSE mem
  BY DEF DataM!Edge, DataM!MemWrite
<1>3. Presented \in 0 .. hport.ww
  BY <1>1 DEF HostStoring, Presented
<1>4. CASE Presented = 0
  BY <1>2, <1>3, <1>4 DEF HostStoring, MemSettled
<1>5. CASE Presented # 0
  <2> DEFINE j == Presented - 1
  <2>1. j \in 0 .. 7 /\ j < hport.ww /\ j \in 0 .. Size - 1 /\ Presented >= 1
    BY <1>1, <1>3, <1>5, Room
  <2>2. mem' = [mem EXCEPT ![At(hport.adr, j)] = Byte(hport.dat_w, j)]
    BY <1>2, <2>1 DEF HostStoring
  <2>3. DOMAIN mem = Addresses
    BY DEF MemoryShaped
  <2>4. DataM!WriteAt(mem', hport.adr, hport.ww, hport.dat_w) = want
    <3>1. DataM!WriteAt([mem EXCEPT ![At(hport.adr, j)] = Byte(hport.dat_w, j)],
                        hport.adr, hport.ww, hport.dat_w)
            = DataM!WriteAt(mem, hport.adr, hport.ww, hport.dat_w)
      <4> HIDE DEF j
      <4> QED  BY <1>1, <2>1, <2>3, WriteEarly
    <3> QED  BY <2>2, <3>1 DEF HostStoring
  <2>5. ASSUME NEW i \in 0 .. Presented - 1
        PROVE  mem'[At(hport.adr, i)] = Byte(hport.dat_w, i)
    <3>1. i \in 0 .. Size - 1 /\ (i = j \/ i \in 0 .. (Presented - 2))
      BY <1>3, <2>1, Room
    <3>2. At(hport.adr, i) \in Addresses
      BY <1>1, <3>1, Offsets
    <3>3. CASE i = j
      BY <2>2, <2>3, <3>2, <3>3
    <3>4. CASE i # j
      <4>1. At(hport.adr, i) # At(hport.adr, j)
        BY <1>1, <2>1, <3>1, <3>4, Offsets
      <4>2. mem[At(hport.adr, i)] = Byte(hport.dat_w, i)
        BY <3>1, <3>4 DEF HostStoring
      <4> QED  BY <2>2, <2>3, <3>2, <4>1, <4>2
    <3> QED  BY <3>3, <3>4
  <2> QED  BY <1>3, <1>5, <2>4, <2>5
<1> QED  BY <1>4, <1>5

LEMMA ResetShaped ==
  ASSUME HostInv, ResetEdge
  PROVE  MemoryShaped'
<1>1. csr_ctl1 \in BOOLEAN /\ MemoryShaped
  BY DEF HostInv, HostDrives
<1>2. DataM!Edge(FALSE, hport) \/ DataM!Edge(TRUE, data)
  BY <1>1, HostEdge
<1> QED  BY <1>1, <1>2, StaysShaped

LEMMA SelectStep ==
  ASSUME HostInv, Select
  PROVE  HostInv'
<1>1. ResetEdge /\ ~hport.stb /\ csr_ctl1' \in BOOLEAN /\ Release /\ hport' = hport /\ want' = want
  BY DEF Select
<1>2. MemoryShaped'
  BY <1>1, ResetShaped
<1>3. HostDrives'
  BY <1>1 DEF HostInv, HostDrives, Release, ResetEdge
<1>4. HostStoring' /\ HostStored'
  BY <1>1, QuietEdge DEF HostInv, HostStoring, HostStored, Pending
<1> QED  BY <1>2, <1>3, <1>4 DEF HostInv

LEMMA BeginStoreStep ==
  ASSUME HostInv, NEW p \in Accesses, BeginStore(p)
  PROVE  HostInv'
<1>1. /\ ResetEdge /\ csr_ctl1 /\ ~hport.stb /\ hport' = p /\ host' = host /\ csr_ctl1' = csr_ctl1
      /\ want' = DataM!WriteAt(IF want = NoMemory THEN mem' ELSE want, p.adr, p.ww, p.dat_w)
  BY DEF BeginStore
<1>2. MemoryShaped'
  BY <1>1, ResetShaped
<1>3. p.stb
  BY HostAssumption
<1>4. HostDrives' /\ HostStored'
  BY <1>1, <1>3 DEF HostInv, HostDrives, HostStored, ResetEdge
<1>5. want' = DataM!WriteAt(mem', p.adr, p.ww, p.dat_w)
  <2>1. want # NoMemory => mem' = want
    BY <1>1, QuietEdge DEF HostInv, HostStored
  <2> QED  BY <1>1, <2>1
<1>6. HostStoring'
  <2>1. ~dm'.ack /\ dm'.wcnt = 0 /\ ~dm'.write_complete_flag /\ MemSettled'
    BY <1>1, QuietEdge
  <2>2. Presented' = 0
    BY <2>1 DEF Presented
  <2>3. p.ww \in {1, 2, 4, 8}
    BY HostAssumption
  <2> QED  BY <1>1, <1>5, <2>1, <2>2, <2>3 DEF HostStoring
<1> QED  BY <1>2, <1>4, <1>6 DEF HostInv

LEMMA AwaitAckStep ==
  ASSUME HostInv, AwaitAck
  PROVE  HostInv'
<1> DEFINE k == dm.wcnt - 1
<1>1. /\ ResetEdge /\ hport.stb /\ ~dm.ack /\ Pending
      /\ host' = host /\ csr_ctl1' = csr_ctl1 /\ hport' = hport /\ want' = want
  BY DEF AwaitAck, ResetEdge, Pending
<1>2. /\ csr_ctl1 /\ hport \in Accesses /\ hport.stb /\ hport.we
      /\ hport.ww \in {1, 2, 4, 8} /\ hport.adr \in Addresses
  BY <1>1, PendingPort
<1>3. DataM!Edge(FALSE, hport)
  BY <1>1, <1>2, HostEdge DEF HostInv, HostDrives
<1>4. MemoryShaped' /\ HostDrives' /\ HostStored'
  BY <1>1, ResetShaped DEF HostInv, HostDrives, HostStored
<1>5. ~dm.write_complete_flag /\ dm.wcnt \in 0 .. hport.ww
  BY <1>1 DEF HostInv, HostStoring
<1>6. /\ want' = DataM!WriteAt(mem', hport.adr, hport.ww, hport.dat_w)
      /\ \A i \in 0 .. Presented - 1 : mem'[At(hport.adr, i)] = Byte(hport.dat_w, i)
      /\ Presented = 0 => mem' = mem
  BY <1>1, <1>3, TakeByte
<1>7. CASE dm.wcnt = 0
  <2>1. DataM!Fsm(FALSE, hport) = DataM!StartWrite(hport)
    BY <1>2, <1>5, <1>7 DEF DataM!Fsm
  <2>2. /\ dm'.wcnt = 1 /\ dm'.addr_t = hport.adr /\ ~dm'.ack /\ ~dm'.write_complete_flag
        /\ dm'.we1 = dm.we1 /\ dm'.adr0 = dm.adr0 /\ dm'.dat_w1 = dm.dat_w1
    BY <1>1, <1>3, <1>5, <2>1 DEF DataM!Edge, DataM!StartWrite, HostInv, MemoryShaped
  <2>3. Presented = 0 /\ Presented' = 0
    BY <1>5, <1>7, <2>2 DEF Presented
  <2>4. MemSettled'
    BY <1>1, <1>6, <2>2, <2>3 DEF HostInv, HostStoring, MemSettled
  <2>5. At(hport.adr, 1 - 1) = hport.adr
    <3>1. 0 \in 0 .. Size - 1 /\ 1 - 1 = 0
      BY Room
    <3> QED  BY <1>2, <3>1, NextByte
  <2>6. HostStoring'
    BY <1>1, <1>2, <1>6, <2>2, <2>3, <2>4, <2>5 DEF HostStoring
  <2> QED  BY <1>4, <2>6 DEF HostInv
<1>8. CASE dm.wcnt # 0
  <2> DEFINE last == hport.ww = dm.wcnt
  <2>1. DataM!Fsm(FALSE, hport) = DataM!WriteByte(hport)
    BY <1>2, <1>5, <1>8 DEF DataM!Fsm
  <2>2. k \in 0 .. 7 /\ k \in 0 .. Size - 1 /\ k + 1 = dm.wcnt /\ dm.wcnt <= 8
        /\ dm.addr_t = At(hport.adr, k)
    BY <1>1, <1>2, <1>5, <1>8, Room DEF HostInv, HostStoring
  <2>3. DataM!Next1(dm.addr_t) = At(hport.adr, dm.wcnt)
    BY <1>2, <2>2, NextByte
  <2>4. (dm.wcnt + 1) % 16 = dm.wcnt + 1
    BY <1>2, <1>5
  <2>5. DataM!Byte(hport.dat_w, dm.wcnt - 1) = Byte(hport.dat_w, k)
    BY DEF DataM!Byte, Byte
  <2>6. /\ dm'.adr0 = At(hport.adr, k) /\ dm'.we1 /\ dm'.dat_w1 = Byte(hport.dat_w, k)
        /\ dm'.write_complete_flag <=> last
        /\ dm'.ack <=> last
        /\ ~last => dm'.wcnt = dm.wcnt + 1 /\ dm'.addr_t = At(hport.adr, dm.wcnt)
    BY <1>1, <1>3, <2>1, <2>2, <2>3, <2>4, <2>5 DEF DataM!Edge, DataM!WriteByte, HostInv, MemoryShaped
  <2>7. Presented = k /\ Presented' = dm.wcnt
    BY <1>1, <1>5, <1>8, <2>2, <2>6 DEF Presented
  <2>8. HostStoring'
    <3>1. \A i \in 0 .. (dm.wcnt - 2) : mem'[At(hport.adr, i)] = Byte(hport.dat_w, i)
      BY <1>5, <1>6, <2>7
    <3>2. ~last => dm.wcnt + 1 \in 0 .. hport.ww /\ (dm.wcnt + 1) - 1 = dm.wcnt
      BY <1>2, <1>5
    <3> QED  BY <1>1, <1>5, <1>6, <1>8, <2>6, <2>7, <3>1, <3>2 DEF HostStoring
  <2> QED  BY <1>4, <2>8 DEF HostInv
<1> QED  BY <1>7, <1>8

LEMMA EndStoreStep ==
  ASSUME HostInv, EndStore
  PROVE  HostInv'
<1>1. /\ ResetEdge /\ hport.stb /\ dm.ack /\ Pending
      /\ hport' = NoData /\ csr_ctl1' \in BOOLEAN /\ Release /\ want' = want
  BY DEF EndStore, ResetEdge, Pending
<1>2. /\ csr_ctl1 /\ hport.stb /\ hport.we
      /\ hport.ww \in {1, 2, 4, 8} /\ hport.ww \in 0 .. 8 /\ hport.adr \in Addresses
  BY <1>1, PendingPort
<1>3. DataM!Edge(FALSE, hport)
  BY <1>1, <1>2, HostEdge DEF HostInv, HostDrives
<1>4. MemoryShaped'
  BY <1>1, ResetShaped
<1>5. ~hport'.stb
  BY <1>1 DEF NoData
<1>6. HostDrives' /\ HostStoring'
  BY <1>1, <1>5 DEF HostDrives, HostStoring, Pending, Release
<1>7. dm.write_complete_flag /\ Presented = hport.ww
  BY <1>1 DEF HostInv, HostStoring, Presented
<1>8. mem' = want
  <2>1. \A i \in 0 .. hport.ww - 1 : mem'[At(hport.adr, i)] = Byte(hport.dat_w, i)
    BY <1>1, <1>3, <1>7, TakeByte
  <2>2. DataM!WriteAt(mem', hport.adr, hport.ww, hport.dat_w) = mem'
    BY <1>2, <1>4, <2>1, WriteDone DEF MemoryShaped
  <2> QED  BY <1>1, <1>3, <2>2, TakeByte
<1>9. ~dm'.we1
  BY <1>1, <1>2, <1>3, <1>7 DEF DataM!Edge, DataM!Fsm, DataM!AfterAck, HostInv, MemoryShaped
<1>10. HostStored'
  BY <1>1, <1>8, <1>9 DEF HostStored, MemSettled
<1> QED  BY <1>4, <1>6, <1>10 DEF HostInv

\* While the processor runs, the host asks for nothing that lasts.
LEMMA RunStep ==
  ASSUME HostInv, RunEdge,
         \/ UNCHANGED <<host, csr_ctl1, hport>>
         \/ csr_ctl1' \in BOOLEAN /\ hport' = NoData
         \/ csr_ctl1' = TRUE /\ UNCHANGED host
  PROVE  HostInv'
<1>1. host = "run" /\ want' = NoMemory
  BY DEF RunEdge
<1>2. PICK i : Execute(i)
  BY DEF RunEdge
<1>3. Parts(i)
  BY <1>2, ExecuteShape
<1>4. MemoryShaped'
  BY <1>3, StaysShaped DEF Parts, HostInv
<1>5. ~NoData.stb
  BY DEF NoData
<1> QED
  BY <1>1, <1>4, <1>5 DEF HostInv, HostDrives, HostStoring, HostStored, Pending

LEMMA HostInvInit == ReprogramInit => HostInv
<1> SUFFICES ASSUME ReprogramInit PROVE HostInv
  OBVIOUS
<1>1. Init /\ host = "run" /\ csr_ctl1 = FALSE /\ hport = NoData /\ want = NoMemory
  BY DEF ReprogramInit, HostInit
<1>2. mem \in Memories /\ dm = DataM!ClearRegs
  BY <1>1 DEF Init
<1>3. MemoryShaped
  BY <1>2, MemoriesAssumption DEF MemoryShaped, DataM!ClearRegs, Addresses
<1> QED
  BY <1>1, <1>3 DEF HostInv, HostDrives, HostStoring, HostStored, Pending, NoData

LEMMA HostInvStep == HostInv /\ [ReprogramNext]_rvars => HostInv'
<1> SUFFICES ASSUME HostInv, [ReprogramNext]_rvars PROVE HostInv'
  OBVIOUS
<1>1. CASE UNCHANGED rvars
  BY <1>1 DEF rvars, vars, parts, hostvars, HostInv, MemoryShaped, HostDrives, HostStoring,
              HostStored, Pending, Presented, MemSettled
<1>2. CASE Select
  BY <1>2, SelectStep
<1>3. ASSUME NEW p \in Accesses, BeginStore(p) PROVE HostInv'
  BY <1>3, BeginStoreStep
<1>4. CASE AwaitAck
  BY <1>4, AwaitAckStep
<1>5. CASE EndStore
  BY <1>5, EndStoreStep
<1>6. CASE Run \/ TakeMemory \/ GiveMemory \/ Stop
  BY <1>6, RunStep DEF Run, TakeMemory, GiveMemory, Stop
<1> QED  BY <1>1, <1>2, <1>3, <1>4, <1>5, <1>6 DEF ReprogramNext

\* Once a store of the host is acknowledged the data memory is what its stores make of
\* what was there, whatever access of the processor was cut short when the host took
\* it (cpu.v 620, 663; ram_module_v3.v 131-181, 276), and whether or not the write
\* enable that it left is still up.
THEOREM UploadsLand == ReprogramSpec => []HostStoresLand
<1>1. HostInv => HostStoresLand
  BY DEF HostInv, HostStored, HostStoresLand
<1> QED  BY <1>1, HostInvInit, HostInvStep, PTL DEF ReprogramSpec

-----------------------------------------------------------------------------
(* The instructions that fail.                                             *)

\* Where an instruction is executed: the interpreter is about to execute it, too.
Current ==
  /\ absStatus = "run" /\ absPc = ip /\ absReg = regs /\ Matched
  /\ Ref!inst = insn /\ Ref!following = pgm_dat_r
  /\ Portable(insn, pgm_dat_r)
  /\ ip_next = (ip + 1) % 2^IpBits
  /\ insn \in Instructions /\ src \in 0 .. 10 /\ dst \in 0 .. 10

\* An instruction that is neither half a LDDW nor a store under way is the next one.
LEMMA ExecutesCurrent ==
  ASSUME RunInv, ~halt, ~BadFields, state_next \in Executing, keep_op = 0, ~Storing
  PROVE  Current
<1>1. TypeOK /\ FetchInv
  BY Facts
<1>2. insn = instruction /\ instruction \in Instructions
  BY <1>1, AtDecode DEF TypeOK
<1>3. src \in 0 .. 10 /\ dst \in 0 .. 10
  BY <1>1, Fields DEF Registers, MAX_REGS
<1>4. ip_next = (ip + 1) % 2^IpBits
  BY <1>1 DEF FetchInv, PrefetchCoherent
<1> QED BY <1>1, <1>2, <1>3, <1>4, AtDecode, PortableWord DEF Current

\* So is one that is decoded for the first time, and a load that is decoded again.
LEMMA DecodesCurrent ==
  ASSUME RunInv, NEW classes, NEW in, Decode(classes, in), opclass(opcode) # OPC_LD,
         ~cpu_data_ack \/ opclass(opcode) \notin {OPC_ST, OPC_STX}
  PROVE  Current
<1>1. ~halt /\ ~BadFields /\ state_next = "DECODE"
  BY DEF Decode, InState
<1>2. ~Storing
  BY <1>1 DEF Storing
<1>3. keep_op = 0
  BY Facts, NotKept
<1> QED BY <1>1, <1>2, <1>3, ExecutesCurrent DEF Executing

\* The interpreter fails with the processor.
LEMMA FailsTogether ==
  ASSUME RunInv, NEW in \in Inputs, Execute(in), ~(StoreStart(in) /\ IsMem(opcode)),
         Current, halt', error', ~Ref!Valid(insn, pgm_dat_r) \/ Ref!ZeroDivisor
  PROVE  Ref!Fail
<1>1. absMem' = absMem
  BY Facts, AbsMemStep
<1>2. absStatus' = "fail" /\ absPc' = 0
  BY DEF absStatus, absPc
<1>3. pgm' = pgm
  BY ExecuteShape, ProgramRead
<1> QED BY <1>1, <1>2, <1>3 DEF Ref!Fail, Current

\* What cpu.v does not execute, validate refuses.
LEMMA UnknownFails ==
  ASSUME RunInv, NEW in \in Inputs, Execute(in),
         \/ Reserved(in) \/ BadAlu(in)
         \/ LoadDone(in) /\ ~IsMem(opcode)
         \/ StoreStart(in) /\ ~IsMem(opcode)
         \/ Jump(in) /\ ~IsJump(opcode) /\ opcode # EBPF_OP_EXIT
  PROVE  Ref!Fail
<1>1. halt' /\ error' /\ ~(StoreStart(in) /\ IsMem(opcode))
  <2> USE Classes DEF Raise, Decode, InState, DecodeAlu
  <2>1. CASE Reserved(in) \/ BadAlu(in)
    BY <2>1 DEF Reserved, BadAlu, StoreStart, OPC_LD, OPC_RES, OPC_ST, OPC_STX
  <2>2. CASE (LoadDone(in) \/ StoreStart(in)) /\ ~IsMem(opcode)
    BY <2>2 DEF LoadDone, StoreStart
  <2>3. CASE Jump(in) /\ ~IsJump(opcode) /\ opcode # EBPF_OP_EXIT
    BY <2>3 DEF Jump, StoreStart, OPC_JMP, OPC_ST, OPC_STX
  <2> QED BY <2>1, <2>2, <2>3
<1>2. CASE Reserved(in)
  <2>1. /\ ~halt /\ ~BadFields /\ state_next = "DECODE" /\ opcode # EBPF_OP_LDDW
        /\ opclass(opcode) \in {OPC_LD, OPC_RES}
    BY <1>2 DEF Reserved, Decode, InState
  <2>2. keep_op = 0
    BY <2>1, Facts DEF TypeOK, opcode
  <2>3. ~Storing
    BY <2>1 DEF Storing, OPC_LD, OPC_RES, OPC_ST, OPC_STX
  <2>4. Current
    BY <2>1, <2>2, <2>3, ExecutesCurrent DEF Executing
  <2>5. ~Ref!KnownOpcode(opcode)
    BY <2>1, KnownSame DEF IsPlain, IsNeg, IsDiv, IsShift, IsEndian, IsJump, OPC_LD, OPC_RES,
       OPC_ST, OPC_STX, OPC_LDX, OPC_ALU,
       OPC_ALU64, OPC_JMP, opclass, EBPF_OP_CALL, EBPF_OP_EXIT
  <2> QED BY <1>1, <2>4, <2>5, FailsTogether, Fields, Facts DEF Ref!Valid
<1>3. CASE BadAlu(in)
  <2>1. opclass(opcode) \in {OPC_ALU, OPC_ALU64} /\ Decode({OPC_ALU, OPC_ALU64}, in)
    BY <1>3 DEF BadAlu, DecodeAlu, Decode
  <2>2. Current
    BY <2>1, DecodesCurrent DEF OPC_LD, OPC_ALU, OPC_ALU64, OPC_ST, OPC_STX
  <2>3. ~Ref!KnownOpcode(opcode) \/ (Ref!IsEndian(opcode) /\ immediate \notin {W16, W32, W64})
    BY <1>3, <2>1, KnownSame, EbpfSame DEF BadAlu, EndianWidths, IsJump, OPC_ST, OPC_STX, OPC_LDX,
       OPC_ALU,
       OPC_ALU64, OPC_JMP, opclass, EBPF_OP_CALL, EBPF_OP_EXIT, EBPF_OP_LDDW
  <2> QED BY <1>1, <2>2, <2>3, FailsTogether, Fields, Facts, RefWords DEF Ref!Valid
<1>4. CASE (LoadDone(in) \/ StoreStart(in)) /\ ~IsMem(opcode)
  <2>1. /\ opclass(opcode) \in {OPC_LDX, OPC_ST, OPC_STX} /\ Decode({OPC_LDX, OPC_ST, OPC_STX}, in)
        /\ ~cpu_data_ack \/ opclass(opcode) = OPC_LDX
    BY <1>4 DEF LoadDone, StoreStart, Decode
  <2>2. Current
    BY <2>1, DecodesCurrent DEF OPC_LD, OPC_LDX, OPC_ST, OPC_STX
  <2>3. ~Ref!KnownOpcode(opcode)
    BY <1>4, <2>1, KnownSame DEF IsPlain, IsNeg, IsDiv, IsShift, IsEndian, IsJump, OPC_LDX, OPC_ST,
       OPC_STX, OPC_ALU,
       OPC_ALU64, OPC_JMP, opclass, EBPF_OP_CALL, EBPF_OP_EXIT, EBPF_OP_LDDW
  <2> QED BY <1>1, <2>2, <2>3, FailsTogether, Fields, Facts DEF Ref!Valid
<1>5. CASE Jump(in) /\ ~IsJump(opcode) /\ opcode # EBPF_OP_EXIT
  <2>1. opclass(opcode) = OPC_JMP /\ Decode({OPC_JMP}, in) /\ opcode # EBPF_OP_CALL
    BY <1>5 DEF Jump, Decode
  <2>2. Current
    BY <2>1, DecodesCurrent DEF OPC_LD, OPC_JMP, OPC_ST, OPC_STX
  <2>3. ~Ref!KnownOpcode(opcode)
    BY <1>5, <2>1, KnownSame DEF IsPlain, IsNeg, IsDiv, IsShift, IsEndian, OPC_ST, OPC_STX,
       OPC_LDX, OPC_ALU,
       OPC_ALU64, OPC_JMP, opclass, EBPF_OP_LDDW
  <2> QED BY <1>1, <2>2, <2>3, FailsTogether, Fields, Facts DEF Ref!Valid
<1> QED BY <1>2, <1>3, <1>4, <1>5

\* The instructions the datapath computes.
IsArith(op) == IsPlain(op) \/ IsNeg(op) \/ IsDiv(op) \/ IsShift(op) \/ IsEndian(op) \/ IsJump(op)

\* The operation of an opcode is the same to Datapath.
LEMMA ArithEbpf ==
  /\ \A op : /\ Arith!opclass(op) = opclass(op) /\ Arith!code(op) = code(op)
             /\ Arith!UsesReg(op) <=> UsesReg(op)
             /\ Arith!IsDiv(op) <=> IsDiv(op)
             /\ Arith!IsShift(op) <=> IsShift(op)
             /\ Arith!IsEndian(op) <=> IsEndian(op)
             /\ Arith!IsNeg(op) <=> IsNeg(op)
             /\ Arith!IsPlain(op) <=> IsPlain(op)
             /\ Arith!IsJump(op) <=> IsJump(op)
  /\ Arith!OPC_ALU = OPC_ALU /\ Arith!OPC_ALU64 = OPC_ALU64 /\ Arith!OPC_JMP = OPC_JMP
<1> USE DEF Arith!opclass, opclass, Arith!code, code, Arith!UsesReg, UsesReg, Arith!OPC_ALU,
     OPC_ALU, Arith!OPC_ALU64, OPC_ALU64,
      Arith!OPC_JMP, OPC_JMP
<1>3. \A op : /\ Arith!IsDiv(op) <=> IsDiv(op)
              /\ Arith!IsShift(op) <=> IsShift(op)
              /\ Arith!IsEndian(op) <=> IsEndian(op)
              /\ Arith!IsNeg(op) <=> IsNeg(op)
  BY DEF Arith!IsDiv, IsDiv, Arith!DivOps, DivOps, Arith!IsShift, IsShift, Arith!ShiftOps,
     ShiftOps, Arith!IsEndian, IsEndian,
     Arith!IsNeg, IsNeg,
     Arith!ALU_DIV, ALU_DIV, Arith!ALU_MOD, ALU_MOD, Arith!ALU_LSH, ALU_LSH, Arith!ALU_RSH,
     ALU_RSH, Arith!ALU_ARSH, ALU_ARSH,
     Arith!ALU_ENDC, ALU_ENDC, Arith!ALU_NEG, ALU_NEG
<1>4. \A op : Arith!IsPlain(op) <=> IsPlain(op)
  BY DEF Arith!IsPlain, IsPlain, Arith!PlainOps, PlainOps, Arith!ALU_ADD, ALU_ADD, Arith!ALU_SUB,
     ALU_SUB, Arith!ALU_MUL, ALU_MUL,
     Arith!ALU_OR, ALU_OR, Arith!ALU_AND, ALU_AND, Arith!ALU_XOR, ALU_XOR, Arith!ALU_MOV, ALU_MOV
<1>5. \A op : Arith!IsJump(op) <=> IsJump(op)
  BY DEF Arith!IsJump, IsJump, Arith!CondOps, CondOps, Arith!JMP_JA, JMP_JA, Arith!JMP_JEQ,
     JMP_JEQ, Arith!JMP_JGT, JMP_JGT, Arith!JMP_JGE,
     JMP_JGE, Arith!JMP_JSET, JMP_JSET, Arith!JMP_JNE, JMP_JNE, Arith!JMP_JSGT, JMP_JSGT,
     Arith!JMP_JSGE, JMP_JSGE,
     Arith!JMP_JLT, JMP_JLT, Arith!JMP_JLE, JMP_JLE, Arith!JMP_JSLT, JMP_JSLT, Arith!JMP_JSLE,
     JMP_JSLE
<1> QED BY <1>3, <1>4, <1>5

\* The operands of Datapath's proofs are of the right kind.
LEMMA ArithOperands ==
  ASSUME TypeOK, Current, IsArith(opcode)
  PROVE  Arith!Operands /\ Arith!Decoded
<1>1. insn \in Instructions /\ insn.op = opcode /\ insn.src = src /\ insn.dst = dst /\ insn.imm = immediate
  BY Fields DEF Current
<1>2. insn # NoInsn
  BY <1>1, NoSetContainsEverything DEF NoInsn
<1>3. opcode \in 0 .. 255 /\ immediate \in Word(W32) /\ regs \in [0 .. 10 -> Word(W64)]
  <2>1. opcode \in 0 .. 255 /\ immediate \in Word(W32)
    BY Fields
  <2>2. regs \in [0 .. 10 -> Word(W64)]
    BY DEF TypeOK, Registers, MAX_REGS
  <2> QED BY <2>1, <2>2
<1>4. opcode \in Arith!Opcodes
  BY <1>3, ArithEbpf DEF IsArith, Arith!Opcodes
<1> QED BY <1>1, <1>2, <1>3, <1>4, SameWidths, SameWords DEF Arith!Operands, Arith!Decoded, Current

\* The divisor the processor hands over is zero when the interpreter's is.
LEMMA DivisorZero ==
  ASSUME TypeOK, Current, IsDiv(opcode)
  PROVE  DivAsked.divisor = 0 <=> Ref!ZeroDivisor
<1>1. Arith!Operands /\ Arith!Decoded
  BY ArithOperands DEF IsArith
<1>2. Arith!ZeroAgrees
  BY <1>1, DividerWidth, Widthwise, ArithWords, Arith!ZeroAgreesTyped DEF Arith!ZeroAgreesTyped
<1>3. Arith!DivRequest = DivAsked
  BY Fields DEF Arith!DivRequest, DivAsked, Arith!Is32, Is32, Arith!DivRequest32, DivRequest32,
     Arith!DivRequest64, DivRequest64,
     Arith!opclass, opclass, Arith!OPC_ALU, OPC_ALU, Arith!Low, Low, Arith!W32, W32, Arith!Operand,
     Operand, Arith!UsesReg, UsesReg
<1>4. (DivAsked.divisor = 0) <=> Arith!Ref!ZeroDivisor
  BY <1>1, <1>2, <1>3, ArithEbpf, Fields DEF Arith!ZeroAgrees
<1> QED BY <1>4, ZeroSame DEF Current

\* The division that was answered is the one that was asked.
LEMMA DivAnswer ==
  ASSUME RunInv, Div!ack, ~div64.stb, (state_next = "DIV_PENDING" /\ ~halt) \/ cpu_div64_ack
  PROVE  IF DivAsked.divisor = 0 THEN div.err
         ELSE ~div.err /\ div.quo = DivAsked.dividend \div DivAsked.divisor /\ div.rem = DivAsked.dividend % DivAsked.divisor
<1>1. Arith!AnswerCorrect
  BY Facts, DividerWidth, Widthwise, ArithWords, Arith!IInvAnswer DEF Arith!IInvAnswer
<1>2. Dividing = <<DivAsked.dividend, DivAsked.divisor>>
  BY Facts DEF Dividing, DivRequested
<1>3. Dividing # Nothing
  <2>1. div64 \in [stb : BOOLEAN, dividend : Word(W64), divisor : Word(W64)]
    BY Facts DEF TypeOK
  <2>2. Dividing \in Word(W64) \X Word(W64)
    BY <2>1 DEF Dividing
  <2>3. Nothing \notin Word(W64) \X Word(W64)
    BY NoSetContainsEverything DEF Nothing
  <2> QED BY <2>2, <2>3
<1>4. Arith!ack
  BY DEF Arith!ack, Div!ack
<1> QED BY <1>1, <1>2, <1>3, <1>4 DEF Arith!AnswerCorrect

\* The divider answers with an error to a divisor of zero only.
LEMMA DivErrorFails ==
  ASSUME RunInv, NEW in \in Inputs, Execute(in), DivError(in)
  PROVE  Ref!Fail
<1>1. state_next = "DIV_PENDING" /\ ~halt /\ ~BadFields /\ ~div64.stb /\ Div!ack /\ div.err /\ halt' /\ error'
  BY DEF DivError, InState, Raise
<1>2. IsDiv(opcode)
  BY <1>1, Facts DEF AckInv, DivOK
<1>3. keep_op = 0
  BY <1>2, Facts, NotKept, Classes
<1>4. ~Storing
  BY <1>1 DEF Storing
<1>5. Current
  BY <1>1, <1>3, <1>4, ExecutesCurrent DEF Executing
<1>6. Ref!ZeroDivisor
  <2>1. DivAsked.divisor = 0
    BY <1>1, DivAnswer
  <2> QED BY <1>2, <1>5, <2>1, Facts, DivisorZero
<1>7. ~StoreStart(in)
  BY <1>1 DEF StoreStart, Decode, InState
<1> QED BY <1>1, <1>5, <1>6, <1>7, FailsTogether

\* The call handler does so for an unknown function only.
LEMMA CallErrorFails ==
  ASSUME RunInv, NEW in \in Inputs, Execute(in), CallError(in)
  PROVE  Ref!Fail
<1>1. state_next = "CALL_PENDING" /\ ~halt /\ ~BadFields /\ ch.err /\ halt' /\ error'
  BY DEF CallError, InState, Raise
<1>2. opcode = EBPF_OP_CALL /\ call_handler.stb /\ call_handler.func = immediate
  BY <1>1, Facts DEF CallRequested
<1>3. keep_op = 0
  BY <1>2, Facts, NotKept DEF opclass, EBPF_OP_CALL, OPC_LD
<1>4. ~Storing
  BY <1>1 DEF Storing
<1>5. Current
  BY <1>1, <1>3, <1>4, ExecutesCurrent DEF Executing
<1>6. immediate \notin KnownFuncs
  BY <1>1, <1>2, Facts DEF RequestInv, CallAsked
<1>7. ~Ref!Valid(insn, pgm_dat_r)
  BY <1>2, <1>6, Facts, Fields, EbpfSame DEF Ref!Valid, KnownFuncs
<1>8. ~StoreStart(in)
  BY <1>1 DEF StoreStart, Decode, InState
<1> QED BY <1>1, <1>5, <1>7, <1>8, FailsTogether

-----------------------------------------------------------------------------
(* The instructions that are executed.                                     *)

\* What validate asks of a word that the processor has executed without a fault.
LEMMA Validated ==
  ASSUME Current, TypeOK, Ref!KnownOpcode(opcode),
         IsEndian(opcode) => immediate \in EndianWidths,
         opcode = EBPF_OP_LDDW => pgm_dat_r.op = 0,
         opcode = EBPF_OP_CALL => immediate \in KnownFuncs,
         ~Ref!ZeroDivisor
  PROVE  Ref!Runs
<1>1. /\ insn.op = opcode /\ insn.src = src /\ insn.dst = dst /\ insn.imm = immediate
      /\ src \in 0 .. 10 /\ dst \in 0 .. 10 /\ immediate \in Word(W32) /\ Ref!inst = insn
  BY Fields DEF Current
<1>2. Ref!RegistersOK(insn)
  <2>1. dst = 10 => opclass(opcode) \in {OPC_ST, OPC_STX}
    BY <1>1 DEF Current, Portable
  <2> QED BY <1>1, <2>1, EbpfSame DEF Ref!RegistersOK
<1>3. Ref!IsDiv(insn.op) /\ ~Ref!UsesReg(insn.op) => insn.imm # 0
  <2> SUFFICES ASSUME Ref!IsDiv(insn.op), ~Ref!UsesReg(insn.op), immediate = 0 PROVE Ref!ZeroDivisor
    BY <1>1
  <2>1. W32 \in 1 .. W64 /\ W64 \in W32 .. W64
    BY Widths
  <2>2. SignExtend(0, W32, W64) = 0
    BY <1>1, <2>1, SignExtended
  <2>3. Ref!operand = 0
    BY <1>1, <2>2, RefWords DEF Ref!operand, Ref!imm64
  <2>4. Low(0, W32) = 0
    <3>1. 2^W32 \in Nat /\ 2^W32 > 0
      BY <2>1, Power
    <3> DEFINE m == 2^W32
    <3> HIDE DEF m
    <3>2. 0 % m = 0
      BY <3>1 DEF m
    <3> QED BY <3>2 DEF Low, m
  <2> QED BY <1>1, <2>3, <2>4, RefWords DEF Ref!ZeroDivisor, Ref!u32
<1>4. Ref!Valid(insn, pgm_dat_r)
  BY <1>1, <1>2, <1>3, EbpfSame, RefWords DEF Ref!Valid, EndianWidths, KnownFuncs
<1> QED BY <1>4 DEF Ref!Runs, Current

\* A step that ends with a fetch of the next word.
LEMMA Fetched ==
  ASSUME RunInv, NEW in \in Inputs, Execute(in), Current, Advance, ~halt', keep_op' = 0, ~StoreStart(in)
  PROVE  /\ absStatus' = absStatus /\ Ref!Skip(1) /\ absReg' = regs' /\ absMem' = absMem /\ pgm' = pgm
<1>1. ip' = ip_next /\ state_next' = "OP_FETCH_DELAY"
  BY DEF Advance
<1>2. absStatus' = "run" /\ absReg' = regs'
  BY DEF absStatus, absReg, LddwFails
<1>3. absPc' = ip_next
  BY <1>1, <1>2 DEF absPc, Storing
<1>4. absMem' = absMem
  BY Facts, AbsMemStep
<1>5. pgm' = pgm
  BY ExecuteShape, ProgramRead
<1> QED BY <1>2, <1>3, <1>4, <1>5 DEF Current, Ref!Skip

\* An ALU instruction, given what it puts in its register.
LEMMA AluStep ==
  ASSUME RunInv, NEW in \in Inputs, Execute(in), DecodeAlu(in), Advance, UNCHANGED faults, Current, Ref!Runs,
         NEW v, Put(dst, v), v \in Ref!Results
  PROVE  Ref!StepAlu
<1>1. /\ opclass(opcode) \in {OPC_ALU, OPC_ALU64} /\ ~halt /\ keep_op' = 0 /\ ~StoreStart(in)
  BY DEF DecodeAlu, Decode, InState, StoreStart, OPC_ALU, OPC_ALU64, OPC_ST, OPC_STX
<1>2. /\ absStatus' = absStatus /\ Ref!Skip(1) /\ absReg' = regs' /\ absMem' = absMem /\ pgm' = pgm
  BY <1>1, Fetched DEF faults
<1>3. absReg' = [absReg EXCEPT ![insn.dst] = v] /\ insn.op = opcode
  BY <1>2, Facts, Fields DEF Put, Current
<1> QED BY <1>1, <1>2, <1>3, EbpfSame DEF Ref!StepAlu, Current

\* They are all known to validate.
LEMMA KnownArith == \A op : IsArith(op) => Ref!KnownOpcode(op)
BY KnownSame DEF IsArith

\* What Datapath says of an ALU instruction of a portable program.
LEMMA AluAgrees ==
  ASSUME TypeOK, Current, IsArith(opcode), opclass(opcode) \in {OPC_ALU, OPC_ALU64},
         IsEndian(opcode) => immediate \in EndianWidths, ~Ref!ZeroDivisor
  PROVE  Arith!CpuResult \in Ref!Results
<1>1. Arith!Operands /\ Arith!Decoded
  BY ArithOperands
<1>2. Arith!ResultAgrees
  BY <1>1, DividerWidth, Widthwise, ArithWords, Arith!ResultAgreesTyped DEF Arith!ResultAgreesTyped
<1>3. insn.op = opcode /\ insn.src = src /\ insn.dst = dst /\ insn.imm = immediate /\ Portable(insn, pgm_dat_r)
      /\ immediate \in Int
  BY Fields DEF Current
<1>4. Arith!Computes
  <2>1. Arith!DivRequest = DivAsked
    BY Fields DEF Arith!DivRequest, DivAsked, Arith!Is32, Is32, Arith!DivRequest32, DivRequest32,
       Arith!DivRequest64, DivRequest64,
       Arith!opclass, opclass, Arith!OPC_ALU, OPC_ALU, Arith!Low, Low, Arith!W32, W32,
       Arith!Operand, Operand, Arith!UsesReg, UsesReg
  <2>2. IsDiv(opcode) => Arith!DivRequest.divisor # 0
    BY <2>1, DivisorZero
  <2>3. Arith!EndianWidths = EndianWidths
    BY DEF Arith!EndianWidths, EndianWidths, Arith!W16, Arith!W32, Arith!W64, W16, W32, W64
  <2> QED BY <1>1, <1>3, <2>2, <2>3, ArithEbpf DEF Arith!Computes
<1>5. Arith!IsNeg64 => insn.src = insn.dst
  BY <1>3, ArithEbpf, Classes DEF Arith!IsNeg64, Arith!Is32, Portable
<1>6. ~Arith!IsMov32
  BY <1>3 DEF Arith!IsMov32, Portable, Arith!Opcode, Opcode, Arith!OPC_ALU, OPC_ALU, Arith!ALU_MOV,
     ALU_MOV
<1>7. Arith!TakesSignedImm => ~Arith!Negative32(insn.imm)
  <2>1. Arith!TakesSignedImm => WidensImm(opcode)
    BY <1>3, ArithEbpf DEF Arith!TakesSignedImm, WidensImm, Arith!JMP_JEQ, JMP_JEQ, Arith!JMP_JNE,
       JMP_JNE, Arith!JMP_JSET, JMP_JSET
  <2>2. WidensImm(opcode) => immediate < 2^(W32 - 1)
    BY <1>3 DEF Portable
  <2>3. 2^(W32 - 1) \in Int
    <3>1. W32 - 1 \in 0 .. W64
      BY Widths
    <3> QED BY <3>1, Power
  <2>4. Arith!W32 = W32
    BY SameWidths
  <2> QED BY <1>3, <2>1, <2>2, <2>3, <2>4 DEF Arith!Negative32
<1>8. Arith!Agrees
  BY <1>2, <1>4, <1>5, <1>6, <1>7 DEF Arith!ResultAgrees
<1> QED BY <1>8, ResultsSame DEF Arith!Agrees, Current

\* The operators of the datapath are those of cpu.v.
LEMMA ArithAlu ==
  /\ Arith!Is32 <=> Is32
  /\ Arith!Alu32(insn, regs) = Alu32(insn, regs) /\ Arith!Alu64(insn, regs) = Alu64(insn, regs)
  /\ \A d, n : Arith!BE(d, n) = BE(d, n) /\ Arith!LE(d, n) = LE(d, n)
  /\ Arith!ShiftRequest32(insn, regs) = ShiftRequest32(insn, regs)
  /\ Arith!ShiftRequest64(insn, regs) = ShiftRequest64(insn, regs)
  /\ Arith!DivRequest = DivAsked
<1>0. insn.op = opcode
  BY DEF insn
<1>1. Arith!Is32 <=> Is32
  BY <1>0 DEF Arith!Is32, Is32, Arith!opclass, opclass, Arith!OPC_ALU, OPC_ALU
<1>2. /\ Arith!ShiftRequest32(insn, regs) = ShiftRequest32(insn, regs)
      /\ Arith!ShiftRequest64(insn, regs) = ShiftRequest64(insn, regs)
  BY DEF Arith!ShiftRequest32, ShiftRequest32, Arith!ShiftRequest64, ShiftRequest64, Arith!code,
     code, Arith!Low, Low, Arith!W32, W32,
     Arith!W64, W64, Arith!SignExtend, SignExtend, Arith!Signed, Signed, Arith!Operand, Operand,
     Arith!UsesReg, UsesReg,
     Arith!ALU_ARSH, ALU_ARSH, Arith!ALU_LSH, ALU_LSH
<1>3. Arith!DivRequest = DivAsked
  BY <1>0 DEF Arith!DivRequest, DivAsked, Arith!Is32, Is32, Arith!DivRequest32, DivRequest32,
     Arith!DivRequest64, DivRequest64,
     Arith!opclass, opclass, Arith!OPC_ALU, OPC_ALU, Arith!Low, Low, Arith!W32, W32, Arith!Operand,
     Operand, Arith!UsesReg, UsesReg
<1>4. \A d, n : Arith!LE(d, n) = LE(d, n)
  BY DEF Arith!LE, LE, Arith!Low, Low
<1>5. \A d, n : Arith!BE(d, n) = BE(d, n)
  BY Zenon DEF Arith!BE, BE, Arith!Byte, Byte
<1>6. \A x, y : Arith!Or(x, y) = Or(x, y) /\ Arith!And(x, y) = And(x, y) /\ Arith!Xor(x, y) = Xor(x, y)
  BY Zenon DEF Arith!Or, Or, Arith!And, And, Arith!Xor, Xor, Arith!BitByBit, BitByBit, Arith!W64,
     W64
<1>7. \A c, d, s, w : Arith!Compute(c, d, s, w) = Compute(c, d, s, w)
  BY <1>6 DEF Arith!Compute, Compute, Arith!Low, Low, Arith!ALU_ADD, ALU_ADD, Arith!ALU_SUB,
     ALU_SUB, Arith!ALU_MUL, ALU_MUL,
     Arith!ALU_OR, ALU_OR, Arith!ALU_AND, ALU_AND, Arith!ALU_XOR, ALU_XOR
<1>8. Arith!Alu32(insn, regs) = Alu32(insn, regs) /\ Arith!Alu64(insn, regs) = Alu64(insn, regs)
  BY <1>7 DEF Arith!Alu32, Alu32, Arith!Alu64, Alu64, Arith!code, code, Arith!Operand, Operand,
     Arith!UsesReg, UsesReg, Arith!Low, Low,
     Arith!W32, W32, Arith!W64, W64, Arith!ALU_MOV, ALU_MOV, Arith!ALU_NEG, ALU_NEG
<1> QED BY <1>1, <1>2, <1>3, <1>4, <1>5, <1>8

\* The shifter computes what Datapath says it does.
LEMMA ShiftOfSame ==
  ASSUME arsh64 = ShiftAsked
  PROVE  /\ Is32 => ShiftQ!ShiftOf(ShiftQ!PortInputs) = Arith!Shift!ShiftOf(ShiftRequest32(insn, regs))
         /\ ~Is32 => ShiftQ!ShiftOf(ShiftQ!PortInputs) = Arith!Shift!ShiftOf(ShiftRequest64(insn, regs))
<1>1. \A p, q : p.left = q.left /\ p.arith = q.arith /\ p.value = q.value /\ p.shift = q.shift =>
        ShiftQ!ShiftOf(p) = Arith!Shift!ShiftOf(q)
  BY DEF ShiftQ!ShiftOf, Arith!Shift!ShiftOf, ShiftQ!ShiftLeft, Arith!Shift!ShiftLeft,
     ShiftQ!ShiftRight, Arith!Shift!ShiftRight,
     ShiftQ!Negative, Arith!Shift!Negative, ShiftQ!Low, Arith!Shift!Low, ShiftQ!Signed,
     Arith!Shift!Signed, ShiftQ!W64, Arith!Shift!W64
<1>2. /\ ShiftQ!PortInputs.left = arsh64.left /\ ShiftQ!PortInputs.arith = arsh64.arith
      /\ ShiftQ!PortInputs.value = arsh64.value /\ ShiftQ!PortInputs.shift = arsh64.shift
  BY DEF ShiftQ!PortInputs
<1> QED BY <1>1, <1>2 DEF ShiftAsked

\* Arithmetic, in one edge or by a component, writes what the interpreter would.
LEMMA AluSteps ==
  ASSUME RunInv, RunInv', NEW in \in Inputs, Execute(in), DivDone(in) \/ ShiftDone(in) \/ Plain(in) \/ Endian(in)
  PROVE  Ref!StepAlu
<1>1. /\ DecodeAlu(in) /\ Advance /\ UNCHANGED faults /\ opclass(opcode) \in {OPC_ALU, OPC_ALU64}
      /\ Decode({OPC_ALU, OPC_ALU64}, in) /\ IsArith(opcode) /\ ~halt /\ ~BadFields
      /\ IsEndian(opcode) => immediate \in EndianWidths
  BY Classes DEF DivDone, ShiftDone, Plain, Endian, DecodeAlu, Decode, InState, IsArith, IsEndian,
     IsPlain, IsNeg, PlainOps, ALU_ENDC,
     ALU_NEG, ALU_ADD, ALU_SUB, ALU_MUL, ALU_OR, ALU_AND, ALU_XOR, ALU_MOV
<1>2. Current /\ TypeOK
  BY <1>1, Facts, DecodesCurrent DEF OPC_LD, OPC_ALU, OPC_ALU64, OPC_ST, OPC_STX
<1>f. insn.op = opcode /\ insn.src = src /\ insn.dst = dst /\ insn.imm = immediate
  BY <1>2, Fields
<1>3. ~Ref!ZeroDivisor
  <2>1. CASE DivDone(in)
    <3>1. cpu_div64_ack /\ IsDiv(opcode)
      BY <2>1 DEF DivDone
    <3>2. Div!ack /\ ~div.err /\ ~div64.stb
      BY <1>1, <3>1, Facts DEF DivRequested, DecodeAlu, Decode, InState
    <3> QED BY <1>2, <3>1, <3>2, DivAnswer, DivisorZero
  <2>2. CASE ~DivDone(in)
    <3>1. ~IsDiv(opcode)
      BY <2>2, Classes DEF ShiftDone, Plain, Endian
    <3> QED BY <1>2, <1>f, <3>1, EbpfSame DEF Ref!ZeroDivisor, Current
  <2> QED BY <2>1, <2>2
<1>4. opcode # EBPF_OP_LDDW /\ opcode # EBPF_OP_CALL
  BY <1>1 DEF EBPF_OP_LDDW, EBPF_OP_CALL, opclass, OPC_ALU, OPC_ALU64
<1>5. Ref!Runs
  BY <1>1, <1>2, <1>3, <1>4, Validated, KnownArith
<1>6. Arith!CpuResult \in Ref!Results
  BY <1>1, <1>2, <1>3, AluAgrees
<1>7. Put(dst, Arith!CpuResult)
  <2> USE <1>f, ArithEbpf, ArithAlu DEF Arith!CpuResult
  <2>1. CASE DivDone(in)
    <3>1. cpu_div64_ack /\ IsDiv(opcode) /\ Put(dst, IF code(opcode) = ALU_DIV THEN div.quo ELSE div.rem)
      BY <2>1 DEF DivDone
    <3>2. Div!ack /\ ~div.err /\ ~div64.stb
      BY <1>1, <3>1, Facts DEF DivRequested, DecodeAlu, Decode, InState
    <3>3. div.quo = DivAsked.dividend \div DivAsked.divisor /\ div.rem = DivAsked.dividend % DivAsked.divisor
      BY <3>1, <3>2, DivAnswer
    <3>4. Arith!ALU_DIV = ALU_DIV
      BY DEF Arith!ALU_DIV, ALU_DIV
    <3>5. Arith!CpuResult = IF code(opcode) = ALU_DIV THEN DivAsked.dividend \div DivAsked.divisor
                            ELSE DivAsked.dividend % DivAsked.divisor
      BY <3>1, <3>4, Classes
    <3> QED BY <3>1, <3>3, <3>5
  <2>2. CASE ShiftDone(in)
    <3>1. sh.ack /\ IsShift(opcode) /\ ~IsDiv(opcode) /\ Put(dst, IF Is32 THEN Low(sh.out, W32) ELSE sh.out)
      BY <2>2, Classes DEF ShiftDone
    <3>2. arsh64.stb /\ arsh64 = ShiftAsked
      BY <3>1, Facts DEF ShiftRequested, AckInv, ShiftOK
    <3>3. sh.out = ShiftQ!ShiftOf(ShiftQ!PortInputs)
      BY <3>1, <3>2, Facts DEF ShiftQ!ShiftInv, ShiftQ!ResultCorrect
    <3>4. \A x : Arith!Low(x, Arith!W32) = Low(x, W32)
      BY DEF Arith!Low, Low, Arith!W32, W32
    <3>5. Arith!CpuResult = IF Is32 THEN Low(Arith!Shift!ShiftOf(ShiftRequest32(insn, regs)), W32)
                            ELSE Arith!Shift!ShiftOf(ShiftRequest64(insn, regs))
      BY <3>1, <3>4, Classes
    <3>6. Arith!CpuResult = IF Is32 THEN Low(sh.out, W32) ELSE sh.out
      BY <3>2, <3>3, <3>5, ShiftOfSame
    <3> QED BY <3>1, <3>6
  <2>3. CASE Plain(in)
    BY <2>3, Classes, <1>f DEF Plain, IsPlain, IsNeg, IsEndian, PlainOps, ALU_ENDC,
     ALU_NEG, ALU_ADD, ALU_SUB, ALU_MUL, ALU_OR, ALU_AND, ALU_XOR, ALU_MOV
  <2>4. CASE Endian(in)
    BY <2>4, Classes DEF Endian
  <2> QED BY <2>1, <2>2, <2>3, <2>4
<1> QED BY <1>1, <1>2, <1>5, <1>6, <1>7, AluStep

\* Addresses of the program count modulo 2^IpBits, however many steps are made at once.
LEMMA Onwards ==
  ASSUME TypeOK, Current, NEW n \in Int
  PROVE  (ip_next + n) % 2^IpBits = (ip + (1 + n)) % 2^IpBits
<1>1. ip \in Int /\ ip_next \in Int
  BY AnyWidths, WordInt DEF TypeOK
<1> DEFINE M == 2^IpBits
           t == ip_next
           a == ip + 1
<1>2. M \in Nat /\ M > 0 /\ a \in Int /\ t \in Int
  BY <1>1, AnyWidths, Power
<1>3. (a % M) % M = a % M
  <2>1. a \in Int
    BY <1>2
  <2> HIDE DEF a
  <2>2. IpBits \in 0 .. W64 /\ IpBits <= IpBits
    BY AnyWidths
  <2> QED BY <2>1, <2>2, LowLow DEF Low
<1>4. t % M = a % M
  BY <1>3 DEF Current
<1> HIDE DEF M, t, a
<1>5. (n + t) % M = (n + a) % M
  BY <1>2, <1>4, ModArithmetic
<1>6. n + ip_next = ip_next + n /\ n + (ip + 1) = ip + (1 + n)
  BY <1>1
<1> QED BY <1>5, <1>6 DEF M, t, a

\* A jump is taken when the interpreter takes it.
LEMMA JumpAgrees ==
  ASSUME TypeOK, Current, IsJump(opcode)
  PROVE  Taken(insn, regs) <=> Ref!Holds
<1>0. Arith!Operands /\ Arith!Decoded
  BY ArithOperands DEF IsArith
<1>1. Arith!TakenAgrees
  BY <1>0, DividerWidth, Widthwise, ArithWords, Arith!TakenAgreesTyped DEF Arith!TakenAgreesTyped
<1>2. insn.op = opcode /\ insn.src = src /\ insn.dst = dst /\ insn.imm = immediate /\ Portable(insn, pgm_dat_r)
      /\ immediate \in Int
  BY Fields DEF Current
<1>3. Arith!Jumps
  BY <1>0, <1>2, ArithEbpf DEF Arith!Jumps
<1>4. ~Arith!IsSignedJump
  BY <1>2, ArithEbpf DEF Arith!IsSignedJump, Portable, Arith!JMP_JSGT, JMP_JSGT, Arith!JMP_JSGE,
     JMP_JSGE, Arith!JMP_JSLT, JMP_JSLT,
     Arith!JMP_JSLE, JMP_JSLE
<1>5. Arith!TakesSignedImm => ~Arith!Negative32(insn.imm)
  <2>1. Arith!TakesSignedImm => WidensImm(opcode)
    BY <1>2, ArithEbpf DEF Arith!TakesSignedImm, WidensImm, Arith!JMP_JEQ, JMP_JEQ, Arith!JMP_JNE,
       JMP_JNE, Arith!JMP_JSET, JMP_JSET
  <2>2. WidensImm(opcode) => immediate < 2^(W32 - 1)
    BY <1>2 DEF Portable
  <2>3. 2^(W32 - 1) \in Int
    <3>1. W32 - 1 \in 0 .. W64
      BY Widths
    <3> QED BY <3>1, Power
  <2>4. Arith!W32 = W32
    BY SameWidths
  <2> QED BY <1>2, <2>1, <2>2, <2>3, <2>4 DEF Arith!Negative32
<1>6. Arith!Taken(insn, regs) = Arith!Ref!Holds
  BY <1>1, <1>3, <1>4, <1>5 DEF Arith!TakenAgrees, Arith!JumpAgrees
<1>7. \A x, y : Arith!And(x, y) = And(x, y)
  BY Zenon DEF Arith!And, And, Arith!BitByBit, BitByBit, Arith!W64, W64
<1>8. Arith!Taken(insn, regs) = Taken(insn, regs)
  BY <1>7 DEF Arith!Taken, Taken, Arith!Operand, Operand, Arith!UsesReg, UsesReg, Arith!Half_s,
     Half_s, Arith!Signed, Signed,
     Arith!Low, Low, Arith!W32, W32, Arith!code, code,
     Arith!JMP_JA, JMP_JA, Arith!JMP_JEQ, JMP_JEQ, Arith!JMP_JGT, JMP_JGT, Arith!JMP_JGE,
     JMP_JGE, Arith!JMP_JSET, JMP_JSET, Arith!JMP_JNE, JMP_JNE, Arith!JMP_JSGT, JMP_JSGT,
     Arith!JMP_JSGE, JMP_JSGE,
     Arith!JMP_JLT, JMP_JLT, Arith!JMP_JLE, JMP_JLE, Arith!JMP_JSLT, JMP_JSLT, Arith!JMP_JSLE,
     JMP_JSLE
<1> QED BY <1>6, <1>8, HoldsSame DEF Current

\* Jumps and EXIT.
LEMMA JumpSteps ==
  ASSUME RunInv, NEW in \in Inputs, Execute(in), Jump(in)
  PROVE  Ref!StepJump \/ Ref!StepExit \/ Ref!Fail
<1>1. /\ Decode({OPC_JMP}, in) /\ opclass(opcode) = OPC_JMP /\ ~halt /\ ~BadFields /\ opcode # EBPF_OP_CALL
      /\ state_next' = "OP_FETCH" /\ keep_op' = 0 /\ regs' = regs
      /\ ip_next' = IF IsJump(opcode) /\ Taken(insn, regs) THEN Target ELSE ip_next
      /\ (halt' <=> ~IsJump(opcode)) /\ error' = (error \/ ~(IsJump(opcode) \/ opcode = EBPF_OP_EXIT))
  BY DEF Jump, Decode, InState, Goto
<1>2. Current /\ TypeOK
  BY <1>1, Facts, DecodesCurrent DEF OPC_LD, OPC_JMP, OPC_ST, OPC_STX
<1>3. absMem' = absMem /\ pgm' = pgm /\ absReg' = absReg
  <2>1. ~StoreStart(in)
    BY <1>1 DEF StoreStart, Decode, OPC_JMP, OPC_ST, OPC_STX
  <2>2. absReg' = regs'
    BY <1>1 DEF absReg
  <2> QED BY <1>1, <1>2, <2>1, <2>2, Facts, AbsMemStep, ExecuteShape, ProgramRead DEF Current
<1>4. insn.op = opcode /\ insn.off = instruction.off
  BY DEF insn
<1>5. ~Ref!ZeroDivisor
  BY <1>1, <1>2, <1>4, EbpfSame, Classes DEF Ref!ZeroDivisor, Current
<1>6. CASE IsJump(opcode) \/ opcode = EBPF_OP_EXIT
  <2>1. Ref!Runs
    <3>1. opcode # EBPF_OP_LDDW /\ ~IsEndian(opcode) /\ Ref!KnownOpcode(opcode)
      BY <1>1, <1>6, KnownSame DEF EBPF_OP_LDDW, opclass, OPC_JMP, IsEndian, OPC_ALU
    <3> QED BY <1>1, <1>2, <1>5, <3>1, Validated
  <2>2. CASE IsJump(opcode)
    <3>1. ~halt' /\ absStatus' = "run" /\ absPc' = ip_next'
      BY <1>1, <2>2 DEF absStatus, absPc, LddwFails
    <3>2. Signed(instruction.off, OffsetBits) \in Int
      <4>1. instruction.off \in Int /\ 2^OffsetBits \in Nat /\ OffsetBits - 1 \in 0 .. W64
        BY <1>2, Fields, AnyWidths, Power, Widths
      <4> QED BY <4>1, Power DEF Signed
    <3>3. Ref!Skip(IF Ref!Holds THEN 1 + Ref!Signed(Ref!inst.off, OffsetBits) ELSE 1)
      <4>1. CASE Ref!Holds
        <5>1. ip_next' = (ip_next + Signed(instruction.off, OffsetBits)) % 2^IpBits
          BY <1>1, <1>2, <2>2, <4>1, JumpAgrees DEF Target
        <5>2. absPc' = (ip + (1 + Signed(instruction.off, OffsetBits))) % 2^IpBits
          BY <1>2, <3>1, <3>2, <5>1, Onwards
        <5> QED BY <1>2, <1>4, <4>1, <5>2, RefWords DEF Ref!Skip, Current
      <4>2. CASE ~Ref!Holds
        <5>1. ip_next' = ip_next
          BY <1>1, <1>2, <2>2, <4>2, JumpAgrees
        <5> QED BY <1>2, <3>1, <4>2, <5>1 DEF Ref!Skip, Current
      <4> QED BY <4>1, <4>2
    <3> QED BY <1>2, <1>3, <1>4, <2>1, <2>2, <3>1, <3>3, EbpfSame DEF Ref!StepJump, Current
  <2>3. CASE opcode = EBPF_OP_EXIT
    <3>1. ~IsJump(opcode) /\ ~error
      BY <1>1, <2>3, Facts DEF IsJump, code, EBPF_OP_EXIT, CondOps, Stopped, JMP_JA, JMP_JEQ,
         JMP_JGT, JMP_JGE, JMP_JSET, JMP_JNE,
         JMP_JSGT, JMP_JSGE, JMP_JLT, JMP_JLE, JMP_JSLT, JMP_JSLE
    <3>2. absStatus' = "exit" /\ absPc' = 0
      BY <1>1, <2>3, <3>1 DEF absStatus, absPc
    <3> QED BY <1>2, <1>3, <1>4, <2>1, <2>3, <3>2, EbpfSame DEF Ref!StepExit, Current
  <2> QED BY <1>6, <2>2, <2>3
<1>7. CASE ~(IsJump(opcode) \/ opcode = EBPF_OP_EXIT)
  BY <1>7, UnknownFails
<1> QED BY <1>6, <1>7

\* A call writes r0 and nothing else.
LEMMA CallSteps ==
  ASSUME RunInv, NEW in \in Inputs, Execute(in), CallReturn(in)
  PROVE  Ref!StepCall
<1>1. /\ state_next = "CALL_PENDING" /\ ~halt /\ ~BadFields /\ ch.ack /\ ~ch.err /\ Put(0, ch.ret) /\ Advance
      /\ ~halt' /\ keep_op' = keep_op
  BY DEF CallReturn, InState, faults, keeps
<1>2. opcode = EBPF_OP_CALL /\ immediate \in KnownFuncs
  BY <1>1, Facts DEF CallRequested
<1>3. keep_op = 0
  BY <1>2, Facts, NotKept DEF opclass, EBPF_OP_CALL, OPC_LD
<1>4. ~Storing /\ ~StoreStart(in)
  BY <1>1 DEF Storing, StoreStart, Decode, InState
<1>5. Current /\ TypeOK
  BY <1>1, <1>3, <1>4, Facts, ExecutesCurrent DEF Executing
<1>6. insn.op = opcode
  BY DEF insn
<1>7. opclass(opcode) = OPC_JMP /\ ~IsDiv(opcode) /\ ~IsEndian(opcode) /\ opcode # EBPF_OP_LDDW
  BY <1>2 DEF opclass, EBPF_OP_CALL, EBPF_OP_LDDW, OPC_JMP, IsDiv, IsEndian, OPC_ALU, OPC_ALU64
<1>8. ~Ref!ZeroDivisor
  BY <1>5, <1>6, <1>7, EbpfSame DEF Ref!ZeroDivisor, Current
<1>9. Ref!Runs
  BY <1>2, <1>5, <1>7, <1>8, Validated, KnownSame
<1>10. /\ absStatus' = absStatus /\ Ref!Skip(1) /\ absReg' = regs' /\ absMem' = absMem /\ pgm' = pgm
  BY <1>1, <1>3, <1>4, <1>5, Fetched
<1>11. ch.ret \in Word(W64)
  <2>1. ch \in [ret : Helper!Data, ack : BOOLEAN, err : BOOLEAN, leds : [1 .. 3 -> 0 .. 1],
                write_enable : BOOLEAN, pause : BOOLEAN]
    BY <1>5 DEF TypeOK, Helper!Registers
  <2> QED BY <2>1, SameWidths, SameWords DEF Helper!Data
<1>12. regs \in [0 .. 10 -> Word(W64)]
  BY <1>5 DEF TypeOK, Registers, MAX_REGS
<1>13. absReg' \in [DOMAIN absReg -> Ref!Any] /\ \A r \in DOMAIN absReg \ ({0} \cup {}) : absReg'[r] = absReg[r]
  <2>1. absReg' = [regs EXCEPT ![0] = ch.ret] /\ absReg = regs
    BY <1>1, <1>5, <1>10 DEF Put, Current
  <2> QED BY <1>11, <1>12, <2>1, RefWords DEF Ref!Any
<1> QED BY <1>2, <1>5, <1>6, <1>9, <1>10, <1>13, EbpfSame DEF Ref!StepCall, Current

\* A LDDW takes effect with its first word, or fails with it.
LEMMA LddwSteps ==
  ASSUME RunInv, NEW in \in Inputs, Execute(in), LddwLow(in)
  PROVE  Ref!StepLddw \/ Ref!Fail
<1>1. /\ state_next = "DECODE" /\ ~halt /\ ~BadFields /\ opcode = EBPF_OP_LDDW /\ keep_op = 0 /\ opclass(opcode) = OPC_LD
      /\ Put(dst, immediate) /\ keep_op' = opcode /\ keep_dst' = dst /\ Advance /\ ~halt'
  BY DEF LddwLow, Decode, InState, faults
<1>2. ~Storing /\ ~StoreStart(in)
  BY <1>1 DEF Storing, StoreStart, Decode, OPC_LD, OPC_ST, OPC_STX
<1>3. Current /\ TypeOK
  BY <1>1, <1>2, Facts, ExecutesCurrent DEF Executing
<1>4. insn.op = opcode /\ insn.imm = immediate /\ insn.dst = dst /\ insn.src = src
  BY DEF insn
<1>5. absMem' = absMem /\ pgm' = pgm
  BY <1>2, Facts, AbsMemStep, ExecuteShape, ProgramRead
<1>6. second' = pgm_dat_r /\ keep_op' = EBPF_OP_LDDW /\ keep_op' # 0
  BY <1>1, <1>5, Facts DEF second, Prog!PgmIndex, Advance, FetchInv, PrefetchCoherent, Executing,
     EBPF_OP_LDDW
<1>7. LddwFails' <=> pgm_dat_r.src >= 11 \/ And(EBPF_OP_LDDW, pgm_dat_r.op) # 0
  BY <1>6 DEF LddwFails, MAX_REGS
<1>8. pgm_dat_r \in Instructions
  BY <1>3 DEF TypeOK
<1>9. pgm_dat_r.op \in 0 .. 255 /\ pgm_dat_r.src \in 0 .. 15 /\ pgm_dat_r.imm \in Word(W32)
  BY <1>8 DEF Instructions
<1>10. And(EBPF_OP_LDDW, 0) = 0
  BY AndZero DEF EBPF_OP_LDDW
<1>11. CASE LddwFails'
  <2>1. absStatus' = "fail" /\ absPc' = 0
    BY <1>1, <1>11 DEF absStatus, absPc
  <2>2. CASE pgm_dat_r.src >= 11
    <3>1. DOMAIN pgm = Word(PgmBits) /\ Prog!PgmIndex(ip_next) \in Word(PgmBits)
      BY <1>3, IndexTyped DEF TypeOK
    <3>2. pgm[Prog!PgmIndex(ip_next)] = pgm_dat_r
      BY <1>1, Facts DEF FetchInv, PrefetchCoherent, Executing
    <3>3. \E a \in DOMAIN pgm : pgm[a].src > 10 \/ pgm[a].dst > 10
      BY <1>9, <2>2, <3>1, <3>2
    <3> QED BY <1>3, <1>5, <2>1, <3>3 DEF Ref!Fail, Current
  <2>3. CASE And(EBPF_OP_LDDW, pgm_dat_r.op) # 0
    <3>1. ~Ref!Valid(insn, pgm_dat_r)
      BY <1>1, <1>4, <1>10, <2>3, EbpfSame DEF Ref!Valid
    <3> QED BY <1>3, <1>5, <2>1, <3>1 DEF Ref!Fail, Current
  <2> QED BY <1>7, <1>11, <2>2, <2>3
<1>12. CASE ~LddwFails'
  <2>1. pgm_dat_r.op = 0
    BY <1>1, <1>3, <1>4, <1>7, <1>12 DEF Portable, Current
  <2>2. absStatus' = "run" /\ absPc' = ip_next'
    BY <1>1, <1>6, <1>12 DEF absStatus, absPc
  <2>3. Ref!Skip(2)
    <3>1. ip_next' = (ip_next + 1) % 2^IpBits
      BY <1>1 DEF Advance, NextIp
    <3>2. (ip_next + 1) % 2^IpBits = (ip + (1 + 1)) % 2^IpBits
      BY <1>3, Onwards
    <3> QED BY <1>3, <2>2, <3>1, <3>2 DEF Ref!Skip, Current
  <2>4. ~IsDiv(opcode) /\ ~IsEndian(opcode) /\ opcode # EBPF_OP_CALL
    BY <1>1 DEF EBPF_OP_CALL, EBPF_OP_LDDW, OPC_LD, IsDiv, IsEndian, OPC_ALU, OPC_ALU64
  <2>5. ~Ref!ZeroDivisor
    BY <1>3, <1>4, <2>4, EbpfSame DEF Ref!ZeroDivisor, Current
  <2>6. Ref!Runs
    BY <1>1, <1>3, <2>1, <2>4, <2>5, Validated, KnownSame
  <2>7. absReg' = [regs EXCEPT ![dst] = immediate + pgm_dat_r.imm * 2^W32]
    <3>1. absReg' = [regs' EXCEPT ![dst] = Low(regs'[dst], W32) + pgm_dat_r.imm * 2^W32]
      BY <1>1, <1>6, <1>12 DEF absReg
    <3>2. regs' = [regs EXCEPT ![dst] = immediate]
      BY <1>1 DEF Put
    <3>3. regs \in [0 .. 10 -> Word(W64)] /\ dst \in 0 .. 10
      BY <1>3 DEF TypeOK, Registers, MAX_REGS, Current
    <3>4. Low(immediate, W32) = immediate
      <4>1. immediate \in Word(W32) /\ immediate \in Int /\ W32 \in 0 .. W64 /\ W32 <= W32
        BY <1>3, Fields, AnyWidths, Widths
      <4> QED BY <4>1, LowLow
    <3> HIDE DEF Low
    <3> QED BY <3>1, <3>2, <3>3, <3>4
  <2> QED BY <1>1, <1>3, <1>4, <1>5, <2>2, <2>3, <2>6, <2>7, EbpfSame, RefWords DEF Ref!StepLddw,
             Current
<1> QED BY <1>11, <1>12

\* Reset starts the program again.
LEMMA ResetStarts ==
  ASSUME RunInv, NEW in \in Resets, Reset(in), host = "reset"
  PROVE  \E s \in {[pc |-> StartIp(i), reg |-> StartRegs(i)] : i \in Resets} : Ref!Start(s)
<1>1. in \in Inputs /\ ~in.reset_n_int /\ Parts(in)
  BY DEF Resets, Reset
<1>2. pgm' = pgm /\ mem' = mem
  BY <1>1, Facts, ResetParts
<1>3. halt \/ state_next = "OP_FETCH"
  BY Facts DEF Stopped
<1>4. absMem = mem /\ absMem' = mem'
  BY <1>3 DEF absMem, Reset
<1>5. absStatus' = "run" /\ absPc' = StartIp(in) /\ absReg' = StartRegs(in)
  BY DEF Reset, absStatus, absPc, absReg, LddwFails
<1> DEFINE s == [pc |-> StartIp(in), reg |-> StartRegs(in)]
<1>6. Ref!Start(s)
  BY <1>2, <1>4, <1>5 DEF Ref!Start
<1> QED BY <1>6

\* Bytes are put together in the same order.
LEMMA ReadSame == \A m, a, n : Ref!Bus!ReadAt(m, a, n) = DataQ!ReadAt(m, a, n)
BY Zenon DEF Ref!Bus!ReadAt, DataQ!ReadAt

\* And cut to the same width.
LEMMA LowSame == \A x, w : DataQ!Low(x, w) = Low(x, w)
BY DEF DataQ!Low, Low

\* Words are read from, and written to, the addresses the interpreter means.
LEMMA SameAddress ==
  ASSUME Current
  PROVE  \A base : Ref!Address(base) = data_adr(base)
BY DEF Ref!Address, data_adr, Current, insn

\* A load writes, when its answer is used, what the interpreter's memory holds.
LEMMA LoadSteps ==
  ASSUME RunInv, NEW in \in Inputs, Execute(in), LoadDone(in), IsMem(opcode)
  PROVE  Ref!StepLoad
<1>1. /\ Decode({OPC_LDX}, in) /\ opclass(opcode) = OPC_LDX /\ ~halt /\ ~BadFields /\ state_next = "DECODE" /\ cpu_data_ack
      /\ Advance /\ ~halt' /\ keep_op' = 0 /\ Put(dst, Low(dm.dat_r8, Bytes(opcode) * ByteBits))
  BY DEF LoadDone, Decode, InState, faults
<1>2. Current /\ TypeOK
  BY <1>1, Facts, DecodesCurrent DEF OPC_LD, OPC_LDX, OPC_ST, OPC_STX
<1>3. ~StoreStart(in)
  BY <1>1 DEF StoreStart
<1>4. /\ absStatus' = absStatus /\ Ref!Skip(1) /\ absReg' = regs' /\ absMem' = absMem /\ pgm' = pgm
  BY <1>1, <1>2, <1>3, Fetched
<1>5. insn.op = opcode /\ insn.src = src /\ insn.dst = dst
  BY DEF insn
<1>6. ~Ref!ZeroDivisor
  BY <1>1, <1>2, <1>5, EbpfSame, Classes DEF Ref!ZeroDivisor, Current, IsDiv
<1>7. Ref!Runs
  <2>1. opcode # EBPF_OP_LDDW /\ opcode # EBPF_OP_CALL /\ ~IsEndian(opcode) /\ Ref!KnownOpcode(opcode)
    BY <1>1, KnownSame DEF EBPF_OP_LDDW, EBPF_OP_CALL, opclass, OPC_LDX, IsEndian, OPC_ALU
  <2> QED BY <1>2, <1>6, <2>1, Validated
<1>8. DataPhase = "loaded" /\ data.adr = data_adr(regs[src])
  BY <1>1, Facts DEF DataPhase, DataRequested
<1>9. absMem = mem
  BY <1>8, Facts, AbsMemStep
<1>10. dm.dat_r8 = DataQ!ReadAt(mem, data.adr, 8)
  BY <1>8, Facts DEF DataQ!DataInv, DataQ!ReadsWhatIsThere
<1>11. Low(dm.dat_r8, Bytes(opcode) * ByteBits) = DataQ!ReadAt(mem, data.adr, Bytes(opcode))
  <2>1. mem \in [DataQ!Addr -> DataQ!Word(ByteBits)] /\ data.adr \in DataQ!Addr
    <3>1. data \in [stb : BOOLEAN, adr : DataM!Addr, we : BOOLEAN, ww : 0 .. 15, dat_w : DataM!Word(DataM!W64)]
      BY <1>2 DEF TypeOK, DataM!Ports
    <3>2. DataM!Addr = Word(AddrBits)
      BY SameWords DEF DataM!Addr
    <3> QED BY <1>2, <3>1, <3>2, DataQWidths DEF TypeOK
  <2>2. Bytes(opcode) \in 0 .. 8
    BY BytesOf
  <2>3. DataQ!Low(DataQ!ReadAt(mem, data.adr, 8), Bytes(opcode) * ByteBits) = DataQ!ReadAt(mem, data.adr, Bytes(opcode))
    BY <2>1, <2>2, DataQAssumed, DataQ!ReadLow DEF DataQ!ReadLow
  <2> QED BY <1>10, <2>3, LowSame
<1>12. absReg' = [absReg EXCEPT ![insn.dst] = Ref!Bus!ReadAt(absMem, Ref!Address(absReg[insn.src]), Ref!Bytes(insn.op))]
  BY <1>1, <1>2, <1>4, <1>5, <1>8, <1>9, <1>11, ReadSame, SameAddress, EbpfSame DEF Put, Current
<1> QED BY <1>1, <1>2, <1>4, <1>5, <1>7, <1>12, EbpfSame DEF Ref!StepLoad, Current

\* What is stored: an immediate is widened by zeros, but those bytes are not stored or the
\* program is not portable.
LEMMA StoredSame ==
  ASSUME TypeOK, Current, IsMem(opcode), opclass(opcode) \in {OPC_ST, OPC_STX}
  PROVE  /\ Stored \in Int
         /\ (IF opclass(opcode) = OPC_ST THEN SignExtend(immediate, W32, W64) ELSE regs[src]) \in Int
         /\ Low(Stored, Bytes(opcode) * ByteBits)
              = Low(IF opclass(opcode) = OPC_ST THEN SignExtend(immediate, W32, W64) ELSE regs[src], Bytes(opcode) * ByteBits)
<1>1. CASE opclass(opcode) # OPC_ST
  <2>1. regs[src] \in Word(W64)
    BY DEF TypeOK, Registers, MAX_REGS, Current
  <2> QED BY <1>1, <2>1, AnyWidths, WordInt DEF Stored
<1>2. CASE opclass(opcode) = OPC_ST
  <2>1. W32 \in 1 .. W64 /\ W64 \in W32 .. W64 /\ immediate \in Word(W32) /\ immediate \in Int /\ insn.imm = immediate
        /\ insn.op = opcode
    BY Widths, Fields
  <2> DEFINE e == SignExtend(immediate, W32, W64)
  <2>2. e \in Word(W64) /\ Low(e, W32) = immediate /\ (immediate < 2^(W32 - 1) => e = immediate)
    BY <2>1, SignExtended
  <2>3. e \in Int
    BY <2>2, AnyWidths, WordInt
  <2> HIDE DEF e
  <2>4. Low(immediate, Bytes(opcode) * ByteBits) = Low(e, Bytes(opcode) * ByteBits)
    <3>1. CASE Bytes(opcode) = 8
      <4>1. WidensImm(opcode)
        BY <1>2, <3>1 DEF WidensImm
      <4>2. immediate < 2^(W32 - 1)
        BY <2>1, <4>1 DEF Current, Portable
      <4> QED BY <2>2, <4>2
    <3>2. CASE Bytes(opcode) \in {1, 2, 4}
      <4> DEFINE v == Bytes(opcode) * ByteBits
      <4>1. v \in 0 .. W64 /\ v <= W32 /\ W32 \in 0 .. W64
        <5>1. ByteBits \in Nat /\ W32 = 4 * ByteBits
          BY ByteBitsAssumption DEF W32
        <5>2. CASE Bytes(opcode) = 1
          BY <2>1, <5>1, <5>2
        <5>3. CASE Bytes(opcode) = 2
          BY <2>1, <5>1, <5>3
        <5>4. CASE Bytes(opcode) = 4
          BY <2>1, <5>1, <5>4
        <5> QED BY <3>2, <5>2, <5>3, <5>4
      <4> HIDE DEF v
      <4>2. Low(Low(e, W32), v) = Low(e, v)
        BY <2>3, <4>1, LowLow
      <4> QED BY <2>2, <4>2 DEF v
    <3> QED BY <3>1, <3>2, BytesOf
  <2> QED BY <1>2, <2>1, <2>3, <2>4 DEF Stored, e
<1> QED BY <1>1, <1>2

\* A store is written, for the interpreter, when it is decoded.
LEMMA StoreSteps ==
  ASSUME RunInv, NEW in \in Inputs, Execute(in), StoreStart(in), IsMem(opcode)
  PROVE  Ref!StepStore
<1>1. /\ Decode({OPC_ST, OPC_STX}, in) /\ opclass(opcode) \in {OPC_ST, OPC_STX} /\ ~halt /\ ~BadFields /\ state_next = "DECODE"
      /\ ~cpu_data_ack /\ state_next' = "DATA_FETCH" /\ data' = StorePort /\ ~halt' /\ keep_op' = 0 /\ regs' = regs
      /\ ip_next' = ip_next
  BY DEF StoreStart, Decode, InState, Goto, faults, fetch
<1>2. Current /\ TypeOK
  BY <1>1, Facts, DecodesCurrent DEF OPC_LD, OPC_ST, OPC_STX
<1>3. data'.we
  BY <1>1 DEF StorePort
<1>4. absStatus' = "run" /\ absReg' = regs /\ absPc' = ip_next
  BY <1>1, <1>3 DEF absStatus, absReg, absPc, LddwFails, Storing
<1>5. insn.op = opcode /\ insn.src = src /\ insn.dst = dst /\ insn.imm = immediate
  BY DEF insn
<1>6. ~Ref!ZeroDivisor
  BY <1>1, <1>2, <1>5, EbpfSame, Classes DEF Ref!ZeroDivisor, Current, IsDiv
<1>7. Ref!Runs
  <2>1. opcode # EBPF_OP_LDDW /\ opcode # EBPF_OP_CALL /\ ~IsEndian(opcode) /\ Ref!KnownOpcode(opcode)
    BY <1>1, KnownSame DEF EBPF_OP_LDDW, EBPF_OP_CALL, opclass, OPC_ST, OPC_STX, IsEndian, OPC_ALU
  <2> QED BY <1>2, <1>6, <2>1, Validated
<1> DEFINE adr == data_adr(regs[dst])
           n == Bytes(opcode)
           v == IF opclass(opcode) = OPC_ST THEN SignExtend(immediate, W32, W64) ELSE regs[src]
<1>8. absMem' = DataM!WriteAt(absMem, adr, n, Low(Stored, n * ByteBits))
  BY Facts, AbsMemStep
<1>9. DataQ!WriteAt(absMem, adr, n, Low(v, n * ByteBits)) = DataQ!WriteAt(absMem, adr, n, v)
  <2>1. adr \in DataQ!Addr
    <3>1. regs[dst] \in Word(W64)
      BY <1>2 DEF TypeOK, Registers, MAX_REGS, Current
    <3> QED BY <1>2, <3>1, AddressesTyped, DataQWidths
  <2>2. n \in 1 .. 8 /\ v \in Int
    BY <1>1, <1>2, BytesOf, StoredSame
  <2> HIDE DEF adr, n, v
  <2>3. DataQ!WriteAt(absMem, adr, n, DataQ!Low(v, n * ByteBits)) = DataQ!WriteAt(absMem, adr, n, v)
    BY <2>1, <2>2, DataQAssumed, DataQ!WriteLow DEF DataQ!WriteLow
  <2> QED BY <2>3, LowSame
<1>10. absMem' = Ref!Bus!WriteAt(absMem, adr, n, v)
  BY <1>1, <1>2, <1>8, <1>9, StoredSame, WriteSame
<1>11. absMem' = Ref!Bus!WriteAt(absMem, Ref!Address(absReg[insn.dst]), Ref!Bytes(insn.op),
                        IF Ref!opclass(insn.op) = Ref!OPC_ST THEN Ref!imm64(insn) ELSE absReg[insn.src])
  BY <1>2, <1>5, <1>10, SameAddress, EbpfSame, RefWords DEF Current, Ref!imm64
<1>12. pgm' = pgm
  BY ExecuteShape, ProgramRead
<1> QED BY <1>1, <1>2, <1>4, <1>5, <1>7, <1>11, <1>12, EbpfSame DEF Ref!StepStore, Ref!Skip, Current

-----------------------------------------------------------------------------
(* The refinement.                                                         *)

\* What leaves pc, the registers and the status alone is no step of the interpreter.
LEMMA Stutters ==
  ASSUME RunInv, NEW in \in Inputs, Execute(in), Same, ~(StoreStart(in) /\ IsMem(opcode))
  PROVE  UNCHANGED Ref!vars
<1>1. absMem' = absMem
  BY Facts, AbsMemStep
<1>2. pgm' = pgm
  BY ExecuteShape, ProgramRead
<1> QED BY <1>1, <1>2 DEF Same, Ref!vars

\* Each branch of cpu.v is a step of the interpreter or leaves its state alone.
LEMMA ExecuteSteps ==
  ASSUME RunInv, RunInv', NEW in \in Inputs, Execute(in)
  PROVE  Ref!Next \/ UNCHANGED Ref!vars
<1>1. CASE StoreStart(in) /\ IsMem(opcode)
  BY <1>1, StoreSteps DEF Ref!Next
<1>2. CASE ~(StoreStart(in) /\ IsMem(opcode))
  <2>1. CASE \/ LoadStart(in) \/ DivStart(in) \/ DivPending(in) \/ DivAck(in) \/ ShiftWait(in) \/ Call(in) \/ CallPending(in)
             \/ DataFetch(in) \/ DataAck(in)
    <3>1. Same
      BY <2>1, WaitsSame
    <3> QED BY <1>2, <3>1, Stutters
  <2>2. CASE OpFetch(in) \/ OpFetchDelay(in) \/ LddwHigh(in) \/ StoreDone(in)
    BY <1>2, <2>2, FetchesSame, Stutters
  <2>3. CASE Halted(in)
    BY <1>2, <2>3, HaltedSame, Stutters
  <2>4. CASE Fault(in)
    BY <1>2, <2>4, FaultFails, Stutters DEF Ref!Next
  <2>5. CASE Reserved(in) \/ BadAlu(in) \/ StoreStart(in) \/ LoadDone(in)
    BY <1>2, <2>5, UnknownFails, LoadSteps DEF Ref!Next
  <2>6. CASE DivDone(in) \/ ShiftDone(in) \/ Plain(in) \/ Endian(in)
    BY <2>6, AluSteps DEF Ref!Next
  <2>7. CASE Jump(in) \/ CallReturn(in) \/ LddwLow(in)
    BY <2>7, JumpSteps, CallSteps, LddwSteps DEF Ref!Next
  <2>8. CASE DivError(in) \/ CallError(in)
    BY <2>8, DivErrorFails, CallErrorFails DEF Ref!Next
  <2> QED BY <1>2, <2>1, <2>2, <2>3, <2>4, <2>5, <2>6, <2>7, <2>8 DEF Execute
<1> QED BY <1>1, <1>2

\* The processor starts where the interpreter does.
LEMMA HostStarts == HostInit => Ref!Init
<1> SUFFICES ASSUME HostInit PROVE Ref!Init
  OBVIOUS
<1>1. PICK in \in Resets : /\ halt = FALSE /\ keep_op = 0 /\ state_next = "OP_FETCH"
                           /\ ip_next = StartIp(in) /\ regs = StartRegs(in)
  BY DEF HostInit, Init, Resets
<1>2. absStatus = "run" /\ absPc = StartIp(in) /\ absReg = StartRegs(in)
  BY <1>1 DEF absStatus, absPc, absReg, LddwFails
<1> DEFINE s == [pc |-> StartIp(in), reg |-> StartRegs(in)]
<1>3. absPc = s.pc /\ absReg = s.reg
  BY <1>2
<1> QED BY <1>2, <1>3 DEF Ref!Init

\* Every edge is a step of the interpreter or a stutter.
LEMMA HostSteps == RunInv /\ RunInv' /\ [HostNext]_hvars => [Ref!Next]_(Ref!vars)
<1> SUFFICES ASSUME RunInv, RunInv', [HostNext]_hvars PROVE Ref!Next \/ UNCHANGED Ref!vars
  OBVIOUS
<1>1. CASE HoldReset
  <2>1. PICK in \in Resets : Reset(in)
    BY <1>1 DEF HoldReset
  <2>2. host = "reset"
    BY <1>1 DEF HoldReset
  <2> QED BY <2>1, <2>2, ResetStarts DEF Ref!Next
<1>2. ASSUME NEW in \in Releases, RunProgram(in) PROVE Ref!Next \/ UNCHANGED Ref!vars
  BY <1>2, ExecuteSteps DEF RunProgram, Releases
<1>3. CASE NextRule
  BY <1>3, ExecuteSteps DEF NextRule, Releases
<1>4. CASE UNCHANGED hvars
  <2>1. UNCHANGED vars
    BY <1>4 DEF hvars
  <2>2. /\ second' = second /\ opcode' = opcode /\ pgm' = pgm /\ ip' = ip /\ ip_next' = ip_next /\ mem' = mem
        /\ regs' = regs /\ data' = data /\ cpu_data_ack' = cpu_data_ack /\ keep_op' = keep_op /\ keep_dst' = keep_dst
        /\ halt' = halt /\ error' = error /\ state_next' = state_next
    BY <2>1 DEF vars, keeps, faults, fetch, states, acks, ports, parts, second, Prog!PgmIndex,
       opcode, insn
  <2>3. (LddwFails' <=> LddwFails) /\ (Storing' <=> Storing)
    BY <2>2 DEF LddwFails, Storing
  <2>4. absStatus' = absStatus /\ absMem' = absMem
    BY <2>2, <2>3 DEF absStatus, absMem
  <2>5. absPc' = absPc /\ absReg' = absReg
    BY <2>2, <2>3, <2>4 DEF absPc, absReg
  <2> QED BY <2>2, <2>4, <2>5 DEF Ref!vars
<1> QED BY <1>1, <1>2, <1>3, <1>4 DEF HostNext

\* A portable program, of whatever size, on whatever data, for every width of the
\* registers and any number of rules, is executed by cpu.v (its whole FSM, 953-2314, with
\* the divider, the shifter, the data memory and the call handler) as ubpf_exec and
\* validate (ubpf_vm.c) would: every edge is one of their steps or none, and an error is
\* raised only for a program that fails there too.
THEOREM RunsAsReference == ASSUME Agreed PROVE HostSpec => Implements
<1>1. HostInit => RunInv
  BY RunInit
<1> QED BY <1>1, RunKept, HostStarts, HostSteps, PTL DEF HostSpec, Implements, Ref!Spec
=============================================================================
