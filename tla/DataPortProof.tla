---------------------------- MODULE DataPortProof -----------------------------
(***************************************************************************)
(* The data memory's promises, for every width, size and access.           *)
(***************************************************************************)
EXTENDS DataPort, WordsProof

Size == 2^AddrBits

\* The address k bytes on from a, and how far on from a the address b is.
At(a, k) == (a + k) % Size
Distance(a, b) == (b - a) % Size

\* How many bytes of a store have been presented to the memory, which takes the last of
\* them on the next edge.
Presented == IF dm.write_complete_flag THEN data.ww ELSE dm.wcnt - 1

Storing ==
  phase = "fetch" /\ data.stb /\ data.we =>
    /\ IF dm.write_complete_flag THEN dm.ack /\ dm.we1
       ELSE /\ ~dm.ack /\ dm.wcnt <= data.ww /\ (dm.we1 <=> dm.wcnt >= 2)
            /\ dm.wcnt >= 1 => dm.addr_t = At(data.adr, dm.wcnt - 1)
    /\ dm.we1 => /\ Presented \in 1 .. data.ww
                 /\ dm.adr0 = At(data.adr, Presented - 1)
                 /\ dm.dat_w1 = Byte(data.dat_w, Presented - 1)
    /\ \A i \in 0 .. (Presented - 2) : mem[At(data.adr, i)] = Byte(data.dat_w, i)

\* The bytes of a load arrive one edge after their addresses.
Loading ==
  phase = "fetch" /\ data.stb /\ ~data.we =>
    IF dm.ack THEN dm.dat_r8 = ReadAt(mem, data.adr, 8)
    ELSE /\ dm.wcnt <= 8
         /\ dm.wcnt >= 1 /\ dm.wait_1 => dm.wcnt = 1 /\ dm.adr0 = data.adr
         /\ dm.wcnt >= 1 /\ ~dm.wait_1 =>
              /\ dm.adr0 = At(data.adr, dm.wcnt) /\ dm.dat_r1 = mem[At(data.adr, dm.wcnt - 1)]
              /\ dm.wcnt >= 2 => dm.dat_r8 = ReadAt(mem, data.adr, dm.wcnt - 1)

\* stb rises with the FSM at rest, and falls before the next access.
AtRest ==
  /\ phase = "fetch" /\ ~data.stb => ~dm.ack /\ dm.wcnt = 0 /\ ~dm.write_complete_flag
  /\ phase # "fetch" => ~data.stb
  /\ phase = "fetch" /\ data.we => data.ww \in {1, 2, 4, 8}
  /\ dm.we1 => phase = "fetch" /\ data.stb /\ data.we

\* What is still to be stored leads to what is wanted.
Wanted ==
  /\ want \in [Addr -> Word(ByteBits)]
  /\ want = IF phase = "fetch" /\ data.we THEN WriteAt(mem, data.adr, data.ww, data.dat_w) ELSE mem

DataInv ==
  TypeOK /\ Storing /\ Loading /\ AtRest /\ Wanted /\ ReadsWhatIsThere /\ NoStaleAck

-----------------------------------------------------------------------------
(* Addresses and bytes.                                                    *)

LEMMA Room == Size \in Nat /\ Size >= 8 /\ Addr = 0 .. Size - 1
BY AddrBitsAssumption, EightBytes DEF Addr, Word, Size

\* Going k bytes on from a and back.
LEMMA Offsets ==
  ASSUME NEW a \in Addr, NEW k \in 0 .. Size - 1
  PROVE  At(a, k) \in Addr /\ Distance(a, At(a, k)) = k
BY Room, Onward DEF At, Distance

LEMMA Return ==
  ASSUME NEW a \in Addr, NEW b \in Addr
  PROVE  Distance(a, b) \in 0 .. Size - 1 /\ At(a, Distance(a, b)) = b
BY Room, BackAgain DEF At, Distance

LEMMA NextByte ==
  ASSUME NEW a \in Addr, NEW k \in 0 .. Size - 1
  PROVE  Next1(At(a, k)) = At(a, k + 1) /\ At(a, k + 1) \in Addr /\ At(a, 0) = a
<1>1. Next1(At(a, k)) = (At(a, k) + 1) % Size
  BY DEF Next1, Size
<1> QED BY <1>1, Room, OneFurther DEF At

-----------------------------------------------------------------------------
(* Reading and writing several bytes.                                      *)

\* What byte k adds to the number read from a on.
Terms(m, a) == [k \in 1 .. 8 |-> m[At(a, k - 1)] * 2^((k - 1) * ByteBits)]

LEMMA ReadIsSum ==
  ASSUME NEW m, NEW a \in Addr, NEW n \in 0 .. 8
  PROVE  \E f : ReadAt(m, a, n) = f[n] /\ Sums(f, Terms(m, a), n)
<1> DEFINE P(v) == v = [k \in 0 .. n |-> IF k = 0 THEN 0
                        ELSE v[k - 1] + m[(a + k - 1) % 2^AddrBits] * 2^((k - 1) * ByteBits)]
           val == CHOOSE v : P(v)
<1>1. ReadAt(m, a, n) = val[n]
  BY Zenon DEF ReadAt
<1>2. ASSUME NEW v PROVE P(v) <=> Sums(v, Terms(m, a), n)
  <2>1. ASSUME NEW k \in 1 .. n
        PROVE  Terms(m, a)[k] = m[(a + k - 1) % 2^AddrBits] * 2^((k - 1) * ByteBits)
    <3>1. k \in 1 .. 8 /\ a + k - 1 = a + (k - 1)
      BY Room
    <3> QED BY <3>1 DEF Terms, At, Size
  <2>2. ASSUME NEW k \in 0 .. n
        PROVE  (IF k = 0 THEN 0 ELSE v[k - 1] + m[(a + k - 1) % 2^AddrBits] * 2^((k - 1) * ByteBits))
                 = IF k = 0 THEN 0 ELSE v[k - 1] + Terms(m, a)[k]
    <3>1. k = 0 \/ k \in 1 .. n
      OBVIOUS
    <3> QED BY <2>1, <3>1
  <2> QED BY <2>2 DEF Sums
<1>3. \E v : P(v)
  <2>1. \E v : Sums(v, Terms(m, a), n)
    BY SumsExist
  <2> HIDE DEF P
  <2> QED BY <1>2, <2>1
<1>4. P(val)
  <2> HIDE DEF P
  <2> QED BY <1>3, Zenon
<1>5. Sums(val, Terms(m, a), n)
  <2> HIDE DEF P, val
  <2> QED BY <1>2, <1>4
<1> HIDE DEF P, val
<1> QED BY <1>1, <1>5

\* One byte more.
LEMMA ReadMore ==
  ASSUME NEW m, NEW a \in Addr, NEW n \in 0 .. 7
  PROVE  /\ ReadAt(m, a, 0) = 0
         /\ ReadAt(m, a, n + 1) = ReadAt(m, a, n) + m[At(a, n)] * 2^(n * ByteBits)
<1>1. PICK e : ReadAt(m, a, 0) = e[0] /\ Sums(e, Terms(m, a), 0)
  BY ReadIsSum
<1>2. PICK f : ReadAt(m, a, n) = f[n] /\ Sums(f, Terms(m, a), n)
  BY ReadIsSum
<1>3. PICK g : ReadAt(m, a, n + 1) = g[n + 1] /\ Sums(g, Terms(m, a), n + 1)
  BY ReadIsSum
<1>4. e[0] = 0
  BY <1>1, SumsRule
<1>5. g[n] = f[n]
  BY <1>2, <1>3, SumsAgree
<1>6. g[n + 1] = g[n] + Terms(m, a)[n + 1]
  <2>1. n + 1 \in 1 .. (n + 1) /\ (n + 1) - 1 = n
    OBVIOUS
  <2> QED BY <1>3, <2>1, SumsRule
<1>7. Terms(m, a)[n + 1] = m[At(a, n)] * 2^(n * ByteBits)
  BY DEF Terms
<1> QED BY <1>1, <1>2, <1>3, <1>4, <1>5, <1>6, <1>7

\* A number of n bytes.
LEMMA ReadWidth ==
  ASSUME NEW m \in [Addr -> Word(ByteBits)], NEW a \in Addr, NEW n \in 0 .. 8
  PROVE  ReadAt(m, a, n) \in Word(n * ByteBits)
<1> DEFINE S == {k \in Nat : k <= 8 => ReadAt(m, a, k) \in Word(k * ByteBits)}
<1>1. 0 \in S
  <2>1. 0 * ByteBits = 0 /\ 0 \in 0 .. 7 /\ 0 \in 0 .. W64
    BY Widths
  <2> QED BY <2>1, ReadMore, ZeroWord
<1>2. ASSUME NEW k \in Nat, k \in S PROVE k + 1 \in S
  <2> SUFFICES ASSUME k + 1 <= 8 PROVE ReadAt(m, a, k + 1) \in Word((k + 1) * ByteBits)
    OBVIOUS
  <2>1. k \in 0 .. 7 /\ k \in 0 .. 8 /\ k + 1 \in 0 .. 8 /\ k \in 0 .. Size - 1
    BY Room
  <2> DEFINE b == m[At(a, k)]
             x == ReadAt(m, a, k)
             P == 2^(k * ByteBits)
             B == 2^ByteBits
  <2>2. b \in 0 .. B - 1
    BY <2>1, Offsets DEF Word
  <2>3. x \in 0 .. P - 1
    BY <1>2, <2>1 DEF Word
  <2>4. P \in Nat /\ P > 0 /\ B \in Nat /\ B > 0
    BY <2>1, Widths, Power
  <2>5. 2^((k + 1) * ByteBits) = P * B
    <3>1. (k + 1) * ByteBits = k * ByteBits + ByteBits /\ k * ByteBits \in Nat /\ ByteBits \in Nat
          /\ k * ByteBits + ByteBits <= W64
      <4>1. (k + 1) * ByteBits = k * ByteBits + ByteBits
        BY ByteBitsAssumption
      <4> QED BY <2>1, <4>1, Widths, ByteBitsAssumption
    <3> QED BY <3>1, PowerSum
  <2>6. ReadAt(m, a, k + 1) = x + b * P
    BY <2>1, ReadMore
  <2>7. x + b * P \in 0 .. (P * B) - 1
    <3> HIDE DEF x, b, P, B
    <3>1. b * P >= 0 /\ b * P <= (B - 1) * P
      BY <2>2, <2>4
    <3>2. (B - 1) * P = P * B - P /\ b * P \in Int /\ P * B \in Int
      BY <2>2, <2>4
    <3> QED BY <2>3, <2>4, <3>1, <3>2
  <2> QED BY <2>5, <2>6, <2>7 DEF Word
<1>3. Nat \subseteq S
  <2> HIDE DEF S
  <2> QED BY <1>1, <1>2, Induction
<1> QED BY <1>3

\* Putting the next byte in front of the ones read.
LEMMA ReadNext ==
  ASSUME NEW m \in [Addr -> Word(ByteBits)], NEW a \in Addr, NEW n \in 0 .. 7
  PROVE  PutByte(ReadAt(m, a, n), n, m[At(a, n)]) = ReadAt(m, a, n + 1)
<1> DEFINE x == ReadAt(m, a, n)
           b == m[At(a, n)]
           P == 2^(n * ByteBits)
           B == 2^ByteBits
<1>1. n \in 0 .. Size - 1 /\ n \in 0 .. 8
  BY Room
<1>2. b \in 0 .. B - 1 /\ x \in 0 .. P - 1
  BY <1>1, Offsets, ReadWidth DEF Word
<1>3. P \in Nat /\ P > 0 /\ B \in Nat /\ B > 0
  BY <1>1, Widths, Power
<1>4. Byte(x, n) = 0
  <2>1. x = 0 * P + x /\ 0 = 0 * B + 0
    BY <1>2, <1>3
  <2>2. x \div P = 0 /\ 0 % B = 0
    <3> HIDE DEF x, P, B
    <3> QED BY <1>2, <1>3, <2>1, Quotient
  <2> QED BY <2>2 DEF Byte
<1>5. ReadAt(m, a, n + 1) = x + b * P
  BY ReadMore
<1> HIDE DEF x, b
<1>6. PutByte(x, n, b) = x + b * P
  BY <1>2, <1>3, <1>4 DEF PutByte
<1> QED BY <1>5, <1>6 DEF x, b

\* Storing one of the bytes early changes nothing in the end.
LEMMA WriteEarly ==
  ASSUME NEW m \in [Addr -> Word(ByteBits)], NEW a \in Addr, NEW n \in 0 .. 8, NEW x \in Word(W64),
         NEW j \in 0 .. 7, j < n
  PROVE  WriteAt([m EXCEPT ![At(a, j)] = Byte(x, j)], a, n, x) = WriteAt(m, a, n, x)
<1> DEFINE e == [m EXCEPT ![At(a, j)] = Byte(x, j)]
<1>1. j \in 0 .. Size - 1
  BY Room
<1>2. ASSUME NEW b \in Addr, ~(Distance(a, b) < n) PROVE e[b] = m[b]
  BY <1>1, <1>2, Offsets
<1> HIDE DEF e
<1>3. WriteAt(e, a, n, x) = WriteAt(m, a, n, x)
  BY <1>2 DEF WriteAt, Distance, Size
<1> QED BY <1>3 DEF e

\* Storing what is there already.
LEMMA WriteDone ==
  ASSUME NEW m \in [Addr -> Word(ByteBits)], NEW a \in Addr, NEW n \in 0 .. 8, NEW x,
         \A i \in 0 .. n - 1 : m[At(a, i)] = Byte(x, i)
  PROVE  WriteAt(m, a, n, x) = m
<1>1. ASSUME NEW b \in Addr, Distance(a, b) < n PROVE m[b] = Byte(x, Distance(a, b))
  <2>1. Distance(a, b) \in 0 .. n - 1
    <3>1. Distance(a, b) \in 0 .. Size - 1 /\ Size \in Nat
      BY Return, Room
    <3> QED BY <1>1, <3>1
  <2> QED BY <2>1, Return
<1> QED BY <1>1 DEF WriteAt, Distance, Size

LEMMA WriteType ==
  ASSUME NEW m \in [Addr -> Word(ByteBits)], NEW a \in Addr, NEW n \in 0 .. 8, NEW x \in Word(W64)
  PROVE  WriteAt(m, a, n, x) \in [Addr -> Word(ByteBits)]
<1>1. ASSUME NEW b \in Addr, Distance(a, b) < n PROVE Byte(x, Distance(a, b)) \in Word(ByteBits)
  <2>1. Distance(a, b) \in 0 .. 7
    <3>1. Distance(a, b) \in 0 .. Size - 1 /\ Size \in Nat
      BY Return, Room
    <3> QED BY <1>1, <3>1
  <2> QED BY <2>1, ByteTyped, WordInt
<1> QED BY <1>1 DEF WriteAt, Distance, Size

\* The low bytes of what is read are what fewer bytes give.
LEMMA ReadLow ==
  ASSUME NEW m \in [Addr -> Word(ByteBits)], NEW a \in Addr, NEW n \in 0 .. 8
  PROVE  Low(ReadAt(m, a, 8), n * ByteBits) = ReadAt(m, a, n)
<1> DEFINE N == 2^(n * ByteBits)
           v == ReadAt(m, a, n)
<1>1. N \in Nat /\ N > 0 /\ v \in Int /\ 0 <= v /\ v < N
  <2>1. n * ByteBits \in 0 .. W64
    BY Widths
  <2>2. v \in 0 .. N - 1
    BY ReadWidth DEF Word
  <2>3. N \in Nat /\ N > 0
    BY <2>1, Power
  <2> QED BY <2>2, <2>3
<1> DEFINE S == {k \in Nat : n + k <= 8 => \E c \in Nat : ReadAt(m, a, n + k) = c * N + v}
<1> HIDE DEF N, v
<1>2. 0 \in S
  <2>1. n + 0 = n /\ v = 0 * N + v
    BY <1>1
  <2> QED BY <2>1 DEF v
<1>3. ASSUME NEW k \in Nat, k \in S PROVE k + 1 \in S
  <2> SUFFICES ASSUME n + (k + 1) <= 8 PROVE \E c \in Nat : ReadAt(m, a, n + (k + 1)) = c * N + v
    OBVIOUS
  <2>1. n + k \in 0 .. 7 /\ n + k <= 8 /\ n + (k + 1) = (n + k) + 1 /\ k \in 0 .. 8 /\ n + k \in 0 .. Size - 1
    BY Room
  <2>2. PICK c \in Nat : ReadAt(m, a, n + k) = c * N + v
    BY <1>3, <2>1
  <2> DEFINE b == m[At(a, n + k)]
             J == 2^(k * ByteBits)
  <2>3. ReadAt(m, a, n + (k + 1)) = (c * N + v) + b * 2^((n + k) * ByteBits)
    BY <2>1, <2>2, ReadMore
  <2>4. b \in Nat
    <3>1. At(a, n + k) \in Addr
      BY <2>1, Offsets
    <3>2. b \in Word(ByteBits) /\ ByteBits \in 0 .. W64
      BY <3>1, Widths
    <3>3. 2^ByteBits \in Nat
      BY <3>2, Power
    <3> QED BY <3>2, <3>3 DEF Word
  <2>5. 2^((n + k) * ByteBits) = N * J /\ J \in Nat
    <3>1. n * ByteBits \in Nat /\ k * ByteBits \in Nat /\ (n + k) * ByteBits \in 0 .. W64 /\ k * ByteBits \in 0 .. W64
      BY <2>1, Widths
    <3>2. (n + k) * ByteBits = n * ByteBits + k * ByteBits
      BY ByteBitsAssumption
    <3>3. n * ByteBits + k * ByteBits <= W64
      BY <3>1, <3>2, Widths
    <3> QED BY <3>1, <3>2, <3>3, PowerSum, Power DEF N
  <2> HIDE DEF b, J
  <2>6. c + b * J \in Nat /\ (c * N + v) + b * (N * J) = (c + b * J) * N + v
    <3>1. b * J \in Nat
      BY <2>4, <2>5
    <3>2. b * (N * J) = (b * J) * N
      BY <1>1, <2>4, <2>5
    <3> DEFINE d == b * J
    <3> HIDE DEF d
    <3>3. (c + d) * N = c * N + d * N /\ c * N \in Int /\ d * N \in Int
      BY <1>1, <3>1 DEF d
    <3> QED BY <1>1, <3>1, <3>2, <3>3 DEF d
  <2> QED BY <2>3, <2>5, <2>6
<1>4. Nat \subseteq S
  <2> HIDE DEF S
  <2> QED BY <1>2, <1>3, Induction
<1>5. 8 - n \in Nat /\ n + (8 - n) = 8
  OBVIOUS
<1>6. PICK c \in Nat : ReadAt(m, a, 8) = c * N + v
  <2>1. 8 - n \in S
    BY <1>4, <1>5
  <2> QED BY <1>5, <2>1
<1>7. ReadAt(m, a, 8) % N = v
  BY <1>1, <1>6, Quotient
<1> QED BY <1>7 DEF Low, N, v

\* Storing n bytes looks at the low n bytes only.
LEMMA WriteLow ==
  ASSUME NEW m, NEW a \in Addr, NEW n \in 1 .. 8, NEW x \in Int
  PROVE  WriteAt(m, a, n, Low(x, n * ByteBits)) = WriteAt(m, a, n, x)
<1>1. ASSUME NEW b \in Addr, Distance(a, b) < n
      PROVE  Byte(Low(x, n * ByteBits), Distance(a, b)) = Byte(x, Distance(a, b))
  <2>1. Distance(a, b) \in 0 .. n - 1
    <3>1. Distance(a, b) \in 0 .. Size - 1 /\ Size \in Nat
      BY Return, Room
    <3> QED BY <1>1, <3>1
  <2> QED BY <2>1, ByteOfLow
<1> QED BY <1>1 DEF WriteAt, Distance, Size

-----------------------------------------------------------------------------
(* One edge.                                                               *)

\* Assigning to one register.
LEMMA Assigned ==
  ASSUME NEW r \in Registers
  PROVE  /\ \A b \in BOOLEAN : [r EXCEPT !.ack = b] \in Registers
         /\ \A b \in BOOLEAN : [r EXCEPT !.wait_1 = b] \in Registers
         /\ \A b \in BOOLEAN : [r EXCEPT !.we1 = b] \in Registers
         /\ \A b \in BOOLEAN : [r EXCEPT !.write_complete_flag = b] \in Registers
         /\ \A x \in Word(W64) : [r EXCEPT !.dat_r8 = x] \in Registers
         /\ \A n \in 0 .. 15 : [r EXCEPT !.wcnt = n] \in Registers
         /\ \A a \in Addr : [r EXCEPT !.adr0 = a] \in Registers
         /\ \A a \in Addr : [r EXCEPT !.addr_t = a] \in Registers
         /\ \A x \in Word(ByteBits) : [r EXCEPT !.dat_w1 = x] \in Registers
BY DEF Registers

\* dm' is what the FSM says, with the memory's output of the address before.
LEMMA Latched ==
  ASSUME TypeOK, Edge(FALSE, data), NEW r \in Registers, Fsm(FALSE, data) = r
  PROVE  /\ dm' \in Registers /\ mem' \in [Addr -> Word(ByteBits)]
         /\ dm'.ack = r.ack /\ dm'.dat_r8 = r.dat_r8 /\ dm'.wcnt = r.wcnt /\ dm'.wait_1 = r.wait_1
         /\ dm'.adr0 = r.adr0 /\ dm'.we1 = r.we1 /\ dm'.dat_w1 = r.dat_w1 /\ dm'.addr_t = r.addr_t
         /\ dm'.write_complete_flag = r.write_complete_flag /\ dm'.dat_r1 = mem[dm.adr0]
         /\ mem' = IF dm.we1 THEN [mem EXCEPT ![dm.adr0] = dm.dat_w1] ELSE mem
<1>1. dm \in Registers /\ mem \in [Addr -> Word(ByteBits)]
  BY DEF TypeOK
<1>2. dm.adr0 \in Addr /\ dm.dat_w1 \in Word(ByteBits) /\ dm.we1 \in BOOLEAN
  BY <1>1 DEF Registers
<1>3. mem[dm.adr0] \in Word(ByteBits)
  BY <1>1, <1>2
<1>4. dm' = [r EXCEPT !.dat_r1 = mem[dm.adr0]]
  BY DEF Edge, MemRead
<1>5. mem' = IF dm.we1 THEN [mem EXCEPT ![dm.adr0] = dm.dat_w1] ELSE mem
  BY DEF Edge, MemWrite
<1>6. mem' \in [Addr -> Word(ByteBits)]
  BY <1>1, <1>2, <1>5
<1> QED BY <1>3, <1>4, <1>5, <1>6 DEF Registers

\* An edge without stb.
LEMMA Rested ==
  ASSUME DataInv, ~data.stb, Edge(FALSE, data)
  PROVE  /\ dm' \in Registers /\ mem' = mem
         /\ ~dm'.ack /\ dm'.wcnt = 0 /\ ~dm'.write_complete_flag /\ ~dm'.we1
<1>1. TypeOK /\ dm \in Registers /\ ~dm.we1
  BY DEF DataInv, TypeOK, AtRest
<1>2. Fsm(FALSE, data) = Idle
  BY DEF Fsm
<1>3. Idle \in Registers
  <2>1. 0 \in 0 .. 15
    OBVIOUS
  <2> QED BY <1>1, <2>1, Assigned DEF Idle
<1>4. ~Idle.ack /\ Idle.wcnt = 0 /\ ~Idle.write_complete_flag /\ ~Idle.we1
  BY <1>1 DEF Idle, Registers
<1> HIDE DEF Idle
<1> QED BY <1>1, <1>2, <1>3, <1>4, Latched

\* The parts of a type-correct state.
LEMMA Parts ==
  ASSUME DataInv
  PROVE  /\ TypeOK /\ dm \in Registers /\ mem \in [Addr -> Word(ByteBits)] /\ data \in Ports
         /\ dm.wcnt \in 0 .. 15 /\ data.adr \in Addr /\ data.dat_w \in Word(W64) /\ data.ww \in 0 .. 15
         /\ data.we \in BOOLEAN /\ data.stb \in BOOLEAN /\ dm.ack \in BOOLEAN /\ dm.we1 \in BOOLEAN
         /\ dm.wait_1 \in BOOLEAN /\ dm.write_complete_flag \in BOOLEAN
         /\ dm.adr0 \in Addr /\ dm.addr_t \in Addr
BY DEF DataInv, TypeOK, Registers, Ports

\* Any edge, whatever the state and the ports: the registers and the memory keep their
\* widths.
LEMMA FsmTyped ==
  ASSUME dm \in Registers, NEW p \in Ports, NEW rst \in BOOLEAN
  PROVE  Fsm(rst, p) \in Registers
<1>0. 0 \in 0 .. 15 /\ 1 \in 0 .. 15
  OBVIOUS
<1>1. 0 \in Addr /\ 0 \in Word(W64) /\ 0 \in Word(ByteBits)
  BY ZeroWord, Widths, AddrBitsAssumption DEF Addr
<1>2. /\ dm.ack \in BOOLEAN /\ dm.dat_r8 \in Word(W64) /\ dm.wcnt \in 0 .. 15 /\ dm.adr0 \in Addr
      /\ dm.addr_t \in Addr /\ dm.dat_w1 \in Word(ByteBits) /\ dm.dat_r1 \in Word(ByteBits)
      /\ p.adr \in Addr /\ p.dat_w \in Word(W64) /\ p.ww \in 0 .. 15
  BY DEF Registers, Ports
<1>3. \A a \in Addr : Next1(a) \in Addr
  <2>1. ASSUME NEW a \in Addr PROVE Next1(a) \in Addr
    <3>1. Next1(a) = (a + 1) % Size /\ a + 1 \in Int /\ Size > 0
      BY Room DEF Next1, Size
    <3> QED BY <3>1, Room, Around
  <2> QED BY <2>1
<1>4. ResetRegs \in Registers
  BY <1>0, <1>1, Assigned DEF ResetRegs
<1>5. Idle \in Registers
  BY <1>0, Assigned DEF Idle
<1>6. StartWrite(p) \in Registers
  BY <1>0, <1>2, Assigned DEF StartWrite
<1>7. CASE dm.wcnt # 0
  <2>1. ASSUME dm.wcnt <= 8 PROVE Byte(p.dat_w, dm.wcnt - 1) \in Word(ByteBits)
    <3>1. dm.wcnt - 1 \in 0 .. 7 /\ p.dat_w \in Int
      BY <1>2, <1>7, <2>1, WordInt
    <3> QED BY <3>1, ByteTyped
  <2>2. (IF dm.wcnt <= 8 THEN Byte(p.dat_w, dm.wcnt - 1) ELSE dm.dat_w1) \in Word(ByteBits)
    BY <1>2, <2>1
  <2>3. (dm.wcnt + 1) % 16 \in 0 .. 15
    BY <1>2
  <2>4. WriteByte(p) \in Registers
    <3> DEFINE x == IF dm.wcnt <= 8 THEN Byte(p.dat_w, dm.wcnt - 1) ELSE dm.dat_w1
               n == (dm.wcnt + 1) % 16
               a == Next1(dm.addr_t)
               last == p.ww = dm.wcnt
    <3>1. x \in Word(ByteBits) /\ n \in 0 .. 15 /\ a \in Addr /\ last \in BOOLEAN
      BY <1>2, <1>3, <2>2, <2>3
    <3>2. WriteByte(p) =
            [dm EXCEPT !.adr0 = dm.addr_t, !.we1 = TRUE, !.dat_w1 = x,
                       !.addr_t = IF last THEN dm.addr_t ELSE a, !.wcnt = IF last THEN 0 ELSE n,
                       !.write_complete_flag = last, !.ack = last \/ dm.ack]
      BY DEF WriteByte, Registers
    <3> HIDE DEF x, n, a, last
    <3>3. (IF last THEN dm.addr_t ELSE a) \in Addr /\ (IF last THEN 0 ELSE n) \in 0 .. 15
          /\ (last \/ dm.ack) \in BOOLEAN
      BY <1>2, <3>1
    <3> QED BY <1>2, <3>1, <3>2, <3>3 DEF Registers
  <2>5. ReadByte(p) \in Registers
    <3> DEFINE last == dm.wcnt = 8
               x == IF dm.wcnt = 1 THEN dm.dat_r1
                    ELSE IF dm.wcnt <= 8 THEN PutByte(dm.dat_r8, dm.wcnt - 1, dm.dat_r1) ELSE dm.dat_r8
               n == IF last THEN dm.wcnt ELSE (dm.wcnt + 1) % 16
               a == IF last THEN p.adr ELSE Next1(dm.adr0)
    <3>1. last \in BOOLEAN /\ n \in 0 .. 15 /\ a \in Addr
      BY <1>2, <1>3, <2>3
    <3>2. x \in Word(W64)
      <4>1. dm.dat_r1 \in Word(W64)
        <5>1. ByteBits \in 0 .. W64 /\ W64 \in 0 .. W64 /\ ByteBits <= W64 /\ 0 \in Int
          BY Widths
        <5> QED BY <1>2, <5>1, LowLow
      <4>2. ASSUME dm.wcnt <= 8 PROVE PutByte(dm.dat_r8, dm.wcnt - 1, dm.dat_r1) \in Word(W64)
        <5>1. dm.wcnt - 1 \in 0 .. 7
          BY <1>2, <1>7, <4>2
        <5> QED BY <1>2, <5>1, ByteReplaced DEF PutByte
      <4> QED BY <1>2, <4>1, <4>2
    <3>3. ReadByte(p) = [dm EXCEPT !.we1 = FALSE, !.dat_r8 = x, !.adr0 = a, !.wcnt = n, !.ack = last]
      BY DEF ReadByte, Registers
    <3> HIDE DEF last, x, n, a
    <3> QED BY <3>1, <3>2, <3>3 DEF Registers
  <2>6. AfterAck(p) \in Registers /\ WaitRead \in Registers
    BY <1>2, <1>3 DEF AfterAck, WaitRead, Registers
  <2> QED BY <1>4, <1>5, <1>7, <2>4, <2>5, <2>6 DEF Fsm
<1>8. CASE dm.wcnt = 0
  <2>1. AfterAck(p) \in Registers /\ StartRead(p) \in Registers
    BY <1>0, <1>2, Assigned DEF AfterAck, StartRead
  <2> QED BY <1>4, <1>5, <1>6, <1>8, <2>1 DEF Fsm
<1> QED BY <1>7, <1>8

LEMMA EdgeTyped ==
  ASSUME dm \in Registers, mem \in [Addr -> Word(ByteBits)], NEW p \in Ports, NEW rst \in BOOLEAN,
         Edge(rst, p)
  PROVE  dm' \in Registers /\ mem' \in [Addr -> Word(ByteBits)]
<1>1. /\ dm.adr0 \in Addr /\ dm.dat_w1 \in Word(ByteBits) /\ dm.dat_r1 \in Word(ByteBits)
      /\ mem[dm.adr0] \in Word(ByteBits)
  BY DEF Registers
<1>2. mem' \in [Addr -> Word(ByteBits)]
  BY <1>1 DEF Edge, MemWrite
<1>3. MemRead(rst) \in Word(ByteBits)
  BY <1>1 DEF MemRead
<1>4. Fsm(rst, p) \in Registers
  BY FsmTyped
<1>5. dm' \in Registers
  <2>1. dm' = [Fsm(rst, p) EXCEPT !.dat_r1 = MemRead(rst)]
    BY DEF Edge
  <2> QED BY <1>3, <1>4, <2>1 DEF Registers
<1> QED BY <1>2, <1>5

-----------------------------------------------------------------------------
(* The actions.                                                            *)

LEMMA NoAccessType == NoAccess \in Ports
<1>1. 0 \in Addr /\ 0 \in Word(W64)
  BY ZeroWord, Widths, AddrBitsAssumption DEF Addr
<1> QED BY <1>1 DEF NoAccess, Ports

LEMMA DataInit == Init => DataInv
<1> SUFFICES ASSUME Init PROVE DataInv
  OBVIOUS
<1>1. 0 \in Addr /\ 0 \in Word(W64) /\ 0 \in Word(ByteBits)
  BY ZeroWord, Widths, AddrBitsAssumption DEF Addr
<1>2. dm \in Registers /\ ~dm.ack /\ ~dm.we1
  BY <1>1 DEF Init, ClearRegs, Registers
<1>3. mem \in [Addr -> Word(ByteBits)] /\ want = mem
  BY <1>1 DEF Init
<1>4. data \in Ports /\ phase = "idle" /\ ~data.stb
  BY NoAccessType DEF Init, NoAccess
<1> QED BY <1>2, <1>3, <1>4 DEF DataInv, TypeOK, Storing, Loading, AtRest, Wanted, ReadsWhatIsThere, NoStaleAck

\* An edge at rest after which stb is still low.
LEMMA StayAtRest ==
  ASSUME DataInv, ~data.stb, Edge(FALSE, data), data' \in Ports, ~data'.stb, phase' = "idle", want' = want,
         phase # "fetch"
  PROVE  DataInv'
<1>1. TypeOK'
  BY Rested, Parts DEF TypeOK
<1>2. Wanted'
  BY Rested DEF DataInv, Wanted
<1> QED BY <1>1, <1>2, Rested DEF DataInv, Storing, Loading, AtRest, ReadsWhatIsThere, NoStaleAck

LEMMA PrepareStep ==
  ASSUME DataInv, NEW p \in Accesses, Prepare(p)
  PROVE  DataInv'
<1>1. /\ p \in Ports /\ ~p.stb /\ (p.we => p.ww \in {1, 2, 4, 8}) /\ p.we \in BOOLEAN
      /\ p.adr \in Addr /\ p.dat_w \in Word(W64)
  BY AccessesAssumption DEF Ports
<1>2. ~data.stb /\ Edge(FALSE, data) /\ phase = "idle" /\ phase' = "fetch" /\ data' = p
  BY DEF Prepare, DataInv, AtRest
<1>3. want = mem /\ mem' = mem /\ mem \in [Addr -> Word(ByteBits)]
  BY <1>2, Rested, Parts DEF DataInv, Wanted
<1>4. want' = IF p.we THEN WriteAt(mem, p.adr, p.ww, p.dat_w) ELSE mem
  BY <1>3 DEF Prepare
<1>5. want' \in [Addr -> Word(ByteBits)]
  <2>1. p.we => p.ww \in 0 .. 8
    BY <1>1
  <2> QED BY <1>1, <1>3, <1>4, <2>1, WriteType
<1>6. Wanted'
  BY <1>2, <1>3, <1>4, <1>5 DEF Wanted
<1>7. TypeOK'
  BY <1>1, <1>2, <1>3, Rested DEF TypeOK
<1> QED BY <1>1, <1>2, <1>6, <1>7, Rested DEF DataInv, Storing, Loading, AtRest, ReadsWhatIsThere, NoStaleAck

LEMMA FetchFirst ==
  ASSUME DataInv, Fetch, ~data.stb
  PROVE  DataInv'
<1>1. /\ phase = "fetch" /\ phase' = phase /\ want' = want /\ Edge(FALSE, data)
      /\ data' = [data EXCEPT !.stb = TRUE]
  BY DEF Fetch
<1>2. data' \in Ports /\ data'.stb /\ data'.we = data.we /\ data'.adr = data.adr /\ data'.ww = data.ww
      /\ data'.dat_w = data.dat_w
  BY <1>1, Parts DEF Ports
<1>3. /\ dm' \in Registers /\ mem' = mem
      /\ ~dm'.ack /\ dm'.wcnt = 0 /\ ~dm'.write_complete_flag /\ ~dm'.we1
  BY <1>1, Rested
<1>4. TypeOK'
  BY <1>1, <1>2, <1>3, Parts DEF TypeOK
<1>5. Wanted'
  BY <1>1, <1>2, <1>3 DEF DataInv, Wanted
<1>6. AtRest'
  BY <1>1, <1>2, <1>3 DEF DataInv, AtRest
<1>7. Storing'
  BY <1>1, <1>2, <1>3, <1>6 DEF Storing, Presented, AtRest
<1>8. Loading'
  BY <1>1, <1>2, <1>3 DEF Loading
<1> QED BY <1>1, <1>3, <1>4, <1>5, <1>6, <1>7, <1>8 DEF DataInv, ReadsWhatIsThere, NoStaleAck

\* One more edge of an access: what is left to show.
LEMMA FetchOn ==
  ASSUME DataInv, Fetch, data.stb
  PROVE  /\ phase = "fetch" /\ phase' = phase /\ want' = want /\ data' = data /\ Edge(FALSE, data) /\ ~dm.ack
         /\ data.we => data.ww \in {1, 2, 4, 8}
         /\ TypeOK' /\ Storing' /\ Loading' /\ Wanted' /\ (dm'.we1 => data.we) => DataInv'
<1>1. /\ phase = "fetch" /\ phase' = phase /\ want' = want /\ Edge(FALSE, data) /\ ~dm.ack
      /\ data' = [data EXCEPT !.stb = TRUE]
  BY DEF Fetch
<1>2. data' = data
  BY <1>1, Parts DEF Ports
<1> QED BY <1>1, <1>2 DEF DataInv, AtRest, ReadsWhatIsThere, NoStaleAck

LEMMA FetchStartWrite ==
  ASSUME DataInv, Fetch, data.stb, data.we, dm.wcnt = 0
  PROVE  DataInv'
<1>1. /\ phase = "fetch" /\ phase' = phase /\ want' = want /\ data' = data /\ Edge(FALSE, data) /\ ~dm.ack
      /\ data.ww \in {1, 2, 4, 8}
  BY FetchOn
<1>2. ~dm.write_complete_flag /\ ~dm.we1
  BY <1>1 DEF DataInv, Storing
<1> DEFINE r == StartWrite(data)
<1>3. Fsm(FALSE, data) = r
  BY <1>2 DEF Fsm
<1>4. r \in Registers
  <2>1. 1 \in 0 .. 15
    OBVIOUS
  <2> QED BY <2>1, Parts, Assigned DEF StartWrite
<1>5. r.wcnt = 1 /\ r.addr_t = data.adr /\ ~r.ack /\ ~r.we1 /\ ~r.write_complete_flag
  BY <1>1, <1>2, Parts DEF StartWrite, Registers
<1> HIDE DEF r
<1>6. /\ dm' \in Registers /\ mem' = mem
      /\ dm'.wcnt = 1 /\ dm'.addr_t = data.adr /\ ~dm'.ack /\ ~dm'.we1 /\ ~dm'.write_complete_flag
  BY <1>1, <1>2, <1>3, <1>4, <1>5, Latched, Parts
<1>7. At(data.adr, 0) = data.adr
  <2>1. 0 \in 0 .. Size - 1
    BY Room
  <2> QED BY <2>1, NextByte, Parts
<1>8. TypeOK' /\ Wanted'
  BY <1>1, <1>6, Parts DEF TypeOK, DataInv, Wanted
<1>9. Storing'
  BY <1>1, <1>6, <1>7 DEF Storing, Presented
<1>10. Loading'
  BY <1>1 DEF Loading
<1> QED BY <1>6, <1>8, <1>9, <1>10, FetchOn

\* What the memory holds once it has taken the byte presented to it.
LEMMA TakeByte ==
  ASSUME DataInv, phase = "fetch", data.stb, data.we, Edge(FALSE, data)
  PROVE  /\ mem' = (IF dm.we1 THEN [mem EXCEPT ![dm.adr0] = dm.dat_w1] ELSE mem)
         /\ mem' \in [Addr -> Word(ByteBits)]
         /\ WriteAt(mem', data.adr, data.ww, data.dat_w) = WriteAt(mem, data.adr, data.ww, data.dat_w)
         /\ \A i \in 0 .. Presented - 1 : mem'[At(data.adr, i)] = Byte(data.dat_w, i)
<1>1. data.ww \in {1, 2, 4, 8} /\ data.ww \in 0 .. 8
  BY DEF DataInv, AtRest
<1>2. mem \in [Addr -> Word(ByteBits)] /\ data.adr \in Addr /\ data.dat_w \in Word(W64) /\ dm.wcnt \in 0 .. 15
      /\ dm.adr0 \in Addr /\ dm.we1 \in BOOLEAN /\ dm.write_complete_flag \in BOOLEAN /\ dm.ack \in BOOLEAN
  BY Parts
<1>3. mem' = IF dm.we1 THEN [mem EXCEPT ![dm.adr0] = dm.dat_w1] ELSE mem
  BY DEF Edge, MemWrite
<1>4. /\ dm.we1 => /\ Presented \in 1 .. data.ww
                   /\ dm.adr0 = At(data.adr, Presented - 1)
                   /\ dm.dat_w1 = Byte(data.dat_w, Presented - 1)
      /\ ~dm.we1 => Presented <= 0 /\ Presented \in Int
      /\ \A i \in 0 .. (Presented - 2) : mem[At(data.adr, i)] = Byte(data.dat_w, i)
  BY <1>1, <1>2 DEF DataInv, Storing, Presented
<1>5. CASE ~dm.we1
  BY <1>2, <1>3, <1>4, <1>5
<1>6. CASE dm.we1
  <2> DEFINE j == Presented - 1
  <2>1. j \in 0 .. 7 /\ j < data.ww /\ j \in 0 .. Size - 1 /\ Presented \in 1 .. 8
    BY <1>1, <1>4, <1>6, Room
  <2>2. mem' = [mem EXCEPT ![At(data.adr, j)] = Byte(data.dat_w, j)]
    BY <1>3, <1>4, <1>6
  <2>3. Byte(data.dat_w, j) \in Word(ByteBits) /\ At(data.adr, j) \in Addr
    BY <1>2, <2>1, ByteTyped, WordInt, Offsets
  <2>4. mem' \in [Addr -> Word(ByteBits)]
    BY <1>2, <2>2, <2>3
  <2>5. WriteAt(mem', data.adr, data.ww, data.dat_w) = WriteAt(mem, data.adr, data.ww, data.dat_w)
    <3>1. WriteAt([mem EXCEPT ![At(data.adr, j)] = Byte(data.dat_w, j)], data.adr, data.ww, data.dat_w)
            = WriteAt(mem, data.adr, data.ww, data.dat_w)
      <4> HIDE DEF j
      <4> QED BY <1>1, <1>2, <2>1, WriteEarly
    <3> QED BY <2>2, <3>1
  <2>6. ASSUME NEW i \in 0 .. Presented - 1 PROVE mem'[At(data.adr, i)] = Byte(data.dat_w, i)
    <3>1. i \in 0 .. Size - 1 /\ (i = j \/ i \in 0 .. (Presented - 2))
      BY <2>1, Room
    <3>2. At(data.adr, i) \in Addr
      BY <1>2, <3>1, Offsets
    <3>3. CASE i = j
      BY <1>2, <2>2, <2>3, <3>3
    <3>4. CASE i # j
      <4>1. At(data.adr, i) # At(data.adr, j)
        BY <1>2, <2>1, <3>1, <3>4, Offsets
      <4> QED BY <1>2, <1>4, <2>2, <2>3, <3>1, <3>2, <3>4, <4>1
    <3> QED BY <3>3, <3>4
  <2> QED BY <1>3, <2>4, <2>5, <2>6
<1> QED BY <1>2, <1>5, <1>6

LEMMA FetchWriteByte ==
  ASSUME DataInv, Fetch, data.stb, data.we, dm.wcnt # 0
  PROVE  DataInv'
<1>1. /\ phase = "fetch" /\ phase' = phase /\ want' = want /\ data' = data /\ Edge(FALSE, data) /\ ~dm.ack
      /\ data.ww \in {1, 2, 4, 8}
  BY FetchOn
<1>2. ~dm.write_complete_flag
  BY <1>1 DEF DataInv, Storing
<1>3. dm.wcnt \in 1 .. 8 /\ dm.wcnt <= data.ww /\ dm.addr_t = At(data.adr, dm.wcnt - 1)
  BY <1>1, <1>2, Parts DEF DataInv, Storing
<1> DEFINE r == WriteByte(data)
           k == dm.wcnt - 1
<1>4. Fsm(FALSE, data) = r
  BY <1>2 DEF Fsm
<1>5. k \in 0 .. 7 /\ k \in 0 .. Size - 1 /\ k + 1 = dm.wcnt
  BY <1>3, Room
<1>6. Byte(data.dat_w, k) \in Word(ByteBits) /\ Next1(dm.addr_t) = At(data.adr, dm.wcnt)
      /\ At(data.adr, dm.wcnt) \in Addr
  BY <1>3, <1>5, ByteTyped, WordInt, NextByte, Parts
<1>7. (dm.wcnt + 1) % 16 = dm.wcnt + 1 /\ dm.wcnt + 1 \in 0 .. 15 /\ 0 \in 0 .. 15
  BY <1>3
<1> DEFINE last == data.ww = dm.wcnt
           next == IF last THEN dm.addr_t ELSE At(data.adr, dm.wcnt)
           count == IF last THEN 0 ELSE dm.wcnt + 1
<1>8. r = [dm EXCEPT !.adr0 = dm.addr_t, !.we1 = TRUE, !.dat_w1 = Byte(data.dat_w, k), !.addr_t = next,
                     !.wcnt = count, !.write_complete_flag = last, !.ack = last]
  <2>1. dm.wcnt <= 8 /\ (last \/ dm.ack) = last
    BY <1>1, <1>3
  <2> QED BY <1>6, <1>7, <2>1, Zenon DEF WriteByte
<1>9. next \in Addr /\ count \in 0 .. 15 /\ last \in BOOLEAN
  BY <1>6, <1>7, Parts
<1>a. r \in Registers
  <2> HIDE DEF last, next, count, k, r
  <2> QED BY <1>6, <1>8, <1>9, Parts, Assigned
<1>b. /\ r.adr0 = dm.addr_t /\ r.we1 /\ r.dat_w1 = Byte(data.dat_w, k)
      /\ r.write_complete_flag <=> last
      /\ r.ack <=> last
      /\ r.wcnt = count /\ r.addr_t = next
  <2> HIDE DEF last, next, count, k, r
  <2> QED BY <1>8, Parts DEF Registers
<1> HIDE DEF r
<1>10. /\ dm' \in Registers
       /\ dm'.adr0 = At(data.adr, k) /\ dm'.we1 /\ dm'.dat_w1 = Byte(data.dat_w, k)
       /\ dm'.write_complete_flag <=> data.ww = dm.wcnt
       /\ dm'.ack <=> data.ww = dm.wcnt
       /\ data.ww # dm.wcnt => dm'.wcnt = dm.wcnt + 1 /\ dm'.addr_t = At(data.adr, dm.wcnt)
  BY <1>1, <1>3, <1>4, <1>a, <1>b, Latched, Parts
<1>11. Presented = k /\ Presented' = dm.wcnt
  BY <1>1, <1>2, <1>3, <1>10 DEF Presented
<1>12. TypeOK' /\ Wanted'
  BY <1>1, <1>10, TakeByte, Parts DEF TypeOK, DataInv, Wanted
<1>13. Storing'
  <2>1. \A i \in 0 .. (dm.wcnt - 2) : mem'[At(data.adr, i)] = Byte(data.dat_w, i)
    BY <1>1, <1>3, <1>11, TakeByte
  <2>2. (dm.wcnt + 1) - 1 = dm.wcnt
    BY <1>3
  <2> QED BY <1>1, <1>3, <1>10, <1>11, <2>1, <2>2 DEF Storing
<1>14. Loading'
  BY <1>1 DEF Loading
<1> QED BY <1>1, <1>12, <1>13, <1>14, FetchOn

LEMMA FetchStartRead ==
  ASSUME DataInv, Fetch, data.stb, ~data.we, dm.wcnt = 0
  PROVE  DataInv'
<1>1. /\ phase = "fetch" /\ phase' = phase /\ want' = want /\ data' = data /\ Edge(FALSE, data) /\ ~dm.ack
      /\ ~dm.we1
  BY FetchOn DEF DataInv, AtRest
<1> DEFINE r == StartRead(data)
<1>2. Fsm(FALSE, data) = r
  BY <1>1 DEF Fsm
<1>3. r \in Registers
  <2>1. 1 \in 0 .. 15
    OBVIOUS
  <2> QED BY <2>1, Parts, Assigned DEF StartRead
<1>4. ~r.we1 /\ r.adr0 = data.adr /\ r.wcnt = 1 /\ r.wait_1 /\ ~r.ack
  BY <1>1, Parts DEF StartRead, Registers
<1> HIDE DEF r
<1>5. /\ dm' \in Registers /\ mem' = mem
      /\ ~dm'.we1 /\ dm'.adr0 = data.adr /\ dm'.wcnt = 1 /\ dm'.wait_1 /\ ~dm'.ack
  BY <1>1, <1>2, <1>3, <1>4, Latched, Parts
<1>6. TypeOK' /\ Wanted'
  BY <1>1, <1>5, Parts DEF TypeOK, DataInv, Wanted
<1>7. Loading' /\ Storing'
  BY <1>1, <1>5 DEF Loading, Storing
<1> QED BY <1>5, <1>6, <1>7, FetchOn

LEMMA FetchWaitRead ==
  ASSUME DataInv, Fetch, data.stb, ~data.we, dm.wcnt # 0, dm.wait_1
  PROVE  DataInv'
<1>1. /\ phase = "fetch" /\ phase' = phase /\ want' = want /\ data' = data /\ Edge(FALSE, data) /\ ~dm.ack
      /\ ~dm.we1
  BY FetchOn DEF DataInv, AtRest
<1>2. dm.wcnt = 1 /\ dm.adr0 = data.adr
  BY <1>1, Parts DEF DataInv, Loading
<1>3. /\ At(data.adr, 0) = data.adr /\ Next1(data.adr) = At(data.adr, 1) /\ At(data.adr, 1) \in Addr
      /\ 0 + 1 = 1 /\ 1 - 1 = 0
  <2>1. 0 \in 0 .. Size - 1 /\ 0 + 1 = 1
    BY Room
  <2> QED BY <2>1, NextByte, Parts
<1> DEFINE r == WaitRead
<1>4. Fsm(FALSE, data) = r
  BY <1>1 DEF Fsm
<1>5. r = [dm EXCEPT !.we1 = FALSE, !.wait_1 = FALSE, !.adr0 = At(data.adr, 1)]
  BY <1>2, <1>3, Zenon DEF WaitRead
<1> HIDE DEF r
<1>6. r \in Registers
  BY <1>3, <1>5, Parts, Assigned
<1>7. ~r.we1 /\ r.adr0 = At(data.adr, 1) /\ r.wcnt = 1 /\ ~r.wait_1 /\ ~r.ack
  BY <1>1, <1>2, <1>5, Parts DEF Registers
<1>8. /\ dm' \in Registers /\ mem' = mem
      /\ ~dm'.we1 /\ dm'.adr0 = At(data.adr, 1) /\ dm'.wcnt = 1 /\ ~dm'.wait_1 /\ ~dm'.ack
      /\ dm'.dat_r1 = mem[At(data.adr, 0)]
  BY <1>1, <1>2, <1>3, <1>4, <1>6, <1>7, Latched, Parts
<1>9. TypeOK' /\ Wanted'
  BY <1>1, <1>8, Parts DEF TypeOK, DataInv, Wanted
<1>10. Loading' /\ Storing'
  BY <1>1, <1>3, <1>8 DEF Loading, Storing
<1> QED BY <1>8, <1>9, <1>10, FetchOn

LEMMA FetchReadByte ==
  ASSUME DataInv, Fetch, data.stb, ~data.we, dm.wcnt # 0, ~dm.wait_1
  PROVE  DataInv'
<1>1. /\ phase = "fetch" /\ phase' = phase /\ want' = want /\ data' = data /\ Edge(FALSE, data) /\ ~dm.ack
      /\ ~dm.we1
  BY FetchOn DEF DataInv, AtRest
<1> DEFINE n == dm.wcnt - 1
           last == dm.wcnt = 8
           value == ReadAt(mem, data.adr, dm.wcnt)
           next == IF last THEN data.adr ELSE At(data.adr, dm.wcnt + 1)
           count == IF last THEN 8 ELSE dm.wcnt + 1
<1>2. /\ dm.wcnt \in 1 .. 8 /\ dm.adr0 = At(data.adr, dm.wcnt) /\ dm.dat_r1 = mem[At(data.adr, n)]
      /\ dm.wcnt >= 2 => dm.dat_r8 = ReadAt(mem, data.adr, n)
  BY <1>1, Parts DEF DataInv, Loading
<1>3. n \in 0 .. 7 /\ n + 1 = dm.wcnt /\ dm.wcnt \in 0 .. 8
  BY <1>2
<1>4. ~last => dm.wcnt \in 0 .. Size - 1
  BY <1>2, Room
<1>5. next \in Addr /\ (~last => Next1(dm.adr0) = next)
  BY <1>2, <1>4, NextByte, Parts
<1>6. value \in Word(W64)
  <2>1. value \in Word(dm.wcnt * ByteBits)
    BY <1>3, ReadWidth, Parts
  <2>2. (8 - dm.wcnt) * ByteBits \in Nat /\ dm.wcnt * ByteBits \in Nat
        /\ dm.wcnt * ByteBits + (8 - dm.wcnt) * ByteBits = W64
    BY <1>3, ByteBitsAssumption DEF W64
  <2> DEFINE P == 2^(dm.wcnt * ByteBits)
             Q == 2^((8 - dm.wcnt) * ByteBits)
  <2>3. 2^W64 = P * Q
    BY <2>2, PowerSum
  <2>4. P \in Nat /\ Q \in Nat /\ Q > 0
    <3>1. dm.wcnt * ByteBits \in 0 .. W64 /\ (8 - dm.wcnt) * ByteBits \in 0 .. W64
      <4>1. 8 - dm.wcnt \in 0 .. 8
        BY <1>3
      <4> QED BY <1>3, <4>1, Widths
    <3> QED BY <3>1, Power
  <2>5. P <= P * Q /\ P * Q \in Nat
    <3> HIDE DEF P, Q
    <3> QED BY <2>4
  <2> HIDE DEF P, Q
  <2>6. value \in 0 .. (P - 1)
    BY <2>1 DEF Word, P
  <2>7. value \in 0 .. (P * Q) - 1
    <3> HIDE DEF value
    <3> QED BY <2>4, <2>5, <2>6
  <2> QED BY <2>3, <2>7 DEF Word
<1>7. dm.wcnt = 1 => dm.dat_r1 = value
  <2> SUFFICES ASSUME dm.wcnt = 1 PROVE dm.dat_r1 = ReadAt(mem, data.adr, 1)
    OBVIOUS
  <2>1. 0 \in 0 .. 7 /\ 0 + 1 = 1 /\ 0 * ByteBits = 0 /\ 0 \in 0 .. Size - 1
    BY ByteBitsAssumption, Room
  <2>2. ReadAt(mem, data.adr, 1) = 0 + mem[At(data.adr, 0)] * 2^0
    BY <2>1, ReadMore, Parts
  <2>3. mem[At(data.adr, 0)] \in Int
    BY <2>1, Offsets, Parts, Widths, Power DEF Word
  <2>4. n = 0
    OBVIOUS
  <2> QED BY <1>2, <2>2, <2>3, <2>4, Power
<1>8. dm.wcnt >= 2 => PutByte(dm.dat_r8, n, dm.dat_r1) = value
  BY <1>2, <1>3, ReadNext, Parts
<1> DEFINE r == ReadByte(data)
<1>9. Fsm(FALSE, data) = r
  BY <1>1 DEF Fsm
<1>10. r = [dm EXCEPT !.we1 = FALSE, !.dat_r8 = value, !.adr0 = next, !.wcnt = count, !.ack = last]
  <2>1. /\ (IF dm.wcnt = 1 THEN dm.dat_r1
             ELSE IF dm.wcnt <= 8 THEN PutByte(dm.dat_r8, dm.wcnt - 1, dm.dat_r1) ELSE dm.dat_r8) = value
        /\ (IF dm.wcnt = 8 THEN data.adr ELSE Next1(dm.adr0)) = next
        /\ (IF dm.wcnt = 8 THEN dm.wcnt ELSE (dm.wcnt + 1) % 16) = count
    <3> HIDE DEF value
    <3> QED BY <1>2, <1>5, <1>7, <1>8
  <2> HIDE DEF value, next, count
  <2> QED BY <2>1, Zenon DEF ReadByte
<1>11. count \in 0 .. 15 /\ last \in BOOLEAN
  BY <1>2
<1>12. r \in Registers
  <2> HIDE DEF value, last, next, count, r
  <2> QED BY <1>5, <1>6, <1>10, <1>11, Parts, Assigned
<1>13. ~r.we1 /\ r.dat_r8 = value /\ r.adr0 = next /\ r.wcnt = count /\ (r.ack <=> last) /\ ~r.wait_1
  <2> HIDE DEF value, last, next, count, r
  <2> QED BY <1>10, Parts DEF Registers
<1> HIDE DEF r
<1>14. /\ dm' \in Registers /\ mem' = mem
       /\ ~dm'.we1 /\ dm'.dat_r8 = value /\ dm'.adr0 = next /\ dm'.wcnt = count /\ (dm'.ack <=> last)
       /\ ~dm'.wait_1 /\ dm'.dat_r1 = mem[At(data.adr, dm.wcnt)]
  BY <1>1, <1>2, <1>9, <1>12, <1>13, Latched, Parts
<1>15. TypeOK' /\ Wanted'
  BY <1>1, <1>14, Parts DEF TypeOK, DataInv, Wanted
<1>16. Loading'
  <2>1. CASE last
    BY <1>1, <1>14, <2>1 DEF Loading
  <2>2. CASE ~last
    <3>1. dm'.wcnt = dm.wcnt + 1 /\ dm'.wcnt - 1 = dm.wcnt /\ dm'.wcnt <= 8 /\ dm'.adr0 = At(data.adr, dm'.wcnt)
      BY <1>2, <1>14, <2>2
    <3> QED BY <1>1, <1>14, <2>2, <3>1 DEF Loading
  <2> QED BY <2>1, <2>2
<1>17. Storing'
  BY <1>1 DEF Storing
<1> QED BY <1>14, <1>15, <1>16, <1>17, FetchOn

LEMMA FetchStep ==
  ASSUME DataInv, Fetch
  PROVE  DataInv'
BY FetchFirst, FetchStartWrite, FetchWriteByte, FetchStartRead, FetchWaitRead, FetchReadByte

\* The last byte of a store goes in on the edge that sees ack.
LEMMA Landed ==
  ASSUME DataInv, phase = "fetch", dm.ack, data.we, Edge(FALSE, data)
  PROVE  mem' = want
<1>1. data.stb /\ data.ww \in {1, 2, 4, 8} /\ data.ww \in 0 .. 8
  BY DEF DataInv, AtRest
<1>2. dm.write_complete_flag /\ Presented = data.ww
  BY <1>1 DEF DataInv, Storing, Presented
<1>3. /\ mem' \in [Addr -> Word(ByteBits)]
      /\ WriteAt(mem', data.adr, data.ww, data.dat_w) = WriteAt(mem, data.adr, data.ww, data.dat_w)
      /\ \A i \in 0 .. data.ww - 1 : mem'[At(data.adr, i)] = Byte(data.dat_w, i)
  BY <1>1, <1>2, TakeByte
<1>4. WriteAt(mem', data.adr, data.ww, data.dat_w) = mem'
  BY <1>1, <1>3, WriteDone, Parts
<1> QED BY <1>3, <1>4 DEF DataInv, Wanted

\* stb and we fall, and the address stays for the second decode.
LEMMA AckTaken ==
  ASSUME DataInv, phase = "fetch", dm.ack, Edge(FALSE, data),
         data' \in Ports, ~data'.stb, ~data'.we, data'.adr = data.adr,
         phase' = (IF data.we THEN "stored" ELSE "loaded"), want' = want
  PROVE  DataInv'
<1>1. /\ phase = "fetch" /\ dm.ack /\ Edge(FALSE, data)
      /\ phase' = (IF data.we THEN "stored" ELSE "loaded") /\ want' = want
  OBVIOUS
<1>2. data' \in Ports /\ ~data'.stb /\ ~data'.we /\ data'.adr = data.adr
  OBVIOUS
<1>3. data.stb
  BY <1>1 DEF DataInv, AtRest
<1>4. data.we => dm.write_complete_flag /\ dm.we1
  BY <1>1, <1>3 DEF DataInv, Storing
<1> DEFINE r == AfterAck(data)
<1>5. Fsm(FALSE, data) = r
  BY <1>1, <1>3, <1>4 DEF Fsm
<1>6. r \in Registers /\ ~r.we1 /\ r.dat_r8 = dm.dat_r8
  BY Parts DEF AfterAck, Registers
<1> HIDE DEF r
<1>7. dm' \in Registers /\ ~dm'.we1 /\ dm'.dat_r8 = dm.dat_r8 /\ mem' \in [Addr -> Word(ByteBits)]
  BY <1>1, <1>5, <1>6, Latched, Parts
<1>8. TypeOK'
  BY <1>1, <1>2, <1>7 DEF TypeOK
<1>9. AtRest' /\ Storing' /\ Loading' /\ NoStaleAck'
  BY <1>1, <1>2, <1>7 DEF AtRest, Storing, Loading, NoStaleAck
<1>10. CASE data.we
  <2>1. mem' = want /\ want \in [Addr -> Word(ByteBits)]
    BY <1>1, <1>10, Landed DEF DataInv, Wanted
  <2>2. Wanted'
    BY <1>1, <1>2, <2>1 DEF Wanted
  <2>3. ReadsWhatIsThere'
    BY <1>1, <1>10 DEF ReadsWhatIsThere
  <2> QED BY <1>8, <1>9, <2>2, <2>3 DEF DataInv
<1>11. CASE ~data.we
  <2>1. mem' = mem
    <3>1. ~dm.we1
      BY <1>11 DEF DataInv, AtRest
    <3> QED BY <1>1, <3>1 DEF Edge, MemWrite
  <2>2. Wanted'
    BY <1>1, <1>2, <1>11, <2>1 DEF DataInv, Wanted
  <2>3. ReadsWhatIsThere'
    BY <1>1, <1>2, <1>3, <1>7, <1>11, <2>1 DEF DataInv, Loading, ReadsWhatIsThere
  <2> QED BY <1>8, <1>9, <2>2, <2>3 DEF DataInv
<1> QED BY <1>10, <1>11, Parts

LEMMA AckedStep ==
  ASSUME DataInv, Acked
  PROVE  DataInv'
<1>1. data' = [data EXCEPT !.stb = FALSE, !.we = FALSE]
  BY DEF Acked
<1>2. data' \in Ports /\ ~data'.stb /\ ~data'.we /\ data'.adr = data.adr
  BY <1>1, Parts DEF Ports
<1> QED BY <1>2, AckTaken DEF Acked

LEMMA ResetStep ==
  ASSUME DataInv, Reset
  PROVE  DataInv'
<1>1. Edge(TRUE, data) /\ data' = NoAccess /\ phase' = "idle" /\ want' = mem'
  BY DEF Reset
<1>2. 0 \in Word(W64) /\ 0 \in Word(ByteBits) /\ 0 \in Addr /\ 0 \in 0 .. 15
  BY ZeroWord, Widths, AddrBitsAssumption DEF Addr
<1> DEFINE r == ResetRegs
<1>3. r \in Registers
  BY <1>2, Parts, Assigned DEF ResetRegs
<1>4. ~r.ack /\ ~r.we1
  BY Parts DEF ResetRegs, Registers
<1>5. dm' = [r EXCEPT !.dat_r1 = dm.dat_r1] /\ mem' = mem
  BY <1>1, Zenon DEF Edge, Fsm, MemRead, MemWrite
<1> HIDE DEF r
<1>6. dm' \in Registers /\ ~dm'.ack /\ ~dm'.we1
  BY <1>3, <1>4, <1>5, Parts DEF Registers
<1>7. data' \in Ports /\ ~data'.stb
  BY <1>1, NoAccessType DEF NoAccess
<1>8. TypeOK' /\ Wanted'
  BY <1>1, <1>5, <1>6, <1>7, Parts DEF TypeOK, Wanted
<1> QED BY <1>1, <1>6, <1>7, <1>8 DEF DataInv, Storing, Loading, AtRest, ReadsWhatIsThere, NoStaleAck

LEMMA DataStep == DataInv /\ [Next]_vars => DataInv'
<1> SUFFICES ASSUME DataInv, [Next]_vars PROVE DataInv'
  OBVIOUS
<1>1. CASE Complete \/ Elsewhere
  <2>1. /\ phase # "fetch" /\ phase' = "idle" /\ data' = data /\ want' = want /\ Edge(FALSE, data)
        /\ ~data.stb /\ data \in Ports
    BY <1>1, Parts DEF Complete, Elsewhere, DataInv, AtRest
  <2> QED BY <2>1, StayAtRest
<1>2. CASE UNCHANGED vars
  BY <1>2 DEF vars, DataInv, TypeOK, Storing, Presented, Loading, AtRest, Wanted, ReadsWhatIsThere, NoStaleAck
<1> QED BY <1>1, <1>2, PrepareStep, FetchStep, AckedStep, ResetStep DEF Next

-----------------------------------------------------------------------------

\* The registers of the FSM, the bytes and the ports always hold values of their widths
\* (ram_module_v3.v 114-286).
THEOREM DataTyped == Spec => []TypeOK
<1>1. DataInv => TypeOK
  BY DEF DataInv
<1> QED BY <1>1, DataInit, DataStep, PTL DEF Spec

\* A load returns the eight bytes at its address, wrapped around the end of the memory,
\* for every width and size (ram_module_v3.v 180-243, 284).
THEOREM LoadsReturn == Spec => []ReadsWhatIsThere
<1>1. DataInv => ReadsWhatIsThere
  BY DEF DataInv
<1> QED BY <1>1, DataInit, DataStep, PTL DEF Spec

\* Every store that was started is in the memory once it is over, all its bytes and no
\* others, the one presented with ack included (ram_module_v3.v 168-181, 276-277).
THEOREM EveryStoreLands == Spec => []StoresLand
<1>1. DataInv => StoresLand
  BY DEF DataInv, Wanted, StoresLand
<1> QED BY <1>1, DataInit, DataStep, PTL DEF Spec

\* The answer to one access is down before the next one starts (ram_module_v3.v 238-239), so
\* that STATE_DATA_FETCH (cpu.v 2256) never takes it for its own.
THEOREM AnswersFall == Spec => []NoStaleAck
<1>1. DataInv => NoStaleAck
  BY DEF DataInv
<1> QED BY <1>1, DataInit, DataStep, PTL DEF Spec

\* A byte changes only when it is the byte presented.
LEMMA OnlyPresented ==
  ASSUME DataInv, [Next]_vars, NEW a \in Addr, mem'[a] # mem[a]
  PROVE  /\ phase = "fetch"
         /\ (a - data.adr) % 2^AddrBits < data.ww
         /\ mem'[a] = Byte(data.dat_w, (a - data.adr) % 2^AddrBits)
<1>1. mem' # mem
  OBVIOUS
<1>2. mem' = [mem EXCEPT ![dm.adr0] = dm.dat_w1] /\ dm.we1
  BY <1>1 DEF Next, Prepare, Fetch, Acked, Complete, Elsewhere, Reset, Edge, MemWrite, vars
<1>3. phase = "fetch" /\ data.stb /\ data.we /\ data.ww \in {1, 2, 4, 8}
  BY <1>2 DEF DataInv, AtRest
<1>4. a = dm.adr0 /\ mem'[a] = dm.dat_w1
  BY <1>2, Parts
<1> DEFINE j == Presented - 1
<1>5. Presented \in 1 .. data.ww /\ a = At(data.adr, j) /\ mem'[a] = Byte(data.dat_w, j)
  BY <1>2, <1>3, <1>4 DEF DataInv, Storing
<1>6. j \in 0 .. Size - 1 /\ j < data.ww
  BY <1>3, <1>5, Room
<1>7. Distance(data.adr, a) = j
  BY <1>5, <1>6, Offsets, Parts
<1> QED BY <1>3, <1>5, <1>6, <1>7 DEF Distance, Size

\* A store, even one a reset cuts short, changes only bytes of its own range, and only to
\* the values it asks for (ram_module_v3.v 133-179, 268-277).
THEOREM StoresStayInRange == Spec => InRange
<1>1. DataInv /\ [Next]_vars =>
        [\A a \in Addr : mem'[a] # mem[a] =>
           /\ phase = "fetch"
           /\ (a - data.adr) % 2^AddrBits < data.ww
           /\ mem'[a] = Byte(data.dat_w, (a - data.adr) % 2^AddrBits)]_vars
  BY OnlyPresented
<1> QED BY <1>1, DataInit, DataStep, PTL DEF Spec, InRange
=============================================================================
