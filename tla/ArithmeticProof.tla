---------------------------- MODULE ArithmeticProof ---------------------------
(***************************************************************************)
(* The divider answers every request correctly, for every data_width, and  *)
(* the ALU gives what the reference interpreter gives, for every width of  *)
(* a byte and all operands outside the known divergences.                  *)
(*                                                                         *)
(* AnswerCorrect is not inductive: it says nothing of the states between   *)
(* the request and the answer.  Progress is the loop invariant of the      *)
(* restoring division that fills the gap, and IInv adds the types.         *)
(***************************************************************************)
EXTENDS Divider, Datapath, WordsProof, TLAPS

\* Splitting off the top bit: with quo = low * Q + q and 2 * P1 * Q values in all,
\* the top bit of quo is the top bit of low.
LEMMA TopBitSplit ==
  ASSUME NEW P1 \in Nat \ {0}, NEW Q \in Nat \ {0},
         NEW low \in Nat, low < 2 * P1, NEW q \in Nat, q < Q
  PROVE  (low * Q + q >= P1 * Q) <=> (low >= P1)
<1>1. CASE low >= P1
  <2>1. low * Q >= P1 * Q
    BY <1>1
  <2> QED BY <1>1, <2>1
<1>2. CASE low < P1
  <2>1. (low + 1) * Q <= P1 * Q
    <3>1. low + 1 <= P1 BY <1>2
    <3> QED BY <3>1
  <2>2. (low + 1) * Q = low * Q + Q
    OBVIOUS
  <2>3. low * Q \in Nat /\ P1 * Q \in Nat
    OBVIOUS
  <2> QED BY <1>2, <2>1, <2>2, <2>3
<1> QED BY <1>1, <1>2

\* Doubling quo modulo 2 * P1 * Q drops the top bit t of low and makes room for one
\* more quotient bit.
LEMMA DoubleDropsTop ==
  ASSUME NEW P1 \in Nat \ {0}, NEW Q \in Nat \ {0}, NEW t \in {0, 1},
         NEW rest \in Nat, rest < P1, NEW q \in Nat, q < Q
  PROVE  (2 * ((t * P1 + rest) * Q + q)) % (2 * P1 * Q) = rest * (2 * Q) + 2 * q
<1> DEFINE M == 2 * P1 * Q
           v == rest * (2 * Q) + 2 * q
<1>1. M \in Nat \ {0} /\ v \in Nat
  OBVIOUS
<1>2. v < M
  <2>1. (rest + 1) * (2 * Q) <= P1 * (2 * Q)
    <3>1. rest + 1 <= P1 OBVIOUS
    <3> QED BY <3>1
  <2>2. (rest + 1) * (2 * Q) = rest * (2 * Q) + 2 * Q
    OBVIOUS
  <2>3. P1 * (2 * Q) = M
    OBVIOUS
  <2>4. rest * (2 * Q) \in Nat
    OBVIOUS
  <2> QED BY <2>1, <2>2, <2>3, <2>4
<1>3. 2 * ((t * P1 + rest) * Q + q) = M * t + v
  <2>1. CASE t = 0 BY <2>1
  <2>2. CASE t = 1 BY <2>2
  <2> QED BY <2>1, <2>2
<1>4. \A x, y \in Nat, m \in Nat \ {0} : y < m => (m * x + y) % m = y
  OBVIOUS
<1>5. (M * t + v) % M = v
  <2> HIDE DEF M, v
  <2> QED BY <1>1, <1>2, <1>4
<1> QED BY <1>3, <1>5

\* What one iteration does to the operands' relation.
LEMMA DividendKept ==
  \A P1, d, q, rem, rest \in Nat, t \in {0, 1} :
    /\ (q * d + rem) * (2 * P1) + (t * P1 + rest)
         = ((2 * q) * d + (2 * rem + t)) * P1 + rest
    /\ (q * d + rem) * (2 * P1) + (t * P1 + rest)
         = ((2 * q + 1) * d + ((2 * rem + t) - d)) * P1 + rest
<1> TAKE P1, d, q, rem, rest \in Nat, t \in {0, 1}
<1>1. (q * d + rem) * (2 * P1) + (t * P1 + rest) = ((2 * q) * d + (2 * rem + t)) * P1 + rest
  <2>1. CASE t = 0 BY <2>1
  <2>2. CASE t = 1 BY <2>2
  <2> QED BY <2>1, <2>2
<1>2. (2 * q + 1) * d + ((2 * rem + t) - d) = (2 * q) * d + (2 * rem + t)
  <2>1. CASE t = 0 BY <2>1
  <2>2. CASE t = 1 BY <2>2
  <2> QED BY <2>1, <2>2
<1> QED BY <1>1, <1>2

\* A relation a = q * b + v with v < b determines the quotient and the remainder.
LEMMA DivModUnique ==
  ASSUME NEW b \in Nat \ {0}, NEW q \in Nat, NEW v \in Nat, v < b
  PROVE  (q * b + v) \div b = q /\ (q * b + v) % b = v
OBVIOUS
LEMMA ModSmall ==
  ASSUME NEW m \in Nat \ {0}, NEW x \in Nat, x < m
  PROVE  x % m = x
OBVIOUS

-----------------------------------------------------------------------------

USE WidthAssumption, NoRequestAssumption

\* The powers of two the invariant mentions.
LEMMA Powers ==
  /\ 2^data_width \in Nat \ {0}
  /\ 2^(data_width + 1) = 2 * 2^data_width
  /\ 2^(data_width - 1) \in Nat \ {0}
  /\ 2^data_width = 2 * 2^(data_width - 1)
  /\ data_width < 2^(data_width + 1)
PROOF
<1>1. data_width \in 0 .. data_width /\ data_width - 1 \in 0 .. data_width
  OBVIOUS
<1>2. (data_width - 1) + 1 = data_width
  OBVIOUS
<1> QED BY <1>1, <1>2, PowerAssumption

\* Reset, both kinds of request and waiting with ack high establish or keep IInv.
LEMMA InitIInv == Init => IInv
BY Powers DEF Init, IInv, TypeOK, Progress, ZeroProgress, ResetRegs, Registers, Data

LEMMA ResetIInv == Reset => IInv'
<1>1. Reset => div' = ResetRegs /\ asked' = NoRequest
  BY DEF Reset, Edge
<1>2. ResetRegs \in Registers
  BY Powers DEF ResetRegs, Registers, Data
<1> QED BY <1>1, <1>2 DEF IInv, TypeOK, Progress, ZeroProgress

LEMMA RequestIInv ==
  ASSUME IInv, NEW a \in Data, NEW b \in Data, Request(a, b)
  PROVE  IInv'
<1> a \in Nat /\ b \in Nat /\ a < 2^data_width
  BY Powers DEF Data
<1>1. asked' = <<a, b>> /\ asked' # NoRequest /\ asked'[1] = a /\ asked'[2] = b
  BY DEF Request
<1>2. CASE b = 0
  <2>1. RejectZero
    BY <1>2 DEF Request, Edge
  <2>2. TypeOK'
    BY <1>1, <2>1, Powers DEF IInv, TypeOK, RejectZero, Registers, Data
  <2>3. ZeroProgress'
    BY <2>1 DEF IInv, TypeOK, RejectZero, Registers, ZeroProgress, ack
  <2> QED BY <1>1, <1>2, <2>2, <2>3 DEF IInv, Progress
<1>3. CASE b # 0
  <2>1. Load(a, b)
    BY <1>3 DEF Request, Edge
  <2>2. TypeOK'
    BY <1>1, <2>1, Powers DEF IInv, TypeOK, Load, Registers, Data
  <2>3. 2^(data_width - data_width) = 1
    BY PowerAssumption
  <2>4. Progress'
    <3>1. div'.counter = data_width /\ div'.rem = 0 /\ div'.quo = a /\ div'.divisor_r = b
          /\ div'.err = FALSE
      BY <2>1 DEF Load
    <3>2. a \in 0 .. (2^div'.counter - 1) /\ 0 \in 0 .. (2^(data_width - div'.counter) - 1)
      BY <2>3, <3>1, Powers
    <3>3. /\ div'.quo = a * 2^(data_width - div'.counter) + 0
          /\ asked'[1] = (0 * div'.divisor_r + div'.rem) * 2^div'.counter + a
      BY <1>1, <2>3, <3>1, Powers
    <3> QED BY <1>1, <1>3, <3>1, <3>2, <3>3 DEF Progress
  <2> QED BY <1>1, <1>3, <2>2, <2>4 DEF IInv, ZeroProgress
<1> QED BY <1>2, <1>3

\* The types of one iteration: both halves stay within data_width bits.
LEMMA IterateTyped ==
  ASSUME div \in Registers, ~ack, Iterate
  PROVE  div' \in Registers
<1> DEFINE M == 2^data_width
<1>1. M \in Nat \ {0} /\ M = 2 * 2^(data_width - 1) /\ 2^(data_width - 1) \in Nat \ {0}
  BY Powers
<1>2. div.quo \in Nat /\ div.quo < M /\ div.rem \in Nat /\ div.divisor_r \in Nat
      /\ div.counter \in 1 .. (2^(data_width + 1) - 1)
  BY <1>1, Powers DEF Registers, Data, ack
<1>3. Partial \in Nat
  BY <1>2 DEF Partial, TopBit
<1>4. \A x \in Int : x % M \in 0 .. (M - 1)
  <2> HIDE DEF M
  <2> QED BY <1>1
<1>5. \A b \in {0, 1} : ShiftIn(b) \in 0 .. (M - 1)
  <2>1. \E h \in Nat : (2 * div.quo) % M = 2 * h /\ 2 * h < M
    <3>1. CASE 2 * div.quo < M
      <4>1. (2 * div.quo) % M = 2 * div.quo
        <5> HIDE DEF M
        <5> QED BY <1>1, <1>2, <3>1
      <4> QED BY <1>2, <3>1, <4>1
    <3>2. CASE 2 * div.quo >= M
      <4> DEFINE h == div.quo - 2^(data_width - 1)
      <4>1. h \in Nat /\ 2 * div.quo = M + 2 * h /\ 2 * h < M
        BY <1>1, <1>2, <3>2
      <4>2. (M + 2 * h) % M = 2 * h
        <5> HIDE DEF M, h
        <5> QED BY <1>1, <4>1
      <4> QED BY <4>1, <4>2
    <3> QED BY <1>1, <1>2, <3>1, <3>2
  <2>2. PICK h \in Nat : (2 * div.quo) % M = 2 * h /\ 2 * h < M
    BY <2>1
  <2> QED BY <1>1, <2>2 DEF ShiftIn
<1>6. div' \in Registers
  <2>1. (IF Borrow THEN Partial ELSE Partial - div.divisor_r) \in Int
    BY <1>2, <1>3
  <2>2. (IF Borrow THEN Partial ELSE Partial - div.divisor_r) % M \in Data
    BY <1>4, <2>1 DEF Data
  <2>3. ShiftIn(IF Borrow THEN 0 ELSE 1) \in Data
    BY <1>5 DEF Data
  <2> QED BY <1>2, <2>2, <2>3 DEF Registers, Iterate
<1> QED BY <1>6

\* And of any edge with words on the inputs.
LEMMA DividerTyped ==
  ASSUME div \in Registers, NEW reset_n, NEW stb, NEW a \in Data, NEW b \in Data,
         Edge(reset_n, stb, a, b)
  PROVE  div' \in Registers
<1>1. ResetRegs \in Registers
  BY Powers DEF ResetRegs, Registers, Data
<1>2. CASE RejectZero
  BY <1>2, Powers DEF RejectZero, Registers, Data
<1>3. CASE Load(a, b)
  BY <1>3, Powers DEF Load, Registers, Data
<1>4. CASE ~ack /\ Iterate
  BY <1>4, IterateTyped
<1> QED BY <1>1, <1>2, <1>3, <1>4 DEF Edge

\* One iteration with k bits left: the two lemmas on the top bit, applied.
LEMMA IterateProgress ==
  ASSUME IInv, ~ack, Iterate, UNCHANGED asked,
         asked # NoRequest, asked[2] # 0
  PROVE  Progress'
<1> DEFINE M == 2^data_width
           k == div.counter
           d == div.divisor_r
           P1 == 2^(k - 1)
           Q == 2^(data_width - k)
           b == IF Borrow THEN 0 ELSE 1
<1>1. /\ div \in Registers
      /\ d = asked[2] /\ d \in Nat \ {0} /\ d < M
      /\ k \in 1 .. data_width
      /\ div.rem \in Nat /\ div.rem < d
      /\ ~div.err
  BY Powers DEF IInv, TypeOK, Progress, Registers, Data, ack
<1>2. /\ P1 \in Nat \ {0} /\ Q \in Nat \ {0} /\ M \in Nat \ {0}
      /\ 2^k = 2 * P1
      /\ 2^(data_width - (k - 1)) = 2 * Q
      /\ M = 2 * P1 * Q
      /\ 2^(data_width - 1) = P1 * Q
  <2>1. /\ k \in 0 .. data_width /\ k - 1 \in 0 .. data_width
        /\ data_width - k \in 0 .. data_width
        /\ (k - 1) + 1 = k /\ (data_width - k) + 1 = data_width - (k - 1)
    BY <1>1
  <2>2. P1 \in Nat \ {0} /\ Q \in Nat \ {0} /\ M \in Nat \ {0} /\ 2^k = 2 * P1
        /\ 2^(data_width - (k - 1)) = 2 * Q
    BY <2>1, PowerAssumption, Powers
  <2>3. M = 2 * P1 * Q
    <3>1. M = 2^k * Q
      BY <2>1, PowerAssumption
    <3> QED BY <2>2, <3>1
  <2>4. M = 2 * 2^(data_width - 1) /\ 2^(data_width - 1) \in Nat
    BY Powers
  <2> HIDE DEF M, P1, Q
  <2> QED BY <2>2, <2>3, <2>4
<1>3. PICK low \in 0 .. (2^k - 1), q \in 0 .. (Q - 1) :
        /\ div.quo = low * Q + q
        /\ asked[1] = (q * d + div.rem) * 2^k + low
  BY DEF IInv, Progress
<1>4. low \in Nat /\ low < 2 * P1 /\ q \in Nat /\ q < Q
  <2> HIDE DEF P1, Q
  <2> QED BY <1>2, <1>3
<1> DEFINE t == TopBit(div.quo)
           rest == low - t * P1
<1>5. t \in {0, 1} /\ rest \in Nat /\ rest < P1 /\ low = t * P1 + rest
  <2>1. (div.quo >= P1 * Q) <=> (low >= P1)
    <3> HIDE DEF P1, Q
    <3> QED BY <1>2, <1>3, <1>4, TopBitSplit
  <2>2. t = IF div.quo >= P1 * Q THEN 1 ELSE 0
    BY <1>2 DEF TopBit
  <2> HIDE DEF P1, Q, t
  <2>3. CASE low >= P1
    BY <1>2, <1>4, <2>1, <2>2, <2>3
  <2>4. CASE low < P1
    BY <1>2, <1>4, <2>1, <2>2, <2>4
  <2> QED BY <1>2, <1>4, <2>3, <2>4
<1>6. Partial = 2 * div.rem + t /\ Partial \in Nat
  BY <1>1, <1>5 DEF Partial
<1>7. ShiftIn(b) = rest * (2 * Q) + (2 * q + b)
  <2>1. (2 * div.quo) % M = rest * (2 * Q) + 2 * q
    <3> HIDE DEF P1, Q, t, rest, M
    <3>1. (2 * ((t * P1 + rest) * Q + q)) % (2 * P1 * Q) = rest * (2 * Q) + 2 * q
      BY <1>2, <1>4, <1>5, DoubleDropsTop
    <3> QED BY <1>2, <1>3, <1>5, <3>1
  <2>2. ShiftIn(b) = ((2 * div.quo) % M) + b
    BY DEF ShiftIn
  <2>3. rest * (2 * Q) \in Nat /\ b \in {0, 1}
    <3> HIDE DEF P1, Q, t, rest
    <3> QED BY <1>2, <1>5
  <2> HIDE DEF P1, Q, t, rest, b, M
  <2> QED BY <1>4, <2>1, <2>2, <2>3
<1>8. LET v == IF Borrow THEN Partial ELSE Partial - d
      IN  /\ v \in Nat /\ v < d /\ v % M = v
          /\ asked[1] = ((2 * q + b) * d + v) * P1 + rest
  <2>1. /\ asked[1] = ((2 * q) * d + Partial) * P1 + rest
        /\ asked[1] = ((2 * q + 1) * d + (Partial - d)) * P1 + rest
    <3> HIDE DEF P1, Q, t, rest, d
    <3>1. asked[1] = (q * d + div.rem) * (2 * P1) + (t * P1 + rest)
      BY <1>2, <1>3, <1>5
    <3>2. d \in Nat /\ div.rem \in Nat /\ P1 \in Nat
      BY <1>1, <1>2
    <3>3. q \in Nat /\ rest \in Nat /\ t \in {0, 1}
      BY <1>4, <1>5
    <3>4. PICK p, e, v, s \in Nat, u \in {0, 1} :
            p = P1 /\ e = d /\ v = div.rem /\ s = rest /\ u = t
      BY <3>2, <3>3
    <3>5. /\ (q * e + v) * (2 * p) + (u * p + s) = ((2 * q) * e + (2 * v + u)) * p + s
          /\ (q * e + v) * (2 * p) + (u * p + s)
               = ((2 * q + 1) * e + ((2 * v + u) - e)) * p + s
      BY <3>3, DividendKept
    <3> QED BY <1>6, <3>1, <3>4, <3>5, Zenon
  <2>2. CASE Borrow
    <3>1. Partial < d
      BY <2>2 DEF Borrow
    <3>2. Partial % M = Partial
      <4> HIDE DEF M, d
      <4>1. Partial < M BY <1>1, <1>2, <1>6, <3>1
      <4> QED BY <1>2, <1>6, <4>1, ModSmall
    <3> QED BY <1>6, <2>1, <2>2, <3>1, <3>2
  <2>3. CASE ~Borrow
    <3>1. Partial - d \in Nat /\ Partial - d < d
      BY <1>1, <1>5, <1>6, <2>3 DEF Borrow
    <3>2. (Partial - d) % M = Partial - d
      <4> HIDE DEF M, d
      <4>1. Partial - d < M BY <1>1, <1>2, <3>1
      <4> QED BY <1>2, <3>1, <4>1, ModSmall
    <3> QED BY <2>1, <2>3, <3>1, <3>2
  <2> QED BY <2>2, <2>3
<1>9. /\ div'.counter = k - 1 /\ div'.divisor_r = d /\ div'.err = div.err
      /\ div'.rem = (IF Borrow THEN Partial ELSE Partial - d) % M
      /\ div'.quo = ShiftIn(b)
  BY DEF Iterate
<1>10. rest \in 0 .. (2^div'.counter - 1) /\ 2 * q + b \in 0 .. (2^(data_width - div'.counter) - 1)
  <2>1. 2^div'.counter = P1 /\ 2^(data_width - div'.counter) = 2 * Q
    BY <1>2, <1>9
  <2>2. b \in {0, 1}
    OBVIOUS
  <2> HIDE DEF P1, Q, rest, b
  <2> QED BY <1>2, <1>4, <1>5, <2>1, <2>2
<1>11. /\ div'.quo = rest * 2^(data_width - div'.counter) + (2 * q + b)
       /\ asked'[1] = ((2 * q + b) * div'.divisor_r + div'.rem) * 2^div'.counter + rest
  BY <1>2, <1>7, <1>8, <1>9
<1> QED BY <1>1, <1>8, <1>9, <1>10, <1>11 DEF Progress

LEMMA WaitIInv == IInv /\ Wait => IInv'
<1> SUFFICES ASSUME IInv, Wait PROVE IInv'
  OBVIOUS
<1>1. CASE ack
  <2>1. UNCHANGED <<div, asked>>
    BY <1>1 DEF Wait, Edge
  <2> QED BY <2>1 DEF IInv, TypeOK, Progress, ZeroProgress, ack
<1>2. CASE ~ack
  <2>1. Iterate /\ UNCHANGED asked
    BY <1>2 DEF Wait, Edge
  <2>2. TypeOK'
    BY <1>2, <2>1, IterateTyped DEF IInv, TypeOK
  <2>3. ZeroProgress'
    BY <1>2, <2>1 DEF IInv, ZeroProgress
  <2>4. Progress'
    <3>1. CASE asked # NoRequest /\ asked[2] # 0
      BY <1>2, <2>1, <3>1, IterateProgress
    <3>2. CASE ~(asked # NoRequest /\ asked[2] # 0)
      BY <2>1, <3>2 DEF Progress
    <3> QED BY <3>1, <3>2
  <2> QED BY <2>2, <2>3, <2>4 DEF IInv
<1> QED BY <1>1, <1>2

\* With no bits left the loop invariant is the definition of division.
LEMMA IInvAnswer == IInv => AnswerCorrect
<1> SUFFICES ASSUME IInv, asked # NoRequest, ack
             PROVE  LET a == asked[1]
                        b == asked[2]
                    IN IF b = 0 THEN div.err /\ div.quo = 0 /\ div.rem = 0
                       ELSE ~div.err /\ div.quo = a \div b /\ div.rem = a % b
  BY DEF AnswerCorrect
<1>1. CASE asked[2] = 0
  BY <1>1 DEF IInv, ZeroProgress
<1>2. CASE asked[2] # 0
  <2>1. div.counter = 0 /\ 2^div.counter = 1
    BY PowerAssumption DEF ack
  <2>2. PICK low \in 0 .. (2^div.counter - 1),
             q \in 0 .. (2^(data_width - div.counter) - 1) :
          /\ div.quo = low * 2^(data_width - div.counter) + q
          /\ asked[1] = (q * div.divisor_r + div.rem) * 2^div.counter + low
    BY <1>2 DEF IInv, Progress
  <2>3. 2^(data_width - div.counter) = 2^data_width /\ 2^data_width \in Nat
    BY <2>1, Powers
  <2>4. /\ div.divisor_r = asked[2] /\ asked[2] \in Nat \ {0}
        /\ div.rem \in Nat /\ div.rem < asked[2] /\ ~div.err
    BY <1>2, <2>3 DEF IInv, TypeOK, Registers, Data, Progress
  <2>5. low = 0 /\ q \in Nat /\ div.quo = q
    BY <2>1, <2>2, <2>3
  <2>6. asked[1] = q * asked[2] + div.rem
    BY <2>1, <2>2, <2>4, <2>5
  <2>7. (q * asked[2] + div.rem) \div asked[2] = q /\ (q * asked[2] + div.rem) % asked[2] = div.rem
    BY <2>4, <2>5, DivModUnique, Zenon
  <2> QED BY <1>2, <2>4, <2>5, <2>6, <2>7
<1> QED BY <1>1, <1>2

LEMMA IInvStep == IInv /\ [Next]_vars => IInv'
<1> SUFFICES ASSUME IInv, [Next]_vars PROVE IInv'
  OBVIOUS
<1>1. CASE Reset BY <1>1, ResetIInv
<1>2. ASSUME NEW a \in Data, NEW b \in Data, Request(a, b) PROVE IInv'
  BY <1>2, RequestIInv
<1>3. CASE Wait BY <1>3, WaitIInv
<1>4. CASE UNCHANGED vars
  BY <1>4 DEF vars, IInv, TypeOK, Progress, ZeroProgress, ack
<1> QED BY <1>1, <1>2, <1>3, <1>4 DEF Next

\* At every edge of a division quo and rem are what a restoring division has at that
\* point: the dividend's bits not yet used, the quotient's found so far, and a remainder
\* less than the divisor (divider.v 36-57).
THEOREM DividerProgress == Spec => []IInv
BY InitIInv, IInvStep, PTL DEF Spec

\* divider.v answers every request with the quotient and the remainder of its
\* operands, for every width, whenever it was asked and whatever it was doing
\* then (divider.v 28-59).
THEOREM DividerCorrect == Spec => []AnswerCorrect
BY DividerProgress, IInvAnswer, PTL

-----------------------------------------------------------------------------
(* The ALU.  What the invariants about it start from: the operands are     *)
(* words, and the instruction is one the ALU decodes.                      *)

Operands ==
  /\ r \in [0 .. 10 -> Word(W64)]
  /\ i # NoWord => /\ i.op \in Opcodes /\ i.imm \in Word(W32)
                   /\ i.src \in 0 .. 10 /\ i.dst \in 0 .. 10

LEMMA RefInst == Ref!inst = i
<1>1. 2^1 = 2 * 2^(1 - 1) /\ 1 - 1 = 0
  <2>1. 1 \in 1 .. W64
    BY Widths
  <2> QED BY <2>1, Power
<1>2. 2^1 = 2 /\ 0 % 2 = 0
  BY <1>1, Power
<1>3. Ref!inst = [n \in 0 .. 1 |-> i][0 % 2^1]
  BY DEF Ref!inst
<1> QED BY <1>2, <1>3

\* The two operands of cpu.v, d and s, and the interpreter's second one: an immediate
\* is extended by zeros or by its sign.
LEMMA OperandWords ==
  ASSUME Operands, Decoded
  PROVE  /\ r[i.dst] \in Word(W64) /\ Operand(i, r) \in Word(W64) /\ Ref!operand \in Word(W64)
         /\ Low(Operand(i, r), W32) = Low(Ref!operand, W32)
         /\ Low(Operand(i, r), W32) \in Word(W32)
         /\ UsesReg(i.op) \/ i.imm < 2^(W32 - 1) => Ref!operand = Operand(i, r)
         /\ Ref!operand = 0 <=> Operand(i, r) = 0
         /\ ~UsesReg(i.op) => /\ Operand(i, r) = i.imm /\ i.imm \in Word(W32)
                              /\ Ref!operand = SignExtend(i.imm, W32, W64)
         /\ UsesReg(i.op) => Operand(i, r) = r[i.src] /\ r[i.src] \in Word(W64)
<1>1. Ref!operand = IF UsesReg(i.op) THEN r[i.src] ELSE SignExtend(i.imm, W32, W64)
  BY RefInst DEF Ref!operand, Ref!imm64, Ref!UsesReg, Ref!SignExtend, Ref!Signed, Ref!Low,
     Ref!W32, Ref!W64, UsesReg, SignExtend, Signed, Low, W32, W64
<1>2. r[i.dst] \in Word(W64) /\ r[i.src] \in Word(W64) /\ i.imm \in Word(W32)
  BY DEF Operands, Decoded
<1>3. Operand(i, r) = IF UsesReg(i.op) THEN r[i.src] ELSE i.imm
  BY DEF Operand
<1>4. W32 \in 0 .. W64 /\ W64 \in 0 .. W64 /\ W32 <= W64 /\ W32 \in 1 .. W64 /\ W64 \in W32 .. W64
  BY Widths
<1>5. i.imm \in Int /\ r[i.src] \in Int
  <2>1. 2^W32 \in Nat /\ 2^W64 \in Nat
    BY <1>4, Power
  <2> QED BY <1>2, <2>1 DEF Word
<1>6. Low(i.imm, W32) = i.imm /\ Word(W32) \subseteq Word(W64)
  BY <1>2, <1>4, <1>5, LowLow
<1>7. /\ SignExtend(i.imm, W32, W64) \in Word(W64) /\ Low(SignExtend(i.imm, W32, W64), W32) = i.imm
      /\ i.imm < 2^(W32 - 1) => SignExtend(i.imm, W32, W64) = i.imm
      /\ SignExtend(i.imm, W32, W64) = 0 <=> i.imm = 0
  BY <1>2, <1>4, SignExtended
<1>8. Low(r[i.src], W32) \in Word(W32)
  BY <1>4, <1>5, LowLow
<1>9. CASE UsesReg(i.op)
  BY <1>1, <1>2, <1>3, <1>8, <1>9
<1>10. CASE ~UsesReg(i.op)
  BY <1>1, <1>2, <1>3, <1>6, <1>7, <1>10
<1> QED BY <1>9, <1>10

\* The operations that both classes compute alike, on 32 bits.
LEMMA ComputeLow ==
  ASSUME NEW d \in Word(W64), NEW s \in Word(W64), NEW t \in Word(W64), Low(s, W32) = Low(t, W32)
  PROVE  /\ Low(d + s, W32) = Low(Low(d + t, W64), W32)
         /\ Low(d - s, W32) = Low(Low(d - t, W64), W32)
         /\ Low(d * s, W32) = Low(Low(d * t, W64), W32)
         /\ Low(Or(d, s), W32) = Low(Or(d, t), W32)
         /\ Low(And(d, s), W32) = Low(And(d, t), W32)
         /\ Low(Xor(d, s), W32) = Low(Xor(d, t), W32)
         /\ Low(-d, W32) = Low(Low(-d, W64), W32)
<1>1. d \in Int /\ s \in Int /\ t \in Int
  BY WordInt
<1>2. d + t \in Int /\ d - t \in Int /\ d * t \in Int /\ -d \in Int
  BY <1>1
<1>3. /\ Low(Low(d + t, W64), W32) = Low(d + t, W32)
      /\ Low(Low(d - t, W64), W32) = Low(d - t, W32)
      /\ Low(Low(d * t, W64), W32) = Low(d * t, W32)
      /\ Low(Low(-d, W64), W32) = Low(-d, W32)
  BY <1>2, WordInt, LowLow
<1>4. 2^W32 \in Nat /\ 2^W32 > 0 /\ s % 2^W32 = t % 2^W32
  BY WordInt, Power DEF Low
<1>5. /\ (d + s) % 2^W32 = (d + t) % 2^W32 /\ (d - s) % 2^W32 = (d - t) % 2^W32
      /\ (d * s) % 2^W32 = (d * t) % 2^W32
  <2> DEFINE M == 2^W32
  <2>1. M \in Nat /\ M > 0 /\ s % M = t % M
    BY <1>4
  <2> HIDE DEF M
  <2>2. (d + s) % M = (d + t) % M
    BY <1>1, <2>1, ModArithmetic
  <2>3. (d - s) % M = (d - t) % M
    BY <1>1, <2>1, ModArithmetic
  <2>4. (d * s) % M = (d * t) % M
    BY <1>1, <2>1, ModArithmetic, Zenon
  <2> QED BY <2>2, <2>3, <2>4 DEF M
<1>6. /\ Low(Or(d, s), W32) = Low(Or(d, t), W32) /\ Low(And(d, s), W32) = Low(And(d, t), W32)
      /\ Low(Xor(d, s), W32) = Low(Xor(d, t), W32)
  BY <1>1, WordInt, BitwiseLow
<1> QED BY <1>3, <1>5, <1>6 DEF Low

-----------------------------------------------------------------------------
(* The interpreter's results, in the words of this module.                 *)

RefArithmetic(c, d, s) ==
  CASE c = ALU_ADD -> Low(d + s, W64)
    [] c = ALU_SUB -> Low(d - s, W64)
    [] c = ALU_MUL -> Low(d * s, W64)
    [] c = ALU_OR -> Or(d, s)
    [] c = ALU_AND -> And(d, s)
    [] c = ALU_XOR -> Xor(d, s)
    [] c = ALU_MOV -> s
    [] c = ALU_NEG -> Low(-d, W64)

LEMMA RefFields ==
  /\ Ref!opclass(i.op) = opclass(i.op) /\ Ref!code(i.op) = code(i.op)
  /\ Ref!UsesReg(i.op) = UsesReg(i.op) /\ Ref!IsEndian(i.op) = IsEndian(i.op)
  /\ Ref!IsDiv(i.op) = IsDiv(i.op) /\ Ref!IsShift(i.op) = IsShift(i.op)
  /\ Ref!OPC_ALU = OPC_ALU
BY DEF Ref!opclass, opclass, Ref!code, code, Ref!UsesReg, UsesReg, Ref!IsEndian, IsEndian,
   Ref!IsDiv, IsDiv, Ref!IsShift, IsShift, Ref!OPC_ALU, OPC_ALU, Ref!OPC_ALU64, OPC_ALU64,
   Ref!ALU_ENDC, ALU_ENDC, Ref!DivOps, DivOps, Ref!ShiftOps, ShiftOps, Ref!ALU_DIV, ALU_DIV,
   Ref!ALU_MOD, ALU_MOD, Ref!ALU_LSH, ALU_LSH, Ref!ALU_RSH, ALU_RSH, Ref!ALU_ARSH, ALU_ARSH

LEMMA RefWords ==
  /\ Ref!W32 = W32 /\ Ref!W64 = W64 /\ Ref!W16 = W16
  /\ \A x, w : Ref!Low(x, w) = Low(x, w) /\ Ref!Signed(x, w) = Signed(x, w)
  /\ \A x : Ref!u32(x) = Low(x, W32)
BY DEF Ref!W32, W32, Ref!W64, W64, Ref!W16, W16, Ref!Low, Low, Ref!Signed, Signed, Ref!u32

LEMMA RefBitwise ==
  \A x, y : Ref!Or(x, y) = Or(x, y) /\ Ref!And(x, y) = And(x, y) /\ Ref!Xor(x, y) = Xor(x, y)
BY Zenon DEF Ref!Or, Or, Ref!And, And, Ref!Xor, Xor, Ref!BitByBit, BitByBit, Ref!W64, W64

LEMMA RefArithmeticIs ==
  \A c, d, s : Ref!Arithmetic(c, d, s) = RefArithmetic(c, d, s)
BY RefWords, RefBitwise DEF Ref!Arithmetic, RefArithmetic, Ref!ALU_ADD, ALU_ADD, Ref!ALU_SUB, ALU_SUB,
   Ref!ALU_MUL, ALU_MUL, Ref!ALU_OR, ALU_OR, Ref!ALU_AND, ALU_AND, Ref!ALU_XOR, ALU_XOR,
   Ref!ALU_MOV, ALU_MOV, Ref!ALU_NEG, ALU_NEG

LEMMA RefResults ==
  LET d == r[i.dst]
      c == code(i.op)
      s == Ref!operand
  IN /\ IsEndian(i.op) =>
          Ref!Results = {IF UsesReg(i.op) THEN Ref!Swapped(d, i.imm) ELSE Low(d, i.imm)}
     /\ ~IsEndian(i.op) /\ opclass(i.op) = OPC_ALU =>
          Ref!Results = IF IsDiv(i.op) THEN {Ref!Divided(c, Low(d, W32), Low(s, W32))}
                        ELSE IF IsShift(i.op) THEN Ref!Shifted32(c, d, Ref!Amount32)
                        ELSE {Low(RefArithmetic(c, d, s), W32)}
     /\ ~IsEndian(i.op) /\ opclass(i.op) # OPC_ALU =>
          Ref!Results = IF IsDiv(i.op) THEN {Ref!Divided(c, d, s)}
                        ELSE IF IsShift(i.op) THEN Ref!Shifted64(c, d, s)
                        ELSE {RefArithmetic(c, d, s)}
BY RefInst, RefFields, RefWords, RefArithmeticIs DEF Ref!Results

-----------------------------------------------------------------------------
(* Agreement, one group of opcodes at a time.                              *)

\* Operations without a component: addition to move, and negation.
LEMMA PlainOperations ==
  ASSUME Operands, Decoded, opclass(i.op) \in {OPC_ALU, OPC_ALU64},
         ~IsDiv(i.op), ~IsShift(i.op), ~IsEndian(i.op)
  PROVE  /\ code(i.op) \in {ALU_ADD, ALU_SUB, ALU_MUL, ALU_OR, ALU_AND, ALU_XOR, ALU_MOV, ALU_NEG}
         /\ code(i.op) = ALU_NEG => IsNeg(i.op)
<1>1. i.op \in Opcodes
  BY DEF Operands, Decoded
<1>2. ~IsJump(i.op)
  BY DEF IsJump, OPC_ALU, OPC_ALU64, OPC_JMP
<1>3. IsPlain(i.op) \/ IsNeg(i.op)
  BY <1>1, <1>2 DEF Opcodes
<1> QED BY <1>3 DEF IsPlain, IsNeg, PlainOps, ALU_ADD, ALU_SUB, ALU_MUL, ALU_OR, ALU_AND, ALU_XOR,
          ALU_MOV, ALU_NEG

\* What each operation is.
LEMMA OperationIs ==
  ASSUME NEW d, NEW s, NEW w
  PROVE  /\ Compute(ALU_ADD, d, s, w) = Low(d + s, w) /\ RefArithmetic(ALU_ADD, d, s) = Low(d + s, W64)
         /\ Compute(ALU_SUB, d, s, w) = Low(d - s, w) /\ RefArithmetic(ALU_SUB, d, s) = Low(d - s, W64)
         /\ Compute(ALU_MUL, d, s, w) = Low(d * s, w) /\ RefArithmetic(ALU_MUL, d, s) = Low(d * s, W64)
         /\ Compute(ALU_OR, d, s, w) = Low(Or(d, s), w) /\ RefArithmetic(ALU_OR, d, s) = Or(d, s)
         /\ Compute(ALU_AND, d, s, w) = Low(And(d, s), w) /\ RefArithmetic(ALU_AND, d, s) = And(d, s)
         /\ Compute(ALU_XOR, d, s, w) = Low(Xor(d, s), w) /\ RefArithmetic(ALU_XOR, d, s) = Xor(d, s)
         /\ RefArithmetic(ALU_MOV, d, s) = s /\ RefArithmetic(ALU_NEG, d, s) = Low(-d, W64)
BY DEF Compute, RefArithmetic, ALU_ADD, ALU_SUB, ALU_MUL, ALU_OR, ALU_AND, ALU_XOR, ALU_MOV, ALU_NEG

LEMMA PlainAgrees32 ==
  ASSUME Operands, Decoded, opclass(i.op) = OPC_ALU, ~IsDiv(i.op), ~IsShift(i.op), ~IsEndian(i.op),
         IsMov32 => r[i.src] < 2^W32
  PROVE  Alu32(i, r) = Low(RefArithmetic(code(i.op), r[i.dst], Ref!operand), W32)
<1> DEFINE c == code(i.op)
           d == r[i.dst]
           s == Operand(i, r)
           t == Ref!operand
<1>1. c \in {ALU_ADD, ALU_SUB, ALU_MUL, ALU_OR, ALU_AND, ALU_XOR, ALU_MOV, ALU_NEG}
  BY PlainOperations
<1>2. d \in Word(W64) /\ s \in Word(W64) /\ t \in Word(W64) /\ Low(s, W32) = Low(t, W32)
  BY OperandWords
<1>3. Alu32(i, r) = CASE c = ALU_MOV -> s [] c = ALU_NEG -> Low(-d, W32) [] OTHER -> Compute(c, d, s, W32)
  BY DEF Alu32
<1>4. CASE c = ALU_MOV
  <2>1. Alu32(i, r) = s /\ RefArithmetic(c, d, t) = t
    BY <1>3, <1>4 DEF RefArithmetic, ALU_ADD, ALU_SUB, ALU_MUL, ALU_OR, ALU_AND, ALU_XOR, ALU_MOV, ALU_NEG
  <2>2. s \in Word(W32)
    <3>1. CASE UsesReg(i.op)
      <4>1. i.op \in 0 .. 255 /\ i.op % 8 = 4 /\ i.op \div 16 = 11 /\ (i.op \div 8) % 2 = 1
        BY <1>4, <3>1 DEF Operands, Decoded, Opcodes, opclass, code, UsesReg, OPC_ALU, ALU_MOV
      <4>2. i.op = 4 + 8 + 16 * 11
        BY <4>1
      <4>3. IsMov32
        BY <4>2 DEF IsMov32, Opcode, OPC_ALU, ALU_MOV
      <4>4. s = r[i.src] /\ s \in Int /\ s >= 0
        BY <1>2, <3>1, OperandWords, WordInt
      <4>5. 2^W32 \in Nat
        BY WordInt, Power
      <4> QED BY <4>3, <4>4, <4>5 DEF Word
    <3>2. CASE ~UsesReg(i.op)
      BY <3>2, OperandWords
    <3> QED BY <3>1, <3>2
  <2>3. Low(s, W32) = s
    BY <2>2, WordInt, LowLow
  <2> QED BY <1>2, <2>1, <2>3
<1>5. CASE c = ALU_NEG
  <2>1. Alu32(i, r) = Low(-d, W32) /\ RefArithmetic(c, d, t) = Low(-d, W64)
    BY <1>3, <1>5 DEF RefArithmetic, ALU_ADD, ALU_SUB, ALU_MUL, ALU_OR, ALU_AND, ALU_XOR, ALU_MOV, ALU_NEG
  <2> QED BY <1>2, <2>1, ComputeLow
<1>6. CASE c \in {ALU_ADD, ALU_SUB, ALU_MUL, ALU_OR, ALU_AND, ALU_XOR}
  <2>1. Alu32(i, r) = Compute(c, d, s, W32)
    BY <1>3, <1>6 DEF ALU_ADD, ALU_SUB, ALU_MUL, ALU_OR, ALU_AND, ALU_XOR, ALU_MOV, ALU_NEG
  <2>2. /\ Low(d + s, W32) = Low(Low(d + t, W64), W32)
        /\ Low(d - s, W32) = Low(Low(d - t, W64), W32)
        /\ Low(d * s, W32) = Low(Low(d * t, W64), W32)
        /\ Low(Or(d, s), W32) = Low(Or(d, t), W32)
        /\ Low(And(d, s), W32) = Low(And(d, t), W32)
        /\ Low(Xor(d, s), W32) = Low(Xor(d, t), W32)
    BY <1>2, ComputeLow
  <2> HIDE DEF c, d, s, t
  <2>3. Compute(c, d, s, W32) = Low(RefArithmetic(c, d, t), W32)
    <3>1. CASE c = ALU_ADD
      BY <2>2, <3>1, OperationIs
    <3>2. CASE c = ALU_SUB
      BY <2>2, <3>2, OperationIs
    <3>3. CASE c = ALU_MUL
      BY <2>2, <3>3, OperationIs
    <3>4. CASE c = ALU_OR
      BY <2>2, <3>4, OperationIs
    <3>5. CASE c = ALU_AND
      BY <2>2, <3>5, OperationIs
    <3>6. CASE c = ALU_XOR
      BY <2>2, <3>6, OperationIs
    <3> QED BY <1>6, <3>1, <3>2, <3>3, <3>4, <3>5, <3>6
  <2> QED BY <2>1, <2>3 DEF c, d, t
<1> QED BY <1>1, <1>4, <1>5, <1>6

LEMMA PlainAgrees64 ==
  ASSUME Operands, Decoded, opclass(i.op) = OPC_ALU64, ~IsDiv(i.op), ~IsShift(i.op), ~IsEndian(i.op),
         IsNeg64 => i.src = i.dst, TakesSignedImm => ~Negative32(i.imm)
  PROVE  Alu64(i, r) = RefArithmetic(code(i.op), r[i.dst], Ref!operand)
<1> DEFINE c == code(i.op)
           d == r[i.dst]
           s == Operand(i, r)
           t == Ref!operand
<1>1. c \in {ALU_ADD, ALU_SUB, ALU_MUL, ALU_OR, ALU_AND, ALU_XOR, ALU_MOV, ALU_NEG}
      /\ (c = ALU_NEG => IsNeg(i.op))
  BY PlainOperations
<1>2. d \in Word(W64) /\ s \in Word(W64)
  BY OperandWords
<1>3. Alu64(i, r) = CASE c = ALU_MOV -> s [] c = ALU_NEG -> Low(-r[i.src], W64)
                      [] OTHER -> Compute(c, d, s, W64)
  BY DEF Alu64
<1>4. CASE c = ALU_NEG
  <2>1. Alu64(i, r) = Low(-r[i.src], W64) /\ RefArithmetic(c, d, t) = Low(-d, W64)
    BY <1>3, <1>4 DEF RefArithmetic, ALU_ADD, ALU_SUB, ALU_MUL, ALU_OR, ALU_AND, ALU_XOR, ALU_MOV, ALU_NEG
  <2>2. i.src = i.dst
    BY <1>1, <1>4 DEF IsNeg64, Is32, OPC_ALU, OPC_ALU64
  <2> QED BY <2>1, <2>2
<1>5. CASE c # ALU_NEG
  <2>1. s = t
    <3>1. ~UsesReg(i.op) => i.imm < 2^(W32 - 1)
      <4>1. ~UsesReg(i.op) => ~(i.imm >= 2^(W32 - 1))
        BY <1>5 DEF TakesSignedImm, Negative32, IsNeg
      <4>2. ~UsesReg(i.op) => i.imm \in Int
        BY OperandWords, WordInt
      <4>3. 2^(W32 - 1) \in Nat
        <5>1. W32 - 1 \in 0 .. W64
          BY Widths
        <5> QED BY <5>1, Power
      <4> QED BY <4>1, <4>2, <4>3
    <3> QED BY <3>1, OperandWords
  <2>2. d \in Int /\ s \in Int
    BY <1>2, WordInt
  <2>3. Or(d, s) \in Word(W64) /\ And(d, s) \in Word(W64) /\ Xor(d, s) \in Word(W64)
    BY <2>2, BitwiseWord
  <2>4. Low(Or(d, s), W64) = Or(d, s) /\ Low(And(d, s), W64) = And(d, s) /\ Low(Xor(d, s), W64) = Xor(d, s)
    BY <2>3, WordInt, LowLow
  <2>5. c = ALU_MOV => Alu64(i, r) = s
    BY <1>3 DEF ALU_MOV, ALU_NEG
  <2>6. c # ALU_MOV => Alu64(i, r) = Compute(c, d, s, W64)
    BY <1>3, <1>5
  <2> HIDE DEF c, d, s, t
  <2>7. Alu64(i, r) = RefArithmetic(c, d, s)
    <3>1. CASE c = ALU_ADD
      <4>1. c # ALU_MOV
        BY <3>1 DEF ALU_ADD, ALU_MOV
      <4> QED BY <2>4, <2>6, <3>1, <4>1, OperationIs
    <3>2. CASE c = ALU_SUB
      <4>1. c # ALU_MOV
        BY <3>2 DEF ALU_SUB, ALU_MOV
      <4> QED BY <2>4, <2>6, <3>2, <4>1, OperationIs
    <3>3. CASE c = ALU_MUL
      <4>1. c # ALU_MOV
        BY <3>3 DEF ALU_MUL, ALU_MOV
      <4> QED BY <2>4, <2>6, <3>3, <4>1, OperationIs
    <3>4. CASE c = ALU_OR
      <4>1. c # ALU_MOV
        BY <3>4 DEF ALU_OR, ALU_MOV
      <4> QED BY <2>4, <2>6, <3>4, <4>1, OperationIs
    <3>5. CASE c = ALU_AND
      <4>1. c # ALU_MOV
        BY <3>5 DEF ALU_AND, ALU_MOV
      <4> QED BY <2>4, <2>6, <3>5, <4>1, OperationIs
    <3>6. CASE c = ALU_XOR
      <4>1. c # ALU_MOV
        BY <3>6 DEF ALU_XOR, ALU_MOV
      <4> QED BY <2>4, <2>6, <3>6, <4>1, OperationIs
    <3>7. CASE c = ALU_MOV
      BY <2>5, <3>7, OperationIs
    <3> QED BY <1>1, <1>5, <3>1, <3>2, <3>3, <3>4, <3>5, <3>6, <3>7
  <2> QED BY <2>1, <2>7 DEF c, d, t
<1> QED BY <1>4, <1>5

\* The operands of a division: the divisor is masked, or is not a negative immediate.
LEMMA DivisorAgrees ==
  ASSUME Operands, Decoded, IsDiv(i.op)
  PROVE  /\ Is32 => /\ DivRequest.divisor = Low(Ref!operand, W32)
                    /\ DivRequest.dividend = Low(r[i.dst], W32)
         /\ ~Is32 => /\ DivRequest.dividend = r[i.dst]
                     /\ DivRequest.divisor = 0 <=> Ref!operand = 0
                     /\ (TakesSignedImm => ~Negative32(i.imm)) => DivRequest.divisor = Ref!operand
<1>1. CASE Is32
  BY <1>1, OperandWords DEF DivRequest, DivRequest32
<1>2. CASE ~Is32
  <2>1. DivRequest.dividend = r[i.dst] /\ DivRequest.divisor = Operand(i, r)
    BY <1>2 DEF DivRequest, DivRequest64
  <2>2. ASSUME TakesSignedImm => ~Negative32(i.imm)
        PROVE  Operand(i, r) = Ref!operand
    <3>1. ~UsesReg(i.op) => ~(i.imm >= 2^(W32 - 1))
      BY <1>2, <2>2 DEF IsDiv, Is32, TakesSignedImm, Negative32, IsNeg, DivOps, ALU_DIV, ALU_MOD, ALU_NEG,
         OPC_ALU, OPC_ALU64
    <3>2. ~UsesReg(i.op) => i.imm \in Int
      BY OperandWords, WordInt
    <3>3. 2^(W32 - 1) \in Nat
      <4>1. W32 - 1 \in 0 .. W64
        BY Widths
      <4> QED BY <4>1, Power
    <3> QED BY <3>1, <3>2, <3>3, OperandWords
  <2> QED BY <1>2, <2>1, <2>2, OperandWords
<1> QED BY <1>1, <1>2

LEMMA ZeroAgreesTyped == Operands => ZeroAgrees
<1> SUFFICES ASSUME Operands, Decoded, IsDiv(i.op) PROVE (DivRequest.divisor = 0) = Ref!ZeroDivisor
  BY DEF ZeroAgrees
<1>1. Ref!ZeroDivisor = ((IF opclass(i.op) = OPC_ALU THEN Low(Ref!operand, W32) ELSE Ref!operand) = 0)
  BY RefInst, RefFields, RefWords DEF Ref!ZeroDivisor
<1> QED BY <1>1, DivisorAgrees DEF Is32

-----------------------------------------------------------------------------
(* Shifts.  The shifter's answer is Shift!ShiftOf of the request.          *)

\* In the words of this module, what the shifter gives and what the interpreter wants.
LEMMA ShiftIs ==
  ASSUME NEW p
  PROVE  Shift!ShiftOf(p) =
           IF p.left THEN ShiftLeft(p.value, p.shift, W64)
           ELSE IF p.arith /\ p.value >= 2^(W64 - 1)
                THEN IF p.shift >= W64 THEN 2^W64 - 1
                     ELSE Low(Signed(p.value, W64) \div 2^p.shift, W64)
                ELSE ShiftRight(p.value, p.shift, W64)
BY DEF Shift!ShiftOf, Shift!ShiftLeft, ShiftLeft, Shift!ShiftRight, ShiftRight, Shift!Negative,
   Shift!Low, Low, Shift!Signed, Signed, Shift!W64, W64

LEMMA RefShiftIs ==
  ASSUME NEW c, NEW d, NEW n
  PROVE  /\ Ref!Any = Word(W64)
         /\ c = ALU_LSH => Ref!Shifted64(c, d, n) = IF n < W64 THEN {ShiftLeft(d, n, W64)} ELSE Word(W64)
         /\ c = ALU_RSH => Ref!Shifted64(c, d, n) = IF n < W64 THEN {ShiftRight(d, n, W64)} ELSE Word(W64)
         /\ c = ALU_ARSH => Ref!Shifted64(c, d, n) =
              IF n < W64 THEN {Low(Signed(d, W64) \div 2^n, W64)} ELSE Word(W64)
         /\ c = ALU_LSH => Ref!Shifted32(c, d, n) =
              {Low(x, W32) : x \in IF n < W64 THEN {ShiftLeft(d, n, W64)} ELSE Word(W64)}
         /\ c = ALU_RSH => Ref!Shifted32(c, d, n) =
              {Low(x, W32) : x \in IF n < W32 THEN {ShiftRight(Low(d, W32), n, W32)} ELSE Word(W64)}
         /\ c = ALU_ARSH => Ref!Shifted32(c, d, n) =
              {Low(x, W32) : x \in IF n < W32 THEN {Low(Signed(Low(d, W32), W32) \div 2^n, W32)}
                                   ELSE Word(W64)}
<1>1. Ref!Any = Word(W64)
  BY DEF Ref!Any, Ref!Word, Word, Ref!W64, W64
<1>2. c = ALU_LSH => Ref!Shifted64(c, d, n) = IF n < W64 THEN {ShiftLeft(d, n, W64)} ELSE Word(W64)
  BY <1>1, RefWords DEF Ref!Shifted64, Ref!DefinedShift, Ref!Arsh, Ref!ShiftLeft, ShiftLeft,
     Ref!ShiftRight, ShiftRight, Ref!ALU_LSH, ALU_LSH, Ref!ALU_RSH, ALU_RSH, Ref!ALU_ARSH, ALU_ARSH
<1>6. c = ALU_RSH => Ref!Shifted64(c, d, n) = IF n < W64 THEN {ShiftRight(d, n, W64)} ELSE Word(W64)
  BY <1>1, RefWords DEF Ref!Shifted64, Ref!DefinedShift, Ref!Arsh, Ref!ShiftLeft, ShiftLeft,
     Ref!ShiftRight, ShiftRight, Ref!ALU_LSH, ALU_LSH, Ref!ALU_RSH, ALU_RSH, Ref!ALU_ARSH, ALU_ARSH
<1>7. c = ALU_ARSH => Ref!Shifted64(c, d, n) =
              IF n < W64 THEN {Low(Signed(d, W64) \div 2^n, W64)} ELSE Word(W64)
  BY <1>1, RefWords DEF Ref!Shifted64, Ref!DefinedShift, Ref!Arsh, Ref!ShiftLeft, ShiftLeft,
     Ref!ShiftRight, ShiftRight, Ref!ALU_LSH, ALU_LSH, Ref!ALU_RSH, ALU_RSH, Ref!ALU_ARSH, ALU_ARSH
<1>3. c = ALU_LSH => Ref!Shifted32(c, d, n) =
              {Low(x, W32) : x \in IF n < W64 THEN {ShiftLeft(d, n, W64)} ELSE Word(W64)}
  BY <1>1, RefWords DEF Ref!Shifted32, Ref!DefinedShift, Ref!Arsh, Ref!ShiftLeft, ShiftLeft,
     Ref!ShiftRight, ShiftRight, Ref!ALU_LSH, ALU_LSH, Ref!ALU_RSH, ALU_RSH, Ref!ALU_ARSH, ALU_ARSH
<1>4. c = ALU_RSH => Ref!Shifted32(c, d, n) =
              {Low(x, W32) : x \in IF n < W32 THEN {ShiftRight(Low(d, W32), n, W32)} ELSE Word(W64)}
  BY <1>1, RefWords DEF Ref!Shifted32, Ref!DefinedShift, Ref!Arsh, Ref!ShiftLeft, ShiftLeft,
     Ref!ShiftRight, ShiftRight, Ref!ALU_LSH, ALU_LSH, Ref!ALU_RSH, ALU_RSH, Ref!ALU_ARSH, ALU_ARSH
<1>5. c = ALU_ARSH => Ref!Shifted32(c, d, n) =
              {Low(x, W32) : x \in IF n < W32 THEN {Low(Signed(Low(d, W32), W32) \div 2^n, W32)}
                                   ELSE Word(W64)}
  BY <1>1, RefWords DEF Ref!Shifted32, Ref!DefinedShift, Ref!Arsh, Ref!ShiftLeft, ShiftLeft,
     Ref!ShiftRight, ShiftRight, Ref!ALU_LSH, ALU_LSH, Ref!ALU_RSH, ALU_RSH, Ref!ALU_ARSH, ALU_ARSH
<1> QED BY <1>1, <1>2, <1>3, <1>4, <1>5, <1>6, <1>7

LEMMA ShiftAgrees64 ==
  ASSUME Operands, Decoded, opclass(i.op) = OPC_ALU64, IsShift(i.op), TakesSignedImm => ~Negative32(i.imm)
  PROVE  Shift!ShiftOf(ShiftRequest64(i, r)) \in Ref!Shifted64(code(i.op), r[i.dst], Ref!operand)
<1> DEFINE c == code(i.op)
           d == r[i.dst]
           s == Operand(i, r)
           p == ShiftRequest64(i, r)
           res == Shift!ShiftOf(p)
<1>1. c \in {ALU_LSH, ALU_RSH, ALU_ARSH}
  BY DEF IsShift, ShiftOps
<1>2. d \in Word(W64) /\ s \in Word(W64) /\ d \in Int /\ s \in Int /\ s >= 0
  BY OperandWords, WordInt
<1>3. Ref!operand = s
  <2>1. ~UsesReg(i.op) => ~(i.imm >= 2^(W32 - 1))
    BY <1>1 DEF TakesSignedImm, Negative32, IsNeg, ALU_LSH, ALU_RSH, ALU_ARSH, ALU_NEG
  <2>2. ~UsesReg(i.op) => i.imm \in Int
    BY OperandWords, WordInt
  <2>3. 2^(W32 - 1) \in Nat
    <3>1. W32 - 1 \in 0 .. W64
      BY Widths
    <3> QED BY <3>1, Power
  <2> QED BY <2>1, <2>2, <2>3, OperandWords
<1>4. p.arith = (c = ALU_ARSH) /\ p.left = (c = ALU_LSH) /\ p.value = d /\ p.shift = s
  BY DEF ShiftRequest64
<1>5. res = IF c = ALU_LSH THEN ShiftLeft(d, s, W64)
            ELSE IF c = ALU_ARSH /\ d >= 2^(W64 - 1)
                 THEN IF s >= W64 THEN 2^W64 - 1 ELSE Low(Signed(d, W64) \div 2^s, W64)
                 ELSE ShiftRight(d, s, W64)
  <2> HIDE DEF c, d, s, p
  <2> QED BY <1>4, ShiftIs
<1>6. 2^W64 - 1 \in Word(W64) /\ 2^W64 \in Nat /\ 2^W64 > 0
  BY WordInt, Power DEF Word
<1>7. ShiftLeft(d, s, W64) \in Word(W64) /\ ShiftRight(d, s, W64) \in Word(W64)
  BY <1>2, WordInt, ShiftedWord
<1> SUFFICES res \in Ref!Shifted64(c, d, s)
  BY <1>3
<1> HIDE DEF c, d, s, p, res
<1>8. CASE c = ALU_LSH
  BY <1>5, <1>7, <1>8, RefShiftIs
<1>9. CASE c = ALU_RSH
  <2>1. res = ShiftRight(d, s, W64)
    BY <1>5, <1>9 DEF ALU_LSH, ALU_RSH, ALU_ARSH
  <2> QED BY <1>7, <1>9, <2>1, RefShiftIs
<1>10. CASE c = ALU_ARSH /\ s >= W64
  <2>1. res \in Word(W64)
    BY <1>5, <1>6, <1>7, <1>10 DEF ALU_LSH, ALU_RSH, ALU_ARSH
  <2>2. ~(s < W64)
    BY <1>2, <1>10, WordInt
  <2> QED BY <1>10, <2>1, <2>2, RefShiftIs
<1>11. CASE c = ALU_ARSH /\ ~(s >= W64)
  <2>1. res = Low(Signed(d, W64) \div 2^s, W64)
    <3>1. CASE d >= 2^(W64 - 1)
      BY <1>5, <1>11, <3>1 DEF ALU_LSH, ALU_RSH, ALU_ARSH
    <3>2. CASE ~(d >= 2^(W64 - 1))
      <4>1. res = d \div 2^s /\ Signed(d, W64) = d
        BY <1>5, <1>11, <3>2 DEF ALU_LSH, ALU_RSH, ALU_ARSH, ShiftRight, Signed
      <4>2. d \div 2^s \in Word(W64) /\ d \div 2^s \in Int
        BY <1>2, <1>11, WordInt, ShiftedWord
      <4>3. Low(d \div 2^s, W64) = d \div 2^s
        BY <4>2, WordInt, LowLow
      <4> QED BY <4>1, <4>3
    <3> QED BY <3>1, <3>2
  <2>2. s < W64
    BY <1>2, <1>11, WordInt
  <2> QED BY <1>11, <2>1, <2>2, RefShiftIs
<1> QED BY <1>1, <1>8, <1>9, <1>10, <1>11

\* The amount of a 32-bit shift that is defined in C is the amount cpu.v shifts by: masking
\* it to 32 bits takes nothing away.
LEMMA AmountAgrees ==
  ASSUME Operands, Decoded
  PROVE  /\ Ref!Amount32 \in Word(W64) /\ Ref!Amount32 \in Int
         /\ Low(Operand(i, r), W32) \in Word(W32)
         /\ Ref!Amount32 < W64 => Low(Operand(i, r), W32) = Ref!Amount32
<1> DEFINE n == Ref!Amount32
           t == Ref!operand
           m == Low(Operand(i, r), W32)
<1>1. n = IF code(i.op) = ALU_ARSH /\ UsesReg(i.op) THEN Low(t, W32) ELSE t
  BY RefInst, RefFields, RefWords DEF Ref!Amount32, Ref!ALU_ARSH, ALU_ARSH
<1>2. t \in Word(W64) /\ m = Low(t, W32) /\ m \in Word(W32) /\ t \in Int
  BY OperandWords, WordInt
<1>3. Word(W32) \subseteq Word(W64) /\ Low(t, W32) \in Word(W32) /\ Low(Low(t, W32), W32) = Low(t, W32)
  BY <1>2, WordInt, LowLow
<1>4. n \in Word(W64) /\ n \in Int /\ n >= 0 /\ Low(n, W32) = m
  <2>1. n \in Word(W64) /\ Low(n, W32) = m
    <3> HIDE DEF t, m
    <3> QED BY <1>1, <1>2, <1>3
  <2> QED BY <2>1, WordInt
<1>5. n < W64 => Low(n, W32) = n
  <2> SUFFICES ASSUME n < W64 PROVE Low(n, W32) = n
    OBVIOUS
  <2>1. W64 = 2 * W32 /\ W64 \in Nat
    BY ByteBitsAssumption DEF W64, W32
  <2>2. 2^W32 \in Nat
    BY WordInt, Power
  <2>3. n \in Word(W32)
    BY <1>4, <2>1, <2>2, WidthSmall DEF Word
  <2> QED BY <2>3, WordInt, LowLow
<1> QED BY <1>2, <1>4, <1>5

\* Shifting a truncated word left is truncating a shifted one.
LEMMA LeftLow ==
  ASSUME NEW d \in Int, NEW n \in Int, n >= 0, n < W64
  PROVE  Low(ShiftLeft(Low(d, W32), n, W64), W32) = Low(ShiftLeft(d, n, W64), W32)
<1> DEFINE M == 2^W32
           N == 2^n
           e == Low(d, W32)
<1>1. M \in Nat /\ M > 0 /\ N \in Nat
  <2>1. n \in 0 .. W64
    BY WordInt
  <2> QED BY <2>1, WordInt, Power
<1>2. e \in Int /\ e % M = d % M
  <2>1. Low(d, W32) \in Word(W32) /\ Low(Low(d, W32), W32) = Low(d, W32)
    BY WordInt, LowLow
  <2>2. e \in Int
    BY <2>1, WordInt
  <2> QED BY <2>1, <2>2 DEF Low
<1>3. (e * N) % M = (d * N) % M
  <2> HIDE DEF M, N, e
  <2>1. N \in Int
    BY <1>1
  <2>2. e \in Int /\ e % M = d % M /\ M \in Nat /\ M > 0
    BY <1>1, <1>2
  <2>3. (N * e) % M = (N * d) % M
    BY <2>1, <2>2, ModProduct
  <2>4. N * e = e * N /\ N * d = d * N
    BY <2>1, <2>2
  <2> QED BY <2>3, <2>4
<1>4. e * N \in Int /\ d * N \in Int
  <2> HIDE DEF N, e
  <2> QED BY <1>1, <1>2
<1>5. ShiftLeft(e, n, W64) = Low(e * N, W64) /\ ShiftLeft(d, n, W64) = Low(d * N, W64)
  <2>1. ~(n >= W64)
    BY WordInt
  <2> QED BY <2>1 DEF ShiftLeft
<1>6. Low(Low(e * N, W64), W32) = Low(e * N, W32) /\ Low(Low(d * N, W64), W32) = Low(d * N, W32)
  <2> HIDE DEF N, e
  <2> QED BY <1>4, WordInt, LowLow
<1>7. Low(e * N, W32) = Low(d * N, W32)
  BY <1>3 DEF Low
<1> QED BY <1>5, <1>6, <1>7

\* Shifting a sign-extended half right by its sign in 64 bits is doing so in 32.
LEMMA RightLow ==
  ASSUME NEW h \in Word(W32), NEW n \in Int, n >= 0, n < W32
  PROVE  /\ Low(Low(Signed(SignExtend(h, W32, W64), W64) \div 2^n, W64), W32)
              = Low(Low(Signed(h, W32) \div 2^n, W32), W32)
         /\ ~(h >= 2^(W32 - 1)) =>
              Low(ShiftRight(SignExtend(h, W32, W64), n, W64), W32) =
                Low(Low(Signed(h, W32) \div 2^n, W32), W32)
         /\ SignExtend(h, W32, W64) >= 2^(W64 - 1) <=> h >= 2^(W32 - 1)
<1> DEFINE x == Signed(h, W32)
           q == x \div 2^n
<1>1. W32 \in 1 .. W64 /\ W64 \in W32 .. W64
  BY Widths
<1>2. /\ Signed(SignExtend(h, W32, W64), W64) = x
      /\ h < 2^(W32 - 1) => SignExtend(h, W32, W64) = h
      /\ SignExtend(h, W32, W64) >= 2^(W64 - 1) <=> h >= 2^(W32 - 1)
      /\ x \in -(2^(W32 - 1)) .. (2^(W32 - 1)) - 1
  BY <1>1, SignExtended
<1>3. 2^(W32 - 1) \in Nat /\ 2^n \in Nat /\ 2^n > 0 /\ h \in Int /\ n < W64
  <2>1. W32 - 1 \in 0 .. W64 /\ n \in 0 .. W64 /\ n < W64
    BY <1>1, Widths
  <2> QED BY <2>1, Power, WordInt
<1>4. q \in Int
  <2>1. x \in Int
    BY <1>2, <1>3
  <2> QED BY <1>3, <2>1
<1>5. Low(Low(q, W64), W32) = Low(q, W32) /\ Low(Low(q, W32), W32) = Low(q, W32)
  <2> HIDE DEF q
  <2> QED BY <1>4, WordInt, LowLow
<1>6. ASSUME ~(h >= 2^(W32 - 1))
      PROVE  Low(ShiftRight(SignExtend(h, W32, W64), n, W64), W32) = Low(q, W32)
  <2>1. h < 2^(W32 - 1)
    BY <1>3, <1>6
  <2>2. x = h /\ SignExtend(h, W32, W64) = h
    BY <1>2, <1>6, <2>1 DEF Signed
  <2>3. ~(n >= W64)
    BY <1>3, WordInt
  <2> QED BY <2>2, <2>3 DEF ShiftRight
<1> QED BY <1>2, <1>5, <1>6

LEMMA ShiftAgrees32 ==
  ASSUME Operands, Decoded, opclass(i.op) = OPC_ALU, IsShift(i.op)
  PROVE  Low(Shift!ShiftOf(ShiftRequest32(i, r)), W32)
           \in Ref!Shifted32(code(i.op), r[i.dst], Ref!Amount32)
<1> DEFINE c == code(i.op)
           d == r[i.dst]
           h == Low(d, W32)
           m == Low(Operand(i, r), W32)
           n == Ref!Amount32
           e == SignExtend(h, W32, W64)
           p == ShiftRequest32(i, r)
           res == Shift!ShiftOf(p)
<1>1. c \in {ALU_LSH, ALU_RSH, ALU_ARSH}
  BY DEF IsShift, ShiftOps
<1>2. d \in Word(W64) /\ d \in Int /\ h \in Word(W32) /\ h \in Int /\ m \in Word(W32) /\ m \in Int /\ m >= 0
      /\ n \in Int /\ n >= 0
  <2>1. d \in Word(W64) /\ m \in Word(W32) /\ n \in Word(W64)
    BY OperandWords, AmountAgrees
  <2>2. d \in Int /\ m \in Int /\ m >= 0 /\ n \in Int /\ n >= 0
    BY <2>1, WordInt
  <2>3. h \in Word(W32)
    BY <2>2, WordInt, LowLow
  <2> QED BY <2>1, <2>2, <2>3, WordInt
<1>3. n < W64 => m = n
  BY AmountAgrees
<1>4. /\ p.shift = m
      /\ c = ALU_LSH => p.left /\ p.value = h
      /\ c = ALU_RSH => ~p.left /\ ~p.arith /\ p.value = h
      /\ c = ALU_ARSH => ~p.left /\ p.arith /\ p.value = e
  <2>1. p.arith = (c = ALU_ARSH) /\ p.left = (c = ALU_LSH) /\ p.shift = m
        /\ p.value = IF c = ALU_ARSH THEN e ELSE h
    BY DEF ShiftRequest32
  <2> HIDE DEF p, c, e, h, m
  <2>2. ALU_LSH # ALU_RSH /\ ALU_LSH # ALU_ARSH /\ ALU_RSH # ALU_ARSH
    BY DEF ALU_LSH, ALU_RSH, ALU_ARSH
  <2> QED BY <2>1, <2>2, Zenon
<1>5. e \in Word(W64) /\ e \in Int
  <2>1. W32 \in 1 .. W64 /\ W64 \in W32 .. W64
    BY Widths
  <2>2. e \in Word(W64)
    BY <1>2, <2>1, SignExtended
  <2> QED BY <2>2, WordInt
<1>6. /\ c = ALU_LSH => res = ShiftLeft(h, m, W64)
      /\ c = ALU_RSH => res = ShiftRight(h, m, W64)
      /\ c = ALU_ARSH => res = IF e >= 2^(W64 - 1)
                               THEN IF m >= W64 THEN 2^W64 - 1 ELSE Low(Signed(e, W64) \div 2^m, W64)
                               ELSE ShiftRight(e, m, W64)
  <2> HIDE DEF c, d, h, m, e, p
  <2>1. res = IF p.left THEN ShiftLeft(p.value, p.shift, W64)
              ELSE IF p.arith /\ p.value >= 2^(W64 - 1)
                   THEN IF p.shift >= W64 THEN 2^W64 - 1
                        ELSE Low(Signed(p.value, W64) \div 2^p.shift, W64)
                   ELSE ShiftRight(p.value, p.shift, W64)
    BY ShiftIs
  <2> HIDE DEF res
  <2>2. c = ALU_LSH => res = ShiftLeft(h, m, W64)
    BY <1>4, <2>1
  <2>3. c = ALU_RSH => res = ShiftRight(h, m, W64)
    BY <1>4, <2>1
  <2>4. c = ALU_ARSH => res = IF e >= 2^(W64 - 1)
                              THEN IF m >= W64 THEN 2^W64 - 1 ELSE Low(Signed(e, W64) \div 2^m, W64)
                              ELSE ShiftRight(e, m, W64)
    BY <1>4, <2>1
  <2> QED BY <2>2, <2>3, <2>4
<1>7. W32 <= W64 /\ W32 \in Nat /\ W64 \in Nat
  BY WordInt
<1>8. res \in Int
  <2>1. ShiftLeft(h, m, W64) \in Word(W64) /\ ShiftRight(h, m, W64) \in Word(W64) /\ ShiftRight(e, m, W64) \in Word(W64)
    <3>1. Word(W32) \subseteq Word(W64)
      BY <1>2, WordInt, LowLow
    <3>2. h \in Word(W64)
      BY <1>2, <3>1
    <3> QED BY <1>2, <1>5, <3>2, WordInt, ShiftedWord
  <2>2. 2^W64 - 1 \in Int
    BY WordInt, Power
  <2>3. ~(m >= W64) => Low(Signed(e, W64) \div 2^m, W64) \in Word(W64)
    <3> SUFFICES ASSUME ~(m >= W64) PROVE Low(Signed(e, W64) \div 2^m, W64) \in Word(W64)
      OBVIOUS
    <3>1. m \in 0 .. W64
      BY <1>2, <1>7
    <3>2. 2^m \in Nat /\ 2^m > 0 /\ 2^W64 \in Nat
      BY <3>1, Power, WordInt
    <3>3. Signed(e, W64) \in Int
      BY <1>5, <3>2 DEF Signed
    <3>4. Signed(e, W64) \div 2^m \in Int
      BY <3>2, <3>3
    <3> QED BY <3>4, WordInt, LowLow
  <2> HIDE DEF c, d, h, m, e, p, res
  <2> QED BY <1>1, <1>6, <2>1, <2>2, <2>3, WordInt
<1> DEFINE lr == Low(res, W32)
<1>9. lr \in Word(W64) /\ Low(lr, W32) = lr
  <2> HIDE DEF res
  <2>1. Low(res, W32) \in Word(W32) /\ Word(W32) \subseteq Word(W64)
    BY <1>8, WordInt, LowLow
  <2>2. Low(res, W32) \in Int
    BY <2>1, WordInt
  <2>3. Low(Low(res, W32), W32) = Low(res, W32)
    BY <2>1, <2>2, WordInt, LowLow
  <2> QED BY <2>1, <2>3
<1>10. lr \in {Low(x, W32) : x \in Word(W64)}
  <2> HIDE DEF lr
  <2> QED BY <1>9
<1>11. n < W64 => Low(ShiftLeft(h, n, W64), W32) = Low(ShiftLeft(d, n, W64), W32)
  BY <1>2, LeftLow
<1>12. n < W32 =>
        /\ Low(Low(Signed(e, W64) \div 2^n, W64), W32) = Low(Low(Signed(h, W32) \div 2^n, W32), W32)
        /\ ~(h >= 2^(W32 - 1)) => Low(ShiftRight(e, n, W64), W32) = Low(Low(Signed(h, W32) \div 2^n, W32), W32)
        /\ e >= 2^(W64 - 1) <=> h >= 2^(W32 - 1)
  BY <1>2, RightLow
<1>13. n < W32 => n < W64 /\ ~(n >= W64) /\ ~(n >= W32)
  BY <1>2, <1>7
<1> SUFFICES lr \in Ref!Shifted32(c, d, n)
  OBVIOUS
<1> HIDE DEF c, d, h, m, n, e, p, res
<1>14. CASE c = ALU_LSH
  <2>1. n < W64 => lr = Low(ShiftLeft(d, n, W64), W32)
    BY <1>3, <1>6, <1>11, <1>14
  <2>2. Ref!Shifted32(c, d, n) = {Low(x, W32) : x \in IF n < W64 THEN {ShiftLeft(d, n, W64)} ELSE Word(W64)}
    BY <1>14, RefShiftIs
  <2> HIDE DEF lr
  <2> QED BY <1>10, <2>1, <2>2
<1>15. CASE c = ALU_RSH
  <2>1. n < W32 => ShiftRight(h, m, W64) = ShiftRight(h, n, W32)
    BY <1>3, <1>13 DEF ShiftRight
  <2>2. n < W32 => lr = Low(ShiftRight(h, n, W32), W32)
    BY <1>6, <1>15, <2>1
  <2>3. Ref!Shifted32(c, d, n) =
          {Low(x, W32) : x \in IF n < W32 THEN {ShiftRight(h, n, W32)} ELSE Word(W64)}
    BY <1>15, RefShiftIs DEF h
  <2> HIDE DEF lr
  <2> QED BY <1>10, <2>2, <2>3
<1>16. CASE c = ALU_ARSH
  <2>1. n < W32 => lr = Low(Low(Signed(h, W32) \div 2^n, W32), W32)
    BY <1>3, <1>6, <1>12, <1>13, <1>16
  <2>2. Ref!Shifted32(c, d, n) =
          {Low(x, W32) : x \in IF n < W32 THEN {Low(Signed(h, W32) \div 2^n, W32)} ELSE Word(W64)}
    BY <1>16, RefShiftIs DEF h
  <2> HIDE DEF lr
  <2> QED BY <1>10, <2>1, <2>2
<1> QED BY <1>1, <1>14, <1>15, <1>16

-----------------------------------------------------------------------------
(* Bytes in the opposite order: cpu.v puts them together from the front    *)
(* (Horner's rule), htobe as a sum of bytes in their places.               *)

Horner(f, g, b, n) == f = [k \in 0 .. n |-> IF k = 0 THEN 0 ELSE f[k - 1] * b + g[k]]

LEMMA HornerExists ==
  ASSUME NEW n \in Nat, NEW g, NEW b
  PROVE  \E f : Horner(f, g, b, n)
<1> DEFINE S == {k \in Nat : \E f : Horner(f, g, b, k)}
<1>1. 0 \in S
  <2> DEFINE f == [k \in 0 .. 0 |-> 0]
  <2>1. f = [k \in 0 .. 0 |-> IF k = 0 THEN 0 ELSE f[k - 1] * b + g[k]]
    OBVIOUS
  <2> QED BY <2>1 DEF Horner
<1>2. ASSUME NEW k \in Nat, k \in S PROVE k + 1 \in S
  <2>1. PICK f : Horner(f, g, b, k)
    BY <1>2
  <2> DEFINE h == [j \in 0 .. (k + 1) |-> IF j = k + 1 THEN f[k] * b + g[j] ELSE f[j]]
  <2>2. \A j \in 0 .. k : h[j] = f[j] /\ f[j] = IF j = 0 THEN 0 ELSE f[j - 1] * b + g[j]
    BY <2>1 DEF Horner
  <2>3. ASSUME NEW j \in 0 .. (k + 1)
        PROVE  h[j] = IF j = 0 THEN 0 ELSE h[j - 1] * b + g[j]
    <3>1. CASE j = k + 1
      BY <3>1
    <3>2. CASE j = 0
      <4>1. 0 \in 0 .. k
        OBVIOUS
      <4> QED BY <2>2, <3>2, <4>1
    <3>3. CASE j \in 1 .. k
      <4>1. j \in 0 .. k /\ j - 1 \in 0 .. k /\ j # 0
        BY <3>3
      <4>2. h[j] = f[j - 1] * b + g[j] /\ h[j - 1] = f[j - 1]
        BY <2>2, <4>1
      <4> QED BY <4>1, <4>2
    <3> QED BY <3>1, <3>2, <3>3
  <2>4. h = [j \in 0 .. (k + 1) |-> IF j = 0 THEN 0 ELSE h[j - 1] * b + g[j]]
    <3>1. DOMAIN h = 0 .. (k + 1) /\ h = [j \in 0 .. (k + 1) |-> h[j]]
      OBVIOUS
    <3> HIDE DEF h
    <3> QED BY <2>3, <3>1
  <2> HIDE DEF h
  <2> QED BY <2>4 DEF Horner
<1>3. Nat \subseteq S
  <2> HIDE DEF S
  <2> QED BY <1>1, <1>2, Induction
<1> QED BY <1>3

\* The bytes of d, from the least significant.
BytesOf(d) == [k \in 1 .. 8 |-> Byte(d, k - 1)]

LEMMA BeIs ==
  ASSUME NEW d, NEW w
  PROVE  \E f : BE(d, w) = f[w \div ByteBits] /\ Horner(f, BytesOf(d), 2^ByteBits, 8)
<1> DEFINE P(v) == v = [n \in 0 .. 8 |-> IF n = 0 THEN 0 ELSE v[n - 1] * 2^ByteBits + Byte(d, n - 1)]
           val == CHOOSE v : P(v)
<1>1. BE(d, w) = val[w \div ByteBits]
  BY Zenon DEF BE
<1>2. ASSUME NEW v PROVE P(v) <=> Horner(v, BytesOf(d), 2^ByteBits, 8)
  <2>1. \A k \in 0 .. 8 : k # 0 => k \in 1 .. 8
    OBVIOUS
  <2> QED BY <2>1 DEF Horner, BytesOf
<1>3. \E v : P(v)
  <2>1. \E v : Horner(v, BytesOf(d), 2^ByteBits, 8)
    BY HornerExists
  <2> HIDE DEF P
  <2> QED BY <1>2, <2>1
<1>4. P(val)
  <2> HIDE DEF P
  <2> QED BY <1>3, Zenon
<1>5. Horner(val, BytesOf(d), 2^ByteBits, 8)
  <2> HIDE DEF P, val
  <2> QED BY <1>2, <1>4
<1> HIDE DEF P, val
<1> QED BY <1>1, <1>5

\* A reversed word is a word.
LEMMA BeWord ==
  ASSUME NEW d \in Int, NEW w \in EndianWidths
  PROVE  BE(d, w) \in Word(W64)
<1> DEFINE B == 2^ByteBits
           m == w \div ByteBits
<1>1. B \in Nat /\ B > 0
  BY Widths, Power
<1>2. PICK f : BE(d, w) = f[m] /\ Horner(f, BytesOf(d), B, 8)
  BY BeIs
<1>3. ASSUME NEW k \in 1 .. 8
      PROVE  f[k] = f[k - 1] * B + Byte(d, k - 1) /\ Byte(d, k - 1) \in 0 .. B - 1
  <2>1. f = [j \in 0 .. 8 |-> IF j = 0 THEN 0 ELSE f[j - 1] * B + BytesOf(d)[j]]
    BY <1>2 DEF Horner
  <2>2. k \in 0 .. 8 /\ k # 0 /\ BytesOf(d)[k] = Byte(d, k - 1)
    BY DEF BytesOf
  <2>3. Byte(d, k - 1) \in Word(ByteBits)
    <3>1. k - 1 \in 0 .. 7
      OBVIOUS
    <3> QED BY <3>1, ByteTyped
  <2> HIDE DEF B
  <2>4. f[k] = f[k - 1] * B + BytesOf(d)[k]
    BY <2>1, <2>2
  <2> QED BY <2>2, <2>3, <2>4 DEF Word, B
<1>4. f[0] = 0
  BY <1>2 DEF Horner
<1> DEFINE S == {k \in Nat : k <= 8 => f[k] \in 0 .. (2^(k * ByteBits)) - 1}
<1>5. 0 \in S
  <2>1. 0 * ByteBits = 0 /\ 2^0 = 1
    BY Power, ByteBitsAssumption
  <2>2. 2^(0 * ByteBits) = 1
    BY <2>1
  <2> QED BY <1>4, <2>2
<1>6. ASSUME NEW k \in Nat, k \in S PROVE k + 1 \in S
  <2> SUFFICES ASSUME k + 1 <= 8 PROVE f[k + 1] \in 0 .. (2^((k + 1) * ByteBits)) - 1
    OBVIOUS
  <2> DEFINE P == 2^(k * ByteBits)
             c == Byte(d, k)
  <2>1. f[k] \in 0 .. P - 1 /\ k + 1 \in 1 .. 8 /\ (k + 1) - 1 = k /\ k \in 0 .. 8
    BY <1>6
  <2>2. f[k + 1] = f[k] * B + c /\ c \in 0 .. B - 1
    BY <1>3, <2>1
  <2>3. P \in Nat
    <3>1. k * ByteBits \in 0 .. W64
      BY <2>1, Widths
    <3> QED BY <3>1, Power
  <2>4. 2^((k + 1) * ByteBits) = P * B
    <3>1. k * ByteBits \in Nat /\ ByteBits \in Nat /\ k * ByteBits + ByteBits <= W64
          /\ k * ByteBits + ByteBits = (k + 1) * ByteBits
      BY <2>1, ByteBitsAssumption DEF W64
    <3>2. 2^(k * ByteBits + ByteBits) = P * B
      BY <3>1, PowerSum
    <3> QED BY <3>1, <3>2
  <2> HIDE DEF P, c, B
  <2>5. f[k] * B <= (P - 1) * B /\ (P - 1) * B = P * B - B /\ f[k] * B >= 0 /\ f[k] * B \in Int
        /\ P * B \in Int
    BY <1>1, <2>1, <2>3
  <2>6. f[k + 1] \in 0 .. (P * B) - 1
    BY <1>1, <2>2, <2>5
  <2> QED BY <2>4, <2>6
<1>7. Nat \subseteq S
  <2> HIDE DEF S
  <2> QED BY <1>5, <1>6, Induction
<1>8. m \in {2, 4, 8}
  BY ByteBitsAssumption DEF EndianWidths, W16, W32, W64
<1>9. f[m] \in Word(m * ByteBits)
  <2>1. m \in Nat /\ m <= 8
    BY <1>8
  <2>2. m \in S
    BY <1>7, <2>1
  <2> HIDE DEF m
  <2> QED BY <2>1, <2>2 DEF Word
<1>10. m * ByteBits \in 0 .. W64 /\ m * ByteBits <= W64 /\ W64 \in 0 .. W64 /\ 0 \in Int
  <2>1. m \in 0 .. 8
    BY <1>8
  <2> HIDE DEF m
  <2> QED BY <2>1, Widths
<1>11. Word(m * ByteBits) \subseteq Word(W64)
  <2> HIDE DEF m
  <2> QED BY <1>10, LowLow
<1> QED BY <1>2, <1>9, <1>11

\* Byte k of d in its new place among m bytes.
Placed(d, m) == [k \in 1 .. m |-> Byte(d, k - 1) * 2^((m - k) * ByteBits)]

LEMMA SwappedIs ==
  ASSUME NEW d, NEW w, NEW m \in Nat, m = w \div ByteBits
  PROVE  \E f : Ref!Swapped(d, w) = f[m] /\ Sums(f, Placed(d, m), m)
<1> DEFINE P(v) == v = [k \in 0 .. m |-> IF k = 0 THEN 0
                                         ELSE v[k - 1] + Byte(d, k - 1) * 2^((m - k) * ByteBits)]
           val == CHOOSE v : P(v)
<1>1. Ref!Swapped(d, w) = val[m]
  <2>1. \A x, k : Ref!Byte(x, k) = Byte(x, k)
    BY DEF Ref!Byte, Byte
  <2> QED BY <2>1, Zenon DEF Ref!Swapped, Ref!Byte, Byte
<1>2. ASSUME NEW v PROVE P(v) <=> Sums(v, Placed(d, m), m)
  <2>1. \A k \in 0 .. m : k # 0 => k \in 1 .. m
    OBVIOUS
  <2> QED BY <2>1 DEF Sums, Placed
<1>3. \E v : P(v)
  <2>1. \E v : Sums(v, Placed(d, m), m)
    BY SumsExist
  <2> HIDE DEF P
  <2> QED BY <1>2, <2>1
<1>4. P(val)
  <2> HIDE DEF P
  <2> QED BY <1>3, Zenon
<1>5. Sums(val, Placed(d, m), m)
  <2> HIDE DEF P, val
  <2> QED BY <1>2, <1>4
<1> HIDE DEF P, val
<1> QED BY <1>1, <1>5

LEMMA EndianAgrees ==
  ASSUME NEW d \in Int, NEW w \in EndianWidths
  PROVE  BE(d, w) = Ref!Swapped(d, w)
<1> DEFINE m == w \div ByteBits
           B == 2^ByteBits
<1>1. m \in {2, 4, 8} /\ w = m * ByteBits
  <2>1. CASE w = W16
    <3>1. (2 * ByteBits) \div ByteBits = 2
      <4>1. 2 * ByteBits = 2 * ByteBits + 0 /\ ByteBits \in Nat /\ ByteBits > 0
        BY ByteBitsAssumption
      <4> QED BY <4>1, Quotient
    <3> QED BY <2>1, <3>1 DEF W16
  <2>2. CASE w = W32
    <3>1. (4 * ByteBits) \div ByteBits = 4
      <4>1. 4 * ByteBits = 4 * ByteBits + 0 /\ ByteBits \in Nat /\ ByteBits > 0
        BY ByteBitsAssumption
      <4> QED BY <4>1, Quotient
    <3> QED BY <2>2, <3>1 DEF W32
  <2>3. CASE w = W64
    <3>1. (8 * ByteBits) \div ByteBits = 8
      <4>1. 8 * ByteBits = 8 * ByteBits + 0 /\ ByteBits \in Nat /\ ByteBits > 0
        BY ByteBitsAssumption
      <4> QED BY <4>1, Quotient
    <3> QED BY <2>3, <3>1 DEF W64
  <2> QED BY <2>1, <2>2, <2>3 DEF EndianWidths
<1>2. B \in Nat /\ B > 0
  <2>1. ByteBits \in 0 .. W64
    BY Widths
  <2> QED BY <2>1, Power
<1>3. PICK f : BE(d, w) = f[m] /\ Horner(f, BytesOf(d), B, 8)
  BY BeIs
<1>4. PICK e : Ref!Swapped(d, w) = e[m] /\ Sums(e, Placed(d, m), m)
  <2>1. m \in Nat
    BY <1>1
  <2> QED BY <2>1, SwappedIs
<1>5. /\ f[0] = 0 /\ \A k \in 1 .. 8 : f[k] = f[k - 1] * B + Byte(d, k - 1)
      /\ e[0] = 0 /\ \A k \in 1 .. m : e[k] = e[k - 1] + Byte(d, k - 1) * 2^((m - k) * ByteBits)
  <2>1. f[0] = 0 /\ \A k \in 1 .. 8 : f[k] = f[k - 1] * B + Byte(d, k - 1)
    <3> HIDE DEF B
    <3>1. f = [k \in 0 .. 8 |-> IF k = 0 THEN 0 ELSE f[k - 1] * B + BytesOf(d)[k]]
      BY <1>3 DEF Horner
    <3>2. \A k \in 1 .. 8 : BytesOf(d)[k] = Byte(d, k - 1) /\ k \in 0 .. 8 /\ k # 0
      BY DEF BytesOf
    <3> QED BY <3>1, <3>2
  <2>2. m \in Nat
    BY <1>1
  <2>3. e[0] = 0 /\ \A k \in 1 .. m : e[k] = e[k - 1] + Placed(d, m)[k]
    <3> HIDE DEF m
    <3> QED BY <1>4, <2>2, SumsRule
  <2> QED BY <2>1, <2>3 DEF Placed
<1>6. \A k \in 0 .. m : Byte(d, k) \in Int
  <2> TAKE k \in 0 .. m
  <2>1. k \in 0 .. 8
    BY <1>1
  <2>2. k * ByteBits \in 0 .. W64
    BY <2>1, Widths
  <2> DEFINE N == 2^(k * ByteBits)
  <2>3. N \in Nat /\ N > 0
    BY <2>2, Power
  <2> HIDE DEF N, B
  <2>4. d \div N \in Int
    BY <2>3, Divided
  <2>5. (d \div N) % B \in Int
    BY <1>2, <2>4, Divided
  <2> QED BY <2>5 DEF Byte, N, B
<1>7. ASSUME NEW k \in 0 .. m
      PROVE  2^((m - k) * ByteBits) \in Nat /\ (k # m => 2^((m - k) * ByteBits) = B * 2^((m - (k + 1)) * ByteBits))
  <2>1. m - k \in 0 .. 8
    BY <1>1
  <2>2. (m - k) * ByteBits \in 0 .. W64
    BY <2>1, Widths
  <2>3. CASE k # m
    <3>1. m - (k + 1) \in 0 .. 8
      BY <1>1, <2>3
    <3>2. (m - (k + 1)) * ByteBits \in 0 .. W64 /\ (m - (k + 1)) * ByteBits \in Nat /\ ByteBits \in Nat
      BY <3>1, Widths, ByteBitsAssumption
    <3>3. ByteBits + (m - (k + 1)) * ByteBits = (m - k) * ByteBits
      <4> HIDE DEF m
      <4> QED BY <1>1, ByteBitsAssumption
    <3>4. (m - k) * ByteBits <= W64
      BY <2>2, Widths
    <3>5. 2^(ByteBits + (m - (k + 1)) * ByteBits) = B * 2^((m - (k + 1)) * ByteBits)
      BY <3>2, <3>3, <3>4, PowerSum
    <3> QED BY <2>2, <3>3, <3>5, Power
  <2> QED BY <2>2, <2>3, Power
<1> HIDE DEF m, B
<1> DEFINE S == {k \in Nat : k <= m => f[k] \in Int /\ e[k] = f[k] * 2^((m - k) * ByteBits)}
<1>8. 0 \in S
  <2>1. 0 \in 0 .. m
    BY <1>1
  <2>2. 2^((m - 0) * ByteBits) \in Nat
    BY <1>7, <2>1
  <2> QED BY <1>5, <2>2
<1>9. ASSUME NEW k \in Nat, k \in S PROVE k + 1 \in S
  <2> SUFFICES ASSUME k + 1 <= m
               PROVE  f[k + 1] \in Int /\ e[k + 1] = f[k + 1] * 2^((m - (k + 1)) * ByteBits)
    OBVIOUS
  <2>1. k \in 0 .. m /\ k # m /\ k + 1 \in 1 .. m /\ k + 1 \in 1 .. 8 /\ (k + 1) - 1 = k /\ k + 1 \in 0 .. m
        /\ k <= m
    BY <1>1
  <2> DEFINE p == 2^((m - (k + 1)) * ByteBits)
             y == Byte(d, k)
             t == f[k]
  <2>2. 2^((m - k) * ByteBits) = B * p /\ p \in Nat
    BY <1>7, <2>1
  <2>3. t \in Int /\ e[k] = t * 2^((m - k) * ByteBits) /\ y \in Int
    BY <1>6, <1>9, <2>1
  <2>4. f[k + 1] = t * B + y /\ e[k + 1] = e[k] + y * p
    BY <1>5, <2>1
  <2> HIDE DEF p, y, t
  <2>5. e[k] = t * (B * p)
    BY <2>2, <2>3
  <2>6. t * (B * p) + y * p = (t * B + y) * p /\ t * B + y \in Int
    BY <1>2, <2>2, <2>3
  <2> QED BY <2>4, <2>5, <2>6 DEF p
<1>10. Nat \subseteq S
  <2> HIDE DEF S
  <2> QED BY <1>8, <1>9, Induction
<1>11. f[m] \in Int /\ e[m] = f[m] * 2^((m - m) * ByteBits)
  BY <1>1, <1>10
<1>12. 2^((m - m) * ByteBits) = 1
  <2>1. (m - m) * ByteBits = 0
    BY <1>1, ByteBitsAssumption
  <2> QED BY <2>1, Power
<1> QED BY <1>3, <1>4, <1>11, <1>12

-----------------------------------------------------------------------------
(* The properties, of any instruction on any operands.                     *)

LEMMA ResultAgreesTyped == Operands => ResultAgrees
<1> SUFFICES ASSUME Operands, Computes, IsNeg64 => i.src = i.dst, IsMov32 => r[i.src] < 2^W32,
                    TakesSignedImm => ~Negative32(i.imm)
             PROVE  CpuResult \in Ref!Results
  BY DEF ResultAgrees, Agrees
<1> DEFINE c == code(i.op)
           d == r[i.dst]
<1>1. Decoded /\ opclass(i.op) \in {OPC_ALU, OPC_ALU64} /\ (Is32 <=> opclass(i.op) = OPC_ALU)
  BY DEF Computes, Is32
<1>2. IsEndian(i.op) => opclass(i.op) = OPC_ALU /\ ~IsDiv(i.op) /\ ~IsShift(i.op)
  BY DEF IsEndian, IsDiv, IsShift, DivOps, ShiftOps, ALU_ENDC, ALU_DIV, ALU_MOD, ALU_LSH, ALU_RSH, ALU_ARSH
<1>3. IsDiv(i.op) => ~IsShift(i.op)
  BY DEF IsDiv, IsShift, DivOps, ShiftOps, ALU_DIV, ALU_MOD, ALU_LSH, ALU_RSH, ALU_ARSH
<1>4. OPC_ALU # OPC_ALU64
  BY DEF OPC_ALU, OPC_ALU64
<1>5. CASE IsEndian(i.op)
  <2>1. CpuResult = IF UsesReg(i.op) THEN BE(d, i.imm) ELSE Low(d, i.imm)
    BY <1>2, <1>5 DEF CpuResult, LE
  <2>2. d \in Int /\ i.imm \in EndianWidths
    BY <1>1, <1>5, OperandWords, WordInt DEF Computes
  <2>3. BE(d, i.imm) = Ref!Swapped(d, i.imm)
    BY <2>2, EndianAgrees
  <2>4. Ref!Results = {IF UsesReg(i.op) THEN Ref!Swapped(d, i.imm) ELSE Low(d, i.imm)}
    BY <1>5, RefResults
  <2> QED BY <2>1, <2>3, <2>4
<1>6. CASE ~IsEndian(i.op) /\ IsDiv(i.op)
  <2>1. CpuResult = IF c = ALU_DIV THEN DivRequest.dividend \div DivRequest.divisor
                    ELSE DivRequest.dividend % DivRequest.divisor
    BY <1>3, <1>6 DEF CpuResult
  <2>2. \A x, y : Ref!Divided(c, x, y) = IF c = ALU_DIV THEN x \div y ELSE x % y
    BY DEF Ref!Divided, Ref!ALU_DIV, ALU_DIV
  <2>3. CASE opclass(i.op) = OPC_ALU
    <3>1. Ref!Results = {Ref!Divided(c, Low(d, W32), Low(Ref!operand, W32))}
      BY <1>6, <2>3, RefResults
    <3> QED BY <1>1, <1>6, <2>1, <2>2, <2>3, <3>1, DivisorAgrees
  <2>4. CASE opclass(i.op) = OPC_ALU64
    <3>1. Ref!Results = {Ref!Divided(c, d, Ref!operand)}
      BY <1>4, <1>6, <2>4, RefResults
    <3>2. DivRequest.dividend = d /\ DivRequest.divisor = Ref!operand
      BY <1>1, <1>4, <1>6, <2>4, DivisorAgrees
    <3> QED BY <2>1, <2>2, <3>1, <3>2
  <2> QED BY <1>1, <2>3, <2>4
<1>7. CASE ~IsEndian(i.op) /\ IsShift(i.op)
  <2>1. ~IsDiv(i.op)
    BY <1>3, <1>7
  <2>2. CASE opclass(i.op) = OPC_ALU
    <3>1. CpuResult = Low(Shift!ShiftOf(ShiftRequest32(i, r)), W32)
      BY <1>1, <1>7, <2>1, <2>2 DEF CpuResult
    <3>2. Ref!Results = Ref!Shifted32(c, d, Ref!Amount32)
      BY <1>7, <2>1, <2>2, RefResults
    <3> QED BY <1>1, <1>7, <2>2, <3>1, <3>2, ShiftAgrees32
  <2>3. CASE opclass(i.op) = OPC_ALU64
    <3>1. CpuResult = Shift!ShiftOf(ShiftRequest64(i, r))
      BY <1>1, <1>4, <1>7, <2>1, <2>3 DEF CpuResult
    <3>2. Ref!Results = Ref!Shifted64(c, d, Ref!operand)
      BY <1>4, <1>7, <2>1, <2>3, RefResults
    <3> QED BY <1>1, <1>7, <2>3, <3>1, <3>2, ShiftAgrees64
  <2> QED BY <1>1, <2>2, <2>3
<1>8. CASE ~IsEndian(i.op) /\ ~IsDiv(i.op) /\ ~IsShift(i.op)
  <2>1. CASE opclass(i.op) = OPC_ALU
    <3>1. CpuResult = Alu32(i, r)
      BY <1>1, <1>8, <2>1 DEF CpuResult
    <3>2. Ref!Results = {Low(RefArithmetic(c, d, Ref!operand), W32)}
      BY <1>8, <2>1, RefResults
    <3> QED BY <1>1, <1>8, <2>1, <3>1, <3>2, PlainAgrees32
  <2>2. CASE opclass(i.op) = OPC_ALU64
    <3>1. CpuResult = Alu64(i, r)
      BY <1>1, <1>4, <1>8, <2>2 DEF CpuResult
    <3>2. Ref!Results = {RefArithmetic(c, d, Ref!operand)}
      BY <1>4, <1>8, <2>2, RefResults
    <3> QED BY <1>1, <1>8, <2>2, <3>1, <3>2, PlainAgrees64
  <2> QED BY <1>1, <2>1, <2>2
<1> QED BY <1>5, <1>6, <1>7, <1>8

LEMMA TakenAgreesTyped == Operands => TakenAgrees
<1> SUFFICES ASSUME Operands, Decoded, IsJump(i.op), TakesSignedImm => ~Negative32(i.imm),
                    IsSignedJump => Narrow(r[i.dst]) /\ (UsesReg(i.op) => Narrow(r[i.src]))
             PROVE  Taken(i, r) = Ref!Holds
  BY DEF TakenAgrees, Jumps, JumpAgrees
<1> DEFINE c == code(i.op)
           d == r[i.dst]
           s == Operand(i, r)
           t == Ref!operand
<1>1. /\ d \in Word(W64) /\ s \in Word(W64) /\ t \in Word(W64) /\ d \in Int
      /\ W32 \in 1 .. W64 /\ W64 \in W32 .. W64
  BY OperandWords, WordInt, Widths
<1>2. c \in {JMP_JEQ, JMP_JNE, JMP_JSET} => s = t
  <2> SUFFICES ASSUME c \in {JMP_JEQ, JMP_JNE, JMP_JSET} PROVE s = t
    OBVIOUS
  <2>1. ~UsesReg(i.op) => ~(i.imm >= 2^(W32 - 1))
    BY DEF TakesSignedImm, Negative32, IsJump
  <2>2. ~UsesReg(i.op) => i.imm \in Int
    BY OperandWords, WordInt
  <2>3. 2^(W32 - 1) \in Nat
    <3>1. W32 - 1 \in 0 .. W64
      BY Widths
    <3> QED BY <3>1, Power
  <2> QED BY <2>1, <2>2, <2>3, OperandWords
<1>3. ASSUME NEW x \in Word(W64), Narrow(x) PROVE Half_s(x) = Signed(x, W64)
  <2>1. x \in Int
    BY WordInt
  <2>2. Low(x, W32) \in Word(W32)
    BY <2>1, WordInt, LowLow
  <2>3. Signed(SignExtend(Low(x, W32), W32, W64), W64) = Signed(Low(x, W32), W32)
    BY <1>1, <2>2, SignExtended
  <2> QED BY <1>3, <2>3 DEF Narrow, Half_s
<1>4. IsSignedJump => Half_s(d) = Signed(d, W64) /\ Half_s(s) = Signed(t, W64)
  <2> SUFFICES ASSUME IsSignedJump PROVE Half_s(d) = Signed(d, W64) /\ Half_s(s) = Signed(t, W64)
    OBVIOUS
  <2>1. Half_s(d) = Signed(d, W64)
    BY <1>1, <1>3
  <2>2. CASE UsesReg(i.op)
    <3>1. s = r[i.src] /\ t = s
      BY <2>2, OperandWords
    <3> QED BY <1>1, <1>3, <2>1, <2>2, <3>1
  <2>3. CASE ~UsesReg(i.op)
    <3>1. s = i.imm /\ i.imm \in Word(W32) /\ t = SignExtend(i.imm, W32, W64)
      BY <2>3, OperandWords
    <3>2. Low(i.imm, W32) = i.imm
      BY <3>1, WordInt, LowLow
    <3>3. Signed(SignExtend(i.imm, W32, W64), W64) = Signed(i.imm, W32)
      BY <1>1, <3>1, SignExtended
    <3> QED BY <2>1, <3>1, <3>2, <3>3 DEF Half_s
  <2> QED BY <2>2, <2>3
<1>5. s = IF UsesReg(i.op) THEN r[i.src] ELSE i.imm
  BY DEF Operand
<1>6. Ref!Holds = CASE c = JMP_JA -> TRUE
       [] c = JMP_JEQ -> d = t
       [] c = JMP_JGT -> d > s
       [] c = JMP_JGE -> d >= s
       [] c = JMP_JLT -> d < s
       [] c = JMP_JLE -> d <= s
       [] c = JMP_JSET -> And(d, t) # 0
       [] c = JMP_JNE -> d # t
       [] c = JMP_JSGT -> Signed(d, W64) > Signed(t, W64)
       [] c = JMP_JSGE -> Signed(d, W64) >= Signed(t, W64)
       [] c = JMP_JSLT -> Signed(d, W64) < Signed(t, W64)
       [] c = JMP_JSLE -> Signed(d, W64) <= Signed(t, W64)
  BY <1>5, RefInst, RefFields, RefWords, RefBitwise DEF Ref!Holds, Ref!JMP_JA, JMP_JA, Ref!JMP_JEQ, JMP_JEQ,
     Ref!JMP_JGT, JMP_JGT, Ref!JMP_JGE, JMP_JGE, Ref!JMP_JLT, JMP_JLT, Ref!JMP_JLE, JMP_JLE,
     Ref!JMP_JSET, JMP_JSET, Ref!JMP_JNE, JMP_JNE, Ref!JMP_JSGT, JMP_JSGT, Ref!JMP_JSGE, JMP_JSGE,
     Ref!JMP_JSLT, JMP_JSLT, Ref!JMP_JSLE, JMP_JSLE
<1>7. c \in {JMP_JA, JMP_JEQ, JMP_JGT, JMP_JGE, JMP_JSET, JMP_JNE, JMP_JSGT, JMP_JSGE,
             JMP_JLT, JMP_JLE, JMP_JSLT, JMP_JSLE}
  BY DEF IsJump, CondOps
<1>8. c \in {JMP_JSGT, JMP_JSGE, JMP_JSLT, JMP_JSLE} <=> IsSignedJump
  BY DEF IsSignedJump
<1>9. Taken(i, r) = CASE c = JMP_JA -> TRUE
       [] c = JMP_JEQ -> d = s
       [] c = JMP_JGT -> d > s
       [] c = JMP_JGE -> d >= s
       [] c = JMP_JSET -> And(d, s) # 0
       [] c = JMP_JNE -> d # s
       [] c = JMP_JSGT -> Half_s(d) > Half_s(s)
       [] c = JMP_JSGE -> Half_s(d) >= Half_s(s)
       [] c = JMP_JLT -> d < s
       [] c = JMP_JLE -> d <= s
       [] c = JMP_JSLT -> Half_s(d) < Half_s(s)
       [] c = JMP_JSLE -> Half_s(d) <= Half_s(s)
  BY DEF Taken
<1> HIDE DEF c, d, s, t
<1> USE DEF JMP_JA, JMP_JEQ, JMP_JGT, JMP_JGE, JMP_JLT, JMP_JLE, JMP_JSET, JMP_JNE, JMP_JSGT, JMP_JSGE,
            JMP_JSLT, JMP_JSLE
<1>10. CASE c \in {JMP_JA, JMP_JGT, JMP_JGE, JMP_JLT, JMP_JLE}
  BY <1>6, <1>9, <1>10
<1>11. CASE c \in {JMP_JEQ, JMP_JNE, JMP_JSET}
  BY <1>2, <1>6, <1>9, <1>11
<1>12. CASE c \in {JMP_JSGT, JMP_JSGE, JMP_JSLT, JMP_JSLE}
  BY <1>4, <1>6, <1>8, <1>9, <1>12
<1> QED BY <1>7, <1>10, <1>11, <1>12

LEMMA OperandsInit == DatapathInit => Operands
BY ZeroWord, WordInt DEF DatapathInit, Idle, Operands

LEMMA OperandsStep == Operands /\ [DatapathNext]_datapath => Operands'
<1> SUFFICES ASSUME Operands, [DatapathNext]_datapath PROVE Operands'
  OBVIOUS
<1>1. 0 \in Word(W64) /\ 0 \in Word(W32)
  BY ZeroWord, WordInt
<1>2. ASSUME NEW op \in Opcodes, NEW s \in {1, 2}, NEW a \in Words64,
             NEW b \in (IF s = 1 THEN {0} ELSE Words64),
             NEW k \in (IF UsesReg(op) /\ ~IsEndian(op) THEN {0} ELSE Words32), Decode(op, s, a, b, k)
      PROVE  Operands'
  <2>1. a \in Word(W64) /\ b \in Word(W64) /\ k \in Word(W32)
    BY <1>1, OperandsAssumption
  <2> QED BY <1>1, <1>2, <2>1 DEF Decode, Operands
<1>3. CASE Complete
  BY <1>1, <1>3 DEF Complete, Operands
<1>4. CASE UNCHANGED datapath
  BY <1>4 DEF datapath, Operands
<1> QED BY <1>2, <1>3, <1>4 DEF DatapathNext

\* Every ALU instruction of cpu.v gives a result that ubpf_exec may give, for every width
\* of a byte and all operands, outside the three known divergences (cpu.v 1304-2231,
\* ubpf_vm.c 157-368).
THEOREM ResultsAgree == DatapathSpec => []ResultAgrees
BY OperandsInit, OperandsStep, ResultAgreesTyped, PTL DEF DatapathSpec

\* Every jump of cpu.v is taken exactly when ubpf_exec takes it, for all operands, where a
\* signed comparison is one of 32-bit numbers (cpu.v 1764-1937, ubpf_vm.c 443-555).
THEOREM JumpsAgree == DatapathSpec => []TakenAgrees
BY OperandsInit, OperandsStep, TakenAgreesTyped, PTL DEF DatapathSpec

\* The divider is asked to divide by zero exactly when ubpf_exec refuses the division, or
\* may do anything since a 32-bit divisor is zero in its low half (ubpf_vm.c 713-720).
THEOREM ZerosAgree == DatapathSpec => []ZeroAgrees
BY OperandsInit, OperandsStep, ZeroAgreesTyped, PTL DEF DatapathSpec
=============================================================================
