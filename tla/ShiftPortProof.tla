---------------------------- MODULE ShiftPortProof ----------------------------
(***************************************************************************)
(* The shifter's promises, for every width and request.  ResultCorrect is  *)
(* about the edge that shows the result; what makes it true was latched    *)
(* one edge earlier, and Latched says so.                                  *)
(***************************************************************************)
EXTENDS ShiftPort, WordsProof

\* Between the two steps, and while ack is up, the operands are still presented and the
\* temporaries are theirs.
Latched ==
  /\ sh.ack => sh.state
  /\ sh.state => /\ port.stb /\ asked = PortInputs
                 /\ sh.tmp2 = (IF port.left THEN ShiftLeft(port.value, port.shift, W64)
                               ELSE ShiftRight(port.value, port.shift, W64))
                 /\ ~port.left => sh.tmp1 = Vacated(port.shift)

ShiftInv == TypeOK /\ Latched /\ ResultCorrect

-----------------------------------------------------------------------------
(* The shifts themselves.                                                  *)

LEMMA Full == 2^W64 \in Nat /\ 2^W64 > 0 /\ Data = 0 .. (2^W64) - 1 /\ 0 \in Data
BY Power, Widths DEF Data, Word

LEMMA ShiftTypes ==
  ASSUME NEW x \in Data, NEW n \in Data
  PROVE  ShiftLeft(x, n, W64) \in Data /\ ShiftRight(x, n, W64) \in Data /\ Vacated(n) \in Data
<1>1. x \in Nat /\ n \in Nat
  BY Full
<1>2. ASSUME NEW y \in Data PROVE ShiftRight(y, n, W64) \in Data
  <2>1. CASE n >= W64
    BY <2>1, Full DEF ShiftRight
  <2>2. CASE ~(n >= W64)
    <3> DEFINE P == 2^n
    <3>1. P \in Nat /\ P > 0
      BY <1>1, <2>2, Power, Widths
    <3>2. y \div P \in Nat /\ y \div P <= y
      <4> HIDE DEF P
      <4>1. y \in Nat
        BY Full
      <4>2. y \div P \in Int /\ y % P \in 0 .. P - 1 /\ y = (y \div P) * P + (y % P)
        BY <3>1, <4>1, Divided
      <4>3. y \div P >= 0
        BY <3>1, <4>1
      <4> DEFINE z == y \div P
      <4>4. z \in Int /\ z >= 0
        BY <4>2, <4>3
      <4> HIDE DEF z
      <4>5. z * P >= z /\ z * P \in Int
        BY <3>1, <4>4
      <4> QED BY <3>1, <4>1, <4>2, <4>4, <4>5 DEF z
    <3>3. y \div P \in Data
      <4> HIDE DEF P
      <4> QED BY <3>2, Full
    <3> QED BY <2>2, <3>3 DEF ShiftRight
  <2> QED BY <2>1, <2>2
<1>3. (2^W64) - 1 \in Data
  BY Full
<1>4. Vacated(n) \in Data
  <2> DEFINE z == ShiftRight((2^W64) - 1, n, W64)
  <2>1. z \in Data
    BY <1>2, <1>3
  <2> HIDE DEF z
  <2>2. (2^W64) - 1 - z \in Data
    BY <2>1, Full
  <2> QED BY <2>2 DEF z, Vacated
<1>5. ShiftLeft(x, n, W64) \in Data
  <2>1. CASE n >= W64
    BY <2>1, Full DEF ShiftLeft
  <2>2. CASE ~(n >= W64)
    <3>1. 2^n \in Nat
      BY <1>1, <2>2, Power, Widths
    <3>2. x * 2^n \in Int
      BY <1>1, <3>1
    <3>3. (x * 2^n) % 2^W64 \in 0 .. (2^W64) - 1
      BY <3>2, Full, Around
    <3> QED BY <2>2, <3>3, Full DEF ShiftLeft, Low
  <2> QED BY <2>1, <2>2
<1> QED BY <1>2, <1>4, <1>5

\* The registers after any edge, whatever is on the inputs.
LEMMA EdgeTyped ==
  ASSUME sh \in Registers, NEW p, p.value \in Data, p.shift \in Data, NEW rst, Edge(rst, p)
  PROVE  sh' \in Registers
<1>1. 0 \in Data /\ sh.tmp1 \in Data /\ sh.tmp2 \in Data /\ sh.out \in Data
  BY Full DEF Registers
<1>2. Or(sh.tmp1, sh.tmp2) \in Data
  <2>1. sh.tmp1 \in Int /\ sh.tmp2 \in Int
    BY <1>1, Full
  <2> QED BY <2>1, BitwiseWord DEF Data
<1>3. ResetRegs \in Registers /\ Finish \in Registers
  BY <1>1 DEF ResetRegs, Finish, Registers
<1>4. Present(p) \in Registers
  BY <1>1, <1>2 DEF Present, Registers
<1>5. Start(p) \in Registers
  <2>1. /\ (IF p.left THEN sh.tmp1 ELSE Vacated(p.shift)) \in Data
        /\ (IF p.left THEN ShiftLeft(p.value, p.shift, W64) ELSE ShiftRight(p.value, p.shift, W64)) \in Data
    BY <1>1, ShiftTypes
  <2> QED BY <1>1, <2>1 DEF Start, Registers
<1> QED BY <1>3, <1>4, <1>5 DEF Edge

\* A right shift of a negative word, filled with ones, is the arithmetic shift: with
\* P = 2^shift and Q = 2^(W64 - shift) the ones are (P - 1) * Q, and what is shifted is
\* less than Q.
LEMMA FilledWithOnes ==
  ASSUME NEW x \in Data, NEW n \in Data, Negative(x)
  PROVE  /\ Or(Vacated(n), ShiftRight(x, n, W64)) \in Data
         /\ Or(Vacated(n), ShiftRight(x, n, W64)) =
              IF n >= W64 THEN 2^W64 - 1 ELSE Low(Signed(x, W64) \div 2^n, W64)
<1> DEFINE M == 2^W64
<1>0. M \in Nat /\ M > 0 /\ x \in Nat /\ x < M /\ n \in Nat
  BY Full
<1>1. CASE n >= W64
  <2>1. Vacated(n) = M - 1 /\ ShiftRight(x, n, W64) = 0
    <3>1. (M - 1) - 0 = M - 1
      BY <1>0
    <3> QED BY <1>1, <3>1 DEF Vacated, ShiftRight
  <2>2. M - 1 \in Nat /\ 0 \in 0 .. W64 /\ 0 \in 0 .. (2^0) - 1 /\ 2^0 = 1 /\ (M - 1) * 1 = M - 1
        /\ (M - 1) * 1 + 0 = M - 1 /\ M - 1 < M
    BY <1>0, Power, Widths
  <2>3. Or((M - 1) * 2^0, 0) = (M - 1) * 2^0 + 0
    <3>1. (M - 1) * 2^0 + 0 < 2^W64
      BY <2>2
    <3> HIDE DEF M
    <3> QED BY <2>2, <3>1, OrAdds
  <2>4. Or(M - 1, 0) = M - 1
    BY <2>2, <2>3
  <2> QED BY <1>0, <1>1, <2>1, <2>4, Full
<1>2. CASE ~(n >= W64)
  <2> DEFINE P == 2^n
             q == W64 - n
             Q == 2^(W64 - n)
             y == x \div P
  <2>1. q \in 0 .. W64 /\ q \in Nat /\ n \in 0 .. W64 /\ n + q = W64
    BY <1>0, <1>2, Widths
  <2>2. P \in Nat /\ P > 0 /\ Q \in Nat /\ Q > 0 /\ M = P * Q
    <3>1. 2^(n + q) = 2^n * 2^q
      BY <1>0, <2>1, PowerSum, Widths
    <3> QED BY <2>1, <3>1, Power
  <2>3. y \in Int /\ x % P \in 0 .. P - 1 /\ x = y * P + (x % P)
    <3> HIDE DEF P
    <3> QED BY <1>0, <2>2, Divided
  <2> HIDE DEF M, P, Q, y
  <2>4. y \in 0 .. Q - 1
    <3>1. y >= 0
      BY <1>0, <2>2 DEF y
    <3>2. ASSUME y >= Q PROVE FALSE
      <4>1. y * P >= Q * P
        BY <2>2, <2>3, <3>2
      <4> QED BY <1>0, <2>2, <2>3, <4>1
    <3> QED BY <2>2, <2>3, <3>1, <3>2
  <2>5. (M - 1) \div P = Q - 1
    <3>1. M - 1 = (Q - 1) * P + (P - 1)
      BY <2>2
    <3> QED BY <2>2, <3>1, Quotient
  <2>6. Vacated(n) = (P - 1) * Q /\ ShiftRight(x, n, W64) = y
    <3>1. ShiftRight(M - 1, n, W64) = (M - 1) \div P
      BY <1>2 DEF ShiftRight, P
    <3>2. Vacated(n) = (M - 1) - (Q - 1)
      BY <2>5, <3>1 DEF Vacated, M
    <3>3. (M - 1) - (Q - 1) = (P - 1) * Q
      BY <2>2
    <3> QED BY <1>2, <3>2, <3>3 DEF ShiftRight, y, P
  <2>7. (P - 1) * Q + y = (M - Q) + y /\ P - 1 \in Nat
    BY <2>2, <2>4
  <2>8. (M - Q) + y \in 0 .. M - 1
    <3>1. Q <= P * Q
      BY <2>2
    <3> QED BY <1>0, <2>2, <2>4, <3>1
  <2>9. Or((P - 1) * Q, y) = (P - 1) * Q + y
    <3>1. (P - 1) * 2^q + y < 2^W64
      BY <1>0, <2>7, <2>8 DEF M, Q
    <3>2. y \in 0 .. (2^q) - 1
      BY <2>4 DEF Q
    <3>3. Or((P - 1) * 2^q, y) = (P - 1) * 2^q + y
      BY <2>1, <2>7, <3>1, <3>2, OrAdds
    <3> QED BY <3>3 DEF Q
  <2>10. Signed(x, W64) = x - M
    BY DEF Signed, Negative, M
  <2>11. (x - M) \div P = y - Q
    <3>1. x - M = (y - Q) * P + (x % P) /\ y - Q \in Int
      <4>1. (y - Q) * P = y * P - P * Q /\ y * P \in Int /\ P * Q \in Int
        BY <2>2, <2>3
      <4> QED BY <1>0, <2>2, <2>3, <4>1
    <3> DEFINE r == x % P
               d == y - Q
               z == x - M
    <3>2. r \in Int /\ 0 <= r /\ r < P /\ d \in Int /\ z = d * P + r
      BY <2>2, <2>3, <3>1
    <3> HIDE DEF r, d, z
    <3>3. z \div P = d
      BY <2>2, <3>2, Quotient
    <3> QED BY <3>3 DEF z, d
  <2>12. (y - Q) % M = (M - Q) + y
    <3>1. y - Q \in Int /\ -M <= y - Q /\ y - Q < 0 /\ (y - Q) + M = (M - Q) + y
      <4>1. Q <= P * Q
        BY <2>2
      <4> QED BY <1>0, <2>2, <2>4, <4>1
    <3> QED BY <1>0, <3>1, Around
  <2>13. Low(Signed(x, W64) \div 2^n, W64) = (M - Q) + y
    BY <2>10, <2>11, <2>12 DEF Low, M, P
  <2> QED BY <1>2, <2>6, <2>7, <2>8, <2>9, <2>13, Full DEF M
<1> QED BY <1>1, <1>2

-----------------------------------------------------------------------------
(* The port.                                                               *)

LEMMA Driving ==
  /\ NoShift \in Inputs
  /\ \A b \in BOOLEAN, p \in Inputs :
       /\ Drive(b, p) \in [stb : BOOLEAN, arith : BOOLEAN, left : BOOLEAN, value : Data, shift : Data]
       /\ Drive(b, p).stb = b
BY Full DEF NoShift, Inputs, Drive

LEMMA Parts ==
  ASSUME TypeOK
  PROVE  /\ sh.ack \in BOOLEAN /\ sh.out \in Data /\ sh.state \in BOOLEAN /\ sh.tmp1 \in Data /\ sh.tmp2 \in Data
         /\ port.stb \in BOOLEAN /\ port.arith \in BOOLEAN /\ port.left \in BOOLEAN
         /\ port.value \in Data /\ port.shift \in Data /\ PortInputs \in Inputs
BY DEF TypeOK, Registers, Inputs, PortInputs

LEMMA ShiftInit == Init => ShiftInv
<1> SUFFICES ASSUME Init PROVE ShiftInv
  OBVIOUS
<1>1. sh \in Registers /\ ~sh.ack /\ ~sh.state
  BY Full DEF Init, ResetRegs, Registers
<1> QED BY <1>1, Driving DEF Init, ShiftInv, TypeOK, Latched, ResultCorrect

\* The first step: the temporaries are computed.
LEMMA Started ==
  ASSUME ShiftInv, Hold, ~sh.state
  PROVE  ShiftInv'
<1>1. port.stb /\ ~sh.ack /\ port' = port /\ sh' = Start(port) /\ asked' = PortInputs
  BY DEF Hold, Edge, Track
<1>2. TypeOK
  BY DEF ShiftInv
<1>3. sh' \in Registers
  BY <1>1, <1>2, Parts, ShiftTypes DEF Start, Registers
<1>4. /\ sh'.ack = sh.ack /\ sh'.state
      /\ sh'.tmp1 = (IF port.left THEN sh.tmp1 ELSE Vacated(port.shift))
      /\ sh'.tmp2 = (IF port.left THEN ShiftLeft(port.value, port.shift, W64)
                     ELSE ShiftRight(port.value, port.shift, W64))
  BY <1>1 DEF Start
<1>5. TypeOK'
  BY <1>1, <1>2, <1>3, Parts DEF TypeOK
<1>6. PortInputs' = PortInputs
  BY <1>1 DEF PortInputs
<1> QED BY <1>1, <1>4, <1>5, <1>6 DEF ShiftInv, Latched, ResultCorrect

\* The second step: the result is shown.
LEMMA Shown ==
  ASSUME ShiftInv, Hold, sh.state
  PROVE  ShiftInv'
<1>1. port.stb /\ ~sh.ack /\ port' = port /\ sh' = Present(port) /\ asked' = asked
  BY DEF Hold, Edge, Track
<1>2. TypeOK
  BY DEF ShiftInv
<1>3. /\ sh.tmp2 = (IF port.left THEN ShiftLeft(port.value, port.shift, W64)
                    ELSE ShiftRight(port.value, port.shift, W64))
      /\ ~port.left => sh.tmp1 = Vacated(port.shift)
      /\ asked = PortInputs
  BY DEF ShiftInv, Latched
<1> DEFINE out == IF ~port.left /\ port.arith /\ Negative(port.value) THEN Or(sh.tmp1, sh.tmp2) ELSE sh.tmp2
<1>4. out \in Data /\ out = ShiftOf(PortInputs)
  <2>1. /\ PortInputs.left = port.left /\ PortInputs.arith = port.arith
        /\ PortInputs.value = port.value /\ PortInputs.shift = port.shift
    BY DEF PortInputs
  <2>2. CASE ~port.left /\ port.arith /\ Negative(port.value)
    BY <1>2, <1>3, <2>1, <2>2, FilledWithOnes, Parts DEF ShiftOf
  <2>3. CASE ~(~port.left /\ port.arith /\ Negative(port.value))
    BY <1>2, <1>3, <2>1, <2>3, Parts DEF ShiftOf
  <2> QED BY <2>2, <2>3
<1>5. sh' = [ack |-> TRUE, out |-> out, state |-> sh.state, tmp1 |-> sh.tmp1, tmp2 |-> sh.tmp2]
  BY <1>1 DEF Present
<1> HIDE DEF out
<1>6. sh' \in Registers
  BY <1>2, <1>4, <1>5, Parts DEF Registers
<1>7. sh'.ack /\ sh'.state /\ sh'.out = out /\ sh'.tmp1 = sh.tmp1 /\ sh'.tmp2 = sh.tmp2
  BY <1>5
<1>8. TypeOK'
  BY <1>1, <1>2, <1>6 DEF TypeOK
<1>9. PortInputs' = PortInputs /\ ShiftOf(PortInputs)' = ShiftOf(PortInputs)
  BY <1>1 DEF PortInputs, ShiftOf
<1>10. ResultCorrect'
  BY <1>4, <1>7, <1>9 DEF ResultCorrect, ShiftOf
<1>11. Latched'
  BY <1>1, <1>3, <1>7, <1>9 DEF Latched
<1> QED BY <1>8, <1>10, <1>11 DEF ShiftInv

LEMMA ShiftStep == ShiftInv /\ [Next]_vars => ShiftInv'
<1> SUFFICES ASSUME ShiftInv, [Next]_vars PROVE ShiftInv'
  OBVIOUS
<1>0. TypeOK /\ Latched
  BY DEF ShiftInv
<1>1. ASSUME NEW p \in Requests, Ask(p) PROVE ShiftInv'
  <2>1. p \in Inputs
    BY RequestsAssumption
  <2>2. ~sh.state /\ ~sh.ack /\ ~port.stb
    BY <1>0, <1>1 DEF Latched, Ask
  <2>3. sh' = sh /\ asked' = asked /\ port' = Drive(TRUE, p)
    BY <1>1, <2>2 DEF Ask, Edge, Track
  <2>4. TypeOK'
    BY <1>0, <2>1, <2>3, Driving DEF TypeOK
  <2> QED BY <2>2, <2>3, <2>4 DEF ShiftInv, Latched, ResultCorrect
<1>2. CASE Take
  <2>1. sh' = Finish /\ asked' = asked /\ port' = Drive(FALSE, PortInputs)
    BY <1>2 DEF Take, Edge, Track
  <2>2. sh' \in Registers /\ ~sh'.ack /\ ~sh'.state
    BY <1>0, <2>1, Parts DEF Finish, Registers
  <2>3. TypeOK'
    BY <1>0, <2>1, <2>2, Parts, Driving DEF TypeOK
  <2> QED BY <2>2, <2>3 DEF ShiftInv, Latched, ResultCorrect
<1>3. CASE Rest
  <2>1. ~sh.state /\ ~sh.ack /\ ~port.stb
    BY <1>0, <1>3 DEF Latched, Rest
  <2>2. sh' = sh /\ asked' = asked /\ port' = port
    BY <1>3, <2>1 DEF Rest, Edge, Track
  <2> QED BY <1>0, <2>1, <2>2 DEF ShiftInv, TypeOK, Latched, ResultCorrect
<1>4. CASE Reset
  <2>1. sh' = ResetRegs /\ asked' = NoShift /\ port' = Drive(FALSE, NoShift)
    BY <1>4 DEF Reset, Edge
  <2>2. sh' \in Registers /\ ~sh'.ack /\ ~sh'.state
    BY <2>1, Full DEF ResetRegs, Registers
  <2>3. TypeOK'
    BY <2>1, <2>2, Driving DEF TypeOK
  <2> QED BY <2>2, <2>3 DEF ShiftInv, Latched, ResultCorrect
<1>5. CASE UNCHANGED vars
  BY <1>5 DEF vars, ShiftInv, TypeOK, Latched, ResultCorrect, PortInputs, ShiftOf
<1> QED BY <1>1, <1>2, <1>3, <1>4, <1>5, Started, Shown DEF Next

\* The shifter's registers and its ports always hold words of their widths
\* (shifter.v 14-23).
THEOREM ShiftTyped == Spec => []TypeOK
<1>1. ShiftInv => TypeOK
  BY DEF ShiftInv
<1> QED BY <1>1, ShiftInit, ShiftStep, PTL DEF Spec

\* The result shown with ack is the shift of the operands being presented, logical or
\* arithmetic, by any amount and at every width (shifter.v 25-43).
THEOREM ShiftsCorrect == Spec => []ResultCorrect
<1>1. ShiftInv => ResultCorrect
  BY DEF ShiftInv
<1> QED BY <1>1, ShiftInit, ShiftStep, PTL DEF Spec

\* ack is up only for the request that is being presented (shifter.v 25-43).
THEOREM AcksAreAsked == Spec => []NoStrayAck
<1>1. ShiftInv => NoStrayAck
  BY DEF ShiftInv, Latched, NoStrayAck
<1> QED BY <1>1, ShiftInit, ShiftStep, PTL DEF Spec
=============================================================================
