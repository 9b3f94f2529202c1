------------------------------ MODULE WordsProof ------------------------------
(***************************************************************************)
(* What the proofs about machine words rest on.  Induction is stated for   *)
(* sets instead of predicates, and proved from the fact that < is well     *)
(* founded on the natural numbers: a set that is not all of them would     *)
(* have a least number outside.                                            *)
(***************************************************************************)
EXTENDS Words, WellFoundedInduction, NaturalsInduction, TLAPS

\* < is well founded: a set of numbers has one with no smaller one.
LEMMA NoDescent ==
  ASSUME NEW T \in SUBSET Nat, T # {}
  PROVE  \E x \in T : \A y \in T : <<y, x>> \notin {ss \in Nat \X Nat : ss[1] < ss[2]}
<1>1. IsWellFoundedOn(OpToRel(<, Nat), Nat)
  BY NatLessThanWellFounded
<1>2. \E x \in T : \A y \in T : ~(<<y, x>> \in OpToRel(<, Nat))
  BY <1>1, WFMin
<1>3. OpToRel(<, Nat) = {ss \in Nat \X Nat : ss[1] < ss[2]}
  BY DEF OpToRel
<1> QED BY <1>2, <1>3, Zenon

LEMMA LeastNumber ==
  ASSUME NEW T \in SUBSET Nat, T # {}
  PROVE  \E x \in T : \A y \in T : x <= y
<1>1. PICK x \in T : \A y \in T : <<y, x>> \notin {ss \in Nat \X Nat : ss[1] < ss[2]}
  BY NoDescent, Zenon
<1>2. ASSUME NEW y \in T, y < x PROVE FALSE
  <2>1. <<y, x>> \in {ss \in Nat \X Nat : ss[1] < ss[2]}
    BY <1>2
  <2> QED BY <1>1, <2>1
<1> QED BY <1>2

\* Induction: what holds of 0, and of the number after each one it holds of.
LEMMA Induction ==
  ASSUME NEW S, 0 \in S, \A n \in Nat : n \in S => n + 1 \in S
  PROVE  Nat \subseteq S
<1> DEFINE T == Nat \ S
<1> SUFFICES ASSUME T # {} PROVE FALSE
  OBVIOUS
<1>1. PICK x \in T : \A y \in T : x <= y
  BY LeastNumber
<1>2. x # 0 /\ x - 1 \in Nat
  OBVIOUS
<1>3. x - 1 \in S
  BY <1>1, <1>2
<1>4. (x - 1) + 1 \in S
  BY <1>2, <1>3
<1> QED BY <1>2, <1>4

-----------------------------------------------------------------------------
(* Powers of two.                                                          *)

\* The widths are numbers of bits the powers are known for.
LEMMA Widths ==
  /\ ByteBits \in 1 .. W64 /\ W16 \in 1 .. W64 /\ W32 \in 1 .. W64 /\ W64 \in Nat \ {0}
  /\ \A i \in 0 .. 8 : i * ByteBits \in 0 .. W64
BY ByteBitsAssumption DEF W16, W32, W64

LEMMA Power ==
  /\ 2^0 = 1
  /\ \A n \in 0 .. W64 : 2^n \in Nat /\ 2^n > 0
  /\ \A n \in 1 .. W64 : 2^n = 2 * 2^(n - 1)
BY PowersAssumption, Widths

LEMMA ZeroWord == \A w \in 0 .. W64 : 0 \in Word(w)
BY Power, Widths DEF Word

\* Powers multiply.
LEMMA PowerSum ==
  ASSUME NEW m \in Nat, NEW n \in Nat, m + n <= W64
  PROVE  2^(m + n) = 2^m * 2^n
<1> DEFINE S == {k \in Nat : m + k <= W64 => 2^(m + k) = 2^m * 2^k}
<1>1. 0 \in S
  <2>1. m + 0 = m /\ m \in 0 .. W64
    BY Widths
  <2> QED BY <2>1, Power
<1>2. ASSUME NEW k \in Nat, k \in S PROVE k + 1 \in S
  <2> SUFFICES ASSUME m + (k + 1) <= W64 PROVE 2^(m + (k + 1)) = 2^m * 2^(k + 1)
    OBVIOUS
  <2>1. 2^(m + k) = 2^m * 2^k
    BY <1>2, Widths
  <2>2. m + (k + 1) \in 1 .. W64 /\ k + 1 \in 1 .. W64 /\ m \in 0 .. W64 /\ k \in 0 .. W64
    BY Widths
  <2>3. (m + (k + 1)) - 1 = m + k /\ (k + 1) - 1 = k
    OBVIOUS
  <2>4. 2^(m + (k + 1)) = 2 * 2^(m + k) /\ 2^(k + 1) = 2 * 2^k
    BY <2>2, <2>3, Power
  <2>5. 2^m \in Nat /\ 2^k \in Nat
    BY <2>2, Power
  <2> QED BY <2>1, <2>4, <2>5
<1>3. Nat \subseteq S
  <2> HIDE DEF S
  <2> QED BY <1>1, <1>2, Induction
<1>4. n \in S
  BY <1>3
<1> QED BY <1>4

-----------------------------------------------------------------------------
(* Division by a number that need not be known.                            *)

\* The quotient and the remainder are the only ones there are.
LEMMA Quotient ==
  ASSUME NEW n \in Nat, n > 0, NEW q \in Int, NEW r \in Int, 0 <= r, r < n
  PROVE  (q * n + r) \div n = q /\ (q * n + r) % n = r
OBVIOUS

\* Going round a memory of n bytes at most once.
LEMMA Around ==
  ASSUME NEW n \in Nat, n > 0, NEW x \in Int
  PROVE  /\ 0 <= x /\ x < n => x % n = x
         /\ n <= x /\ x < 2 * n => x % n = x - n
         /\ -n <= x /\ x < 0 => x % n = x + n
         /\ x % n \in 0 .. n - 1
<1>1. 0 <= x /\ x < n => x % n = x
  <2>1. x = 0 * n + x
    OBVIOUS
  <2> QED BY <2>1, Quotient
<1>2. n <= x /\ x < 2 * n => x % n = x - n
  <2>1. x = 1 * n + (x - n)
    OBVIOUS
  <2> QED BY <2>1, Quotient
<1>3. -n <= x /\ x < 0 => x % n = x + n
  <2>1. x = (-1) * n + (x + n)
    OBVIOUS
  <2> QED BY <2>1, Quotient
<1>4. x % n \in 0 .. n - 1
  OBVIOUS
<1> QED BY <1>1, <1>2, <1>3, <1>4

-----------------------------------------------------------------------------
(* The addresses of a memory of n bytes, which go round.                   *)

LEMMA EightBytes ==
  ASSUME NEW n \in 3 .. W64
  PROVE  2^n \in Nat /\ 2^n >= 8
<1>1. 2^1 = 2 /\ 2^2 = 4 /\ 2^3 = 8
  <2>1. 1 \in 1 .. W64 /\ 2 \in 1 .. W64 /\ 3 \in 1 .. W64
    BY Widths, ByteBitsAssumption DEF W64
  <2>2. 2^1 = 2 * 2^(1 - 1) /\ 2^2 = 2 * 2^(2 - 1) /\ 2^3 = 2 * 2^(3 - 1)
    BY <2>1, Power
  <2>3. 1 - 1 = 0 /\ 2 - 1 = 1 /\ 3 - 1 = 2
    OBVIOUS
  <2> QED BY <2>2, <2>3, Power
<1>2. n - 3 \in 0 .. W64 /\ n - 3 \in Nat /\ 3 \in Nat /\ 3 + (n - 3) = n /\ 3 + (n - 3) <= W64
  BY Widths
<1>3. 2^(3 + (n - 3)) = 2^3 * 2^(n - 3)
  BY <1>2, PowerSum
<1>4. 2^(n - 3) \in Nat /\ 2^(n - 3) >= 1
  BY <1>2, Power
<1> QED BY <1>1, <1>2, <1>3, <1>4

\* Going k bytes on from a and back.
LEMMA Onward ==
  ASSUME NEW n \in Nat, n > 0, NEW a \in 0 .. n - 1, NEW k \in 0 .. n - 1
  PROVE  (a + k) % n \in 0 .. n - 1 /\ (((a + k) % n) - a) % n = k
<1>1. CASE a + k < n
  <2>1. (a + k) % n = a + k /\ (a + k) - a = k /\ k % n = k
    BY <1>1, Around
  <2> QED BY <1>1, <2>1
<1>2. CASE a + k >= n
  <2>1. (a + k) % n = (a + k) - n
    BY <1>2, Around
  <2>2. ((a + k) - n) - a = k - n
    OBVIOUS
  <2>3. (k - n) % n = k
    BY Around
  <2>4. (a + k) - n \in 0 .. n - 1
    BY <1>2
  <2> QED BY <2>1, <2>2, <2>3, <2>4
<1> QED BY <1>1, <1>2

LEMMA BackAgain ==
  ASSUME NEW n \in Nat, n > 0, NEW a \in 0 .. n - 1, NEW b \in 0 .. n - 1
  PROVE  (b - a) % n \in 0 .. n - 1 /\ (a + ((b - a) % n)) % n = b
<1>1. CASE b >= a
  <2>1. (b - a) % n = b - a
    BY <1>1, Around
  <2>2. a + (b - a) = b /\ b % n = b
    BY Around
  <2> QED BY <1>1, <2>1, <2>2
<1>2. CASE b < a
  <2>1. (b - a) % n = (b - a) + n
    BY <1>2, Around
  <2>2. a + ((b - a) + n) = b + n /\ (b + n) % n = b
    BY Around
  <2> QED BY <1>2, <2>1, <2>2
<1> QED BY <1>1, <1>2

LEMMA OneFurther ==
  ASSUME NEW n \in Nat, n > 0, NEW a \in 0 .. n - 1, NEW k \in 0 .. n - 1
  PROVE  /\ (((a + k) % n) + 1) % n = (a + (k + 1)) % n
         /\ (a + (k + 1)) % n \in 0 .. n - 1 /\ (a + 0) % n = a
<1>1. (a + 0) % n = a /\ (a + (k + 1)) % n \in 0 .. n - 1
  <2>1. a + 0 = a /\ a % n = a /\ a + (k + 1) \in Int
    BY Around
  <2> QED BY <2>1, Around
<1>2. CASE a + k < n
  <2>1. (a + k) % n = a + k /\ (a + k) + 1 = a + (k + 1)
    BY <1>2, Around
  <2> QED BY <1>1, <2>1
<1>3. CASE a + k >= n
  <2>1. (a + k) % n = (a + k) - n
    BY <1>3, Around
  <2>2. a + (k + 1) = ((a + k) - n + 1) + n /\ (a + k) - n + 1 < n
    OBVIOUS
  <2>3. (a + (k + 1)) % n = (a + k) - n + 1 /\ ((a + k) - n + 1) % n = (a + k) - n + 1
    BY <1>3, <2>2, Around
  <2> QED BY <1>1, <2>1, <2>3
<1> QED BY <1>2, <1>3

-----------------------------------------------------------------------------
(* Sums given by a recursive function.                                     *)

\* f[k] is the sum of g[1] to g[k].
Sums(f, g, n) == f = [k \in 0 .. n |-> IF k = 0 THEN 0 ELSE f[k - 1] + g[k]]

LEMMA SumsExist ==
  ASSUME NEW n \in Nat, NEW g
  PROVE  \E f : Sums(f, g, n)
<1> DEFINE S == {k \in Nat : \E f : Sums(f, g, k)}
<1>1. 0 \in S
  <2> DEFINE f == [k \in 0 .. 0 |-> 0]
  <2>1. f = [k \in 0 .. 0 |-> IF k = 0 THEN 0 ELSE f[k - 1] + g[k]]
    OBVIOUS
  <2> QED BY <2>1 DEF Sums
<1>2. ASSUME NEW k \in Nat, k \in S PROVE k + 1 \in S
  <2>1. PICK f : Sums(f, g, k)
    BY <1>2
  <2> DEFINE h == [j \in 0 .. (k + 1) |-> IF j = k + 1 THEN f[k] + g[j] ELSE f[j]]
  <2>2. \A j \in 0 .. k : h[j] = f[j] /\ f[j] = IF j = 0 THEN 0 ELSE f[j - 1] + g[j]
    BY <2>1 DEF Sums
  <2>3. ASSUME NEW j \in 0 .. (k + 1)
        PROVE  h[j] = IF j = 0 THEN 0 ELSE h[j - 1] + g[j]
    <3>1. CASE j = k + 1
      BY <3>1
    <3>2. CASE j = 0
      <4>1. 0 \in 0 .. k
        OBVIOUS
      <4> QED BY <2>2, <3>2, <4>1
    <3>3. CASE j \in 1 .. k
      <4>1. j \in 0 .. k /\ j - 1 \in 0 .. k /\ j # 0
        BY <3>3
      <4>2. h[j] = f[j - 1] + g[j] /\ h[j - 1] = f[j - 1]
        BY <2>2, <4>1
      <4> QED BY <4>1, <4>2
    <3> QED BY <3>1, <3>2, <3>3
  <2>4. h = [j \in 0 .. (k + 1) |-> IF j = 0 THEN 0 ELSE h[j - 1] + g[j]]
    <3>1. DOMAIN h = 0 .. (k + 1) /\ h = [j \in 0 .. (k + 1) |-> h[j]]
      OBVIOUS
    <3> HIDE DEF h
    <3> QED BY <2>3, <3>1
  <2> HIDE DEF h
  <2> QED BY <2>4 DEF Sums
<1>3. Nat \subseteq S
  <2> HIDE DEF S
  <2> QED BY <1>1, <1>2, Induction
<1> QED BY <1>3

LEMMA SumsRule ==
  ASSUME NEW n \in Nat, NEW g, NEW f, Sums(f, g, n)
  PROVE  f[0] = 0 /\ \A k \in 1 .. n : f[k] = f[k - 1] + g[k]
BY DEF Sums

\* Sums of the same numbers are the same.
LEMMA SumsAgree ==
  ASSUME NEW n \in Nat, NEW m \in Nat, m <= n, NEW f, NEW g, NEW e, NEW h,
         Sums(f, g, n), Sums(e, h, m), \A k \in 1 .. m : g[k] = h[k]
  PROVE  \A k \in 0 .. m : f[k] = e[k]
<1> DEFINE S == {k \in Nat : k <= m => f[k] = e[k]}
<1>1. 0 \in S
  BY SumsRule
<1>2. ASSUME NEW k \in Nat, k \in S PROVE k + 1 \in S
  <2> SUFFICES ASSUME k + 1 <= m PROVE f[k + 1] = e[k + 1]
    OBVIOUS
  <2>1. f[k] = e[k] /\ k + 1 \in 1 .. m /\ k + 1 \in 1 .. n /\ (k + 1) - 1 = k
    BY <1>2
  <2> QED BY <2>1, SumsRule
<1>3. Nat \subseteq S
  <2> HIDE DEF S
  <2> QED BY <1>1, <1>2, Induction
<1> QED BY <1>3

-----------------------------------------------------------------------------
(* Bits.                                                                   *)

LEMMA Divided ==
  ASSUME NEW x \in Int, NEW n \in Nat, n > 0
  PROVE  x \div n \in Int /\ x % n \in 0 .. n - 1 /\ x = (x \div n) * n + (x % n)
OBVIOUS

\* Dividing twice.
LEMMA DividedTwice ==
  ASSUME NEW x \in Int, NEW n \in Nat, n > 0, NEW k \in Nat, k > 0
  PROVE  x \div (n * k) = (x \div n) \div k
<1> DEFINE y == x \div n
           r == x % n
           z == y \div k
           s == y % k
<1>1. y \in Int /\ r \in 0 .. n - 1 /\ x = y * n + r
  BY Divided
<1>2. z \in Int /\ s \in 0 .. k - 1 /\ y = z * k + s
  <2> HIDE DEF y
  <2> QED BY <1>1, Divided
<1> HIDE DEF y, r, z, s
<1>3. s * n + r \in Int /\ 0 <= s * n + r /\ s * n + r < n * k
  <2>1. s * n <= (k - 1) * n /\ 0 <= s * n /\ s * n \in Int
    BY <1>2
  <2>2. (k - 1) * n = n * k - n
    OBVIOUS
  <2> QED BY <1>1, <2>1, <2>2
<1>4. x = z * (n * k) + (s * n + r)
  <2>1. (z * k + s) * n = z * (n * k) + s * n
    BY <1>2
  <2> QED BY <1>1, <1>2, <2>1
<1>5. n * k \in Nat /\ n * k > 0
  OBVIOUS
<1>6. x \div (n * k) = z
  <2> DEFINE m == n * k
             t == s * n + r
  <2>1. m \in Nat /\ m > 0 /\ t \in Int /\ 0 <= t /\ t < m /\ x = z * m + t
    BY <1>3, <1>4, <1>5
  <2> HIDE DEF m, t
  <2>2. x \div m = z
    BY <1>2, <2>1, Quotient
  <2> QED BY <2>2 DEF m
<1> QED BY <1>6 DEF z, y

\* One bit more: the remainder by 2 * n is the one by n with the next bit in front.
LEMMA OneBitMore ==
  ASSUME NEW x \in Int, NEW n \in Nat, n > 0
  PROVE  x % (2 * n) = (x % n) + n * ((x \div n) % 2)
<1> DEFINE y == x \div n
           r == x % n
           z == y \div 2
           b == y % 2
<1>1. y \in Int /\ r \in 0 .. n - 1 /\ x = y * n + r
  BY Divided
<1>2. z \in Int /\ b \in 0 .. 1 /\ y = z * 2 + b
  <2> HIDE DEF y
  <2> QED BY <1>1, Divided
<1> HIDE DEF y, r, z, b
<1> DEFINE m == 2 * n
           t == r + n * b
<1>3. t \in Int /\ 0 <= t /\ t < m /\ m \in Nat /\ m > 0
  <2>1. CASE b = 0
    BY <1>1, <2>1
  <2>2. CASE b = 1
    BY <1>1, <2>2
  <2> QED BY <1>2, <2>1, <2>2
<1>4. x = z * m + t
  <2>1. (z * 2 + b) * n = z * (2 * n) + n * b
    BY <1>2
  <2>2. n * b \in Int
    BY <1>2
  <2> QED BY <1>1, <1>2, <2>1, <2>2
<1>5. x % m = t
  <2> HIDE DEF m, t
  <2> QED BY <1>2, <1>3, <1>4, Quotient
<1> QED BY <1>5 DEF y, r, b

\* The bits above and below place q: c * 2^q has none below it, y < 2^q none from it on.
LEMMA HighAndLow ==
  ASSUME NEW q \in 0 .. W64, NEW c \in Nat, NEW y \in 0 .. (2^q) - 1, NEW n \in 0 .. W64 - 1
  PROVE  /\ ((c * 2^q) \div 2^n) % 2 \in 0 .. 1 /\ (y \div 2^n) % 2 \in 0 .. 1
         /\ ((c * 2^q + y) \div 2^n) % 2 =
              IF (((c * 2^q) \div 2^n) % 2) + ((y \div 2^n) % 2) = 0 THEN 0 ELSE 1
<1> DEFINE Q == 2^q
           N == 2^n
<1>1. Q \in Nat /\ Q > 0 /\ N \in Nat /\ N > 0 /\ y \in Nat /\ y < Q
  BY Power, Widths
<1>2. CASE n < q
  <2> DEFINE R == 2^(q - n - 1)
             h == y \div N
             l == y % N
  <2>1. Q = (2 * R) * N /\ R \in Nat /\ R > 0
    <3>1. q - n - 1 \in 0 .. W64 /\ q - n \in 1 .. W64 /\ n \in Nat /\ q - n \in Nat /\ n + (q - n) = q
          /\ n + (q - n) <= W64
      BY <1>2, Widths
    <3>2. 2^q = N * 2^(q - n)
      BY <3>1, PowerSum
    <3>3. 2^(q - n) = 2 * R
      BY <3>1, Power
    <3>4. R \in Nat /\ R > 0
      BY <3>1, Power
    <3> HIDE DEF N, R
    <3> QED BY <1>1, <3>2, <3>3, <3>4
  <2>2. h \in Int /\ l \in 0 .. N - 1 /\ y = h * N + l
    <3> HIDE DEF N
    <3> QED BY <1>1, Divided
  <2> DEFINE g == (c * R) * 2
  <2> HIDE DEF Q, N, R, h, l
  <2>3. g \in Int /\ g + h \in Int /\ c * Q = g * N + 0 /\ c * Q + y = (g + h) * N + l
    <3>1. c * Q = ((c * R) * 2) * N
      BY <1>1, <2>1
    <3>2. g \in Int /\ c * R \in Int
      BY <2>1
    <3> HIDE DEF g
    <3>3. (g + h) * N = g * N + h * N /\ g * N \in Int /\ h * N \in Int
      BY <1>1, <2>2, <3>2
    <3> QED BY <1>1, <2>2, <3>1, <3>2, <3>3 DEF g
  <2>4. (c * Q) \div N = g /\ (c * Q + y) \div N = g + h
    <3> HIDE DEF g
    <3> QED BY <1>1, <2>2, <2>3, Quotient
  <2>5. g % 2 = 0
    <3>1. c * R \in Int /\ g = (c * R) * 2 + 0
      BY <2>1
    <3> QED BY <3>1, Quotient
  <2>6. (g + h) % 2 = h % 2
    <3> DEFINE e == c * R
               u == h \div 2
               v == h % 2
    <3>1. e \in Int
      BY <2>1
    <3>2. u \in Int /\ v \in 0 .. 1 /\ h = u * 2 + v
      BY <2>2, Divided
    <3> HIDE DEF e, u, v
    <3>3. e * 2 + h = (e + u) * 2 + v /\ e + u \in Int
      BY <3>1, <3>2
    <3>4. (e * 2 + h) % 2 = v
      BY <3>2, <3>3, Quotient
    <3> QED BY <3>4 DEF e, v
  <2>7. h % 2 \in 0 .. 1
    BY <2>2
  <2> HIDE DEF g
  <2>8. /\ ((c * Q) \div N) % 2 = 0 /\ ((c * Q + y) \div N) % 2 = h % 2 /\ (y \div N) % 2 = h % 2
    BY <2>4, <2>5, <2>6 DEF h
  <2> QED BY <2>7, <2>8 DEF Q, N
<1>3. CASE n >= q
  <2> DEFINE R == 2^(n - q)
             d == c \div R
  <2>1. N = Q * R /\ R \in Nat /\ R > 0
    <3>1. n - q \in 0 .. W64 /\ q \in Nat /\ n - q \in Nat /\ q + (n - q) = n /\ q + (n - q) <= W64
      BY <1>3, Widths
    <3>2. 2^(q + (n - q)) = 2^q * 2^(n - q)
      BY <3>1, PowerSum
    <3> QED BY <3>1, <3>2, Power
  <2> HIDE DEF Q, N, R
  <2>2. c * Q = c * Q + 0 /\ c * Q \in Int /\ c * Q + y \in Int
    BY <1>1
  <2>3. (c * Q) \div Q = c /\ (c * Q + y) \div Q = c
    BY <1>1, <2>2, Quotient
  <2>4. (c * Q) \div (Q * R) = ((c * Q) \div Q) \div R /\ (c * Q + y) \div (Q * R) = ((c * Q + y) \div Q) \div R
    BY <1>1, <2>1, <2>2, DividedTwice
  <2>5. (c * Q) \div N = d /\ (c * Q + y) \div N = d
    BY <2>1, <2>3, <2>4
  <2>6. y \div N = 0
    <3>1. Q <= Q * R
      BY <1>1, <2>1
    <3>2. y = 0 * N + y /\ y < N /\ 0 <= y
      BY <1>1, <2>1, <3>1
    <3> QED BY <1>1, <3>2, Quotient
  <2>7. d % 2 \in 0 .. 1 /\ 0 % 2 = 0
    <3>1. d \in Int
      BY <2>1, Divided
    <3> QED BY <3>1
  <2> HIDE DEF d
  <2>8. ((c * Q) \div N) % 2 = d % 2 /\ ((c * Q + y) \div N) % 2 = d % 2 /\ (y \div N) % 2 = 0
    BY <2>5, <2>6, <2>7
  <2> QED BY <2>7, <2>8 DEF Q, N
<1> QED BY <1>2, <1>3, Widths

\* What bit k - 1 adds to Or(x, y).
OrTerms(x, y) ==
  [k \in 1 .. W64 |->
     2^(k - 1) * (IF ((x \div 2^(k - 1)) % 2) + ((y \div 2^(k - 1)) % 2) = 0 THEN 0 ELSE 1)]

LEMMA OrIsSum ==
  ASSUME NEW x, NEW y
  PROVE  \E f : Or(x, y) = f[W64] /\ Sums(f, OrTerms(x, y), W64)
<1> DEFINE P(v) == v = [n \in 0 .. W64 |-> IF n = 0 THEN 0
                        ELSE v[n - 1] + 2^(n - 1) *
                               (IF ((x \div 2^(n - 1)) % 2) + ((y \div 2^(n - 1)) % 2) = 0 THEN 0 ELSE 1)]
           val == CHOOSE v : P(v)
<1>1. Or(x, y) = val[W64]
  BY Zenon DEF Or, BitByBit
<1>2. ASSUME NEW v PROVE P(v) <=> Sums(v, OrTerms(x, y), W64)
  <2>1. \A k \in 0 .. W64 : k # 0 => k \in 1 .. W64
    BY Widths
  <2> QED BY <2>1 DEF Sums, OrTerms
<1>3. \E v : P(v)
  <2>1. \E v : Sums(v, OrTerms(x, y), W64)
    BY SumsExist, Widths
  <2> HIDE DEF P
  <2> QED BY <1>2, <2>1
<1>4. P(val)
  <2> HIDE DEF P
  <2> QED BY <1>3, Zenon
<1>5. Sums(val, OrTerms(x, y), W64)
  <2> HIDE DEF P, val
  <2> QED BY <1>2, <1>4
<1> HIDE DEF P, val
<1> QED BY <1>1, <1>5

\* Or of two words that have no bits in common is their sum.
LEMMA OrAdds ==
  ASSUME NEW q \in 0 .. W64, NEW c \in Nat, NEW y \in 0 .. (2^q) - 1, c * 2^q + y < 2^W64
  PROVE  Or(c * 2^q, y) = c * 2^q + y
<1> DEFINE x == c * 2^q
           v == c * 2^q + y
<1>1. x \in Nat /\ y \in Nat /\ v \in Nat
  <2>1. 2^q \in Nat
    BY Power
  <2> QED BY <2>1
<1>2. PICK f : Or(x, y) = f[W64] /\ Sums(f, OrTerms(x, y), W64)
  BY OrIsSum
<1>3. f[0] = 0 /\ \A k \in 1 .. W64 : f[k] = f[k - 1] + OrTerms(x, y)[k]
  BY <1>2, SumsRule, Widths
<1> DEFINE S == {n \in Nat : n <= W64 => f[n] = v % 2^n}
<1>4. 0 \in S
  <2>1. v = v * 1 + 0
    BY <1>1
  <2>2. v % 1 = 0
    <3> HIDE DEF v
    <3> QED BY <1>1, <2>1, Quotient
  <2> QED BY <1>3, <2>2, Power
<1>5. ASSUME NEW n \in Nat, n \in S PROVE n + 1 \in S
  <2> SUFFICES ASSUME n + 1 <= W64 PROVE f[n + 1] = v % 2^(n + 1)
    OBVIOUS
  <2>1. n \in 0 .. W64 /\ n \in 0 .. W64 - 1 /\ n + 1 \in 1 .. W64 /\ (n + 1) - 1 = n
    BY Widths
  <2>2. f[n] = v % 2^n
    BY <1>5, <2>1
  <2> DEFINE b == (v \div 2^n) % 2
  <2>3. OrTerms(x, y)[n + 1] = 2^n * b
    <3>1. OrTerms(x, y)[n + 1] =
            2^n * (IF ((x \div 2^n) % 2) + ((y \div 2^n) % 2) = 0 THEN 0 ELSE 1)
      BY <2>1 DEF OrTerms
    <3>2. b = IF ((x \div 2^n) % 2) + ((y \div 2^n) % 2) = 0 THEN 0 ELSE 1
      BY <2>1, HighAndLow
    <3> HIDE DEF b
    <3> QED BY <3>1, <3>2
  <2>4. f[n + 1] = f[n] + OrTerms(x, y)[n + 1]
    BY <1>3, <2>1
  <2>5. 2^(n + 1) = 2 * 2^n /\ 2^n \in Nat /\ 2^n > 0
    BY <2>1, Power
  <2>6. v % (2 * 2^n) = (v % 2^n) + 2^n * b
    <3> HIDE DEF v
    <3> QED BY <1>1, <2>5, OneBitMore
  <2> QED BY <2>2, <2>3, <2>4, <2>5, <2>6
<1>6. Nat \subseteq S
  <2> HIDE DEF S
  <2> QED BY <1>4, <1>5, Induction
<1>7. f[W64] = v % 2^W64
  BY <1>6, Widths
<1>8. v % 2^W64 = v
  <2>1. 2^W64 \in Nat /\ 2^W64 > 0
    BY Power, Widths
  <2> HIDE DEF v
  <2> QED BY <1>1, <2>1, Around DEF v
<1> QED BY <1>2, <1>7, <1>8

-----------------------------------------------------------------------------
(* Bits of a sum of powers, and the low bits of what is computed bit by bit. *)

\* A number that adds 2^(k-1) or nothing for each k has the bits it was given.
LEMMA BitSum ==
  ASSUME NEW f, NEW g, Sums(f, g, W64), \A k \in 1 .. W64 : g[k] \in {0, 2^(k - 1)}
  PROVE  \A n \in 0 .. W64 : f[n] \in 0 .. (2^n) - 1 /\ f[W64] % 2^n = f[n]
<1>1. f[0] = 0 /\ \A k \in 1 .. W64 : f[k] = f[k - 1] + g[k]
  BY SumsRule, Widths
<1> DEFINE S == {n \in Nat : n <= W64 => f[n] \in 0 .. (2^n) - 1}
<1>2. 0 \in S
  BY <1>1, Power
<1>3. ASSUME NEW n \in Nat, n \in S PROVE n + 1 \in S
  <2> SUFFICES ASSUME n + 1 <= W64 PROVE f[n + 1] \in 0 .. (2^(n + 1)) - 1
    OBVIOUS
  <2>1. n + 1 \in 1 .. W64 /\ n \in 0 .. W64 /\ (n + 1) - 1 = n
    BY Widths
  <2>2. f[n] \in 0 .. (2^n) - 1 /\ f[n + 1] = f[n] + g[n + 1] /\ g[n + 1] \in {0, 2^n}
    BY <1>1, <1>3, <2>1
  <2>3. 2^n \in Nat /\ 2^n > 0 /\ 2^(n + 1) = 2 * 2^n
    BY <2>1, Power
  <2> QED BY <2>2, <2>3
<1>4. Nat \subseteq S
  <2> HIDE DEF S
  <2> QED BY <1>2, <1>3, Induction
<1>5. \A n \in 0 .. W64 : f[n] \in 0 .. (2^n) - 1
  BY <1>4
<1>6. ASSUME NEW n \in 0 .. W64 PROVE f[W64] % 2^n = f[n]
  <2> DEFINE T == {m \in Nat : n + m <= W64 => \E c \in Nat : f[n + m] = c * 2^n + f[n]}
  <2>0. 2^n \in Nat /\ 2^n > 0 /\ f[n] \in 0 .. (2^n) - 1
    BY <1>5, Power
  <2>1. 0 \in T
    <3>1. n + 0 = n /\ f[n] = 0 * 2^n + f[n]
      BY <2>0
    <3> QED BY <3>1
  <2>2. ASSUME NEW m \in Nat, m \in T PROVE m + 1 \in T
    <3> SUFFICES ASSUME n + (m + 1) <= W64
                 PROVE  \E c \in Nat : f[n + (m + 1)] = c * 2^n + f[n]
      OBVIOUS
    <3>1. n + m \in Nat /\ n + m <= W64 /\ n + m \in 0 .. W64 /\ n + (m + 1) \in 1 .. W64
          /\ (n + (m + 1)) - 1 = n + m /\ m \in 0 .. W64 /\ n \in Nat
      BY Widths
    <3>2. PICK c \in Nat : f[n + m] = c * 2^n + f[n]
      BY <2>2, <3>1
    <3>3. f[n + (m + 1)] = f[n + m] + g[n + (m + 1)] /\ g[n + (m + 1)] \in {0, 2^(n + m)}
      BY <1>1, <3>1
    <3>4. 2^(n + m) = 2^n * 2^m /\ 2^m \in Nat
      BY <3>1, PowerSum, Power
    <3>5. c + 2^m \in Nat /\ (c + 2^m) * 2^n = c * 2^n + 2^n * 2^m /\ c * 2^n \in Nat
          /\ 2^n * 2^m \in Nat
      BY <2>0, <3>4
    <3>6. CASE g[n + (m + 1)] = 0
      BY <2>0, <3>2, <3>3, <3>5, <3>6
    <3>7. CASE g[n + (m + 1)] = 2^(n + m)
      <4>1. f[n + (m + 1)] = (c + 2^m) * 2^n + f[n]
        BY <2>0, <3>2, <3>3, <3>4, <3>5, <3>7
      <4> QED BY <3>5, <4>1
    <3> QED BY <3>3, <3>6, <3>7
  <2>3. Nat \subseteq T
    <3> HIDE DEF T
    <3> QED BY <2>1, <2>2, Induction
  <2>4. W64 - n \in Nat /\ n + (W64 - n) = W64
    BY Widths
  <2>5. PICK c \in Nat : f[W64] = c * 2^n + f[n]
    <3>1. W64 - n \in T
      BY <2>3, <2>4
    <3> QED BY <2>4, <3>1
  <2> DEFINE N == 2^n
             v == f[n]
  <2>6. N \in Nat /\ N > 0 /\ v \in Int /\ 0 <= v /\ v < N /\ c \in Int /\ f[W64] = c * N + v
    BY <2>0, <2>5
  <2> HIDE DEF N, v
  <2>7. f[W64] % N = v
    BY <2>6, Quotient
  <2> QED BY <2>7 DEF N, v
<1> QED BY <1>5, <1>6

AndTerms(x, y) ==
  [k \in 1 .. W64 |-> 2^(k - 1) * (((x \div 2^(k - 1)) % 2) * ((y \div 2^(k - 1)) % 2))]
XorTerms(x, y) ==
  [k \in 1 .. W64 |-> 2^(k - 1) * ((((x \div 2^(k - 1)) % 2) + ((y \div 2^(k - 1)) % 2)) % 2)]

LEMMA AndIsSum ==
  ASSUME NEW x, NEW y
  PROVE  \E f : And(x, y) = f[W64] /\ Sums(f, AndTerms(x, y), W64)
<1> DEFINE P(v) == v = [n \in 0 .. W64 |-> IF n = 0 THEN 0
                        ELSE v[n - 1] + 2^(n - 1) *
                               (((x \div 2^(n - 1)) % 2) * ((y \div 2^(n - 1)) % 2))]
           val == CHOOSE v : P(v)
<1>1. And(x, y) = val[W64]
  BY Zenon DEF And, BitByBit
<1>2. ASSUME NEW v PROVE P(v) <=> Sums(v, AndTerms(x, y), W64)
  <2>1. \A k \in 0 .. W64 : k # 0 => k \in 1 .. W64
    BY Widths
  <2> QED BY <2>1 DEF Sums, AndTerms
<1>3. \E v : P(v)
  <2>1. \E v : Sums(v, AndTerms(x, y), W64)
    BY SumsExist, Widths
  <2> HIDE DEF P
  <2> QED BY <1>2, <2>1
<1>4. P(val)
  <2> HIDE DEF P
  <2> QED BY <1>3, Zenon
<1>5. Sums(val, AndTerms(x, y), W64)
  <2> HIDE DEF P, val
  <2> QED BY <1>2, <1>4
<1> HIDE DEF P, val
<1> QED BY <1>1, <1>5

LEMMA XorIsSum ==
  ASSUME NEW x, NEW y
  PROVE  \E f : Xor(x, y) = f[W64] /\ Sums(f, XorTerms(x, y), W64)
<1> DEFINE P(v) == v = [n \in 0 .. W64 |-> IF n = 0 THEN 0
                        ELSE v[n - 1] + 2^(n - 1) *
                               ((((x \div 2^(n - 1)) % 2) + ((y \div 2^(n - 1)) % 2)) % 2)]
           val == CHOOSE v : P(v)
<1>1. Xor(x, y) = val[W64]
  BY Zenon DEF Xor, BitByBit
<1>2. ASSUME NEW v PROVE P(v) <=> Sums(v, XorTerms(x, y), W64)
  <2>1. \A k \in 0 .. W64 : k # 0 => k \in 1 .. W64
    BY Widths
  <2> QED BY <2>1 DEF Sums, XorTerms
<1>3. \E v : P(v)
  <2>1. \E v : Sums(v, XorTerms(x, y), W64)
    BY SumsExist, Widths
  <2> HIDE DEF P
  <2> QED BY <1>2, <2>1
<1>4. P(val)
  <2> HIDE DEF P
  <2> QED BY <1>3, Zenon
<1>5. Sums(val, XorTerms(x, y), W64)
  <2> HIDE DEF P, val
  <2> QED BY <1>2, <1>4
<1> HIDE DEF P, val
<1> QED BY <1>1, <1>5

LEMMA BitTerms ==
  ASSUME NEW x \in Int, NEW y \in Int
  PROVE  \A k \in 1 .. W64 : /\ OrTerms(x, y)[k] \in {0, 2^(k - 1)}
                             /\ AndTerms(x, y)[k] \in {0, 2^(k - 1)}
                             /\ XorTerms(x, y)[k] \in {0, 2^(k - 1)}
<1> TAKE k \in 1 .. W64
<1> DEFINE N == 2^(k - 1)
           a == (x \div N) % 2
           b == (y \div N) % 2
<1>1. N \in Nat /\ N > 0
  <2>1. k - 1 \in 0 .. W64
    BY Widths
  <2> QED BY <2>1, Power
<1>2. a \in {0, 1} /\ b \in {0, 1}
  <2> HIDE DEF N
  <2>1. x \div N \in Int /\ y \div N \in Int
    BY <1>1, Divided
  <2> QED BY <2>1
<1>3. /\ OrTerms(x, y)[k] = N * (IF a + b = 0 THEN 0 ELSE 1)
      /\ AndTerms(x, y)[k] = N * (a * b)
      /\ XorTerms(x, y)[k] = N * ((a + b) % 2)
  BY DEF OrTerms, AndTerms, XorTerms
<1> HIDE DEF N, a, b
<1>4. (IF a + b = 0 THEN 0 ELSE 1) \in {0, 1} /\ a * b \in {0, 1} /\ (a + b) % 2 \in {0, 1}
  BY <1>2
<1>5. N * 0 = 0 /\ N * 1 = N
  BY <1>1
<1> QED BY <1>3, <1>4, <1>5 DEF N

\* Bit by bit, a word gives a word, and its low w bits depend on the low w bits only.
LEMMA BitwiseWord ==
  ASSUME NEW x \in Int, NEW y \in Int
  PROVE  Or(x, y) \in Word(W64) /\ And(x, y) \in Word(W64) /\ Xor(x, y) \in Word(W64)
<1>0. W64 \in 0 .. W64
  BY Widths
<1>1. Or(x, y) \in Word(W64)
  <2>1. PICK f : Or(x, y) = f[W64] /\ Sums(f, OrTerms(x, y), W64)
    BY OrIsSum
  <2>2. \A k \in 1 .. W64 : OrTerms(x, y)[k] \in {0, 2^(k - 1)}
    BY BitTerms
  <2>3. f[W64] \in 0 .. (2^W64) - 1
    BY <1>0, <2>1, <2>2, BitSum
  <2> QED BY <2>1, <2>3 DEF Word
<1>2. And(x, y) \in Word(W64)
  <2>1. PICK f : And(x, y) = f[W64] /\ Sums(f, AndTerms(x, y), W64)
    BY AndIsSum
  <2>2. \A k \in 1 .. W64 : AndTerms(x, y)[k] \in {0, 2^(k - 1)}
    BY BitTerms
  <2>3. f[W64] \in 0 .. (2^W64) - 1
    BY <1>0, <2>1, <2>2, BitSum
  <2> QED BY <2>1, <2>3 DEF Word
<1>3. Xor(x, y) \in Word(W64)
  <2>1. PICK f : Xor(x, y) = f[W64] /\ Sums(f, XorTerms(x, y), W64)
    BY XorIsSum
  <2>2. \A k \in 1 .. W64 : XorTerms(x, y)[k] \in {0, 2^(k - 1)}
    BY BitTerms
  <2>3. f[W64] \in 0 .. (2^W64) - 1
    BY <1>0, <2>1, <2>2, BitSum
  <2> QED BY <2>1, <2>3 DEF Word
<1> QED BY <1>1, <1>2, <1>3

-----------------------------------------------------------------------------
(* Arithmetic modulo a number that need not be known.                      *)

LEMMA ModShift ==
  ASSUME NEW m \in Nat, m > 0, NEW x \in Int, NEW c \in Int
  PROVE  (x + c * m) % m = x % m
<1> DEFINE q == x \div m
           t == x % m
<1>1. q \in Int /\ t \in 0 .. m - 1 /\ x = q * m + t
  BY Divided
<1> HIDE DEF q, t
<1>2. x + c * m = (q + c) * m + t /\ q + c \in Int
  <2>1. (q + c) * m = q * m + c * m /\ q * m \in Int /\ c * m \in Int
    BY <1>1
  <2> QED BY <1>1, <2>1
<1>3. (x + c * m) % m = t
  BY <1>1, <1>2, Quotient
<1> QED BY <1>3 DEF t

\* Equal remainders: the numbers are a multiple apart.
LEMMA ModEqual ==
  ASSUME NEW m \in Nat, m > 0, NEW x \in Int, NEW y \in Int, x % m = y % m
  PROVE  \E c \in Int : y = x + c * m
<1> DEFINE q == x \div m
           p == y \div m
           t == x % m
<1>1. q \in Int /\ p \in Int /\ t \in Int /\ x = q * m + t /\ y = p * m + t
  BY Divided
<1> HIDE DEF q, p, t
<1>2. p - q \in Int /\ (p - q) * m = p * m - q * m /\ p * m \in Int /\ q * m \in Int
  BY <1>1
<1>3. y = x + (p - q) * m
  BY <1>1, <1>2
<1> QED BY <1>2, <1>3

LEMMA ModProduct ==
  \A x, y, z \in Int, m \in Nat : m > 0 /\ y % m = z % m => (x * y) % m = (x * z) % m
<1> SUFFICES ASSUME NEW x \in Int, NEW y \in Int, NEW z \in Int, NEW m \in Nat, m > 0, y % m = z % m
             PROVE  (x * y) % m = (x * z) % m
  OBVIOUS
<1> DEFINE u == x * y
<1>1. PICK c \in Int : z = y + c * m
  BY ModEqual
<1>2. x * z = x * y + (x * c) * m /\ x * c \in Int /\ u \in Int
  BY <1>1
<1> DEFINE e == x * c
<1>3. e \in Int /\ u \in Int /\ x * z = u + e * m
  BY <1>2
<1> HIDE DEF e, u
<1>4. (u + e * m) % m = u % m
  BY <1>3, ModShift
<1> QED BY <1>3, <1>4 DEF u

\* Sums, differences and products of the same remainders have the same remainder.
LEMMA ModArithmetic ==
  ASSUME NEW m \in Nat, m > 0, NEW x \in Int, NEW y \in Int, NEW z \in Int, y % m = z % m
  PROVE  /\ (x + y) % m = (x + z) % m
         /\ (x - y) % m = (x - z) % m
         /\ (x * y) % m = (x * z) % m
         /\ (y * x) % m = (z * x) % m
         /\ (-y) % m = (-z) % m
<1>1. PICK c \in Int : z = y + c * m
  BY ModEqual
<1>2. c * m \in Int /\ -c \in Int /\ (-c) * m = -(c * m) /\ x * c \in Int
      /\ x + y \in Int /\ x - y \in Int /\ x * y \in Int /\ -y \in Int
  OBVIOUS
<1>3. x + z = (x + y) + c * m /\ x - z = (x - y) + (-c) * m /\ -z = (-y) + (-c) * m
  BY <1>1, <1>2
<1>5. y * x = x * y /\ z * x = x * z
  OBVIOUS
<1>6. (x + z) % m = (x + y) % m
  <2> DEFINE u == x + y
  <2>1. u \in Int /\ x + z = u + c * m
    BY <1>2, <1>3
  <2> HIDE DEF u
  <2>2. (x + z) % m = u % m
    BY <2>1, ModShift
  <2> QED BY <2>2 DEF u
<1>7. (x - z) % m = (x - y) % m /\ (-z) % m = (-y) % m
  <2> DEFINE u == x - y
             v == -y
             e == -c
  <2>1. u \in Int /\ v \in Int /\ e \in Int /\ x - z = u + e * m /\ -z = v + e * m
    BY <1>2, <1>3
  <2> HIDE DEF u, v, e
  <2>2. (u + e * m) % m = u % m
    BY <2>1, ModShift
  <2>3. (v + e * m) % m = v % m
    BY <2>1, ModShift
  <2> QED BY <2>1, <2>2, <2>3 DEF u, v
<1>8. (x * z) % m = (x * y) % m
  BY ModProduct
<1> QED BY <1>5, <1>6, <1>7, <1>8

\* The remainder by a multiple of k says everything about the remainder by k.
LEMMA ModAgain ==
  ASSUME NEW k \in Nat, k > 0, NEW j \in Nat, j > 0, NEW x \in Int
  PROVE  (x % (k * j)) % k = x % k
<1> DEFINE m == k * j
           q == x \div m
           t == x % m
<1>1. m \in Nat /\ m > 0
  OBVIOUS
<1>2. q \in Int /\ t \in Int /\ x = q * m + t
  <2> HIDE DEF m
  <2> QED BY <1>1, Divided
<1>3. q * m = (q * j) * k /\ q * j \in Int
  <2> HIDE DEF q
  <2> QED BY <1>2
<1> DEFINE e == q * j
<1> HIDE DEF q, t, e, m
<1>4. x = t + e * k /\ e \in Int
  <2>1. e * k \in Int
    BY <1>3 DEF e
  <2> QED BY <1>2, <1>3, <2>1 DEF e
<1>5. x % k = t % k
  BY <1>2, <1>4, ModShift
<1> QED BY <1>5 DEF t, m

\* Truncating twice, and truncating what fits.
LEMMA LowLow ==
  ASSUME NEW v \in 0 .. W64, NEW w \in 0 .. W64, v <= w, NEW x \in Int
  PROVE  /\ Low(x, v) \in Word(v) /\ Low(Low(x, w), v) = Low(x, v)
         /\ x \in Word(v) => Low(x, v) = x
         /\ Word(v) \subseteq Word(w)
<1> DEFINE V == 2^v
           J == 2^(w - v)
<1>1. V \in Nat /\ V > 0 /\ J \in Nat /\ J > 0 /\ 2^w = V * J
  <2>1. w - v \in Nat /\ v \in Nat /\ v + (w - v) = w /\ v + (w - v) <= W64 /\ w - v \in 0 .. W64
    BY Widths
  <2>2. 2^(v + (w - v)) = 2^v * 2^(w - v)
    BY <2>1, PowerSum
  <2> QED BY <2>1, <2>2, Power
<1> HIDE DEF V, J
<1>2. x % V \in 0 .. V - 1 /\ (x % (V * J)) % V = x % V
  BY <1>1, ModAgain, Divided
<1>3. x \in 0 .. V - 1 => x % V = x
  BY <1>1, Around
<1>4. V <= V * J
  BY <1>1
<1>5. Word(v) = 0 .. V - 1 /\ Word(w) = 0 .. (V * J) - 1 /\ Low(x, v) = x % V
      /\ Low(Low(x, w), v) = (x % (V * J)) % V
  BY <1>1 DEF Word, Low, V
<1> QED BY <1>1, <1>2, <1>3, <1>4, <1>5

\* The low bits of a quotient by a smaller power are bits of the low part.
LEMMA BitOfLow ==
  ASSUME NEW n \in 0 .. W64, NEW k \in 1 .. n, NEW y \in Int
  PROVE  (y \div 2^(k - 1)) % 2 = ((y % 2^n) \div 2^(k - 1)) % 2
<1> DEFINE N == 2^(k - 1)
           R == 2^(n - k)
           M == 2^n
           q == y \div M
           t == y % M
           h == t \div N
           l == t % N
<1>1. N \in Nat /\ N > 0 /\ R \in Nat /\ R > 0 /\ M = (2 * R) * N /\ M \in Nat /\ M > 0
  <2>1. k - 1 \in Nat /\ n - k \in Nat /\ n - k \in 0 .. W64 /\ k - 1 \in 0 .. W64
        /\ n - (k - 1) \in Nat /\ n - (k - 1) \in 1 .. W64 /\ (n - (k - 1)) - 1 = n - k
        /\ (k - 1) + (n - (k - 1)) = n /\ (k - 1) + (n - (k - 1)) <= W64
    BY Widths
  <2>2. 2^((k - 1) + (n - (k - 1))) = N * 2^(n - (k - 1))
    BY <2>1, PowerSum
  <2>3. 2^(n - (k - 1)) = 2 * R
    BY <2>1, Power
  <2>4. N \in Nat /\ N > 0 /\ R \in Nat /\ R > 0 /\ M \in Nat /\ M > 0
    BY <2>1, Power
  <2>5. M = N * (2 * R)
    BY <2>1, <2>2, <2>3
  <2> HIDE DEF N, R, M
  <2> QED BY <2>4, <2>5
<1>2. q \in Int /\ t \in 0 .. M - 1 /\ t \in Int /\ y = q * M + t
  <2> HIDE DEF M
  <2> QED BY <1>1, Divided
<1>3. h \in Int /\ l \in 0 .. N - 1 /\ t = h * N + l
  <2> HIDE DEF N, t
  <2> QED BY <1>1, <1>2, Divided
<1> HIDE DEF N, R, M, q, t, h, l
<1> DEFINE g == (q * R) * 2
<1>4. y = (g + h) * N + l /\ g + h \in Int /\ g \in Int /\ q * R \in Int
  <2>1. q * M = ((q * R) * 2) * N /\ q * R \in Int
    BY <1>1, <1>2
  <2>2. g \in Int
    BY <2>1
  <2> HIDE DEF g
  <2>3. (g + h) * N = g * N + h * N /\ g * N \in Int /\ h * N \in Int
    BY <1>1, <1>3, <2>2
  <2> QED BY <1>2, <1>3, <2>1, <2>2, <2>3 DEF g
<1>5. y \div N = g + h
  <2> HIDE DEF g
  <2> QED BY <1>1, <1>3, <1>4, Quotient
<1>6. (g + h) % 2 = h % 2
  <2> DEFINE e == q * R
  <2>1. e \in Int /\ g + h = h + e * 2
    BY <1>3, <1>4
  <2> HIDE DEF e, g
  <2>2. (h + e * 2) % 2 = h % 2
    BY <1>3, <2>1, ModShift
  <2> QED BY <2>1, <2>2
<1> QED BY <1>5, <1>6 DEF N, M, h, t

\* Functions of the bits agree as long as the bits do.
LEMMA SumsSame ==
  ASSUME NEW n \in Nat, NEW m \in Nat, m <= n, NEW f, NEW g, NEW e, NEW h,
         Sums(f, g, n), Sums(e, h, n), \A k \in 1 .. m : g[k] = h[k]
  PROVE  f[m] = e[m]
<1> DEFINE S == {k \in Nat : k <= m => f[k] = e[k]}
<1>1. 0 \in S
  BY SumsRule
<1>2. ASSUME NEW k \in Nat, k \in S PROVE k + 1 \in S
  <2> SUFFICES ASSUME k + 1 <= m PROVE f[k + 1] = e[k + 1]
    OBVIOUS
  <2>1. f[k] = e[k] /\ k + 1 \in 1 .. m /\ k + 1 \in 1 .. n /\ (k + 1) - 1 = k
    BY <1>2
  <2> QED BY <2>1, SumsRule
<1>3. Nat \subseteq S
  <2> HIDE DEF S
  <2> QED BY <1>1, <1>2, Induction
<1> QED BY <1>3

\* The low n bits of x and y bit by bit do not depend on the other bits of y.
LEMMA BitwiseLow ==
  ASSUME NEW n \in 0 .. W64, NEW x \in Int, NEW y \in Int, NEW z \in Int, Low(y, n) = Low(z, n)
  PROVE  /\ Low(Or(x, y), n) = Low(Or(x, z), n)
         /\ Low(And(x, y), n) = Low(And(x, z), n)
         /\ Low(Xor(x, y), n) = Low(Xor(x, z), n)
<1>1. ASSUME NEW k \in 1 .. n PROVE (y \div 2^(k - 1)) % 2 = (z \div 2^(k - 1)) % 2
  <2>1. /\ (y \div 2^(k - 1)) % 2 = ((y % 2^n) \div 2^(k - 1)) % 2
        /\ (z \div 2^(k - 1)) % 2 = ((z % 2^n) \div 2^(k - 1)) % 2
    BY BitOfLow
  <2> QED BY <2>1 DEF Low
<1>2. \A k \in 1 .. n : k \in 1 .. W64
  BY Widths
<1>3. n \in Nat /\ n <= W64 /\ W64 \in Nat /\ n \in 0 .. n
  BY Widths
<1>4. Low(Or(x, y), n) = Low(Or(x, z), n)
  <2>1. PICK f : Or(x, y) = f[W64] /\ Sums(f, OrTerms(x, y), W64)
    BY OrIsSum
  <2>2. PICK e : Or(x, z) = e[W64] /\ Sums(e, OrTerms(x, z), W64)
    BY OrIsSum
  <2>3. /\ \A k \in 1 .. W64 : OrTerms(x, y)[k] \in {0, 2^(k - 1)}
        /\ \A k \in 1 .. W64 : OrTerms(x, z)[k] \in {0, 2^(k - 1)}
    BY BitTerms
  <2>4. f[W64] % 2^n = f[n] /\ e[W64] % 2^n = e[n]
    BY <2>1, <2>2, <2>3, BitSum
  <2>5. \A k \in 1 .. n : OrTerms(x, y)[k] = OrTerms(x, z)[k]
    BY <1>1, <1>2 DEF OrTerms
  <2>6. f[n] = e[n]
    BY <1>2, <1>3, <2>1, <2>2, <2>5, SumsSame
  <2> QED BY <2>1, <2>2, <2>4, <2>6 DEF Low
<1>5. Low(And(x, y), n) = Low(And(x, z), n)
  <2>1. PICK f : And(x, y) = f[W64] /\ Sums(f, AndTerms(x, y), W64)
    BY AndIsSum
  <2>2. PICK e : And(x, z) = e[W64] /\ Sums(e, AndTerms(x, z), W64)
    BY AndIsSum
  <2>3. /\ \A k \in 1 .. W64 : AndTerms(x, y)[k] \in {0, 2^(k - 1)}
        /\ \A k \in 1 .. W64 : AndTerms(x, z)[k] \in {0, 2^(k - 1)}
    BY BitTerms
  <2>4. f[W64] % 2^n = f[n] /\ e[W64] % 2^n = e[n]
    BY <2>1, <2>2, <2>3, BitSum
  <2>5. \A k \in 1 .. n : AndTerms(x, y)[k] = AndTerms(x, z)[k]
    BY <1>1, <1>2 DEF AndTerms
  <2>6. f[n] = e[n]
    BY <1>2, <1>3, <2>1, <2>2, <2>5, SumsSame
  <2> QED BY <2>1, <2>2, <2>4, <2>6 DEF Low
<1>6. Low(Xor(x, y), n) = Low(Xor(x, z), n)
  <2>1. PICK f : Xor(x, y) = f[W64] /\ Sums(f, XorTerms(x, y), W64)
    BY XorIsSum
  <2>2. PICK e : Xor(x, z) = e[W64] /\ Sums(e, XorTerms(x, z), W64)
    BY XorIsSum
  <2>3. /\ \A k \in 1 .. W64 : XorTerms(x, y)[k] \in {0, 2^(k - 1)}
        /\ \A k \in 1 .. W64 : XorTerms(x, z)[k] \in {0, 2^(k - 1)}
    BY BitTerms
  <2>4. f[W64] % 2^n = f[n] /\ e[W64] % 2^n = e[n]
    BY <2>1, <2>2, <2>3, BitSum
  <2>5. \A k \in 1 .. n : XorTerms(x, y)[k] = XorTerms(x, z)[k]
    BY <1>1, <1>2 DEF XorTerms
  <2>6. f[n] = e[n]
    BY <1>2, <1>3, <2>1, <2>2, <2>5, SumsSame
  <2> QED BY <2>1, <2>2, <2>4, <2>6 DEF Low
<1> QED BY <1>4, <1>5, <1>6

\* No bit is common to a number and zero.
LEMMA AndZero ==
  ASSUME NEW x \in Int, NEW y \in Int, x = 0 \/ y = 0
  PROVE  And(x, y) = 0
<1>1. PICK f : And(x, y) = f[W64] /\ Sums(f, AndTerms(x, y), W64)
  BY AndIsSum
<1>2. ASSUME NEW k \in 1 .. W64 PROVE AndTerms(x, y)[k] = 0
  <2>1. 2^(k - 1) \in Nat /\ 2^(k - 1) > 0
    BY Power, Widths
  <2> DEFINE p == 2^(k - 1)
             a == (x \div p) % 2
             b == (y \div p) % 2
  <2>2. a \in Int /\ b \in Int
    <3> HIDE DEF p
    <3>1. p \in Int /\ p > 0
      BY <2>1 DEF p
    <3>2. x \div p \in Int /\ y \div p \in Int
      BY <3>1
    <3> QED BY <3>2
  <2>3. a = 0 \/ b = 0
    <3> HIDE DEF p
    <3>1. p \in Int /\ p > 0
      BY <2>1 DEF p
    <3>2. 0 \div p = 0
      BY <3>1
    <3> QED BY <3>2
  <2>4. AndTerms(x, y)[k] = p * (a * b)
    BY DEF AndTerms
  <2>5. p * (a * b) = 0
    <3> HIDE DEF p, a, b
    <3>1. a * b = 0
      BY <2>2, <2>3
    <3> QED BY <2>1, <3>1 DEF p
  <2> QED BY <2>4, <2>5
<1>3. f[0] = 0 /\ \A k \in 1 .. W64 : f[k] = f[k - 1] + AndTerms(x, y)[k]
  BY <1>1, SumsRule, Widths
<1> DEFINE S == {n \in Nat : n <= W64 => f[n] = 0}
<1>4. 0 \in S
  BY <1>3
<1>5. ASSUME NEW n \in Nat, n \in S PROVE n + 1 \in S
  <2> SUFFICES ASSUME n + 1 <= W64 PROVE f[n + 1] = 0
    OBVIOUS
  <2>1. n + 1 \in 1 .. W64 /\ (n + 1) - 1 = n /\ f[n] = 0
    BY <1>5, Widths
  <2>2. f[n + 1] = f[n] + AndTerms(x, y)[n + 1]
    BY <1>3, <2>1
  <2> QED BY <1>2, <2>1, <2>2
<1>6. Nat \subseteq S
  <2> HIDE DEF S
  <2> QED BY <1>4, <1>5, Induction
<1>7. W64 \in Nat
  BY Widths
<1> QED BY <1>1, <1>6, <1>7

-----------------------------------------------------------------------------
(* Signs, and shifts.                                                      *)

\* Widening by the sign keeps the number that is meant, and its low bits.
LEMMA SignExtended ==
  ASSUME NEW v \in 1 .. W64, NEW w \in v .. W64, NEW x \in Word(v)
  PROVE  /\ SignExtend(x, v, w) \in Word(w)
         /\ Signed(SignExtend(x, v, w), w) = Signed(x, v)
         /\ Low(SignExtend(x, v, w), v) = x
         /\ x < 2^(v - 1) => SignExtend(x, v, w) = x
         /\ SignExtend(x, v, w) = 0 <=> x = 0
         /\ Signed(x, v) \in -(2^(v - 1)) .. (2^(v - 1)) - 1
         /\ SignExtend(x, v, w) >= 2^(w - 1) <=> x >= 2^(v - 1)
<1> DEFINE H == 2^(v - 1)
           V == 2^v
           J == 2^(w - v)
           W == 2^w
           K == 2^(w - 1)
           n == Signed(x, v)
           e == SignExtend(x, v, w)
<1>1. /\ H \in Nat /\ H > 0 /\ V = 2 * H /\ J \in Nat /\ J > 0 /\ W = J * V /\ W = 2 * K
      /\ K \in Nat /\ K >= H /\ V \in Nat /\ W \in Nat /\ W >= V
  <2>1. /\ v - 1 \in 0 .. W64 /\ w - v \in 0 .. W64 /\ w - v \in Nat /\ v - 1 \in Nat
        /\ w \in 1 .. W64 /\ w - 1 \in 0 .. W64 /\ v \in Nat
        /\ (w - v) + v = w /\ (w - v) + v <= W64
        /\ (w - v) + (v - 1) = w - 1 /\ (w - v) + (v - 1) <= W64
    BY Widths
  <2>2. V = 2 * H /\ W = 2 * K /\ H \in Nat /\ H > 0 /\ J \in Nat /\ J > 0 /\ K \in Nat
    BY <2>1, Power
  <2>3. 2^((w - v) + v) = J * V /\ 2^((w - v) + (v - 1)) = J * H
    BY <2>1, PowerSum
  <2>4. W = J * V /\ K = J * H
    BY <2>1, <2>3
  <2> HIDE DEF H, V, J, W, K
  <2>5. J * H >= H
    BY <2>2
  <2> QED BY <2>2, <2>4, <2>5
<1>2. x \in Nat /\ x < V
  BY <1>1 DEF Word
<1>3. n = (IF x >= H THEN x - V ELSE x) /\ e = n % W
  BY DEF Signed, SignExtend, Low
<1>4. Signed(e, w) = (IF e >= K THEN e - W ELSE e) /\ Low(e, v) = e % V
  BY DEF Signed, Low
<1> HIDE DEF H, V, J, W, K, n, e
<1>5. n \in Int /\ n >= -H /\ n < H
  BY <1>1, <1>2, <1>3
<1>6. CASE x < H
  <2>1. n = x /\ e = x
    BY <1>1, <1>2, <1>3, <1>6, Around
  <2>2. e % V = x
    BY <1>1, <1>2, <2>1, Around
  <2> QED BY <1>1, <1>2, <1>3, <1>4, <1>5, <1>6, <2>1, <2>2 DEF Word, H, W, K, n, e
<1>7. CASE x >= H
  <2>1. n = x - V /\ n < 0 /\ -W <= n
    BY <1>1, <1>2, <1>3, <1>7
  <2>2. e = n + W
    BY <1>1, <1>3, <1>5, <2>1, Around
  <2>3. e >= K /\ e \in Nat /\ e < W /\ e - W = n /\ e # 0
    BY <1>1, <1>5, <2>1, <2>2
  <2>4. e % V = x
    <3>1. e = x + (J - 1) * V /\ J - 1 \in Int
      <4>1. (J - 1) * V = J * V - V /\ J * V \in Int
        BY <1>1
      <4> QED BY <1>1, <1>2, <2>1, <2>2, <4>1
    <3>2. (x + (J - 1) * V) % V = x % V
      <4> DEFINE c == J - 1
      <4>1. c \in Int /\ x \in Int /\ V \in Nat /\ V > 0
        BY <1>1, <1>2
      <4> HIDE DEF c
      <4>2. (x + c * V) % V = x % V
        BY <4>1, ModShift
      <4> QED BY <4>2 DEF c
    <3>3. x % V = x
      BY <1>1, <1>2, Around
    <3> QED BY <3>1, <3>2, <3>3
  <2> QED BY <1>1, <1>2, <1>3, <1>4, <1>5, <1>7, <2>1, <2>2, <2>3, <2>4 DEF Word, H, W, K, n, e
<1> QED BY <1>1, <1>2, <1>6, <1>7

\* The number of bits is less than half the number of words.
LEMMA WidthSmall == 2 * W32 <= 2^W32
<1> DEFINE S == {n \in Nat : n + 4 <= W64 => 2 * (n + 4) <= 2^(n + 4)}
<1>1. 0 \in S
  <2>1. 1 \in 1 .. W64 /\ 2 \in 1 .. W64 /\ 3 \in 1 .. W64 /\ 4 \in 1 .. W64
    BY Widths, ByteBitsAssumption DEF W64
  <2>2. 2^1 = 2 * 2^(1 - 1) /\ 2^2 = 2 * 2^(2 - 1) /\ 2^3 = 2 * 2^(3 - 1) /\ 2^4 = 2 * 2^(4 - 1)
    BY <2>1, Power
  <2>3. 1 - 1 = 0 /\ 2 - 1 = 1 /\ 3 - 1 = 2 /\ 4 - 1 = 3 /\ 0 + 4 = 4
    OBVIOUS
  <2> QED BY <2>2, <2>3, Power
<1>2. ASSUME NEW n \in Nat, n \in S PROVE n + 1 \in S
  <2> SUFFICES ASSUME (n + 1) + 4 <= W64 PROVE 2 * ((n + 1) + 4) <= 2^((n + 1) + 4)
    OBVIOUS
  <2>1. n + 4 <= W64 /\ (n + 1) + 4 \in 1 .. W64 /\ ((n + 1) + 4) - 1 = n + 4 /\ n + 4 \in 0 .. W64
    BY Widths
  <2>2. 2 * (n + 4) <= 2^(n + 4) /\ 2^((n + 1) + 4) = 2 * 2^(n + 4) /\ 2^(n + 4) \in Nat
    BY <1>2, <2>1, Power
  <2> QED BY <2>2
<1>3. Nat \subseteq S
  <2> HIDE DEF S
  <2> QED BY <1>1, <1>2, Induction
<1>4. W32 - 4 \in Nat /\ (W32 - 4) + 4 = W32 /\ W32 <= W64
  BY ByteBitsAssumption DEF W32, W64
<1>5. W32 - 4 \in S
  BY <1>3, <1>4
<1> QED BY <1>4, <1>5

\* Words are integers, and widths are where the lemmas on words want them.
LEMMA WordInt ==
  /\ \A w \in 0 .. W64 : \A x \in Word(w) : x \in Int /\ x >= 0 /\ x < 2^w
  /\ W32 \in 0 .. W64 /\ W64 \in 0 .. W64 /\ W16 \in 0 .. W64 /\ W32 <= W64 /\ W32 \in Nat /\ W64 \in Nat
BY Widths, Power DEF Word

\* A word shifted right is a smaller word.
LEMMA ShiftedWord ==
  ASSUME NEW v \in 0 .. W64, NEW x \in Word(v), NEW n \in Int, n >= 0
  PROVE  /\ n < W64 => x \div 2^n \in Word(v) /\ x \div 2^n \in Int
         /\ ShiftRight(x, n, W64) \in Word(v)
         /\ \A y \in Int : ShiftLeft(y, n, W64) \in Word(W64)
<1>1. n < W64 => x \div 2^n \in Word(v) /\ x \div 2^n \in Int
  <2> SUFFICES ASSUME n < W64 PROVE x \div 2^n \in Word(v) /\ x \div 2^n \in Int
    OBVIOUS
  <2> DEFINE N == 2^n
             h == x \div N
             l == x % N
  <2>1. N \in Nat /\ N > 0
    <3>1. n \in 0 .. W64
      BY WordInt
    <3> QED BY <3>1, Power
  <2>2. x \in Int /\ x >= 0 /\ x < 2^v /\ 2^v \in Nat
    BY WordInt, Power
  <2>3. h \in Int /\ l \in 0 .. N - 1 /\ x = h * N + l
    <3> HIDE DEF N
    <3> QED BY <2>1, <2>2, Divided
  <2> HIDE DEF N, h, l
  <2>4. h >= 0
    <3>1. ASSUME h <= -1 PROVE FALSE
      <4>1. h * N <= (-1) * N /\ h * N \in Int
        BY <2>1, <2>3, <3>1
      <4> QED BY <2>1, <2>2, <2>3, <4>1
    <3> QED BY <2>3, <3>1
  <2>5. h <= x
    <3>1. h * N >= h /\ h * N \in Int
      BY <2>1, <2>3, <2>4
    <3> QED BY <2>1, <2>2, <2>3, <3>1
  <2> QED BY <2>2, <2>3, <2>4, <2>5 DEF Word, h, N
<1>2. 0 \in Word(v) /\ 0 \in Word(W64)
  BY ZeroWord, WordInt
<1>3. \A y \in Int : ShiftLeft(y, n, W64) \in Word(W64)
  <2> TAKE y \in Int
  <2>1. CASE n >= W64
    BY <1>2, <2>1 DEF ShiftLeft
  <2>2. CASE ~(n >= W64)
    <3>1. n \in 0 .. W64
      BY <2>2, WordInt
    <3>2. y * 2^n \in Int
      BY <3>1, Power
    <3>3. Low(y * 2^n, W64) \in Word(W64)
      BY <3>2, WordInt, LowLow
    <3> QED BY <2>2, <3>3 DEF ShiftLeft
  <2> QED BY <2>1, <2>2
<1>4. ShiftRight(x, n, W64) \in Word(v)
  BY <1>1, <1>2, WordInt DEF ShiftRight
<1> QED BY <1>1, <1>3, <1>4

LEMMA PowerAbove == 2^(W64 + 1) \in Nat /\ 2^(W64 + 1) = 2 * 2^W64
<1>1. W64 \in Nat /\ W64 + 1 \in 0 .. W64 + 1 /\ W64 + 1 \in 1 .. W64 + 1 /\ (W64 + 1) - 1 = W64
  BY Widths
<1> QED BY <1>1, PowersAssumption

\* A number is less than its power of two.
LEMMA PowerLarger == \A n \in 0 .. W64 : n < 2^n
<1> DEFINE S == {n \in Nat : n <= W64 => n < 2^n}
<1>1. 0 \in S
  BY Power
<1>2. ASSUME NEW n \in Nat, n \in S PROVE n + 1 \in S
  <2> SUFFICES ASSUME n + 1 <= W64 PROVE n + 1 < 2^(n + 1)
    OBVIOUS
  <2>1. n + 1 \in 1 .. W64 /\ n \in 0 .. W64 /\ (n + 1) - 1 = n
    BY Widths
  <2>2. 2^(n + 1) = 2 * 2^n /\ 2^n \in Nat
    BY <2>1, Power
  <2> QED BY <1>2, <2>1, <2>2
<1>3. Nat \subseteq S
  <2> HIDE DEF S
  <2> QED BY <1>1, <1>2, Induction
<1> QED BY <1>3, Widths

\* The bytes of a number.
LEMMA ByteTyped ==
  ASSUME NEW x \in Int, NEW i \in 0 .. 7
  PROVE  Byte(x, i) \in Word(ByteBits)
<1>1. 2^(i * ByteBits) \in Nat /\ 2^(i * ByteBits) > 0 /\ 2^ByteBits \in Nat /\ 2^ByteBits > 0
  BY Widths, Power
<1>2. x \div 2^(i * ByteBits) \in Int
  BY <1>1
<1> QED BY <1>1, <1>2, Around DEF Byte, Word

\* A digit of the low part of a number is a digit of the number.
LEMMA DigitOfLow ==
  ASSUME NEW y \in Int, NEW N \in Nat, N > 0, NEW B \in Nat, B > 0, NEW R \in Nat, R > 0
  PROVE  (y \div N) % B = ((y % ((B * R) * N)) \div N) % B
<1> DEFINE M == (B * R) * N
           q == y \div M
           t == y % M
           h == t \div N
           l == t % N
<1>1. M \in Nat /\ M > 0
  <2>1. B * R \in Nat /\ B * R > 0
    OBVIOUS
  <2> DEFINE c == B * R
  <2> HIDE DEF c
  <2>2. c * N \in Nat /\ c * N > 0
    BY <2>1 DEF c
  <2> QED BY <2>2 DEF c
<1>2. q \in Int /\ t \in Int /\ y = q * M + t
  <2> HIDE DEF M
  <2> QED BY <1>1, Divided
<1>3. h \in Int /\ l \in 0 .. N - 1 /\ t = h * N + l
  <2> HIDE DEF t
  <2> QED BY <1>1, <1>2, Divided
<1> HIDE DEF q, t, h, l
<1> DEFINE e == q * R
           g == e * B
<1>4. e \in Int /\ g \in Int /\ q * M = g * N
  BY <1>2
<1> HIDE DEF M, e, g
<1>5. y = (g + h) * N + l /\ g + h \in Int /\ g + h = h + e * B
  <2>1. (g + h) * N = g * N + h * N /\ g * N \in Int /\ h * N \in Int
    BY <1>3, <1>4
  <2>2. g + h = h + e * B
    BY <1>3, <1>4 DEF g
  <2> QED BY <1>2, <1>3, <1>4, <2>1, <2>2
<1>6. y \div N = g + h
  BY <1>3, <1>5, Quotient
<1>7. (h + e * B) % B = h % B
  BY <1>3, <1>4, ModShift
<1> QED BY <1>5, <1>6, <1>7 DEF h, t, M

\* The bytes of the low part of a number.
LEMMA ByteOfLow ==
  ASSUME NEW x \in Int, NEW n \in 1 .. 8, NEW k \in 0 .. n - 1
  PROVE  Byte(Low(x, n * ByteBits), k) = Byte(x, k)
<1> DEFINE N == 2^(k * ByteBits)
           B == 2^ByteBits
           j == (n - 1) - k
           R == 2^(j * ByteBits)
<1>1. N \in Nat /\ N > 0 /\ B \in Nat /\ B > 0 /\ R \in Nat /\ R > 0
  <2>1. k \in 0 .. 8 /\ j \in 0 .. 8
    OBVIOUS
  <2>2. k * ByteBits \in 0 .. W64 /\ j * ByteBits \in 0 .. W64 /\ ByteBits \in 0 .. W64
    BY <2>1, Widths
  <2> QED BY <2>2, Power
<1>2. 2^(n * ByteBits) = (B * R) * N
  <2>1. k \in 0 .. 8 /\ j \in 0 .. 8 /\ n \in 0 .. 8 /\ j \in Int
    OBVIOUS
  <2>2. /\ k * ByteBits \in Nat /\ ByteBits \in Nat /\ j * ByteBits \in Nat /\ n * ByteBits <= W64 /\ n * ByteBits \in Nat
    BY <2>1, Widths
  <2>3. n * ByteBits = (ByteBits + j * ByteBits) + k * ByteBits
    <3> DEFINE b == ByteBits
    <3>1. b \in Nat
      BY <2>2
    <3> HIDE DEF b
    <3>2. n * b = (b + j * b) + k * b
      <4>1. n = (1 + j) + k
        BY <2>1
      <4> HIDE DEF j
      <4>2. ((1 + j) + k) * b = (b + j * b) + k * b
        BY <2>1, <3>1
      <4> QED BY <4>1, <4>2
    <3> QED BY <3>2 DEF b
  <2> HIDE DEF j
  <2>7. ByteBits + j * ByteBits <= W64
    BY <2>2, <2>3, Widths
  <2>4. 2^(ByteBits + j * ByteBits) = B * R
    BY <2>2, <2>7, PowerSum
  <2>5. ByteBits + j * ByteBits \in Nat
    BY <2>2
  <2>6. 2^((ByteBits + j * ByteBits) + k * ByteBits) = 2^(ByteBits + j * ByteBits) * N
    BY <2>2, <2>3, <2>5, PowerSum
  <2> QED BY <2>3, <2>4, <2>6
<1>3. (x \div N) % B = ((x % ((B * R) * N)) \div N) % B
  <2> HIDE DEF N, B, R
  <2> QED BY <1>1, DigitOfLow
<1> QED BY <1>2, <1>3 DEF Byte, Low

\* A word with one of its bytes replaced is a word.
LEMMA ByteReplaced ==
  ASSUME NEW x \in Word(W64), NEW i \in 0 .. 7, NEW b \in Word(ByteBits)
  PROVE  x + (b - Byte(x, i)) * 2^(i * ByteBits) \in Word(W64)
<1> DEFINE P == 2^(i * ByteBits)
           B == 2^ByteBits
           H == 2^((7 - i) * ByteBits)
           M == 2^W64
           q == x \div P
           l == x % P
           h == q \div B
           c == q % B
<1>1. P \in Nat /\ P > 0 /\ B \in Nat /\ B > 0 /\ H \in Nat /\ H > 0
  <2>1. 7 - i \in 0 .. 8 /\ i \in 0 .. 8
    OBVIOUS
  <2>2. (7 - i) * ByteBits \in 0 .. W64 /\ i * ByteBits \in 0 .. W64 /\ ByteBits \in 0 .. W64
    BY <2>1, Widths
  <2> QED BY <2>2, Power
<1>2. M = (P * B) * H
  <2>1. /\ i * ByteBits \in Nat /\ ByteBits \in Nat /\ (7 - i) * ByteBits \in Nat
        /\ (i * ByteBits + ByteBits) + (7 - i) * ByteBits = W64
        /\ i * ByteBits + ByteBits \in Nat /\ i * ByteBits + ByteBits <= W64
    BY ByteBitsAssumption DEF W64
  <2>2. 2^(i * ByteBits + ByteBits) = P * B
    BY <2>1, PowerSum
  <2>3. 2^((i * ByteBits + ByteBits) + (7 - i) * ByteBits) = 2^(i * ByteBits + ByteBits) * H
    BY <2>1, PowerSum, Widths
  <2> QED BY <2>1, <2>2, <2>3
<1>3. x \in Int /\ x >= 0 /\ x < M /\ b \in 0 .. B - 1
  BY WordInt DEF Word
<1>4. q \in Int /\ l \in 0 .. P - 1 /\ x = q * P + l
  <2> HIDE DEF P
  <2> QED BY <1>1, <1>3, Divided
<1>5. h \in Int /\ c \in 0 .. B - 1 /\ q = h * B + c
  <2> HIDE DEF q, B
  <2> QED BY <1>1, <1>4, Divided
<1>6. Byte(x, i) = c
  BY DEF Byte
<1> HIDE DEF P, B, H, M, q, l, h, c
<1>7. x = h * (P * B) + (c * P + l) /\ c * P + l \in 0 .. (P * B) - 1
  <2>1. q * P = h * (P * B) + c * P
    BY <1>1, <1>5
  <2>2. c * P \in Int /\ c * P >= 0 /\ c * P <= (B - 1) * P /\ (B - 1) * P = P * B - P /\ P * B \in Int
        /\ h * (P * B) \in Int
    BY <1>1, <1>5
  <2> QED BY <1>1, <1>4, <2>1, <2>2
<1>8. P * B \in Nat /\ P * B > 0
  BY <1>1
<1>9. h \in 0 .. H - 1
  <2> DEFINE D == P * B
  <2>1. D \in Nat /\ D > 0 /\ x = h * D + (c * P + l) /\ c * P + l \in 0 .. D - 1 /\ M = D * H
    BY <1>2, <1>7, <1>8
  <2> HIDE DEF D
  <2>2. ASSUME h <= -1 PROVE FALSE
    <3>1. h * D <= (-1) * D /\ h * D \in Int
      BY <1>5, <2>1, <2>2
    <3> QED BY <1>3, <2>1, <3>1
  <2>3. ASSUME h >= H PROVE FALSE
    <3>1. h * D >= H * D /\ h * D \in Int /\ H * D = D * H
      BY <1>1, <1>5, <2>1, <2>3
    <3> QED BY <1>3, <2>1, <3>1
  <2> QED BY <1>1, <1>5, <2>2, <2>3
<1>10. x + (b - c) * P = h * (P * B) + (b * P + l) /\ b * P + l \in 0 .. (P * B) - 1
  <2>1. (b - c) * P = b * P - c * P /\ b * P \in Int /\ c * P \in Int /\ h * (P * B) \in Int
    BY <1>1, <1>3, <1>5
  <2>2. b * P >= 0 /\ b * P <= (B - 1) * P /\ (B - 1) * P = P * B - P /\ P * B \in Int
    BY <1>1, <1>3
  <2> DEFINE t == h * (P * B)
             u == b * P
             v == c * P
             w == (b - c) * P
  <2>3. x = t + (v + l) /\ w = u - v /\ t \in Int /\ u \in Int /\ v \in Int
    BY <1>7, <2>1
  <2>4. l \in Int
    BY <1>1, <1>4
  <2>5. x + w = t + (u + l)
    <3> HIDE DEF t, u, v, w
    <3> QED BY <2>3, <2>4
  <2>6. b * P + l \in 0 .. (P * B) - 1
    <3>1. l \in 0 .. P - 1
      BY <1>4
    <3> QED BY <1>1, <2>1, <2>2, <3>1
  <2> QED BY <2>5, <2>6
<1>11. x + (b - c) * P \in 0 .. M - 1
  <2> DEFINE D == P * B
             t == b * P + l
             y == x + (b - c) * P
  <2>1. D \in Nat /\ D > 0 /\ t \in 0 .. D - 1 /\ y = h * D + t /\ M = D * H
    BY <1>2, <1>8, <1>10
  <2> HIDE DEF D, t, y
  <2>2. h * D >= 0 /\ h * D <= (H - 1) * D /\ (H - 1) * D = D * H - D /\ h * D \in Int /\ D * H \in Int
    BY <1>1, <1>9, <2>1
  <2>3. y \in 0 .. M - 1
    BY <2>1, <2>2
  <2> QED BY <2>3 DEF y
<1> QED BY <1>6, <1>11 DEF Word, M, P
=============================================================================
