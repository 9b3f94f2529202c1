-------------------------------- MODULE Words --------------------------------
(***************************************************************************)
(* Machine words.  Everything in cpu.v is built from bytes: registers have *)
(* eight of them, immediates four.  ByteBits, 8 in the code, is a          *)
(* parameter, so that TLC can check the whole machine with one-bit bytes   *)
(* (registers of 8 bits, immediates of 4) while every byte lane, every     *)
(* truncation and every sign bit stays where the code has it.              *)
(***************************************************************************)
EXTENDS Integers

CONSTANT ByteBits

ASSUME ByteBitsAssumption == ByteBits \in Nat \ {0}

W16 == 2 * ByteBits
W32 == 4 * ByteBits
W64 == 8 * ByteBits

\* The facts about powers of two that the proofs start from; arithmetic truths, stated
\* because the provers do not interpret exponentiation.
ASSUME PowersAssumption ==
  /\ 2^0 = 1
  /\ \A n \in 0 .. W64 + 1 : 2^n \in Nat \ {0}
  /\ \A n \in 1 .. W64 + 1 : 2^n = 2 * 2^(n - 1)

\* The values of w bits, and the low w bits of an integer.
Word(w) == 0 .. (2^w - 1)
Low(x, w) == x % 2^w

\* Byte number i of x, counted from the least significant.
Byte(x, i) == (x \div 2^(i * ByteBits)) % 2^ByteBits

\* A word read as a two's complement number, and widened by its sign bit.
Signed(x, w) == IF x >= 2^(w - 1) THEN x - 2^w ELSE x
SignExtend(x, from, to) == Low(Signed(x, from), to)

\* Shifts, without ever forming 2^n for a large n.
ShiftLeft(x, n, w) == IF n >= w THEN 0 ELSE Low(x * 2^n, w)
ShiftRight(x, n, w) == IF n >= w THEN 0 ELSE x \div 2^n

\* The number whose bit i is F applied to the bits i of x and y.
BitByBit(x, y, F(_, _)) ==
  LET f[n \in 0 .. W64] ==
        IF n = 0 THEN 0
        ELSE f[n - 1] + 2^(n - 1) * F((x \div 2^(n - 1)) % 2, (y \div 2^(n - 1)) % 2)
  IN f[W64]

And(x, y) == BitByBit(x, y, LAMBDA a, b : a * b)
Or(x, y) == BitByBit(x, y, LAMBDA a, b : IF a + b = 0 THEN 0 ELSE 1)
Xor(x, y) == BitByBit(x, y, LAMBDA a, b : (a + b) % 2)
=============================================================================
