--------------------------------- MODULE Alu ---------------------------------
(***************************************************************************)
(* The arithmetic logic unit, src/cpu/alu.c: pure functions from bytes and *)
(* words to a result and flags.  Bytes are the numbers 0..255, words the   *)
(* numbers 0..65535.  A flag that a function does not set is FALSE, as     *)
(* every function begins with a result of zeros.                           *)
(***************************************************************************)
EXTENDS Integers

Carry(flag) == IF flag THEN 1 ELSE 0
Bytes == 0..255
Words == {w \in Nat : w < 65536}
Low(v) == v % 16                    \* v & 0x0F

\* Bit k of a byte; Power[k + 1] is 1 << k.
Power == <<1, 2, 4, 8, 16, 32, 64, 128>>
Bit(k, v) == (v \div Power[k + 1]) % 2
BitSet(k, v) == Bit(k, v) = 1

Result(value, n, h, c) == [value |-> value, z |-> value = 0, n |-> n, h |-> h, c |-> c]

-----------------------------------------------------------------------------
(* Arithmetic.                                                             *)

Inc8(v) == Result((v + 1) % 256, FALSE, Low(v) = 15, FALSE)
Dec8(v) == Result((v - 1) % 256, TRUE, Low(v) = 0, FALSE)
Add8(l, r) == Result((l + r) % 256, FALSE, Low(l) + Low(r) > 15, l + r > 255)
Sub8(l, r) == Result((l - r) % 256, TRUE, Low(l) < Low(r), l < r)
Cp8(l, r) == Sub8(l, r)
MutAdc8(l, r, carry) ==   \* the incoming carry is left out of the outgoing one
  Result((l + r + Carry(carry)) % 256, FALSE, Low(l) + Low(r) + Carry(carry) > 15, l + r > 255)
Adc8(l, r, carry) ==
  Result((l + r + Carry(carry)) % 256, FALSE,
         Low(l) + Low(r) + Carry(carry) > 15, l + r + Carry(carry) > 255)
Sbc8(l, r, carry) ==
  Result((l - r - Carry(carry)) % 256, TRUE,
         Low(l) < Low(r) + Carry(carry), l < r + Carry(carry))

-----------------------------------------------------------------------------
(* Logic, bit by bit.                                                      *)

OfBits(b(_)) ==
  b(0) + 2 * b(1) + 4 * b(2) + 8 * b(3) + 16 * b(4) + 32 * b(5) + 64 * b(6) + 128 * b(7)
And8(l, r) ==
  LET b(k) == Bit(k, l) * Bit(k, r) IN Result(OfBits(b), FALSE, TRUE, FALSE)
Xor8(l, r) ==
  LET b(k) == (Bit(k, l) + Bit(k, r)) % 2 IN Result(OfBits(b), FALSE, FALSE, FALSE)
Or8(l, r) ==
  LET b(k) == IF Bit(k, l) + Bit(k, r) = 0 THEN 0 ELSE 1
  IN  Result(OfBits(b), FALSE, FALSE, FALSE)
Cpl8(v) == [Result(255 - v, TRUE, TRUE, FALSE) EXCEPT !.z = FALSE]

-----------------------------------------------------------------------------
(* Rotations, shifts and single bits.                                      *)

Top(v) == v >= 128
Odd(v) == v % 2 = 1
Left(v, in) == ((2 * v) % 256) + Carry(in)
Right(v, in) == (v \div 2) + (IF in THEN 128 ELSE 0)
Rlc8(v) == Result(Left(v, Top(v)), FALSE, FALSE, Top(v))
Rrc8(v) == Result(Right(v, Odd(v)), FALSE, FALSE, Odd(v))
Rl8(v, carry) == Result(Left(v, carry), FALSE, FALSE, Top(v))
Rr8(v, carry) == Result(Right(v, carry), FALSE, FALSE, Odd(v))
Sla8(v) == Result(Left(v, FALSE), FALSE, FALSE, Top(v))
Sra8(v) == Result(Right(v, Top(v)), FALSE, FALSE, Odd(v))
Swap8(v) == Result((v \div 16) + 16 * Low(v), FALSE, FALSE, FALSE)
Srl8(v) == Result(Right(v, FALSE), FALSE, FALSE, Odd(v))
BitTest8(k, v) == [value |-> 0, z |-> ~BitSet(k, v), n |-> FALSE, h |-> TRUE, c |-> FALSE]
Res8(k, v) == IF BitSet(k, v) THEN v - Power[k + 1] ELSE v
Set8(k, v) == IF BitSet(k, v) THEN v ELSE v + Power[k + 1]

-----------------------------------------------------------------------------
(* Words.                                                                  *)

Inc16(v) == (v + 1) % 65536
Dec16(v) == (v - 1) % 65536
\* The sum of two words is made of the sums of their halves.
Add16(l, r) ==
  LET lo == Add8(l % 256, r % 256)
      hi == Adc8(l \div 256, r \div 256, lo.c)
  IN  [value |-> hi.value * 256 + lo.value, z |-> FALSE, n |-> hi.n, h |-> hi.h, c |-> hi.c]
Signed(v) == IF v < 128 THEN v ELSE v - 256
Add16e8(l, r) ==
  [value |-> (l + Signed(r)) % 65536, z |-> FALSE, n |-> FALSE,
   h |-> Low(l) + Low(r) > 15, c |-> (l % 256) + r > 255]

\* alu_da as compiled: in "value & 0x0F > 0x09" the comparison binds first and is
\* true, so that the mask is 1 and both digits are adjusted when the value is odd.
Da(v, n, h, c) ==
  LET sixes == IF h \/ (~n /\ Odd(v)) THEN 6 ELSE 0
      nineties == IF c \/ (~n /\ Odd(v)) THEN 96 ELSE 0
      result == IF n THEN (v - sixes - nineties) % 256 ELSE (v + sixes + nineties) % 256
  IN  [value |-> result, z |-> result = 0, n |-> FALSE, h |-> FALSE,
       c |-> c \/ (~n /\ v + sixes + nineties > 255)]
=============================================================================
