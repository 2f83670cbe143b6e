-------------------------------- MODULE Words --------------------------------
(***************************************************************************)
(* The processor's 32-bit words at a smaller width: numbers modulo         *)
(* 2^WordBits.  A word is four bytes of WordBits / 4 bits each.            *)
(***************************************************************************)
EXTENDS Integers

CONSTANT WordBits   \* 32

ASSUME WordAssumption == WordBits \in Nat /\ WordBits >= 4 /\ WordBits % 4 = 0

Modulus == 2^WordBits
Word == 0..(Modulus - 1)
ByteBits == WordBits \div 4

Wrap(n) == n % Modulus
Bit(v, i) == (v \div 2^i) % 2 = 1
Field(v, lo, n) == (v \div 2^lo) % 2^n
Sign(v) == Bit(v, WordBits - 1)
Signed(v) == IF Sign(v) THEN v - Modulus ELSE v
SignExtended(v, bits) == IF Bit(v, bits - 1) THEN Wrap(v - 2^bits) ELSE v
Align(a, n) == a - (a % n)
Num(flag) == IF flag THEN 1 ELSE 0

\* & | ^ bit by bit: the value of the bits that both words have, and what follows from it.
BitAnd(a, b) ==
  LET Both[n \in 0..WordBits] ==
        IF n = 0 THEN 0 ELSE Both[n - 1] + (IF Bit(a, n - 1) /\ Bit(b, n - 1) THEN 2^(n - 1) ELSE 0)
  IN Both[WordBits]
BitOr(a, b) == a + b - BitAnd(a, b)
BitXor(a, b) == a + b - 2 * BitAnd(a, b)
=============================================================================
