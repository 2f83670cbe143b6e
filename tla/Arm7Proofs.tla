------------------------------ MODULE Arm7Proofs ------------------------------
(***************************************************************************)
(* The processor of Arm7Cpu, for every word size, memory, program and      *)
(* handlers that satisfy its assumptions: a state between two instructions *)
(* is a processor in one of its modes with both slots of its pipeline on   *)
(* the way to pc, whatever was executed or taken before; a mode's bank is  *)
(* its own; sums and differences are the integers'.  Numbers and bits      *)
(* first, then the operators from the shifter up to step, one lemma for    *)
(* each handler of arm/exec.rs and thumb/exec.rs, and the theorems.        *)
(***************************************************************************)
EXTENDS Arm7Cpu, FiniteSetTheorems, WellFoundedInduction, TLAPS

-----------------------------------------------------------------------------
\* Numbers.

LEMMA Remainders ==
  /\ \A a \in Int, m \in Nat \ {0} : a % m \in 0..(m - 1) /\ a \div m \in Int
  /\ \A a \in Int, m \in Nat \ {0} : a = m * (a \div m) + (a % m)
  OBVIOUS

LEMMA OneRemainder ==
  ASSUME NEW m \in Nat \ {0}, NEW q \in Int, NEW r \in 0..(m - 1)
  PROVE  (m * q + r) % m = r /\ (m * q + r) \div m = q
  OBVIOUS

LEMMA Powers ==
  /\ Modulus \in Nat /\ Modulus >= 4096 /\ Modulus % 16 = 0
  /\ \A n \in 0..WordBits : 2^n \in Nat \ {0} /\ WordBits - n \in 0..WordBits
                            /\ 2^n * 2^(WordBits - n) = Modulus
  /\ 2 * 2^(WordBits - 1) = Modulus
  /\ 16 * 2^(WordBits - 4) = Modulus /\ 2^(WordBits - 4) \in Nat /\ 2^(WordBits - 4) >= 256
  <1>1. \A n \in 0..WordBits : 2^n \in Nat \ {0} /\ WordBits - n \in 0..WordBits
                               /\ 2^n * 2^(WordBits - n) = Modulus
    <2> TAKE n \in 0..WordBits
    <2>1. n \in Int /\ WordBits - n \in 0..WordBits /\ n + (WordBits - n) = WordBits
      BY WordAssumption
    <2>2. 2^n > 0 /\ 2^(n + (WordBits - n)) = 2^n * 2^(WordBits - n)
      BY <2>1, StatusAssumption
    <2>3. 2^n \in Int
      BY <2>1
    <2>4. QED
      BY <2>1, <2>2, <2>3 DEF Modulus
  <1>2. 2^1 = 2 /\ 2^4 = 16 /\ 2^8 = 256
    OBVIOUS
  <1>3. WordBits \in Nat /\ WordBits >= 12
    BY WordAssumption, StatusAssumption
  <1>4. 2^1 * 2^(WordBits - 1) = Modulus /\ 2^4 * 2^(WordBits - 4) = Modulus
    <2>1. 1 \in 0..WordBits /\ 4 \in 0..WordBits
      BY <1>3
    <2> HIDE DEF Modulus
    <2>2. \A n \in 0..WordBits : 2^n * 2^(WordBits - n) = Modulus
      BY <1>1
    <2>3. 2^1 * 2^(WordBits - 1) = Modulus
      BY ONLY <2>1, <2>2
    <2>4. 2^4 * 2^(WordBits - 4) = Modulus
      BY ONLY <2>1, <2>2
    <2>5. QED
      BY <2>3, <2>4
  <1>5. 2^(WordBits - 4) = 2^8 * 2^(WordBits - 12)
    <2>1. WordBits - 12 \in 0..WordBits /\ 8 \in 0..WordBits /\ 8 + (WordBits - 12) = WordBits - 4
      BY <1>3
    <2>2. 8 + (WordBits - 12) <= WordBits
      BY <1>3
    <2>3. 2^(8 + (WordBits - 12)) = 2^8 * 2^(WordBits - 12)
      BY <2>1, <2>2, StatusAssumption
    <2>4. QED
      BY <2>1, <2>3
  <1>6. 2^(WordBits - 12) \in Nat \ {0} /\ 2^(WordBits - 4) \in Nat \ {0}
    BY <1>1, <1>3
  <1>7. 2^(WordBits - 4) >= 256
    BY <1>2, <1>5, <1>6
  <1>8. Modulus = 16 * 2^(WordBits - 4)
    BY <1>2, <1>4
  <1>9. Modulus \in Nat /\ Modulus >= 4096 /\ Modulus % 16 = 0
    <2> DEFINE k == 2^(WordBits - 4)
    <2>1. k \in Nat /\ k >= 256 /\ Modulus = 16 * k
      BY <1>6, <1>7, <1>8
    <2> HIDE DEF k
    <2>2. QED
      BY <2>1
  <1>10. QED
    BY <1>1, <1>2, <1>4, <1>6, <1>7, <1>8, <1>9

LEMMA Wraps ==
  /\ \A n \in Int : Wrap(n) \in Word
  /\ \A n \in Word : Wrap(n) = n
  /\ \A n \in Int : -Modulus <= n /\ n < 0 => Wrap(n) = n + Modulus
  /\ \A n \in Int : Modulus <= n /\ n < 2 * Modulus => Wrap(n) = n - Modulus
  <1>1. Modulus \in Nat \ {0}
    BY Powers
  <1>2. \A n \in Int : Wrap(n) \in Word
    BY <1>1 DEF Wrap, Word
  <1>3. \A n \in Word : Wrap(n) = n
    BY <1>1 DEF Wrap, Word
  <1>4. ASSUME NEW n \in Int, -Modulus <= n, n < 0 PROVE Wrap(n) = n + Modulus
    <2>1. n + Modulus \in 0..(Modulus - 1) /\ n = Modulus * (-1) + (n + Modulus)
      BY <1>1, <1>4
    <2>2. (Modulus * (-1) + (n + Modulus)) % Modulus = n + Modulus
      BY <1>1, <2>1, OneRemainder
    <2>3. QED
      BY <2>1, <2>2 DEF Wrap
  <1>5. ASSUME NEW n \in Int, Modulus <= n, n < 2 * Modulus PROVE Wrap(n) = n - Modulus
    <2>1. n - Modulus \in 0..(Modulus - 1) /\ n = Modulus * 1 + (n - Modulus)
      BY <1>1, <1>5
    <2>2. (Modulus * 1 + (n - Modulus)) % Modulus = n - Modulus
      BY <1>1, <2>1, OneRemainder
    <2>3. QED
      BY <2>1, <2>2 DEF Wrap
  <1>6. QED
    BY <1>2, <1>3, <1>4, <1>5

\* Steps of the program counter, and back.
LEMMA PcSteps ==
  ASSUME NEW a \in Word, NEW w \in {2, 4}, a % w = 0
  PROVE  /\ \A k \in {1, 2} : Wrap(a + k * w) \in Word /\ Wrap(a + k * w) % w = 0
         /\ Wrap(Wrap(a + w) - w) = a
         /\ Wrap(Wrap(a + w) - 2 * w) = Wrap(a - w)
         /\ Wrap(Wrap(a + 2 * w) - 2 * w) = a
         /\ Wrap(Wrap(a + 2 * w) - w) = Wrap(a + w)
         /\ Align(a, w) = a /\ Align(Wrap(a + w), w) = Wrap(a + w)
  <1>1. Modulus \in Nat /\ Modulus >= 4096 /\ Modulus % 16 = 0 /\ a \in Nat /\ a < Modulus
    BY Powers DEF Word
  <1>2. /\ \A n \in Int : 0 <= n /\ n < Modulus => Wrap(n) = n
        /\ \A n \in Int : -Modulus <= n /\ n < 0 => Wrap(n) = n + Modulus
        /\ \A n \in Int : Modulus <= n /\ n < 2 * Modulus => Wrap(n) = n - Modulus
    BY <1>1, Wraps DEF Word
  <1>3. CASE w = 2
    <2>1. Wrap(a + 2) = IF a + 2 < Modulus THEN a + 2 ELSE a + 2 - Modulus
      BY <1>1, <1>2
    <2>2. Wrap(a + 4) = IF a + 4 < Modulus THEN a + 4 ELSE a + 4 - Modulus
      BY <1>1, <1>2
    <2>3. Wrap(a - 2) = IF a >= 2 THEN a - 2 ELSE a - 2 + Modulus
      BY <1>1, <1>2
    <2>4. a % 2 = 0
      BY <1>3
    <2>5. Wrap(a + 2) \in Word /\ Wrap(a + 4) \in Word /\ Wrap(a + 2) % 2 = 0 /\ Wrap(a + 4) % 2 = 0
      BY <1>1, <2>1, <2>2, <2>4 DEF Word
    <2>6. Wrap(Wrap(a + 2) - 2) = a /\ Wrap(Wrap(a + 4) - 4) = a
      BY <1>1, <1>2, <2>1, <2>2
    <2>7. Wrap(Wrap(a + 2) - 4) = Wrap(a - 2) /\ Wrap(Wrap(a + 4) - 2) = Wrap(a + 2)
      BY <1>1, <1>2, <2>1, <2>2, <2>3
    <2>8. QED
      BY <1>1, <1>3, <2>4, <2>5, <2>6, <2>7 DEF Align, Word
  <1>4. CASE w = 4
    <2>1. Wrap(a + 4) = IF a + 4 < Modulus THEN a + 4 ELSE a + 4 - Modulus
      BY <1>1, <1>2
    <2>2. Wrap(a + 8) = IF a + 8 < Modulus THEN a + 8 ELSE a + 8 - Modulus
      BY <1>1, <1>2
    <2>3. Wrap(a - 4) = IF a >= 4 THEN a - 4 ELSE a - 4 + Modulus
      BY <1>1, <1>2
    <2>4. a % 4 = 0
      BY <1>4
    <2>5. Wrap(a + 4) \in Word /\ Wrap(a + 8) \in Word /\ Wrap(a + 4) % 4 = 0 /\ Wrap(a + 8) % 4 = 0
      BY <1>1, <2>1, <2>2, <2>4 DEF Word
    <2>6. Wrap(Wrap(a + 4) - 4) = a /\ Wrap(Wrap(a + 8) - 8) = a
      BY <1>1, <1>2, <2>1, <2>2
    <2>7. Wrap(Wrap(a + 4) - 8) = Wrap(a - 4) /\ Wrap(Wrap(a + 8) - 4) = Wrap(a + 4)
      BY <1>1, <1>2, <2>1, <2>2, <2>3
    <2>8. QED
      BY <1>1, <1>4, <2>4, <2>5, <2>6, <2>7 DEF Align, Word
  <1>5. QED
    BY <1>3, <1>4

LEMMA Alignment ==
  ASSUME NEW a \in Word, NEW n \in {2, 4}
  PROVE  Align(a, n) \in Word /\ Align(a, n) % n = 0
  <1>1. Modulus \in Nat /\ a \in Nat /\ a < Modulus
    BY Powers DEF Word
  <1>2. CASE n = 2
    BY <1>1, <1>2 DEF Align, Word
  <1>3. CASE n = 4
    BY <1>1, <1>3 DEF Align, Word
  <1>4. QED
    BY <1>2, <1>3

\* A part of a word below 2^bits, 2^lo places up, and a word with another part there.
LEMMA WholeParts ==
  ASSUME NEW v \in Word, NEW p \in Nat \ {0}
  PROVE  v \div p \in Word
  <1>1. Modulus \in Nat /\ v \in Nat /\ v < Modulus
    BY Powers DEF Word
  <1>2. v = p * (v \div p) + (v % p) /\ v % p \in 0..(p - 1) /\ v \div p \in Int
    BY <1>1, Remainders
  <1>3. v \div p >= 0
    BY <1>1, <1>2
  <1>4. v \div p <= p * (v \div p)
    <2>1. \A x \in Nat : x <= p * x
      OBVIOUS
    <2>2. v \div p \in Nat
      BY <1>2, <1>3
    <2>3. QED
      BY <2>1, <2>2
  <1>5. QED
    BY <1>1, <1>2, <1>3, <1>4 DEF Word

LEMMA Fields ==
  ASSUME NEW v \in Word, NEW lo \in 0..WordBits, NEW n \in 0..WordBits
  PROVE  Field(v, lo, n) \in Word /\ Field(v, lo, n) < 2^n
  <1>1. 2^lo \in Nat \ {0} /\ 2^n \in Nat \ {0}
    BY Powers
  <1>2. v \div 2^lo \in Word
    BY <1>1, WholeParts
  <1>3. \A x \in Word, b \in Nat \ {0} : x % b \in Word /\ x % b < b
    BY Powers DEF Word
  <1>4. QED
    BY <1>1, <1>2, <1>3 DEF Field

LEMMA Replaced ==
  ASSUME NEW m \in Nat, NEW v \in 0..(m - 1), NEW p \in Nat \ {0}, NEW b \in Nat \ {0},
         NEW h \in Nat, p * b * h = m, NEW x \in 0..(b - 1)
  PROVE  v - ((v \div p) % b) * p + x * p \in 0..(m - 1)
  <1> DEFINE q == v \div p
             r == v % p
             f == q % b
             g == q \div b
  <1>1. v = p * q + r /\ r \in 0..(p - 1) /\ q \in Int
    BY Remainders
  <1>2. q = b * g + f /\ f \in 0..(b - 1) /\ g \in Int
    BY <1>1, Remainders
  <1> HIDE DEF q, r, f, g
  <1>3. q >= 0
    BY <1>1
  <1>4. g >= 0
    BY <1>2, <1>3
  <1>5. g < h
    <2> SUFFICES ASSUME g >= h PROVE FALSE
      BY <1>2
    <2>1. b * g >= b * h
      BY <1>2
    <2>2. q >= b * h
      BY <1>1, <1>2, <2>1
    <2>3. p * q >= p * (b * h)
      BY <1>1, <2>2
    <2>4. p * (b * h) = m
      OBVIOUS
    <2>5. QED
      BY <1>1, <2>3, <2>4
  <1>6. v - f * p + x * p = p * (b * g + x) + r
    BY <1>1, <1>2
  <1>7. b * g + x >= 0 /\ b * g + x + 1 <= b * h
    <2>1. b * (g + 1) <= b * h
      BY <1>2, <1>5
    <2>2. b * (g + 1) = b * g + b
      BY <1>2
    <2>3. b * g >= 0
      BY <1>2, <1>4
    <2>4. b * g \in Int /\ b * h \in Int
      BY <1>2
    <2>5. QED
      BY <2>1, <2>2, <2>3, <2>4
  <1> DEFINE y == b * g + x
  <1>8. y \in Nat /\ y + 1 <= b * h
    BY <1>2, <1>7
  <1> HIDE DEF y
  <1>9. p * (y + 1) <= p * (b * h) /\ p * (y + 1) = p * y + p /\ p * y \in Nat
    BY <1>8
  <1>10. p * (b * h) = m
    OBVIOUS
  <1>11. p * y + r \in 0..(m - 1)
    BY <1>1, <1>9, <1>10
  <1>12. QED
    BY <1>6, <1>11 DEF y, f, q

\* A word turned by n places: its low part comes above its high part.
LEMMA Rotated ==
  ASSUME NEW v \in Word, NEW n \in 0..(WordBits - 1)
  PROVE  RotateRight(v, n) \in Word
  <1> DEFINE p == 2^n
             k == 2^(WordBits - n)
  <1>1. p \in Nat \ {0} /\ k \in Nat \ {0} /\ p * k = Modulus /\ Modulus \in Nat
    <2>1. n \in 0..WordBits
      BY WordAssumption
    <2>2. WordBits - n \in 0..WordBits
      BY <2>1, Powers
    <2>3. QED
      BY <2>1, <2>2, Powers
  <1>2. RotateRight(v, n) = (v \div p) + ((v * k) % Modulus)
    BY DEF RotateRight, Wrap
  <1> HIDE DEF p, k
  <1> DEFINE q == v \div p
             r == v % p
  <1>3. v = p * q + r /\ r \in 0..(p - 1) /\ q \in Int /\ v \in Nat /\ v < p * k
    BY <1>1, Remainders DEF Word
  <1> HIDE DEF q, r
  <1>4. v * k = Modulus * q + r * k
    <2>1. v * k = (p * q + r) * k
      BY <1>3
    <2>2. (p * q + r) * k = (p * k) * q + r * k
      BY <1>1, <1>3
    <2>3. QED
      BY <1>1, <2>1, <2>2
  <1>5. r * k + k <= p * k /\ r * k \in Nat
    <2>1. (r + 1) * k <= p * k
      BY <1>1, <1>3
    <2>2. (r + 1) * k = r * k + k
      BY <1>1, <1>3
    <2>3. QED
      BY <1>1, <1>3, <2>1, <2>2
  <1>6. (v * k) % Modulus = r * k
    <2>1. r * k \in 0..(Modulus - 1) /\ Modulus \in Nat \ {0}
      BY <1>1, <1>5
    <2>2. (Modulus * q + r * k) % Modulus = r * k
      BY <1>3, <2>1, OneRemainder
    <2>3. QED
      BY <1>4, <2>2
  <1>7. q \in Nat /\ q < k
    <2>1. q >= 0
      BY <1>1, <1>3
    <2>2. ASSUME q >= k PROVE FALSE
      <3>1. p * q >= p * k
        BY <1>1, <1>3, <2>2
      <3>2. QED
        BY <1>1, <1>3, <3>1
    <2>3. QED
      BY <1>1, <1>3, <2>1, <2>2
  <1>8. q + r * k \in 0..(Modulus - 1)
    BY <1>1, <1>5, <1>7
  <1>9. QED
    BY <1>2, <1>6, <1>8 DEF q, Word

-----------------------------------------------------------------------------
\* The arithmetic of words gives words.

LEMMA UpToAll ==
  ASSUME NEW S, 0 \in S, \A n \in S \cap Nat : n + 1 \in S
  PROVE  Nat \subseteq S
  <1> DEFINE Rest == Nat \ S
  <1> SUFFICES ASSUME Rest # {} PROVE FALSE
    OBVIOUS
  <1>1. PICK x \in Rest : \A y \in Rest : ~ (<<y, x>> \in OpToRel(<, Nat))
    <2>1. Rest \subseteq Nat
      OBVIOUS
    <2> HIDE DEF Rest
    <2>2. QED
      BY <2>1, NatLessThanWellFounded, WFMin
  <1>2. x \in Nat /\ x # 0
    OBVIOUS
  <1>3. x - 1 \in Nat /\ x - 1 < x /\ (x - 1) + 1 = x
    BY <1>2
  <1>4. x - 1 \notin S
    BY <1>3
  <1>5. <<x - 1, x>> \in OpToRel(<, Nat)
    <2> DEFINE y == x - 1
    <2>1. y \in Nat /\ y < x /\ <<y, x>> \in Nat \X Nat /\ <<y, x>>[1] = y /\ <<y, x>>[2] = x
      BY <1>2, <1>3
    <2> HIDE DEF y
    <2>2. <<y, x>> \in OpToRel(<, Nat)
      BY <2>1, Zenon DEF OpToRel
    <2>3. QED
      BY <2>2 DEF y
  <1>6. QED
    BY <1>1, <1>3, <1>4, <1>5

LEMMA AndIsInt ==
  ASSUME NEW a, NEW b
  PROVE  BitAnd(a, b) \in Int
  <1> DEFINE Term(n) == IF Bit(a, n) /\ Bit(b, n) THEN 2^n ELSE 0
             Next(F, n) == IF n = 0 THEN 0 ELSE F[n - 1] + Term(n - 1)
             Reached == {m \in Nat : \E F : /\ F = [n \in 0..m |-> F[n]]
                                            /\ \A n \in 0..m : F[n] = Next(F, n)}
             Both == CHOOSE F : F = [n \in 0..WordBits |->
                       IF n = 0 THEN 0
                       ELSE F[n - 1] + (IF Bit(a, n - 1) /\ Bit(b, n - 1) THEN 2^(n - 1) ELSE 0)]
  <1>1. 0 \in Reached
    <2> DEFINE G == [n \in 0..0 |-> 0]
    <2>1. G = [n \in 0..0 |-> G[n]] /\ \A n \in 0..0 : G[n] = Next(G, n)
      OBVIOUS
    <2>2. QED
      BY <2>1
  <1>2. ASSUME NEW m \in Reached PROVE m + 1 \in Reached
    <2>1. PICK F : F = [n \in 0..m |-> F[n]] /\ \A n \in 0..m : F[n] = Next(F, n)
      BY <1>2
    <2> HIDE DEF Term
    <2> DEFINE G == [n \in 0..(m + 1) |-> IF n = m + 1 THEN F[m] + Term(m) ELSE F[n]]
    <2>2. G = [n \in 0..(m + 1) |-> G[n]]
      OBVIOUS
    <2>3. (\A n \in 0..m : G[n] = F[n]) /\ G[m + 1] = F[m] + Term(m)
      OBVIOUS
    <2> HIDE DEF G
    <2>4. \A n \in 0..(m + 1) : G[n] = Next(G, n)
      <3> SUFFICES ASSUME NEW n \in 0..(m + 1) PROVE G[n] = Next(G, n)
        OBVIOUS
      <3>1. CASE n = m + 1
        <4>1. n # 0 /\ n - 1 = m /\ m \in 0..m
          BY <3>1
        <4>2. QED
          BY <2>3, <3>1, <4>1
      <3>2. CASE n # m + 1
        <4>1. n \in 0..m /\ (n # 0 => n - 1 \in 0..m)
          BY <3>2
        <4>2. QED
          BY <2>1, <2>3, <4>1
      <3>3. QED
        BY <3>1, <3>2
    <2>5. m + 1 \in Nat
      OBVIOUS
    <2>6. QED
      BY <2>2, <2>4, <2>5
  <1>3. WordBits \in Nat
    BY WordAssumption
  <1>4. WordBits \in Reached
    <2> HIDE DEF Reached
    <2>1. Nat \subseteq Reached
      BY <1>1, <1>2, UpToAll
    <2>2. QED
      BY <1>3, <2>1
  <1>5. PICK F : F = [n \in 0..WordBits |-> F[n]] /\ \A n \in 0..WordBits : F[n] = Next(F, n)
    BY <1>4
  <1>6. F = [n \in 0..WordBits |-> Next(F, n)]
    BY <1>5
  <1>7. Both = [n \in 0..WordBits |-> Next(Both, n)]
    BY <1>6
  <1>8. BitAnd(a, b) = Both[WordBits]
    BY DEF BitAnd
  <1> HIDE DEF Both
  <1>9. \A n \in 0..WordBits : Both[n] = Next(Both, n)
    BY <1>7
  <1>10. \A n \in Nat : Term(n) \in Int
    OBVIOUS
  <1> HIDE DEF Term
  <1> DEFINE Fine == {m \in Nat : m <= WordBits => Both[m] \in Int}
  <1>11. 0 \in Fine
    BY <1>3, <1>9
  <1>12. ASSUME NEW m \in Fine PROVE m + 1 \in Fine
    <2> SUFFICES ASSUME m + 1 <= WordBits PROVE Both[m + 1] \in Int
      OBVIOUS
    <2>1. Both[m] \in Int /\ m + 1 \in 0..WordBits /\ m + 1 # 0 /\ (m + 1) - 1 = m
      BY <1>3
    <2>2. Both[m + 1] = Both[m] + Term(m)
      BY <1>9, <2>1
    <2>3. QED
      BY <1>10, <2>1, <2>2
  <1>13. Nat \subseteq Fine
    <2> HIDE DEF Fine
    <2>1. QED
      BY <1>11, <1>12, UpToAll
  <1>14. QED
    BY <1>3, <1>8, <1>13

LEMMA SmallWords ==
  /\ 0 \in Word /\ Modulus - 1 \in Word
  /\ \A n \in 0..4095 : n \in Word
  BY Powers DEF Word

LEMMA WordNumbers ==
  ASSUME NEW a \in Word
  PROVE  a \in Int /\ Complement(a) \in Word /\ Complement(a) \in Int /\ Signed(a) \in Int
  BY Powers DEF Word, Complement, Signed

LEMMA Numbers ==
  ASSUME NEW flag
  PROVE  Num(flag) \in {0, 1} /\ Num(flag) \in Int
  BY DEF Num

LEMMA Extended ==
  ASSUME NEW v \in Word, NEW bits \in 0..WordBits
  PROVE  SignExtended(v, bits) \in Word
  BY Powers, Wraps DEF SignExtended, Word

\* A value and a carry.
Shifted == Word \X BOOLEAN

LEMMA ShiftRotated ==
  ASSUME NEW val \in Word, NEW amount \in Nat, NEW carry \in BOOLEAN,
         NEW immediate \in BOOLEAN, NEW extended \in BOOLEAN
  PROVE  /\ rrx(val, carry) \in Shifted
         /\ ror(val, amount, carry, immediate, extended) \in Shifted
  <1>1. rrx(val, carry) \in Shifted
    <2> DEFINE h == 2^(WordBits - 1)
    <2>1. h \in Int /\ 2 * h = Modulus /\ Modulus \in Nat
      BY Powers, WordAssumption
    <2>2. val \in 0..(2 * h - 1)
      BY <2>1 DEF Word
    <2> HIDE DEF h
    <2>3. val \div 2 \in 0..(h - 1)
      BY <2>1, <2>2
    <2>4. \A n \in {0, 1} : (val \div 2) + n * h \in 0..(2 * h - 1)
      BY <2>1, <2>3
    <2>5. (val \div 2) + Num(carry) * h \in Word
      BY <2>1, <2>4, Numbers DEF Word
    <2>6. Bit(val, 0) \in BOOLEAN
      BY DEF Bit
    <2>7. QED
      BY <2>5, <2>6 DEF rrx, Shifted, h
  <1>2. amount % WordBits \in 0..(WordBits - 1)
    BY WordAssumption
  <1>3. RotateRight(val, amount % WordBits) \in Word
    BY <1>2, Rotated
  <1>4. \A v : Sign(v) \in BOOLEAN
    BY DEF Sign, Bit
  <1>5. QED
    BY <1>1, <1>3, <1>4 DEF ror, Shifted

LEMMA ShiftWords ==
  ASSUME NEW shift \in Shifts, NEW val \in Word, NEW amount \in Nat, NEW carry \in BOOLEAN,
         NEW immediate \in BOOLEAN
  PROVE  barrel_shift_op(shift, val, amount, carry, immediate) \in Shifted
  <1>1. \A v, n : Sign(v) \in BOOLEAN /\ Bit(v, n) \in BOOLEAN
    BY DEF Sign, Bit
  <1>2. \A n \in 1..(WordBits - 1) : /\ 2^n \in Nat \ {0} /\ val \div 2^n \in Word
                                     /\ Wrap(val * 2^n) \in Word /\ Wrap(Signed(val) \div 2^n) \in Word
    <2> TAKE n \in 1..(WordBits - 1)
    <2>1. 2^n \in Nat \ {0}
      BY Powers, WordAssumption
    <2>2. val * 2^n \in Int /\ Signed(val) \div 2^n \in Int
      BY <2>1, WordNumbers
    <2>3. QED
      BY <2>1, <2>2, WholeParts, Wraps
  <1> DEFINE In(n) == n \in 1..(WordBits - 1)
  <1>0. /\ \A v \in Word, c \in BOOLEAN : <<v, c>> \in Shifted
        /\ 0 \in Word /\ FALSE \in BOOLEAN
    BY SmallWords DEF Shifted
  <1>3. lsl(val, amount, carry) \in Shifted
    <2>1. CASE amount = 0
      <3>1. lsl(val, amount, carry) = <<val, carry>>
        BY <2>1, WordAssumption DEF lsl
      <3>2. QED
        BY <1>0, <3>1
    <2>2. CASE In(amount)
      <3>1. lsl(val, amount, carry) = <<Wrap(val * 2^amount), Bit(val, WordBits - amount)>>
        BY <2>2 DEF lsl
      <3>2. QED
        BY <1>0, <1>1, <1>2, <2>2, <3>1
    <2>3. CASE amount # 0 /\ ~In(amount)
      <3>1. lsl(val, amount, carry) \in {<<0, Bit(val, 0)>>, <<0, FALSE>>}
        BY <2>3 DEF lsl
      <3>2. QED
        BY <1>0, <1>1, <3>1
    <2>4. QED
      BY <2>1, <2>2, <2>3
  <1>4. lsr(val, amount, carry, immediate) \in Shifted
    <2>1. CASE amount = 0
      <3>1. lsr(val, amount, carry, immediate)
              = IF immediate THEN <<0, Sign(val)>> ELSE <<val, carry>>
        BY <2>1, WordAssumption DEF lsr
      <3>2. QED
        BY <1>0, <1>1, <3>1
    <2>2. CASE In(amount)
      <3>1. lsr(val, amount, carry, immediate) = <<val \div 2^amount, Bit(val, amount - 1)>>
        BY <2>2 DEF lsr
      <3>2. QED
        BY <1>0, <1>1, <1>2, <2>2, <3>1
    <2>3. CASE amount # 0 /\ ~In(amount)
      <3>1. lsr(val, amount, carry, immediate) \in {<<0, Sign(val)>>, <<0, FALSE>>}
        BY <2>3 DEF lsr
      <3>2. QED
        BY <1>0, <1>1, <3>1
    <2>4. QED
      BY <2>1, <2>2, <2>3
  <1>5. asr(val, amount, carry, immediate) \in Shifted
    <2>1. WordBits \in Nat
      BY WordAssumption
    <2>2. QED
      BY <1>1, <1>2, <2>1, SmallWords DEF asr, Shifted
  <1>6. ror(val, amount, carry, immediate, TRUE) \in Shifted
    BY ShiftRotated
  <1>7. QED
    BY <1>3, <1>4, <1>5, <1>6 DEF barrel_shift_op, Shifts

Results == [val : Word, c : BOOLEAN, v : BOOLEAN]

LEMMA ResultWords ==
  /\ \A n \in Int, c, v \in BOOLEAN : Result(n, c, v) \in Results
  /\ \A a, b \in Word : alu_sub_flags(a, b) \in Results /\ alu_add_flags(a, b) \in Results
  /\ \A a, b \in Word, c \in BOOLEAN : alu_adc_flags(a, b, c) \in Results /\ alu_sbc_flags(a, b, c) \in Results
  <1>1. \A n \in Int, c, v \in BOOLEAN : Result(n, c, v) \in Results
    BY Wraps DEF Result, Results
  <1>2. \A a, b \in Word : a - b \in Int /\ a + b \in Int
    BY Powers DEF Word
  <1>3. ASSUME NEW a \in Word, NEW b \in Word
        PROVE  alu_sub_flags(a, b) \in Results /\ alu_add_flags(a, b) \in Results
    <2>1. a - b \in Int /\ a + b \in Int
      BY <1>2
    <2> DEFINE borrow == b <= a
               carry == a + b >= Modulus
               less == Signed(a) - Signed(b) # Signed(Wrap(a - b))
               more == Signed(a) + Signed(b) # Signed(Wrap(a + b))
    <2>2. borrow \in BOOLEAN /\ carry \in BOOLEAN /\ less \in BOOLEAN /\ more \in BOOLEAN
      BY <2>1, Powers
    <2>3. /\ alu_sub_flags(a, b) = Result(a - b, borrow, less)
          /\ alu_add_flags(a, b) = Result(a + b, carry, more)
      BY DEF alu_sub_flags, alu_add_flags
    <2> HIDE DEF borrow, carry, less, more
    <2>4. QED
      BY <1>1, <2>1, <2>2, <2>3
  <1>4. ASSUME NEW a \in Word, NEW b \in Word, NEW c \in BOOLEAN
        PROVE  alu_adc_flags(a, b, c) \in Results
    <2>1. a + b + Num(c) \in Int
      <3>1. a + b \in Int /\ Num(c) \in Int
        BY <1>2, Numbers
      <3>2. QED
        BY <3>1
    <2>2. (Sign(a) = Sign(b) /\ Sign(b) # Sign(Wrap(a + b + Num(c)))) \in BOOLEAN
      OBVIOUS
    <2>3. (a + b + Num(c) >= Modulus) \in BOOLEAN
      BY <2>1, Powers
    <2>4. QED
      BY <1>1, <2>1, <2>2, <2>3 DEF alu_adc_flags
  <1>5. ASSUME NEW a \in Word, NEW b \in Word, NEW c \in BOOLEAN
        PROVE  alu_sbc_flags(a, b, c) \in Results
    BY <1>4, WordNumbers DEF alu_sbc_flags
  <1>6. QED
    BY <1>1, <1>3, <1>4, <1>5

LEMMA AluWords ==
  ASSUME NEW a \in Word, NEW b \in Word, NEW carry \in BOOLEAN, NEW f \in RegPSR, NEW op \in AluOpCode
  PROVE  /\ AluWithFlags(op, a, b, carry, f) \in Results
         /\ ~is_setting_flags(op) => AluValue(op, a, b, carry) \in Word
  <1>1. /\ a \in Int /\ b \in Int /\ Num(carry) \in Int
        /\ Complement(b) \in Word /\ Complement(b) \in Int
        /\ f.c \in BOOLEAN /\ f.v \in BOOLEAN
    <2>1. a \in Int /\ b \in Int
      BY WordNumbers
    <2>2. Complement(b) \in Word /\ Complement(b) \in Int
      BY WordNumbers
    <2>3. Num(carry) \in Int
      BY Numbers
    <2>4. f.c \in BOOLEAN /\ f.v \in BOOLEAN
      BY DEF RegPSR
    <2>5. QED
      BY <2>1, <2>2, <2>3, <2>4
  <1>2. /\ BitAnd(a, b) \in Int /\ BitOr(a, b) \in Int /\ BitXor(a, b) \in Int /\ BitAnd(a, Complement(b)) \in Int
    BY <1>1, AndIsInt DEF BitOr, BitXor
  <1>3. AluWithFlags(op, a, b, carry, f) \in Results
    BY <1>1, <1>2, ResultWords DEF AluWithFlags, AluOpCode
  <1>4. ASSUME ~is_setting_flags(op) PROVE AluValue(op, a, b, carry) \in Word
    BY <1>1, <1>2, <1>4, Wraps DEF AluValue, AluOpCode, is_setting_flags
  <1>5. QED
    BY <1>3, <1>4

-----------------------------------------------------------------------------
\* What changes registers, banks or memory and leaves the pipeline alone.

Working(s) == s \in Processor /\ s.cpsr.mode \in CpuMode

\* The same place in the program.
Moved(s, t) == /\ Working(t) /\ t.pc = s.pc /\ t.pipeline = s.pipeline
               /\ t.cpsr.thumb = s.cpsr.thumb
\* The same mode, and nothing put into a bank.
Live(s, t) == /\ t.cpsr.mode = s.cpsr.mode
              /\ t.gpr_banked_r13 = s.gpr_banked_r13 /\ t.gpr_banked_r14 = s.gpr_banked_r14
              /\ t.gpr_banked_old_r8_12 = s.gpr_banked_old_r8_12
              /\ t.gpr_banked_fiq_r8_12 = s.gpr_banked_fiq_r8_12
              /\ t.spsr_bank = s.spsr_bank
\* Nor into a register.
Still(s, t) == Live(s, t) /\ t.gpr = s.gpr /\ t.spsr = s.spsr
Kept(s, t) == Moved(s, t) /\ Live(s, t)

LEMMA MovedMoved ==
  ASSUME NEW s, NEW t, NEW u, Moved(s, t), Moved(t, u)
  PROVE  Moved(s, u)
  BY DEF Moved

LEMMA KeptKept ==
  ASSUME NEW s, NEW t, NEW u, Kept(s, t), Kept(t, u)
  PROVE  Kept(s, u)
  BY MovedMoved DEF Kept, Live

LEMMA Itself ==
  ASSUME NEW s, Working(s)
  PROVE  Kept(s, s) /\ Still(s, s)
  BY DEF Kept, Moved, Live, Still

LEMMA KeptWorks ==
  ASSUME NEW s, NEW t, Kept(s, t)
  PROVE  Working(t) /\ Moved(s, t) /\ t.cpsr.thumb = s.cpsr.thumb /\ t.cpsr.mode = s.cpsr.mode
  BY DEF Kept, Moved, Live

LEMMA ModeBanks ==
  /\ \A m \in CpuMode : bank_index(m) \in BankIndices
  /\ FiqBanked \subseteq Gprs /\ 13 \in Gprs /\ 14 \in Gprs /\ 15 \notin Gprs
  BY GprsAssumption DEF CpuMode, bank_index, BankIndices, FiqBanked

LEMMA RegisterKept ==
  ASSUME NEW s, Working(s), NEW r \in Gprs, NEW v \in Word
  PROVE  Kept(s, set_reg(s, r, v))
  <1>1. set_reg(s, r, v) = [s EXCEPT !.gpr[r] = v]
    BY ModeBanks DEF set_reg
  <1>2. QED
    BY <1>1 DEF Kept, Moved, Live, Working, Processor

LEMMA Registers ==
  ASSUME NEW s, Working(s), NEW r \in Reg
  PROVE  get_reg(s, r) \in Word
  BY DEF get_reg, Working, Processor, Reg

LEMMA FlagsKept ==
  ASSUME NEW s, Working(s), NEW p, {p.n, p.z, p.c, p.v} \subseteq BOOLEAN
  PROVE  Kept(s, SetFlags(s, p))
  BY DEF Kept, Moved, Live, Working, Processor, RegPSR, SetFlags

LEMMA CarryKept ==
  ASSUME NEW s, Working(s), NEW c \in BOOLEAN
  PROVE  Kept(s, [s EXCEPT !.cpsr.c = c])
  BY DEF Kept, Moved, Live, Working, Processor, RegPSR

LEMMA AluFlagsKept ==
  ASSUME NEW s, Working(s), NEW v, NEW c \in BOOLEAN, NEW o \in BOOLEAN
  PROVE  Kept(s, alu_update_flags(s, v, c, o))
  BY FlagsKept DEF alu_update_flags, Sign, Bit

-----------------------------------------------------------------------------
\* Memory.

LEMMA Bytes ==
  /\ ByteBits \in 0..WordBits /\ 2 * ByteBits \in 0..WordBits /\ WordBits = 4 * ByteBits
  /\ \A k \in 0..3 : k * ByteBits \in 0..WordBits /\ k * ByteBits + ByteBits <= WordBits
  /\ \A k \in {0, 2} : k * ByteBits + 2 * ByteBits <= WordBits
  BY WordAssumption DEF ByteBits

LEMMA Lanes ==
  ASSUME NEW a \in Word
  PROVE  /\ a % 4 \in 0..3 /\ a % 2 \in 0..1 /\ Align(a, 2) % 4 \in {0, 2}
  BY Powers DEF Word, Align

LEMMA Loads ==
  ASSUME NEW s, Working(s), NEW a \in Word
  PROVE  /\ load_32(s, a) \in Word /\ load_16(s, a) \in Word /\ load_8(s, a) \in Word
         /\ ldr_word(s, a) \in Shifted /\ ldr_half(s, a) \in Shifted
         /\ ldr_sign_half(s, a) \in Word /\ SignExtended(load_8(s, a), ByteBits) \in Word
  <1>1. load_32(s, a) \in Word
    BY SmallWords DEF load_32, Working, Processor
  <1>2. load_16(s, a) \in Word
    <2>1. (Align(a, 2) % 4) * ByteBits \in 0..WordBits
      BY Lanes, Bytes
    <2>2. QED
      BY <1>1, <2>1, Bytes, Fields DEF load_16
  <1>3. load_8(s, a) \in Word
    <2>1. (a % 4) * ByteBits \in 0..WordBits
      BY Lanes, Bytes
    <2>2. QED
      BY <1>1, <2>1, Bytes, Fields DEF load_8
  <1>4. ldr_word(s, a) \in Shifted /\ ldr_half(s, a) \in Shifted
    <2>1. (a % 4) * ByteBits \in Nat /\ (a % 2) * ByteBits \in Nat
      BY Lanes, Bytes
    <2>2. s.cpsr.c \in BOOLEAN
      BY DEF Working, Processor, RegPSR
    <2>3. QED
      BY <1>1, <1>2, <2>1, <2>2, ShiftRotated DEF ldr_word, ldr_half
  <1>5. SignExtended(load_8(s, a), ByteBits) \in Word
    BY <1>3, Bytes, Extended
  <1>6. ldr_sign_half(s, a) \in Word
    BY <1>2, <1>5, Bytes, Extended DEF ldr_sign_half
  <1>7. QED
    BY <1>1, <1>2, <1>3, <1>4, <1>5, <1>6

LEMMA StoreFieldKept ==
  ASSUME NEW s, Working(s), NEW a \in Word, NEW lane \in 0..3, NEW bits \in 0..WordBits,
         lane * ByteBits + bits <= WordBits, NEW val \in Word
  PROVE  Kept(s, StoreField(s, a, lane, bits, val))
  <1> DEFINE w == Align(a, 4)
             old == s.mem[w]
             p == 2^(lane * ByteBits)
             b == 2^bits
             h == 2^(WordBits - (lane * ByteBits + bits))
             new == old - Field(old, lane * ByteBits, bits) * p + (val % b) * p
  <1>1. CASE w \notin Ram
    BY <1>1, Itself DEF StoreField
  <1>2. CASE w \in Ram
    <2>1. old \in Word
      BY <1>2 DEF Working, Processor
    <2>2. lane * ByteBits \in 0..WordBits /\ WordBits \in Nat
      BY Bytes, WordAssumption
    <2> DEFINE l == lane * ByteBits
    <2>3. p \in Nat \ {0} /\ b \in Nat \ {0}
      BY <2>2, Powers
    <2>4. h \in Nat \ {0} /\ p * b * h = Modulus
      <3> HIDE DEF l
      <3>1. l \in 0..WordBits /\ l + bits <= WordBits
        BY <2>2 DEF l
      <3>2. l + bits \in 0..WordBits
        BY <3>1, <2>2
      <3>3. 2^(l + bits) = 2^l * 2^bits
        BY <3>1, StatusAssumption
      <3>4. 2^(l + bits) * 2^(WordBits - (l + bits)) = Modulus
        BY <3>2, Powers
      <3>5. WordBits - (l + bits) \in 0..WordBits
        BY <2>2, <3>2
      <3>6. 2^(WordBits - (l + bits)) \in Nat \ {0}
        BY <3>5, Powers
      <3>7. QED
        BY <3>3, <3>4, <3>6 DEF l
    <2>5. val % b \in 0..(b - 1)
      BY <2>3, Remainders, WordNumbers
    <2>6. new = old - ((old \div p) % b) * p + (val % b) * p
      BY DEF Field
    <2>7. StoreField(s, a, lane, bits, val) = [s EXCEPT !.mem[w] = new]
      BY <1>2 DEF StoreField
    <2>8. Modulus \in Nat /\ old \in 0..(Modulus - 1)
      BY <2>1, Powers DEF Word
    <2> HIDE DEF p, b, h, old, new, l
    <2>9. new \in Word
      BY <2>3, <2>4, <2>5, <2>6, <2>8, Replaced DEF Word
    <2>10. QED
      BY <1>2, <2>7, <2>9 DEF Kept, Moved, Live, Working, Processor
  <1>3. QED
    BY <1>1, <1>2

LEMMA StoresKept ==
  ASSUME NEW s, Working(s), NEW a \in Word, NEW val \in Word
  PROVE  Kept(s, store_32(s, a, val)) /\ Kept(s, store_16(s, a, val)) /\ Kept(s, store_8(s, a, val))
  <1>1. WordBits \in 0..WordBits /\ 0 * ByteBits + WordBits <= WordBits
    BY Bytes, WordAssumption
  <1>2. Kept(s, store_32(s, a, val))
    BY <1>1, StoreFieldKept DEF store_32
  <1>3. Kept(s, store_16(s, a, val))
    BY Lanes, Bytes, StoreFieldKept DEF store_16
  <1>4. Kept(s, store_8(s, a, val))
    BY Lanes, Bytes, StoreFieldKept DEF store_8
  <1>5. QED
    BY <1>2, <1>3, <1>4

LEMMA ListsKept ==
  ASSUME NEW s, Working(s), NEW list, NEW addr \in [list -> Word]
  PROVE  /\ Kept(s, LoadList(s, list, addr))
         /\ \A val \in [list -> Word] : Kept(s, StoreList(s, list, addr, val))
  <1>1. \A a \in Word : load_32(s, a) \in Word
    BY Loads
  <1>2. Kept(s, LoadList(s, list, addr))
    <2>1. [r \in Gprs |-> IF r \in list THEN load_32(s, addr[r]) ELSE s.gpr[r]] \in [Gprs -> Word]
      BY <1>1 DEF Working, Processor
    <2>2. QED
      BY <2>1 DEF LoadList, Kept, Moved, Live, Working, Processor
  <1>3. ASSUME NEW val \in [list -> Word] PROVE Kept(s, StoreList(s, list, addr, val))
    <2> DEFINE at(w) == {r \in list : Align(addr[r], 4) = w}
    <2>1. ASSUME NEW w, at(w) # {} PROVE val[CHOOSE r \in at(w) : TRUE] \in Word
      <3>1. (CHOOSE r \in at(w) : TRUE) \in at(w)
        BY <2>1
      <3>2. at(w) \subseteq list
        OBVIOUS
      <3> HIDE DEF at
      <3>3. QED
        BY <3>1, <3>2
    <2>2. [w \in Ram |-> IF at(w) = {} THEN s.mem[w] ELSE val[CHOOSE r \in at(w) : TRUE]]
            \in [Ram -> Word]
      <3> HIDE DEF at
      <3>1. QED
        BY <2>1 DEF Working, Processor
    <2>3. StoreList(s, list, addr, val) = [s EXCEPT !.mem =
            [w \in Ram |-> IF at(w) = {} THEN s.mem[w] ELSE val[CHOOSE r \in at(w) : TRUE]]]
      BY DEF StoreList
    <2> HIDE DEF at
    <2>4. QED
      BY <2>2, <2>3 DEF Kept, Moved, Live, Working, Processor
  <1>4. QED
    BY <1>2, <1>3

\* The places of a list of registers.
LEMMA Ranks ==
  ASSUME NEW list, list \subseteq Reg, NEW base \in Word, NEW k \in Int
  PROVE  /\ Cardinality(list) \in Nat
         /\ \A r : Rank(list, r) \in Nat /\ Wrap(base + 4 * Rank(list, r) + k) \in Word
  <1>1. IsFiniteSet(Reg)
    <2>1. Reg \subseteq 0..15
      BY GprsAssumption DEF Reg
    <2>2. IsFiniteSet(0..15)
      <3>1. 0 \in Int /\ 15 \in Int
        OBVIOUS
      <3>2. QED
        BY <3>1, FS_Interval
    <2>3. QED
      BY <2>1, <2>2, FS_Subset
  <1>2. \A S \in SUBSET list : Cardinality(S) \in Nat
    BY <1>1, FS_Subset, FS_CardinalityType
  <1>3. \A r : Rank(list, r) \in Nat
    BY <1>2 DEF Rank
  <1>4. base \in Int
    BY WordNumbers
  <1>5. \A r : Wrap(base + 4 * Rank(list, r) + k) \in Word
    BY <1>3, <1>4, Wraps
  <1>6. QED
    BY <1>2, <1>3, <1>5

-----------------------------------------------------------------------------
\* The banks, wherever their registers are at the moment.

Bank(s) == bank_index(s.cpsr.mode)
AllSame(s, t) == File(t) = File(s) /\ Saved(t) = Saved(s)

\* What belongs to none of the banks B is as it was.
OwnBut(B, s, t) ==
  \A b \in BankIndices \ B :
    /\ \A r \in {13, 14} : File(t)[b][r] = File(s)[b][r]
    /\ \A r \in FiqBanked : File(t)[b][r] = File(s)[b][r] \/ \E h \in B : (b = 1) = (h = 1)
    /\ b # 0 => Saved(t)[b] = Saved(s)[b]

LEMMA Banks ==
  ASSUME NEW m \in CpuMode
  PROVE  /\ bank_index(m) \in BankIndices
         /\ m = "Fiq" <=> bank_index(m) = 1
  BY DEF CpuMode, bank_index, BankIndices

LEMMA FileAt ==
  ASSUME NEW s, Working(s), NEW b \in BankIndices
  PROVE  /\ File(s)[b][13] = IF b = Bank(s) THEN s.gpr[13] ELSE s.gpr_banked_r13[b]
         /\ File(s)[b][14] = IF b = Bank(s) THEN s.gpr[14] ELSE s.gpr_banked_r14[b]
         /\ \A r \in FiqBanked :
              File(s)[b][r] = IF (b = 1) = (Bank(s) = 1) THEN s.gpr[r]
                              ELSE IF b = 1 THEN s.gpr_banked_fiq_r8_12[r]
                              ELSE s.gpr_banked_old_r8_12[r]
         /\ \A r \in Gprs \ (FiqBanked \cup {13, 14}) : File(s)[b][r] = s.gpr[r]
         /\ b # 0 => Saved(s)[b] = IF b = Bank(s) THEN s.spsr ELSE s.spsr_bank[b]
  <1> DEFINE fiq == s.cpsr.mode = "Fiq"
  <1>1. fiq <=> Bank(s) = 1
    BY Banks DEF Bank, Working
  <1>2. 13 \in Gprs /\ 14 \in Gprs /\ FiqBanked \subseteq Gprs /\ 13 \notin FiqBanked /\ 14 \notin FiqBanked
    BY ModeBanks DEF FiqBanked
  <1>3. \A r \in Gprs :
          File(s)[b][r] =
            CASE r = 13 -> IF b = Bank(s) THEN s.gpr[13] ELSE s.gpr_banked_r13[b]
              [] r = 14 -> IF b = Bank(s) THEN s.gpr[14] ELSE s.gpr_banked_r14[b]
              [] r \in FiqBanked ->
                   IF (b = 1) = fiq THEN s.gpr[r]
                   ELSE IF b = 1 THEN s.gpr_banked_fiq_r8_12[r]
                   ELSE s.gpr_banked_old_r8_12[r]
              [] OTHER -> s.gpr[r]
    BY DEF File, Bank
  <1> HIDE DEF fiq
  <1>4. b # 0 => Saved(s)[b] = IF b = Bank(s) THEN s.spsr ELSE s.spsr_bank[b]
    BY DEF Saved, Bank
  <1>5. \A r \in FiqBanked : r \in Gprs /\ r # 13 /\ r # 14
    BY <1>2
  <1>6. \A r \in FiqBanked :
          File(s)[b][r] = IF (b = 1) = fiq THEN s.gpr[r]
                          ELSE IF b = 1 THEN s.gpr_banked_fiq_r8_12[r]
                          ELSE s.gpr_banked_old_r8_12[r]
    BY <1>3, <1>5
  <1>7. /\ File(s)[b][13] = IF b = Bank(s) THEN s.gpr[13] ELSE s.gpr_banked_r13[b]
        /\ File(s)[b][14] = IF b = Bank(s) THEN s.gpr[14] ELSE s.gpr_banked_r14[b]
    BY <1>2, <1>3
  <1>8. \A r \in Gprs \ (FiqBanked \cup {13, 14}) : File(s)[b][r] = s.gpr[r]
    BY <1>3
  <1>9. QED
    BY <1>1, <1>4, <1>6, <1>7, <1>8

\* Two files agree when they agree place by place.
LEMMA PlaceByPlace ==
  ASSUME NEW s, NEW t,
         \A b \in BankIndices : \A r \in Gprs : File(t)[b][r] = File(s)[b][r],
         \A b \in BankIndices \ {0} : Saved(t)[b] = Saved(s)[b]
  PROVE  AllSame(s, t)
  <1>1. File(t) = File(s)
    <2>1. /\ File(t) = [b \in BankIndices |-> [r \in Gprs |-> File(t)[b][r]]]
          /\ File(s) = [b \in BankIndices |-> [r \in Gprs |-> File(s)[b][r]]]
      BY DEF File
    <2>2. QED
      BY <2>1
  <1>2. Saved(t) = Saved(s)
    <2>1. /\ Saved(t) = [b \in BankIndices \ {0} |-> Saved(t)[b]]
          /\ Saved(s) = [b \in BankIndices \ {0} |-> Saved(s)[b]]
      BY DEF Saved
    <2>2. QED
      BY <2>1
  <1>3. QED
    BY <1>1, <1>2 DEF AllSame

LEMMA EveryPlace ==
  \A r \in Gprs : r = 13 \/ r = 14 \/ r \in FiqBanked \/ r \in Gprs \ (FiqBanked \cup {13, 14})
  OBVIOUS

\* Nothing put anywhere, in the same bank.
LEMMA SameParts ==
  ASSUME NEW s, NEW t, Working(s), Working(t), Bank(t) = Bank(s),
         t.gpr = s.gpr, t.spsr = s.spsr, t.spsr_bank = s.spsr_bank,
         t.gpr_banked_r13 = s.gpr_banked_r13, t.gpr_banked_r14 = s.gpr_banked_r14,
         t.gpr_banked_old_r8_12 = s.gpr_banked_old_r8_12,
         t.gpr_banked_fiq_r8_12 = s.gpr_banked_fiq_r8_12
  PROVE  AllSame(s, t)
  <1>1. ASSUME NEW b \in BankIndices, NEW r \in Gprs PROVE File(t)[b][r] = File(s)[b][r]
    <2>1. CASE r = 13 \/ r = 14
      BY <2>1, FileAt
    <2>2. CASE r \in FiqBanked
      BY <2>2, FileAt
    <2>3. CASE r \in Gprs \ (FiqBanked \cup {13, 14})
      BY <2>3, FileAt
    <2>4. QED
      BY <2>1, <2>2, <2>3, EveryPlace
  <1>2. ASSUME NEW b \in BankIndices \ {0} PROVE Saved(t)[b] = Saved(s)[b]
    BY FileAt
  <1>3. QED
    BY <1>1, <1>2, PlaceByPlace

LEMMA StillSame ==
  ASSUME NEW s, NEW t, Working(s), Working(t), Still(s, t)
  PROVE  AllSame(s, t) /\ Bank(t) = Bank(s)
  BY SameParts DEF Still, Live, Bank

\* A mode puts something into its own bank only.
LEMMA LiveOwn ==
  ASSUME NEW s, NEW t, Working(s), Working(t), Live(s, t)
  PROVE  OwnBut({Bank(s)}, s, t) /\ Bank(t) = Bank(s)
  <1>1. Bank(t) = Bank(s)
    BY DEF Live, Bank
  <1>2. ASSUME NEW b \in BankIndices \ {Bank(s)}
        PROVE  /\ \A r \in {13, 14} : File(t)[b][r] = File(s)[b][r]
               /\ b # 0 => Saved(t)[b] = Saved(s)[b]
               /\ \A r \in FiqBanked : File(t)[b][r] = File(s)[b][r] \/ (b = 1) = (Bank(s) = 1)
    <2>1. File(t)[b][13] = File(s)[b][13] /\ File(t)[b][14] = File(s)[b][14]
      BY <1>1, FileAt DEF Live
    <2>2. b # 0 => Saved(t)[b] = Saved(s)[b]
      BY <1>1, FileAt DEF Live
    <2>3. ASSUME NEW r \in FiqBanked, ~((b = 1) = (Bank(s) = 1)) PROVE File(t)[b][r] = File(s)[b][r]
      BY <1>1, <2>3, FileAt DEF Live
    <2>4. QED
      BY <2>1, <2>2, <2>3
  <1>3. QED
    BY <1>1, <1>2 DEF OwnBut

LEMMA OwnSame ==
  ASSUME NEW B, NEW s, NEW t, AllSame(s, t)
  PROVE  OwnBut(B, s, t)
  BY DEF OwnBut, AllSame

LEMMA OwnOwn ==
  ASSUME NEW B, NEW s, NEW t, NEW u, OwnBut(B, s, t), OwnBut(B, t, u)
  PROVE  OwnBut(B, s, u)
  <1>1. ASSUME NEW b \in BankIndices \ B
        PROVE  /\ \A r \in {13, 14} : File(u)[b][r] = File(s)[b][r]
               /\ \A r \in FiqBanked : File(u)[b][r] = File(s)[b][r] \/ \E h \in B : (b = 1) = (h = 1)
               /\ b # 0 => Saved(u)[b] = Saved(s)[b]
    BY DEF OwnBut
  <1>2. QED
    BY <1>1 DEF OwnBut

LEMMA OwnMore ==
  ASSUME NEW B, NEW C, B \subseteq C, NEW s, NEW t, OwnBut(B, s, t)
  PROVE  OwnBut(C, s, t)
  <1>1. ASSUME NEW b \in BankIndices \ C
        PROVE  /\ \A r \in {13, 14} : File(t)[b][r] = File(s)[b][r]
               /\ \A r \in FiqBanked : File(t)[b][r] = File(s)[b][r] \/ \E h \in C : (b = 1) = (h = 1)
               /\ b # 0 => Saved(t)[b] = Saved(s)[b]
    BY DEF OwnBut
  <1>2. QED
    BY <1>1 DEF OwnBut

\* A change of mode moves the registers between the live ones and the banks.
LEMMA ModeMoved ==
  ASSUME NEW s, Working(s), NEW m \in CpuMode
  PROVE  LET t == change_mode(s, s.cpsr.mode, m)
         IN  Moved(s, t) /\ AllSame(s, t) /\ Bank(t) = bank_index(m)
  <1> DEFINE old == bank_index(s.cpsr.mode)
             new == bank_index(m)
             gprs == [r \in Gprs |->
                   CASE r = 13 -> s.gpr_banked_r13[new]
                     [] r = 14 -> s.gpr_banked_r14[new]
                     [] r \in FiqBanked /\ m = "Fiq" -> s.gpr_banked_fiq_r8_12[r]
                     [] r \in FiqBanked /\ s.cpsr.mode = "Fiq" -> s.gpr_banked_old_r8_12[r]
                     [] OTHER -> s.gpr[r]]
             olds == IF m = "Fiq" THEN [r \in FiqBanked |-> s.gpr[r]] ELSE s.gpr_banked_old_r8_12
             fiqs == IF m # "Fiq" /\ s.cpsr.mode = "Fiq"
                     THEN [r \in FiqBanked |-> s.gpr[r]] ELSE s.gpr_banked_fiq_r8_12
             t == [s EXCEPT
        !.spsr_bank[old] = s.spsr,
        !.gpr_banked_r13[old] = s.gpr[13],
        !.gpr_banked_r14[old] = s.gpr[14],
        !.gpr_banked_old_r8_12 = olds,
        !.gpr_banked_fiq_r8_12 = fiqs,
        !.spsr = s.spsr_bank[new],
        !.gpr = gprs,
        !.cpsr.mode = m]
  <1>1. CASE new = old
    <2>1. change_mode(s, s.cpsr.mode, m) = s
      BY <1>1 DEF change_mode
    <2>2. QED
      BY <1>1, <2>1, Itself, KeptWorks DEF AllSame, Bank
  <1>2. CASE new # old
    <2>1. change_mode(s, s.cpsr.mode, m) = t
      BY <1>2 DEF change_mode
    <2>2. old \in BankIndices /\ new \in BankIndices
      BY ModeBanks DEF Working
    <2>3. gprs \in [Gprs -> Word]
      BY <2>2, ModeBanks DEF Working, Processor
    <2>4. olds \in [FiqBanked -> Word] /\ fiqs \in [FiqBanked -> Word]
      BY ModeBanks DEF Working, Processor
    <2>5. s.spsr_bank[new] \in RegPSR /\ s.gpr[13] \in Word /\ s.gpr[14] \in Word
      BY <2>2, ModeBanks DEF Working, Processor
    <2>6. (m = "Fiq" <=> new = 1) /\ (s.cpsr.mode = "Fiq" <=> old = 1)
      BY Banks DEF Working
    <2>7. /\ gprs[13] = s.gpr_banked_r13[new] /\ gprs[14] = s.gpr_banked_r14[new]
          /\ \A r \in FiqBanked : gprs[r] = CASE new = 1 -> s.gpr_banked_fiq_r8_12[r]
                                              [] new # 1 /\ old = 1 -> s.gpr_banked_old_r8_12[r]
                                              [] OTHER -> s.gpr[r]
          /\ \A r \in Gprs \ (FiqBanked \cup {13, 14}) : gprs[r] = s.gpr[r]
      <3> HIDE DEF old, new
      <3>1. \A r \in FiqBanked : r \in Gprs /\ r # 13 /\ r # 14
        BY ModeBanks DEF FiqBanked
      <3>2. \A r \in FiqBanked : gprs[r] = CASE new = 1 -> s.gpr_banked_fiq_r8_12[r]
                                              [] new # 1 /\ old = 1 -> s.gpr_banked_old_r8_12[r]
                                              [] OTHER -> s.gpr[r]
        BY <1>2, <2>6, <3>1
      <3>3. gprs[13] = s.gpr_banked_r13[new] /\ gprs[14] = s.gpr_banked_r14[new]
        <4>1. 13 \in Gprs /\ 14 \in Gprs /\ 13 \notin FiqBanked /\ 14 \notin FiqBanked
          BY ModeBanks DEF FiqBanked
        <4>2. QED
          BY <4>1
      <3>4. \A r \in Gprs \ (FiqBanked \cup {13, 14}) : gprs[r] = s.gpr[r]
        OBVIOUS
      <3>5. QED
        BY <3>2, <3>3, <3>4
    <2>8. \A r \in FiqBanked : /\ olds[r] = IF new = 1 THEN s.gpr[r] ELSE s.gpr_banked_old_r8_12[r]
                               /\ fiqs[r] = IF new # 1 /\ old = 1 THEN s.gpr[r] ELSE s.gpr_banked_fiq_r8_12[r]
      <3> HIDE DEF old, new
      <3>1. QED
        BY <2>6
    <2> HIDE DEF gprs, olds, fiqs, old, new
    <2>9. Moved(s, t)
      BY <2>2, <2>3, <2>4, <2>5 DEF Moved, Working, Processor, RegPSR
    <2>10. /\ t.gpr = gprs /\ t.spsr = s.spsr_bank[new] /\ t.cpsr.mode = m
           /\ t.gpr_banked_old_r8_12 = olds /\ t.gpr_banked_fiq_r8_12 = fiqs
           /\ t.gpr_banked_r13 = [s.gpr_banked_r13 EXCEPT ![old] = s.gpr[13]]
           /\ t.gpr_banked_r14 = [s.gpr_banked_r14 EXCEPT ![old] = s.gpr[14]]
           /\ t.spsr_bank = [s.spsr_bank EXCEPT ![old] = s.spsr]
      BY DEF Working, Processor, RegPSR
    <2> HIDE DEF t
    <2>11. /\ \A b \in BankIndices :
                /\ t.gpr_banked_r13[b] = IF b = old THEN s.gpr[13] ELSE s.gpr_banked_r13[b]
                /\ t.gpr_banked_r14[b] = IF b = old THEN s.gpr[14] ELSE s.gpr_banked_r14[b]
                /\ t.spsr_bank[b] = IF b = old THEN s.spsr ELSE s.spsr_bank[b]
      BY <2>2, <2>10 DEF Working, Processor
    <2>12. Working(t) /\ Bank(t) = new /\ Bank(s) = old
      BY <2>9, <2>10 DEF Moved, Bank, new, old
    <2>13. ASSUME NEW b \in BankIndices, NEW r \in Gprs PROVE File(t)[b][r] = File(s)[b][r]
      <3>1. CASE r = 13
        <4>1. File(t)[b][13] = IF b = new THEN gprs[13] ELSE t.gpr_banked_r13[b]
          BY <2>10, <2>12, FileAt
        <4>2. File(s)[b][13] = IF b = old THEN s.gpr[13] ELSE s.gpr_banked_r13[b]
          BY <2>12, FileAt
        <4>3. t.gpr_banked_r13[b] = IF b = old THEN s.gpr[13] ELSE s.gpr_banked_r13[b]
          BY <2>11
        <4>4. QED
          BY <1>2, <2>7, <3>1, <4>1, <4>2, <4>3
      <3>2. CASE r = 14
        <4>1. File(t)[b][14] = IF b = new THEN gprs[14] ELSE t.gpr_banked_r14[b]
          BY <2>10, <2>12, FileAt
        <4>2. File(s)[b][14] = IF b = old THEN s.gpr[14] ELSE s.gpr_banked_r14[b]
          BY <2>12, FileAt
        <4>3. t.gpr_banked_r14[b] = IF b = old THEN s.gpr[14] ELSE s.gpr_banked_r14[b]
          BY <2>11
        <4>4. QED
          BY <1>2, <2>7, <3>2, <4>1, <4>2, <4>3
      <3>3. CASE r \in FiqBanked
        <4>1. File(s)[b][r] = IF (b = 1) = (old = 1) THEN s.gpr[r]
                              ELSE IF b = 1 THEN s.gpr_banked_fiq_r8_12[r]
                              ELSE s.gpr_banked_old_r8_12[r]
          BY <2>12, <3>3, FileAt
        <4>2. File(t)[b][r] = IF (b = 1) = (new = 1) THEN gprs[r]
                              ELSE IF b = 1 THEN fiqs[r] ELSE olds[r]
          BY <2>10, <2>12, <3>3, FileAt
        <4>3. QED
          BY <1>2, <2>7, <2>8, <3>3, <4>1, <4>2
      <3>4. CASE r \in Gprs \ (FiqBanked \cup {13, 14})
        BY <2>7, <2>10, <2>12, <3>4, FileAt
      <3>5. QED
        BY <3>1, <3>2, <3>3, <3>4, EveryPlace
    <2>14. ASSUME NEW b \in BankIndices \ {0} PROVE Saved(t)[b] = Saved(s)[b]
      <3>1. Saved(t)[b] = IF b = new THEN s.spsr_bank[new] ELSE t.spsr_bank[b]
        BY <2>10, <2>12, FileAt
      <3>2. Saved(s)[b] = IF b = old THEN s.spsr ELSE s.spsr_bank[b]
        BY <2>12, FileAt
      <3>3. t.spsr_bank[b] = IF b = old THEN s.spsr ELSE s.spsr_bank[b]
        BY <2>11
      <3>4. QED
        BY <1>2, <3>1, <3>2, <3>3
    <2>15. AllSame(s, t)
      BY <2>13, <2>14, PlaceByPlace
    <2>16. QED
      BY <2>1, <2>9, <2>12, <2>15 DEF new
  <1>3. QED
    BY <1>1, <1>2

\* The status that returns may be of the other state.
LEMMA StatusReturns ==
  ASSUME NEW s, Working(s)
  PROVE  LET t == transfer_spsr_mode(s)
         IN  Working(t) /\ t.pc = s.pc /\ AllSame(s, t) /\ t.cpsr \in {s.cpsr, s.spsr}
  <1>1. CASE s.spsr.mode = NoMode
    BY <1>1 DEF transfer_spsr_mode, AllSame
  <1>2. CASE s.spsr.mode # NoMode
    <2> DEFINE u == IF s.cpsr.mode # s.spsr.mode THEN change_mode(s, s.cpsr.mode, s.spsr.mode) ELSE s
               t == [u EXCEPT !.cpsr = s.spsr]
    <2>1. s.spsr \in RegPSR /\ s.spsr.mode \in CpuMode
      BY <1>2 DEF Working, Processor, RegPSR
    <2>2. Moved(s, u) /\ AllSame(s, u) /\ Bank(u) = bank_index(s.spsr.mode)
      BY <2>1, ModeMoved, Itself, KeptWorks DEF AllSame, Bank
    <2>3. transfer_spsr_mode(s) = t
      BY <1>2 DEF transfer_spsr_mode
    <2> HIDE DEF u
    <2>4. Working(t) /\ t.cpsr = s.spsr /\ t.pc = s.pc
      BY <2>1, <2>2 DEF Moved, Working, Processor
    <2>5. /\ t.gpr = u.gpr /\ t.spsr = u.spsr /\ t.spsr_bank = u.spsr_bank
          /\ t.gpr_banked_r13 = u.gpr_banked_r13 /\ t.gpr_banked_r14 = u.gpr_banked_r14
          /\ t.gpr_banked_old_r8_12 = u.gpr_banked_old_r8_12
          /\ t.gpr_banked_fiq_r8_12 = u.gpr_banked_fiq_r8_12
      BY <2>2 DEF Moved, Working, Processor
    <2> HIDE DEF t
    <2>6. AllSame(u, t)
      BY <2>2, <2>4, <2>5, SameParts DEF Bank, Moved
    <2>7. QED
      BY <2>2, <2>3, <2>4, <2>6 DEF AllSame
  <1>3. QED
    BY <1>1, <1>2

-----------------------------------------------------------------------------
\* The pipeline.

\* Between two instructions, and after the fetch with which an instruction begins.
Sound(s) == s \in Processor /\ InStep(s)
Fetched(s) ==
  /\ Working(s) /\ s.pc % word_size(s) = 0
  /\ s.pipeline = <<[at |-> Wrap(s.pc - word_size(s)), thumb |-> s.cpsr.thumb],
                    [at |-> s.pc, thumb |-> s.cpsr.thumb]>>

\* A jump or a step of the program counter; an instruction that leaves the mode alone.
Went(s, t) == Sound(t) /\ Still(s, t) /\ t.cpsr = s.cpsr
Ran(s, t) == Sound(t) /\ Live(s, t)

LEMMA Sizes ==
  ASSUME NEW s, Working(s)
  PROVE  /\ word_size(s) \in {2, 4} /\ s.pc \in Word /\ s.pc \in Int /\ s.cpsr.thumb \in BOOLEAN
         /\ s.cpsr.c \in BOOLEAN /\ s.cpsr.v \in BOOLEAN /\ s.cpsr \in RegPSR
         /\ word_size(s) = 4 <=> ~s.cpsr.thumb
  <1>1. s.pc \in Word /\ s.cpsr \in RegPSR
    BY DEF Working, Processor
  <1>2. s.cpsr.thumb \in BOOLEAN /\ s.cpsr.c \in BOOLEAN /\ s.cpsr.v \in BOOLEAN
    BY <1>1 DEF RegPSR
  <1>3. word_size(s) \in {2, 4} /\ (word_size(s) = 4 <=> ~s.cpsr.thumb)
    BY DEF word_size
  <1>4. s.pc \in Int
    BY <1>1, WordNumbers
  <1>5. QED
    BY <1>1, <1>2, <1>3, <1>4

LEMMA SoundWorks ==
  ASSUME NEW s, Sound(s)
  PROVE  Working(s) /\ s.pc % word_size(s) = 0
  BY DEF Sound, InStep, Working

LEMMA Onward ==
  ASSUME NEW s, NEW t, NEW u, Kept(s, t), Ran(t, u) \/ Went(t, u)
  PROVE  Ran(s, u)
  BY DEF Went, Ran, Still, Kept, Live

LEMMA WentRan ==
  ASSUME NEW s, NEW t, Went(s, t)
  PROVE  Ran(s, t)
  BY DEF Went, Ran, Still

LEMMA RanRan ==
  ASSUME NEW s, NEW t, NEW u, Ran(s, t), Ran(t, u)
  PROVE  Ran(s, u)
  BY DEF Ran, Live

LEMMA FetchGives ==
  ASSUME NEW s, Sound(s)
  PROVE  /\ Fetched(Fetch(s)) /\ Still(s, Fetch(s)) /\ Fetch(s).cpsr = s.cpsr /\ Fetch(s).spsr = s.spsr
         /\ Fetch(s).pc = s.pc /\ Fetch(s).gpr = s.gpr
  <1> DEFINE w == word_size(s)
             slot == [at |-> Align(s.pc, w), thumb |-> s.cpsr.thumb]
             t == [s EXCEPT !.pipeline = <<s.pipeline[2], slot>>]
  <1>1. Working(s) /\ s.pc % w = 0 /\ s.pc \in Word /\ w \in {2, 4} /\ s.cpsr.thumb \in BOOLEAN
    BY SoundWorks, Sizes
  <1>2. Fetch(s) = t
    BY DEF Fetch
  <1>3. Align(s.pc, w) = s.pc
    BY <1>1, PcSteps
  <1>4. s.pipeline[2] = [at |-> Wrap(s.pc - w), thumb |-> s.cpsr.thumb]
    BY DEF Sound, InStep
  <1>5. Wrap(s.pc - w) \in Word
    <2>1. s.pc - w \in Int
      BY <1>1, WordNumbers
    <2>2. QED
      BY <2>1, Wraps
  <1>6. slot \in Slot /\ s.pipeline[2] \in Slot
    BY <1>1, <1>3, <1>4, <1>5 DEF Slot
  <1> HIDE DEF slot
  <1>7. t \in Processor
    BY <1>6 DEF Sound, Processor
  <1>8. t.cpsr = s.cpsr /\ t.spsr = s.spsr /\ t.pc = s.pc /\ t.gpr = s.gpr /\ t.pipeline = <<s.pipeline[2], slot>>
    BY DEF Sound, Processor
  <1> HIDE DEF t
  <1>9. word_size(t) = w
    BY <1>8 DEF word_size
  <1>10. Fetched(t)
    BY <1>1, <1>3, <1>4, <1>7, <1>8, <1>9 DEF Fetched, Working, slot
  <1>11. Still(s, Fetch(s))
    BY <1>2 DEF Still, Live, Sound, Processor, t
  <1>12. QED
    BY <1>2, <1>8, <1>10, <1>11

LEMMA SoundMoved ==
  ASSUME NEW s, NEW t, Sound(s), Moved(s, t)
  PROVE  Sound(t)
  BY DEF Sound, Moved, Working, InStep, word_size, get_next_pc

LEMMA SoundKept ==
  ASSUME NEW s, NEW t, Sound(s), Kept(s, t)
  PROVE  Ran(s, t)
  BY SoundMoved DEF Kept, Ran

LEMMA AdvancedMoved ==
  ASSUME NEW s, Fetched(s), NEW t, Moved(s, t)
  PROVE  /\ ~s.cpsr.thumb => Went(t, advance_arm(t))
         /\ s.cpsr.thumb => Went(t, advance_thumb(t))
  <1> DEFINE w == word_size(s)
             u == [t EXCEPT !.pc = Wrap(t.pc + w)]
  <1>1. /\ Working(s) /\ s.pc % w = 0 /\ s.pc \in Word /\ w \in {2, 4} /\ s.pc \in Int
        /\ w = 4 <=> ~s.cpsr.thumb
    BY Sizes DEF Fetched
  <1>2. Working(t) /\ t.pc = s.pc /\ t.pipeline = s.pipeline /\ t.cpsr.thumb = s.cpsr.thumb
    BY DEF Moved
  <1>3. s.pipeline = <<[at |-> Wrap(s.pc - w), thumb |-> s.cpsr.thumb],
                       [at |-> s.pc, thumb |-> s.cpsr.thumb]>>
    BY DEF Fetched
  <1>4. /\ Wrap(s.pc + w) \in Word /\ Wrap(s.pc + w) % w = 0
        /\ Wrap(Wrap(s.pc + w) - w) = s.pc /\ Wrap(Wrap(s.pc + w) - 2 * w) = Wrap(s.pc - w)
    <2>1. 1 \in {1, 2} /\ s.pc + 1 * w = s.pc + w
      BY <1>1
    <2>2. Wrap(s.pc + 1 * w) \in Word /\ Wrap(s.pc + 1 * w) % w = 0
      BY <1>1, <2>1, PcSteps
    <2>3. QED
      BY <1>1, <2>1, <2>2, PcSteps
  <1>5. /\ u \in Processor /\ u.cpsr = t.cpsr /\ u.pc = Wrap(s.pc + w) /\ u.pipeline = t.pipeline
        /\ Still(t, u)
    BY <1>2, <1>4 DEF Working, Processor, Still, Live
  <1>6. word_size(u) = w
    BY <1>2, <1>5 DEF word_size
  <1>7. Sound(u)
    <2> HIDE DEF u, w
    <2>1. u.cpsr.mode \in CpuMode /\ u.pc % w = 0
      BY <1>2, <1>4, <1>5 DEF Working
    <2>2. u.pipeline = <<[at |-> get_next_pc(u), thumb |-> u.cpsr.thumb],
                         [at |-> Wrap(u.pc - w), thumb |-> u.cpsr.thumb]>>
      BY <1>2, <1>3, <1>4, <1>5, <1>6 DEF get_next_pc
    <2>3. QED
      BY <1>5, <1>6, <2>1, <2>2 DEF Sound, InStep
  <1>8. /\ ~s.cpsr.thumb => u = advance_arm(t)
        /\ s.cpsr.thumb => u = advance_thumb(t)
    <2>1. (~s.cpsr.thumb => w = 4) /\ (s.cpsr.thumb => w = 2)
      BY DEF word_size
    <2>2. QED
      BY <2>1 DEF advance_arm, advance_thumb
  <1>9. QED
    BY <1>5, <1>7, <1>8 DEF Went

LEMMA Advanced ==
  ASSUME NEW s, Fetched(s), NEW t, Kept(s, t)
  PROVE  /\ ~s.cpsr.thumb => Ran(s, advance_arm(t))
         /\ s.cpsr.thumb => Ran(s, advance_thumb(t))
  <1>1. \A x : Went(t, x) => Ran(s, x)
    BY Onward
  <1>2. Moved(s, t)
    BY KeptWorks
  <1>3. QED
    BY <1>1, <1>2, AdvancedMoved

LEMMA Reloaded ==
  ASSUME NEW t, Working(t), t.pc % word_size(t) = 0
  PROVE  /\ t.cpsr.thumb => Went(t, reload_pipeline16(t))
         /\ ~t.cpsr.thumb => Went(t, reload_pipeline32(t))
  <1> DEFINE w == word_size(t)
             first == [at |-> Align(t.pc, w), thumb |-> t.cpsr.thumb]
             second == [at |-> Align(Wrap(t.pc + w), w), thumb |-> t.cpsr.thumb]
             u == [t EXCEPT !.pipeline = <<first, second>>, !.pc = Wrap(t.pc + 2 * w)]
  <1>1. w \in {2, 4} /\ t.pc \in Word /\ t.pc \in Int /\ t.cpsr.thumb \in BOOLEAN
    BY Sizes
  <1>2. /\ Align(t.pc, w) = t.pc /\ Align(Wrap(t.pc + w), w) = Wrap(t.pc + w)
        /\ Wrap(t.pc + 2 * w) \in Word /\ Wrap(t.pc + 2 * w) % w = 0
        /\ Wrap(Wrap(t.pc + 2 * w) - 2 * w) = t.pc /\ Wrap(Wrap(t.pc + 2 * w) - w) = Wrap(t.pc + w)
    <2>1. 2 \in {1, 2}
      OBVIOUS
    <2>2. QED
      BY <1>1, <2>1, PcSteps
  <1>3. Wrap(t.pc + w) \in Word
    BY <1>1, Wraps
  <1>4. first \in Slot /\ second \in Slot
    BY <1>1, <1>2, <1>3 DEF Slot
  <1>5. first = [at |-> t.pc, thumb |-> t.cpsr.thumb]
        /\ second = [at |-> Wrap(t.pc + w), thumb |-> t.cpsr.thumb]
    BY <1>2
  <1> HIDE DEF first, second
  <1>6. /\ u \in Processor /\ u.cpsr = t.cpsr /\ u.pc = Wrap(t.pc + 2 * w)
        /\ u.pipeline = <<first, second>> /\ Still(t, u)
    BY <1>2, <1>4 DEF Working, Processor, Still, Live
  <1>7. word_size(u) = w
    BY <1>6 DEF word_size
  <1>8. Sound(u)
    <2> HIDE DEF u, w
    <2>1. u.cpsr.mode \in CpuMode /\ u.pc % w = 0
      BY <1>2, <1>6 DEF Working
    <2>2. u.pipeline = <<[at |-> get_next_pc(u), thumb |-> u.cpsr.thumb],
                         [at |-> Wrap(u.pc - w), thumb |-> u.cpsr.thumb]>>
      BY <1>2, <1>5, <1>6, <1>7 DEF get_next_pc
    <2>3. QED
      BY <1>6, <1>7, <2>1, <2>2 DEF Sound, InStep
  <1>9. CASE t.cpsr.thumb
    <2>1. w = 2
      BY <1>9 DEF word_size
    <2>2. u = reload_pipeline16(t)
      BY <1>9, <2>1 DEF reload_pipeline16, first, second
    <2>3. QED
      BY <1>6, <1>8, <1>9, <2>2 DEF Went
  <1>10. CASE ~t.cpsr.thumb
    <2>1. w = 4
      BY <1>10 DEF word_size
    <2>2. t.cpsr.thumb = FALSE
      BY <1>1, <1>10
    <2>3. first = [at |-> Align(t.pc, 4), thumb |-> FALSE]
          /\ second = [at |-> Align(Wrap(t.pc + 4), 4), thumb |-> FALSE]
      BY <2>1, <2>2 DEF first, second
    <2>4. u = reload_pipeline32(t)
      BY <2>1, <2>3 DEF reload_pipeline32
    <2>5. QED
      BY <1>6, <1>8, <1>10, <2>4 DEF Went
  <1>11. QED
    BY <1>1, <1>9, <1>10

\* The program counter set to a value, and the pipeline reloaded at the width of the state.
LEMMA PcSet ==
  ASSUME NEW t, Working(t), NEW v \in Word
  PROVE  /\ Working(set_reg(t, 15, v)) /\ set_reg(t, 15, v).cpsr = t.cpsr
         /\ Still(t, set_reg(t, 15, v))
         /\ t.cpsr.thumb => Went(t, reload_pipeline16(set_reg(t, 15, v)))
         /\ ~t.cpsr.thumb => Went(t, reload_pipeline32(set_reg(t, 15, v)))
  <1> DEFINE u == set_reg(t, 15, v)
  <1>1. word_size(t) \in {2, 4}
    BY Sizes
  <1>2. Align(v, word_size(t)) \in Word /\ Align(v, word_size(t)) % word_size(t) = 0
    BY <1>1, Alignment
  <1>3. u = [t EXCEPT !.pc = Align(v, word_size(t))]
    BY DEF set_reg
  <1>4. Working(u) /\ u.cpsr = t.cpsr /\ u.pc = Align(v, word_size(t)) /\ Still(t, u)
    BY <1>2, <1>3 DEF Working, Processor, Still, Live
  <1> HIDE DEF u
  <1>5. u.pc % word_size(u) = 0
    BY <1>2, <1>4 DEF word_size
  <1>6. \A x : Went(u, x) => Went(t, x)
    BY <1>4 DEF Went, Still, Live
  <1>7. QED
    BY <1>4, <1>5, <1>6, Reloaded DEF u

LEMMA WrapAligned ==
  ASSUME NEW w \in {2, 4}, NEW n \in Int, n % w = 0
  PROVE  Wrap(n) % w = 0 /\ Wrap(n) \in Word
  <1>1. Modulus \in Nat \ {0} /\ Modulus % 16 = 0
    BY Powers
  <1> DEFINE k == Modulus \div 16
             q == n \div Modulus
             r == n % Modulus
  <1>2. Modulus = 16 * k /\ k \in Int
    BY <1>1
  <1>3. n = Modulus * q + r /\ q \in Int /\ r \in Int
    BY <1>1, Remainders
  <1> HIDE DEF k, q, r
  <1> DEFINE z == k * q
  <1>4. z \in Int /\ n = 16 * z + r
    <2>1. (16 * k) * q = 16 * (k * q) /\ k * q \in Int
      BY <1>2, <1>3
    <2>2. QED
      BY <1>2, <1>3, <2>1
  <1> HIDE DEF z
  <1>5. n % 2 = 0 => r % 2 = 0
    BY <1>3, <1>4
  <1>6. n % 4 = 0 => r % 4 = 0
    BY <1>3, <1>4
  <1>7. r % w = 0
    <2>1. (w = 2 /\ n % 2 = 0) \/ (w = 4 /\ n % 4 = 0)
      OBVIOUS
    <2>2. QED
      BY <1>5, <1>6, <2>1
  <1>8. Wrap(n) = r
    BY DEF Wrap, r
  <1>9. QED
    BY <1>7, <1>8, Wraps

\* An exception puts the link and the status into the bank that it enters, and nothing else
\* into any bank but that of the mode it leaves.
Enters(s, t) ==
  \A b \in BankIndices \ {Bank(s)} :
    /\ File(t)[b][13] = File(s)[b][13]
    /\ File(t)[b][14] = File(s)[b][14] \/ b = Bank(t)
    /\ \A r \in FiqBanked : File(t)[b][r] = File(s)[b][r] \/ (b = 1) = (Bank(s) = 1)
    /\ b # 0 => Saved(t)[b] = Saved(s)[b] \/ b = Bank(t)

LEMMA OwnEnters ==
  ASSUME NEW s, NEW t, OwnBut({Bank(s)}, s, t)
  PROVE  Enters(s, t)
  BY DEF OwnBut, Enters

LEMMA Excepted ==
  ASSUME NEW s, Working(s), NEW lr \in Word, NEW e \in {"SoftwareInterrupt", "Irq"}
  PROVE  Sound(exception(s, e, lr)) /\ Enters(s, exception(s, e, lr))
  <1> DEFINE mode == ExceptionMode(e)
             banked == [s EXCEPT !.spsr_bank[bank_index(mode)] = s.cpsr,
                                 !.gpr_banked_r14[bank_index(mode)] = lr]
             changed == change_mode(banked, s.cpsr.mode, mode)
             off == changed.cpsr.irq_off \/ e \in {"Reset", "SoftwareInterrupt", "Irq", "Fiq"}
             fast == changed.cpsr.fiq_off \/ e \in {"Reset", "Fiq"}
             there == [changed EXCEPT !.cpsr.thumb = FALSE, !.cpsr.mode = mode,
                         !.cpsr.irq_off = off, !.cpsr.fiq_off = fast, !.pc = Vector(e)]
             new == bank_index(mode)
  <1>1. mode \in CpuMode
    BY DEF ExceptionMode, CpuMode
  <1>2. new \in BankIndices
    BY <1>1, ModeBanks
  <1> HIDE DEF mode
  <1>3. Working(banked) /\ banked.cpsr = s.cpsr
    BY <1>2 DEF Working, Processor
  <1>4. /\ banked.gpr = s.gpr /\ banked.spsr = s.spsr /\ banked.gpr_banked_r13 = s.gpr_banked_r13
        /\ banked.gpr_banked_old_r8_12 = s.gpr_banked_old_r8_12
        /\ banked.gpr_banked_fiq_r8_12 = s.gpr_banked_fiq_r8_12
        /\ \A b \in BankIndices \ {new} : /\ banked.gpr_banked_r14[b] = s.gpr_banked_r14[b]
                                         /\ banked.spsr_bank[b] = s.spsr_bank[b]
    BY <1>2 DEF Working, Processor
  <1> HIDE DEF banked
  <1>5. Working(changed) /\ AllSame(banked, changed) /\ Bank(changed) = new
    BY <1>1, <1>3, ModeMoved DEF Moved
  <1> HIDE DEF changed
  <1>6. Vector(e) \in Word /\ Vector(e) % 4 = 0
    BY SmallWords DEF Vector
  <1>7. off \in BOOLEAN /\ fast \in BOOLEAN
    BY <1>5 DEF Working, Processor, RegPSR
  <1> HIDE DEF off, fast
  <1>8. Working(there) /\ there.pc = Vector(e) /\ there.cpsr.thumb = FALSE /\ Bank(there) = new
    BY <1>1, <1>5, <1>6, <1>7 DEF Working, Processor, RegPSR, Bank
  <1>9. /\ there.gpr = changed.gpr /\ there.spsr = changed.spsr
        /\ there.spsr_bank = changed.spsr_bank
        /\ there.gpr_banked_r13 = changed.gpr_banked_r13
        /\ there.gpr_banked_r14 = changed.gpr_banked_r14
        /\ there.gpr_banked_old_r8_12 = changed.gpr_banked_old_r8_12
        /\ there.gpr_banked_fiq_r8_12 = changed.gpr_banked_fiq_r8_12
    BY <1>5 DEF Working, Processor
  <1>10. exception(s, e, lr) = reload_pipeline32(there)
    BY DEF exception, mode, banked, changed, off, fast
  <1> HIDE DEF there
  <1> DEFINE final == reload_pipeline32(there)
  <1>11. Went(there, final)
    <2>1. word_size(there) = 4
      BY <1>8 DEF word_size
    <2>2. QED
      BY <1>6, <1>8, <2>1, Reloaded
  <1> HIDE DEF final
  <1>12. Sound(final) /\ Working(final)
    BY <1>11, SoundWorks DEF Went
  <1>13. AllSame(banked, final) /\ Bank(final) = new
    <2>1. AllSame(changed, there)
      BY <1>5, <1>8, <1>9, SameParts
    <2>2. AllSame(there, final) /\ Bank(final) = Bank(there)
      BY <1>8, <1>11, <1>12, StillSame DEF Went
    <2>3. QED
      BY <1>5, <1>8, <2>1, <2>2 DEF AllSame
  <1>14. ASSUME NEW b \in BankIndices \ {Bank(s)}
         PROVE  /\ File(banked)[b][13] = File(s)[b][13]
                /\ File(banked)[b][14] = File(s)[b][14] \/ b = new
                /\ \A r \in FiqBanked : File(banked)[b][r] = File(s)[b][r]
                /\ b # 0 => Saved(banked)[b] = Saved(s)[b] \/ b = new
    <2>1. Bank(banked) = Bank(s)
      BY <1>3 DEF Bank
    <2>2. File(banked)[b][13] = File(s)[b][13]
      BY <1>3, <1>4, <2>1, FileAt
    <2>3. File(banked)[b][14] = File(s)[b][14] \/ b = new
      BY <1>3, <1>4, <2>1, FileAt
    <2>4. \A r \in FiqBanked : File(banked)[b][r] = File(s)[b][r]
      BY <1>3, <1>4, <2>1, FileAt
    <2>5. b # 0 => Saved(banked)[b] = Saved(s)[b] \/ b = new
      BY <1>3, <1>4, <2>1, FileAt
    <2>6. QED
      BY <2>2, <2>3, <2>4, <2>5
  <1>15. Enters(s, final)
    BY <1>13, <1>14 DEF Enters, AllSame
  <1>16. QED
    BY <1>10, <1>12, <1>15 DEF final

-----------------------------------------------------------------------------
\* Status words.

LEMMA PsrWords ==
  ASSUME NEW p \in RegPSR
  PROVE  PsrWord(p) \in Word
  <1> DEFINE P == 2^(WordBits - 4)
             low == ModeNumber(p.mode) + Num(p.thumb) * 32 + Num(p.fiq_off) * 64 + Num(p.irq_off) * 128
             high == Num(p.n) * 8 + Num(p.z) * 4 + Num(p.c) * 2 + Num(p.v)
  <1>1. P \in Nat /\ P >= 256 /\ Modulus = 16 * P
    BY Powers
  <1>2. ModeNumber(p.mode) \in 0..31
    BY DEF RegPSR, CpuMode, NoMode, ModeNumber
  <1>3. low \in 0..255
    <2> DEFINE a == Num(p.thumb)
               b == Num(p.fiq_off)
               c == Num(p.irq_off)
               m == ModeNumber(p.mode)
    <2>1. a \in {0, 1} /\ b \in {0, 1} /\ c \in {0, 1} /\ m \in 0..31
      BY <1>2, Numbers
    <2> HIDE DEF a, b, c, m
    <2>2. m + a * 32 + b * 64 + c * 128 \in 0..255
      BY <2>1
    <2>3. QED
      BY <2>2 DEF a, b, c, m
  <1>4. high \in 0..15
    <2> DEFINE a == Num(p.n)
               b == Num(p.z)
               c == Num(p.c)
               d == Num(p.v)
    <2>1. a \in {0, 1} /\ b \in {0, 1} /\ c \in {0, 1} /\ d \in {0, 1}
      BY Numbers
    <2> HIDE DEF a, b, c, d
    <2>2. a * 8 + b * 4 + c * 2 + d \in 0..15
      BY <2>1
    <2>3. QED
      BY <2>2 DEF a, b, c, d
  <1>5. PsrWord(p) = low + high * P
    BY DEF PsrWord
  <1> HIDE DEF P, low, high
  <1>6. high * P >= 0 /\ high * P <= 15 * P /\ high * P \in Int
    BY <1>1, <1>4
  <1>7. low + high * P \in 0..(Modulus - 1)
    BY <1>1, <1>3, <1>6
  <1>8. QED
    BY <1>5, <1>7 DEF Word

LEMMA WordPsrs ==
  ASSUME NEW w
  PROVE  WordPsr(w) \in RegPSR
  <1>1. \A n : Bit(w, n) \in BOOLEAN
    BY DEF Bit
  <1>2. (IF \E m \in CpuMode : ModeNumber(m) = w % 32
         THEN CHOOSE m \in CpuMode : ModeNumber(m) = w % 32 ELSE NoMode) \in CpuMode \cup {NoMode}
    <2>1. CASE \E m \in CpuMode : ModeNumber(m) = w % 32
      <3>1. (CHOOSE m \in CpuMode : ModeNumber(m) = w % 32) \in CpuMode
        BY <2>1
      <3>2. QED
        BY <2>1, <3>1
    <2>2. CASE ~(\E m \in CpuMode : ModeNumber(m) = w % 32)
      BY <2>2
    <2>3. QED
      BY <2>1, <2>2
  <1>3. QED
    BY <1>1, <1>2 DEF WordPsr, RegPSR

-----------------------------------------------------------------------------
\* What a jump, a load and a shifter do in the formats that share them.

ArmReady(s) == Fetched(s) /\ ~s.cpsr.thumb
ThumbReady(s) == Fetched(s) /\ s.cpsr.thumb

LEMMA ReadyWorks ==
  ASSUME NEW s, ArmReady(s) \/ ThumbReady(s)
  PROVE  Fetched(s) /\ Working(s) /\ Kept(s, s)
  BY Itself DEF ArmReady, ThumbReady, Fetched

LEMMA Jumped ==
  ASSUME NEW t, Working(t), NEW v \in Word, v % word_size(t) = 0
  PROVE  /\ t.cpsr.thumb => Went(t, reload_pipeline16([t EXCEPT !.pc = v]))
         /\ ~t.cpsr.thumb => Went(t, reload_pipeline32([t EXCEPT !.pc = v]))
  <1> DEFINE u == [t EXCEPT !.pc = v]
  <1>1. Working(u) /\ u.cpsr = t.cpsr /\ u.pc = v /\ Still(t, u)
    BY DEF Working, Processor, Still, Live
  <1> HIDE DEF u
  <1>2. word_size(u) = word_size(t)
    BY <1>1 DEF word_size
  <1>3. \A x : Went(u, x) => Went(t, x)
    BY <1>1 DEF Went, Still, Live
  <1>4. QED
    BY <1>1, <1>2, <1>3, Reloaded DEF u

LEMMA LoadIntoSound ==
  ASSUME NEW s, ArmReady(s), NEW t, Moved(s, t), NEW r \in Reg, NEW v \in Word
  PROVE  Ran(t, LoadInto(t, r, v))
  <1>0. Working(t) /\ ~t.cpsr.thumb /\ Fetched(s) /\ ~s.cpsr.thumb
    BY DEF Moved, ArmReady
  <1>1. CASE r = 15
    <2>1. LoadInto(t, r, v) = reload_pipeline32(set_reg(t, 15, v))
      BY <1>1 DEF LoadInto
    <2>2. QED
      BY <1>0, <2>1, PcSet, WentRan
  <1>2. CASE r # 15
    <2>1. r \in Gprs
      BY <1>2 DEF Reg
    <2>2. LoadInto(t, r, v) = advance_arm(set_reg(t, r, v))
      BY <1>2 DEF LoadInto
    <2>3. Kept(t, set_reg(t, r, v))
      BY <1>0, <2>1, RegisterKept
    <2> DEFINE u == set_reg(t, r, v)
    <2> HIDE DEF u
    <2>4. Kept(t, u) /\ LoadInto(t, r, v) = advance_arm(u)
      BY <2>2, <2>3 DEF u
    <2>5. Moved(s, u)
      BY <2>4, KeptWorks, MovedMoved
    <2>6. Went(u, advance_arm(u))
      BY <1>0, <2>5, AdvancedMoved
    <2>7. QED
      BY <2>4, <2>6, Onward
  <1>3. QED
    BY <1>1, <1>2

LEMMA ShifterWords ==
  ASSUME NEW s, Working(s), NEW i, ShiftedRegister(i)
  PROVE  register_shift(s, i) \in Shifted
  <1>1. s.cpsr.c \in BOOLEAN /\ i.shift \in Shifts /\ get_reg(s, i.rm) \in Word
    BY Sizes, Registers DEF ShiftedRegister
  <1>2. CASE i.by = "register"
    <2>1. get_reg(s, i.rs) \in Word
      BY <1>2, Registers DEF ShiftedRegister
    <2>2. get_reg(s, i.rs) % 256 \in Nat
      BY <2>1, WordNumbers
    <2>3. Wrap(get_reg(s, i.rm) + (IF i.rm = 15 THEN 4 ELSE 0)) \in Word
      <3>1. get_reg(s, i.rm) + 4 \in Int /\ get_reg(s, i.rm) + 0 \in Int
        BY <1>1, WordNumbers
      <3>2. QED
        BY <3>1, Wraps
    <2>4. FALSE \in BOOLEAN
      OBVIOUS
    <2> DEFINE v == Wrap(get_reg(s, i.rm) + (IF i.rm = 15 THEN 4 ELSE 0))
               n == get_reg(s, i.rs) % 256
    <2>5. register_shift(s, i) = barrel_shift_op(i.shift, v, n, s.cpsr.c, FALSE)
      BY <1>2 DEF register_shift
    <2> HIDE DEF v, n
    <2>6. v \in Word /\ n \in Nat
      BY <2>2, <2>3 DEF v, n
    <2>7. QED
      BY <1>1, <2>4, <2>5, <2>6, ShiftWords
  <1>3. CASE i.by # "register"
    <2>1. i.amount \in Nat /\ TRUE \in BOOLEAN
      BY <1>3 DEF ShiftedRegister
    <2>2. register_shift(s, i) = barrel_shift_op(i.shift, get_reg(s, i.rm), i.amount, s.cpsr.c, TRUE)
      BY <1>3 DEF register_shift
    <2>3. QED
      BY <1>1, <2>1, <2>2, ShiftWords
  <1>4. QED
    BY <1>2, <1>3

LEMMA Rotations ==
  ASSUME NEW imm \in Word, NEW rot \in 0..15, NEW c \in BOOLEAN
  PROVE  ror(imm, 2 * rot, c, FALSE, TRUE) \in Shifted
  <1>1. 2 * rot \in Nat /\ FALSE \in BOOLEAN /\ TRUE \in BOOLEAN
    OBVIOUS
  <1>2. QED
    BY <1>1, ShiftRotated

-----------------------------------------------------------------------------
\* The ARM formats.

LEMMA BranchLinkSound ==
  ASSUME NEW s, ArmReady(s), NEW i, ArmForm(i), i.fmt = "BranchLink"
  PROVE  Ran(s, exec_arm_b_bl(s, i))
  <1> DEFINE link == Align(Wrap(pc_arm(s) + word_size(s)), 2)
             linked == IF i.link THEN set_reg(s, 14, link) ELSE s
             target == Wrap(s.pc + i.offset)
  <1>1. i.offset \in Int /\ i.offset % 4 = 0
    BY DEF ArmForm
  <1>2. Working(s) /\ s.pc \in Int /\ s.pc % 4 = 0 /\ word_size(s) = 4 /\ Kept(s, s)
    BY ReadyWorks, Sizes DEF ArmReady, Fetched
  <1>3. link \in Word
    <2>1. pc_arm(s) + word_size(s) \in Int
      <3>1. pc_arm(s) \in Int
        BY <1>2, Wraps, WordNumbers DEF pc_arm
      <3>2. QED
        BY <1>2, <3>1
    <2>2. 2 \in {2, 4}
      OBVIOUS
    <2>3. QED
      BY <2>1, <2>2, Wraps, Alignment
  <1> HIDE DEF link
  <1>4. Kept(s, linked)
    BY <1>2, <1>3, ModeBanks, RegisterKept
  <1> HIDE DEF linked
  <1>5. target \in Word /\ target % 4 = 0
    <2>1. s.pc + i.offset \in Int /\ (s.pc + i.offset) % 4 = 0 /\ 4 \in {2, 4}
      BY <1>1, <1>2
    <2>2. QED
      BY <2>1, WrapAligned
  <1>6. Align(target, 2) = target
    <2> HIDE DEF target
    <2>1. target \in Int /\ target % 2 = 0
      BY <1>5, WordNumbers
    <2>2. QED
      BY <2>1 DEF Align
  <1>7. exec_arm_b_bl(s, i) = reload_pipeline32([linked EXCEPT !.pc = Align(target, 2)])
    BY DEF exec_arm_b_bl, linked, link
  <1> HIDE DEF target
  <1>8. Working(linked) /\ ~linked.cpsr.thumb /\ word_size(linked) = 4
    BY <1>4 DEF Kept, Moved, ArmReady, word_size
  <1>9. Went(linked, reload_pipeline32([linked EXCEPT !.pc = target]))
    BY <1>5, <1>8, Jumped
  <1>10. QED
    BY <1>4, <1>6, <1>7, <1>9, Onward

LEMMA ExchangeSound ==
  ASSUME NEW s, Working(s), NEW a \in Word
  PROVE  Ran(s, branch_exchange(s, a))
  <1> DEFINE t(flag) == [s EXCEPT !.cpsr.thumb = flag]
  <1>1. ASSUME NEW flag \in BOOLEAN
        PROVE  Working(t(flag)) /\ t(flag).cpsr.thumb = flag /\ Live(s, t(flag))
    BY DEF Working, Processor, RegPSR, Live
  <1>2. /\ [s EXCEPT !.cpsr.thumb = TRUE, !.pc = Align(a, 2)] = [t(TRUE) EXCEPT !.pc = Align(a, 2)]
        /\ [s EXCEPT !.cpsr.thumb = FALSE, !.pc = Align(a, 4)] = [t(FALSE) EXCEPT !.pc = Align(a, 4)]
    BY DEF Working, Processor, RegPSR
  <1> HIDE DEF t
  <1>3. word_size(t(TRUE)) = 2 /\ word_size(t(FALSE)) = 4
    BY <1>1 DEF word_size
  <1>4. /\ Align(a, 2) \in Word /\ Align(a, 2) % 2 = 0
        /\ Align(a, 4) \in Word /\ Align(a, 4) % 4 = 0
    BY Alignment
  <1>5. CASE Bit(a, 0)
    <2>1. branch_exchange(s, a) = reload_pipeline16([t(TRUE) EXCEPT !.pc = Align(a, 2)])
      BY <1>2, <1>5 DEF branch_exchange
    <2>2. Went(t(TRUE), branch_exchange(s, a))
      BY <1>1, <1>3, <1>4, <2>1, Jumped
    <2>3. QED
      BY <1>1, <2>2 DEF Went, Ran, Still, Live
  <1>6. CASE ~Bit(a, 0)
    <2>1. branch_exchange(s, a) = reload_pipeline32([t(FALSE) EXCEPT !.pc = Align(a, 4)])
      BY <1>2, <1>6 DEF branch_exchange
    <2>2. Went(t(FALSE), branch_exchange(s, a))
      BY <1>1, <1>3, <1>4, <2>1, Jumped
    <2>3. QED
      BY <1>1, <2>2 DEF Went, Ran, Still, Live
  <1>7. QED
    BY <1>5, <1>6

LEMMA BranchExchangeSound ==
  ASSUME NEW s, ArmReady(s), NEW i, ArmForm(i), i.fmt = "BranchExchange"
  PROVE  Ran(s, exec_arm_bx(s, i))
  <1>1. i.rm \in Reg
    BY DEF ArmForm
  <1>2. QED
    BY <1>1, ReadyWorks, Registers, ExchangeSound DEF exec_arm_bx

LEMMA MoveFromStatusSound ==
  ASSUME NEW s, ArmReady(s), NEW i, ArmForm(i), i.fmt = "MoveFromStatus"
  PROVE  Ran(s, exec_arm_mrs(s, i))
  <1> DEFINE p == IF i.spsr THEN s.spsr ELSE s.cpsr
  <1>1. i.rd \in Gprs
    BY DEF ArmForm
  <1>2. Working(s) /\ Fetched(s)
    BY ReadyWorks
  <1>3. p \in RegPSR
    BY <1>2 DEF Working, Processor
  <1> HIDE DEF p
  <1>4. Kept(s, set_reg(s, i.rd, PsrWord(p)))
    BY <1>1, <1>2, <1>3, PsrWords, RegisterKept
  <1>5. QED
    BY <1>2, <1>4, Advanced DEF exec_arm_mrs, ArmReady, p

\* It ends in step, with the other modes' registers and statuses as they were.
Stays(s, t) == Sound(t) /\ OwnBut({Bank(s)}, s, t)

LEMMA RanStays ==
  ASSUME NEW s, Working(s), NEW t, Ran(s, t)
  PROVE  Stays(s, t)
  BY SoundWorks, LiveOwn DEF Ran, Stays

LEMMA WentSame ==
  ASSUME NEW s, Working(s), NEW t, Went(s, t)
  PROVE  Sound(t) /\ AllSame(s, t) /\ Bank(t) = Bank(s)
  BY SoundWorks, StillSame DEF Went

LEMMA SameStays ==
  ASSUME NEW s, NEW t, Sound(t), AllSame(s, t)
  PROVE  Stays(s, t)
  BY OwnSame DEF Stays

\* MSR leaves the processor in a mode and in ARM state.
KeepsState(s, i) ==
  (i.c /\ ~i.spsr /\ s.cpsr.mode # "User") =>
    LET p == StatusOperand(s, i) IN p.mode \in CpuMode /\ ~p.thumb

LEMMA MoveToStatusSound ==
  ASSUME NEW s, ArmReady(s), NEW i, ArmForm(i), i.fmt = "MoveToStatus", KeepsState(s, i)
  PROVE  Stays(s, exec_arm_transfer_to_status(s, i))
  <1> DEFINE rotated == ror(i.imm, 2 * i.rot, s.cpsr.c, FALSE, TRUE)
             value == StatusOperand(s, i)
             t == IF i.is_imm THEN [s EXCEPT !.cpsr.c = rotated[2]] ELSE s
             flags == IF i.f THEN value ELSE t.cpsr
             control == IF i.c THEN value ELSE t.cpsr
             new_psr == [control EXCEPT !.n = flags.n, !.z = flags.z, !.c = flags.c, !.v = flags.v]
             moved == [change_mode(t, t.cpsr.mode, new_psr.mode) EXCEPT !.cpsr = new_psr]
  <1>1. {i.is_imm, i.spsr, i.f, i.c} \subseteq BOOLEAN /\ (i.is_imm => i.imm \in Word /\ i.rot \in 0..15)
    BY DEF ArmForm
  <1>2. Working(s) /\ Fetched(s) /\ Kept(s, s) /\ s.cpsr.c \in BOOLEAN /\ ~s.cpsr.thumb
    BY ReadyWorks, Sizes DEF ArmReady
  <1>3. i.is_imm => rotated \in Shifted
    BY <1>1, <1>2, Rotations
  <1>4. value \in RegPSR
    BY WordPsrs DEF StatusOperand
  <1>5. /\ exec_arm_transfer_to_status(s, i) =
             advance_arm(CASE t.cpsr.mode = "User" -> SetFlags(t, value)
                           [] t.cpsr.mode # "User" /\ i.spsr -> [t EXCEPT !.spsr = value]
                           [] OTHER -> moved)
    BY DEF exec_arm_transfer_to_status
  <1> HIDE DEF rotated, value
  <1>6. Kept(s, t)
    BY <1>1, <1>2, <1>3, CarryKept DEF Shifted
  <1>7. t.cpsr.mode = s.cpsr.mode
    BY <1>2 DEF Working, Processor, RegPSR
  <1> HIDE DEF t
  <1>8. Working(t) /\ t.cpsr \in RegPSR
    BY <1>6, KeptWorks DEF Working, Processor
  <1>9. CASE t.cpsr.mode = "User"
    <2>1. {value.n, value.z, value.c, value.v} \subseteq BOOLEAN
      BY <1>4 DEF RegPSR
    <2>2. Kept(s, SetFlags(t, value))
      BY <1>6, <1>8, <2>1, FlagsKept, KeptKept
    <2>3. QED
      BY <1>2, <1>5, <1>9, <2>2, Advanced, RanStays
  <1>10. CASE t.cpsr.mode # "User" /\ i.spsr
    <2>1. Kept(t, [t EXCEPT !.spsr = value])
      BY <1>4, <1>8 DEF Kept, Moved, Live, Working, Processor
    <2>2. Kept(s, [t EXCEPT !.spsr = value])
      BY <1>6, <2>1, KeptKept
    <2> HIDE DEF moved
    <2>3. exec_arm_transfer_to_status(s, i) = advance_arm([t EXCEPT !.spsr = value])
      BY <1>5, <1>10
    <2>4. QED
      BY <1>2, <2>2, <2>3, Advanced, RanStays
  <1>11. CASE t.cpsr.mode # "User" /\ ~i.spsr
    <2>1. i.c => value.mode \in CpuMode /\ ~value.thumb
      BY <1>7, <1>11 DEF KeepsState, value
    <2>2. t.cpsr.mode \in CpuMode /\ ~t.cpsr.thumb
      BY <1>2, <1>6, KeptWorks DEF Working
    <2>3. control \in RegPSR /\ flags \in RegPSR /\ control.mode \in CpuMode /\ ~control.thumb
      BY <1>4, <1>8, <2>1, <2>2
    <2> HIDE DEF control, flags
    <2>4. new_psr \in RegPSR /\ new_psr.mode = control.mode /\ ~new_psr.thumb
      BY <2>3 DEF RegPSR
    <2> HIDE DEF new_psr
    <2> DEFINE u == change_mode(t, t.cpsr.mode, new_psr.mode)
    <2>5. Moved(t, u) /\ AllSame(t, u) /\ Bank(u) = bank_index(new_psr.mode)
      BY <1>8, <2>3, <2>4, ModeMoved
    <2> HIDE DEF u
    <2>6. moved = [u EXCEPT !.cpsr = new_psr] /\ Working(u)
      BY <2>5 DEF u, Moved
    <2> HIDE DEF moved
    <2>7. Moved(u, moved) /\ moved.cpsr = new_psr 
      <3>1. t.cpsr.thumb \in BOOLEAN /\ new_psr.thumb \in BOOLEAN
        BY <1>8, <2>4 DEF RegPSR
      <3>2. u \in Processor /\ u.cpsr.thumb = t.cpsr.thumb
        BY <2>5, <2>6 DEF Moved, Working
      <3>3. moved.cpsr = new_psr
        BY <2>6, <3>2 DEF Processor
      <3>4. moved.cpsr.thumb = u.cpsr.thumb
        BY <2>2, <2>4, <3>1, <3>2, <3>3
      <3>5. QED
        BY <2>3, <2>4, <2>6, <3>2, <3>3, <3>4 DEF Moved, Working, Processor
    <2>8. AllSame(u, moved)
      <3>1. Working(moved) /\ Bank(moved) = Bank(u)
        BY <2>4, <2>5, <2>7 DEF Moved, Bank
      <3>2. /\ moved.gpr = u.gpr /\ moved.spsr = u.spsr /\ moved.spsr_bank = u.spsr_bank
            /\ moved.gpr_banked_r13 = u.gpr_banked_r13 /\ moved.gpr_banked_r14 = u.gpr_banked_r14
            /\ moved.gpr_banked_old_r8_12 = u.gpr_banked_old_r8_12
            /\ moved.gpr_banked_fiq_r8_12 = u.gpr_banked_fiq_r8_12
        BY <2>6 DEF Working, Processor
      <3>3. QED
        BY <2>6, <3>1, <3>2, SameParts
    <2>9. Moved(s, moved)
      BY <1>6, <2>5, <2>7, KeptWorks, MovedMoved
    <2>10. exec_arm_transfer_to_status(s, i) = advance_arm(moved)
      BY <1>5, <1>11
    <2>11. Went(moved, advance_arm(moved))
      BY <1>2, <2>9, AdvancedMoved
    <2>12. Sound(advance_arm(moved)) /\ AllSame(t, advance_arm(moved))
      BY <2>5, <2>7, <2>8, <2>11, WentSame DEF AllSame, Moved
    <2>13. OwnBut({Bank(s)}, s, t)
      BY <1>2, <1>6, <1>8, LiveOwn DEF Kept
    <2>14. QED
      BY <2>10, <2>12, <2>13, OwnSame, OwnOwn DEF Stays
  <1>12. QED
    BY <1>9, <1>10, <1>11

LEMMA DataProcessingSound ==
  ASSUME NEW s, ArmReady(s), NEW i, ArmForm(i), i.fmt = "DataProcessing"
  PROVE  Stays(s, exec_arm_data_processing(s, i))
  <1> DEFINE op1 == Wrap(get_reg(s, i.rn) + (IF i.rn = 15 /\ i.by = "register" THEN 4 ELSE 0))
             op2 == IF i.by = "immediate" THEN ror(i.imm, 2 * i.rot, s.cpsr.c, FALSE, TRUE)
                    ELSE register_shift(s, i)
             s_flag == i.s /\ i.rd # 15
             t == IF i.s /\ i.rd = 15 THEN transfer_spsr_mode(s) ELSE s
             full == AluWithFlags(i.op, op1, op2[1], op2[2], t.cpsr)
             val == IF s_flag THEN full.val ELSE AluValue(i.op, op1, op2[1], op2[2])
             flagged == IF s_flag THEN alu_update_flags(t, full.val, full.c, full.v) ELSE t
  <1>1. /\ i.op \in AluOpCode /\ i.s \in BOOLEAN /\ i.rn \in Reg /\ i.rd \in Reg
        /\ IF i.by = "immediate" THEN i.imm \in Word /\ i.rot \in 0..15 ELSE ShiftedRegister(i)
        /\ is_setting_flags(i.op) => i.rd # 15
    BY DEF ArmForm
  <1>2. Working(s) /\ Fetched(s) /\ Kept(s, s) /\ s.cpsr.c \in BOOLEAN /\ ~s.cpsr.thumb
    BY ReadyWorks, Sizes DEF ArmReady
  <1>3. op1 \in Word
    <2>1. get_reg(s, i.rn) \in Int
      BY <1>1, <1>2, Registers, WordNumbers
    <2>2. get_reg(s, i.rn) + 4 \in Int /\ get_reg(s, i.rn) + 0 \in Int
      BY <2>1
    <2>3. QED
      BY <2>2, Wraps
  <1>4. op2 \in Shifted
    BY <1>1, <1>2, Rotations, ShifterWords
  <1>5. exec_arm_data_processing(s, i) =
          IF is_setting_flags(i.op) THEN advance_arm(flagged)
          ELSE IF i.rd # 15 THEN advance_arm(set_reg(flagged, i.rd, val))
          ELSE IF t.cpsr.thumb THEN reload_pipeline16(set_reg(flagged, 15, val))
          ELSE reload_pipeline32(set_reg(flagged, 15, val))
    BY DEF exec_arm_data_processing
  <1> HIDE DEF op1, op2
  <1>6. Working(t) /\ (i.rd # 15 => t = s) /\ AllSame(s, t)
    BY <1>2, StatusReturns DEF AllSame
  <1> HIDE DEF t
  <1>7. t.cpsr \in RegPSR
    BY <1>6 DEF Working, Processor
  <1>8. op2[1] \in Word /\ op2[2] \in BOOLEAN
    BY <1>4 DEF Shifted
  <1>9. full \in Results /\ (~is_setting_flags(i.op) => AluValue(i.op, op1, op2[1], op2[2]) \in Word)
    BY <1>1, <1>3, <1>7, <1>8, AluWords
  <1> HIDE DEF full
  <1>10. full.val \in Word /\ full.c \in BOOLEAN /\ full.v \in BOOLEAN
    BY <1>9 DEF Results
  <1>11. ~is_setting_flags(i.op) => val \in Word
    BY <1>9, <1>10
  <1>12. Kept(t, flagged)
    BY <1>6, <1>10, AluFlagsKept, Itself
  <1>13. i.rd = 15 => flagged = t
    OBVIOUS
  <1> HIDE DEF val, flagged
  <1>14. CASE is_setting_flags(i.op)
    <2>1. Kept(s, flagged)
      BY <1>1, <1>6, <1>12, <1>14
    <2>2. QED
      BY <1>2, <1>5, <1>14, <2>1, Advanced, RanStays
  <1>15. CASE ~is_setting_flags(i.op) /\ i.rd # 15
    <2>1. i.rd \in Gprs /\ Kept(s, flagged)
      BY <1>1, <1>6, <1>12, <1>15 DEF Reg
    <2>2. Kept(s, set_reg(flagged, i.rd, val))
      BY <1>11, <1>15, <2>1, RegisterKept, KeptKept, KeptWorks
    <2>3. QED
      BY <1>2, <1>5, <1>15, <2>2, Advanced, RanStays
  <1>16. CASE ~is_setting_flags(i.op) /\ i.rd = 15
    <2> DEFINE x == exec_arm_data_processing(s, i)
    <2>1. Went(t, x)
      BY <1>5, <1>6, <1>7, <1>11, <1>13, <1>16, PcSet DEF RegPSR
    <2>2. Sound(x) /\ AllSame(s, x)
      BY <1>6, <2>1, WentSame DEF AllSame
    <2>3. QED
      BY <2>2, SameStays
  <1>17. QED
    BY <1>14, <1>15, <1>16

LEMMA WriteBaseSound ==
  ASSUME NEW t, Sound(t), NEW i, Based(i), NEW e \in Word
  PROVE  Ran(t, WriteBase(t, i, e))
  <1> DEFINE writes == (~i.load \/ i.rn # i.rd) /\ (~i.pre \/ i.writeback)
  <1>1. CASE writes
    <2>1. i.rn \in Gprs
      BY <1>1 DEF Based, Reg
    <2>2. WriteBase(t, i, e) = set_reg(t, i.rn, e)
      BY <1>1 DEF WriteBase
    <2>3. QED
      BY <2>1, <2>2, SoundWorks, RegisterKept, SoundKept
  <1>2. CASE ~writes
    BY <1>2, SoundWorks, Itself, SoundKept DEF WriteBase
  <1>3. QED
    BY <1>1, <1>2

\* What an instruction may touch of the modes' own: its mode's, or the user's that it asks for.
Touched(s, i) == IF ForUser(i) THEN {Bank(s), 0} ELSE {Bank(s)}
Obeys(s, i, t) == Sound(t) /\ OwnBut(Touched(s, i), s, t)

LEMMA StaysObeys ==
  ASSUME NEW s, NEW i, NEW t, Stays(s, t)
  PROVE  Obeys(s, i, t)
  BY OwnMore DEF Stays, Obeys, Touched

LEMMA ForcedUser ==
  ASSUME NEW s, Working(s), NEW i
  PROVE  LET u == ForceUser(s, i)
         IN  /\ Moved(s, u) /\ AllSame(s, u)
             /\ Bank(u) = IF ~i.pre /\ i.writeback THEN 0 ELSE Bank(s)
  <1>1. "User" \in CpuMode /\ bank_index("User") = 0
    BY DEF CpuMode, bank_index
  <1>2. QED
    BY <1>1, ModeMoved, Itself, KeptWorks DEF ForceUser, AllSame

LEMMA ThroughUser ==
  ASSUME NEW s, Working(s), NEW i, NEW u, Moved(s, u), AllSame(s, u),
         Bank(u) = (IF ~i.pre /\ i.writeback THEN 0 ELSE Bank(s)),
         i.fmt \in {"SingleDataTransfer", "HalfwordDataTransfer"}, NEW x, Ran(u, x)
  PROVE  Obeys(s, i, x)
  <1>1. Working(u) /\ Sound(x) /\ Working(x)
    BY SoundWorks DEF Moved, Ran
  <1>2. OwnBut({Bank(u)}, u, x)
    BY <1>1, LiveOwn DEF Ran
  <1>3. OwnBut({Bank(u)}, s, x)
    BY <1>2, OwnSame, OwnOwn
  <1>4. {Bank(u)} \subseteq Touched(s, i)
    BY DEF Touched, ForUser
  <1>5. QED
    BY <1>1, <1>3, <1>4, OwnMore DEF Obeys

LEMMA StoredWords ==
  ASSUME NEW s, Working(s), NEW r \in Reg
  PROVE  StoredValue(s, r) \in Word
  <1>1. Wrap(s.pc + 4) \in Word
    BY Sizes, Wraps
  <1>2. QED
    BY <1>1, Registers DEF StoredValue

LEMMA Addresses ==
  ASSUME NEW s, Working(s), NEW i, Based(i), NEW offset \in Word
  PROVE  /\ EffectiveAddress(s, i, offset) \in Word
         /\ (IF i.pre THEN EffectiveAddress(s, i, offset) ELSE get_reg(s, i.rn)) \in Word
  <1>1. get_reg(s, i.rn) \in Word /\ get_reg(s, i.rn) \in Int /\ offset \in Int
    BY Registers, WordNumbers DEF Based
  <1>2. get_reg(s, i.rn) + offset \in Int /\ get_reg(s, i.rn) - offset \in Int
    BY <1>1
  <1>3. EffectiveAddress(s, i, offset) \in Word
    BY <1>2, Wraps DEF EffectiveAddress
  <1>4. QED
    BY <1>1, <1>3

LEMMA SingleDataTransferSound ==
  ASSUME NEW s, ArmReady(s), NEW i, ArmForm(i), i.fmt = "SingleDataTransfer"
  PROVE  Obeys(s, i, exec_arm_ldr_str(s, i))
  <1> DEFINE offset == IF i.by = "immediate" THEN i.imm ELSE register_shift(s, i)[1]
             effective == EffectiveAddress(s, i, offset)
             a == IF i.pre THEN effective ELSE get_reg(s, i.rn)
             u == ForceUser(s, i)
             word == ldr_word(u, a)
             lb == LoadInto(u, i.rd, load_8(u, a))
             lw == LoadInto([u EXCEPT !.cpsr.c = word[2]], i.rd, word[1])
             sb == advance_arm(store_8(u, a, StoredValue(u, i.rd)))
             sw == advance_arm(store_32(u, a, StoredValue(u, i.rd)))
             moved == CASE i.load /\ i.byte -> lb [] i.load /\ ~i.byte -> lw
                        [] ~i.load /\ i.byte -> sb [] OTHER -> sw
             based == WriteBase(moved, i, effective)
  <1>1. /\ Based(i) /\ i.byte \in BOOLEAN /\ i.rd \in Reg
        /\ IF i.by = "immediate" THEN i.imm \in Word ELSE ShiftedRegister(i)
    BY DEF ArmForm
  <1>2. Working(s) /\ Fetched(s) /\ ~s.cpsr.thumb
    BY ReadyWorks DEF ArmReady
  <1>3. offset \in Word
    BY <1>1, <1>2, ShifterWords DEF Shifted
  <1> HIDE DEF offset
  <1>4. effective \in Word /\ a \in Word
    BY <1>1, <1>2, <1>3, Addresses
  <1>5. /\ Moved(s, u) /\ Working(u) /\ AllSame(s, u) /\ Kept(u, u)
        /\ Bank(u) = IF ~i.pre /\ i.writeback THEN 0 ELSE Bank(s)
    BY <1>2, ForcedUser, Itself DEF Moved
  <1>6. /\ exec_arm_ldr_str(s, i) =
             IF ~i.pre /\ i.writeback THEN change_mode(based, based.cpsr.mode, s.cpsr.mode) ELSE based
    BY DEF exec_arm_ldr_str, offset
  <1> HIDE DEF effective, a, u
  <1>7. word \in Shifted /\ load_8(u, a) \in Word /\ StoredValue(u, i.rd) \in Word
    BY <1>1, <1>4, <1>5, Loads, StoredWords
  <1> HIDE DEF word
  <1>8. word[1] \in Word /\ word[2] \in BOOLEAN
    BY <1>7 DEF Shifted
  <1>9. Ran(u, lb)
    BY <1>1, <1>5, <1>7, LoadIntoSound
  <1>10. Ran(u, lw)
    <2> DEFINE t == [u EXCEPT !.cpsr.c = word[2]]
    <2>1. Kept(u, t)
      BY <1>5, <1>8, CarryKept
    <2> HIDE DEF t
    <2>2. Moved(s, t)
      BY <1>5, <2>1, KeptWorks, MovedMoved
    <2>3. Ran(t, lw)
      BY <1>1, <1>8, <2>2, LoadIntoSound DEF t
    <2>4. QED
      BY <2>1, <2>3, Onward
  <1>11. Ran(u, sb) /\ Ran(u, sw)
    <2>1. /\ Kept(u, store_8(u, a, StoredValue(u, i.rd)))
          /\ Kept(u, store_32(u, a, StoredValue(u, i.rd)))
      BY <1>4, <1>5, <1>7, StoresKept
    <2>2. ASSUME NEW t, Kept(u, t) PROVE Ran(u, advance_arm(t))
      <3>1. Moved(s, t)
        BY <1>5, <2>2, KeptWorks, MovedMoved
      <3>2. Went(t, advance_arm(t))
        BY <1>2, <3>1, AdvancedMoved
      <3>3. QED
        BY <2>2, <3>2, Onward
    <2>3. QED
      BY <2>1, <2>2
  <1> HIDE DEF lb, lw, sb, sw
  <1>12. Ran(u, moved) /\ Sound(moved)
    BY <1>9, <1>10, <1>11 DEF Ran
  <1> HIDE DEF moved
  <1>13. Ran(u, based) /\ Working(based)
    BY <1>1, <1>4, <1>12, WriteBaseSound, RanRan, SoundWorks DEF Ran
  <1> HIDE DEF based
  <1>14. Obeys(s, i, based)
    BY <1>2, <1>5, <1>13, ThroughUser
  <1>15. ASSUME ~i.pre /\ i.writeback
         PROVE  Obeys(s, i, change_mode(based, based.cpsr.mode, s.cpsr.mode))
    <2> DEFINE t == change_mode(based, based.cpsr.mode, s.cpsr.mode)
    <2>1. Moved(based, t) /\ AllSame(based, t)
      BY <1>2, <1>13, ModeMoved DEF Working
    <2> HIDE DEF t
    <2>2. Sound(t) /\ OwnBut(Touched(s, i), s, t)
      BY <1>14, <2>1, SoundMoved, OwnSame, OwnOwn DEF Obeys
    <2>3. QED
      BY <2>2 DEF t, Obeys
  <1>16. QED
    BY <1>6, <1>14, <1>15

LEMMA HalfwordDataTransferSound ==
  ASSUME NEW s, ArmReady(s), NEW i, ArmForm(i), i.fmt = "HalfwordDataTransfer"
  PROVE  Obeys(s, i, ldr_str_hs_common(s, i))
  <1> DEFINE offset == IF i.by = "immediate" THEN i.imm ELSE get_reg(s, i.rm)
             effective == EffectiveAddress(s, i, offset)
             a == IF i.pre THEN effective ELSE get_reg(s, i.rn)
             u == ForceUser(s, i)
             half == ldr_half(u, a)
             lb == LoadInto(u, i.rd, SignExtended(load_8(u, a), ByteBits))
             ls == LoadInto(u, i.rd, ldr_sign_half(u, a))
             lh == LoadInto([u EXCEPT !.cpsr.c = half[2]], i.rd, half[1])
             sb == advance_arm(store_8(u, a, StoredValue(u, i.rd)))
             sh == advance_arm(store_16(u, a, StoredValue(u, i.rd)))
             moved == CASE i.load /\ i.hs = "SignedByte" -> lb
                        [] i.load /\ i.hs = "SignedHalfwords" -> ls
                        [] i.load /\ i.hs = "UnsignedHalfwords" -> lh
                        [] ~i.load /\ i.hs = "SignedByte" -> sb
                        [] OTHER -> sh
  <1>1. /\ Based(i) /\ i.hs \in {"SignedByte", "SignedHalfwords", "UnsignedHalfwords"} /\ i.rd \in Reg
        /\ IF i.by = "immediate" THEN i.imm \in Word ELSE i.rm \in Reg
    BY DEF ArmForm
  <1>2. Working(s) /\ Fetched(s) /\ ~s.cpsr.thumb
    BY ReadyWorks DEF ArmReady
  <1>3. offset \in Word
    BY <1>1, <1>2, Registers
  <1>4. ldr_str_hs_common(s, i) = WriteBase(moved, i, effective)
    BY DEF ldr_str_hs_common
  <1> HIDE DEF offset
  <1>5. effective \in Word /\ a \in Word
    BY <1>1, <1>2, <1>3, Addresses
  <1>6. /\ Moved(s, u) /\ Working(u) /\ AllSame(s, u) /\ Kept(u, u)
        /\ Bank(u) = IF ~i.pre /\ i.writeback THEN 0 ELSE Bank(s)
    BY <1>2, ForcedUser, Itself DEF Moved
  <1> HIDE DEF effective, a, u
  <1>7. /\ half \in Shifted /\ SignExtended(load_8(u, a), ByteBits) \in Word
        /\ ldr_sign_half(u, a) \in Word /\ StoredValue(u, i.rd) \in Word
    BY <1>1, <1>5, <1>6, Loads, StoredWords
  <1> HIDE DEF half
  <1>8. half[1] \in Word /\ half[2] \in BOOLEAN
    BY <1>7 DEF Shifted
  <1>9. Ran(u, lb) /\ Ran(u, ls)
    BY <1>1, <1>6, <1>7, LoadIntoSound
  <1>10. Ran(u, lh)
    <2> DEFINE t == [u EXCEPT !.cpsr.c = half[2]]
    <2>1. Kept(u, t)
      BY <1>6, <1>8, CarryKept
    <2> HIDE DEF t
    <2>2. Moved(s, t)
      BY <1>6, <2>1, KeptWorks, MovedMoved
    <2>3. Ran(t, lh)
      BY <1>1, <1>8, <2>2, LoadIntoSound DEF t
    <2>4. QED
      BY <2>1, <2>3, Onward
  <1>11. Ran(u, sb) /\ Ran(u, sh)
    <2>1. /\ Kept(u, store_8(u, a, StoredValue(u, i.rd)))
          /\ Kept(u, store_16(u, a, StoredValue(u, i.rd)))
      BY <1>5, <1>6, <1>7, StoresKept
    <2>2. ASSUME NEW t, Kept(u, t) PROVE Ran(u, advance_arm(t))
      <3>1. Moved(s, t)
        BY <1>6, <2>2, KeptWorks, MovedMoved
      <3>2. Went(t, advance_arm(t))
        BY <1>2, <3>1, AdvancedMoved
      <3>3. QED
        BY <2>2, <3>2, Onward
    <2>3. QED
      BY <2>1, <2>2
  <1> HIDE DEF lb, ls, lh, sb, sh
  <1>12. Ran(u, moved) /\ Sound(moved)
    BY <1>9, <1>10, <1>11 DEF Ran
  <1> HIDE DEF moved
  <1>13. Ran(u, WriteBase(moved, i, effective))
    BY <1>1, <1>5, <1>12, WriteBaseSound, RanRan
  <1>14. QED
    BY <1>2, <1>4, <1>6, <1>13, ThroughUser

LEMMA MulFlagsKept ==
  ASSUME NEW s, Working(s), NEW i, NEW n \in BOOLEAN, NEW z \in BOOLEAN
  PROVE  Kept(s, MulFlags(s, i, n, z))
  <1> DEFINE p == [n |-> n, z |-> z, c |-> FALSE, v |-> FALSE]
  <1>1. {p.n, p.z, p.c, p.v} \subseteq BOOLEAN
    OBVIOUS
  <1> HIDE DEF p
  <1>2. Kept(s, SetFlags(s, p))
    BY <1>1, FlagsKept
  <1>3. QED
    BY <1>2, Itself DEF MulFlags, p

LEMMA MultiplySound ==
  ASSUME NEW s, ArmReady(s), NEW i, ArmForm(i), i.fmt = "Multiply"
  PROVE  Ran(s, exec_arm_mul_mla(s, i))
  <1> DEFINE extra == IF i.accumulate THEN get_reg(s, i.rn) ELSE 0
             product == get_reg(s, i.rm) * get_reg(s, i.rs)
             val == Wrap(product + extra)
             t == set_reg(s, i.rd, val)
  <1>1. {i.rd, i.rn, i.rs, i.rm} \subseteq Gprs
    BY DEF ArmForm
  <1>2. Working(s) /\ Fetched(s) /\ ~s.cpsr.thumb
    BY ReadyWorks DEF ArmReady
  <1>3. get_reg(s, i.rn) \in Int /\ get_reg(s, i.rm) \in Int /\ get_reg(s, i.rs) \in Int
    BY <1>1, <1>2, Registers, WordNumbers DEF Reg
  <1>4. val \in Word
    <2>1. product \in Int /\ extra \in Int
      BY <1>3
    <2> HIDE DEF product, extra
    <2>2. product + extra \in Int
      BY <2>1
    <2>3. QED
      BY <2>2, Wraps
  <1>5. exec_arm_mul_mla(s, i) = advance_arm(MulFlags(t, i, Sign(val), val = 0))
    BY DEF exec_arm_mul_mla
  <1> HIDE DEF val
  <1>6. Kept(s, t)
    BY <1>1, <1>2, <1>4, RegisterKept
  <1> HIDE DEF t
  <1>7. Kept(t, MulFlags(t, i, Sign(val), val = 0))
    <2> DEFINE n == Sign(val)
               z == val = 0
    <2>1. n \in BOOLEAN /\ z \in BOOLEAN
      BY DEF Sign, Bit
    <2> HIDE DEF n, z
    <2>2. Working(t)
      BY <1>6, KeptWorks
    <2>3. Kept(t, MulFlags(t, i, n, z))
      BY <2>1, <2>2, MulFlagsKept
    <2>4. QED
      BY <2>3 DEF n, z
  <1>8. Kept(s, MulFlags(t, i, Sign(val), val = 0))
    BY <1>6, <1>7, KeptKept
  <1>9. QED
    BY <1>2, <1>5, <1>8, Advanced

LEMMA MultiplyLongSound ==
  ASSUME NEW s, ArmReady(s), NEW i, ArmForm(i), i.fmt = "MultiplyLong"
  PROVE  Ran(s, exec_arm_mull_mlal(s, i))
  <1> DEFINE a == get_reg(s, i.rm)
             b == get_reg(s, i.rs)
             h == get_reg(s, i.rd_hi)
             l == get_reg(s, i.rd_lo)
             product == IF i.u_flag THEN Signed(a) * Signed(b) ELSE a * b
             sum == IF i.accumulate THEN product + h * Modulus + l ELSE product
             hi == Wrap(sum \div Modulus)
             lo == Wrap(sum)
             t == set_reg(s, i.rd_hi, hi)
             u == set_reg(t, i.rd_lo, lo)
  <1>1. {i.rd_hi, i.rd_lo, i.rs, i.rm} \subseteq Gprs
    BY DEF ArmForm
  <1>2. Working(s) /\ Fetched(s) /\ ~s.cpsr.thumb
    BY ReadyWorks DEF ArmReady
  <1>3. a \in Int /\ b \in Int /\ h \in Int /\ l \in Int /\ Signed(a) \in Int /\ Signed(b) \in Int
    BY <1>1, <1>2, Registers, WordNumbers DEF Reg
  <1>4. exec_arm_mull_mlal(s, i) = advance_arm(MulFlags(u, i, Sign(hi), hi = 0 /\ lo = 0))
    BY DEF exec_arm_mull_mlal
  <1> HIDE DEF a, b, h, l
  <1>5. hi \in Word /\ lo \in Word
    <2>1. product \in Int /\ h * Modulus \in Int /\ Modulus \in Nat \ {0}
      BY <1>3, Powers
    <2> HIDE DEF product
    <2>2. sum \in Int
      BY <1>3, <2>1
    <2> HIDE DEF sum
    <2>3. sum \div Modulus \in Int
      BY <2>1, <2>2, Remainders
    <2>4. QED
      BY <2>2, <2>3, Wraps
  <1> HIDE DEF hi, lo
  <1>6. Kept(s, t) /\ Working(t)
    BY <1>1, <1>2, <1>5, RegisterKept, KeptWorks
  <1> HIDE DEF t
  <1>7. Kept(s, u) /\ Working(u)
    BY <1>1, <1>5, <1>6, RegisterKept, KeptKept, KeptWorks
  <1> HIDE DEF u
  <1>8. Kept(s, MulFlags(u, i, Sign(hi), hi = 0 /\ lo = 0))
    <2>1. Sign(hi) \in BOOLEAN /\ (hi = 0 /\ lo = 0) \in BOOLEAN
      BY DEF Sign, Bit
    <2>2. QED
      BY <1>7, <2>1, MulFlagsKept, KeptKept
  <1>9. QED
    BY <1>2, <1>4, <1>8, Advanced

LEMMA SingleDataSwapSound ==
  ASSUME NEW s, ArmReady(s), NEW i, ArmForm(i), i.fmt = "SingleDataSwap"
  PROVE  Ran(s, exec_arm_swp(s, i))
  <1> DEFINE a == get_reg(s, i.rn)
             word == ldr_word(s, a)
             new == get_reg(s, i.rm)
             byte == set_reg(store_8(s, a, new), i.rd, load_8(s, a))
             whole == set_reg([store_32(s, a, new) EXCEPT !.cpsr.c = word[2]], i.rd, word[1])
  <1>1. {i.rn, i.rm} \subseteq Reg /\ i.rd \in Gprs
    BY DEF ArmForm
  <1>2. Working(s) /\ Fetched(s) /\ ~s.cpsr.thumb
    BY ReadyWorks DEF ArmReady
  <1>3. a \in Word /\ new \in Word
    BY <1>1, <1>2, Registers
  <1>4. exec_arm_swp(s, i) = advance_arm(IF i.byte THEN byte ELSE whole)
    BY DEF exec_arm_swp
  <1> HIDE DEF a, new
  <1>5. word \in Shifted /\ load_8(s, a) \in Word
    BY <1>2, <1>3, Loads
  <1> HIDE DEF word
  <1>6. Kept(s, byte)
    <2>1. Kept(s, store_8(s, a, new))
      BY <1>2, <1>3, StoresKept
    <2> DEFINE t == store_8(s, a, new)
    <2> HIDE DEF t
    <2>2. Kept(s, t) /\ Working(t) /\ byte = set_reg(t, i.rd, load_8(s, a))
      BY <2>1, KeptWorks DEF t
    <2> HIDE DEF byte
    <2>3. QED
      BY <1>1, <1>5, <2>2, RegisterKept, KeptKept
  <1>7. Kept(s, whole)
    <2>1. word[1] \in Word /\ word[2] \in BOOLEAN
      BY <1>5 DEF Shifted
    <2> DEFINE t == store_32(s, a, new)
               u == [t EXCEPT !.cpsr.c = word[2]]
    <2>2. Kept(s, t)
      BY <1>2, <1>3, StoresKept
    <2> HIDE DEF t
    <2>3. Kept(s, u)
      BY <2>1, <2>2, CarryKept, KeptKept, KeptWorks
    <2>4. whole = set_reg(u, i.rd, word[1])
      BY DEF t
    <2> HIDE DEF u
    <2>5. QED
      BY <1>1, <2>1, <2>3, <2>4, RegisterKept, KeptKept, KeptWorks
  <1> HIDE DEF byte, whole
  <1>8. QED
    BY <1>2, <1>4, <1>6, <1>7, Advanced

LEMMA SoftwareInterruptSound ==
  ASSUME NEW s, Working(s), NEW k \in Int
  PROVE  LET t == exception(s, "SoftwareInterrupt", Wrap(s.pc - k)) IN Sound(t) /\ Enters(s, t)
  <1>1. s.pc - k \in Int
    BY Sizes
  <1>2. Wrap(s.pc - k) \in Word
    BY <1>1, Wraps
  <1>3. QED
    BY <1>2, Excepted

\* LDM restores an ARM status, and writes nothing after it.
RestoresArm(s, i) ==
  (i.load /\ i.s /\ 15 \in i.list) => ~s.spsr.thumb /\ (i.add /\ i.writeback => i.rn \in i.list)

LEMMA BlockJumps ==
  ASSUME NEW t, Working(t), ~t.cpsr.thumb, NEW v \in Word, NEW restore \in BOOLEAN,
         restore => ~t.spsr.thumb
  PROVE  LET j == set_reg(t, 15, v)
             x == reload_pipeline32(IF restore THEN transfer_spsr_mode(j) ELSE j)
         IN  IF restore THEN Sound(x) /\ AllSame(t, x) ELSE Ran(t, x)
  <1> DEFINE j == set_reg(t, 15, v)
             k == transfer_spsr_mode(j)
  <1>1. Working(j) /\ j.cpsr = t.cpsr /\ Ran(t, reload_pipeline32(j)) /\ AllSame(t, j)
    BY PcSet, WentRan, StillSame
  <1>2. j.spsr = t.spsr /\ j.pc % 4 = 0
    <2>1. word_size(t) = 4 /\ 4 \in {2, 4}
      BY DEF word_size
    <2>2. Align(v, 4) % 4 = 0
      BY <2>1, Alignment
    <2>3. j = [t EXCEPT !.pc = Align(v, 4)]
      BY <2>1 DEF set_reg
    <2>4. QED
      BY <2>2, <2>3 DEF Working, Processor
  <1> HIDE DEF j
  <1>3. ASSUME restore PROVE Sound(reload_pipeline32(k)) /\ AllSame(t, reload_pipeline32(k))
    <2>1. Working(k) /\ k.pc = j.pc /\ k.cpsr \in {j.cpsr, j.spsr} /\ AllSame(j, k)
      BY <1>1, StatusReturns
    <2> HIDE DEF k
    <2>2. ~k.cpsr.thumb
      BY <1>1, <1>2, <1>3, <2>1
    <2>3. word_size(k) = 4
      BY <2>2 DEF word_size
    <2>4. Went(k, reload_pipeline32(k))
      BY <1>2, <2>1, <2>2, <2>3, Reloaded
    <2>5. QED
      BY <1>1, <2>1, <2>4, WentSame DEF AllSame
  <1>4. QED
    BY <1>1, <1>3 DEF j

LEMMA BlockDataTransferSound ==
  ASSUME NEW s, ArmReady(s), NEW i, ArmForm(i), i.fmt = "BlockDataTransfer", RestoresArm(s, i)
  PROVE  Obeys(s, i, exec_arm_ldm_stm(s, i))
  <1> DEFINE list == i.list
             old_base == get_reg(s, i.rn)
             size == 4 * Cardinality(list)
             user == i.s /\ (~i.load \/ 15 \notin list)
             u == IF user THEN change_mode(s, s.cpsr.mode, "User") ELSE s
             base == IF i.add \/ list = {} THEN old_base ELSE Wrap(old_base - size)
             t == IF ~i.add /\ list # {} /\ i.writeback THEN set_reg(u, i.rn, base) ELSE u
             full == IF ~i.add /\ list # {} THEN ~i.pre ELSE i.pre
             addr == [r \in list |-> Wrap(base + 4 * Rank(list, r) + (IF full THEN 4 ELSE 0))]
             other(r) == IF Rank(list, r) = 0 THEN old_base
                         ELSE Wrap(IF i.add THEN old_base + size ELSE old_base - size)
             stored == [r \in list |-> CASE r = i.rn -> other(r) [] r # i.rn -> StoredValue(t, r)]
             loaded == LoadList(t, list, addr)
             jumped == LET j == set_reg(loaded, 15, load_32(t, addr[15]))
                       IN  reload_pipeline32(IF i.s THEN transfer_spsr_mode(j) ELSE j)
             w == ldr_word(t, base)
             popped == reload_pipeline32(set_reg([t EXCEPT !.cpsr.c = w[2]], 15, Align(w[1], 4)))
             k == CASE ~i.add /\ ~full -> -60 [] ~i.add /\ full -> -64
                    [] i.add /\ ~full -> 0 [] i.add /\ full -> 4
             pushed == advance_arm(store_32(t, Wrap(base + k), Wrap(t.pc + 4)))
             empty == IF i.load THEN popped ELSE pushed
             through == advance_arm(loaded)
             put == advance_arm(StoreList(t, list, addr, stored))
             done == CASE list = {} -> empty
                       [] list # {} /\ i.load /\ 15 \in list -> jumped
                       [] list # {} /\ i.load /\ 15 \notin list -> through
                       [] OTHER -> put
             back == IF user THEN change_mode(done, done.cpsr.mode, s.cpsr.mode) ELSE done
             final == CASE list = {} -> Wrap(IF i.add THEN base + 64 ELSE base - 64)
                        [] OTHER -> Wrap(base + size)
             writes == i.writeback /\ (list = {} \/ (i.add /\ ~(i.load /\ i.rn \in list)))
  <1>1. /\ {i.load, i.pre, i.writeback, i.add, i.s} \subseteq BOOLEAN
        /\ i.rn \in Gprs /\ i.rn \in Reg /\ list \subseteq Reg
    BY DEF ArmForm, Based, Reg
  <1>2. Working(s) /\ Fetched(s) /\ ~s.cpsr.thumb /\ Kept(s, s)
    BY ReadyWorks DEF ArmReady
  <1>3. old_base \in Word /\ old_base \in Int /\ size \in Int
    <2>1. old_base \in Word
      BY <1>1, <1>2, Registers
    <2>2. Cardinality(list) \in Nat
      <3>1. 0 \in Word /\ 0 \in Int
        BY SmallWords
      <3>2. QED
        BY <1>1, <3>1, Ranks
    <2>3. QED
      BY <2>1, <2>2, WordNumbers
  <1>4. exec_arm_ldm_stm(s, i) = IF writes THEN set_reg(back, i.rn, final) ELSE back
    BY DEF exec_arm_ldm_stm
  <1>5. /\ (i.load /\ i.s /\ 15 \in list) => ~s.spsr.thumb /\ ~user /\ ~writes
        /\ user => i.s /\ ~(i.load /\ 15 \in list)
        /\ (~user /\ i.s) => i.load /\ 15 \in list
    BY <1>1 DEF RestoresArm
  <1> HIDE DEF list, old_base, size
  <1>6. base \in Word /\ base \in Int
    <2>1. old_base - size \in Int
      BY <1>3
    <2>2. base \in Word
      BY <1>3, <2>1, Wraps
    <2>3. QED
      BY <2>2, WordNumbers
  <1>7. /\ Moved(s, u) /\ AllSame(s, u) /\ Working(u) /\ (~user => u = s)
        /\ Bank(u) = IF user THEN 0 ELSE Bank(s)
    <2>1. "User" \in CpuMode /\ bank_index("User") = 0
      BY DEF CpuMode, bank_index
    <2>2. QED
      BY <1>2, <2>1, ModeMoved, KeptWorks DEF AllSame, Moved
  <1> HIDE DEF user, u
  <1>8. Moved(s, t) /\ Kept(u, t) /\ Working(t) /\ t.spsr = u.spsr
    <2>1. Working(u)
      BY <1>7
    <2>2. CASE ~i.add /\ list # {} /\ i.writeback
      <3>1. t = set_reg(u, i.rn, base)
        BY <2>2
      <3>2. Kept(u, t)
        BY <1>1, <1>6, <2>1, <3>1, RegisterKept
      <3>3. i.rn # 15
        BY <1>1, ModeBanks
      <3>4. t.spsr = u.spsr
        BY <2>1, <3>1, <3>3 DEF set_reg, Working, Processor
      <3>5. QED
        BY <1>7, <3>2, <3>4, KeptWorks, MovedMoved
    <2>3. CASE ~(~i.add /\ list # {} /\ i.writeback)
      <3>1. t = u
        BY <2>3
      <3>2. QED
        BY <1>7, <2>1, <3>1, Itself
    <2>4. QED
      BY <2>2, <2>3
  <1> HIDE DEF base, t
  <1>9. full \in BOOLEAN
    BY <1>1
  <1> HIDE DEF full
  <1>10. addr \in [list -> Word]
    <2>1. ASSUME NEW r \in list
          PROVE  Wrap(base + 4 * Rank(list, r) + (IF full THEN 4 ELSE 0)) \in Word
      <3>1. 4 \in Int /\ 0 \in Int
        OBVIOUS
      <3>2. /\ Wrap(base + 4 * Rank(list, r) + 4) \in Word
            /\ Wrap(base + 4 * Rank(list, r) + 0) \in Word
        BY <1>1, <1>6, <3>1, Ranks
      <3>3. QED
        BY <3>2
    <2>2. QED
      BY <2>1
  <1>11. stored \in [list -> Word]
    <2>1. ASSUME NEW r \in list PROVE other(r) \in Word /\ StoredValue(t, r) \in Word
      <3>1. old_base + size \in Int /\ old_base - size \in Int
        BY <1>3
      <3>2. other(r) \in Word
        BY <1>3, <3>1, Wraps
      <3>3. QED
        BY <1>1, <1>8, <3>2, StoredWords
    <2> HIDE DEF other
    <2>2. QED
      BY <2>1
  <1> HIDE DEF addr, stored
  <1>12. /\ Kept(t, loaded) /\ Kept(u, loaded) /\ Working(loaded) /\ Moved(s, loaded)
         /\ Kept(t, StoreList(t, list, addr, stored))
    <2>1. Kept(t, loaded) /\ Kept(t, StoreList(t, list, addr, stored))
      BY <1>8, <1>10, <1>11, ListsKept
    <2>2. QED
      BY <1>8, <2>1, KeptKept, KeptWorks, MovedMoved
  <1>13. loaded.spsr = t.spsr
    BY <1>8 DEF LoadList, Working, Processor
  <1> HIDE DEF loaded
  <1>14. ASSUME NEW x, Kept(t, x) PROVE Ran(u, advance_arm(x))
    <2>1. Moved(s, x) /\ Kept(u, x)
      BY <1>8, <1>14, KeptKept, KeptWorks, MovedMoved
    <2>2. QED
      BY <1>2, <2>1, AdvancedMoved, Onward
  <1>15. ASSUME i.load, 15 \in list
         PROVE  IF i.s THEN Stays(u, jumped) ELSE Ran(u, jumped)
    <2> DEFINE v == load_32(t, addr[15])
    <2>1. v \in Word
      <3>1. addr[15] \in Word
        BY <1>10, <1>15
      <3>2. QED
        BY <1>8, <3>1, Loads
    <2>2. ~loaded.cpsr.thumb
      BY <1>2, <1>12 DEF Moved
    <2>3. i.s => ~loaded.spsr.thumb
      BY <1>5, <1>7, <1>8, <1>13, <1>15
    <2>4. jumped = LET j == set_reg(loaded, 15, v)
                   IN  reload_pipeline32(IF i.s THEN transfer_spsr_mode(j) ELSE j)
      OBVIOUS
    <2> HIDE DEF v, jumped
    <2>5. i.s \in BOOLEAN
      BY <1>1
    <2>6. IF i.s THEN Sound(jumped) /\ AllSame(loaded, jumped) ELSE Ran(loaded, jumped)
      BY <1>12, <2>1, <2>2, <2>3, <2>4, <2>5, BlockJumps
    <2>7. OwnBut({Bank(u)}, u, loaded)
      BY <1>7, <1>12, LiveOwn DEF Kept
    <2>8. QED
      BY <1>12, <2>6, <2>7, OwnSame, OwnOwn, Onward DEF Stays
  <1>16. Ran(u, through) /\ Ran(u, put)
    BY <1>12, <1>14
  <1>17. Ran(u, popped)
    <2>1. w \in Shifted
      BY <1>6, <1>8, Loads
    <2> HIDE DEF w
    <2>2. w[1] \in Word /\ w[2] \in BOOLEAN /\ 4 \in {2, 4}
      BY <2>1 DEF Shifted
    <2> DEFINE c == [t EXCEPT !.cpsr.c = w[2]]
               v == Align(w[1], 4)
    <2>3. Kept(t, c)
      BY <1>8, <2>2, CarryKept
    <2>4. v \in Word
      BY <2>2, Alignment
    <2>5. popped = reload_pipeline32(set_reg(c, 15, v))
      OBVIOUS
    <2> HIDE DEF c, v, popped
    <2>6. Working(c) /\ ~c.cpsr.thumb
      BY <1>2, <1>8, <2>3, KeptWorks DEF Moved
    <2>7. Went(c, popped)
      BY <2>4, <2>5, <2>6, PcSet
    <2>8. QED
      BY <1>8, <2>3, <2>7, KeptKept, Onward
  <1>18. Ran(u, pushed)
    <2>1. k \in Int
      BY <1>1, <1>9
    <2> HIDE DEF k
    <2>2. base + k \in Int /\ t.pc + 4 \in Int
      BY <1>6, <1>8, <2>1, Sizes
    <2>3. Wrap(base + k) \in Word /\ Wrap(t.pc + 4) \in Word
      BY <2>2, Wraps
    <2>4. Kept(t, store_32(t, Wrap(base + k), Wrap(t.pc + 4)))
      BY <1>8, <2>3, StoresKept
    <2>5. QED
      BY <2>4, <1>14
  <1> HIDE DEF jumped, through, put, popped, pushed
  <1> DEFINE restores == i.load /\ 15 \in list /\ i.s
  <1>19. (restores => Stays(u, done)) /\ (~restores => Ran(u, done))
    BY <1>15, <1>16, <1>17, <1>18
  <1>20. Sound(done) /\ Working(done) /\ OwnBut({Bank(u)}, u, done) /\ OwnBut({Bank(u)}, s, done)
    <2>1. Sound(done) /\ OwnBut({Bank(u)}, u, done)
      BY <1>7, <1>19, RanStays DEF Stays
    <2>2. QED
      BY <1>7, <2>1, SoundWorks, OwnSame, OwnOwn
  <1> HIDE DEF done
  <1>21. final \in Word
    <2>1. base + 64 \in Int /\ base - 64 \in Int /\ base + size \in Int
      BY <1>3, <1>6
    <2>2. QED
      BY <2>1, Wraps
  <1> HIDE DEF final
  <1>22. ASSUME NEW x, Sound(x) PROVE Ran(x, IF writes THEN set_reg(x, i.rn, final) ELSE x)
    BY <1>1, <1>21, <1>22, SoundWorks, RegisterKept, Itself, SoundKept
  <1> DEFINE x == IF writes THEN set_reg(back, i.rn, final) ELSE back
  <1>23. CASE restores
    <2>1. u = s /\ x = done
      BY <1>5, <1>7, <1>23
    <2>2. QED
      BY <1>4, <1>19, <1>23, <2>1, StaysObeys
  <1>24. CASE ~restores /\ ~user
    <2>1. u = s /\ x = IF writes THEN set_reg(done, i.rn, final) ELSE done
      BY <1>7, <1>24
    <2>2. Ran(s, x)
      BY <1>19, <1>20, <1>22, <1>24, <2>1, RanRan
    <2>3. QED
      BY <1>2, <1>4, <2>2, RanStays, StaysObeys
  <1>25. CASE user
    <2>1. back = change_mode(done, done.cpsr.mode, s.cpsr.mode)
      BY <1>25
    <2>2. Moved(done, back) /\ AllSame(done, back) /\ Bank(back) = Bank(s)
      BY <1>2, <1>20, <2>1, ModeMoved DEF Working, Bank
    <2> HIDE DEF back
    <2>3. Sound(back) /\ Ran(back, x)
      BY <1>20, <1>22, <2>2, SoundMoved
    <2> HIDE DEF x
    <2>4. Sound(x) /\ OwnBut({Bank(s)}, back, x)
      BY <2>2, <2>3, RanStays, SoundWorks DEF Stays
    <2>5. OwnBut({0}, s, done)
      BY <1>7, <1>20, <1>25
    <2>6. {Bank(s)} \subseteq Touched(s, i) /\ {0} \subseteq Touched(s, i)
      BY <1>5, <1>25 DEF Touched, ForUser
    <2> DEFINE B == Touched(s, i)
    <2> HIDE DEF B
    <2>7. OwnBut(B, s, done) /\ OwnBut(B, done, back) /\ OwnBut(B, back, x)
      BY <2>2, <2>4, <2>5, <2>6, OwnMore, OwnSame DEF B
    <2>8. Sound(x) /\ OwnBut(B, s, x)
      BY <2>4, <2>7, OwnOwn
    <2>9. QED
      BY <1>4, <2>8 DEF x, B, Obeys
  <1>26. QED
    BY <1>23, <1>24, <1>25

-----------------------------------------------------------------------------
\* The THUMB formats.

LEMMA ThumbAdvanced ==
  ASSUME NEW s, ThumbReady(s), NEW t, Kept(s, t)
  PROVE  Ran(s, advance_thumb(t))
  BY Advanced DEF ThumbReady

LEMMA ThumbFacts ==
  ASSUME NEW s, ThumbReady(s)
  PROVE  /\ Working(s) /\ Fetched(s) /\ s.cpsr.thumb /\ word_size(s) = 2 /\ s.pc % 2 = 0
         /\ s.pc \in Word /\ s.pc \in Int /\ s.cpsr \in RegPSR
         /\ s.cpsr.c \in BOOLEAN /\ s.cpsr.v \in BOOLEAN
         /\ \A r \in Gprs : s.gpr[r] \in Word /\ s.gpr[r] \in Int /\ get_reg(s, r) \in Word
  <1>1. Working(s) /\ Fetched(s) /\ s.cpsr.thumb
    BY ReadyWorks DEF ThumbReady
  <1>2. word_size(s) = 2 /\ s.pc % 2 = 0
    BY <1>1 DEF word_size, Fetched
  <1>3. \A r \in Gprs : s.gpr[r] \in Word /\ get_reg(s, r) \in Word
    BY <1>1, Registers DEF Reg, Working, Processor
  <1>4. \A r \in Gprs : s.gpr[r] \in Int
    BY <1>3, WordNumbers
  <1>5. QED
    BY <1>1, <1>2, <1>3, <1>4, Sizes

\* The sum of a register and an offset.
LEMMA Offsets ==
  ASSUME NEW a \in Word, NEW b \in Word
  PROVE  Wrap(a + b) \in Word /\ Wrap(a - b) \in Word
  <1>1. a + b \in Int /\ a - b \in Int
    BY WordNumbers
  <1>2. QED
    BY <1>1, Wraps

LEMMA FlaggedSound ==
  ASSUME NEW s, ThumbReady(s), NEW r \in Results, NEW rd \in Gprs, NEW writes
  PROVE  Ran(s, FlaggedThumb(s, r, rd, writes))
  <1> DEFINE t == alu_update_flags(s, r.val, r.c, r.v)
  <1>1. r.val \in Word /\ r.c \in BOOLEAN /\ r.v \in BOOLEAN
    BY DEF Results
  <1>2. Kept(s, t)
    BY <1>1, ThumbFacts, AluFlagsKept
  <1>3. FlaggedThumb(s, r, rd, writes) = advance_thumb(IF writes THEN set_reg(t, rd, r.val) ELSE t)
    BY DEF FlaggedThumb
  <1> HIDE DEF t
  <1>4. Kept(s, set_reg(t, rd, r.val))
    BY <1>1, <1>2, RegisterKept, KeptKept, KeptWorks
  <1>5. QED
    BY <1>2, <1>3, <1>4, ThumbAdvanced

LEMMA MoveShiftedRegSound ==
  ASSUME NEW s, ThumbReady(s), NEW i, ThumbForm(i), i.fmt = "MoveShiftedReg"
  PROVE  Ran(s, exec_thumb_move_shifted_reg(s, i))
  <1> DEFINE r == barrel_shift_op(i.shift, s.gpr[i.rs], i.amount, s.cpsr.c, TRUE)
             t == set_reg(s, i.rd, r[1])
             u == alu_update_flags(t, r[1], r[2], s.cpsr.v)
  <1>1. i.shift \in Shifts /\ i.amount \in Nat /\ i.rs \in Gprs /\ i.rd \in Gprs /\ TRUE \in BOOLEAN
    BY DEF ThumbForm
  <1>2. r \in Shifted
    BY <1>1, ThumbFacts, ShiftWords
  <1>3. exec_thumb_move_shifted_reg(s, i) = advance_thumb(u)
    BY DEF exec_thumb_move_shifted_reg
  <1> HIDE DEF r
  <1>4. r[1] \in Word /\ r[2] \in BOOLEAN
    BY <1>2 DEF Shifted
  <1>5. Kept(s, t)
    BY <1>1, <1>4, ThumbFacts, RegisterKept
  <1> HIDE DEF t
  <1>6. Kept(s, u)
    BY <1>4, <1>5, ThumbFacts, AluFlagsKept, KeptKept, KeptWorks
  <1> HIDE DEF u
  <1>7. QED
    BY <1>3, <1>6, ThumbAdvanced

LEMMA AddSubSound ==
  ASSUME NEW s, ThumbReady(s), NEW i, ThumbForm(i), i.fmt = "AddSub"
  PROVE  Ran(s, exec_thumb_add_sub(s, i))
  <1> DEFINE b == IF i.by = "immediate" THEN i.imm ELSE get_reg(s, i.rn)
             a == get_reg(s, i.rs)
             r == IF i.sub THEN alu_sub_flags(a, b) ELSE alu_add_flags(a, b)
  <1>1. i.rs \in Gprs /\ i.rd \in Gprs /\ (IF i.by = "immediate" THEN i.imm \in Word ELSE i.rn \in Gprs)
    BY DEF ThumbForm
  <1>2. a \in Word /\ b \in Word
    BY <1>1, ThumbFacts
  <1>3. exec_thumb_add_sub(s, i) = FlaggedThumb(s, r, i.rd, TRUE)
    BY DEF exec_thumb_add_sub
  <1> HIDE DEF a, b
  <1>4. r \in Results
    BY <1>2, ResultWords
  <1> HIDE DEF r
  <1>5. QED
    BY <1>1, <1>3, <1>4, FlaggedSound

LEMMA DataProcessImmSound ==
  ASSUME NEW s, ThumbReady(s), NEW i, ThumbForm(i), i.fmt = "DataProcessImm"
  PROVE  Ran(s, exec_thumb_data_process_imm(s, i))
  <1> DEFINE a == s.gpr[i.rd]
             r == CASE i.op = "MOV" -> Result(i.imm, s.cpsr.c, s.cpsr.v)
                    [] i.op \in {"CMP", "SUB"} -> alu_sub_flags(a, i.imm)
                    [] i.op = "ADD" -> alu_add_flags(a, i.imm)
             writes == i.op # "CMP"
  <1>1. i.op \in {"MOV", "CMP", "ADD", "SUB"} /\ i.rd \in Gprs /\ i.imm \in Word /\ i.imm \in Int
    BY WordNumbers DEF ThumbForm
  <1>2. a \in Word /\ s.cpsr.c \in BOOLEAN /\ s.cpsr.v \in BOOLEAN
    BY <1>1, ThumbFacts
  <1>3. exec_thumb_data_process_imm(s, i) = FlaggedThumb(s, r, i.rd, writes)
    BY DEF exec_thumb_data_process_imm
  <1> HIDE DEF a, writes
  <1>4. /\ Result(i.imm, s.cpsr.c, s.cpsr.v) \in Results
        /\ alu_sub_flags(a, i.imm) \in Results /\ alu_add_flags(a, i.imm) \in Results
    BY <1>1, <1>2, ResultWords
  <1>5. r \in Results
    BY <1>1, <1>4
  <1> HIDE DEF r
  <1>6. QED
    BY <1>1, <1>3, <1>5, FlaggedSound

LEMMA AluOpsSound ==
  ASSUME NEW s, ThumbReady(s), NEW i, ThumbForm(i), i.fmt = "AluOps"
  PROVE  Ran(s, exec_thumb_alu_ops(s, i))
  <1> DEFINE dst == get_reg(s, i.rd)
             src == get_reg(s, i.rs)
             shifted == barrel_shift_op(i.op, dst, src % 256, s.cpsr.c, FALSE)
             r == CASE i.op \in {"LSL", "LSR", "ASR", "ROR"} -> Result(shifted[1], shifted[2], s.cpsr.v)
                    [] i.op = "NEG" -> alu_sub_flags(0, src)
                    [] i.op = "MUL" -> Result(dst * src, FALSE, FALSE)
                    [] OTHER -> AluWithFlags(i.op, dst, src, s.cpsr.c, s.cpsr)
             writes == i.op \notin {"TST", "CMP", "CMN"}
  <1>1. i.op \in AluOpCode \cup Shifts \cup {"NEG", "MUL"} /\ i.rs \in Gprs /\ i.rd \in Gprs
    BY DEF ThumbForm
  <1>2. dst \in Word /\ src \in Word /\ dst \in Int /\ src \in Int
    BY <1>1, ThumbFacts, WordNumbers
  <1>3. s.cpsr \in RegPSR /\ s.cpsr.c \in BOOLEAN /\ s.cpsr.v \in BOOLEAN
    BY ThumbFacts
  <1>4. exec_thumb_alu_ops(s, i) = FlaggedThumb(s, r, i.rd, writes)
    BY DEF exec_thumb_alu_ops
  <1> HIDE DEF dst, src, writes
  <1>5. CASE i.op \in Shifts
    <2>1. src % 256 \in Nat /\ FALSE \in BOOLEAN
      BY <1>2
    <2>2. shifted \in Shifted
      BY <1>2, <1>3, <1>5, <2>1, ShiftWords
    <2>3. r = Result(shifted[1], shifted[2], s.cpsr.v)
      BY <1>5 DEF Shifts
    <2> HIDE DEF shifted, r
    <2>4. shifted[1] \in Int /\ shifted[2] \in BOOLEAN
      BY <2>2, WordNumbers DEF Shifted
    <2>5. r \in Results
      BY <1>3, <2>3, <2>4, ResultWords
    <2>6. QED
      BY <1>1, <1>4, <2>5, FlaggedSound
  <1>6. CASE i.op \notin Shifts
    <2>1. alu_sub_flags(0, src) \in Results
      <3>1. 0 \in Word
        BY SmallWords
      <3>2. QED
        BY <1>2, <3>1, ResultWords
    <2>2. Result(dst * src, FALSE, FALSE) \in Results
      <3>1. dst * src \in Int /\ FALSE \in BOOLEAN
        BY <1>2
      <3>2. QED
        BY <3>1, ResultWords
    <2>3. i.op \in AluOpCode => AluWithFlags(i.op, dst, src, s.cpsr.c, s.cpsr) \in Results
      BY <1>2, <1>3, AluWords
    <2> HIDE DEF shifted
    <2>4. r \in Results
      BY <1>1, <1>6, <2>1, <2>2, <2>3 DEF Shifts
    <2> HIDE DEF r
    <2>5. QED
      BY <1>1, <1>4, <2>4, FlaggedSound
  <1>7. QED
    BY <1>5, <1>6

LEMMA HiRegSound ==
  ASSUME NEW s, ThumbReady(s), NEW i, ThumbForm(i), i.fmt = "HiRegOpOrBranchExchange"
  PROVE  Ran(s, exec_thumb_hi_reg_op_or_bx(s, i))
  <1> DEFINE a == get_reg(s, i.rd)
             b == get_reg(s, i.rs)
             put(val) == LET t == set_reg(s, i.rd, val)
                         IN  IF i.rd = 15 THEN reload_pipeline16(t) ELSE advance_thumb(t)
             compare == FlaggedThumb(s, alu_sub_flags(a, b), i.rd, FALSE)
  <1>1. i.op \in {"ADD", "CMP", "MOV", "BX"} /\ i.rs \in Reg /\ i.rd \in Reg
    BY DEF ThumbForm
  <1>2. Working(s) /\ Fetched(s) /\ s.cpsr.thumb
    BY ThumbFacts
  <1>3. a \in Word /\ b \in Word
    BY <1>1, <1>2, Registers
  <1>4. exec_thumb_hi_reg_op_or_bx(s, i) =
          CASE i.op = "BX" -> branch_exchange(s, b) [] i.op = "ADD" -> put(Wrap(a + b))
            [] i.op = "MOV" -> put(b) [] i.op = "CMP" -> compare
    BY DEF exec_thumb_hi_reg_op_or_bx
  <1> HIDE DEF a, b
  <1>5. ASSUME NEW v \in Word PROVE Ran(s, put(v))
    <2>1. CASE i.rd = 15
      BY <1>2, <2>1, PcSet, WentRan
    <2>2. CASE i.rd # 15
      <3>1. i.rd \in Gprs
        BY <1>1, <2>2 DEF Reg
      <3>2. Kept(s, set_reg(s, i.rd, v))
        BY <1>2, <3>1, RegisterKept
      <3>3. QED
        BY <2>2, <3>2, ThumbAdvanced
    <2>3. QED
      BY <2>1, <2>2
  <1> HIDE DEF put
  <1>6. Ran(s, branch_exchange(s, b))
    BY <1>2, <1>3, ExchangeSound
  <1>7. Ran(s, compare)
    <2> DEFINE r == alu_sub_flags(a, b)
               t == alu_update_flags(s, r.val, r.c, r.v)
    <2>1. r \in Results
      BY <1>3, ResultWords
    <2> HIDE DEF r
    <2>2. Kept(s, t)
      BY <1>2, <2>1, AluFlagsKept DEF Results
    <2>3. compare = advance_thumb(t)
      BY DEF FlaggedThumb, r
    <2> HIDE DEF compare, t
    <2>4. QED
      BY <2>2, <2>3, ThumbAdvanced
  <1> HIDE DEF compare
  <1>8. Wrap(a + b) \in Word
    BY <1>3, Offsets
  <1>9. QED
    BY <1>1, <1>3, <1>4, <1>5, <1>6, <1>7, <1>8

LEMMA ThumbRegister ==
  ASSUME NEW s, ThumbReady(s), NEW r \in Gprs, NEW v \in Word
  PROVE  Ran(s, advance_thumb(set_reg(s, r, v)))
  BY ThumbFacts, RegisterKept, ThumbAdvanced

LEMMA ThumbCarried ==
  ASSUME NEW s, ThumbReady(s), NEW r \in Gprs, NEW w \in Shifted
  PROVE  Ran(s, advance_thumb(set_reg([s EXCEPT !.cpsr.c = w[2]], r, w[1])))
  <1> DEFINE t == [s EXCEPT !.cpsr.c = w[2]]
  <1>1. w[1] \in Word /\ w[2] \in BOOLEAN
    BY DEF Shifted
  <1>2. Kept(s, t) /\ Working(t)
    BY <1>1, ThumbFacts, CarryKept, KeptWorks
  <1> HIDE DEF t
  <1>3. Kept(s, set_reg(t, r, w[1]))
    BY <1>1, <1>2, RegisterKept, KeptKept
  <1>4. QED
    BY <1>3, ThumbAdvanced DEF t

LEMMA ThumbStored ==
  ASSUME NEW s, ThumbReady(s), NEW a \in Word, NEW v \in Word
  PROVE  /\ Ran(s, advance_thumb(store_32(s, a, v)))
         /\ Ran(s, advance_thumb(store_16(s, a, v)))
         /\ Ran(s, advance_thumb(store_8(s, a, v)))
  <1>1. Kept(s, store_32(s, a, v)) /\ Kept(s, store_16(s, a, v)) /\ Kept(s, store_8(s, a, v))
    BY ThumbFacts, StoresKept
  <1>2. QED
    BY <1>1, ThumbAdvanced

LEMMA LdrPcSound ==
  ASSUME NEW s, ThumbReady(s), NEW i, ThumbForm(i), i.fmt = "LdrPc"
  PROVE  Ran(s, exec_thumb_ldr_pc(s, i))
  <1> DEFINE a == Wrap(Align(s.pc, 4) + i.imm)
  <1>1. i.rd \in Gprs /\ i.imm \in Word
    BY DEF ThumbForm
  <1>2. a \in Word
    <2>1. 4 \in {2, 4}
      OBVIOUS
    <2>2. Align(s.pc, 4) \in Word
      BY <2>1, ThumbFacts, Alignment
    <2>3. QED
      BY <1>1, <2>2, Offsets
  <1>3. exec_thumb_ldr_pc(s, i) = advance_thumb(set_reg(s, i.rd, load_32(s, a)))
    BY DEF exec_thumb_ldr_pc
  <1> HIDE DEF a
  <1>4. load_32(s, a) \in Word
    BY <1>2, ThumbFacts, Loads
  <1>5. QED
    BY <1>1, <1>3, <1>4, ThumbRegister

LEMMA ThumbTransfers ==
  ASSUME NEW s, ThumbReady(s), NEW i, i.load \in BOOLEAN, i.rd \in Gprs,
         NEW byte \in BOOLEAN, NEW a \in Word
  PROVE  Ran(s, do_exec_thumb_ldr_str(s, i, byte, a))
  <1> DEFINE word == ldr_word(s, a)
             v == get_reg(s, i.rd)
             lb == set_reg(s, i.rd, load_8(s, a))
             lw == set_reg([s EXCEPT !.cpsr.c = word[2]], i.rd, word[1])
             sb == store_8(s, a, v)
             sw == store_32(s, a, v)
             t == CASE i.load /\ byte -> lb [] i.load /\ ~byte -> lw
                    [] ~i.load /\ byte -> sb [] OTHER -> sw
  <1>1. do_exec_thumb_ldr_str(s, i, byte, a) = advance_thumb(t)
    BY DEF do_exec_thumb_ldr_str
  <1>2. word \in Shifted /\ load_8(s, a) \in Word /\ v \in Word
    BY ThumbFacts, Loads
  <1> HIDE DEF word, v
  <1>3. Ran(s, advance_thumb(lb)) /\ Ran(s, advance_thumb(lw))
    BY <1>2, ThumbRegister, ThumbCarried
  <1>4. Ran(s, advance_thumb(sb)) /\ Ran(s, advance_thumb(sw))
    BY <1>2, ThumbStored
  <1> HIDE DEF lb, lw, sb, sw
  <1>5. t \in {lb, lw, sb, sw}
    OBVIOUS
  <1> HIDE DEF t
  <1>6. QED
    BY <1>1, <1>3, <1>4, <1>5

LEMMA ThumbSingleSound ==
  ASSUME NEW s, ThumbReady(s), NEW i, ThumbForm(i)
  PROVE  /\ i.fmt = "LdrStrRegOffset" => Ran(s, exec_thumb_ldr_str_reg_offset(s, i))
         /\ i.fmt = "LdrStrImmOffset" => Ran(s, exec_thumb_ldr_str_imm_offset(s, i))
         /\ i.fmt = "LdrStrSp" => Ran(s, exec_thumb_ldr_str_sp(s, i))
  <1>1. ASSUME i.fmt = "LdrStrRegOffset" PROVE Ran(s, exec_thumb_ldr_str_reg_offset(s, i))
    <2>1. i.load \in BOOLEAN /\ i.byte \in BOOLEAN /\ i.rb \in Gprs /\ i.ro \in Gprs /\ i.rd \in Gprs
      BY <1>1 DEF ThumbForm
    <2>2. Wrap(s.gpr[i.rb] + s.gpr[i.ro]) \in Word
      BY <2>1, ThumbFacts, Offsets
    <2>3. QED
      BY <2>1, <2>2, ThumbTransfers DEF exec_thumb_ldr_str_reg_offset
  <1>2. ASSUME i.fmt = "LdrStrImmOffset" PROVE Ran(s, exec_thumb_ldr_str_imm_offset(s, i))
    <2>1. i.load \in BOOLEAN /\ i.byte \in BOOLEAN /\ i.rb \in Gprs /\ i.imm \in Word /\ i.rd \in Gprs
      BY <1>2 DEF ThumbForm
    <2>2. Wrap(s.gpr[i.rb] + i.imm) \in Word
      BY <2>1, ThumbFacts, Offsets
    <2>3. QED
      BY <2>1, <2>2, ThumbTransfers DEF exec_thumb_ldr_str_imm_offset
  <1>3. ASSUME i.fmt = "LdrStrSp" PROVE Ran(s, exec_thumb_ldr_str_sp(s, i))
    <2> DEFINE byte == FALSE
    <2>1. i.load \in BOOLEAN /\ i.imm \in Word /\ i.rd \in Gprs /\ byte \in BOOLEAN
      BY <1>3 DEF ThumbForm
    <2>2. Wrap(s.gpr[13] + i.imm) \in Word
      BY <2>1, ModeBanks, ThumbFacts, Offsets
    <2>3. exec_thumb_ldr_str_sp(s, i) = do_exec_thumb_ldr_str(s, i, byte, Wrap(s.gpr[13] + i.imm))
      BY DEF exec_thumb_ldr_str_sp
    <2> HIDE DEF byte
    <2>4. QED
      BY <2>1, <2>2, <2>3, ThumbTransfers
  <1>4. QED
    BY <1>1, <1>2, <1>3

LEMMA LdrStrSHBSound ==
  ASSUME NEW s, ThumbReady(s), NEW i, ThumbForm(i), i.fmt = "LdrStrSHB"
  PROVE  Ran(s, exec_thumb_ldr_str_shb(s, i))
  <1> DEFINE a == Wrap(s.gpr[i.rb] + s.gpr[i.ro])
             half == ldr_half(s, a)
             sh == store_16(s, a, s.gpr[i.rd])
             lh == set_reg([s EXCEPT !.cpsr.c = half[2]], i.rd, half[1])
             lb == set_reg(s, i.rd, SignExtended(load_8(s, a), ByteBits))
             ls == set_reg(s, i.rd, ldr_sign_half(s, a))
             t == CASE ~i.sign /\ ~i.half -> sh [] ~i.sign /\ i.half -> lh
                    [] i.sign /\ ~i.half -> lb [] i.sign /\ i.half -> ls
  <1>1. i.sign \in BOOLEAN /\ i.half \in BOOLEAN /\ i.rb \in Gprs /\ i.ro \in Gprs /\ i.rd \in Gprs
    BY DEF ThumbForm
  <1>2. a \in Word
    BY <1>1, ThumbFacts, Offsets
  <1>3. exec_thumb_ldr_str_shb(s, i) = advance_thumb(t)
    BY DEF exec_thumb_ldr_str_shb
  <1> HIDE DEF a
  <1>4. /\ half \in Shifted /\ SignExtended(load_8(s, a), ByteBits) \in Word
        /\ ldr_sign_half(s, a) \in Word /\ s.gpr[i.rd] \in Word
    BY <1>1, <1>2, ThumbFacts, Loads
  <1> HIDE DEF half
  <1>5. /\ Ran(s, advance_thumb(sh)) /\ Ran(s, advance_thumb(lh))
        /\ Ran(s, advance_thumb(lb)) /\ Ran(s, advance_thumb(ls))
    BY <1>1, <1>2, <1>4, ThumbRegister, ThumbCarried, ThumbStored
  <1> HIDE DEF sh, lh, lb, ls
  <1>6. t \in {sh, lh, lb, ls}
    BY <1>1
  <1> HIDE DEF t
  <1>7. QED
    BY <1>3, <1>5, <1>6

LEMMA LdrStrHalfWordSound ==
  ASSUME NEW s, ThumbReady(s), NEW i, ThumbForm(i), i.fmt = "LdrStrHalfWord"
  PROVE  Ran(s, exec_thumb_ldr_str_halfword(s, i))
  <1> DEFINE a == Wrap(s.gpr[i.rb] + i.imm)
             half == ldr_half(s, a)
             lh == set_reg([s EXCEPT !.cpsr.c = half[2]], i.rd, half[1])
             sh == store_16(s, a, s.gpr[i.rd])
  <1>1. i.rb \in Gprs /\ i.imm \in Word /\ i.rd \in Gprs
    BY DEF ThumbForm
  <1>2. a \in Word
    BY <1>1, ThumbFacts, Offsets
  <1>3. exec_thumb_ldr_str_halfword(s, i) = advance_thumb(IF i.load THEN lh ELSE sh)
    BY DEF exec_thumb_ldr_str_halfword
  <1> HIDE DEF a
  <1>4. half \in Shifted /\ s.gpr[i.rd] \in Word
    BY <1>1, <1>2, ThumbFacts, Loads
  <1> HIDE DEF half
  <1>5. Ran(s, advance_thumb(lh)) /\ Ran(s, advance_thumb(sh))
    BY <1>1, <1>2, <1>4, ThumbCarried, ThumbStored
  <1> HIDE DEF lh, sh
  <1>6. QED
    BY <1>3, <1>5

LEMMA LoadAddressSound ==
  ASSUME NEW s, ThumbReady(s), NEW i, ThumbForm(i)
  PROVE  /\ i.fmt = "LoadAddress" => Ran(s, exec_thumb_load_address(s, i))
         /\ i.fmt = "AddSp" => Ran(s, exec_thumb_add_sp(s, i))
  <1>1. 13 \in Gprs /\ s.gpr[13] \in Word
    BY ModeBanks, ThumbFacts
  <1>2. ASSUME i.fmt = "LoadAddress" PROVE Ran(s, exec_thumb_load_address(s, i))
    <2> DEFINE p == Align(pc_thumb(s) + 4, 4) + i.imm
               v == Wrap(IF i.sp THEN s.gpr[13] + i.imm ELSE p)
    <2>1. i.rd \in Gprs /\ i.imm \in Word /\ i.imm \in Int
      BY <1>2, WordNumbers DEF ThumbForm
    <2>2. p \in Int
      <3>1. s.pc - 4 \in Int
        BY ThumbFacts
      <3>2. pc_thumb(s) \in Int
        BY <3>1, Wraps, WordNumbers DEF pc_thumb
      <3>3. Align(pc_thumb(s) + 4, 4) \in Int
        BY <3>2 DEF Align
      <3>4. QED
        BY <2>1, <3>3
    <2> HIDE DEF p
    <2>3. v \in Word
      BY <1>1, <2>1, <2>2, Wraps, Offsets
    <2>4. exec_thumb_load_address(s, i) = advance_thumb(set_reg(s, i.rd, v))
      BY DEF exec_thumb_load_address, p
    <2> HIDE DEF v
    <2>5. QED
      BY <2>1, <2>3, <2>4, ThumbRegister
  <1>3. ASSUME i.fmt = "AddSp" PROVE Ran(s, exec_thumb_add_sp(s, i))
    <2> DEFINE v == Wrap(IF i.sub THEN s.gpr[13] - i.imm ELSE s.gpr[13] + i.imm)
    <2>1. i.imm \in Word
      BY <1>3 DEF ThumbForm
    <2>2. v \in Word
      BY <1>1, <2>1, Offsets
    <2>3. exec_thumb_add_sp(s, i) = advance_thumb(set_reg(s, 13, v))
      BY DEF exec_thumb_add_sp
    <2> HIDE DEF v
    <2>4. QED
      BY <1>1, <2>2, <2>3, ThumbRegister
  <1>4. QED
    BY <1>2, <1>3

LEMMA ListAddresses ==
  ASSUME NEW list, list \subseteq Reg, NEW base \in Word
  PROVE  /\ [r \in list |-> Wrap(base + 4 * Rank(list, r))] \in [list -> Word]
         /\ 4 * Cardinality(list) \in Int
  <1>1. 0 \in Int
    OBVIOUS
  <1>2. \A r : Rank(list, r) \in Nat /\ Wrap(base + 4 * Rank(list, r) + 0) \in Word
    BY <1>1, Ranks
  <1>3. base \in Int
    BY WordNumbers
  <1>4. ASSUME NEW r \in list PROVE Wrap(base + 4 * Rank(list, r)) \in Word
    <2>1. base + 4 * Rank(list, r) + 0 = base + 4 * Rank(list, r)
      BY <1>2, <1>3
    <2>2. QED
      BY <1>2, <2>1
  <1>5. Cardinality(list) \in Nat
    BY <1>1, Ranks
  <1>6. QED
    BY <1>4, <1>5

LEMMA PushPopSound ==
  ASSUME NEW s, ThumbReady(s), NEW i, ThumbForm(i), i.fmt = "PushPop"
  PROVE  Ran(s, exec_thumb_push_pop(s, i))
  <1> DEFINE list == i.list \cup (IF ~i.r THEN {} ELSE IF i.pop THEN {15} ELSE {14})
             size == 4 * Cardinality(list)
             sp == s.gpr[13]
             low == IF i.pop THEN sp ELSE Wrap(sp - size)
             addr == [r \in list |-> Wrap(low + 4 * Rank(list, r))]
             t == [LoadList(s, list, addr) EXCEPT !.gpr[13] = Wrap(sp + size)]
             val == [r \in list |-> s.gpr[r]]
             put == [StoreList(s, list, addr, val) EXCEPT !.gpr[13] = low]
             jump == reload_pipeline16(set_reg(t, 15, load_32(s, addr[15])))
  <1>1. i.pop \in BOOLEAN /\ i.r \in BOOLEAN /\ i.list \subseteq Gprs
    BY DEF ThumbForm
  <1>2. /\ list \subseteq Reg /\ (~i.pop => list \subseteq Gprs) /\ (i.pop /\ i.r => 15 \in list)
        /\ 13 \in Gprs /\ 13 # 15
    BY <1>1, ModeBanks DEF Reg
  <1>3. Working(s) /\ s.cpsr.thumb /\ sp \in Word /\ sp \in Int
    BY ModeBanks, ThumbFacts
  <1>4. exec_thumb_push_pop(s, i) =
          CASE i.pop /\ i.r -> jump [] i.pop /\ ~i.r -> advance_thumb(t) [] OTHER -> advance_thumb(put)
    BY DEF exec_thumb_push_pop
  <1> HIDE DEF list
  <1>5. size \in Int
    BY <1>2, <1>3, ListAddresses
  <1>6. low \in Word /\ Wrap(sp + size) \in Word
    <2>1. sp - size \in Int /\ sp + size \in Int
      BY <1>3, <1>5
    <2>2. QED
      BY <1>3, <2>1, Wraps
  <1> HIDE DEF size, sp, low
  <1>7. addr \in [list -> Word]
    BY <1>2, <1>6, ListAddresses
  <1> HIDE DEF addr
  <1>8. ASSUME NEW u, Kept(s, u), NEW v \in Word PROVE Kept(s, [u EXCEPT !.gpr[13] = v])
    <2>1. [u EXCEPT !.gpr[13] = v] = set_reg(u, 13, v)
      BY <1>2 DEF set_reg
    <2>2. Kept(u, set_reg(u, 13, v))
      BY <1>2, <1>8, RegisterKept, KeptWorks
    <2>3. QED
      BY <1>8, <2>1, <2>2, KeptKept
  <1>9. Kept(s, t)
    <2>1. Kept(s, LoadList(s, list, addr))
      BY <1>3, <1>7, ListsKept
    <2>2. QED
      BY <1>6, <1>8, <2>1
  <1> HIDE DEF t
  <1>10. ASSUME ~i.pop PROVE Kept(s, put)
    <2>1. val \in [list -> Word]
      BY <1>2, <1>10, ThumbFacts
    <2> HIDE DEF val
    <2>2. Kept(s, StoreList(s, list, addr, val))
      BY <1>3, <1>7, <2>1, ListsKept
    <2>3. QED
      BY <1>6, <1>8, <2>2
  <1> HIDE DEF put
  <1>11. ASSUME i.pop, i.r PROVE Ran(s, jump)
    <2>1. load_32(s, addr[15]) \in Word
      <3>1. addr[15] \in Word
        BY <1>2, <1>7, <1>11
      <3>2. QED
        BY <1>3, <3>1, Loads
    <2>2. Working(t) /\ t.cpsr.thumb
      BY <1>3, <1>9, KeptWorks
    <2>3. Went(t, jump)
      BY <2>1, <2>2, PcSet
    <2>4. QED
      BY <1>9, <2>3, Onward
  <1> HIDE DEF jump
  <1>12. CASE i.pop /\ i.r
    BY <1>4, <1>11, <1>12
  <1>13. CASE i.pop /\ ~i.r
    BY <1>4, <1>9, <1>13, ThumbAdvanced
  <1>14. CASE ~i.pop
    BY <1>4, <1>10, <1>14, ThumbAdvanced
  <1>15. QED
    BY <1>12, <1>13, <1>14

LEMMA LdmStmSound ==
  ASSUME NEW s, ThumbReady(s), NEW i, ThumbForm(i), i.fmt = "LdmStm"
  PROVE  Ran(s, exec_thumb_ldm_stm(s, i))
  <1> DEFINE list == i.list
             keep == s.gpr[i.rb] % 4
             base == Align(s.gpr[i.rb], 4)
             size == 4 * Cardinality(list)
             addr == [r \in list |-> Wrap(base + 4 * Rank(list, r))]
             stored == [r \in list |-> CASE r # i.rb -> s.gpr[r]
                                         [] r = i.rb /\ Rank(list, r) = 0 -> base
                                         [] OTHER -> Wrap(addr[r] + size - 4)]
             back(t, n) == set_reg(t, i.rb, Wrap(base + n + keep))
             loaded == advance_thumb(LoadList(s, list, addr))
             jumped == reload_pipeline16(set_reg(s, 15, Align(load_32(s, base), 2)))
             one == IF i.rb \in list THEN loaded ELSE back(loaded, size)
             two == advance_thumb(back(StoreList(s, list, addr, stored), size))
             three == back(jumped, 64)
             four == advance_thumb(back(store_32(s, base, Wrap(s.pc + 2)), 64))
  <1>1. i.load \in BOOLEAN /\ i.rb \in Gprs /\ list \subseteq Gprs
    BY DEF ThumbForm
  <1>2. Working(s) /\ s.cpsr.thumb /\ s.gpr[i.rb] \in Word /\ s.gpr[i.rb] \in Int /\ s.pc \in Int
    BY <1>1, ThumbFacts
  <1>3. base \in Word /\ base \in Int /\ keep \in Int
    <2>1. 4 \in {2, 4}
      OBVIOUS
    <2>2. base \in Word
      BY <1>2, <2>1, Alignment
    <2>3. keep \in Int
      BY <1>2
    <2>4. QED
      BY <2>2, <2>3, WordNumbers
  <1>4. exec_thumb_ldm_stm(s, i) =
          CASE list # {} /\ i.load -> one [] list # {} /\ ~i.load -> two
            [] list = {} /\ i.load -> three [] OTHER -> four
    BY DEF exec_thumb_ldm_stm
  <1> HIDE DEF list, keep, base
  <1>5. addr \in [list -> Word] /\ size \in Int
    <2>1. list \subseteq Reg
      BY <1>1 DEF Reg
    <2>2. QED
      BY <1>3, <2>1, ListAddresses
  <1> HIDE DEF addr, size
  <1>6. stored \in [list -> Word]
    <2>1. ASSUME NEW r \in list
          PROVE  s.gpr[r] \in Word /\ Wrap(addr[r] + size - 4) \in Word
      <3>1. s.gpr[r] \in Word
        BY <1>1, ThumbFacts
      <3>2. addr[r] \in Int
        BY <1>5, WordNumbers
      <3>3. addr[r] + size - 4 \in Int
        BY <1>5, <3>2
      <3>4. QED
        BY <3>1, <3>3, Wraps
    <2>2. QED
      BY <1>3, <2>1
  <1> HIDE DEF stored
  <1>7. ASSUME NEW t, Working(t), NEW n \in Int PROVE Kept(t, back(t, n))
    <2>1. base + n + keep \in Int
      BY <1>3
    <2>2. Wrap(base + n + keep) \in Word
      BY <2>1, Wraps
    <2>3. QED
      BY <1>1, <1>7, <2>2, RegisterKept
  <1> HIDE DEF back
  <1>8. 64 \in Int
    OBVIOUS
  <1>9. Ran(s, one)
    <2>1. Ran(s, loaded)
      BY <1>2, <1>5, ListsKept, ThumbAdvanced
    <2> HIDE DEF loaded
    <2>2. Ran(s, back(loaded, size))
      BY <1>5, <1>7, <2>1, SoundWorks, SoundKept, RanRan DEF Ran
    <2>3. QED
      BY <2>1, <2>2
  <1>10. Ran(s, two)
    <2> DEFINE t == StoreList(s, list, addr, stored)
    <2>1. Kept(s, t)
      BY <1>2, <1>5, <1>6, ListsKept
    <2> HIDE DEF t
    <2>2. Kept(s, back(t, size))
      BY <1>5, <1>7, <2>1, KeptKept, KeptWorks
    <2>3. QED
      BY <2>2, ThumbAdvanced DEF t
  <1>11. Ran(s, three)
    <2>1. 2 \in {2, 4} /\ load_32(s, base) \in Word
      BY <1>2, <1>3, Loads
    <2>2. Align(load_32(s, base), 2) \in Word
      BY <2>1, Alignment
    <2>3. Ran(s, jumped)
      BY <1>2, <2>2, PcSet, WentRan
    <2> HIDE DEF jumped
    <2>4. QED
      BY <1>7, <1>8, <2>3, SoundWorks, SoundKept, RanRan DEF Ran
  <1>12. Ran(s, four)
    <2> DEFINE t == store_32(s, base, Wrap(s.pc + 2))
    <2>1. Wrap(s.pc + 2) \in Word
      BY <1>2, Wraps
    <2>2. Kept(s, t)
      BY <1>2, <1>3, <2>1, StoresKept
    <2> HIDE DEF t
    <2>3. Kept(s, back(t, 64))
      BY <1>7, <1>8, <2>2, KeptKept, KeptWorks
    <2>4. QED
      BY <2>3, ThumbAdvanced DEF t
  <1> HIDE DEF one, two, three, four
  <1>13. QED
    BY <1>4, <1>9, <1>10, <1>11, <1>12

LEMMA ThumbJumps ==
  ASSUME NEW s, Working(s), s.cpsr.thumb, NEW n \in Int, n % 2 = 0
  PROVE  Went(s, Jump16(s, Wrap(n)))
  <1>1. word_size(s) = 2 /\ 2 \in {2, 4}
    BY DEF word_size
  <1>2. Wrap(n) % 2 = 0 /\ Wrap(n) \in Word
    BY <1>1, WrapAligned
  <1>3. QED
    BY <1>1, <1>2, Jumped DEF Jump16

LEMMA BranchesSound ==
  ASSUME NEW s, ThumbReady(s), NEW i, ThumbForm(i)
  PROVE  /\ i.fmt = "BranchConditional" => Ran(s, exec_thumb_branch_with_cond(s, i))
         /\ i.fmt = "Branch" => Ran(s, exec_thumb_branch(s, i))
         /\ i.fmt = "BranchLongWithLink" => Ran(s, exec_thumb_branch_long_with_link(s, i))
         /\ i.fmt = "Swi" => Sound(exec_thumb_swi(s, i)) /\ Enters(s, exec_thumb_swi(s, i))
  <1>1. Working(s) /\ s.cpsr.thumb /\ s.pc \in Int /\ s.pc % 2 = 0 /\ Kept(s, s) /\ 14 \in Gprs
    BY ThumbFacts, ReadyWorks, ModeBanks
  <1>2. ASSUME NEW k \in Int, k % 2 = 0 PROVE s.pc + k \in Int /\ (s.pc + k) % 2 = 0
    BY <1>1, <1>2
  <1>3. ASSUME i.fmt = "BranchConditional" PROVE Ran(s, exec_thumb_branch_with_cond(s, i))
    <2>1. i.offset \in Int /\ i.offset % 2 = 0
      BY <1>3 DEF ThumbForm
    <2>2. Ran(s, Jump16(s, Wrap(s.pc + i.offset))) /\ Ran(s, advance_thumb(s))
      BY <1>1, <1>2, <2>1, ThumbJumps, WentRan, ThumbAdvanced
    <2>3. QED
      BY <2>2 DEF exec_thumb_branch_with_cond
  <1>4. ASSUME i.fmt = "Branch" PROVE Ran(s, exec_thumb_branch(s, i))
    <2>1. i.offset \in Int /\ i.offset % 2 = 0
      BY <1>4 DEF ThumbForm
    <2>2. QED
      BY <1>1, <1>2, <2>1, ThumbJumps, WentRan DEF exec_thumb_branch
  <1>5. ASSUME i.fmt = "BranchLongWithLink" PROVE Ran(s, exec_thumb_branch_long_with_link(s, i))
    <2>1. i.offset \in Int /\ i.offset % 2 = 0
      BY <1>5 DEF ThumbForm
    <2> DEFINE link == Wrap(Align(s.pc - 2, 2) + 1)
               t == set_reg(s, 14, link)
               n == Align(s.gpr[14], 2) + i.offset
    <2>2. link \in Word /\ Wrap(s.pc + i.offset) \in Word
      <3>1. Align(s.pc - 2, 2) + 1 \in Int /\ s.pc + i.offset \in Int
        BY <1>1, <2>1 DEF Align
      <3>2. QED
        BY <3>1, Wraps
    <2>3. n \in Int /\ n % 2 = 0
      <3>1. 2 \in {2, 4} /\ s.gpr[14] \in Word
        BY <1>1, ThumbFacts
      <3>2. Align(s.gpr[14], 2) \in Word /\ Align(s.gpr[14], 2) % 2 = 0
        BY <3>1, Alignment
      <3>3. Align(s.gpr[14], 2) \in Int
        BY <3>2, WordNumbers
      <3>4. QED
        BY <2>1, <3>2, <3>3
    <2>4. exec_thumb_branch_long_with_link(s, i) =
            IF i.low THEN Jump16(t, Wrap(n)) ELSE advance_thumb(set_reg(s, 14, Wrap(s.pc + i.offset)))
      BY DEF exec_thumb_branch_long_with_link
    <2> HIDE DEF link, n
    <2>5. Kept(s, t)
      BY <1>1, <2>2, RegisterKept
    <2> HIDE DEF t
    <2>6. Ran(s, Jump16(t, Wrap(n)))
      BY <1>1, <2>3, <2>5, ThumbJumps, KeptWorks, Onward
    <2>7. Ran(s, advance_thumb(set_reg(s, 14, Wrap(s.pc + i.offset))))
      BY <1>1, <2>2, ThumbRegister
    <2>8. QED
      BY <2>4, <2>6, <2>7
  <1>6. Sound(exec_thumb_swi(s, i)) /\ Enters(s, exec_thumb_swi(s, i))
    <2>1. 2 \in Int
      OBVIOUS
    <2>2. QED
      BY <1>1, <2>1, SoftwareInterruptSound DEF exec_thumb_swi
  <1>7. QED
    BY <1>3, <1>4, <1>5, <1>6

-----------------------------------------------------------------------------
\* step().

\* What is promised of an instruction i that takes the processor from s to t.
Follows(s, i, t) ==
  /\ Sound(t)
  /\ IF IsSwi(i) THEN Enters(s, t) ELSE OwnBut(Touched(s, i), s, t)

LEMMA ObeysFollows ==
  ASSUME NEW s, NEW i, NEW t, Obeys(s, i, t), ~IsSwi(i)
  PROVE  Follows(s, i, t)
  BY DEF Obeys, Follows

LEMMA RanFollows ==
  ASSUME NEW s, Working(s), NEW i, NEW t, Ran(s, t)
  PROVE  Follows(s, i, t)
  <1>1. Sound(t) /\ OwnBut({Bank(s)}, s, t)
    BY RanStays DEF Stays
  <1>2. {Bank(s)} \subseteq Touched(s, i)
    BY DEF Touched
  <1>3. QED
    BY <1>1, <1>2, OwnMore, OwnEnters DEF Follows

LEMMA ArmExecSound ==
  ASSUME NEW s, ArmReady(s), NEW i, ArmForm(i), i.fmt = "MoveToStatus" => KeepsState(s, i),
         i.fmt = "BlockDataTransfer" => RestoresArm(s, i)
  PROVE  Follows(s, i, step_arm_exec(s, i))
  <1>1. i.fmt \in {"BranchLink", "BranchExchange", "MoveFromStatus", "MoveToStatus", "DataProcessing",
                   "SingleDataTransfer", "HalfwordDataTransfer", "BlockDataTransfer", "Multiply",
                   "MultiplyLong", "SingleDataSwap", "SoftwareInterrupt"}
    BY DEF ArmForm
  <1>2. CASE i.fmt = "BranchLink"
    BY <1>2, BranchLinkSound, ReadyWorks, RanFollows DEF step_arm_exec
  <1>3. CASE i.fmt = "BranchExchange"
    BY <1>3, BranchExchangeSound, ReadyWorks, RanFollows DEF step_arm_exec
  <1>4. CASE i.fmt = "MoveFromStatus"
    BY <1>4, MoveFromStatusSound, ReadyWorks, RanFollows DEF step_arm_exec
  <1>5. CASE i.fmt = "MoveToStatus"
    BY <1>5, MoveToStatusSound, StaysObeys, ObeysFollows DEF step_arm_exec, IsSwi
  <1>6. CASE i.fmt = "DataProcessing"
    BY <1>6, DataProcessingSound, StaysObeys, ObeysFollows DEF step_arm_exec, IsSwi
  <1>7. CASE i.fmt = "SingleDataTransfer"
    BY <1>7, SingleDataTransferSound, ObeysFollows DEF step_arm_exec, IsSwi
  <1>8. CASE i.fmt = "HalfwordDataTransfer"
    BY <1>8, HalfwordDataTransferSound, ObeysFollows DEF step_arm_exec, IsSwi
  <1>9. CASE i.fmt = "BlockDataTransfer"
    BY <1>9, BlockDataTransferSound, ObeysFollows DEF step_arm_exec, IsSwi
  <1>10. CASE i.fmt = "Multiply"
    BY <1>10, MultiplySound, ReadyWorks, RanFollows DEF step_arm_exec
  <1>11. CASE i.fmt = "MultiplyLong"
    BY <1>11, MultiplyLongSound, ReadyWorks, RanFollows DEF step_arm_exec
  <1>12. CASE i.fmt = "SingleDataSwap"
    BY <1>12, SingleDataSwapSound, ReadyWorks, RanFollows DEF step_arm_exec
  <1>13. CASE i.fmt = "SoftwareInterrupt"
    <2>1. 4 \in Int /\ Working(s)
      BY ReadyWorks
    <2>2. step_arm_exec(s, i) = exec_arm_swi(s, i)
      BY <1>13 DEF step_arm_exec
    <2>3. QED
      BY <1>13, <2>1, <2>2, SoftwareInterruptSound DEF exec_arm_swi, software_interrupt, Follows, IsSwi
  <1>14. QED
    BY <1>1, <1>2, <1>3, <1>4, <1>5, <1>6, <1>7, <1>8, <1>9, <1>10, <1>11, <1>12, <1>13

LEMMA ThumbExecSound ==
  ASSUME NEW s, ThumbReady(s), NEW i, ThumbForm(i)
  PROVE  Follows(s, i, step_thumb_exec(s, i))
  <1>1. i.fmt \in {"MoveShiftedReg", "AddSub", "DataProcessImm", "AluOps", "HiRegOpOrBranchExchange",
                   "LdrPc", "LdrStrRegOffset", "LdrStrSHB", "LdrStrImmOffset", "LdrStrHalfWord",
                   "LdrStrSp", "LoadAddress", "AddSp", "PushPop", "LdmStm", "BranchConditional",
                   "Swi", "Branch", "BranchLongWithLink"}
    BY DEF ThumbForm
  <1>2. CASE i.fmt = "MoveShiftedReg"
    BY <1>2, MoveShiftedRegSound, ReadyWorks, RanFollows DEF step_thumb_exec
  <1>3. CASE i.fmt = "AddSub"
    BY <1>3, AddSubSound, ReadyWorks, RanFollows DEF step_thumb_exec
  <1>4. CASE i.fmt = "DataProcessImm"
    BY <1>4, DataProcessImmSound, ReadyWorks, RanFollows DEF step_thumb_exec
  <1>5. CASE i.fmt = "AluOps"
    BY <1>5, AluOpsSound, ReadyWorks, RanFollows DEF step_thumb_exec
  <1>6. CASE i.fmt = "HiRegOpOrBranchExchange"
    BY <1>6, HiRegSound, ReadyWorks, RanFollows DEF step_thumb_exec
  <1>7. CASE i.fmt = "LdrPc"
    BY <1>7, LdrPcSound, ReadyWorks, RanFollows DEF step_thumb_exec
  <1>8. CASE i.fmt \in {"LdrStrRegOffset", "LdrStrImmOffset", "LdrStrSp"}
    BY <1>8, ThumbSingleSound, ReadyWorks, RanFollows DEF step_thumb_exec
  <1>9. CASE i.fmt = "LdrStrSHB"
    BY <1>9, LdrStrSHBSound, ReadyWorks, RanFollows DEF step_thumb_exec
  <1>10. CASE i.fmt = "LdrStrHalfWord"
    BY <1>10, LdrStrHalfWordSound, ReadyWorks, RanFollows DEF step_thumb_exec
  <1>11. CASE i.fmt \in {"LoadAddress", "AddSp"}
    BY <1>11, LoadAddressSound, ReadyWorks, RanFollows DEF step_thumb_exec
  <1>12. CASE i.fmt = "PushPop"
    BY <1>12, PushPopSound, ReadyWorks, RanFollows DEF step_thumb_exec
  <1>13. CASE i.fmt = "LdmStm"
    BY <1>13, LdmStmSound, ReadyWorks, RanFollows DEF step_thumb_exec
  <1>14. CASE i.fmt \in {"BranchConditional", "Branch", "BranchLongWithLink"}
    BY <1>14, BranchesSound, ReadyWorks, RanFollows DEF step_thumb_exec
  <1>15. CASE i.fmt = "Swi"
    BY <1>15, BranchesSound DEF step_thumb_exec, Follows, IsSwi
  <1>16. QED
    BY <1>1, <1>2, <1>3, <1>4, <1>5, <1>6, <1>7, <1>8, <1>9, <1>10, <1>11, <1>12, <1>13, <1>14, <1>15

\* An instruction of the processor's state that is Written does what is promised.
LEMMA StepSound ==
  ASSUME Sound(cpu), NEW i, Written(i),
         IF cpu.cpsr.thumb THEN ThumbForm(i) ELSE ArmForm(i)
  PROVE  Follows(cpu, i, step(cpu, i))
  <1> DEFINE t == Fetch(cpu)
  <1>1. /\ Fetched(t) /\ t.cpsr = cpu.cpsr /\ t.spsr = cpu.spsr
        /\ t.pc = cpu.pc /\ t.gpr = cpu.gpr
        /\ Working(t) /\ AllSame(cpu, t) /\ Bank(t) = Bank(cpu)
    BY FetchGives, SoundWorks, StillSame DEF Fetched
  <1>2. step(cpu, i) = CASE ~cpu.cpsr.thumb /\ ~check_arm_cond(i.cond, cpu.cpsr) -> advance_arm(t)
                         [] ~cpu.cpsr.thumb /\ check_arm_cond(i.cond, cpu.cpsr) -> step_arm_exec(t, i)
                         [] OTHER -> step_thumb_exec(t, i)
    BY DEF step
  <1> HIDE DEF t
  <1>3. ASSUME NEW x, Follows(t, i, x) PROVE Follows(cpu, i, x)
    BY <1>1, <1>3 DEF Follows, Touched, Enters, OwnBut, AllSame
  <1>4. CASE cpu.cpsr.thumb
    <2>1. ThumbReady(t) /\ ThumbForm(i)
      BY <1>1, <1>4 DEF ThumbReady
    <2>2. step(cpu, i) = step_thumb_exec(t, i)
      BY <1>2, <1>4
    <2>3. QED
      BY <2>1, <2>2, <1>3, ThumbExecSound
  <1>5. CASE ~cpu.cpsr.thumb
    <2>1. ArmReady(t) /\ ArmForm(i)
      BY <1>1, <1>5 DEF ArmReady
    <2>2. Follows(t, i, advance_arm(t))
      BY <1>1, <1>5, <2>1, ReadyWorks, Advanced, RanFollows
    <2>3. i.fmt = "MoveToStatus" => KeepsState(t, i)
      <3>1. StatusOperand(t, i) = StatusOperand(cpu, i)
        BY <1>1 DEF StatusOperand, get_reg
      <3>2. QED
        BY <1>1, <3>1 DEF KeepsState, Written
    <2>4. i.fmt = "BlockDataTransfer" => RestoresArm(t, i)
      BY <1>1 DEF RestoresArm, Written
    <2>5. Follows(t, i, step_arm_exec(t, i))
      BY <2>1, <2>3, <2>4, ArmExecSound
    <2>6. step(cpu, i) \in {advance_arm(t), step_arm_exec(t, i)}
      BY <1>2, <1>5
    <2>7. QED
      BY <2>2, <2>5, <2>6, <1>3
  <1>6. QED
    BY <1>4, <1>5

-----------------------------------------------------------------------------
\* The program.

Code == CodeOf(IrqHandler) \cup CodeOf(SwiHandler)
Routine == Seq(Code) \ {<<>>}
CpuInv == Sound(cpu) /\ handlers \in Seq(Routine)

LEMMA Routines ==
  /\ IrqHandler \in Routine /\ SwiHandler \in Routine
  /\ \A i \in Code : ArmForm(i)
  <1>1. IsHandler(IrqHandler) /\ IsHandler(SwiHandler)
    BY ProgramAssumption
  <1>2. \A i \in Code : ArmForm(i)
    BY <1>1 DEF IsHandler, Code
  <1>3. ASSUME NEW h, h \in Seq(CodeOf(h)), CodeOf(h) \subseteq Code PROVE h \in Seq(Code)
    <2> DEFINE C == CodeOf(h)
    <2>1. h \in Seq(C) /\ C \subseteq Code
      BY <1>3
    <2> HIDE DEF C
    <2>2. QED
      BY <2>1
  <1>4. QED
    BY <1>1, <1>2, <1>3 DEF IsHandler, Routine, Code

\* The action property, of an instruction and of an exception.
LEMMA FollowsOwn ==
  ASSUME NEW i, last' = i, Follows(cpu, i, cpu')
  PROVE  OwnBanks
  <1>1. CASE IsSwi(i)
    BY <1>1 DEF Follows, Enters, OwnBanks, Entered, Bank
  <1>2. CASE ~IsSwi(i)
    BY <1>2 DEF Follows, Touched, OwnBut, OwnBanks, Bank, BankIndices
  <1>3. QED
    BY <1>1, <1>2

LEMMA EntersOwn ==
  ASSUME last'.fmt = "irq", Enters(cpu, cpu')
  PROVE  OwnBanks
  BY DEF Enters, OwnBanks, Entered, Bank

LEMMA RunKeeps ==
  ASSUME CpuInv, NEW i, Run(i), IF cpu.cpsr.thumb THEN ThumbForm(i) ELSE ArmForm(i)
  PROVE  CpuInv' /\ OwnBanks
  <1>1. Sound(cpu') /\ OwnBanks
    <2>1. Follows(cpu, i, cpu') /\ last' = i
      BY StepSound DEF CpuInv, Run
    <2>2. QED
      BY <2>1, FollowsOwn DEF Follows
  <1>2. handlers' \in Seq(Routine)
    <2>1. <<SwiHandler>> \in Seq(Routine)
      BY Routines
    <2>2. QED
      BY <2>1 DEF CpuInv, Run
  <1>3. QED
    BY <1>1, <1>2 DEF CpuInv

LEMMA HandleKeeps ==
  ASSUME CpuInv, Handle
  PROVE  CpuInv' /\ OwnBanks
  <1> DEFINE h == Head(handlers)
             left == Tail(h)
  <1>1. h \in Routine /\ Tail(handlers) \in Seq(Routine)
    BY DEF CpuInv, Handle
  <1>2. handlers' = IF left = <<>> THEN Tail(handlers) ELSE <<left>> \o Tail(handlers)
    BY DEF Handle
  <1>3. cpu' = step(cpu, Head(h)) /\ last' = Head(h) /\ ~cpu.cpsr.thumb /\ Written(Head(h))
    BY DEF Handle
  <1> HIDE DEF h
  <1>4. Head(h) \in Code /\ left \in Seq(Code)
    BY <1>1 DEF Routine
  <1>5. Sound(cpu') /\ OwnBanks
    <2>1. ArmForm(Head(h))
      BY <1>4, Routines
    <2>2. Follows(cpu, Head(h), cpu')
      BY <1>3, <2>1, StepSound DEF CpuInv
    <2>3. QED
      BY <1>3, <2>2, FollowsOwn DEF Follows
  <1> HIDE DEF left
  <1>6. handlers' \in Seq(Routine)
    <2>1. CASE left = <<>>
      BY <1>1, <1>2, <2>1
    <2>2. CASE left # <<>>
      <3>1. left \in Routine
        BY <1>4, <2>2 DEF Routine
      <3>2. <<left>> \in Seq(Routine)
        BY <3>1
      <3>3. <<left>> \o Tail(handlers) \in Seq(Routine)
        BY <1>1, <3>2
      <3>4. QED
        BY <1>2, <2>2, <3>3
    <2>3. QED
      BY <2>1, <2>2
  <1>7. QED
    BY <1>5, <1>6 DEF CpuInv

LEMMA InterruptKeeps ==
  ASSUME CpuInv, Interrupt
  PROVE  CpuInv' /\ OwnBanks
  <1>1. Sound(cpu') /\ OwnBanks
    <2>1. Working(cpu)
      BY SoundWorks DEF CpuInv
    <2>2. cpu' = exception(cpu, "Irq", Wrap(get_next_pc(cpu) + 4))
      BY DEF Interrupt, irq
    <2>3. Wrap(get_next_pc(cpu) + 4) \in Word
      <3>1. cpu.pc - 2 * word_size(cpu) \in Int
        BY <2>1, Sizes
      <3>2. get_next_pc(cpu) \in Word
        BY <3>1, Wraps DEF get_next_pc
      <3>3. get_next_pc(cpu) + 4 \in Int
        BY <3>2, WordNumbers
      <3>4. QED
        BY <3>3, Wraps
    <2>4. Sound(cpu') /\ Enters(cpu, cpu')
      BY <2>1, <2>2, <2>3, Excepted
    <2>5. last'.fmt = "irq"
      BY DEF Interrupt
    <2>6. QED
      BY <2>4, <2>5, EntersOwn
  <1>2. handlers' \in Seq(Routine)
    <2>1. <<IrqHandler>> \in Seq(Routine) /\ handlers \in Seq(Routine)
      BY Routines DEF CpuInv
    <2>2. handlers' = <<IrqHandler>> \o handlers
      BY DEF Interrupt
    <2>3. QED
      BY <2>1, <2>2
  <1>3. QED
    BY <1>1, <1>2 DEF CpuInv

LEMMA CpuStarts ==
  ASSUME PInit
  PROVE  CpuInv
  BY ProgramAssumption DEF PInit, CpuInv, Sound

LEMMA CpuSteps ==
  ASSUME CpuInv, [PNext]_pvars
  PROVE  CpuInv' /\ [OwnBanks]_pvars
  <1>1. CASE RunArm
    <2>1. PICK i \in ArmInstructions : Run(i)
      BY <1>1 DEF RunArm
    <2>2. ArmForm(i) /\ ~cpu.cpsr.thumb
      BY <1>1, ProgramAssumption DEF RunArm
    <2>3. QED
      BY <2>1, <2>2, RunKeeps
  <1>2. CASE RunThumb
    <2>1. PICK i \in ThumbInstructions : Run(i)
      BY <1>2 DEF RunThumb
    <2>2. ThumbForm(i) /\ cpu.cpsr.thumb
      BY <1>2, ProgramAssumption DEF RunThumb
    <2>3. QED
      BY <2>1, <2>2, RunKeeps
  <1>3. CASE Handle
    BY <1>3, HandleKeeps
  <1>4. CASE Interrupt
    BY <1>4, InterruptKeeps
  <1>5. CASE UNCHANGED pvars
    BY <1>5 DEF CpuInv, Sound, pvars
  <1>6. QED
    BY <1>1, <1>2, <1>3, <1>4, <1>5 DEF PNext

\* Registers, banks, saved statuses and memory hold words and statuses, in whatever order
\* programs, interrupts and handlers run (Arm7tdmiCore in cpu.rs).
THEOREM CpuTypeCorrect == PSpec => [](cpu \in Processor /\ cpu.cpsr.mode \in CpuMode)
  <1>1. PInit => CpuInv
    BY CpuStarts
  <1>2. CpuInv /\ [PNext]_pvars => CpuInv'
    BY CpuSteps
  <1>3. CpuInv => cpu \in Processor /\ cpu.cpsr.mode \in CpuMode
    BY DEF CpuInv, Sound, InStep
  <1>4. QED
    BY <1>1, <1>2, <1>3, PTL DEF PSpec

\* Whatever programs, interrupts and handlers run, the opcode that runs next was fetched from
\* get_next_pc() at the width of the current state (cpu.rs get_next_pc, exception.rs irq).
THEOREM CpuNextPcIsNext == PSpec => []NextPcIsNext
  <1>1. PInit => CpuInv
    BY CpuStarts
  <1>2. CpuInv /\ [PNext]_pvars => CpuInv'
    BY CpuSteps
  <1>3. CpuInv => NextPcIsNext
    BY DEF CpuInv, Sound, InStep, NextPcIsNext
  <1>4. QED
    BY <1>1, <1>2, <1>3, PTL DEF PSpec

\* A bank's registers and status change only by an instruction of its mode, an exception that
\* enters it or a transfer of the user's registers, in whatever order modes are visited
\* (cpu.rs change_mode, exception.rs, the forms of exec.rs that ask for the user's registers).
THEOREM CpuBanksAreOwn == PSpec => BanksAreOwn
  <1>1. PInit => CpuInv
    BY CpuStarts
  <1>2. CpuInv /\ [PNext]_pvars => CpuInv' /\ [OwnBanks]_pvars
    BY CpuSteps
  <1>3. QED
    BY <1>1, <1>2, PTL DEF PSpec, BanksAreOwn

-----------------------------------------------------------------------------
\* Sums and differences.

LEMMA Halves ==
  LET H == Modulus \div 2
  IN  /\ H \in Nat \ {0} /\ Modulus = 2 * H /\ Word = 0..(2 * H - 1)
      /\ \A x \in Word : /\ Sign(x) \in BOOLEAN /\ (Sign(x) <=> H <= x)
                         /\ Signed(x) = IF H <= x THEN x - 2 * H ELSE x
  <1> DEFINE P == 2^(WordBits - 1)
             H == Modulus \div 2
  <1>1. Modulus \in Nat /\ Modulus >= 4096 /\ 2 * P = Modulus /\ P \in Int
    <2>1. WordBits - 1 \in 0..WordBits
      BY WordAssumption
    <2>2. QED
      BY <2>1, Powers
  <1>2. \A x : Sign(x) \in BOOLEAN /\ (Sign(x) <=> (x \div P) % 2 = 1)
    BY DEF Sign, Bit
  <1> HIDE DEF P
  <1>3. H = P /\ H \in Nat \ {0} /\ Modulus = 2 * H
    BY <1>1
  <1>4. ASSUME NEW x \in Word PROVE Sign(x) <=> H <= x
    <2>1. x \in Int /\ 0 <= x /\ x < 2 * P /\ P \in Nat \ {0}
      BY <1>1, <1>3 DEF Word
    <2>2. CASE x < P
      <3>1. (P * 0 + x) \div P = 0 /\ P * 0 + x = x
        BY <2>1, <2>2, OneRemainder
      <3>2. x \div P = 0
        BY <3>1
      <3>3. ~Sign(x)
        <4>1. (x \div P) % 2 = 0
          BY ONLY <3>2
        <4>2. QED
          BY ONLY <1>2, <4>1
      <3>4. QED
        BY <1>3, <2>1, <2>2, <3>3
    <2>3. CASE P <= x
      <3>1. x - P \in 0..(P - 1) /\ 1 \in Int
        BY <2>1, <2>3
      <3>2. (P * 1 + (x - P)) \div P = 1 /\ P * 1 + (x - P) = x
        BY <2>1, <3>1, OneRemainder
      <3>3. x \div P = 1
        BY <3>2
      <3>4. Sign(x)
        <4>1. (x \div P) % 2 = 1
          BY ONLY <3>3
        <4>2. QED
          BY ONLY <1>2, <4>1
      <3>5. QED
        BY <1>3, <2>3, <3>4
    <2>4. QED
      BY <2>1, <2>2, <2>3
  <1> HIDE DEF H
  <1>5. Word = 0..(2 * H - 1)
    BY <1>3 DEF Word
  <1>6. \A x \in Word : Sign(x) \in BOOLEAN
    BY <1>2
  <1>7. \A x \in Word : Signed(x) = IF H <= x THEN x - 2 * H ELSE x
    BY <1>3, <1>4 DEF Signed
  <1>8. QED
    BY <1>3, <1>4, <1>5, <1>6, <1>7 DEF H

\* n is what the operands give as integers, signed what they give as signed numbers.
Agrees(r, n, signed, sum) ==
  /\ r.val = Wrap(n)
  /\ r.c = (IF sum THEN n >= Modulus ELSE n >= 0)
  /\ r.v = (signed \notin (-(Modulus \div 2))..(Modulus \div 2 - 1))

LEMMA Differs ==
  ASSUME NEW a \in Word, NEW b \in Word
  PROVE  Agrees(alu_sub_flags(a, b), a - b, Signed(a) - Signed(b), FALSE)
  <1> DEFINE H == Modulus \div 2
             r == alu_sub_flags(a, b)
  <1>1. /\ H \in Nat \ {0} /\ Modulus = 2 * H /\ a \in 0..(2 * H - 1) /\ b \in 0..(2 * H - 1)
        /\ \A x \in Word : Signed(x) = IF H <= x THEN x - 2 * H ELSE x
    BY Halves
  <1> HIDE DEF H
  <1>2. a - b \in Int /\ -Modulus <= a - b /\ a - b < Modulus
    BY <1>1
  <1>3. Wrap(a - b) = IF a - b < 0 THEN a - b + Modulus ELSE a - b
    BY <1>1, <1>2, Wraps DEF Word
  <1>4. Wrap(a - b) \in Word
    BY <1>2, Wraps
  <1>5. Signed(a) - Signed(b) # Signed(Wrap(a - b)) <=> Signed(a) - Signed(b) \notin (-H)..(H - 1)
    <2> DEFINE x == Wrap(a - b)
    <2>1. x = (IF a - b < 0 THEN a - b + 2 * H ELSE a - b) /\ x \in 0..(2 * H - 1)
      BY <1>1, <1>3, <1>4 DEF Word
    <2>2. /\ Signed(a) = IF H <= a THEN a - 2 * H ELSE a
          /\ Signed(b) = IF H <= b THEN b - 2 * H ELSE b
          /\ Signed(x) = IF H <= x THEN x - 2 * H ELSE x
      BY <1>1, <1>4
    <2> HIDE DEF x
    <2> DEFINE sa == Signed(a)
               sb == Signed(b)
               sx == Signed(x)
    <2> HIDE DEF sa, sb, sx
    <2>3. /\ sa = IF H <= a THEN a - 2 * H ELSE a
          /\ sb = IF H <= b THEN b - 2 * H ELSE b
          /\ sx = IF H <= x THEN x - 2 * H ELSE x
      BY <2>2 DEF sa, sb, sx
    <2>4. sa - sb # sx <=> sa - sb \notin (-H)..(H - 1)
      BY <1>1, <2>1, <2>3
    <2>5. QED
      BY <2>4 DEF sa, sb, sx, x
  <1>6. /\ r.val = Wrap(a - b)
        /\ r.c = (b <= a)
        /\ r.v = (Signed(a) - Signed(b) # Signed(Wrap(a - b)))
    BY DEF alu_sub_flags, Result
  <1>7. (b <= a) <=> (a - b >= 0)
    BY <1>1
  <1>8. QED
    BY <1>5, <1>6, <1>7 DEF Agrees, H

LEMMA Adds ==
  ASSUME NEW a \in Word, NEW b \in Word
  PROVE  Agrees(alu_add_flags(a, b), a + b, Signed(a) + Signed(b), TRUE)
  <1> DEFINE H == Modulus \div 2
             r == alu_add_flags(a, b)
  <1>1. /\ H \in Nat \ {0} /\ Modulus = 2 * H /\ a \in 0..(2 * H - 1) /\ b \in 0..(2 * H - 1)
        /\ \A x \in Word : Signed(x) = IF H <= x THEN x - 2 * H ELSE x
    BY Halves
  <1> HIDE DEF H
  <1>2. a + b \in Int /\ 0 <= a + b /\ a + b < 2 * Modulus
    BY <1>1
  <1>3. Wrap(a + b) = IF a + b >= Modulus THEN a + b - Modulus ELSE a + b
    BY <1>1, <1>2, Wraps DEF Word
  <1>4. Wrap(a + b) \in Word
    BY <1>2, Wraps
  <1>5. Signed(a) + Signed(b) # Signed(Wrap(a + b)) <=> Signed(a) + Signed(b) \notin (-H)..(H - 1)
    <2> DEFINE x == Wrap(a + b)
               sa == Signed(a)
               sb == Signed(b)
               sx == Signed(x)
    <2>1. x = (IF a + b >= 2 * H THEN a + b - 2 * H ELSE a + b) /\ x \in 0..(2 * H - 1)
      BY <1>1, <1>3, <1>4 DEF Word
    <2>2. /\ sa = IF H <= a THEN a - 2 * H ELSE a
          /\ sb = IF H <= b THEN b - 2 * H ELSE b
          /\ sx = IF H <= x THEN x - 2 * H ELSE x
      BY <1>1, <1>4
    <2> HIDE DEF x, sa, sb, sx
    <2>3. sa + sb # sx <=> sa + sb \notin (-H)..(H - 1)
      BY <1>1, <2>1, <2>2
    <2>4. QED
      BY <2>3 DEF sa, sb, sx, x
  <1>6. /\ r.val = Wrap(a + b)
        /\ r.c = (a + b >= Modulus)
        /\ r.v = (Signed(a) + Signed(b) # Signed(Wrap(a + b)))
    BY DEF alu_add_flags, Result
  <1>7. QED
    BY <1>5, <1>6 DEF Agrees, H

LEMMA AddsCarry ==
  ASSUME NEW a \in Word, NEW b \in Word, NEW c \in BOOLEAN
  PROVE  Agrees(alu_adc_flags(a, b, c), a + b + Num(c), Signed(a) + Signed(b) + Num(c), TRUE)
  <1> DEFINE H == Modulus \div 2
             k == Num(c)
             r == alu_adc_flags(a, b, c)
             n == a + b + k
             x == Wrap(n)
  <1>1. /\ H \in Nat \ {0} /\ Modulus = 2 * H /\ a \in 0..(2 * H - 1) /\ b \in 0..(2 * H - 1)
        /\ \A y \in Word : /\ Signed(y) = IF H <= y THEN y - 2 * H ELSE y
                           /\ Sign(y) \in BOOLEAN /\ (Sign(y) <=> H <= y)
    BY Halves
  <1>2. k \in {0, 1}
    BY Numbers
  <1>3. /\ r.val = x
        /\ r.c = (n >= Modulus)
        /\ r.v = (Sign(a) = Sign(b) /\ Sign(b) # Sign(x))
    BY DEF alu_adc_flags, Result
  <1> HIDE DEF H, k
  <1>4. n \in Int /\ 0 <= n /\ n < 2 * Modulus
    BY <1>1, <1>2
  <1>5. x = (IF n >= Modulus THEN n - Modulus ELSE n) /\ x \in Word
    BY <1>1, <1>4, Wraps DEF Word
  <1> HIDE DEF x
  <1>6. (Sign(a) = Sign(b) /\ Sign(b) # Sign(x)) <=> Signed(a) + Signed(b) + k \notin (-H)..(H - 1)
    <2> DEFINE sa == Signed(a)
               sb == Signed(b)
    <2>1. /\ Sign(a) <=> H <= a
          /\ Sign(b) <=> H <= b
          /\ Sign(x) <=> H <= x
          /\ Sign(a) \in BOOLEAN /\ Sign(b) \in BOOLEAN /\ Sign(x) \in BOOLEAN
          /\ sa = IF H <= a THEN a - 2 * H ELSE a
          /\ sb = IF H <= b THEN b - 2 * H ELSE b
      BY <1>1, <1>5
    <2> HIDE DEF sa, sb
    <2>2. ((H <= a <=> H <= b) /\ ~(H <= b <=> H <= x)) <=> sa + sb + k \notin (-H)..(H - 1)
      BY <1>1, <1>2, <1>4, <1>5, <2>1
    <2>3. (Sign(a) = Sign(b) /\ Sign(b) # Sign(x)) <=> ((H <= a <=> H <= b) /\ ~(H <= b <=> H <= x))
      BY <2>1
    <2>4. QED
      BY <2>2, <2>3 DEF sa, sb
  <1>7. r.v = (Signed(a) + Signed(b) + k \notin (-H)..(H - 1))
    BY <1>3, <1>6
  <1> HIDE DEF r
  <1>8. Agrees(r, n, Signed(a) + Signed(b) + k, TRUE)
    BY <1>3, <1>7 DEF Agrees, H, x
  <1>9. QED
    BY <1>8 DEF r, k

\* A subtraction with borrow is the addition of the complement.
LEMMA DiffersCarry ==
  ASSUME NEW a \in Word, NEW b \in Word, NEW c \in BOOLEAN
  PROVE  Agrees(alu_sbc_flags(a, b, c), a - b - (1 - Num(c)), Signed(a) - Signed(b) - (1 - Num(c)), FALSE)
  <1> DEFINE H == Modulus \div 2
             k == Num(c)
             d == Complement(b)
             r == alu_sbc_flags(a, b, c)
             m == a + d + k
             n == a - b - (1 - k)
  <1>1. /\ H \in Nat \ {0} /\ Modulus = 2 * H /\ a \in 0..(2 * H - 1) /\ b \in 0..(2 * H - 1)
        /\ \A y \in Word : Signed(y) = IF H <= y THEN y - 2 * H ELSE y
    BY Halves
  <1>2. k \in {0, 1}
    BY Numbers
  <1>3. d = 2 * H - 1 - b /\ d \in Word
    BY <1>1, WordNumbers DEF Complement
  <1>4. r = alu_adc_flags(a, d, c)
    BY DEF alu_sbc_flags
  <1>5. Agrees(r, m, Signed(a) + Signed(d) + k, TRUE)
    BY <1>3, <1>4, AddsCarry
  <1> HIDE DEF H, k, d, r
  <1>6. m \in Int /\ n \in Int /\ m = n + Modulus /\ -Modulus <= n /\ n < Modulus
    BY <1>1, <1>2, <1>3
  <1> HIDE DEF m, n
  <1>7. Wrap(m) = Wrap(n)
    <2>1. CASE n < 0
      <3>1. m \in Word
        BY <1>1, <1>6, <2>1 DEF Word
      <3>2. QED
        BY <1>6, <2>1, <3>1, Wraps
    <2>2. CASE n >= 0
      <3>1. n \in Word /\ Modulus <= m /\ m < 2 * Modulus /\ m - Modulus = n
        BY <1>1, <1>6, <2>2 DEF Word
      <3>2. Wrap(m) = m - Modulus /\ Wrap(n) = n
        BY <1>6, <3>1, Wraps
      <3>3. QED
        BY <3>1, <3>2
    <2>3. QED
      BY <1>6, <2>1, <2>2
  <1>8. (m >= Modulus) <=> (n >= 0)
    BY <1>1, <1>6
  <1>9. Signed(a) + Signed(d) + k = Signed(a) - Signed(b) - (1 - k)
    <2>1. /\ Signed(a) \in Int
          /\ Signed(b) = IF H <= b THEN b - 2 * H ELSE b
          /\ Signed(d) = IF H <= d THEN d - 2 * H ELSE d
      BY <1>1, <1>3, WordNumbers
    <2> DEFINE sa == Signed(a)
               sb == Signed(b)
               sd == Signed(d)
    <2> HIDE DEF sa, sb, sd
    <2>2. sa + sd + k = sa - sb - (1 - k)
      BY <1>1, <1>2, <1>3, <2>1 DEF sa, sb, sd
    <2>3. QED
      BY <2>2 DEF sa, sb, sd
  <1>10. Agrees(r, n, Signed(a) - Signed(b) - (1 - k), FALSE)
    BY <1>5, <1>7, <1>8, <1>9 DEF Agrees
  <1>11. QED
    BY <1>10 DEF r, n, k

LEMMA ExactFlags ==
  ASSUME NEW op \in Sums \cup Differences, NEW a \in Word, NEW b \in Word, NEW carry, NEW f, f.c \in BOOLEAN
  PROVE  Agrees(AluWithFlags(op, a, b, carry, f), Exact(op, a, b, Num(f.c)),
                Exact(op, Signed(a), Signed(b), Num(f.c)), op \in Sums)
  <1> DEFINE r == AluWithFlags(op, a, b, carry, f)
             k == Num(f.c)
             n == Exact(op, a, b, k)
             signed == Exact(op, Signed(a), Signed(b), k)
  <1>1. CASE op \in {"ADD", "CMN"}
    <2>1. r = alu_add_flags(a, b) /\ n = a + b /\ signed = Signed(a) + Signed(b)
      BY <1>1 DEF AluWithFlags, Exact
    <2>2. op \in Sums
      BY <1>1 DEF Sums
    <2>3. QED
      BY <2>1, <2>2, Adds
  <1>2. CASE op = "ADC"
    <2>1. r = alu_adc_flags(a, b, f.c) /\ n = a + b + k /\ signed = Signed(a) + Signed(b) + k
      BY <1>2 DEF AluWithFlags, Exact
    <2>2. op \in Sums
      BY <1>2 DEF Sums
    <2>3. QED
      BY <2>1, <2>2, AddsCarry
  <1>3. CASE op \in {"SUB", "CMP"}
    <2>1. r = alu_sub_flags(a, b) /\ n = a - b /\ signed = Signed(a) - Signed(b)
      BY <1>3 DEF AluWithFlags, Exact
    <2>2. op \notin Sums
      BY <1>3 DEF Sums
    <2>3. QED
      BY <2>1, <2>2, Differs DEF Agrees
  <1>4. CASE op = "SBC"
    <2>1. r = alu_sbc_flags(a, b, f.c) /\ n = a - b - (1 - k) /\ signed = Signed(a) - Signed(b) - (1 - k)
      BY <1>4 DEF AluWithFlags, Exact
    <2>2. op \notin Sums
      BY <1>4 DEF Sums
    <2>3. QED
      BY <2>1, <2>2, DiffersCarry DEF Agrees
  <1>5. CASE op = "RSB"
    <2>1. r = alu_sub_flags(b, a) /\ n = b - a /\ signed = Signed(b) - Signed(a)
      BY <1>5 DEF AluWithFlags, Exact
    <2>2. op \notin Sums
      BY <1>5 DEF Sums
    <2>3. QED
      BY <2>1, <2>2, Differs DEF Agrees
  <1>6. CASE op = "RSC"
    <2>1. r = alu_sbc_flags(b, a, f.c) /\ n = b - a - (1 - k) /\ signed = Signed(b) - Signed(a) - (1 - k)
      BY <1>6 DEF AluWithFlags, Exact
    <2>2. op \notin Sums
      BY <1>6 DEF Sums
    <2>3. QED
      BY <2>1, <2>2, DiffersCarry DEF Agrees
  <1>7. QED
    BY <1>1, <1>2, <1>3, <1>4, <1>5, <1>6 DEF Sums, Differences

\* After a - b the conditions order a and b, as unsigned and as signed numbers.
LEMMA Orders ==
  ASSUME NEW a \in Word, NEW b \in Word, NEW f,
         f.n = Sign(Wrap(a - b)), f.z = (Wrap(a - b) = 0), f.c = (a - b >= 0),
         f.v = (Signed(a) - Signed(b) \notin (-(Modulus \div 2))..(Modulus \div 2 - 1))
  PROVE  /\ check_arm_cond("HS", f) = (a >= b) /\ check_arm_cond("HI", f) = (a > b)
         /\ check_arm_cond("GE", f) = (Signed(a) >= Signed(b))
         /\ check_arm_cond("GT", f) = (Signed(a) > Signed(b))
         /\ check_arm_cond("LS", f) = (a <= b)
         /\ check_arm_cond("LE", f) = (Signed(a) <= Signed(b))
  <1> DEFINE H == Modulus \div 2
             x == Wrap(a - b)
             sa == Signed(a)
             sb == Signed(b)
  <1>1. /\ H \in Nat \ {0} /\ Modulus = 2 * H /\ a \in 0..(2 * H - 1) /\ b \in 0..(2 * H - 1)
        /\ \A y \in Word : /\ Signed(y) = IF H <= y THEN y - 2 * H ELSE y
                           /\ Sign(y) \in BOOLEAN /\ (Sign(y) <=> H <= y)
    BY Halves
  <1> HIDE DEF H
  <1>2. a - b \in Int /\ -Modulus <= a - b /\ a - b < Modulus
    BY <1>1
  <1>3. x = (IF a - b < 0 THEN a - b + 2 * H ELSE a - b) /\ x \in Word /\ x \in Int
    BY <1>1, <1>2, Wraps, WordNumbers DEF Word
  <1>4. /\ sa = IF H <= a THEN a - 2 * H ELSE a
        /\ sb = IF H <= b THEN b - 2 * H ELSE b
    BY <1>1
  <1>5. /\ f.n \in BOOLEAN /\ f.z \in BOOLEAN /\ f.c \in BOOLEAN /\ f.v \in BOOLEAN
        /\ f.n <=> H <= x
        /\ f.z <=> x = 0
        /\ f.c <=> a - b >= 0
        /\ f.v <=> sa - sb \notin (-H)..(H - 1)
    <2>1. f.n \in BOOLEAN /\ (f.n <=> H <= x)
      BY <1>1, <1>3
    <2>2. f.z \in BOOLEAN /\ (f.z <=> x = 0)
      OBVIOUS
    <2>3. f.c \in BOOLEAN /\ (f.c <=> a - b >= 0)
      <3> DEFINE P == a - b >= 0
      <3>1. f.c = P
        OBVIOUS
      <3>2. P \in BOOLEAN
        OBVIOUS
      <3> HIDE DEF P
      <3>3. f.c \in BOOLEAN /\ (f.c <=> P)
        BY <3>1, <3>2
      <3>4. QED
        BY <3>3 DEF P
    <2>4. f.v \in BOOLEAN /\ (f.v <=> sa - sb \notin (-H)..(H - 1))
      BY DEF H
    <2>5. QED
      BY <2>1, <2>2, <2>3, <2>4
  <1> HIDE DEF x, sa, sb
  <1>6. /\ f.c <=> a >= b
        /\ f.z <=> a = b
        /\ a = b <=> sa = sb
    BY <1>1, <1>3, <1>4, <1>5
  <1>7. (f.n <=> f.v) <=> sa >= sb
    <2>1. (H <= x <=> sa - sb \notin (-H)..(H - 1)) <=> sa >= sb
      BY <1>1, <1>3, <1>4
    <2>2. QED
      BY <2>1, <1>5
  <1>8. /\ check_arm_cond("HS", f) = f.c /\ check_arm_cond("HI", f) = (f.c /\ ~f.z)
        /\ check_arm_cond("LS", f) = (~f.c \/ f.z)
        /\ check_arm_cond("GE", f) = (f.n = f.v) /\ check_arm_cond("GT", f) = (~f.z /\ f.n = f.v)
        /\ check_arm_cond("LE", f) = (f.z \/ f.n # f.v)
    BY DEF check_arm_cond
  <1>9. sa \in Int /\ sb \in Int /\ a \in Int /\ b \in Int
    BY <1>1, <1>4
  <1>10. /\ check_arm_cond("HS", f) <=> a >= b
         /\ check_arm_cond("HI", f) <=> a > b
         /\ check_arm_cond("LS", f) <=> a <= b
    <2>1. (a >= b /\ ~(a = b) <=> a > b) /\ (~(a >= b) \/ a = b <=> a <= b)
      BY <1>9
    <2>2. QED
      BY <1>6, <1>8, <2>1
  <1>11. /\ check_arm_cond("GE", f) <=> sa >= sb
         /\ check_arm_cond("GT", f) <=> sa > sb
         /\ check_arm_cond("LE", f) <=> sa <= sb
    <2>1. (sa >= sb /\ ~(sa = sb) <=> sa > sb) /\ (~(sa >= sb) \/ sa = sb <=> sa <= sb)
      BY <1>9
    <2>2. (f.n = f.v) <=> sa >= sb
      BY <1>5, <1>7
    <2>3. f.z <=> sa = sb
      BY <1>6
    <2>4. QED
      BY <1>8, <2>1, <2>2, <2>3
  <1>12. \A cond \in {"HS", "HI", "LS", "GE", "GT", "LE"} : check_arm_cond(cond, f) \in BOOLEAN
    BY <1>5, <1>8
  <1>13. QED
    BY <1>10, <1>11, <1>12 DEF sa, sb

LEMMA ArithmeticComputes ==
  ASSUME Sound(cpu), NEW i, Written(i), IF cpu.cpsr.thumb THEN ThumbForm(i) ELSE ArmForm(i),
         Arithmetic(i), Taken(i)
  PROVE  Computes(cpu, i, step(cpu, i))
  <1> DEFINE t == Fetch(cpu)
             a == get_reg(cpu, i.rn)
             shifted == register_shift(cpu, i)
             b == shifted[1]
             k == Num(cpu.cpsr.c)
             r == AluWithFlags(i.op, a, b, shifted[2], cpu.cpsr)
             n == Exact(i.op, a, b, k)
             signed == Exact(i.op, Signed(a), Signed(b), k)
             x == step(cpu, i)
  <1>1. t.cpsr = cpu.cpsr /\ t.pc = cpu.pc /\ t.gpr = cpu.gpr /\ Working(t) /\ Working(cpu)
    BY FetchGives, SoundWorks DEF Fetched
  <1>2. /\ i.fmt = "DataProcessing" /\ i.s /\ i.rd # 15 /\ i.by = "amount"
        /\ i.op \in Sums \cup Differences
    BY DEF Arithmetic
  <1>3. ~cpu.cpsr.thumb /\ check_arm_cond(i.cond, cpu.cpsr)
    BY <1>2 DEF ThumbForm, Taken
  <1>4. i.rn \in Reg /\ i.rd \in Reg /\ ShiftedRegister(i)
    BY <1>2, <1>3 DEF ArmForm
  <1>5. a \in Word /\ shifted \in Shifted /\ cpu.cpsr.c \in BOOLEAN
    BY <1>1, <1>4, Registers, ShifterWords, Sizes
  <1>6. b \in Word
    BY <1>5 DEF Shifted
  <1>7. Agrees(r, n, signed, i.op \in Sums)
    BY <1>2, <1>5, <1>6, ExactFlags
  <1>8. x = exec_arm_data_processing(t, i)
    BY <1>2, <1>3 DEF step, step_arm_exec
  <1>9. get_reg(t, i.rn) = a /\ register_shift(t, i) = shifted
    BY <1>1 DEF get_reg, register_shift
  <1>10. Wrap(get_reg(t, i.rn) + (IF i.rn = 15 /\ i.by = "register" THEN 4 ELSE 0)) = a
    <2>1. a + 0 = a
      BY <1>5, WordNumbers
    <2>2. QED
      BY <1>2, <1>5, <1>9, <2>1, Wraps
  <1> DEFINE flagged == alu_update_flags(t, r.val, r.c, r.v)
  <1>11. x = IF is_setting_flags(i.op) THEN advance_arm(flagged)
             ELSE advance_arm(set_reg(flagged, i.rd, r.val))
    BY <1>1, <1>2, <1>8, <1>9, <1>10 DEF exec_arm_data_processing
  <1> HIDE DEF r, t, n, signed, a, shifted
  <1>12. /\ flagged.cpsr.n = Sign(r.val) /\ flagged.cpsr.z = (r.val = 0)
         /\ flagged.cpsr.c = r.c /\ flagged.cpsr.v = r.v /\ flagged.gpr = t.gpr
         /\ Working(flagged)
    <2>1. t.cpsr \in RegPSR /\ t \in Processor
      BY <1>1 DEF Working, Processor
    <2>2. t.cpsr = [t.cpsr EXCEPT !.n = t.cpsr.n] /\ t = [t EXCEPT !.cpsr = t.cpsr]
      BY <2>1 DEF RegPSR, Processor
    <2>3. r.c \in BOOLEAN /\ r.v \in BOOLEAN
      <3> DEFINE P == n >= Modulus
                 Q == n >= 0
                 V == signed \notin (-(Modulus \div 2))..(Modulus \div 2 - 1)
      <3>1. r.c = (IF i.op \in Sums THEN P ELSE Q) /\ r.v = V
        BY <1>7 DEF Agrees
      <3>2. P \in BOOLEAN /\ Q \in BOOLEAN /\ V \in BOOLEAN
        OBVIOUS
      <3> HIDE DEF P, Q, V
      <3>3. QED
        BY <3>1, <3>2
    <2>4. Working(flagged)
      BY <1>1, <2>3, AluFlagsKept, KeptWorks DEF Kept, Moved
    <2>5. QED
      BY <2>1, <2>4 DEF alu_update_flags, SetFlags, RegPSR, Processor
  <1> HIDE DEF flagged
  <1>13. x.cpsr = flagged.cpsr /\ (~is_setting_flags(i.op) => x.gpr[i.rd] = r.val)
    <2>1. flagged \in Processor /\ i.rd \in Gprs
      BY <1>2, <1>4, <1>12 DEF Working, Reg
    <2>2. QED
      BY <1>2, <1>11, <2>1 DEF advance_arm, set_reg, Processor
  <1> HIDE DEF x
  <1>14. /\ x.cpsr.n = Sign(Wrap(n)) /\ x.cpsr.z = (Wrap(n) = 0)
         /\ x.cpsr.c = (IF i.op \in Sums THEN n >= Modulus ELSE n >= 0)
         /\ x.cpsr.v = (signed \notin (-(Modulus \div 2))..(Modulus \div 2 - 1))
         /\ ~is_setting_flags(i.op) => x.gpr[i.rd] = Wrap(n)
    BY <1>7, <1>12, <1>13 DEF Agrees
  <1> DEFINE f == x.cpsr
  <1>15. i.op \in {"SUB", "CMP"} =>
           /\ check_arm_cond("HS", f) = (a >= b) /\ check_arm_cond("HI", f) = (a > b)
           /\ check_arm_cond("GE", f) = (Signed(a) >= Signed(b))
           /\ check_arm_cond("GT", f) = (Signed(a) > Signed(b))
           /\ check_arm_cond("LS", f) = (a <= b)
           /\ check_arm_cond("LE", f) = (Signed(a) <= Signed(b))
    <2> HAVE i.op \in {"SUB", "CMP"}
    <2>1. n = a - b /\ signed = Signed(a) - Signed(b) /\ i.op \notin Sums
      BY DEF n, signed, Exact, Sums
    <2>2. QED
      BY <1>5, <1>6, <1>14, <2>1, Orders
  <1>16. QED
    BY <1>14, <1>15 DEF Computes, n, signed, a, shifted, x

LEMMA ArithmeticSteps ==
  ASSUME CpuInv, [PNext]_pvars
  PROVE  [ExactArithmetic]_pvars
  <1>1. ASSUME NEW i, cpu' = step(cpu, i), last' = i, Written(i),
               IF cpu.cpsr.thumb THEN ThumbForm(i) ELSE ArmForm(i)
        PROVE  ExactArithmetic
    BY <1>1, ArithmeticComputes DEF CpuInv, ExactArithmetic
  <1>2. CASE RunArm
    <2>1. PICK i \in ArmInstructions : Run(i)
      BY <1>2 DEF RunArm
    <2>2. ArmForm(i) /\ ~cpu.cpsr.thumb
      BY <1>2, ProgramAssumption DEF RunArm
    <2>3. QED
      BY <1>1, <2>1, <2>2 DEF Run
  <1>3. CASE RunThumb
    <2>1. PICK i \in ThumbInstructions : Run(i)
      BY <1>3 DEF RunThumb
    <2>2. ThumbForm(i) /\ cpu.cpsr.thumb
      BY <1>3, ProgramAssumption DEF RunThumb
    <2>3. QED
      BY <1>1, <2>1, <2>2 DEF Run
  <1>4. CASE Handle
    <2> DEFINE h == Head(handlers)
    <2>1. h \in Routine
      BY <1>4 DEF CpuInv, Handle
    <2>2. cpu' = step(cpu, Head(h)) /\ last' = Head(h) /\ ~cpu.cpsr.thumb /\ Written(Head(h))
      BY <1>4 DEF Handle
    <2> HIDE DEF h
    <2>3. Head(h) \in Code
      BY <2>1 DEF Routine
    <2>4. ArmForm(Head(h))
      BY <2>3, Routines
    <2>5. QED
      BY <1>1, <2>2, <2>4
  <1>5. CASE Interrupt
    <2>1. last'.fmt = "irq"
      BY <1>5 DEF Interrupt
    <2>2. QED
      BY <2>1 DEF ExactArithmetic, Arithmetic
  <1>6. QED
    BY <1>2, <1>3, <1>4, <1>5 DEF PNext

\* A flag-setting addition or subtraction gives the integers' result and flags, and the
\* conditions read after a comparison order its operands (alu.rs, check_arm_cond in cpu.rs).
THEOREM CpuArithmeticIsExact == PSpec => ArithmeticIsExact
  <1>1. PInit => CpuInv
    BY CpuStarts
  <1>2. CpuInv /\ [PNext]_pvars => CpuInv' /\ [ExactArithmetic]_pvars
    BY CpuSteps, ArithmeticSteps
  <1>3. QED
    BY <1>1, <1>2, PTL DEF PSpec, ArithmeticIsExact
=============================================================================
