--------------------------- MODULE CartridgeProofs ----------------------------
(***************************************************************************)
(* What a cartridge promises whatever its sizes, the commands of the game, *)
(* the save states it loads and the moment its process is killed: the file *)
(* is the memory, no command of a well-behaved game panics the emulator,   *)
(* a word read from an EEPROM is the one last written, the bytes of a      *)
(* flash memory are kept, and the clock's register is what a game clocks   *)
(* out of it.                                                              *)
(***************************************************************************)
EXTENDS Cartridge, FiniteSetTheorems, TLAPS

FlashMedia == {"Sram", "Flash512", "Flash1M"}

\* A buffer or a file of n cells.
IsMemory(m, n) == m = [i \in 0..(n - 1) |-> m[i]]

-----------------------------------------------------------------------------
(* The EEPROM and the game that commands it. *)

ChipStates ==
  {RxInstruction, RxAddress("Read"), RxAddress("Write"), StopBit("Read"), StopBit("Write"),
   RxData, TxDummy, TxData}

Chips ==
  [type : EepromType, state : ChipStates, rx_count : Nat, rx_buffer : Nat,
   tx_count : Nat, tx_buffer : Nat, address : Nat, ready : BOOLEAN]

\* The bits of a request, and how many there are.
RequestLength(op) == IF op = "Read" THEN ReadLength(game) ELSE WriteLength(game)

RequestBit(op, a, w, i) ==
  CASE i = 1 -> 1
    [] i = 2 -> IF op = "Read" THEN 1 ELSE 0
    [] i \in 3..(AddrBits[game] + 2) -> (a \div 2 ^ (AddrBits[game] - (i - 2))) % 2
    [] op = "Write" /\ i \in (AddrBits[game] + 3)..(AddrBits[game] + 2 + DataBits) ->
         (w \div 2 ^ (DataBits - (i - AddrBits[game] - 2))) % 2
    [] OTHER -> 0

\* The chip has taken the first k bits of a request, which has bits left.
HasReceived(c, op, a, w, k) ==
  LET n == AddrBits[game] IN
  \/ k \in {0, 1} /\ c.state = RxInstruction /\ c.rx_count = k /\ c.rx_buffer = k
  \/ /\ k \in 2..(n + 1) /\ c.state = RxAddress(op)
     /\ c.rx_count = k - 2 /\ c.rx_buffer = a \div 2 ^ (n - (k - 2))
  \/ op = "Read" /\ k = n + 2 /\ c.state = StopBit("Read") /\ c.address = a
  \/ /\ op = "Write" /\ k \in (n + 2)..(n + 1 + DataBits) /\ c.state = RxData /\ c.address = a
     /\ c.rx_count = k - 2 - n /\ c.rx_buffer = w \div 2 ^ (DataBits - (k - 2 - n))
  \/ op = "Write" /\ k = n + 2 + DataBits /\ c.state = StopBit("Write")

\* What is on its way is what is left of a request: of the one the game waits
\* on, or of one that is broken off before it stores anything.
Underway(op, a, w, k) ==
  /\ HasReceived(chip, op, a, w, k)
  /\ k + Len(wire) <= RequestLength(op)
  /\ \A i \in 1..Len(wire) : wire[i] = RequestBit(op, a, w, k + i)
  /\ \/ op = "Read" /\ asked = AskedRead(a) /\ k + Len(wire) = RequestLength(op)
     \/ op = "Write" /\ asked = AskedWrite(a, w) /\ k + Len(wire) = RequestLength(op)
     \/ op = "Write" /\ asked = Nothing /\ k + Len(wire) < RequestLength(op) - 1

WireInv ==
  /\ wire \in Seq({0, 1})
  /\ wire # <<>> /\ ~IsTransmitting(chip) =>
       \E op \in {"Read", "Write"}, a \in GameAddresses[game], w \in Cell, k \in Nat :
         Underway(op, a, w, k)

\* A chip whose size is known, and one that has been told nothing.
Speaks(c) ==
  /\ c \in Chips /\ c.type = game
  /\ IsTransmitting(c) => c.address \in 0..(Words[game] - 1)

OffInv ==
  /\ wire = <<>> /\ fetching = 0 /\ asked = Nothing
  /\ file = NoFile \/ IsMemory(file, Words[game])

DetectInv ==
  /\ wire = <<>> /\ fetching = 0 /\ asked = Nothing
  /\ chip = NewChip(Eeprom512) /\ IsMemory(buffer, Words[Eeprom512])

CommandInv == Speaks(chip) /\ IsMemory(buffer, Words[game]) /\ WireInv

SnapshotInv ==
  \/ snapshot = NoState
  \/ /\ snapshot.taken = TRUE /\ snapshot.detect = TRUE /\ snapshot.asked = Nothing
     /\ snapshot.chip = NewChip(Eeprom512) /\ snapshot.size = Words[Eeprom512]
  \/ /\ snapshot.taken = TRUE /\ snapshot.detect = FALSE
     /\ Speaks(snapshot.chip) /\ snapshot.size = Words[game]

CellsInv ==
  /\ \A i \in DOMAIN buffer : buffer[i] \in Cell
  /\ \A i \in DOMAIN file : file[i] \in Cell

EepromInv ==
  /\ process \in {"on", "off"} /\ game \in EepromType
  /\ path \in BOOLEAN /\ detect \in BOOLEAN
  /\ fetching \in Nat /\ (fetching = 0 \/ wire = <<>>)
  /\ ~path => file = NoFile
  /\ process = "off" => OffInv
  /\ process = "on" /\ detect => DetectInv
  /\ process = "on" /\ ~detect => CommandInv
  /\ process = "on" /\ path => file = buffer
  /\ CellsInv /\ SnapshotInv

EepromMediumInv == medium = "Eeprom" => EepromInv
-----------------------------------------------------------------------------
(* Powers of two and the bits of a number. *)

LEMMA PowerIsCount ==
  ASSUME NEW n \in Nat
  PROVE  /\ IsFiniteSet(1..n) /\ Cardinality(1..n) = n
         /\ IsFiniteSet(SUBSET (1..n)) /\ Cardinality(SUBSET (1..n)) = 2 ^ n
         /\ 2 ^ n \in Nat
  <1>1. IsFiniteSet(1..n) /\ Cardinality(1..n) = n
    BY FS_Interval
  <1>2. IsFiniteSet(SUBSET (1..n)) /\ Cardinality(SUBSET (1..n)) = 2 ^ n
    BY <1>1, FS_SUBSET
  <1>3. Cardinality(SUBSET (1..n)) \in Nat
    BY <1>2, FS_CardinalityType
  <1>4. QED
    BY <1>1, <1>2, <1>3

LEMMA PowerDoubles ==
  ASSUME NEW n \in Nat
  PROVE  2 ^ (n + 1) = 2 * 2 ^ n
  <1> DEFINE S == SUBSET (1..n)
             T == {s \in SUBSET (1..(n + 1)) : n + 1 \in s}
             add == [s \in S |-> s \cup {n + 1}]
  <1>1. /\ IsFiniteSet(S) /\ Cardinality(S) = 2 ^ n /\ 2 ^ n \in Nat
        /\ Cardinality(SUBSET (1..(n + 1))) = 2 ^ (n + 1) /\ IsFiniteSet(SUBSET (1..(n + 1)))
    <2>1. n + 1 \in Nat
      OBVIOUS
    <2>2. QED
      BY <2>1, PowerIsCount
  <1>2. add \in Bijection(S, T)
    <2>1. add \in [S -> T]
      OBVIOUS
    <2>2. ASSUME NEW s \in S, NEW t \in S, add[s] = add[t]
          PROVE  s = t
      <3>1. n + 1 \notin s /\ n + 1 \notin t
        OBVIOUS
      <3>2. s = add[s] \ {n + 1} /\ t = add[t] \ {n + 1}
        BY <3>1
      <3>3. QED
        BY <3>2, <2>2
    <2>3. ASSUME NEW t \in T
          PROVE  \E s \in S : add[s] = t
      <3>1. t \ {n + 1} \in S /\ (t \ {n + 1}) \cup {n + 1} = t
        OBVIOUS
      <3>2. QED
        BY <3>1
    <2>4. QED
      BY <2>1, <2>2, <2>3 DEF Bijection, Injection, Surjection, IsInjective
  <1>3. IsFiniteSet(T) /\ Cardinality(T) = 2 ^ n
    BY <1>1, <1>2, FS_Bijection DEF ExistsBijection
  <1>4. SUBSET (1..(n + 1)) = S \cup T /\ S \cap T = {}
    <2>1. \A s \in SUBSET (1..(n + 1)) : n + 1 \notin s => s \subseteq 1..n
      OBVIOUS
    <2>2. QED
      BY <2>1
  <1>5. Cardinality(S \cup T) = Cardinality(S) + Cardinality(T) - Cardinality(S \cap T)
    BY <1>1, <1>3, FS_Union
  <1>6. Cardinality(S \cap T) = 0
    BY <1>4, FS_EmptySet
  <1>7. Cardinality(SUBSET (1..(n + 1))) = 2 ^ n + 2 ^ n - 0
    BY <1>1, <1>3, <1>4, <1>5, <1>6, Zenon
  <1> DEFINE p == 2 ^ n
  <1>8. p \in Nat /\ 2 ^ (n + 1) = p + p - 0
    BY <1>1, <1>7, Zenon
  <1> HIDE DEF p
  <1>9. 2 ^ (n + 1) = 2 * p
    BY <1>8
  <1>10. QED
    BY <1>9 DEF p

LEMMA PowerGrows ==
  ASSUME NEW m \in Nat, NEW n \in Nat, m <= n
  PROVE  2 ^ m <= 2 ^ n /\ 2 ^ m >= 1
  <1>1. (1..m) \subseteq (1..n)
    OBVIOUS
  <1>2. SUBSET (1..m) \subseteq SUBSET (1..n) /\ {} \in SUBSET (1..m)
    BY <1>1
  <1> DEFINE S == SUBSET (1..m)
             T == SUBSET (1..n)
             p == 2 ^ m
             q == 2 ^ n
  <1>3. /\ IsFiniteSet(S) /\ Cardinality(S) = p /\ p \in Nat
        /\ IsFiniteSet(T) /\ Cardinality(T) = q /\ q \in Nat
    BY PowerIsCount
  <1>4. p <= q
    BY <1>2, <1>3, FS_Subset
  <1>5. p # 0
    BY <1>2, <1>3, FS_EmptySet
  <1> HIDE DEF p, q
  <1>6. p <= q /\ p >= 1
    BY <1>3, <1>4, <1>5
  <1>7. QED
    BY <1>6 DEF p, q

LEMMA PowerOfZero == 2 ^ 0 = 1
  BY SMT

LEMMA Division ==
  ASSUME NEW a \in Nat, NEW m \in Nat \ {0}
  PROVE  a \div m \in Nat /\ a % m \in 0..(m - 1) /\ a = m * (a \div m) + (a % m)
         /\ a \div m <= a
  <1> DEFINE q == a \div m
             r == a % m
  <1>1. q \in Nat /\ r \in 0..(m - 1) /\ a = m * q + r
    OBVIOUS
  <1> HIDE DEF q, r
  <1>2. m * q = q + (m - 1) * q /\ (m - 1) * q >= 0
    BY <1>1
  <1>3. q <= a
    BY <1>1, <1>2
  <1>4. QED
    BY <1>1, <1>3 DEF q, r

\* A number that is shifted in: the bits above a place, and the next one.
LEMMA NextBit ==
  ASSUME NEW a \in Nat, NEW p \in Nat \ {0}
  PROVE  2 * (a \div (2 * p)) + ((a \div p) % 2) = a \div p
  <1> DEFINE q == a \div (2 * p)
             r == a % (2 * p)
  <1>1. q \in Nat /\ r \in 0..(2 * p - 1) /\ a = (2 * p) * q + r
    BY Division, 2 * p \in Nat \ {0}
  <1>2. q \in Nat /\ r \in Nat /\ a = (2 * q) * p + r /\ r < 2 * p
    BY <1>1
  <1> HIDE DEF q, r
  <1>3. CASE r < p
    <2>1. a \div p = 2 * q
      BY <1>2, <1>3
    <2>2. QED
      BY <2>1, <1>2 DEF q
  <1>4. CASE r >= p
    <2>1. r - p \in 0..(p - 1) /\ a = (2 * q + 1) * p + (r - p)
      BY <1>2, <1>4
    <2>2. a \div p = 2 * q + 1
      BY <2>1, <1>2
    <2>3. QED
      BY <2>2, <1>2 DEF q
  <1>5. QED
    BY <1>2, <1>3, <1>4

LEMMA PowerSplits ==
  ASSUME NEW m \in Nat, NEW n \in Nat
  PROVE  2 ^ (m + n) = 2 ^ m * 2 ^ n
  <1> DEFINE I == 1..m
             J == (m + 1)..(m + n)
             S == SUBSET (1..(m + n))
             A == SUBSET I
             B == SUBSET J
             f == [s \in S |-> <<s \cap I, s \cap J>>]
  <1>1. /\ m + n \in Nat /\ I \cup J = 1..(m + n) /\ I \cap J = {}
        /\ IsFiniteSet(J) /\ Cardinality(J) = n
    <2>1. IsFiniteSet(J) /\ Cardinality(J) = n
      BY FS_Interval
    <2>2. QED
      BY <2>1
  <1>2. /\ IsFiniteSet(S) /\ Cardinality(S) = 2 ^ (m + n)
        /\ IsFiniteSet(A) /\ Cardinality(A) = 2 ^ m
        /\ IsFiniteSet(B) /\ Cardinality(B) = 2 ^ n
    BY <1>1, PowerIsCount, FS_SUBSET
  <1>3. f \in Bijection(S, A \X B)
    <2> DEFINE U == 1..(m + n)
    <2>0. I \cup J = U /\ I \cap J = {}
      BY <1>1
    <2> HIDE DEF I, J, U
    <2>1. f \in [S -> A \X B]
      OBVIOUS
    <2>2. ASSUME NEW s \in S, NEW t \in S, f[s] = f[t]
          PROVE  s = t
      <3>1. s \cap I = t \cap I /\ s \cap J = t \cap J
        BY <2>2
      <3>2. s \subseteq I \cup J /\ t \subseteq I \cup J
        BY <2>0 DEF U
      <3>3. QED
        BY <3>1, <3>2
    <2>3. ASSUME NEW x \in A \X B
          PROVE  \E s \in S : f[s] = x
      <3>1. PICK a \in A, b \in B : x = <<a, b>>
        OBVIOUS
      <3>2. a \cup b \in S
        BY <2>0 DEF U
      <3>3. (a \cup b) \cap I = a /\ (a \cup b) \cap J = b
        BY <2>0
      <3>4. QED
        BY <3>1, <3>2, <3>3
    <2>4. QED
      BY <2>1, <2>2, <2>3 DEF Bijection, Injection, Surjection, IsInjective
  <1> HIDE DEF S, A, B, f
  <1>4. Cardinality(S) = Cardinality(A \X B)
    BY <1>2, <1>3, FS_Bijection DEF ExistsBijection
  <1>5. Cardinality(A \X B) = Cardinality(A) * Cardinality(B)
    BY <1>2, FS_Product
  <1>6. QED
    BY <1>2, <1>4, <1>5, Zenon

\* The low bits of one word over those of another.
LEMMA TornIsBounded ==
  ASSUME NEW p \in Nat \ {0}, NEW q \in Nat, NEW old \in 0..(p * q - 1), NEW new \in Nat
  PROVE  (old \div p) * p + (new % p) \in 0..(p * q - 1)
  <1> DEFINE h == old \div p
             l == new % p
  <1>1. old \in Nat /\ p * q \in Nat /\ old < p * q
    OBVIOUS
  <1>2. h \in Nat /\ l \in 0..(p - 1) /\ p * h <= old
    <2> DEFINE r == old % p
    <2>1. h \in Nat /\ r \in 0..(p - 1) /\ old = p * h + r
      BY <1>1, Division
    <2>2. l \in 0..(p - 1)
      BY Division
    <2> HIDE DEF h, r, l
    <2>3. p * h <= old
      BY <2>1
    <2>4. QED
      BY <2>1, <2>2, <2>3
  <1> HIDE DEF h, l
  <1>3. h < q
    <2>1. ASSUME h >= q
          PROVE  FALSE
      <3>1. p * h = p * q + p * (h - q) /\ p * (h - q) >= 0
        BY <1>2, <2>1
      <3>2. QED
        BY <3>1, <1>1, <1>2
    <2>2. QED
      BY <2>1, <1>2
  <1>4. p * q = p * h + p + p * (q - h - 1) /\ p * (q - h - 1) >= 0
    BY <1>2, <1>3
  <1>5. h * p = p * h /\ p * h \in Nat
    BY <1>2
  <1>6. h * p + l \in 0..(p * q - 1)
    BY <1>1, <1>2, <1>4, <1>5
  <1>7. QED
    BY <1>6 DEF h, l

\* A number below 2 ^ n, shifted into a register of at least n bits.
LEMMA ShiftsIn ==
  ASSUME NEW n \in Nat, n <= DataBits, NEW a \in 0..(2 ^ n - 1), NEW j \in 0..(n - 1)
  PROVE  /\ (2 * (a \div 2 ^ (n - j)) + ((a \div 2 ^ (n - (j + 1))) % 2)) % 2 ^ DataBits
              = a \div 2 ^ (n - (j + 1))
         /\ a \div 2 ^ n = 0 /\ a \div 2 ^ 0 = a
         /\ a \div 2 ^ (n - (j + 1)) \in Nat
  <1> DEFINE p == 2 ^ (n - (j + 1))
             N == 2 ^ n
             d == 2 ^ DataBits
  <1>1. /\ n - j \in Nat /\ n - (j + 1) \in Nat /\ n - j = (n - (j + 1)) + 1 /\ DataBits \in Nat
    BY EepromAssumption
  <1>2. 2 ^ (n - j) = 2 * p /\ p \in Nat /\ N \in Nat /\ d \in Nat
    BY <1>1, PowerIsCount, PowerDoubles
  <1>3. p >= 1 /\ N <= d /\ N >= 1
    BY <1>1, PowerGrows
  <1>4. a \in 0..(N - 1)
    OBVIOUS
  <1> HIDE DEF p, N, d
  <1>5. a \in Nat /\ p \in Nat \ {0} /\ a < N
    BY <1>2, <1>3, <1>4
  <1>6. 2 * (a \div (2 * p)) + ((a \div p) % 2) = a \div p
    BY <1>5, NextBit
  <1>7. a \div p \in Nat /\ a \div p <= a
    BY <1>5, Division
  <1>8. (a \div p) % d = a \div p
    BY <1>2, <1>3, <1>5, <1>7
  <1>9. a \div N = 0
    BY <1>2, <1>5
  <1>10. a \div 1 = a
    BY <1>5
  <1>11. /\ (2 * (a \div 2 ^ (n - j)) + ((a \div p) % 2)) % d = a \div p
    BY <1>2, <1>6, <1>8
  <1>12. QED
    BY <1>7, <1>9, <1>10, <1>11, PowerOfZero DEF p, N, d

-----------------------------------------------------------------------------
(* Memories. *)

LEMMA MemoryLength ==
  ASSUME NEW m, NEW n \in Nat, IsMemory(m, n)
  PROVE  Length(m) = n /\ DOMAIN m = 0..(n - 1) /\ (n > 0 => m # NoFile)
  <1>1. DOMAIN m = 0..(n - 1)
    BY DEF IsMemory
  <1>2. Cardinality(0..(n - 1)) = n
    BY FS_Interval
  <1>3. ASSUME n > 0
        PROVE  m # <<>>
    <2>1. 0 \in DOMAIN m /\ DOMAIN <<>> = {}
      BY <1>1, <1>3
    <2>2. QED
      BY <2>1
  <1>4. QED
    BY <1>1, <1>2, <1>3 DEF Length, NoFile

LEMMA MemoryIsKept ==
  ASSUME NEW m, NEW n \in Nat, IsMemory(m, n)
  PROVE  Resized(m, n) = m /\ \A i, v : IsMemory([m EXCEPT ![i] = v], n)
  <1>1. DOMAIN m = 0..(n - 1)
    BY DEF IsMemory
  <1>2. Resized(m, n) = m
    BY <1>1 DEF IsMemory, Resized
  <1>3. ASSUME NEW i, NEW v
        PROVE  IsMemory([m EXCEPT ![i] = v], n)
    BY <1>1 DEF IsMemory
  <1>4. QED
    BY <1>2, <1>3

LEMMA NewMemory ==
  ASSUME NEW n \in Nat
  PROVE  IsMemory(Blank(n), n) /\ \A m : IsMemory(Resized(m, n), n)
  BY DEF IsMemory, Blank, Resized

\* A larger memory flushed over the file of a smaller one.
LEMMA FlushedWhole ==
  ASSUME NEW m, NEW n \in Nat, NEW k \in Nat, k <= n, IsMemory(file, k), IsMemory(m, n)
  PROVE  Flushed(m) = m
  <1>1. DOMAIN file = 0..(k - 1) /\ DOMAIN m = 0..(n - 1)
    BY DEF IsMemory
  <1>2. DOMAIN file \cup DOMAIN m = 0..(n - 1)
    BY <1>1
  <1>3. Flushed(m) = [i \in 0..(n - 1) |-> m[i]]
    BY <1>1, <1>2 DEF Flushed
  <1>4. QED
    BY <1>3 DEF IsMemory

-----------------------------------------------------------------------------
(* The chip takes a bit. *)

LEMMA StateNames ==
  /\ RxInstruction[1] = "RxInstruction" /\ RxData[1] = "RxData"
  /\ TxDummy[1] = "TxDummy" /\ TxData[1] = "TxData"
  /\ \A s : RxAddress(s)[1] = "RxAddress" /\ RxAddress(s)[2] = s
  /\ \A s : StopBit(s)[1] = "StopBit" /\ StopBit(s)[2] = s
  BY DEF RxInstruction, RxData, TxDummy, TxData, RxAddress, StopBit

Arms(c) ==
  \/ ReceiveInstruction(c) \/ ReceiveAddress(c) \/ StopRead(c)
  \/ ReceiveData(c) \/ StopWrite(c) \/ IgnoreBit(c)

LEMMA ArmOfState ==
  ASSUME NEW c, Arms(c)
  PROVE  /\ c.state = RxInstruction => ReceiveInstruction(c)
         /\ c.state \in {RxAddress("Read"), RxAddress("Write")} => ReceiveAddress(c)
         /\ c.state = StopBit("Read") => StopRead(c)
         /\ c.state = RxData => ReceiveData(c)
         /\ c.state = StopBit("Write") => StopWrite(c)
         /\ IsTransmitting(c) => IgnoreBit(c)
  BY StateNames DEF Arms, ReceiveInstruction, ReceiveAddress, StopRead, ReceiveData, StopWrite,
       IgnoreBit, IsTransmitting

\* The constants of the game's type.
LEMMA GameConstants ==
  ASSUME game \in EepromType
  PROVE  /\ AddrBits[game] \in Nat /\ AddrBits[game] >= 1 /\ AddrBits[game] <= DataBits
         /\ DataBits \in Nat /\ DataBits >= 2 /\ DummyBits \in Nat /\ DummyBits >= 1
         /\ Words[game] \in Nat /\ Words[game] >= 1
         /\ \A a \in 0..(Words[game] - 1) : a \in 0..(2 ^ AddrBits[game] - 1)
         /\ \A w \in Cell : w \in 0..(2 ^ DataBits - 1)
         /\ 2 ^ DataBits \in Nat /\ 2 ^ DataBits >= 4
  <1>1. /\ AddrBits[game] \in Nat \ {0} /\ Words[game] \in Nat \ {0}
        /\ AddrBits[game] <= DataBits /\ Words[game] <= 2 ^ AddrBits[game]
        /\ DataBits \in Nat /\ DataBits >= 2 /\ DummyBits \in Nat \ {0}
    BY EepromAssumption
  <1>2. 2 ^ AddrBits[game] \in Nat /\ 2 ^ DataBits \in Nat
    BY <1>1, PowerIsCount
  <1>3. 2 ^ DataBits >= 4
    <2>1. 2 ^ 2 <= 2 ^ DataBits
      BY <1>1, PowerGrows
    <2>2. 2 ^ 2 = 4
      BY SMT
    <2>3. QED
      BY <2>1, <2>2, <1>2
  <1> DEFINE N == 2 ^ AddrBits[game]
  <1>4. N \in Nat /\ Words[game] <= N
    BY <1>1, <1>2
  <1>5. \A a \in 0..(Words[game] - 1) : a \in 0..(N - 1)
    <2> HIDE DEF N
    <2>1. QED
      BY <1>1, <1>4
  <1>6. \A w \in Cell : w \in 0..(2 ^ DataBits - 1)
    BY EepromAssumption
  <1>7. QED
    BY <1>1, <1>2, <1>3, <1>5, <1>6

\* A bit is put into the register before an arm looks at it.
LEMMA ShiftedChip ==
  ASSUME chip \in Chips, 2 ^ DataBits \in Nat, 2 ^ DataBits >= 4, NEW si \in {0, 1}
  PROVE  /\ ShiftedIn(si) \in Chips
         /\ ShiftedIn(si).rx_count = chip.rx_count + 1
         /\ ShiftedIn(si).rx_buffer = (2 * chip.rx_buffer + si) % 2 ^ DataBits
         /\ ShiftedIn(si).state = chip.state /\ ShiftedIn(si).type = chip.type
         /\ ShiftedIn(si).address = chip.address /\ ShiftedIn(si).ready = chip.ready
         /\ ShiftedIn(si).tx_count = chip.tx_count /\ ShiftedIn(si).tx_buffer = chip.tx_buffer
  <1> DEFINE d == 2 ^ DataBits
             b == (2 * chip.rx_buffer + si) % d
  <1>1. chip.rx_buffer \in Nat /\ chip.rx_count + 1 \in Nat /\ d \in Nat /\ d >= 4
    BY DEF Chips
  <1>2. b \in Nat
    <2> HIDE DEF d
    <2>1. QED
      BY <1>1
  <1>3. ShiftedIn(si) = [chip EXCEPT !.rx_buffer = b, !.rx_count = chip.rx_count + 1]
    BY DEF ShiftedIn, Chips
  <1> HIDE DEF b
  <1>4. QED
    BY <1>1, <1>2, <1>3 DEF Chips, b

Stores(op, k) == op = "Write" /\ k = AddrBits[game] + 2 + DataBits

TookBit(op, a, w, k) ==
  /\ UNCHANGED <<process, detect, path>> /\ Speaks(chip')
  /\ IF Stores(op, k) THEN WriteBackup(a, w) ELSE UNCHANGED backupVars
  /\ k < RequestLength(op) => ~IsTransmitting(chip') /\ HasReceived(chip', op, a, w, k)
  /\ k = RequestLength(op) /\ op = "Read" =>
       chip'.state = TxDummy /\ chip'.tx_count = 0 /\ chip'.address = a
  /\ k = RequestLength(op) /\ op = "Write" => chip'.state = RxInstruction /\ chip'.ready

\* What a command is made of while one of its bits comes in.
Coming(op, a, w, k) ==
  /\ game \in EepromType /\ ~detect
  /\ op \in {"Read", "Write"} /\ a \in 0..(Words[game] - 1) /\ w \in Cell /\ k \in Nat
  /\ Speaks(chip) /\ IsMemory(buffer, Words[game])
  /\ HasReceived(chip, op, a, w, k) /\ k < RequestLength(op)
  /\ WriteHalf(RequestBit(op, a, w, k + 1))

LEMMA TakesInstruction ==
  ASSUME NEW op, NEW a, NEW w, NEW k, Coming(op, a, w, k), k \in {0, 1}
  PROVE  TookBit(op, a, w, k + 1)
  <1> DEFINE n == AddrBits[game]
             si == RequestBit(op, a, w, k + 1)
             c == ShiftedIn(si)
             d == 2 ^ DataBits
  <1>1. /\ n \in Nat /\ n >= 1 /\ DataBits \in Nat /\ DataBits >= 2 /\ d \in Nat /\ d >= 4
    BY GameConstants DEF Coming
  <1>2. chip.state = RxInstruction /\ chip.rx_count = k /\ chip.rx_buffer = k
    BY <1>1, StateNames DEF Coming, HasReceived
  <1>3. si = IF k = 0 \/ op = "Read" THEN 1 ELSE 0
    BY <1>1 DEF RequestBit
  <1> HIDE DEF si
  <1>4. /\ c \in Chips /\ c.type = game /\ c.state = RxInstruction
        /\ c.rx_count = k + 1 /\ c.rx_buffer = (2 * k + si) % d
    BY <1>1, <1>2, <1>3, ShiftedChip DEF Coming, Speaks
  <1>5. c.rx_buffer = 2 * k + si
    <2> HIDE DEF d, c
    <2>1. QED
      BY <1>1, <1>3, <1>4
  <1>6. ReceiveInstruction(c)
    <2>1. Arms(c)
      BY DEF Coming, WriteHalf, Arms, si
    <2>2. QED
      BY <2>1, <1>4, ArmOfState
  <1> HIDE DEF c
  <1>7. k + 1 < RequestLength(op)
    BY <1>1 DEF Coming, RequestLength, ReadLength, WriteLength
  <1>8. ~Stores(op, k + 1)
    BY <1>1 DEF Stores
  <1>9. CASE k = 0
    <2>1. chip' = c /\ UNCHANGED <<process, detect, backupVars>>
      BY <1>4, <1>6, <1>9 DEF ReceiveInstruction, ChipBecomes
    <2>2. c.rx_count = 1 /\ c.rx_buffer = 1
      BY <1>3, <1>4, <1>5, <1>9
    <2>3. ~IsTransmitting(c)
      BY <1>4, StateNames DEF IsTransmitting
    <2>4. HasReceived(c, op, a, w, k + 1)
      BY <2>2, <1>4, <1>9 DEF HasReceived
    <2>5. Speaks(c)
      BY <2>3, <1>4 DEF Speaks
    <2>6. QED
      BY <2>1, <2>3, <2>4, <2>5, <1>7, <1>8 DEF TookBit, backupVars
  <1>10. CASE k = 1
    <2> DEFINE e == [RxReset(c) EXCEPT !.state = RxAddress(op)]
    <2>1. c.rx_count = 2 /\ c.rx_buffer = IF op = "Read" THEN 3 ELSE 2
      BY <1>3, <1>4, <1>5, <1>10
    <2>2. chip' = e /\ UNCHANGED <<process, detect, backupVars>>
      BY <2>1, <1>6 DEF ReceiveInstruction, ChipBecomes, Coming
    <2>3. /\ e \in Chips /\ e.type = game /\ e.state = RxAddress(op)
          /\ e.rx_count = 0 /\ e.rx_buffer = 0
      BY <1>4 DEF Coming, Chips, ChipStates, RxReset
    <2> HIDE DEF e
    <2>4. ~IsTransmitting(e)
      BY <2>3, StateNames DEF IsTransmitting
    <2>5. a \div 2 ^ n = 0
      BY <1>1, GameConstants, ShiftsIn, 0 \in 0..(n - 1) DEF Coming
    <2>6. HasReceived(e, op, a, w, k + 1)
      BY <2>3, <2>5, <1>1, <1>10 DEF HasReceived
    <2>7. Speaks(e)
      BY <2>3, <2>4 DEF Speaks
    <2>8. QED
      BY <2>2, <2>4, <2>6, <2>7, <1>7, <1>8 DEF TookBit, backupVars
  <1>11. QED
    BY <1>9, <1>10

LEMMA TakesAddress ==
  ASSUME NEW op, NEW a, NEW w, NEW k, Coming(op, a, w, k), k \in 2..(AddrBits[game] + 1)
  PROVE  TookBit(op, a, w, k + 1)
  <1> DEFINE n == AddrBits[game]
             si == RequestBit(op, a, w, k + 1)
             c == ShiftedIn(si)
             d == 2 ^ DataBits
             j == k - 2
             rest == a \div 2 ^ (n - (j + 1))
  <1>1. /\ n \in Nat /\ n >= 1 /\ n <= DataBits /\ DataBits \in Nat /\ DataBits >= 2
        /\ d \in Nat /\ d >= 4 /\ a \in 0..(2 ^ n - 1) /\ k \in Nat /\ j \in 0..(n - 1)
    BY GameConstants DEF Coming
  <1>2. chip.state = RxAddress(op) /\ chip.rx_count = j /\ chip.rx_buffer = a \div 2 ^ (n - j)
    BY <1>1, StateNames DEF Coming, HasReceived
  <1>3. si = rest % 2
    BY <1>1 DEF RequestBit
  <1>4. rest \in Nat /\ (2 * (a \div 2 ^ (n - j)) + (rest % 2)) % d = rest
    BY <1>1, ShiftsIn
  <1> HIDE DEF si, rest
  <1>5. si \in {0, 1}
    BY <1>3, <1>4
  <1>6. /\ c \in Chips /\ c.type = game /\ c.state = RxAddress(op) /\ c.rx_count = j + 1
        /\ c.rx_buffer = (2 * (a \div 2 ^ (n - j)) + si) % d
    BY <1>1, <1>2, <1>5, ShiftedChip DEF Coming, Speaks
  <1>7. c.rx_buffer = rest
    BY <1>3, <1>4, <1>6
  <1>8. ReceiveAddress(c)
    <2>1. Arms(c)
      BY DEF Coming, WriteHalf, Arms, si
    <2>2. op \in {"Read", "Write"}
      BY DEF Coming
    <2>3. QED
      BY <2>1, <2>2, <1>6, ArmOfState
  <1> HIDE DEF c
  <1>9. k + 1 < RequestLength(op)
    BY <1>1 DEF Coming, RequestLength, ReadLength, WriteLength
  <1>10. ~Stores(op, k + 1)
    BY <1>1 DEF Stores
  <1>11. CASE j + 1 # n
    <2>1. chip' = c /\ UNCHANGED <<process, detect, backupVars>>
      BY <1>6, <1>8, <1>11 DEF ReceiveAddress, ChipBecomes
    <2>2. ~IsTransmitting(c)
      BY <1>6, StateNames DEF IsTransmitting
    <2>3. k + 1 \in 2..(n + 1) /\ c.rx_count = (k + 1) - 2 /\ n - (j + 1) = n - ((k + 1) - 2)
      BY <1>1, <1>6, <1>11
    <2>4. HasReceived(c, op, a, w, k + 1)
      BY <2>3, <1>6, <1>7 DEF HasReceived, rest
    <2>5. Speaks(c)
      BY <2>2, <1>6 DEF Speaks
    <2>6. QED
      BY <2>1, <2>2, <2>4, <2>5, <1>9, <1>10 DEF TookBit, backupVars
  <1>12. CASE j + 1 = n
    <2>1. c.rx_buffer = a
      <3>1. n - (j + 1) = 0 /\ a \div 2 ^ 0 = a
        BY <1>1, <1>12, ShiftsIn
      <3>2. rest = a \div 2 ^ 0
        BY <3>1, Zenon DEF rest
      <3>3. QED
        BY <3>1, <3>2, <1>7
    <2>2. k + 1 = n + 2 /\ c.rx_count = AddrBits[c.type]
      BY <1>1, <1>6, <1>12
    <2>3. CASE op = "Read"
      <3> DEFINE e == [[c EXCEPT !.address = c.rx_buffer] EXCEPT !.state = StopBit("Read")]
      <3>1. chip' = e /\ UNCHANGED <<process, detect, backupVars>>
        BY <2>2, <2>3, <1>6, <1>8, StateNames DEF ReceiveAddress, ChipBecomes
      <3>2. e \in Chips /\ e.type = game /\ e.state = StopBit("Read") /\ e.address = a
        BY <2>1, <1>6 DEF Chips, ChipStates
      <3> HIDE DEF e
      <3>3. ~IsTransmitting(e)
        BY <3>2, StateNames DEF IsTransmitting
      <3>4. HasReceived(e, op, a, w, k + 1) /\ Speaks(e)
        BY <3>2, <3>3, <2>2, <2>3 DEF HasReceived, Speaks
      <3>5. QED
        BY <3>1, <3>3, <3>4, <1>9, <1>10 DEF TookBit, backupVars
    <2>4. CASE op = "Write"
      <3> DEFINE f == [c EXCEPT !.address = c.rx_buffer]
                 e == [RxReset(f) EXCEPT !.state = RxData, !.ready = FALSE]
      <3>1. chip' = e /\ UNCHANGED <<process, detect, backupVars>>
        BY <2>2, <2>4, <1>6, <1>8, StateNames DEF ReceiveAddress, ChipBecomes
      <3>2. /\ e \in Chips /\ e.type = game /\ e.state = RxData /\ e.address = a
            /\ e.rx_count = 0 /\ e.rx_buffer = 0
        BY <2>1, <1>6 DEF Chips, ChipStates, RxReset
      <3> HIDE DEF e
      <3>3. ~IsTransmitting(e)
        BY <3>2, StateNames DEF IsTransmitting
      <3>4. w \div 2 ^ DataBits = 0
        <4>1. w \in 0..(2 ^ DataBits - 1) /\ 0 \in 0..(DataBits - 1)
          BY <1>1, GameConstants DEF Coming
        <4>2. QED
          BY <4>1, <1>1, ShiftsIn
      <3>5. (k + 1) - 2 - n = 0 /\ DataBits - ((k + 1) - 2 - n) = DataBits
        BY <2>2, <1>1
      <3>6. HasReceived(e, op, a, w, k + 1)
        BY <3>2, <3>4, <3>5, <2>2, <2>4, <1>1 DEF HasReceived
      <3>7. Speaks(e)
        BY <3>2, <3>3 DEF Speaks
      <3>8. QED
        BY <3>1, <3>3, <3>6, <3>7, <1>9, <1>10 DEF TookBit, backupVars
    <2>5. QED
      BY <2>3, <2>4 DEF Coming
  <1>13. QED
    BY <1>11, <1>12

LEMMA TakesStopOfRead ==
  ASSUME NEW op, NEW a, NEW w, NEW k, Coming(op, a, w, k),
         op = "Read", k = AddrBits[game] + 2
  PROVE  TookBit(op, a, w, k + 1)
  <1> DEFINE n == AddrBits[game]
             si == RequestBit(op, a, w, k + 1)
             c == ShiftedIn(si)
             e == [TxReset(RxReset(c)) EXCEPT !.state = TxDummy]
  <1>1. n \in Nat /\ n >= 1 /\ DataBits \in Nat /\ DataBits >= 2 /\ k \in Nat
    BY GameConstants DEF Coming
  <1>2. chip.state = StopBit("Read") /\ chip.address = a
    BY <1>1, StateNames DEF Coming, HasReceived
  <1>3. si = 0
    BY <1>1 DEF RequestBit
  <1>4. c \in Chips /\ c.type = game /\ c.state = StopBit("Read") /\ c.address = a
    BY <1>2, <1>3, GameConstants, ShiftedChip DEF Coming, Speaks
  <1>5. StopRead(c)
    <2>1. Arms(c)
      BY DEF Coming, WriteHalf, Arms
    <2>2. QED
      BY <2>1, <1>4, ArmOfState
  <1> HIDE DEF c
  <1>6. chip' = e /\ UNCHANGED <<process, detect, backupVars>>
    BY <1>5 DEF StopRead, ChipBecomes
  <1>7. e \in Chips /\ e.type = game /\ e.state = TxDummy /\ e.address = a /\ e.tx_count = 0
    BY <1>4 DEF Chips, ChipStates, TxReset, RxReset
  <1> HIDE DEF e
  <1>8. Speaks(e)
    BY <1>7 DEF Speaks, Coming
  <1>9. k + 1 = RequestLength(op)
    BY <1>1 DEF RequestLength, ReadLength
  <1>10. QED
    BY <1>6, <1>7, <1>8, <1>9, <1>1 DEF TookBit, backupVars, Stores

LEMMA TakesData ==
  ASSUME NEW op, NEW a, NEW w, NEW k, Coming(op, a, w, k),
         op = "Write", k \in (AddrBits[game] + 2)..(AddrBits[game] + 1 + DataBits)
  PROVE  TookBit(op, a, w, k + 1)
  <1> DEFINE n == AddrBits[game]
             si == RequestBit(op, a, w, k + 1)
             c == ShiftedIn(si)
             d == 2 ^ DataBits
             j == k - 2 - n
             rest == w \div 2 ^ (DataBits - (j + 1))
  <1>1. /\ n \in Nat /\ n >= 1 /\ n <= DataBits /\ DataBits \in Nat /\ DataBits >= 2
        /\ d \in Nat /\ d >= 4 /\ w \in 0..(2 ^ DataBits - 1) /\ k \in Nat /\ j \in 0..(DataBits - 1)
    BY GameConstants DEF Coming
  <1>2. /\ chip.state = RxData /\ chip.rx_count = j /\ chip.rx_buffer = w \div 2 ^ (DataBits - j)
        /\ chip.address = a
    BY <1>1, StateNames DEF Coming, HasReceived
  <1>3. si = rest % 2
    <2>1. (k + 1) - n - 2 = j + 1 /\ k + 1 > n + 2 /\ k + 1 \in (n + 3)..(n + 2 + DataBits)
      BY <1>1
    <2>2. QED
      BY <2>1, <1>1 DEF RequestBit
  <1>4. rest \in Nat /\ (2 * (w \div 2 ^ (DataBits - j)) + (rest % 2)) % d = rest
    <2>1. DataBits <= DataBits
      BY <1>1
    <2> HIDE DEF j
    <2>2. QED
      BY <1>1, <2>1, ShiftsIn
  <1> HIDE DEF si, rest
  <1>5. si \in {0, 1}
    BY <1>3, <1>4
  <1>6. /\ c \in Chips /\ c.type = game /\ c.state = RxData /\ c.rx_count = j + 1 /\ c.address = a
        /\ c.rx_buffer = (2 * (w \div 2 ^ (DataBits - j)) + si) % d
    BY <1>1, <1>2, <1>5, ShiftedChip DEF Coming, Speaks
  <1>7. c.rx_buffer = rest
    BY <1>3, <1>4, <1>6
  <1>8. ReceiveData(c)
    <2>1. Arms(c)
      BY DEF Coming, WriteHalf, Arms, si
    <2>2. QED
      BY <2>1, <1>6, ArmOfState
  <1> HIDE DEF c
  <1>9. k + 1 < RequestLength(op)
    BY <1>1 DEF Coming, RequestLength, ReadLength, WriteLength
  <1>10. a \in DOMAIN buffer
    BY GameConstants, MemoryLength DEF Coming
  <1>11. CASE j + 1 # DataBits
    <2>1. chip' = c /\ UNCHANGED <<process, detect, backupVars>>
      BY <1>6, <1>8, <1>11 DEF ReceiveData, ChipBecomes
    <2>2. ~IsTransmitting(c)
      BY <1>6, StateNames DEF IsTransmitting
    <2>3. /\ k + 1 \in (n + 2)..(n + 1 + DataBits) /\ c.rx_count = (k + 1) - 2 - n
          /\ DataBits - (j + 1) = DataBits - ((k + 1) - 2 - n)
      BY <1>1, <1>6, <1>11
    <2>4. HasReceived(c, op, a, w, k + 1)
      BY <2>3, <1>6, <1>7 DEF HasReceived, rest
    <2>5. Speaks(c)
      BY <2>2, <1>6 DEF Speaks
    <2>6. ~Stores(op, k + 1)
      BY <1>1, <1>11 DEF Stores
    <2>7. QED
      BY <2>1, <2>2, <2>4, <2>5, <2>6, <1>9 DEF TookBit, backupVars
  <1>12. CASE j + 1 = DataBits
    <2> DEFINE e == [RxReset(c) EXCEPT !.state = StopBit("Write")]
    <2>1. c.rx_buffer = w
      <3>1. DataBits - (j + 1) = 0 /\ w \div 2 ^ 0 = w
        BY <1>1, <1>12, ShiftsIn
      <3>2. rest = w \div 2 ^ 0
        BY <3>1, Zenon DEF rest
      <3>3. QED
        BY <3>1, <3>2, <1>7
    <2>2. WriteBackup(a, w) /\ chip' = e /\ UNCHANGED <<process, detect>>
      BY <2>1, <1>6, <1>8, <1>10, <1>12 DEF ReceiveData
    <2>3. e \in Chips /\ e.type = game /\ e.state = StopBit("Write")
      BY <1>6 DEF Chips, ChipStates, RxReset
    <2> HIDE DEF e
    <2>4. ~IsTransmitting(e)
      BY <2>3, StateNames DEF IsTransmitting
    <2>5. k + 1 = n + 2 + DataBits
      BY <1>1, <1>12
    <2>6. HasReceived(e, op, a, w, k + 1)
      BY <2>3, <2>5 DEF HasReceived
    <2>7. Speaks(e)
      BY <2>3, <2>4 DEF Speaks
    <2>8. Stores(op, k + 1)
      BY <2>5 DEF Stores
    <2>9. QED
      BY <2>2, <2>4, <2>6, <2>7, <2>8, <1>9 DEF TookBit, WriteBackup
  <1>13. QED
    BY <1>11, <1>12

LEMMA TakesStopOfWrite ==
  ASSUME NEW op, NEW a, NEW w, NEW k, Coming(op, a, w, k),
         op = "Write", k = AddrBits[game] + 2 + DataBits
  PROVE  TookBit(op, a, w, k + 1)
  <1> DEFINE n == AddrBits[game]
             si == RequestBit(op, a, w, k + 1)
             c == ShiftedIn(si)
             e == [ResetChip(c) EXCEPT !.ready = TRUE]
  <1>1. n \in Nat /\ n >= 1 /\ DataBits \in Nat /\ DataBits >= 2 /\ k \in Nat
    BY GameConstants DEF Coming
  <1>2. chip.state = StopBit("Write")
    BY <1>1, StateNames DEF Coming, HasReceived
  <1>3. si = 0
    BY <1>1 DEF RequestBit
  <1>4. c \in Chips /\ c.type = game /\ c.state = StopBit("Write")
    BY <1>2, <1>3, GameConstants, ShiftedChip DEF Coming, Speaks
  <1>5. StopWrite(c)
    <2>1. Arms(c)
      BY DEF Coming, WriteHalf, Arms
    <2>2. QED
      BY <2>1, <1>4, ArmOfState
  <1> HIDE DEF c
  <1>6. chip' = e /\ UNCHANGED <<process, detect, backupVars>>
    BY <1>5 DEF StopWrite, ChipBecomes
  <1>7. e \in Chips /\ e.type = game /\ e.state = RxInstruction /\ e.ready
    BY <1>4 DEF Chips, ChipStates, TxReset, RxReset, ResetChip
  <1> HIDE DEF e
  <1>8. Speaks(e)
    BY <1>7, StateNames DEF Speaks, IsTransmitting
  <1>9. k + 1 = RequestLength(op)
    BY <1>1 DEF RequestLength, WriteLength
  <1>10. QED
    BY <1>6, <1>7, <1>8, <1>9, <1>1 DEF TookBit, backupVars, Stores

\* Whatever bit of a command comes in, the chip is ready for the next one.
LEMMA TakesBit ==
  ASSUME NEW op, NEW a, NEW w, NEW k, Coming(op, a, w, k)
  PROVE  TookBit(op, a, w, k + 1)
  <1>1. /\ AddrBits[game] \in Nat /\ AddrBits[game] >= 1 /\ DataBits \in Nat /\ DataBits >= 2
        /\ k \in Nat /\ op \in {"Read", "Write"}
    BY GameConstants DEF Coming
  <1>2. \/ k \in {0, 1}
        \/ k \in 2..(AddrBits[game] + 1)
        \/ op = "Read" /\ k = AddrBits[game] + 2
        \/ op = "Write" /\ k \in (AddrBits[game] + 2)..(AddrBits[game] + 1 + DataBits)
        \/ op = "Write" /\ k = AddrBits[game] + 2 + DataBits
    BY <1>1 DEF Coming, RequestLength, ReadLength, WriteLength
  <1>3. QED
    BY <1>2, TakesInstruction, TakesAddress, TakesStopOfRead, TakesData, TakesStopOfWrite

-----------------------------------------------------------------------------
(* The requests of the game. *)

LEMMA BitsOfWord ==
  ASSUME NEW a \in Nat, NEW n \in Nat
  PROVE  Bits(a, n) \in Seq({0, 1}) /\ Len(Bits(a, n)) = n
  <1>1. ASSUME NEW i \in 1..n
        PROVE  (a \div 2 ^ (n - i)) % 2 \in {0, 1}
    <2> DEFINE p == 2 ^ (n - i)
    <2>1. n - i \in Nat
      OBVIOUS
    <2>2. p \in Nat /\ p >= 1
      BY <2>1, PowerIsCount, PowerGrows
    <2> HIDE DEF p
    <2>3. a \div p \in Nat
      BY <2>2, Division
    <2>4. (a \div p) % 2 \in {0, 1}
      BY <2>3
    <2>5. QED
      BY <2>4 DEF p
  <1>2. Bits(a, n) \in [1..n -> {0, 1}]
    BY <1>1 DEF Bits
  <1>3. QED
    BY <1>2

LEMMA JoinedTwo ==
  ASSUME NEW p \in Seq({0, 1}), NEW q \in Seq({0, 1})
  PROVE  /\ p \o q \in Seq({0, 1}) /\ Len(p \o q) = Len(p) + Len(q)
         /\ \A i \in 1..Len(p) : (p \o q)[i] = p[i]
         /\ \A i \in 1..Len(q) : (p \o q)[Len(p) + i] = q[i]
  OBVIOUS

\* Three pieces in a row.
LEMMA Joined ==
  ASSUME NEW p \in Seq({0, 1}), NEW q \in Seq({0, 1}), NEW r \in Seq({0, 1})
  PROVE  /\ p \o q \o r \in Seq({0, 1}) /\ Len(p \o q \o r) = Len(p) + Len(q) + Len(r)
         /\ \A i \in 1..Len(p) : (p \o q \o r)[i] = p[i]
         /\ \A i \in 1..Len(q) : (p \o q \o r)[Len(p) + i] = q[i]
         /\ \A i \in 1..Len(r) : (p \o q \o r)[Len(p) + Len(q) + i] = r[i]
  <1>1. p \o q \in Seq({0, 1}) /\ Len(p \o q) = Len(p) + Len(q)
    OBVIOUS
  <1>2. \A i \in 1..Len(p) : (p \o q)[i] = p[i]
    OBVIOUS
  <1>3. \A i \in 1..Len(q) : (p \o q)[Len(p) + i] = q[i]
    OBVIOUS
  <1> DEFINE s == p \o q
  <1>4. s \in Seq({0, 1})
    BY <1>1
  <1> HIDE DEF s
  <1>5. /\ s \o r \in Seq({0, 1}) /\ Len(s \o r) = Len(s) + Len(r)
        /\ \A i \in 1..Len(s) : (s \o r)[i] = s[i]
        /\ \A i \in 1..Len(r) : (s \o r)[Len(s) + i] = r[i]
    BY <1>4
  <1>6. /\ Len(s) = Len(p) + Len(q) /\ Len(p) \in Nat /\ Len(q) \in Nat
        /\ \A i \in 1..Len(p) : s[i] = p[i]
        /\ \A i \in 1..Len(q) : s[Len(p) + i] = q[i]
    BY <1>1, <1>2, <1>3 DEF s
  <1>7. /\ \A i \in 1..Len(p) : (s \o r)[i] = p[i]
        /\ \A i \in 1..Len(q) : (s \o r)[Len(p) + i] = q[i]
        /\ \A i \in 1..Len(r) : (s \o r)[Len(p) + Len(q) + i] = r[i]
    BY <1>5, <1>6
  <1>8. QED
    BY <1>5, <1>6, <1>7 DEF s

\* bits is op's request.
IsRequest(bits, op, a, w) ==
  /\ bits \in Seq({0, 1}) /\ Len(bits) = RequestLength(op)
  /\ \A i \in 1..Len(bits) : bits[i] = RequestBit(op, a, w, i)

LEMMA ReadRequestBits ==
  ASSUME game \in EepromType, NEW a \in Nat, NEW w
  PROVE  IsRequest(ReadRequest(a), "Read", a, w)
  <1> DEFINE n == AddrBits[game]
             p == <<1, 1>>
             q == Bits(a, n)
             r == <<0>>
             s == p \o q \o r
  <1>1. n \in Nat /\ n >= 1
    BY GameConstants
  <1>2. /\ p \in Seq({0, 1}) /\ Len(p) = 2 /\ p[1] = 1 /\ p[2] = 1
        /\ r \in Seq({0, 1}) /\ Len(r) = 1 /\ r[1] = 0
    OBVIOUS
  <1>3. q \in Seq({0, 1}) /\ Len(q) = n /\ \A i \in 1..n : q[i] = (a \div 2 ^ (n - i)) % 2
    <2>1. \A i \in 1..n : q[i] = (a \div 2 ^ (n - i)) % 2
      BY DEF Bits
    <2>2. QED
      BY <2>1, <1>1, BitsOfWord
  <1> HIDE DEF p, q, r
  <1>4. /\ s \in Seq({0, 1}) /\ Len(s) = n + 3
        /\ s[1] = 1 /\ s[2] = 1 /\ s[n + 3] = 0
        /\ \A i \in 1..n : s[2 + i] = q[i]
    <2>1. /\ s \in Seq({0, 1}) /\ Len(s) = Len(p) + Len(q) + Len(r)
          /\ \A i \in 1..Len(p) : s[i] = p[i]
          /\ \A i \in 1..Len(q) : s[Len(p) + i] = q[i]
          /\ \A i \in 1..Len(r) : s[Len(p) + Len(q) + i] = r[i]
      BY <1>2, <1>3, Joined
    <2> HIDE DEF s
    <2>2. s[2 + n + 1] = 0 /\ 2 + n + 1 = n + 3
      BY <2>1, <1>1, <1>2, <1>3
    <2>3. QED
      BY <2>1, <2>2, <1>1, <1>2, <1>3
  <1> HIDE DEF s
  <1>5. ASSUME NEW i \in 1..(n + 3)
        PROVE  s[i] = RequestBit("Read", a, w, i)
    <2>1. CASE i \in {1, 2}
      BY <2>1, <1>4 DEF RequestBit
    <2>2. CASE i \in 3..(n + 2)
      <3>1. i - 2 \in 1..n /\ 2 + (i - 2) = i
        BY <2>2, <1>1
      <3>2. s[i] = (a \div 2 ^ (n - (i - 2))) % 2
        BY <3>1, <1>3, <1>4
      <3>3. QED
        BY <3>2, <2>2 DEF RequestBit
    <2>3. CASE i = n + 3
      BY <2>3, <1>1, <1>4 DEF RequestBit
    <2>4. QED
      BY <2>1, <2>2, <2>3, <1>1
  <1>6. RequestLength("Read") = n + 3
    BY <1>1 DEF RequestLength, ReadLength
  <1>7. IsRequest(s, "Read", a, w)
    BY <1>4, <1>5, <1>6 DEF IsRequest
  <1>8. QED
    BY <1>7 DEF ReadRequest, s, p, q, r

LEMMA WriteRequestBits ==
  ASSUME game \in EepromType, NEW a \in Nat, NEW w \in Nat
  PROVE  IsRequest(WriteRequest(a, w), "Write", a, w)
  <1> DEFINE n == AddrBits[game]
             p == <<1, 0>>
             q == Bits(a, n)
             b == Bits(w, DataBits)
             r == <<0>>
             h == p \o q
             s == h \o b \o r
  <1>1. n \in Nat /\ n >= 1 /\ DataBits \in Nat /\ DataBits >= 2
    BY GameConstants
  <1>2. /\ p \in Seq({0, 1}) /\ Len(p) = 2 /\ p[1] = 1 /\ p[2] = 0
        /\ r \in Seq({0, 1}) /\ Len(r) = 1 /\ r[1] = 0
    OBVIOUS
  <1>3. q \in Seq({0, 1}) /\ Len(q) = n /\ \A i \in 1..n : q[i] = (a \div 2 ^ (n - i)) % 2
    <2>1. \A i \in 1..n : q[i] = (a \div 2 ^ (n - i)) % 2
      BY DEF Bits
    <2>2. QED
      BY <2>1, <1>1, BitsOfWord
  <1>4. /\ b \in Seq({0, 1}) /\ Len(b) = DataBits
        /\ \A i \in 1..DataBits : b[i] = (w \div 2 ^ (DataBits - i)) % 2
    <2>1. \A i \in 1..DataBits : b[i] = (w \div 2 ^ (DataBits - i)) % 2
      BY DEF Bits
    <2>2. QED
      BY <2>1, <1>1, BitsOfWord
  <1> HIDE DEF p, q, b, r
  <1>5. /\ h \in Seq({0, 1}) /\ Len(h) = n + 2 /\ h[1] = 1 /\ h[2] = 0
        /\ \A i \in 1..n : h[2 + i] = q[i]
    <2>1. /\ h \in Seq({0, 1}) /\ Len(h) = Len(p) + Len(q)
          /\ \A i \in 1..Len(p) : h[i] = p[i]
          /\ \A i \in 1..Len(q) : h[Len(p) + i] = q[i]
      BY <1>2, <1>3, JoinedTwo
    <2> HIDE DEF h
    <2>2. QED
      BY <2>1, <1>1, <1>2, <1>3
  <1> HIDE DEF h
  <1>6. /\ s \in Seq({0, 1}) /\ Len(s) = n + 2 + DataBits + 1
        /\ \A i \in 1..(n + 2) : s[i] = h[i]
        /\ \A i \in 1..DataBits : s[n + 2 + i] = b[i]
        /\ s[n + 2 + DataBits + 1] = 0
    <2>1. /\ s \in Seq({0, 1}) /\ Len(s) = Len(h) + Len(b) + Len(r)
          /\ \A i \in 1..Len(h) : s[i] = h[i]
          /\ \A i \in 1..Len(b) : s[Len(h) + i] = b[i]
          /\ \A i \in 1..Len(r) : s[Len(h) + Len(b) + i] = r[i]
      BY <1>2, <1>4, <1>5, Joined
    <2> HIDE DEF s
    <2>2. s[n + 2 + DataBits + 1] = 0
      BY <2>1, <1>1, <1>2, <1>4, <1>5
    <2>3. QED
      BY <2>1, <2>2, <1>1, <1>2, <1>4, <1>5
  <1> HIDE DEF s
  <1>7. ASSUME NEW i \in 1..(n + 3 + DataBits)
        PROVE  s[i] = RequestBit("Write", a, w, i)
    <2>1. CASE i \in {1, 2}
      <3>1. i \in 1..(n + 2) /\ s[i] = h[i] /\ i \notin 3..(n + 2) /\ i \notin (n + 3)..(n + 2 + DataBits)
        BY <2>1, <1>1, <1>6
      <3>2. QED
        BY <3>1, <2>1, <1>5 DEF RequestBit
    <2>2. CASE i \in 3..(n + 2)
      <3>1. i - 2 \in 1..n /\ 2 + (i - 2) = i /\ i \in 1..(n + 2)
        BY <2>2, <1>1
      <3>2. s[i] = (a \div 2 ^ (n - (i - 2))) % 2
        BY <3>1, <1>3, <1>5, <1>6
      <3>3. i # 1 /\ i # 2 /\ i \notin (n + 3)..(n + 2 + DataBits)
        BY <2>2, <1>1
      <3>4. QED
        BY <3>2, <3>3, <2>2 DEF RequestBit
    <2>3. CASE i \in (n + 3)..(n + 2 + DataBits)
      <3>1. i - n - 2 \in 1..DataBits /\ (n + 2) + (i - n - 2) = i /\ i \notin 3..(n + 2) /\ i > 2
        BY <2>3, <1>1
      <3>2. s[i] = (w \div 2 ^ (DataBits - (i - n - 2))) % 2
        BY <3>1, <1>4, <1>6
      <3>3. QED
        BY <3>1, <3>2, <2>3 DEF RequestBit
    <2>4. CASE i = n + 3 + DataBits
      <3>1. i = n + 2 + DataBits + 1 /\ i \notin (n + 3)..(n + 2 + DataBits) /\ i \notin 3..(n + 2) /\ i > 2
        BY <2>4, <1>1
      <3>2. QED
        BY <3>1, <1>6 DEF RequestBit
    <2>5. QED
      BY <2>1, <2>2, <2>3, <2>4, <1>1
  <1>8. RequestLength("Write") = n + 3 + DataBits
    BY <1>1 DEF RequestLength, WriteLength
  <1>9. n + 2 + DataBits + 1 = n + 3 + DataBits
    BY <1>1
  <1>10. IsRequest(s, "Write", a, w)
    BY <1>6, <1>7, <1>8, <1>9 DEF IsRequest
  <1>11. QED
    BY <1>10 DEF WriteRequest, s, h, p, q, b, r

\* The four lengths tell the type.
LEMMA LengthTellsType ==
  ASSUME game \in EepromType, NEW count \in {ReadLength(game), WriteLength(game)}
  PROVE  TypeOfTransfer(count) = {game}
  <1> DEFINE r1 == ReadLength(Eeprom512)
             w1 == WriteLength(Eeprom512)
             r2 == ReadLength(Eeprom8k)
             w2 == WriteLength(Eeprom8k)
  <1>1. UNION {{ReadLength(t), WriteLength(t)} : t \in EepromType} = {r1, w1, r2, w2}
    BY DEF EepromType
  <1>2. Cardinality({r1, w1, r2, w2}) = 4
    BY <1>1, EepromAssumption
  <1> HIDE DEF r1, w1, r2, w2
  <1>3. ASSUME NEW x, NEW y, NEW z
        PROVE  IsFiniteSet({x, y, z}) /\ Cardinality({x, y, z}) \in 0..3
    <2>1. IsFiniteSet({x}) /\ Cardinality({x}) = 1
      BY FS_Singleton
    <2> DEFINE two == {x} \cup {y}
               three == two \cup {z}
    <2>2. IsFiniteSet(two) /\ Cardinality(two) \in {1, 2}
      <3>1. /\ IsFiniteSet(two)
            /\ Cardinality(two) = IF y \in {x} THEN Cardinality({x}) ELSE Cardinality({x}) + 1
        BY <2>1, FS_AddElement
      <3>2. QED
        BY <2>1, <3>1
    <2> HIDE DEF two
    <2>3. IsFiniteSet(three) /\ Cardinality(three) \in 0..3
      <3>1. /\ IsFiniteSet(three)
            /\ Cardinality(three) = IF z \in two THEN Cardinality(two) ELSE Cardinality(two) + 1
        BY <2>2, FS_AddElement
      <3>2. QED
        BY <2>2, <3>1
    <2>4. three = {x, y, z}
      BY DEF two
    <2>5. QED
      BY <2>3, <2>4
  <1>4. r1 # r2 /\ r1 # w2 /\ w1 # r2 /\ w1 # w2
    <2>1. ASSUME r1 = r2 \/ r1 = w2
          PROVE  FALSE
      <3>1. {r1, w1, r2, w2} = {w1, r2, w2}
        BY <2>1
      <3>2. Cardinality({w1, r2, w2}) = 4
        BY <3>1, <1>2, Zenon
      <3>3. Cardinality({w1, r2, w2}) \in 0..3
        BY <1>3
      <3>4. QED
        BY <3>2, <3>3
    <2>2. ASSUME w1 = r2 \/ w1 = w2
          PROVE  FALSE
      <3>1. {r1, w1, r2, w2} = {r1, r2, w2}
        BY <2>2
      <3>2. Cardinality({r1, r2, w2}) = 4
        BY <3>1, <1>2, Zenon
      <3>3. Cardinality({r1, r2, w2}) \in 0..3
        BY <1>3
      <3>4. QED
        BY <3>2, <3>3
    <2>3. QED
      BY <2>1, <2>2
  <1>5. game = Eeprom512 \/ game = Eeprom8k
    BY DEF EepromType
  <1>6. CASE game = Eeprom512
    BY <1>4, <1>6 DEF TypeOfTransfer, EepromType, r1, w1, r2, w2
  <1>7. CASE game = Eeprom8k
    BY <1>4, <1>7 DEF TypeOfTransfer, EepromType, r1, w1, r2, w2
  <1>8. QED
    BY <1>5, <1>6, <1>7

LEMMA NewChipIsChip ==
  ASSUME NEW t \in EepromType
  PROVE  /\ NewChip(t) \in Chips /\ NewChip(t).type = t /\ NewChip(t).state = RxInstruction
         /\ NewChip(t).rx_count = 0 /\ NewChip(t).rx_buffer = 0 /\ ~IsTransmitting(NewChip(t))
  <1>1. /\ NewChip(t) \in Chips /\ NewChip(t).type = t /\ NewChip(t).state = RxInstruction
        /\ NewChip(t).rx_count = 0 /\ NewChip(t).rx_buffer = 0
    BY DEF NewChip, Chips, ChipStates
  <1>2. QED
    BY <1>1, StateNames DEF IsTransmitting

LEMMA ResetIsChip ==
  ASSUME NEW c \in Chips
  PROVE  /\ ResetChip(c) \in Chips /\ ResetChip(c).type = c.type
         /\ ResetChip(c).state = RxInstruction /\ ResetChip(c).ready = c.ready
         /\ ResetChip(c).rx_count = 0 /\ ResetChip(c).rx_buffer = 0 /\ ~IsTransmitting(ResetChip(c))
  <1>1. /\ ResetChip(c) \in Chips /\ ResetChip(c).type = c.type
        /\ ResetChip(c).state = RxInstruction /\ ResetChip(c).ready = c.ready
        /\ ResetChip(c).rx_count = 0 /\ ResetChip(c).rx_buffer = 0
    BY DEF ResetChip, RxReset, TxReset, Chips, ChipStates
  <1>2. QED
    BY <1>1, StateNames DEF IsTransmitting

\* on_dma3_transfer before a request: afterwards the chip is of the game's type
\* and waits for an instruction, unless it is still in the middle of an answer.
LEMMA TransferBegins ==
  ASSUME EepromInv, process = "on", NEW count \in Nat, OnDma3Transfer("to", count),
         detect => count \in {ReadLength(game), WriteLength(game)}
  PROVE  /\ process' = process /\ path' = path /\ detect' = FALSE
         /\ chip' \in Chips /\ chip'.type = game /\ IsMemory(buffer', Words[game])
         /\ IsTransmitting(chip') =>
              /\ IsTransmitting(chip) /\ ~detect
              /\ chip'.address = chip.address /\ chip'.address \in 0..(Words[game] - 1)
         /\ ~IsTransmitting(chip') =>
              chip'.state = RxInstruction /\ chip'.rx_count = 0 /\ chip'.rx_buffer = 0
         /\ path => file' = buffer'
         /\ ~path => file' = file
         /\ ~detect => UNCHANGED <<file, buffer>>
         /\ CellsInv'
  <1>0. game \in EepromType /\ Words[game] \in Nat /\ Words[game] >= 1
    BY GameConstants DEF EepromInv
  <1>1. CASE detect
    <2>1. LearnType(count) /\ DetectInv
      BY <1>1 DEF OnDma3Transfer, EepromInv
    <2>2. TypeOfTransfer(count) = {game}
      BY <1>0, <1>1, LengthTellsType
    <2>3. /\ chip' = [chip EXCEPT !.type = game] /\ ResizeBackup(Words[game])
          /\ detect' = FALSE /\ process' = process
      BY <2>1, <2>2 DEF LearnType
    <2>4. /\ chip' \in Chips /\ chip'.type = game /\ chip'.state = RxInstruction
          /\ chip'.rx_count = 0 /\ chip'.rx_buffer = 0
      <3>1. chip = NewChip(Eeprom512) /\ Eeprom512 \in EepromType
        BY <2>1 DEF DetectInv, EepromType
      <3>2. /\ chip \in Chips /\ chip.state = RxInstruction
            /\ chip.rx_count = 0 /\ chip.rx_buffer = 0
        BY <3>1, NewChipIsChip
      <3>3. QED
        BY <3>2, <2>3, <1>0 DEF Chips
    <2>5. ~IsTransmitting(chip')
      BY <2>4, StateNames DEF IsTransmitting
    <2>6. IsMemory(buffer', Words[game])
      BY <2>3, <1>0, NewMemory DEF ResizeBackup
    <2>7. ASSUME path
          PROVE  file' = buffer'
      <3>1. IsMemory(file, Words[Eeprom512]) /\ file' = Flushed(buffer')
        BY <1>1, <2>1, <2>3, <2>7 DEF EepromInv, DetectInv, ResizeBackup
      <3>2. Words[Eeprom512] \in Nat /\ Words[Eeprom512] <= Words[game]
        BY <1>0, EepromAssumption DEF EepromType
      <3>3. Flushed(buffer') = buffer'
        BY <2>6, <3>1, <3>2, <1>0, FlushedWhole
      <3>4. QED
        BY <3>1, <3>3
    <2>8. path' = path /\ (~path => file' = file)
      BY <2>3 DEF ResizeBackup
    <2>9. CellsInv'
      <3>1. \A i \in DOMAIN buffer' : buffer'[i] \in Cell
        BY <2>3, BackupAssumption DEF ResizeBackup, Resized, EepromInv, CellsInv
      <3>2. \A i \in DOMAIN file' : file'[i] \in Cell
        BY <3>1, <2>7, <2>8 DEF EepromInv, CellsInv
      <3>3. QED
        BY <3>1, <3>2 DEF CellsInv
    <2>10. QED
      BY <2>3, <2>4, <2>5, <2>6, <2>7, <2>8, <2>9, <1>1
  <1>2. CASE ~detect
    <2>1. ResetIfDirty /\ CommandInv
      BY <1>2 DEF OnDma3Transfer, EepromInv
    <2>2. /\ chip' = IF IsTransmitting(chip) THEN chip ELSE ResetChip(chip)
          /\ UNCHANGED <<process, detect, path, file, buffer>>
      BY <2>1 DEF ResetIfDirty, ChipBecomes, backupVars
    <2>3. chip \in Chips /\ chip.type = game /\ IsMemory(buffer, Words[game])
      BY <2>1 DEF CommandInv, Speaks
    <2>4. IsTransmitting(chip) => chip.address \in 0..(Words[game] - 1)
      BY <2>1 DEF CommandInv, Speaks
    <2>5. path => file = buffer
      BY DEF EepromInv
    <2>6. CellsInv'
      BY <2>2 DEF EepromInv, CellsInv
    <2>7. CASE IsTransmitting(chip)
      BY <2>2, <2>3, <2>4, <2>5, <2>6, <2>7, <1>2 DEF EepromInv
    <2>8. CASE ~IsTransmitting(chip)
      BY <2>2, <2>3, <2>5, <2>6, <2>8, <1>2, ResetIsChip DEF EepromInv
    <2>9. QED
      BY <2>7, <2>8
  <1>3. QED
    BY <1>1, <1>2 DEF EepromInv

-----------------------------------------------------------------------------
(* Each step of the game keeps the invariant. *)

LEMMA SnapshotIsKept ==
  ASSUME SnapshotInv, UNCHANGED <<snapshot, game>>
  PROVE  SnapshotInv'
  BY DEF SnapshotInv, Speaks

\* What a transfer of the game may bring: a request, or the start of a write.
Asks(bits, request, op, a, w) ==
  /\ bits \in Seq({0, 1}) /\ bits # <<>> /\ Len(bits) <= RequestLength(op)
  /\ \A i \in 1..Len(bits) : bits[i] = RequestBit(op, a, w, i)
  /\ \/ op = "Read" /\ request = AskedRead(a) /\ Len(bits) = RequestLength(op)
     \/ op = "Write" /\ request = AskedWrite(a, w) /\ Len(bits) = RequestLength(op)
     \/ op = "Write" /\ request = Nothing /\ Len(bits) < RequestLength(op) - 1 /\ ~detect

LEMMA SendKeeps ==
  ASSUME EepromInv, process = "on", fetching = 0, NEW op \in {"Read", "Write"},
         NEW a \in GameAddresses[game], NEW w \in Cell, NEW bits, NEW request,
         Asks(bits, request, op, a, w), Send(bits, request)
  PROVE  EepromInv' /\ process' = "on" /\ detect' = FALSE
  <1>1. /\ OnDma3Transfer("to", Len(bits)) /\ Len(bits) \in Nat
        /\ wire' = bits /\ asked' = request /\ UNCHANGED <<fetching, game, snapshot>>
    BY DEF Send, Asks
  <1>2. detect => Len(bits) \in {ReadLength(game), WriteLength(game)}
    BY DEF Asks, RequestLength
  <1>3. /\ process' = process /\ path' = path /\ detect' = FALSE
        /\ chip' \in Chips /\ chip'.type = game /\ IsMemory(buffer', Words[game])
        /\ IsTransmitting(chip') => chip'.address \in 0..(Words[game] - 1)
        /\ ~IsTransmitting(chip') =>
             chip'.state = RxInstruction /\ chip'.rx_count = 0 /\ chip'.rx_buffer = 0
        /\ path => file' = buffer'
        /\ ~path => file' = file
        /\ CellsInv'
    BY <1>1, <1>2, TransferBegins
  <1>4. Speaks(chip)' /\ IsMemory(buffer, Words[game])'
    BY <1>1, <1>3 DEF Speaks, IsTransmitting
  <1>5. WireInv'
    <2>1. wire' \in Seq({0, 1})
      BY <1>1 DEF Asks
    <2>2. ASSUME ~IsTransmitting(chip')
          PROVE  Underway(op, a, w, 0)'
      <3>1. HasReceived(chip, op, a, w, 0)'
        BY <1>3, <2>2 DEF HasReceived
      <3>2. 0 + Len(bits) = Len(bits)
        BY <1>1
      <3>3. /\ RequestLength(op)' = RequestLength(op)
            /\ \A i \in 1..Len(bits) : RequestBit(op, a, w, 0 + i)' = RequestBit(op, a, w, i)
        BY <1>1 DEF RequestLength, ReadLength, WriteLength, RequestBit
      <3>4. QED
        BY <1>1, <3>1, <3>2, <3>3 DEF Underway, Asks
    <2>3. 0 \in Nat /\ a \in GameAddresses'[game'] /\ w \in Cell'
      BY <1>1
    <2>4. QED
      BY <2>1, <2>2, <2>3, <1>1 DEF WireInv, IsTransmitting
  <1>6. SnapshotInv'
    BY <1>1, SnapshotIsKept DEF EepromInv
  <1>7. QED
    BY <1>1, <1>3, <1>4, <1>5, <1>6 DEF EepromInv, CommandInv

LEMMA GameAsks ==
  ASSUME game \in EepromType, NEW a \in GameAddresses[game], NEW w \in GameWords[game][a]
  PROVE  /\ a \in 0..(Words[game] - 1) /\ a \in Nat /\ w \in Cell /\ w \in Nat
         /\ Asks(WriteRequest(a, w), AskedWrite(a, w), "Write", a, w)
         /\ \A n \in PartLengths : ~detect =>
              Asks(SubSeq(WriteRequest(a, w), 1, n), Nothing, "Write", a, w)
  <1>1. a \in 0..(Words[game] - 1) /\ w \in Cell
    BY SessionAssumption
  <1>2. /\ Words[game] \in Nat /\ AddrBits[game] \in Nat /\ DataBits \in Nat
        /\ w \in 0..(2 ^ DataBits - 1)
    BY <1>1, GameConstants
  <1>3. a \in Nat /\ w \in Nat
    BY <1>1, <1>2
  <1>4. IsRequest(WriteRequest(a, w), "Write", a, w)
    BY <1>3, WriteRequestBits
  <1>5. RequestLength("Write") = AddrBits[game] + 3 + DataBits
    BY <1>2 DEF RequestLength, WriteLength
  <1> HIDE DEF IsRequest
  <1>7. Asks(WriteRequest(a, w), AskedWrite(a, w), "Write", a, w)
    BY <1>2, <1>4, <1>5 DEF IsRequest, Asks
  <1>8. ASSUME NEW n \in PartLengths, ~detect
        PROVE  Asks(SubSeq(WriteRequest(a, w), 1, n), Nothing, "Write", a, w)
    <2> DEFINE s == WriteRequest(a, w)
    <2>1. n \in Nat \ {0} /\ n < RequestLength("Write") - 1
      BY SessionAssumption DEF RequestLength
    <2>2. s \in Seq({0, 1}) /\ Len(s) = RequestLength("Write")
      BY <1>4 DEF IsRequest
    <2>3. \A i \in 1..Len(s) : s[i] = RequestBit("Write", a, w, i)
      BY <1>4 DEF IsRequest
    <2> HIDE DEF s
    <2>4. /\ SubSeq(s, 1, n) \in Seq({0, 1}) /\ Len(SubSeq(s, 1, n)) = n
          /\ \A i \in 1..n : SubSeq(s, 1, n)[i] = s[i]
      BY <2>1, <2>2, <1>2, <1>5
    <2>5. /\ SubSeq(s, 1, n) # <<>>
          /\ \A i \in 1..n : SubSeq(s, 1, n)[i] = RequestBit("Write", a, w, i)
      BY <2>1, <2>2, <2>3, <2>4, <1>2, <1>5
    <2> DEFINE u == SubSeq(s, 1, n)
    <2>6. u \in Seq({0, 1}) /\ u # <<>> /\ Len(u) = n
      BY <2>4, <2>5
    <2>7. \A i \in 1..Len(u) : u[i] = RequestBit("Write", a, w, i)
      BY <2>4, <2>5
    <2> HIDE DEF u
    <2>8. Len(u) <= RequestLength("Write") /\ Len(u) < RequestLength("Write") - 1
      BY <2>1, <2>6, <1>2, <1>5
    <2>9. Asks(u, Nothing, "Write", a, w)
      BY <2>6, <2>7, <2>8, <1>8 DEF Asks
    <2>10. QED
      BY <2>9 DEF u, s
  <1>9. QED
    BY <1>1, <1>3, <1>7, <1>8

LEMMA AskKeeps ==
  ASSUME EepromInv, NEW a \in GameAddresses[game],
         \/ AskRead(a)
         \/ \E w \in GameWords[game][a] : AskWrite(a, w)
         \/ \E w \in GameWords[game][a], n \in PartLengths : AskInPart(a, w, n)
  PROVE  EepromInv'
  <1>1. game \in EepromType
    BY DEF EepromInv
  <1>2. CASE AskRead(a)
    <2>1. process = "on" /\ fetching = 0 /\ Send(ReadRequest(a), AskedRead(a))
      BY <1>2 DEF AskRead, MayAsk, Idle
    <2>2. Erased \in Cell /\ Asks(ReadRequest(a), AskedRead(a), "Read", a, Erased)
      <3>1. a \in 0..(Words[game] - 1) /\ Words[game] \in Nat /\ AddrBits[game] \in Nat
        BY <1>1, SessionAssumption, GameConstants
      <3>2. a \in Nat
        BY <3>1
      <3>3. IsRequest(ReadRequest(a), "Read", a, Erased)
        BY <1>1, <3>2, ReadRequestBits
      <3>4. RequestLength("Read") = AddrBits[game] + 3
        BY <3>1 DEF RequestLength, ReadLength
      <3>5. QED
        BY <3>1, <3>3, <3>4, BackupAssumption DEF IsRequest, Asks
    <2>3. QED
      BY <2>1, <2>2, SendKeeps
  <1>3. CASE \E w \in GameWords[game][a] : AskWrite(a, w)
    <2>1. PICK w \in GameWords[game][a] : AskWrite(a, w)
      BY <1>3
    <2>2. process = "on" /\ fetching = 0 /\ Send(WriteRequest(a, w), AskedWrite(a, w))
      BY <2>1 DEF AskWrite, MayAsk, Idle
    <2>3. QED
      BY <1>1, <2>2, GameAsks, SendKeeps
  <1>4. CASE \E w \in GameWords[game][a], n \in PartLengths : AskInPart(a, w, n)
    <2>1. PICK w \in GameWords[game][a], n \in PartLengths : AskInPart(a, w, n)
      BY <1>4
    <2>2. process = "on" /\ fetching = 0 /\ ~detect /\ Send(SubSeq(WriteRequest(a, w), 1, n), Nothing)
      BY <2>1 DEF AskInPart, MayAsk, Idle
    <2>3. QED
      BY <1>1, <2>2, GameAsks, SendKeeps
  <1>5. QED
    BY <1>2, <1>3, <1>4

\* A step that changes no more than the chip and what the game is about.
LEMMA ChipStepKeeps ==
  ASSUME EepromInv, process = "on", ~detect, Speaks(chip'), WireInv',
         fetching' \in Nat, fetching' = 0 \/ wire' = <<>>,
         UNCHANGED <<process, detect, path, file, buffer, game, snapshot>>
  PROVE  EepromInv'
  <1>1. Speaks(chip)' /\ IsMemory(buffer, Words[game])'
    BY DEF EepromInv, CommandInv, Speaks, IsTransmitting
  <1>2. SnapshotInv' /\ CellsInv'
    BY SnapshotIsKept DEF EepromInv, CellsInv
  <1>3. QED
    BY <1>1, <1>2 DEF EepromInv, CommandInv

LEMMA DirtyIsReset ==
  ASSUME EepromInv, process = "on", ~detect, ResetIfDirty
  PROVE  Speaks(chip') /\ UNCHANGED <<process, detect, path, file, buffer>>
  <1>1. Speaks(chip) /\ chip \in Chips
    BY DEF EepromInv, CommandInv, Speaks
  <1>2. /\ chip' = IF IsTransmitting(chip) THEN chip ELSE ResetChip(chip)
        /\ UNCHANGED <<process, detect, path, file, buffer>>
    BY DEF ResetIfDirty, ChipBecomes, backupVars
  <1>3. Speaks(ResetChip(chip))
    BY <1>1, ResetIsChip DEF Speaks
  <1>4. QED
    BY <1>1, <1>2, <1>3

\* What a read of one bit does to a chip whose size is known.
LEMMA ReadHalfKeeps ==
  ASSUME EepromInv, process = "on", ~detect, ReadHalf
  PROVE  Speaks(chip') /\ UNCHANGED <<process, detect, path, file, buffer>>
  <1>0. /\ Speaks(chip) /\ chip \in Chips /\ chip.type = game /\ game \in EepromType
        /\ IsMemory(buffer, Words[game]) /\ Words[game] \in Nat
        /\ chip.tx_count + 1 \in Nat
        /\ DataBits \in Nat /\ 2 ^ DataBits \in Nat /\ 2 ^ DataBits >= 4
    BY GameConstants DEF EepromInv, CommandInv, Speaks, Chips
  <1>1. CASE SendDummy
    <2> DEFINE c == [chip EXCEPT !.tx_count = chip.tx_count + 1]
    <2>1. IsTransmitting(chip) /\ chip.state = TxDummy
      BY <1>1 DEF SendDummy, IsTransmitting
    <2>2. chip.address \in 0..(Words[game] - 1) /\ chip.address \in DOMAIN buffer
      BY <2>1, <1>0, MemoryLength DEF Speaks
    <2>3. c \in Chips /\ c.type = game /\ c.address = chip.address /\ c.state = TxDummy
      BY <1>0, <2>1 DEF Chips
    <2>4. \/ chip' = c
          \/ chip' = [c EXCEPT !.state = TxData, !.tx_buffer = buffer[chip.address], !.tx_count = 0]
      BY <1>0, <1>1, <2>2 DEF SendDummy, ChipBecomes, Chips
    <2>5. UNCHANGED <<process, detect, path, file, buffer>>
      BY <1>1, <2>2 DEF SendDummy, ChipBecomes, backupVars
    <2>6. buffer[chip.address] \in Nat
      BY <2>2, EepromAssumption DEF EepromInv, CellsInv
    <2> HIDE DEF c
    <2>7. chip' \in Chips /\ chip'.type = game /\ chip'.address = chip.address
      <3> DEFINE v == buffer[chip.address]
      <3>1. v \in Nat
        BY <2>6
      <3> HIDE DEF v
      <3>2. CASE chip' = [c EXCEPT !.state = TxData, !.tx_buffer = v, !.tx_count = 0]
        BY <2>3, <3>1, <3>2 DEF Chips, ChipStates
      <3>3. QED
        BY <2>3, <2>4, <3>2 DEF v
    <2>8. QED
      BY <2>2, <2>5, <2>7 DEF Speaks
  <1>2. CASE SendData
    <2> DEFINE b == (2 * chip.tx_buffer) % 2 ^ DataBits
               c == [chip EXCEPT !.tx_buffer = b, !.tx_count = chip.tx_count + 1]
    <2>1. IsTransmitting(chip) /\ chip.state = TxData
      BY <1>2 DEF SendData, IsTransmitting
    <2>2. chip.address \in 0..(Words[game] - 1)
      BY <2>1, <1>0 DEF Speaks
    <2>3. b \in Nat
      <3> DEFINE d == 2 ^ DataBits
      <3>1. d \in Nat /\ d >= 4 /\ chip.tx_buffer \in Nat
        BY <1>0 DEF Chips
      <3> HIDE DEF d
      <3>2. (2 * chip.tx_buffer) % d \in Nat
        BY <3>1
      <3>3. QED
        BY <3>2 DEF d
    <2>4. /\ chip' = IF c.tx_count = DataBits THEN ResetChip(c) ELSE c
          /\ UNCHANGED <<process, detect, path, file, buffer>>
      BY <1>0, <1>2 DEF SendData, ChipBecomes, backupVars, Chips
    <2> HIDE DEF b
    <2>5. c \in Chips /\ c.type = game /\ c.address = chip.address
      BY <1>0, <2>3 DEF Chips
    <2> HIDE DEF c
    <2>6. Speaks(c) /\ Speaks(ResetChip(c))
      BY <2>2, <2>5, ResetIsChip DEF Speaks
    <2>7. QED
      BY <2>4, <2>6
  <1>3. CASE SendReady
    BY <1>0, <1>3 DEF SendReady, ChipBecomes, backupVars
  <1>4. QED
    BY <1>1, <1>2, <1>3 DEF ReadHalf

LEMMA IdleKeeps ==
  ASSUME EepromInv,
         (\E n \in FetchLengths : Fetch(n)) \/ OtherDma3 \/ ClockOut \/ Poll
  PROVE  EepromInv'
  <1>1. CASE \E n \in FetchLengths : Fetch(n)
    <2>1. PICK n \in FetchLengths : Fetch(n)
      BY <1>1
    <2>2. process = "on" /\ wire = <<>> /\ asked[1] = "read"
      BY <2>1 DEF Fetch, Idle
    <2>3. ~detect
      BY <2>2 DEF EepromInv, DetectInv, Nothing
    <2>4. ResetIfDirty
      BY <2>1, <2>3 DEF Fetch, OnDma3Transfer
    <2>5. n \in Nat
      BY GameConstants, SessionAssumption DEF EepromInv
    <2>6. fetching' = n /\ UNCHANGED <<wire, game, snapshot>>
      BY <2>1 DEF Fetch
    <2>7. WireInv' /\ wire' = <<>>
      BY <2>2, <2>6 DEF WireInv
    <2>8. QED
      BY <2>2, <2>3, <2>4, <2>5, <2>6, <2>7, DirtyIsReset, ChipStepKeeps
  <1>2. CASE OtherDma3
    <2>1. /\ process = "on" /\ wire = <<>>
          /\ UNCHANGED <<game, wire, fetching, asked, answer, snapshot>>
      BY <1>2 DEF OtherDma3, Idle, gameVars
    <2>2. CASE detect
      <3>1. UNCHANGED <<process, chip, detect, path, file, buffer>>
        BY <2>2, <1>2 DEF OtherDma3, OnDma3Transfer, eepromVars, backupVars
      <3>2. DetectInv'
        BY <2>1, <2>2, <3>1 DEF EepromInv, DetectInv
      <3>3. SnapshotInv' /\ CellsInv'
        BY <2>1, <3>1, SnapshotIsKept DEF EepromInv, CellsInv
      <3>4. QED
        BY <2>1, <2>2, <3>1, <3>2, <3>3 DEF EepromInv
    <2>3. CASE ~detect
      <3>1. ResetIfDirty
        BY <2>3, <1>2 DEF OtherDma3, OnDma3Transfer
      <3>2. WireInv' /\ fetching' \in Nat /\ wire' = <<>>
        BY <2>1 DEF WireInv, EepromInv
      <3>3. QED
        BY <2>1, <2>3, <3>1, <3>2, DirtyIsReset, ChipStepKeeps
    <2>4. QED
      BY <2>2, <2>3
  <1>3. CASE ClockOut
    <2>1. /\ process = "on" /\ fetching > 0 /\ ReadHalf /\ fetching' = fetching - 1
          /\ UNCHANGED <<wire, game, snapshot>>
      BY <1>3 DEF ClockOut
    <2>2. ~detect
      BY <2>1 DEF EepromInv, DetectInv
    <2>3. WireInv' /\ fetching' \in Nat /\ wire' = <<>>
      <3>1. fetching \in Nat /\ wire = <<>>
        BY <2>1 DEF EepromInv
      <3>2. fetching' \in Nat /\ wire' = <<>>
        BY <3>1, <2>1
      <3>3. QED
        BY <3>2 DEF WireInv
    <2>4. QED
      BY <2>1, <2>2, <2>3, ReadHalfKeeps, ChipStepKeeps
  <1>4. CASE Poll
    <2>1. /\ process = "on" /\ wire = <<>> /\ asked[1] = "write" /\ ReadHalf
          /\ UNCHANGED <<wire, fetching, game, snapshot>>
      BY <1>4 DEF Poll, Idle
    <2>2. ~detect
      BY <2>1 DEF EepromInv, DetectInv, Nothing
    <2>3. WireInv' /\ fetching' \in Nat /\ wire' = <<>>
      BY <2>1 DEF WireInv, EepromInv
    <2>4. QED
      BY <2>1, <2>2, <2>3, ReadHalfKeeps, ChipStepKeeps
  <1>5. QED
    BY <1>1, <1>2, <1>3, <1>4

\* Tail of a request on its way.
LEMMA TailOfBits ==
  ASSUME NEW s \in Seq({0, 1}), s # <<>>
  PROVE  /\ Tail(s) \in Seq({0, 1}) /\ Len(Tail(s)) = Len(s) - 1 /\ Len(s) >= 1
         /\ \A i \in 1..(Len(s) - 1) : Tail(s)[i] = s[i + 1]
         /\ Head(s) = s[1] /\ Head(s) \in {0, 1}
  OBVIOUS

\* A chip in the middle of an answer pays the bit no attention.
LEMMA IgnoredBit ==
  ASSUME EepromInv, process = "on", ~detect, wire # <<>>, IsTransmitting(chip),
         WriteHalf(Head(wire))
  PROVE  /\ Speaks(chip') /\ IsTransmitting(chip') /\ chip'.address = chip.address
         /\ UNCHANGED <<process, detect, path, file, buffer>>
  <1> DEFINE c == ShiftedIn(Head(wire))
  <1>1. /\ game \in EepromType /\ Speaks(chip) /\ chip \in Chips /\ chip.type = game
        /\ wire \in Seq({0, 1})
    BY DEF EepromInv, CommandInv, Speaks, WireInv
  <1>2. /\ c \in Chips /\ c.type = game /\ c.state = chip.state /\ c.address = chip.address
    BY <1>1, GameConstants, TailOfBits, ShiftedChip
  <1>3. IsTransmitting(c)
    BY <1>2 DEF IsTransmitting
  <1>4. IgnoreBit(c)
    <2>1. Arms(c)
      BY DEF WriteHalf, Arms
    <2>2. QED
      BY <2>1, <1>3, ArmOfState
  <1> HIDE DEF c
  <1>5. chip' = c /\ UNCHANGED <<process, detect, path, file, buffer>>
    BY <1>4 DEF IgnoreBit, ChipBecomes, backupVars
  <1>6. Speaks(c)
    BY <1>1, <1>2, <1>3 DEF Speaks, IsTransmitting
  <1>7. QED
    BY <1>2, <1>3, <1>5, <1>6

LEMMA RequestLengthIsNat ==
  ASSUME game \in EepromType, NEW op
  PROVE  RequestLength(op) \in Nat
  <1>1. AddrBits[game] \in Nat /\ DataBits \in Nat
    BY GameConstants
  <1>2. QED
    BY <1>1 DEF RequestLength, ReadLength, WriteLength

LEMMA ComesIn ==
  ASSUME EepromInv, process = "on", ~detect, wire # <<>>, WriteHalf(Head(wire)),
         NEW op \in {"Read", "Write"}, NEW a \in GameAddresses[game], NEW w \in Cell,
         NEW k \in Nat, Underway(op, a, w, k)
  PROVE  TookBit(op, a, w, k + 1) /\ k < RequestLength(op) /\ a \in 0..(Words[game] - 1)
  <1>1. /\ game \in EepromType /\ Speaks(chip) /\ wire \in Seq({0, 1})
        /\ IsMemory(buffer, Words[game]) /\ a \in 0..(Words[game] - 1)
    BY SessionAssumption DEF EepromInv, CommandInv, WireInv
  <1>2. Head(wire) = wire[1] /\ Len(wire) >= 1 /\ Len(wire) \in Nat
    BY <1>1, TailOfBits
  <1>3. RequestLength(op) \in Nat
    BY <1>1, RequestLengthIsNat
  <1>4. k < RequestLength(op) /\ Head(wire) = RequestBit(op, a, w, k + 1)
    BY <1>2, <1>3 DEF Underway
  <1>5. Coming(op, a, w, k)
    BY <1>1, <1>4 DEF Coming, Underway
  <1>6. QED
    BY <1>1, <1>4, <1>5, TakesBit

LEMMA WrittenBackup ==
  ASSUME EepromInv, process = "on", ~detect, NEW a \in 0..(Words[game] - 1), NEW w \in Cell,
         WriteBackup(a, w)
  PROVE  /\ UNCHANGED path /\ IsMemory(buffer', Words[game]) /\ CellsInv'
         /\ path => file' = buffer'
         /\ ~path => file' = file
         /\ buffer' = [buffer EXCEPT ![a] = w]
  <1>1. /\ IsMemory(buffer, Words[game]) /\ Words[game] \in Nat /\ CellsInv
        /\ path => file = buffer
    BY GameConstants DEF EepromInv, CommandInv
  <1>2. /\ buffer' = [buffer EXCEPT ![a] = w] /\ UNCHANGED path
        /\ file' = IF path THEN [file EXCEPT ![a] = w] ELSE file
    BY DEF WriteBackup
  <1>3. IsMemory(buffer', Words[game])
    BY <1>1, <1>2, MemoryIsKept
  <1>4. CellsInv'
    BY <1>1, <1>2 DEF CellsInv
  <1>5. QED
    BY <1>1, <1>2, <1>3, <1>4

LEMMA ClockInKeeps ==
  ASSUME EepromInv, ClockIn
  PROVE  EepromInv'
  <1>1. /\ process = "on" /\ wire # <<>> /\ WriteHalf(Head(wire)) /\ wire' = Tail(wire)
        /\ UNCHANGED <<fetching, asked, game, snapshot>>
    BY DEF ClockIn
  <1>2. ~detect /\ fetching = 0 /\ wire \in Seq({0, 1}) /\ game \in EepromType
    BY <1>1 DEF EepromInv, DetectInv, CommandInv, WireInv
  <1>3. /\ wire' \in Seq({0, 1}) /\ Len(wire') = Len(wire) - 1 /\ Len(wire) \in Nat
        /\ \A i \in 1..Len(wire') : wire'[i] = wire[i + 1]
    BY <1>1, <1>2, TailOfBits
  <1>4. CASE IsTransmitting(chip)
    <2>1. /\ Speaks(chip') /\ IsTransmitting(chip')
          /\ UNCHANGED <<process, detect, path, file, buffer>>
      BY <1>1, <1>2, <1>4, IgnoredBit
    <2>2. WireInv'
      BY <2>1, <1>3 DEF WireInv, IsTransmitting
    <2>3. QED
      BY <2>1, <2>2, <1>1, <1>2, ChipStepKeeps
  <1>5. CASE ~IsTransmitting(chip)
    <2>1. PICK op \in {"Read", "Write"}, a \in GameAddresses[game], w \in Cell, k \in Nat :
            Underway(op, a, w, k)
      BY <1>1, <1>2, <1>5 DEF EepromInv, CommandInv, WireInv
    <2>2. TookBit(op, a, w, k + 1) /\ k < RequestLength(op) /\ a \in 0..(Words[game] - 1)
      BY <2>1, <1>1, <1>2, ComesIn
    <2>3. UNCHANGED <<process, detect, path>> /\ Speaks(chip')
      BY <2>2 DEF TookBit
    <2>4. RequestLength(op) \in Nat
      BY <1>2, RequestLengthIsNat
    <2>5. WireInv'
      <3>1. ASSUME wire' # <<>>
            PROVE  ~IsTransmitting(chip') /\ Underway(op, a, w, k + 1)'
        <4>1. Len(wire') >= 1
          BY <3>1, <1>3
        <4>2. k + 1 < RequestLength(op) /\ (k + 1) + Len(wire') = k + Len(wire)
          BY <4>1, <2>1, <2>4, <1>3 DEF Underway
        <4>3. ~IsTransmitting(chip') /\ HasReceived(chip', op, a, w, k + 1)
          BY <4>2, <2>2 DEF TookBit
        <4>4. HasReceived(chip, op, a, w, k + 1)'
          BY <4>3, <1>1 DEF HasReceived
        <4>5. RequestLength(op)' = RequestLength(op)
          BY <1>1 DEF RequestLength, ReadLength, WriteLength
        <4>6. ASSUME NEW i \in 1..Len(wire')
              PROVE  wire'[i] = RequestBit(op, a, w, (k + 1) + i)'
          <5>1. i + 1 \in 1..Len(wire) /\ k + (i + 1) = (k + 1) + i
            BY <1>3
          <5>2. wire'[i] = RequestBit(op, a, w, (k + 1) + i)
            BY <5>1, <1>3, <2>1 DEF Underway
          <5>3. QED
            BY <5>2, <1>1 DEF RequestBit
        <4>7. QED
          BY <4>2, <4>3, <4>4, <4>5, <4>6, <2>1, <1>1 DEF Underway
      <3>2. k + 1 \in Nat /\ a \in GameAddresses'[game'] /\ w \in Cell'
        BY <1>1
      <3>3. QED
        BY <3>1, <3>2, <1>3 DEF WireInv
    <2>6. CASE Stores(op, k + 1)
      <3>1. WriteBackup(a, w)
        BY <2>2, <2>6 DEF TookBit
      <3>2. /\ IsMemory(buffer', Words[game]) /\ CellsInv'
            /\ path => file' = buffer'
            /\ ~path => file' = file
        BY <3>1, <2>2, <1>1, <1>2, WrittenBackup
      <3>3. Speaks(chip)' /\ IsMemory(buffer, Words[game])' /\ SnapshotInv'
        BY <2>3, <3>2, <1>1, SnapshotIsKept DEF Speaks, IsTransmitting, EepromInv
      <3>4. QED
        BY <2>3, <2>5, <3>2, <3>3, <1>1, <1>2 DEF EepromInv, CommandInv
    <2>7. CASE ~Stores(op, k + 1)
      <3>1. UNCHANGED <<path, file, buffer>>
        BY <2>2, <2>7 DEF TookBit, backupVars
      <3>2. QED
        BY <2>3, <2>5, <3>1, <1>1, <1>2, ChipStepKeeps
    <2>8. QED
      BY <2>6, <2>7
  <1>6. QED
    BY <1>4, <1>5

-----------------------------------------------------------------------------
(* The process and the save states. *)

\* A file or a buffer that is opened with the size it has.
LEMMA Opened ==
  ASSUME NEW n \in Nat, n >= 1, path \in BOOLEAN, path => file = NoFile \/ IsMemory(file, n),
         ~path => file = NoFile, \A i \in DOMAIN file : file[i] \in Cell, OpenBackup(n)
  PROVE  /\ IsMemory(buffer', n) /\ path' = path /\ CellsInv'
         /\ path => file' = buffer'
         /\ ~path => file' = NoFile
         /\ path /\ file # NoFile => file' = file
         /\ path /\ file = NoFile => file' = Blank(n)
         /\ ~path => buffer' = Blank(n)
  <1>1. /\ file' = IF path /\ file = NoFile THEN Blank(n) ELSE file
        /\ buffer' = IF path THEN Resized(file', n) ELSE Blank(n)
        /\ path' = path
    BY DEF OpenBackup
  <1>2. IsMemory(Blank(n), n) /\ \A i \in DOMAIN Blank(n) : Blank(n)[i] \in Cell
    <2>1. \A i \in DOMAIN Blank(n) : Blank(n)[i] \in Cell
      BY BackupAssumption DEF Blank
    <2>2. QED
      BY <2>1, NewMemory
  <1>3. path => IsMemory(file', n)
    BY <1>1, <1>2
  <1>4. path => buffer' = file'
    BY <1>1, <1>3, MemoryIsKept
  <1>5. \A i \in DOMAIN file' : file'[i] \in Cell
    BY <1>1, <1>2
  <1>6. IsMemory(buffer', n) /\ CellsInv'
    BY <1>1, <1>2, <1>3, <1>4, <1>5 DEF CellsInv
  <1>7. QED
    BY <1>1, <1>4, <1>6

LEMMA TypeSizes ==
  ASSUME game \in EepromType
  PROVE  /\ \A t \in EepromType : Words[t] \in Nat /\ Words[t] >= 1 /\ (Words[t] = Words[game] => t = game)
         /\ Eeprom512 \in EepromType
  BY EepromAssumption DEF EepromType

LEMMA StartKeeps ==
  ASSUME EepromInv, StartSession
  PROVE  EepromInv' /\ process' = "on"
  <1>1. /\ process = "off" /\ OffInv /\ game \in EepromType /\ Words[game] \in Nat
        /\ NewEeprom /\ UNCHANGED <<game, snapshot>>
        /\ wire' = <<>> /\ fetching' = 0 /\ asked' = Nothing
    BY GameConstants DEF StartSession, NothingUnderWay, EepromInv
  <1>2. SnapshotInv'
    BY <1>1, SnapshotIsKept DEF EepromInv
  <1>3. \A i \in DOMAIN file : file[i] \in Cell
    BY DEF EepromInv, CellsInv
  <1>4. CASE path /\ file # NoFile
    <2>1. IsMemory(file, Words[game]) /\ Length(file) = Words[game]
      BY <1>1, <1>4, MemoryLength DEF OffInv
    <2>2. (CHOOSE t \in EepromType : Words[t] = Length(file)) = game
      BY <1>1, <2>1, TypeSizes
    <2>3. /\ process' = "on" /\ detect' = FALSE /\ chip' = NewChip(game) /\ OpenBackup(Words[game])
      BY <1>1, <1>4, <2>1, <2>2 DEF NewEeprom
    <2>4. /\ IsMemory(buffer', Words[game]) /\ path' = path /\ CellsInv' /\ file' = buffer'
      BY <1>1, <1>3, <1>4, <2>1, <2>3, TypeSizes, Opened
    <2>5. Speaks(chip') /\ ~IsTransmitting(chip')
      BY <2>3, <1>1, NewChipIsChip DEF Speaks
    <2>6. Speaks(chip)' /\ IsMemory(buffer, Words[game])' /\ WireInv'
      BY <1>1, <2>4, <2>5 DEF Speaks, IsTransmitting, WireInv
    <2>7. QED
      BY <1>1, <1>2, <1>4, <2>3, <2>4, <2>6 DEF EepromInv, CommandInv
  <1>5. CASE ~(path /\ file # NoFile)
    <2>1. /\ process' = "on" /\ detect' = TRUE /\ chip' = NewChip(Eeprom512)
          /\ OpenBackup(Words[Eeprom512])
      BY <1>1, <1>5 DEF NewEeprom
    <2>2. path => file = NoFile
      BY <1>5
    <2>3. /\ IsMemory(buffer', Words[Eeprom512]) /\ path' = path /\ CellsInv'
          /\ path => file' = buffer'
          /\ ~path => file' = NoFile
      BY <1>1, <1>3, <2>1, <2>2, TypeSizes, Opened DEF EepromInv
    <2>4. DetectInv'
      BY <1>1, <2>1, <2>3 DEF DetectInv
    <2>5. QED
      BY <1>1, <1>2, <2>1, <2>3, <2>4 DEF EepromInv
  <1>6. QED
    BY <1>4, <1>5

LEMMA EndKeeps ==
  ASSUME EarlyQuits = FALSE, EepromInv,
         EndSession \/ \E bits \in 1..(DataBits - 1) : KilledWhileStoring(bits)
  PROVE  EepromInv' /\ process' = "off"
  <1>0. game \in EepromType /\ Words[game] \in Nat /\ Words[game] >= 1
    BY GameConstants DEF EepromInv
  <1>1. ASSUME UNCHANGED <<path, game, snapshot>>, NothingUnderWay, process' = "off", detect' = TRUE,
               buffer' = NoFile, file' = NoFile \/ IsMemory(file', Words[game]),
               ~path => file' = NoFile, \A i \in DOMAIN file' : file'[i] \in Cell
        PROVE  EepromInv'
    <2>1. SnapshotInv'
      BY <1>1, SnapshotIsKept DEF EepromInv
    <2>2. CellsInv'
      BY <1>1 DEF CellsInv, NoFile
    <2>3. OffInv'
      BY <1>1 DEF OffInv, NothingUnderWay
    <2>4. QED
      BY <1>1, <2>1, <2>2, <2>3 DEF EepromInv, NothingUnderWay
  <1>2. CASE EndSession
    <2>1. /\ process = "on" /\ UNCHANGED <<path, file, game, snapshot>> /\ NothingUnderWay
          /\ process' = "off" /\ detect' = TRUE /\ buffer' = NoFile
          /\ path => Length(file) = Words[game]
      BY <1>2 DEF EndSession
    <2>2. path => IsMemory(file, Words[game])
      <3>1. CASE path /\ detect
        <4>1. file = buffer /\ IsMemory(buffer, Words[Eeprom512]) /\ Words[Eeprom512] \in Nat
          BY <3>1, <2>1, <1>0, TypeSizes DEF EepromInv, DetectInv
        <4>2. QED
          BY <4>1, <2>1, <3>1, MemoryLength
      <3>2. CASE path /\ ~detect
        BY <3>2, <2>1 DEF EepromInv, CommandInv
      <3>3. QED
        BY <3>1, <3>2
    <2>3. (~path => file = NoFile) /\ \A i \in DOMAIN file : file[i] \in Cell
      BY DEF EepromInv, CellsInv
    <2>4. QED
      BY <2>1, <2>2, <2>3, <1>1 DEF EepromInv
  <1>3. CASE \E bits \in 1..(DataBits - 1) : KilledWhileStoring(bits)
    <2>1. PICK bits \in 1..(DataBits - 1) : KilledWhileStoring(bits)
      BY <1>3
    <2> DEFINE c == ShiftedIn(Head(wire))
               word == Torn(file[c.address], c.rx_buffer, bits)
    <2>2. /\ process = "on" /\ path /\ wire # <<>> /\ c.address \in DOMAIN file
          /\ UNCHANGED <<path, game, snapshot>> /\ NothingUnderWay
          /\ process' = "off" /\ detect' = TRUE /\ buffer' = NoFile
          /\ file' = [file EXCEPT ![c.address] = word]
      BY <2>1 DEF KilledWhileStoring
    <2>3. ~detect /\ file = buffer /\ IsMemory(file, Words[game])
      BY <2>2 DEF EepromInv, DetectInv, CommandInv
    <2>4. word \in Cell
      <3> DEFINE p == 2 ^ bits
                 q == 2 ^ (DataBits - bits)
                 old == file[c.address]
                 new == c.rx_buffer
      <3>1. /\ bits \in Nat /\ DataBits - bits \in Nat /\ bits + (DataBits - bits) = DataBits
        BY <1>0, GameConstants
      <3>2. p \in Nat /\ p >= 1 /\ q \in Nat /\ p * q = 2 ^ DataBits
        BY <3>1, PowerIsCount, PowerGrows, PowerSplits
      <3>3. Cell = 0..(2 ^ DataBits - 1)
        BY EepromAssumption
      <3>4. old \in 0..(p * q - 1)
        <4>1. old \in Cell
          BY <2>2 DEF EepromInv, CellsInv
        <4>2. QED
          BY <4>1, <3>2, <3>3
      <3>5. new \in Nat
        <4>1. chip \in Chips /\ Head(wire) \in {0, 1}
          BY <2>2, <2>3, TailOfBits DEF EepromInv, CommandInv, Speaks, WireInv
        <4>2. c \in Chips
          BY <4>1, <1>0, GameConstants, ShiftedChip
        <4> HIDE DEF c
        <4>3. QED
          BY <4>2 DEF Chips
      <3> HIDE DEF p, q, old, new
      <3>6. (old \div p) * p + (new % p) \in 0..(p * q - 1)
        <4>1. p \in Nat \ {0}
          BY <3>2
        <4>2. QED
          BY <4>1, <3>2, <3>4, <3>5, TornIsBounded
      <3>7. QED
        BY <3>2, <3>3, <3>6, Zenon DEF Torn, old, new, p
    <2> HIDE DEF word
    <2>5. IsMemory(file', Words[game])
      BY <2>2, <2>3, <1>0, MemoryIsKept
    <2>6. \A i \in DOMAIN file' : file'[i] \in Cell
      BY <2>2, <2>4 DEF EepromInv, CellsInv
    <2>7. QED
      BY <2>2, <2>5, <2>6, <1>1
  <1>4. QED
    BY <1>2, <1>3

LEMMA SaveKeeps ==
  ASSUME EepromInv, SaveState
  PROVE  EepromInv'
  <1>1. /\ process = "on" /\ wire = <<>>
        /\ snapshot' = [taken |-> TRUE, chip |-> chip, detect |-> detect,
                        size |-> Length(buffer), asked |-> asked]
        /\ UNCHANGED <<process, chip, detect, path, file, buffer, game, wire, fetching, asked>>
        /\ game \in EepromType /\ Words[game] \in Nat
    BY GameConstants DEF SaveState, Idle, eepromVars, backupVars, gameVars, EepromInv
  <1>2. CellsInv'
    BY <1>1 DEF EepromInv, CellsInv
  <1>3. CASE detect
    <2>1. DetectInv /\ Length(buffer) = Words[Eeprom512]
      BY <1>1, <1>3, TypeSizes, MemoryLength DEF EepromInv, DetectInv
    <2>2. SnapshotInv' /\ DetectInv'
      BY <1>1, <1>3, <2>1 DEF SnapshotInv, DetectInv
    <2>3. QED
      BY <1>1, <1>2, <1>3, <2>2 DEF EepromInv
  <1>4. CASE ~detect
    <2>1. CommandInv /\ Length(buffer) = Words[game] /\ Speaks(chip)
      BY <1>1, <1>4, MemoryLength DEF EepromInv, CommandInv
    <2>2. detect = FALSE
      BY <1>4 DEF EepromInv
    <2>3. SnapshotInv'
      BY <1>1, <2>1, <2>2 DEF SnapshotInv, Speaks
    <2>4. CommandInv'
      BY <1>1, <2>1 DEF CommandInv, Speaks, IsTransmitting, WireInv
    <2>5. QED
      BY <1>1, <1>2, <1>4, <2>3, <2>4 DEF EepromInv
  <1>5. QED
    BY <1>3, <1>4

LEMMA RestoreKeeps ==
  ASSUME EarlyStates = FALSE, EepromInv, RestoreState
  PROVE  EepromInv'
  <1>1. /\ process = "on" /\ wire = <<>> /\ fetching = 0 /\ snapshot.taken
        /\ path => snapshot.size = Length(file)
        /\ chip' = snapshot.chip /\ detect' = snapshot.detect /\ asked' = snapshot.asked
        /\ OpenBackup(snapshot.size)
        /\ UNCHANGED <<process, wire, fetching, game, snapshot>>
        /\ game \in EepromType /\ Words[game] \in Nat
    BY GameConstants DEF RestoreState, Idle, EepromInv
  <1>2. SnapshotInv' /\ SnapshotInv /\ snapshot # NoState
    BY <1>1, SnapshotIsKept DEF EepromInv, NoState
  <1>3. snapshot.size \in {Words[Eeprom512], Words[game]}
    BY <1>2 DEF SnapshotInv
  <1>4. snapshot.size \in Nat /\ snapshot.size >= 1
    BY <1>1, <1>3, TypeSizes
  <1>5. path => IsMemory(file, snapshot.size)
    <2>1. CASE path /\ detect
      <3>1. file = buffer /\ IsMemory(file, Words[Eeprom512])
        BY <1>1, <2>1 DEF EepromInv, DetectInv
      <3>2. QED
        BY <3>1, <2>1, <1>1, TypeSizes, MemoryLength
    <2>2. CASE path /\ ~detect
      <3>1. file = buffer /\ IsMemory(file, Words[game])
        BY <1>1, <2>2 DEF EepromInv, CommandInv
      <3>2. QED
        BY <3>1, <2>2, <1>1, MemoryLength
    <2>3. QED
      BY <2>1, <2>2
  <1>6. /\ IsMemory(buffer', snapshot.size) /\ path' = path /\ CellsInv'
        /\ path => file' = buffer'
        /\ ~path => file' = NoFile
    <2>1. path \in BOOLEAN /\ (~path => file = NoFile) /\ \A i \in DOMAIN file : file[i] \in Cell
      BY DEF EepromInv, CellsInv
    <2>2. QED
      BY <2>1, <1>1, <1>4, <1>5, Opened
  <1>7. CASE snapshot.detect = TRUE
    <2>1. /\ snapshot.asked = Nothing /\ snapshot.chip = NewChip(Eeprom512)
          /\ snapshot.size = Words[Eeprom512]
      BY <1>2, <1>7 DEF SnapshotInv
    <2>2. DetectInv'
      BY <2>1, <1>1, <1>6 DEF DetectInv
    <2>3. QED
      BY <2>2, <1>1, <1>2, <1>6, <1>7 DEF EepromInv
  <1>8. CASE snapshot.detect = FALSE
    <2>1. Speaks(snapshot.chip) /\ snapshot.size = Words[game]
      BY <1>2, <1>8 DEF SnapshotInv
    <2>2. Speaks(chip)' /\ IsMemory(buffer, Words[game])' /\ WireInv'
      BY <2>1, <1>1, <1>6 DEF Speaks, IsTransmitting, WireInv
    <2>3. QED
      BY <2>2, <1>1, <1>2, <1>6, <1>8 DEF EepromInv, CommandInv
  <1>9. QED
    BY <1>2, <1>7, <1>8 DEF SnapshotInv
LEMMA EepromStarts ==
  ASSUME SessionsInit
  PROVE  EepromInv
  <1>1. /\ process = "off" /\ game \in EepromType /\ path \in BOOLEAN /\ detect = TRUE
        /\ file = NoFile /\ buffer = NoFile /\ wire = <<>> /\ fetching = 0
        /\ asked = Nothing /\ snapshot = NoState
    BY DEF SessionsInit, EepromInit
  <1>2. chip = NewChip(Eeprom512)
    BY DEF SessionsInit, EepromInit
  <1>3. OffInv
    BY <1>1, <1>2 DEF OffInv
  <1>4. CellsInv /\ SnapshotInv
    BY <1>1 DEF CellsInv, SnapshotInv, NoState, NoFile
  <1> QED
    BY <1>1, <1>3, <1>4 DEF EepromInv

LEMMA EepromKeeps ==
  ASSUME EarlyStates = FALSE, EarlyQuits = FALSE, EepromInv, [SessionsNext]_vars
  PROVE  EepromInv'
  <1>1. CASE UNCHANGED vars
    BY <1>1 DEF vars, eepromVars, backupVars, gameVars, EepromInv, OffInv, DetectInv, CommandInv,
                Speaks, IsMemory, CellsInv, SnapshotInv, WireInv, Underway, HasReceived, RequestBit,
                RequestLength, ReadLength, WriteLength
  <1>2. CASE GameStep
    BY <1>2, AskKeeps, IdleKeeps, ClockInKeeps DEF GameStep
  <1>3. CASE StartSession
    BY <1>3, StartKeeps
  <1>4. CASE EndSession \/ \E bits \in 1..(DataBits - 1) : KilledWhileStoring(bits)
    BY <1>4, EndKeeps
  <1>5. CASE SaveState \/ RestoreState
    BY <1>5, SaveKeeps, RestoreKeeps
  <1> QED
    BY <1>1, <1>2, <1>3, <1>4, <1>5 DEF SessionsNext

-----------------------------------------------------------------------------
(* The flash memory and the game that commands it. *)

Plans == {"Write", "Sector", "Chip", "Bank", "Id"}

PlanLength(kind) ==
  IF kind \in {"Sector", "Chip"} THEN 6 ELSE IF kind = "Id" THEN 3 ELSE 4

CommandOfPlan(kind, v) ==
  CASE kind = "Write" -> WriteByte
    [] kind = "Bank" -> SelectBank
    [] kind = "Id" -> IF v = 1 THEN EnterIdMode ELSE TerminateIdMode
    [] OTHER -> Erase

\* The i-th write of a plan, and what all of them do.
WriteOfPlan(kind, a, v, i) ==
  IF i = 1 \/ (i = 4 /\ PlanLength(kind) = 6) THEN <<CommandAddr, \haa>>
  ELSE IF i \in {2, 5} THEN <<MagicAddr, \h55>>
  ELSE IF i = 3 THEN <<CommandAddr, CommandOfPlan(kind, v)>>
  ELSE IF i = 4 THEN <<IF kind = "Bank" THEN 0 ELSE a, v>>
  ELSE IF kind = "Sector" THEN <<a, EraseSector>> ELSE <<CommandAddr, EraseEntireChip>>

RestOfPlan(kind, a, v, k) ==
  [i \in 1..(PlanLength(kind) - k) |-> WriteOfPlan(kind, a, v, k + i)]

ChipSize == flash.banks * BankSize

SectorAt(bank, a) ==
  LET first == bank * BankSize + (a - (a % SectorSize)) IN first..(first + SectorSize - 1)

CellsOfPlan(kind, a, bank) ==
  CASE kind = "Write" -> {bank * BankSize + a}
    [] kind = "Sector" -> SectorAt(bank, a)
    [] kind = "Chip" -> 0..(ChipSize - 1)
    [] OTHER -> {}

ChangeOfPlan(kind, a, v, vw) ==
  [cells |-> CellsOfPlan(kind, a, vw.bank),
   value |-> IF kind = "Write" THEN v ELSE Erased,
   bank |-> IF kind = "Bank" THEN v ELSE vw.bank,
   id |-> kind = "Id" /\ v = 1]

\* The chip after the first k writes of a plan, which has writes left.
ModeOf(vw) == IF vw.id THEN "ChipId" ELSE "Initial"

SequenceAfter(kind, k) ==
  IF k \in {1, 4} THEN "Magic" ELSE IF k \in {2, 5} THEN "Command"
  ELSE IF k = 3 /\ PlanLength(kind) = 4 THEN "Argument" ELSE "Initial"

ModeAfter(kind, k, vw) ==
  IF k < 3 THEN ModeOf(vw)
  ELSE IF kind = "Write" THEN "Write" ELSE IF kind = "Bank" THEN "Select" ELSE "Erase"

FlashChips == [banks : {1, 2}, wrseq : FlashWriteSequence, mode : FlashMode, bank : {0, 1}]

\* What a plan is about: a is an offset in the bank, v the byte it writes, the
\* bank it selects, or 1 to enter the identification mode and 0 to leave it.
Meant(kind, a, v) ==
  /\ a \in 0..(BankSize - 1)
  /\ kind = "Bank" => v \in 0..(flash.banks - 1)
  /\ kind = "Id" => v \in {0, 1}

\* A chip, the writes that are on their way to it, and the game that makes them.
InPlan(fl, b, d, vw, kind, a, v, k) ==
  /\ k \in 0..(PlanLength(kind) - 1) /\ Meant(kind, a, v)
  /\ b = RestOfPlan(kind, a, v, k)
  /\ d = ChangeOfPlan(kind, a, v, vw) /\ (vw.id => kind = "Id")
  /\ fl.wrseq = SequenceAfter(kind, k) /\ fl.mode = ModeAfter(kind, k, vw)

BetweenPlans(fl, b, d, vw) ==
  b = <<>> /\ d = NoChange /\ fl.wrseq = "Initial" /\ fl.mode = ModeOf(vw)

Agree(fl, vw) ==
  /\ fl \in FlashChips /\ fl.banks = flash.banks /\ fl.bank = vw.bank
  /\ vw \in [bank : 0..(flash.banks - 1), id : BOOLEAN]

Protocol(fl, b, d, vw) ==
  /\ Agree(fl, vw)
  /\ \/ BetweenPlans(fl, b, d, vw)
     \/ \E kind \in Plans, a \in 0..(BankSize - 1), v \in FlashBytes \cup {0, 1}, k \in 0..5 :
          InPlan(fl, b, d, vw, kind, a, v, k)

FlashSnapshotInv ==
  /\ fsnapshot.taken \in BOOLEAN
  /\ fsnapshot.taken => Protocol(fsnapshot.flash, fsnapshot.bus, fsnapshot.doing, fsnapshot.view)

\* What the memory holds is what a read may return.
FlashOff ==
  /\ bus = <<>> /\ doing = NoChange /\ view = ClearView /\ flash = NewFlash(flash.banks)
  /\ \/ file = NoFile /\ \A i \in 0..(ChipSize - 1) : holds[i] = {Erased}
     \/ path /\ IsMemory(file, ChipSize) /\ \A i \in 0..(ChipSize - 1) : file[i] \in holds[i]

FlashOn ==
  /\ IsMemory(buffer, ChipSize) /\ (path => file = buffer)
  /\ \A i \in 0..(ChipSize - 1) : buffer[i] \in holds[i]

FlashInv ==
  /\ process \in {"on", "off"} /\ path \in BOOLEAN
  /\ IsMemory(holds, ChipSize) /\ Protocol(flash, bus, doing, view)
  /\ ~path => file = NoFile
  /\ process = "off" => FlashOff
  /\ process = "on" => FlashOn
  /\ FlashSnapshotInv

FlashMediumInv == medium \in FlashMedia => FlashInv

LEMMA FlashNumbers ==
  /\ BankSize \in Nat /\ BankSize >= 2 /\ SectorSize \in Nat /\ SectorSize >= 1
  /\ CommandAddr \in 0..(BankSize - 1) /\ MagicAddr \in 0..(BankSize - 1)
  /\ CommandAddr # MagicAddr
  BY FlashAssumption

\* What is a bank's is the chip's.
LEMMA BankInChip ==
  ASSUME NEW banks \in {1, 2}, NEW bank \in 0..(banks - 1), NEW a \in 0..(BankSize - 1)
  PROVE  /\ banks * BankSize \in Nat /\ banks * BankSize >= BankSize
         /\ bank * BankSize + a \in 0..(banks * BankSize - 1)
         /\ bank * BankSize \in Nat /\ bank * BankSize + BankSize <= banks * BankSize
  <1>1. BankSize \in Nat /\ BankSize >= 2
    BY FlashNumbers
  <1>2. CASE banks = 1
    <2>1. bank = 0
      BY <1>2
    <2>2. 0 * BankSize = 0 /\ 1 * BankSize = BankSize
      BY <1>1
    <2>3. QED
      BY <1>1, <1>2, <2>1, <2>2
  <1>3. CASE banks = 2
    <2>1. bank = 0 \/ bank = 1
      BY <1>3
    <2>2. 0 * BankSize = 0 /\ 1 * BankSize = BankSize /\ 2 * BankSize = BankSize + BankSize
      BY <1>1
    <2>3. QED
      BY <1>1, <1>3, <2>1, <2>2
  <1>4. QED
    BY <1>2, <1>3

\* A bank is a whole number of sectors.
LEMMA SectorInBank ==
  ASSUME NEW a \in 0..(BankSize - 1)
  PROVE  /\ a - (a % SectorSize) \in Nat
         /\ (a - (a % SectorSize)) + SectorSize <= BankSize
  <1> DEFINE p == a \div SectorSize
             q == BankSize \div SectorSize
             s == SectorSize
  <1>1. BankSize \in Nat /\ s \in Nat /\ s >= 1 /\ a \in Nat /\ a < BankSize
    BY FlashNumbers
  <1>2. /\ a = s * p + (a % s) /\ a % s \in 0..(s - 1) /\ p \in Nat
    BY <1>1
  <1>3. BankSize = s * q /\ q \in Nat
    <2>1. BankSize % s = 0
      BY FlashAssumption
    <2>2. BankSize = s * q + (BankSize % s) /\ q \in Nat
      BY <1>1
    <2>3. QED
      BY <1>1, <2>1, <2>2
  <1>4. s * p \in Nat /\ a - (a % s) = s * p
    <2> HIDE DEF p
    <2> QED
      BY <1>1, <1>2
  <1>5. p < q
    <2> HIDE DEF p, q, s
    <2>1. SUFFICES ASSUME q <= p PROVE FALSE
      BY <1>2, <1>3
    <2>2. s * q <= s * p
      BY <2>1, <1>1, <1>2, <1>3
    <2>3. s * q <= a
      BY <2>2, <1>1, <1>2, <1>3, <1>4
    <2>4. QED
      BY <2>3, <1>1, <1>3
  <1>6. s * p + s <= s * q
    <2> HIDE DEF p, q, s
    <2>1. p + 1 <= q
      BY <1>2, <1>3, <1>5
    <2>2. s * (p + 1) <= s * q
      BY <2>1, <1>1, <1>2, <1>3
    <2>3. s * (p + 1) = s * p + s
      BY <1>1, <1>2
    <2>4. QED
      BY <2>2, <2>3
  <1>7. QED
    BY <1>3, <1>4, <1>6

LEMMA CellsInChip ==
  ASSUME flash.banks \in {1, 2}, NEW kind \in Plans, NEW bank \in 0..(flash.banks - 1),
         NEW a \in 0..(BankSize - 1)
  PROVE  CellsOfPlan(kind, a, bank) \subseteq 0..(ChipSize - 1)
  <1> DEFINE first == bank * BankSize + (a - (a % SectorSize))
  <1>1. /\ BankSize \in Nat /\ SectorSize \in Nat /\ SectorSize >= 1
        /\ ChipSize \in Nat /\ bank * BankSize \in Nat
        /\ bank * BankSize + BankSize <= ChipSize
        /\ bank * BankSize + a \in 0..(ChipSize - 1)
    BY BankInChip, FlashNumbers DEF ChipSize
  <1>2. /\ a - (a % SectorSize) \in Nat
        /\ (a - (a % SectorSize)) + SectorSize <= BankSize
    BY SectorInBank
  <1>3. first \in Nat /\ first + SectorSize <= ChipSize
    <2> DEFINE x == bank * BankSize
               y == a - (a % SectorSize)
    <2>1. x \in Nat /\ y \in Nat /\ x + BankSize <= ChipSize /\ y + SectorSize <= BankSize
      BY <1>1, <1>2
    <2> HIDE DEF x, y
    <2>2. x + y \in Nat /\ (x + y) + SectorSize <= ChipSize
      BY <1>1, <2>1
    <2> QED
      BY <2>2 DEF x, y
  <1>4. SectorAt(bank, a) \subseteq 0..(ChipSize - 1)
    <2>1. SectorAt(bank, a) = first..(first + SectorSize - 1)
      BY DEF SectorAt
    <2> HIDE DEF first
    <2> QED
      BY <1>1, <1>3, <2>1
  <1>5. kind = "Write" \/ kind = "Sector" \/ kind = "Chip" \/ kind = "Bank" \/ kind = "Id"
    BY DEF Plans
  <1> HIDE DEF first
  <1>6. CASE kind = "Write"
    BY <1>1, <1>6 DEF CellsOfPlan
  <1>7. CASE kind = "Sector"
    BY <1>4, <1>7 DEF CellsOfPlan
  <1>8. CASE kind \in {"Chip", "Bank", "Id"}
    BY <1>8 DEF CellsOfPlan
  <1>9. QED
    BY <1>5, <1>6, <1>7, <1>8

-----------------------------------------------------------------------------
(* A memory with a change under way. *)

LEMMA FilledMemory ==
  ASSUME IsMemory(buffer, ChipSize), path \in BOOLEAN, path => file = buffer, ~path => file = NoFile,
         NEW cells, cells \subseteq 0..(ChipSize - 1), NEW value, FillCells(cells, value)
  PROVE  /\ UNCHANGED <<process, path>> /\ IsMemory(buffer', ChipSize)
         /\ path => file' = buffer'
         /\ ~path => file' = file
         /\ \A i \in 0..(ChipSize - 1) : buffer'[i] = IF i \in cells THEN value ELSE buffer[i]
  <1> DEFINE filled(m) == [i \in DOMAIN m |-> IF i \in cells THEN value ELSE m[i]]
  <1>1. DOMAIN buffer = 0..(ChipSize - 1)
    BY DEF IsMemory
  <1>2. /\ buffer' = filled(buffer)
        /\ file' = IF path THEN filled(file) ELSE file
        /\ UNCHANGED <<process, path>>
    BY <1>1 DEF FillCells
  <1>3. IsMemory(buffer', ChipSize)
    BY <1>1, <1>2 DEF IsMemory
  <1>4. \A i \in 0..(ChipSize - 1) : buffer'[i] = IF i \in cells THEN value ELSE buffer[i]
    BY <1>1, <1>2
  <1>5. (path => file' = buffer') /\ (~path => file' = file)
    BY <1>2
  <1>6. QED
    BY <1>2, <1>3, <1>4, <1>5

\* Nothing but some cells changes, and what the game may read of them with them.
LEMMA DoneKeeps ==
  ASSUME FlashInv, process = "on", ChipSize' = ChipSize, ChipSize \in Nat,
         NEW cells, NEW value, holds' = Done(cells, value),
         UNCHANGED <<process, path>>, IsMemory(buffer', ChipSize),
         path => file' = buffer',
         ~path => file' = file,
         \A i \in 0..(ChipSize - 1) : buffer'[i] = IF i \in cells THEN value ELSE buffer[i]
  PROVE  FlashOn' /\ IsMemory(holds', ChipSize') /\ (~path' => file' = NoFile)
  <1>1. DOMAIN holds = 0..(ChipSize - 1)
    BY DEF FlashInv, IsMemory
  <1>2. IsMemory(holds', ChipSize)
    BY <1>1 DEF Done, IsMemory
  <1>3. \A i \in 0..(ChipSize - 1) : holds'[i] = IF i \in cells THEN {value} ELSE holds[i]
    BY <1>1 DEF Done
  <1>4. \A i \in 0..(ChipSize - 1) : buffer[i] \in holds[i]
    BY DEF FlashInv, FlashOn
  <1>5. \A i \in 0..(ChipSize - 1) : buffer'[i] \in holds'[i]
    BY <1>3, <1>4
  <1>6. IsMemory(buffer, ChipSize)' /\ (path => file = buffer)'
    BY DEF IsMemory
  <1>7. \A i \in 0..(ChipSize' - 1) : buffer'[i] \in holds'[i]
    BY <1>5
  <1>8. ~path => file = NoFile
    BY DEF FlashInv
  <1>9. FlashOn'
    BY <1>6, <1>7 DEF FlashOn
  <1>10. QED
    BY <1>2, <1>8, <1>9

-----------------------------------------------------------------------------
(* The chip takes a write of a plan. *)

LEMMA FirstAndRest ==
  ASSUME NEW n \in Nat, n >= 1, NEW s, s = [i \in 1..n |-> s[i]]
  PROVE  /\ Len(s) = n /\ s # <<>> /\ Head(s) = s[1]
         /\ Tail(s) = [i \in 1..(n - 1) |-> s[i + 1]]
  <1> DEFINE S == {s[i] : i \in 1..n}
  <1>1. s \in Seq(S)
    <2>1. \A i \in 1..n : s[i] \in S
      OBVIOUS
    <2> HIDE DEF S
    <2>2. s \in [1..n -> S]
      BY <2>1
    <2>3. QED
      BY <2>2
  <1>2. Len(s) = n
    BY <1>1
  <1> HIDE DEF S
  <1>3. QED
    BY <1>1, <1>2

LEMMA RestIsTail ==
  ASSUME NEW kind \in Plans, NEW a, NEW v, NEW k \in 0..(PlanLength(kind) - 1)
  PROVE  LET b == RestOfPlan(kind, a, v, k) IN
         /\ Len(b) = PlanLength(kind) - k /\ b # <<>> /\ Head(b) = WriteOfPlan(kind, a, v, k + 1)
         /\ Tail(b) = RestOfPlan(kind, a, v, k + 1)
         /\ k + 1 < PlanLength(kind) => Tail(b) # <<>>
         /\ k + 1 = PlanLength(kind) => Tail(b) = <<>>
  <1> DEFINE n == PlanLength(kind)
             W(i) == WriteOfPlan(kind, a, v, i)
             b == RestOfPlan(kind, a, v, k)
  <1>1. n \in Nat /\ n >= 3 /\ k \in Nat /\ k < n
    BY DEF PlanLength
  <1>2. /\ b = [i \in 1..(n - k) |-> W(k + i)]
        /\ RestOfPlan(kind, a, v, k + 1) = [i \in 1..(n - (k + 1)) |-> W((k + 1) + i)]
    BY DEF RestOfPlan
  <1> HIDE DEF n, W, b
  <1>3. b = [i \in 1..(n - k) |-> b[i]] /\ n - k \in Nat /\ n - k >= 1
    BY <1>1, <1>2
  <1>4. Len(b) = n - k /\ b # <<>> /\ Head(b) = b[1] /\ Tail(b) = [i \in 1..((n - k) - 1) |-> b[i + 1]]
    BY <1>3, FirstAndRest
  <1>5. b[1] = W(k + 1)
    BY <1>1, <1>2
  <1>6. Tail(b) = RestOfPlan(kind, a, v, k + 1)
    <2>1. \A i \in 1..((n - k) - 1) : b[i + 1] = W((k + 1) + i)
      BY <1>1, <1>2
    <2>2. (n - k) - 1 = n - (k + 1)
      BY <1>1
    <2>3. QED
      BY <1>2, <1>4, <2>1, <2>2
  <1>7. ASSUME k + 1 < n PROVE Tail(b) # <<>>
    <2>1. DOMAIN Tail(b) = 1..((n - k) - 1)
      BY <1>4
    <2>2. 1 \in DOMAIN Tail(b) /\ DOMAIN <<>> = {}
      BY <2>1, <1>1, <1>7
    <2>3. QED
      BY <2>2
  <1>8. ASSUME k + 1 = n PROVE Tail(b) = <<>>
    <2>1. (n - k) - 1 = 0
      BY <1>1, <1>8
    <2>2. Tail(b) = [i \in 1..0 |-> b[i + 1]]
      BY <1>4, <2>1
    <2>3. QED
      BY <2>2
  <1>9. QED
    BY <1>4, <1>5, <1>6, <1>7, <1>8 DEF n, W, b

\* The chip after a write that is not the last, and after the last.
Advanced(kind, k) ==
  /\ UNCHANGED <<process, path, file, buffer>>
  /\ flash' = [flash EXCEPT !.wrseq = SequenceAfter(kind, k), !.mode = ModeAfter(kind, k, view)]

Carried(cells, value, bank, id) ==
  /\ \/ FillCells(cells, value)
     \/ cells = {} /\ UNCHANGED <<process, path, file, buffer>>
  /\ flash'.wrseq = "Initial" /\ flash'.mode = (IF id THEN "ChipId" ELSE "Initial")
  /\ flash'.bank = bank /\ flash'.banks = flash.banks /\ flash' \in FlashChips

\* What the next write of a plan finds.
Expects(kind, a, v, k) ==
  /\ kind \in Plans /\ k \in 0..(PlanLength(kind) - 1) /\ Meant(kind, a, v)
  /\ Agree(flash, view) /\ (view.id => kind = "Id")
  /\ flash.wrseq = SequenceAfter(kind, k) /\ flash.mode = ModeAfter(kind, k, view)

LEMMA FlashRecord ==
  ASSUME flash \in FlashChips, NEW w \in FlashWriteSequence, NEW m \in FlashMode, NEW x \in {0, 1},
         flash' = [flash EXCEPT !.wrseq = w, !.mode = m, !.bank = x]
  PROVE  /\ flash' \in FlashChips /\ flash'.wrseq = w /\ flash'.mode = m
         /\ flash'.bank = x /\ flash'.banks = flash.banks
  BY DEF FlashChips

LEMMA FlashMoves ==
  ASSUME flash \in FlashChips, NEW w \in FlashWriteSequence, NEW m \in FlashMode
  PROVE  LET c == [flash EXCEPT !.wrseq = w, !.mode = m] IN
         /\ c \in FlashChips /\ c.wrseq = w /\ c.mode = m
         /\ c.bank = flash.bank /\ c.banks = flash.banks
  BY DEF FlashChips

LEMMA PlanPlaces ==
  ASSUME NEW kind \in Plans, NEW k \in 0..(PlanLength(kind) - 1)
  PROVE  /\ k \in 0..5 /\ k \in Nat
         /\ \/ k \in {0, 1}
            \/ k \in {3, 4} /\ kind \in {"Sector", "Chip"}
            \/ k = 2 /\ kind = "Id" /\ k + 1 = PlanLength(kind)
            \/ k = 2 /\ kind # "Id" /\ k + 1 < PlanLength(kind)
            \/ k = 3 /\ kind \in {"Write", "Bank"} /\ k + 1 = PlanLength(kind)
            \/ k = 5 /\ kind \in {"Sector", "Chip"} /\ k + 1 = PlanLength(kind)
         /\ k \in {0, 1} \/ (k \in {3, 4} /\ kind \in {"Sector", "Chip"}) => k + 1 < PlanLength(kind)
         /\ kind \in {"Sector", "Chip"} <=> PlanLength(kind) = 6
         /\ kind \in {"Write", "Bank"} <=> PlanLength(kind) = 4
  BY DEF Plans, PlanLength

LEMMA TakesMagic ==
  ASSUME NEW kind, NEW a, NEW v, NEW k, Expects(kind, a, v, k),
         k \in {0, 1} \/ (k \in {3, 4} /\ kind \in {"Sector", "Chip"}),
         FlashWrite(WriteOfPlan(kind, a, v, k + 1)[1], WriteOfPlan(kind, a, v, k + 1)[2])
  PROVE  Advanced(kind, k + 1)
  <1> DEFINE addr == WriteOfPlan(kind, a, v, k + 1)[1]
             value == WriteOfPlan(kind, a, v, k + 1)[2]
  <1>1. ModeAfter(kind, k + 1, view) = flash.mode
    BY DEF ModeAfter, Expects
  <1>2. CASE k \in {0, 3}
    <2>1. addr = CommandAddr /\ value = \haa
      BY <1>2, PlanPlaces DEF WriteOfPlan, Expects
    <2>2. flash.wrseq = "Initial" /\ SequenceAfter(kind, k + 1) = "Magic"
      BY <1>2, PlanPlaces DEF SequenceAfter, Expects
    <2>3. FlashUnlocks(addr, value) /\ MemoryStays
      BY <2>2 DEF FlashWrite
    <2> HIDE DEF addr, value
    <2>4. FlashBecomes("Magic", flash.mode) /\ MemoryStays
      BY <2>1, <2>2, <2>3 DEF FlashUnlocks
    <2>5. QED
      BY <1>1, <2>2, <2>4 DEF FlashBecomes, MemoryStays, backupVars, Advanced
  <1>3. CASE k \in {1, 4}
    <2>1. addr = MagicAddr /\ value = \h55
      BY <1>3, PlanPlaces DEF WriteOfPlan, Expects
    <2>2. flash.wrseq = "Magic" /\ SequenceAfter(kind, k + 1) = "Command"
      BY <1>3, PlanPlaces DEF SequenceAfter, Expects
    <2>3. FlashUnlocks(addr, value) /\ MemoryStays
      BY <2>2 DEF FlashWrite
    <2> HIDE DEF addr, value
    <2>4. FlashBecomes("Command", flash.mode) /\ MemoryStays
      BY <2>1, <2>2, <2>3 DEF FlashUnlocks
    <2>5. QED
      BY <1>1, <2>2, <2>4 DEF FlashBecomes, MemoryStays, backupVars, Advanced
  <1>4. QED
    BY <1>2, <1>3
LEMMA CommandCodes ==
  /\ DOMAIN SimpleCommand = {EnterIdMode, TerminateIdMode, Erase, WriteByte, SelectBank}
  /\ SimpleCommand[EnterIdMode] = <<"Initial", "ChipId">>
  /\ SimpleCommand[TerminateIdMode] = <<"Initial", "Initial">>
  /\ SimpleCommand[Erase] = <<"Initial", "Erase">>
  /\ SimpleCommand[WriteByte] = <<"Argument", "Write">>
  /\ SimpleCommand[SelectBank] = <<"Argument", "Select">>
  /\ {EraseEntireChip, EraseSector} \cap DOMAIN SimpleCommand = {} /\ EraseEntireChip # EraseSector
  /\ DOMAIN SimpleCommand \subseteq FlashCommand /\ {EraseEntireChip, EraseSector} \subseteq FlashCommand
  <1>1. /\ EnterIdMode = 144 /\ TerminateIdMode = 240 /\ Erase = 128 /\ EraseEntireChip = 16
        /\ EraseSector = 48 /\ WriteByte = 160 /\ SelectBank = 176
    BY DEF EnterIdMode, TerminateIdMode, Erase, EraseEntireChip, EraseSector, WriteByte, SelectBank
  <1>2. DOMAIN SimpleCommand = {EnterIdMode, TerminateIdMode, Erase, WriteByte, SelectBank}
    BY DEF SimpleCommand
  <1>3. SimpleCommand[EnterIdMode] = <<"Initial", "ChipId">>
    BY <1>1 DEF SimpleCommand
  <1>4. SimpleCommand[TerminateIdMode] = <<"Initial", "Initial">>
    BY <1>1 DEF SimpleCommand
  <1>5. SimpleCommand[Erase] = <<"Initial", "Erase">>
    BY <1>1 DEF SimpleCommand
  <1>6. SimpleCommand[WriteByte] = <<"Argument", "Write">>
    BY <1>1 DEF SimpleCommand
  <1>7. SimpleCommand[SelectBank] = <<"Argument", "Select">>
    BY <1>1 DEF SimpleCommand
  <1>8. {EraseEntireChip, EraseSector} \cap DOMAIN SimpleCommand = {} /\ EraseEntireChip # EraseSector
    BY <1>1, <1>2
  <1>9. QED
    BY <1>2, <1>3, <1>4, <1>5, <1>6, <1>7, <1>8 DEF FlashCommand

\* The third write gives the command.
LEMMA TakesCommand ==
  ASSUME NEW kind, NEW a, NEW v, Expects(kind, a, v, 2),
         FlashWrite(WriteOfPlan(kind, a, v, 3)[1], WriteOfPlan(kind, a, v, 3)[2])
  PROVE  /\ kind # "Id" => Advanced(kind, 3)
         /\ kind = "Id" => Carried({}, Erased, view.bank, v = 1)
  <1> DEFINE addr == WriteOfPlan(kind, a, v, 3)[1]
             c == CommandOfPlan(kind, v)
  <1>1. addr = CommandAddr /\ WriteOfPlan(kind, a, v, 3)[2] = c
    BY DEF WriteOfPlan
  <1>2. kind \in Plans /\ flash \in FlashChips /\ flash.bank = view.bank /\ flash.wrseq = "Command"
    BY DEF Expects, Agree, SequenceAfter
  <1>3. FlashRunsCommand(CommandAddr, c)
    BY <1>1, <1>2 DEF FlashWrite, FlashUnlocks
  <1>4. c \in {EnterIdMode, TerminateIdMode, Erase, WriteByte, SelectBank}
    BY DEF CommandOfPlan
  <1>5. /\ c \in DOMAIN SimpleCommand /\ c # EraseEntireChip /\ c # EraseSector /\ c \in FlashCommand
    BY <1>4, CommandCodes
  <1> HIDE DEF addr, c
  <1>6. FlashBecomes(SimpleCommand[c][1], SimpleCommand[c][2]) /\ MemoryStays
    BY <1>3, <1>5 DEF FlashRunsCommand
  <1>7. UNCHANGED <<process, path, file, buffer>>
    BY <1>6 DEF MemoryStays, backupVars
  <1>8. flash' = [flash EXCEPT !.wrseq = SimpleCommand[c][1], !.mode = SimpleCommand[c][2]]
    BY <1>6 DEF FlashBecomes
  <1>9. CASE kind = "Write"
    <2>1. SimpleCommand[c] = <<"Argument", "Write">>
      BY <1>9, CommandCodes DEF c, CommandOfPlan
    <2>2. SequenceAfter(kind, 3) = "Argument" /\ ModeAfter(kind, 3, view) = "Write"
      BY <1>9 DEF SequenceAfter, ModeAfter, PlanLength
    <2>3. SimpleCommand[c][1] = "Argument" /\ SimpleCommand[c][2] = "Write" /\ kind # "Id"
      BY <1>9, <2>1
    <2>4. flash' = [flash EXCEPT !.wrseq = "Argument", !.mode = "Write"]
      BY <1>8, <2>3
    <2>5. Advanced(kind, 3)
      BY <1>7, <2>2, <2>4 DEF Advanced
    <2>6. QED
      BY <2>3, <2>5
  <1>10. CASE kind = "Bank"
    <2>1. SimpleCommand[c] = <<"Argument", "Select">>
      BY <1>10, CommandCodes DEF c, CommandOfPlan
    <2>2. SequenceAfter(kind, 3) = "Argument" /\ ModeAfter(kind, 3, view) = "Select"
      BY <1>10 DEF SequenceAfter, ModeAfter, PlanLength
    <2>3. SimpleCommand[c][1] = "Argument" /\ SimpleCommand[c][2] = "Select" /\ kind # "Id"
      BY <1>10, <2>1
    <2>4. flash' = [flash EXCEPT !.wrseq = "Argument", !.mode = "Select"]
      BY <1>8, <2>3
    <2>5. Advanced(kind, 3)
      BY <1>7, <2>2, <2>4 DEF Advanced
    <2>6. QED
      BY <2>3, <2>5
  <1>11. CASE kind \in {"Sector", "Chip"}
    <2>1. SimpleCommand[c] = <<"Initial", "Erase">>
      BY <1>11, CommandCodes DEF c, CommandOfPlan
    <2>2. SequenceAfter(kind, 3) = "Initial" /\ ModeAfter(kind, 3, view) = "Erase"
      BY <1>11 DEF SequenceAfter, ModeAfter, PlanLength
    <2>3. SimpleCommand[c][1] = "Initial" /\ SimpleCommand[c][2] = "Erase" /\ kind # "Id"
      BY <1>11, <2>1
    <2>4. flash' = [flash EXCEPT !.wrseq = "Initial", !.mode = "Erase"]
      BY <1>8, <2>3
    <2>5. Advanced(kind, 3)
      BY <1>7, <2>2, <2>4 DEF Advanced
    <2>6. QED
      BY <2>3, <2>5
  <1>12. CASE kind = "Id"
    <2>1. SimpleCommand[c] = <<"Initial", IF v = 1 THEN "ChipId" ELSE "Initial">>
      BY <1>12, CommandCodes DEF c, CommandOfPlan
    <2>2. /\ SimpleCommand[c][1] = "Initial"
          /\ SimpleCommand[c][2] = IF v = 1 THEN "ChipId" ELSE "Initial"
      BY <2>1
    <2>3. /\ flash'.wrseq = "Initial" /\ flash'.mode = (IF v = 1 THEN "ChipId" ELSE "Initial")
          /\ flash'.bank = view.bank /\ flash'.banks = flash.banks /\ flash' \in FlashChips
      <3> DEFINE m == IF v = 1 THEN "ChipId" ELSE "Initial"
      <3>1. m \in FlashMode /\ "Initial" \in FlashWriteSequence
        BY DEF FlashMode, FlashWriteSequence
      <3>2. flash' = [flash EXCEPT !.wrseq = "Initial", !.mode = m]
        BY <1>8, <2>2
      <3> HIDE DEF m
      <3>3. /\ flash'.wrseq = "Initial" /\ flash'.mode = m /\ flash' \in FlashChips
            /\ flash'.bank = flash.bank /\ flash'.banks = flash.banks
        BY <1>2, <3>1, <3>2, FlashMoves
      <3>4. QED
        BY <1>2, <3>3 DEF m
    <2>4. QED
      BY <1>7, <1>12, <2>3 DEF Carried
  <1>13. QED
    BY <1>2, <1>9, <1>10, <1>11, <1>12 DEF Plans

\* The argument of a write or of a switch of banks.
LEMMA TakesArgument ==
  ASSUME NEW kind \in {"Write", "Bank"}, NEW a, NEW v, Expects(kind, a, v, 3),
         FlashWrite(WriteOfPlan(kind, a, v, 4)[1], WriteOfPlan(kind, a, v, 4)[2])
  PROVE  LET d == ChangeOfPlan(kind, a, v, view) IN Carried(d.cells, d.value, d.bank, FALSE)
  <1> DEFINE addr == WriteOfPlan(kind, a, v, 4)[1]
  <1>1. addr = (IF kind = "Bank" THEN 0 ELSE a) /\ WriteOfPlan(kind, a, v, 4)[2] = v
    BY DEF WriteOfPlan, PlanLength
  <1>2. /\ flash \in FlashChips /\ flash.bank = view.bank /\ flash.wrseq = "Argument"
        /\ flash.mode = IF kind = "Write" THEN "Write" ELSE "Select"
    BY DEF Expects, Agree, SequenceAfter, ModeAfter, PlanLength
  <1>3. FlashArgument(addr, v)
    BY <1>1, <1>2 DEF FlashWrite, FlashUnlocks
  <1> HIDE DEF addr
  <1>4. CASE kind = "Write"
    <2>1. flash' = [flash EXCEPT !.wrseq = "Initial", !.mode = "Initial", !.bank = flash.bank]
      BY <1>2, <1>3, <1>4 DEF FlashArgument
    <2>2. /\ flash'.wrseq = "Initial" /\ flash'.mode = "Initial"
          /\ flash'.bank = view.bank /\ flash'.banks = flash.banks /\ flash' \in FlashChips
      <3>1. flash.bank \in {0, 1}
        BY <1>2 DEF FlashChips
      <3>2. "Initial" \in FlashMode /\ "Initial" \in FlashWriteSequence
        BY DEF FlashMode, FlashWriteSequence
      <3>3. QED
        BY <1>2, <2>1, <3>1, <3>2, FlashRecord
    <2>3. FillCells({flash_offset(a)}, v)
      BY <1>1, <1>2, <1>3, <1>4 DEF FlashArgument
    <2>4. {flash_offset(a)} = CellsOfPlan(kind, a, view.bank)
      BY <1>2, <1>4 DEF flash_offset, CellsOfPlan
    <2>5. FillCells(CellsOfPlan(kind, a, view.bank), v)
      BY <2>3, <2>4
    <2>6. QED
      BY <1>4, <2>2, <2>5 DEF Carried, ChangeOfPlan
  <1>5. CASE kind = "Bank"
    <2>1. flash' = [flash EXCEPT !.wrseq = "Initial", !.mode = "Initial", !.bank = v]
      BY <1>1, <1>2, <1>3, <1>5 DEF FlashArgument
    <2>2. /\ flash'.wrseq = "Initial" /\ flash'.mode = "Initial"
          /\ flash'.bank = v /\ flash'.banks = flash.banks /\ flash' \in FlashChips
      <3>1. v \in {0, 1}
        BY <1>2, <1>5 DEF Expects, Meant, FlashChips
      <3>2. "Initial" \in FlashMode /\ "Initial" \in FlashWriteSequence
        BY DEF FlashMode, FlashWriteSequence
      <3>3. QED
        BY <1>2, <2>1, <3>1, <3>2, FlashRecord
    <2>3. UNCHANGED <<process, path, file, buffer>>
      BY <1>2, <1>3, <1>5 DEF FlashArgument, MemoryStays, backupVars
    <2>4. CellsOfPlan(kind, a, view.bank) = {}
      BY <1>5 DEF CellsOfPlan
    <2>5. QED
      BY <1>5, <2>2, <2>3, <2>4 DEF Carried, ChangeOfPlan
  <1>6. QED
    BY <1>4, <1>5

\* The last write of an erase.
LEMMA TakesErase ==
  ASSUME NEW kind \in {"Sector", "Chip"}, NEW a, NEW v, Expects(kind, a, v, 5),
         FlashWrite(WriteOfPlan(kind, a, v, 6)[1], WriteOfPlan(kind, a, v, 6)[2])
  PROVE  LET d == ChangeOfPlan(kind, a, v, view) IN Carried(d.cells, d.value, d.bank, FALSE)
  <1> DEFINE w == WriteOfPlan(kind, a, v, 6)
             d == ChangeOfPlan(kind, a, v, view)
  <1>1. w = IF kind = "Sector" THEN <<a, EraseSector>> ELSE <<CommandAddr, EraseEntireChip>>
    BY DEF WriteOfPlan, PlanLength
  <1>2. flash \in FlashChips /\ flash.bank = view.bank /\ flash.wrseq = "Command" /\ flash.mode = "Erase"
    BY DEF Expects, Agree, SequenceAfter, ModeAfter, PlanLength
  <1>3. FlashRunsCommand(w[1], w[2])
    BY <1>2 DEF FlashWrite, FlashUnlocks
  <1>4. ASSUME FlashBecomes("Initial", "Initial")
        PROVE  /\ flash'.wrseq = "Initial" /\ flash'.mode = "Initial"
               /\ flash'.bank = view.bank /\ flash'.banks = flash.banks /\ flash' \in FlashChips
    BY <1>2, <1>4, FlashMoves DEF FlashBecomes, FlashMode, FlashWriteSequence
  <1>5. d.cells = CellsOfPlan(kind, a, view.bank) /\ d.value = Erased /\ d.bank = view.bank
    BY DEF ChangeOfPlan
  <1> HIDE DEF w, d
  <1>6. CASE kind = "Sector"
    <2>1. w[1] = a /\ w[2] = EraseSector
      BY <1>1, <1>6
    <2>2. FillCells(Sector(a), Erased) /\ FlashBecomes("Initial", "Initial")
      BY <1>3, <2>1, CommandCodes DEF FlashRunsCommand
    <2>3. Sector(a) = CellsOfPlan(kind, a, view.bank)
      BY <1>2, <1>6 DEF Sector, flash_offset, CellsOfPlan, SectorAt
    <2>4. QED
      BY <1>4, <1>5, <2>2, <2>3 DEF Carried, d
  <1>7. CASE kind = "Chip"
    <2>1. w[1] = CommandAddr /\ w[2] = EraseEntireChip
      BY <1>1, <1>7
    <2>2. FillCells(0..(flash.banks * BankSize - 1), Erased) /\ FlashBecomes("Initial", "Initial")
      BY <1>2, <1>3, <2>1, CommandCodes DEF FlashRunsCommand
    <2>3. 0..(flash.banks * BankSize - 1) = CellsOfPlan(kind, a, view.bank)
      BY <1>7 DEF CellsOfPlan, ChipSize
    <2>4. QED
      BY <1>4, <1>5, <2>2, <2>3 DEF Carried, d
  <1>8. QED
    BY <1>6, <1>7
-----------------------------------------------------------------------------
(* Every step keeps the flash invariant. *)

\* What the invariant says of a chip that is on, in one place.
LEMMA FlashFacts ==
  ASSUME FlashInv
  PROVE  /\ flash \in FlashChips /\ flash.banks \in {1, 2} /\ flash.bank \in 0..(flash.banks - 1)
         /\ flash.bank = view.bank /\ view.id \in BOOLEAN
         /\ view = [bank |-> view.bank, id |-> view.id]
         /\ ChipSize \in Nat /\ ChipSize >= 1 /\ BankSize \in Nat /\ BankSize >= 2
         /\ DOMAIN holds = 0..(ChipSize - 1)
  <1>1. Agree(flash, view)
    BY DEF FlashInv, Protocol
  <1>2. /\ flash \in FlashChips /\ flash.bank = view.bank /\ flash.bank \in 0..(flash.banks - 1)
        /\ view.id \in BOOLEAN /\ view = [bank |-> view.bank, id |-> view.id]
    BY <1>1 DEF Agree
  <1>3. flash.banks \in {1, 2}
    BY <1>2 DEF FlashChips
  <1>4. ChipSize \in Nat /\ ChipSize >= 1 /\ BankSize \in Nat /\ BankSize >= 2
    <2>1. 0 \in 0..(BankSize - 1) /\ BankSize \in Nat /\ BankSize >= 2
      BY FlashNumbers
    <2>2. flash.banks * BankSize \in Nat /\ flash.banks * BankSize >= BankSize
      BY <1>2, <1>3, <2>1, BankInChip
    <2>3. QED
      BY <2>1, <2>2 DEF ChipSize
  <1>5. DOMAIN holds = 0..(ChipSize - 1)
    BY DEF FlashInv, IsMemory
  <1>6. QED
    BY <1>2, <1>3, <1>4, <1>5

LEMMA FlashSnapshotIsKept ==
  ASSUME FlashSnapshotInv, UNCHANGED fsnapshot, flash'.banks = flash.banks
  PROVE  FlashSnapshotInv'
  <1> DEFINE fl == fsnapshot.flash
             b == fsnapshot.bus
             d == fsnapshot.doing
             vw == fsnapshot.view
  <1>1. CASE ~fsnapshot.taken
    BY <1>1 DEF FlashSnapshotInv
  <1>2. CASE fsnapshot.taken
    <2>1. Protocol(fl, b, d, vw) /\ fsnapshot.taken \in BOOLEAN
      BY <1>2 DEF FlashSnapshotInv
    <2>2. Agree(fl, vw)'
      BY <2>1 DEF Protocol, Agree
    <2>3. CASE BetweenPlans(fl, b, d, vw)
      <3>1. BetweenPlans(fl, b, d, vw)'
        BY <2>3 DEF BetweenPlans
      <3>2. Protocol(fl, b, d, vw)'
        BY <2>2, <3>1 DEF Protocol
      <3>3. QED
        BY <2>1, <3>2 DEF FlashSnapshotInv
    <2>4. CASE \E kind \in Plans, a \in 0..(BankSize - 1), v \in FlashBytes \cup {0, 1}, k \in 0..5 :
                 InPlan(fl, b, d, vw, kind, a, v, k)
      <3>1. PICK kind \in Plans, a \in 0..(BankSize - 1), v \in FlashBytes \cup {0, 1}, k \in 0..5 :
              InPlan(fl, b, d, vw, kind, a, v, k)
        BY <2>4
      <3>2. InPlan(fl, b, d, vw, kind, a, v, k)'
        BY <3>1 DEF InPlan, Meant, ChangeOfPlan, CellsOfPlan, ChipSize
      <3>3. Protocol(fl, b, d, vw)'
        BY <2>2, <3>2 DEF Protocol
      <3>4. QED
        BY <2>1, <3>3 DEF FlashSnapshotInv
    <2>5. QED
      BY <2>1, <2>3, <2>4 DEF Protocol
  <1>3. QED
    BY <1>1, <1>2

LEMMA WriteBusKeeps ==
  ASSUME FlashInv, WriteBus
  PROVE  FlashInv'
  <1>1. /\ process = "on" /\ bus # <<>> /\ FlashWrite(Head(bus)[1], Head(bus)[2]) /\ bus' = Tail(bus)
        /\ UNCHANGED fsnapshot
    BY DEF WriteBus
  <1>2. FlashOn /\ Agree(flash, view) /\ path \in BOOLEAN /\ (~path => file = NoFile)
    BY <1>1 DEF FlashInv, Protocol
  <1>3. PICK kind \in Plans, a \in 0..(BankSize - 1), v \in FlashBytes \cup {0, 1}, k \in 0..5 :
          InPlan(flash, bus, doing, view, kind, a, v, k)
    BY <1>1 DEF FlashInv, Protocol, BetweenPlans
  <1>4. k \in 0..(PlanLength(kind) - 1) /\ bus = RestOfPlan(kind, a, v, k)
    BY <1>3 DEF InPlan
  <1>5. Expects(kind, a, v, k)
    BY <1>2, <1>3, <1>4 DEF Expects, InPlan
  <1>6. /\ FlashWrite(WriteOfPlan(kind, a, v, k + 1)[1], WriteOfPlan(kind, a, v, k + 1)[2])
        /\ bus' = RestOfPlan(kind, a, v, k + 1)
        /\ k + 1 < PlanLength(kind) => bus' # <<>>
        /\ k + 1 = PlanLength(kind) => bus' = <<>>
    BY <1>1, <1>4, RestIsTail
  <1>7. PlanLength(kind) \in Nat /\ k \in Nat /\ (k + 1 < PlanLength(kind) \/ k + 1 = PlanLength(kind))
    BY <1>4 DEF PlanLength
  <1>8. CASE k + 1 < PlanLength(kind)
    <2>1. Advanced(kind, k + 1)
      <3>1. CASE k \in {0, 1} \/ (k \in {3, 4} /\ kind \in {"Sector", "Chip"})
        BY <3>1, <1>5, <1>6, TakesMagic
      <3>2. CASE k = 2
        <4>1. kind # "Id"
          BY <3>2, <1>8 DEF PlanLength
        <4>2. QED
          BY <3>2, <4>1, <1>5, <1>6, TakesCommand
      <3>3. QED
        BY <3>1, <3>2, <1>4, <1>8, PlanPlaces
    <2>2. UNCHANGED <<holds, view, doing>>
      BY <1>1, <1>6, <1>8 DEF WriteBus
    <2>3. SequenceAfter(kind, k + 1) \in FlashWriteSequence /\ ModeAfter(kind, k + 1, view) \in FlashMode
      BY DEF SequenceAfter, ModeAfter, ModeOf, FlashWriteSequence, FlashMode
    <2>4. /\ flash' \in FlashChips /\ flash'.wrseq = SequenceAfter(kind, k + 1)
          /\ flash'.mode = ModeAfter(kind, k + 1, view)
          /\ flash'.bank = flash.bank /\ flash'.banks = flash.banks
      BY <2>1, <2>3, FlashFacts, FlashMoves DEF Advanced
    <2>5. k + 1 \in 0..(PlanLength(kind) - 1) /\ k + 1 \in 0..5
      BY <1>7, <1>8 DEF PlanLength
    <2>6. Agree(flash, view)'
      BY <1>2, <2>2, <2>4 DEF Agree
    <2>7. InPlan(flash, bus, doing, view, kind, a, v, k + 1)'
      BY <1>3, <1>6, <2>2, <2>4, <2>5
      DEF InPlan, Meant, ChangeOfPlan, CellsOfPlan, ChipSize, ModeAfter, ModeOf
    <2>8. Protocol(flash, bus, doing, view)'
      BY <2>5, <2>6, <2>7 DEF Protocol
    <2>9. ChipSize' = ChipSize /\ UNCHANGED <<process, path, file, buffer>>
      BY <2>1, <2>4 DEF ChipSize, Advanced
    <2>10. FlashOn' /\ IsMemory(holds', ChipSize')
      BY <1>2, <2>2, <2>9 DEF FlashInv, FlashOn, IsMemory
    <2>11. FlashSnapshotInv'
      BY <1>1, <2>4, FlashSnapshotIsKept DEF FlashInv
    <2>12. QED
      BY <1>1, <1>2, <2>8, <2>9, <2>10, <2>11 DEF FlashInv
  <1>9. CASE k + 1 = PlanLength(kind)
    <2>1. doing = ChangeOfPlan(kind, a, v, view)
      BY <1>3 DEF InPlan
    <2>2. /\ doing.cells = CellsOfPlan(kind, a, view.bank) /\ doing.id = (kind = "Id" /\ v = 1)
          /\ doing.bank = IF kind = "Bank" THEN v ELSE view.bank
          /\ kind = "Id" => doing.bank = view.bank
      BY <2>1 DEF ChangeOfPlan
    <2>3. Carried(doing.cells, doing.value, doing.bank, doing.id)
      <3>1. CASE kind = "Id"
        <4>1. k = 2
          BY <3>1, <1>7, <1>9 DEF PlanLength
        <4>2. doing.cells = {} /\ doing.value = Erased /\ doing.bank = view.bank /\ doing.id = (v = 1)
          BY <3>1, <2>1 DEF ChangeOfPlan, CellsOfPlan
        <4>3. QED
          BY <3>1, <4>1, <4>2, <1>5, <1>6, TakesCommand
      <3>2. CASE kind \in {"Write", "Bank"}
        <4>1. k = 3
          BY <3>2, <1>7, <1>9 DEF PlanLength
        <4>2. doing.id = FALSE
          BY <3>2, <2>2
        <4>3. /\ Expects(kind, a, v, 3)
              /\ FlashWrite(WriteOfPlan(kind, a, v, 4)[1], WriteOfPlan(kind, a, v, 4)[2])
          BY <4>1, <1>5, <1>6
        <4>4. Carried(doing.cells, doing.value, doing.bank, FALSE)
          BY <3>2, <4>3, <2>1, TakesArgument
        <4>5. QED
          BY <4>2, <4>4
      <3>3. CASE kind \in {"Sector", "Chip"}
        <4>1. k = 5
          BY <3>3, <1>7, <1>9 DEF PlanLength
        <4>2. doing.id = FALSE
          BY <3>3, <2>2
        <4>3. /\ Expects(kind, a, v, 5)
              /\ FlashWrite(WriteOfPlan(kind, a, v, 6)[1], WriteOfPlan(kind, a, v, 6)[2])
          BY <4>1, <1>5, <1>6
        <4>4. Carried(doing.cells, doing.value, doing.bank, FALSE)
          BY <3>3, <4>3, <2>1, TakesErase
        <4>5. QED
          BY <4>2, <4>4
      <3>4. QED
        BY <3>1, <3>2, <3>3 DEF Plans
    <2>4. /\ holds' = Done(doing.cells, doing.value) /\ bus' = <<>> /\ doing' = NoChange
          /\ view' = [bank |-> doing.bank, id |-> doing.id]
      BY <1>1, <1>6, <1>9 DEF WriteBus
    <2>5. doing.cells \subseteq 0..(ChipSize - 1)
      BY <1>3, <2>2, FlashFacts, CellsInChip
    <2>6. /\ UNCHANGED <<process, path>> /\ IsMemory(buffer', ChipSize)
          /\ path => file' = buffer'
          /\ ~path => file' = file
          /\ \A i \in 0..(ChipSize - 1) :
               buffer'[i] = IF i \in doing.cells THEN doing.value ELSE buffer[i]
      <3>1. CASE FillCells(doing.cells, doing.value)
        BY <3>1, <1>2, <2>5, FilledMemory DEF FlashOn
      <3>2. CASE doing.cells = {} /\ UNCHANGED <<process, path, file, buffer>>
        BY <3>2, <1>2 DEF FlashOn
      <3>3. QED
        BY <2>3, <3>1, <3>2 DEF Carried
    <2>7. /\ flash' \in FlashChips /\ flash'.banks = flash.banks /\ flash'.bank = doing.bank
          /\ flash'.wrseq = "Initial" /\ flash'.mode = (IF doing.id THEN "ChipId" ELSE "Initial")
      BY <2>3 DEF Carried
    <2>8. ChipSize' = ChipSize
      BY <2>7 DEF ChipSize
    <2>9. FlashOn' /\ IsMemory(holds', ChipSize') /\ (~path' => file' = NoFile)
      BY <1>1, <2>4, <2>6, <2>8, FlashFacts, DoneKeeps
    <2>10. doing.bank \in 0..(flash.banks - 1) /\ doing.id \in BOOLEAN
      BY <1>5, <2>2, FlashFacts DEF Expects, Meant
    <2>11. Agree(flash, view)'
      BY <2>4, <2>7, <2>10 DEF Agree
    <2>12. BetweenPlans(flash, bus, doing, view)'
      BY <2>4, <2>7 DEF BetweenPlans, ModeOf, NoChange
    <2>13. Protocol(flash, bus, doing, view)'
      BY <2>11, <2>12 DEF Protocol
    <2>14. FlashSnapshotInv'
      BY <1>1, <2>7, FlashSnapshotIsKept DEF FlashInv
    <2>15. QED
      BY <1>1, <1>2, <2>6, <2>9, <2>13, <2>14 DEF FlashInv
  <1>10. QED
    BY <1>7, <1>8, <1>9
LEMMA TuplesAreRows ==
  ASSUME NEW s
  PROVE  /\ <<s[1], s[2], s[3]>> = [i \in 1..3 |-> s[i]]
         /\ <<s[1], s[2], s[3], s[4]>> = [i \in 1..4 |-> s[i]]
         /\ <<s[1], s[2], s[3], s[4], s[5], s[6]>> = [i \in 1..6 |-> s[i]]
  OBVIOUS

LEMMA ThreeAndOne ==
  ASSUME NEW x, NEW y, NEW z, NEW s
  PROVE  <<x, y, z>> \o <<s>> = <<x, y, z, s>>
  <1> DEFINE S == {x, y, z, s}
             p == <<x, y, z>>
             q == <<s>>
             f == p \o q
  <1>1. p \in Seq(S) /\ Len(p) = 3 /\ p[1] = x /\ p[2] = y /\ p[3] = z
    OBVIOUS
  <1>2. q \in Seq(S) /\ Len(q) = 1 /\ q[1] = s
    OBVIOUS
  <1> HIDE DEF S, p, q
  <1>3. /\ f \in Seq(S) /\ Len(f) = Len(p) + Len(q)
        /\ \A i \in 1..Len(p) : f[i] = p[i]
        /\ \A i \in 1..Len(q) : f[Len(p) + i] = q[i]
    <2>1. p \in Seq(S) /\ q \in Seq(S)
      BY <1>1, <1>2
    <2>2. QED
      BY <2>1
  <1> HIDE DEF f
  <1>4. f \in Seq(S) /\ Len(f) = 4 /\ f[1] = x /\ f[2] = y /\ f[3] = z /\ f[4] = s
    BY <1>1, <1>2, <1>3
  <1>5. f = [i \in 1..4 |-> f[i]]
    BY <1>4
  <1>6. f = <<x, y, z, s>>
    BY <1>4, <1>5, TuplesAreRows, Zenon
  <1>7. QED
    BY <1>6 DEF f, p, q

LEMMA ThreeAndThree ==
  ASSUME NEW x, NEW y, NEW z, NEW s, NEW t, NEW u
  PROVE  <<x, y, z>> \o <<s, t, u>> = <<x, y, z, s, t, u>>
  <1> DEFINE S == {x, y, z, s, t, u}
             p == <<x, y, z>>
             q == <<s, t, u>>
             f == p \o q
  <1>1. p \in Seq(S) /\ Len(p) = 3 /\ p[1] = x /\ p[2] = y /\ p[3] = z
    OBVIOUS
  <1>2. q \in Seq(S) /\ Len(q) = 3 /\ q[1] = s /\ q[2] = t /\ q[3] = u
    OBVIOUS
  <1> HIDE DEF S, p, q
  <1>3. /\ f \in Seq(S) /\ Len(f) = Len(p) + Len(q)
        /\ \A i \in 1..Len(p) : f[i] = p[i]
        /\ \A i \in 1..Len(q) : f[Len(p) + i] = q[i]
    <2>1. p \in Seq(S) /\ q \in Seq(S)
      BY <1>1, <1>2
    <2>2. QED
      BY <2>1
  <1> HIDE DEF f
  <1>4. /\ f \in Seq(S) /\ Len(f) = 6 /\ f[1] = x /\ f[2] = y /\ f[3] = z
        /\ f[4] = s /\ f[5] = t /\ f[6] = u
    <2>1. f[3 + 1] = q[1] /\ f[3 + 2] = q[2] /\ f[3 + 3] = q[3]
      BY <1>1, <1>2, <1>3
    <2>2. QED
      BY <1>1, <1>2, <1>3, <2>1
  <1>5. f = [i \in 1..6 |-> f[i]]
    BY <1>4
  <1>6. f = <<x, y, z, s, t, u>>
    BY <1>4, <1>5, TuplesAreRows, Zenon
  <1>7. QED
    BY <1>6 DEF f, p, q

\* The writes of a plan, one by one.
LEMMA PlanIsRest ==
  ASSUME NEW a, NEW v
  PROVE  /\ RestOfPlan("Write", a, v, 0) = Command(WriteByte) \o <<<<a, v>>>>
         /\ RestOfPlan("Sector", a, v, 0) = Command(Erase) \o Unlocked(a, EraseSector)
         /\ RestOfPlan("Chip", a, v, 0) = Command(Erase) \o Command(EraseEntireChip)
         /\ RestOfPlan("Bank", a, v, 0) = Command(SelectBank) \o <<<<0, v>>>>
         /\ RestOfPlan("Id", a, v, 0) = Command(IF v = 1 THEN EnterIdMode ELSE TerminateIdMode)
  <1> DEFINE m1 == <<CommandAddr, \haa>>
             m2 == <<MagicAddr, \h55>>
  <1>1. /\ \A c : Command(c) = <<m1, m2, <<CommandAddr, c>>>>
        /\ \A x, c : Unlocked(x, c) = <<m1, m2, <<x, c>>>>
    BY DEF Command, Unlocked
  <1>2. \A kind : WriteOfPlan(kind, a, v, 1) = m1 /\ WriteOfPlan(kind, a, v, 2) = m2
                  /\ WriteOfPlan(kind, a, v, 3) = <<CommandAddr, CommandOfPlan(kind, v)>>
                  /\ WriteOfPlan(kind, a, v, 5) = m2
    BY DEF WriteOfPlan
  <1>3. \A kind : RestOfPlan(kind, a, v, 0) = [i \in 1..PlanLength(kind) |-> WriteOfPlan(kind, a, v, i)]
    <2> SUFFICES ASSUME NEW kind
                 PROVE  RestOfPlan(kind, a, v, 0) = [i \in 1..PlanLength(kind) |-> WriteOfPlan(kind, a, v, i)]
      OBVIOUS
    <2>1. PlanLength(kind) \in Nat /\ PlanLength(kind) - 0 = PlanLength(kind)
      BY DEF PlanLength
    <2>2. \A i \in 1..PlanLength(kind) : 0 + i = i
      BY <2>1
    <2>3. QED
      BY <2>1, <2>2 DEF RestOfPlan
  <1> HIDE DEF m1, m2
  <1>4. RestOfPlan("Write", a, v, 0) = Command(WriteByte) \o <<<<a, v>>>>
    <2> DEFINE W == [i \in 1..4 |-> WriteOfPlan("Write", a, v, i)]
    <2>1. RestOfPlan("Write", a, v, 0) = W
      BY <1>3 DEF PlanLength
    <2>2. W[1] = m1 /\ W[2] = m2 /\ W[3] = <<CommandAddr, WriteByte>> /\ W[4] = <<a, v>>
      BY <1>2 DEF CommandOfPlan, WriteOfPlan, PlanLength
    <2>3. W = [i \in 1..4 |-> W[i]]
      OBVIOUS
    <2> HIDE DEF W
    <2>4. W = <<m1, m2, <<CommandAddr, WriteByte>>, <<a, v>>>>
      BY <2>2, <2>3, TuplesAreRows, Zenon
    <2>5. QED
      BY <1>1, <2>1, <2>4, ThreeAndOne, Zenon
  <1>5. RestOfPlan("Bank", a, v, 0) = Command(SelectBank) \o <<<<0, v>>>>
    <2> DEFINE W == [i \in 1..4 |-> WriteOfPlan("Bank", a, v, i)]
    <2>1. RestOfPlan("Bank", a, v, 0) = W
      BY <1>3 DEF PlanLength
    <2>2. W[1] = m1 /\ W[2] = m2 /\ W[3] = <<CommandAddr, SelectBank>> /\ W[4] = <<0, v>>
      BY <1>2 DEF CommandOfPlan, WriteOfPlan, PlanLength
    <2>3. W = [i \in 1..4 |-> W[i]]
      OBVIOUS
    <2> HIDE DEF W
    <2>4. W = <<m1, m2, <<CommandAddr, SelectBank>>, <<0, v>>>>
      BY <2>2, <2>3, TuplesAreRows, Zenon
    <2>5. QED
      BY <1>1, <2>1, <2>4, ThreeAndOne, Zenon
  <1>6. RestOfPlan("Id", a, v, 0) = Command(IF v = 1 THEN EnterIdMode ELSE TerminateIdMode)
    <2> DEFINE W == [i \in 1..3 |-> WriteOfPlan("Id", a, v, i)]
               c == IF v = 1 THEN EnterIdMode ELSE TerminateIdMode
    <2>1. RestOfPlan("Id", a, v, 0) = W
      BY <1>3 DEF PlanLength
    <2>2. W[1] = m1 /\ W[2] = m2 /\ W[3] = <<CommandAddr, c>>
      BY <1>2 DEF CommandOfPlan
    <2>3. W = [i \in 1..3 |-> W[i]]
      OBVIOUS
    <2> HIDE DEF W, c
    <2>4. W = <<m1, m2, <<CommandAddr, c>>>>
      BY <2>2, <2>3, TuplesAreRows, Zenon
    <2>5. Command(c) = W
      BY <1>1, <2>4, Zenon
    <2>6. QED
      BY <2>1, <2>5, Zenon DEF c
  <1>7. RestOfPlan("Sector", a, v, 0) = Command(Erase) \o Unlocked(a, EraseSector)
    <2> DEFINE W == [i \in 1..6 |-> WriteOfPlan("Sector", a, v, i)]
    <2>1. RestOfPlan("Sector", a, v, 0) = W
      BY <1>3 DEF PlanLength
    <2>2. /\ W[1] = m1 /\ W[2] = m2 /\ W[3] = <<CommandAddr, Erase>>
          /\ W[4] = m1 /\ W[5] = m2 /\ W[6] = <<a, EraseSector>>
      BY <1>2 DEF CommandOfPlan, WriteOfPlan, PlanLength, m1
    <2>3. W = [i \in 1..6 |-> W[i]]
      OBVIOUS
    <2> HIDE DEF W
    <2>4. W = <<m1, m2, <<CommandAddr, Erase>>, m1, m2, <<a, EraseSector>>>>
      BY <2>2, <2>3, TuplesAreRows, Zenon
    <2>5. Command(Erase) = <<m1, m2, <<CommandAddr, Erase>>>> /\ Unlocked(a, EraseSector) = <<m1, m2, <<a, EraseSector>>>>
      BY <1>1, Zenon
    <2>6. W = <<m1, m2, <<CommandAddr, Erase>>>> \o <<m1, m2, <<a, EraseSector>>>>
      <3> DEFINE c3 == <<CommandAddr, Erase>>
                 c6 == <<a, EraseSector>>
      <3>1. W = <<m1, m2, c3, m1, m2, c6>>
        BY <2>4
      <3> HIDE DEF c3, c6
      <3>2. <<m1, m2, c3>> \o <<m1, m2, c6>> = <<m1, m2, c3, m1, m2, c6>>
        BY ThreeAndThree
      <3>3. QED
        BY <3>1, <3>2 DEF c3, c6
    <2>7. QED
      BY <2>1, <2>5, <2>6, Zenon
  <1>8. RestOfPlan("Chip", a, v, 0) = Command(Erase) \o Command(EraseEntireChip)
    <2> DEFINE W == [i \in 1..6 |-> WriteOfPlan("Chip", a, v, i)]
    <2>1. RestOfPlan("Chip", a, v, 0) = W
      BY <1>3 DEF PlanLength
    <2>2. /\ W[1] = m1 /\ W[2] = m2 /\ W[3] = <<CommandAddr, Erase>>
          /\ W[4] = m1 /\ W[5] = m2 /\ W[6] = <<CommandAddr, EraseEntireChip>>
      BY <1>2 DEF CommandOfPlan, WriteOfPlan, PlanLength, m1
    <2>3. W = [i \in 1..6 |-> W[i]]
      OBVIOUS
    <2> HIDE DEF W
    <2>4. W = <<m1, m2, <<CommandAddr, Erase>>, m1, m2, <<CommandAddr, EraseEntireChip>>>>
      BY <2>2, <2>3, TuplesAreRows, Zenon
    <2>5. Command(Erase) = <<m1, m2, <<CommandAddr, Erase>>>> /\ Command(EraseEntireChip) = <<m1, m2, <<CommandAddr, EraseEntireChip>>>>
      BY <1>1, Zenon
    <2>6. W = <<m1, m2, <<CommandAddr, Erase>>>> \o <<m1, m2, <<CommandAddr, EraseEntireChip>>>>
      <3> DEFINE c3 == <<CommandAddr, Erase>>
                 c6 == <<CommandAddr, EraseEntireChip>>
      <3>1. W = <<m1, m2, c3, m1, m2, c6>>
        BY <2>4
      <3> HIDE DEF c3, c6
      <3>2. <<m1, m2, c3>> \o <<m1, m2, c6>> = <<m1, m2, c3, m1, m2, c6>>
        BY ThreeAndThree
      <3>3. QED
        BY <3>1, <3>2 DEF c3, c6
    <2>7. QED
      BY <2>1, <2>5, <2>6, Zenon
  <1>9. QED
    BY <1>4, <1>5, <1>6, <1>7, <1>8

\* A plan that a game makes while nothing is under way.
LEMMA PlanKeeps ==
  ASSUME FlashInv, FlashIdle, NEW kind \in Plans, NEW a, NEW v \in FlashBytes \cup {0, 1}, Meant(kind, a, v),
         view.id => kind = "Id",
         bus' = RestOfPlan(kind, a, v, 0), doing' = ChangeOfPlan(kind, a, v, view),
         UNCHANGED <<flashChipVars, view, fsnapshot, holds>>
  PROVE  FlashInv'
  <1>1. process = "on" /\ bus = <<>> /\ a \in 0..(BankSize - 1)
    BY DEF FlashIdle, Meant
  <1>2. UNCHANGED <<process, flash, path, file, buffer, view, fsnapshot, holds>>
    BY DEF flashChipVars, backupVars
  <1>3. Agree(flash, view) /\ BetweenPlans(flash, bus, doing, view)
    <2>1. ASSUME NEW k2 \in Plans, NEW a2, NEW v2, NEW n, InPlan(flash, bus, doing, view, k2, a2, v2, n)
          PROVE  FALSE
      BY <1>1, <2>1, RestIsTail DEF InPlan
    <2>2. QED
      BY <2>1 DEF FlashInv, Protocol
  <1>4. flash.wrseq = SequenceAfter(kind, 0) /\ flash.mode = ModeAfter(kind, 0, view)
    BY <1>3 DEF BetweenPlans, SequenceAfter, ModeAfter
  <1>5. 0 \in 0..(PlanLength(kind) - 1)
    BY DEF PlanLength
  <1>6. InPlan(flash, bus, doing, view, kind, a, v, 0)'
    BY <1>2, <1>4, <1>5 DEF InPlan, Meant, ChangeOfPlan, CellsOfPlan, ChipSize, ModeAfter, ModeOf
  <1>7. Protocol(flash, bus, doing, view)'
    BY <1>1, <1>2, <1>3, <1>6 DEF Protocol, Agree
  <1>8. FlashSnapshotInv'
    BY <1>2, FlashSnapshotIsKept DEF FlashInv
  <1>9. QED
    BY <1>1, <1>2, <1>7, <1>8 DEF FlashInv, FlashOn, ChipSize, IsMemory
LEMMA PlansKeep ==
  ASSUME FlashInv,
         \/ \E a \in FlashCells, v \in FlashBytes : PlanWrite(a, v)
         \/ \E a \in FlashCells : PlanEraseSector(a)
         \/ PlanEraseChip
         \/ \E b \in 0..(flash.banks - 1) : PlanBank(b)
         \/ \E b \in BOOLEAN : PlanIdMode(b)
  PROVE  FlashInv'
  <1>1. /\ \A a \in FlashCells : a \in 0..(BankSize - 1)
        /\ 0 \in 0..(BankSize - 1)
    BY FlashGameAssumption, FlashNumbers
  <1>2. /\ view = [bank |-> view.bank, id |-> view.id] /\ view.id \in BOOLEAN
        /\ flash.banks \in {1, 2} /\ DOMAIN holds = 0..(ChipSize - 1)
    BY FlashFacts
  <1>3. ASSUME NEW kind \in Plans, NEW a, NEW v \in FlashBytes \cup {0, 1}, Meant(kind, a, v),
               view.id => kind = "Id",
               NEW d, d = ChangeOfPlan(kind, a, v, view),
               Plan(RestOfPlan(kind, a, v, 0), d.cells, d.value, d.bank, d.id)
        PROVE  FlashInv'
    <2>1. doing' = d
      BY <1>3 DEF Plan, ChangeOfPlan
    <2>2. FlashIdle /\ bus' = RestOfPlan(kind, a, v, 0) /\ UNCHANGED <<flashChipVars, view, fsnapshot, holds>>
      BY <1>3 DEF Plan
    <2>3. QED
      BY <1>3, <2>1, <2>2, PlanKeeps
  <1>4. ASSUME NEW a \in FlashCells, NEW v \in FlashBytes, PlanWrite(a, v)
        PROVE  FlashInv'
    <2> DEFINE d == ChangeOfPlan("Write", a, v, view)
    <2>1. /\ "Write" \in Plans /\ v \in FlashBytes \cup {0, 1} /\ Meant("Write", a, v) /\ ~view.id
      BY <1>1, <1>4 DEF Plans, Meant, PlanWrite
    <2>2. d.cells = {Absolute(a)} /\ d.value = v /\ d.bank = view.bank /\ d.id = FALSE
      BY DEF ChangeOfPlan, CellsOfPlan, Absolute
    <2>3. Plan(RestOfPlan("Write", a, v, 0), {Absolute(a)}, v, view.bank, FALSE)
      BY <1>4, PlanIsRest DEF PlanWrite
    <2> HIDE DEF d
    <2>4. Plan(RestOfPlan("Write", a, v, 0), d.cells, d.value, d.bank, d.id)
      BY <2>2, <2>3
    <2>5. QED
      BY <1>3, <2>1, <2>4 DEF d
  <1>5. ASSUME NEW a \in FlashCells, PlanEraseSector(a)
        PROVE  FlashInv'
    <2> DEFINE d == ChangeOfPlan("Sector", a, 0, view)
    <2>1. /\ "Sector" \in Plans /\ 0 \in FlashBytes \cup {0, 1} /\ Meant("Sector", a, 0) /\ ~view.id
      BY <1>1, <1>5 DEF Plans, Meant, PlanEraseSector
    <2>2. d.cells = SectorAt(view.bank, a) /\ d.value = Erased /\ d.bank = view.bank /\ d.id = FALSE
      BY DEF ChangeOfPlan, CellsOfPlan
    <2>3. Plan(RestOfPlan("Sector", a, 0, 0), SectorAt(view.bank, a), Erased, view.bank, FALSE)
      BY <1>5, PlanIsRest DEF PlanEraseSector, SectorAt, Absolute
    <2> HIDE DEF d
    <2>4. Plan(RestOfPlan("Sector", a, 0, 0), d.cells, d.value, d.bank, d.id)
      BY <2>2, <2>3
    <2>5. QED
      BY <1>3, <2>1, <2>4 DEF d
  <1>6. ASSUME PlanEraseChip
        PROVE  FlashInv'
    <2> DEFINE d == ChangeOfPlan("Chip", 0, 0, view)
    <2>1. /\ "Chip" \in Plans /\ 0 \in FlashBytes \cup {0, 1} /\ Meant("Chip", 0, 0) /\ ~view.id
      BY <1>1, <1>6 DEF Plans, Meant, PlanEraseChip
    <2>2. d.cells = DOMAIN holds /\ d.value = Erased /\ d.bank = view.bank /\ d.id = FALSE
      BY <1>2 DEF ChangeOfPlan, CellsOfPlan
    <2>3. Plan(RestOfPlan("Chip", 0, 0, 0), DOMAIN holds, Erased, view.bank, FALSE)
      BY <1>6, PlanIsRest DEF PlanEraseChip
    <2> HIDE DEF d
    <2>4. Plan(RestOfPlan("Chip", 0, 0, 0), d.cells, d.value, d.bank, d.id)
      BY <2>2, <2>3
    <2>5. QED
      BY <1>3, <2>1, <2>4 DEF d
  <1>7. ASSUME NEW b \in 0..(flash.banks - 1), PlanBank(b)
        PROVE  FlashInv'
    <2> DEFINE d == ChangeOfPlan("Bank", 0, b, view)
    <2>1. /\ "Bank" \in Plans /\ b \in FlashBytes \cup {0, 1} /\ Meant("Bank", 0, b) /\ ~view.id
      BY <1>1, <1>2, <1>7 DEF Plans, Meant, PlanBank
    <2>2. d.cells = {} /\ d.value = Erased /\ d.bank = b /\ d.id = FALSE
      BY DEF ChangeOfPlan, CellsOfPlan
    <2>3. Plan(RestOfPlan("Bank", 0, b, 0), {}, Erased, b, FALSE)
      BY <1>7, PlanIsRest DEF PlanBank
    <2> HIDE DEF d
    <2>4. Plan(RestOfPlan("Bank", 0, b, 0), d.cells, d.value, d.bank, d.id)
      BY <2>2, <2>3
    <2>5. QED
      BY <1>3, <2>1, <2>4 DEF d
  <1>8. ASSUME NEW b \in BOOLEAN, PlanIdMode(b)
        PROVE  FlashInv'
    <2> DEFINE v == IF b THEN 1 ELSE 0
               d == ChangeOfPlan("Id", 0, v, view)
    <2>1. "Id" \in Plans /\ v \in FlashBytes \cup {0, 1} /\ v \in {0, 1} /\ (v = 1 <=> b)
      BY DEF Plans
    <2> HIDE DEF v
    <2>2. Meant("Id", 0, v)
      BY <1>1, <2>1 DEF Meant
    <2>3. d.cells = {} /\ d.value = Erased /\ d.bank = view.bank /\ d.id = b
      BY <2>1 DEF ChangeOfPlan, CellsOfPlan
    <2>4. RestOfPlan("Id", 0, v, 0) = Command(IF b THEN EnterIdMode ELSE TerminateIdMode)
      BY <2>1, PlanIsRest
    <2>5. Plan(RestOfPlan("Id", 0, v, 0), {}, Erased, view.bank, b)
      BY <1>8, <2>4 DEF PlanIdMode
    <2> HIDE DEF d
    <2>6. Plan(RestOfPlan("Id", 0, v, 0), d.cells, d.value, d.bank, d.id)
      BY <2>3, <2>5
    <2>7. QED
      BY <1>3, <2>1, <2>2, <2>6 DEF d
  <1>9. QED
    BY <1>4, <1>5, <1>6, <1>7, <1>8

LEMMA SramWriteKeeps ==
  ASSUME FlashInv, NEW a \in FlashCells, NEW v, SramWrite(a, v)
  PROVE  FlashInv'
  <1>1. /\ process = "on" /\ FillCells({a}, v) /\ holds' = Done({a}, v)
        /\ UNCHANGED <<flash, bus, doing, view, fsnapshot>>
    BY DEF SramWrite, FlashIdle, flashGameVars
  <1>2. a \in 0..(ChipSize - 1) /\ ChipSize \in Nat /\ ChipSize' = ChipSize
    <2>1. a \in 0..(BankSize - 1)
      BY FlashGameAssumption
    <2>2. flash.banks \in {1, 2} /\ ChipSize \in Nat
      BY FlashFacts
    <2>3. ChipSize >= BankSize /\ BankSize \in Nat
      BY <2>1, <2>2, BankInChip, FlashNumbers DEF ChipSize
    <2>4. QED
      BY <1>1, <2>1, <2>2, <2>3 DEF ChipSize
  <1>3. /\ UNCHANGED <<process, path>> /\ IsMemory(buffer', ChipSize)
        /\ path => file' = buffer'
        /\ ~path => file' = file
        /\ \A i \in 0..(ChipSize - 1) : buffer'[i] = IF i \in {a} THEN v ELSE buffer[i]
    BY <1>1, <1>2, FilledMemory DEF FlashInv, FlashOn
  <1>4. FlashOn' /\ IsMemory(holds', ChipSize') /\ (~path' => file' = NoFile)
    BY <1>1, <1>2, <1>3, DoneKeeps
  <1>5. Protocol(flash, bus, doing, view)'
    BY <1>1, <1>2 DEF FlashInv, Protocol, Agree, InPlan, BetweenPlans, Meant, ChangeOfPlan, CellsOfPlan
  <1>6. FlashSnapshotInv'
    BY <1>1, FlashSnapshotIsKept DEF FlashInv
  <1>7. QED
    BY <1>1, <1>3, <1>4, <1>5, <1>6 DEF FlashInv
\* A chip without power, and one that was just switched on.
LEMMA NewFlashAgrees ==
  ASSUME FlashInv, flash' = NewFlash(flash.banks), bus' = <<>>, doing' = NoChange, view' = ClearView
  PROVE  /\ Protocol(flash, bus, doing, view)' /\ flash'.banks = flash.banks /\ ChipSize' = ChipSize
         /\ flash' = NewFlash(flash'.banks)
  <1>1. flash.banks \in {1, 2}
    BY FlashFacts
  <1>2. /\ flash' \in FlashChips /\ flash'.banks = flash.banks /\ flash'.bank = 0
        /\ flash'.wrseq = "Initial" /\ flash'.mode = "Initial"
    BY <1>1 DEF NewFlash, FlashChips, FlashWriteSequence, FlashMode
  <1>3. view'.bank = 0 /\ view'.id = FALSE /\ view' \in [bank : 0..(flash.banks - 1), id : BOOLEAN]
    BY <1>1 DEF ClearView
  <1>4. Agree(flash, view)'
    BY <1>2, <1>3 DEF Agree
  <1>5. BetweenPlans(flash, bus, doing, view)'
    BY <1>2, <1>3 DEF BetweenPlans, ModeOf, NoChange
  <1>6. QED
    BY <1>2, <1>4, <1>5 DEF Protocol, ChipSize

LEMMA EndFlashKeeps ==
  ASSUME FlashInv, EndFlashSession
  PROVE  FlashInv'
  <1>1. /\ process = "on" /\ process' = "off" /\ flash' = NewFlash(flash.banks)
        /\ bus' = <<>> /\ doing' = NoChange /\ view' = ClearView
        /\ UNCHANGED <<path, file, fsnapshot>>
        /\ holds' = IF path THEN holds ELSE NothingHeld
    BY DEF EndFlashSession, GameForgets
  <1>2. /\ Protocol(flash, bus, doing, view)' /\ flash'.banks = flash.banks /\ ChipSize' = ChipSize
        /\ flash' = NewFlash(flash'.banks)
    BY <1>1, NewFlashAgrees
  <1>3. FlashOn /\ path \in BOOLEAN /\ (~path => file = NoFile) /\ IsMemory(holds, ChipSize)
        /\ DOMAIN holds = 0..(ChipSize - 1)
    BY <1>1, FlashFacts DEF FlashInv
  <1>4. CASE path
    <2>1. IsMemory(holds', ChipSize') /\ IsMemory(file', ChipSize')
      BY <1>1, <1>2, <1>3, <1>4 DEF FlashOn, IsMemory
    <2>2. \A i \in 0..(ChipSize' - 1) : file'[i] \in holds'[i]
      BY <1>1, <1>2, <1>3, <1>4 DEF FlashOn
    <2>3. FlashOff'
      BY <1>1, <1>2, <1>4, <2>1, <2>2 DEF FlashOff
    <2>4. QED
      BY <1>1, <1>2, <1>3, <1>4, <2>1, <2>3, FlashSnapshotIsKept DEF FlashInv
  <1>5. CASE ~path
    <2>1. holds' = [i \in 0..(ChipSize - 1) |-> {Erased}] /\ file' = NoFile
      BY <1>1, <1>3, <1>5 DEF NothingHeld
    <2>2. IsMemory(holds', ChipSize') /\ \A i \in 0..(ChipSize' - 1) : holds'[i] = {Erased}
      BY <1>2, <2>1 DEF IsMemory
    <2>3. FlashOff'
      BY <1>1, <1>2, <2>1, <2>2 DEF FlashOff
    <2>4. QED
      BY <1>1, <1>2, <1>3, <1>5, <2>1, <2>2, <2>3, FlashSnapshotIsKept DEF FlashInv
  <1>6. QED
    BY <1>3, <1>4, <1>5

LEMMA KilledKeeps ==
  ASSUME FlashInv, NEW last, KilledWhileErasing(last)
  PROVE  FlashInv'
  <1> DEFINE gone(i) == i \in doing.cells /\ i <= last
  <1>1. /\ process = "on" /\ process' = "off" /\ path /\ flash' = NewFlash(flash.banks)
        /\ bus' = <<>> /\ doing' = NoChange /\ view' = ClearView
        /\ UNCHANGED <<path, fsnapshot>>
        /\ file' = [i \in DOMAIN file |-> IF gone(i) THEN Erased ELSE file[i]]
        /\ holds' = [i \in DOMAIN holds |-> IF gone(i) THEN {Erased} ELSE holds[i]]
    BY DEF KilledWhileErasing, GameForgets
  <1> HIDE DEF gone
  <1>2. /\ Protocol(flash, bus, doing, view)' /\ flash'.banks = flash.banks /\ ChipSize' = ChipSize
        /\ flash' = NewFlash(flash'.banks)
    BY <1>1, NewFlashAgrees
  <1>3. /\ FlashOn /\ file = buffer /\ DOMAIN file = 0..(ChipSize - 1) /\ DOMAIN holds = 0..(ChipSize - 1)
    BY <1>1, FlashFacts DEF FlashInv, FlashOn, IsMemory
  <1>4. IsMemory(holds', ChipSize') /\ IsMemory(file', ChipSize')
    BY <1>1, <1>2, <1>3 DEF IsMemory
  <1>5. \A i \in 0..(ChipSize' - 1) : file'[i] \in holds'[i]
    <2>1. \A i \in 0..(ChipSize - 1) : file[i] \in holds[i]
      BY <1>3 DEF FlashOn
    <2>2. QED
      BY <1>1, <1>2, <1>3, <2>1
  <1>6. FlashOff'
    BY <1>1, <1>2, <1>4, <1>5 DEF FlashOff
  <1>7. QED
    BY <1>1, <1>2, <1>4, <1>6, FlashSnapshotIsKept DEF FlashInv

\* A memory of n cells that is opened over nothing or over its own file.
LEMMA OpenedMemory ==
  ASSUME NEW n \in Nat, n >= 1, path \in BOOLEAN, path => file = NoFile \/ IsMemory(file, n),
         OpenBackup(n)
  PROVE  /\ IsMemory(buffer', n) /\ path' = path
         /\ path => file' = buffer'
         /\ ~path => file' = file
         /\ path /\ file # NoFile => buffer' = file
         /\ ~path \/ file = NoFile => \A i \in 0..(n - 1) : buffer'[i] = Erased
  <1>1. /\ file' = IF path /\ file = NoFile THEN Blank(n) ELSE file
        /\ buffer' = IF path THEN Resized(file', n) ELSE Blank(n)
        /\ path' = path
    BY DEF OpenBackup
  <1>2. IsMemory(Blank(n), n) /\ \A i \in 0..(n - 1) : Blank(n)[i] = Erased
    BY NewMemory DEF Blank
  <1>3. path => IsMemory(file', n)
    BY <1>1, <1>2
  <1>4. path => buffer' = file'
    BY <1>1, <1>3, MemoryIsKept
  <1>5. QED
    BY <1>1, <1>2, <1>3, <1>4

LEMMA StartFlashKeeps ==
  ASSUME FlashInv, StartFlashSession
  PROVE  FlashInv'
  <1>1. /\ process = "off" /\ process' = "on" /\ flash' = NewFlash(flash.banks) /\ OpenBackup(ChipSize)
        /\ UNCHANGED <<bus, doing, view, fsnapshot, holds>>
    BY DEF StartFlashSession, FlashNew, ChipSize, flashGameVars, FlashInv
  <1>2. FlashOff /\ path \in BOOLEAN /\ (~path => file = NoFile) /\ ChipSize \in Nat /\ ChipSize >= 1
    BY <1>1, FlashFacts DEF FlashInv
  <1>3. /\ Protocol(flash, bus, doing, view)' /\ flash'.banks = flash.banks /\ ChipSize' = ChipSize
    BY <1>1, <1>2, NewFlashAgrees DEF FlashOff
  <1>4. /\ IsMemory(buffer', ChipSize) /\ path' = path
        /\ path => file' = buffer'
        /\ ~path => file' = file
        /\ path /\ file # NoFile => buffer' = file
        /\ ~path \/ file = NoFile => \A i \in 0..(ChipSize - 1) : buffer'[i] = Erased
    <2>1. path => file = NoFile \/ IsMemory(file, ChipSize)
      BY <1>2 DEF FlashOff
    <2>2. QED
      BY <1>1, <1>2, <2>1, OpenedMemory
  <1>5. \A i \in 0..(ChipSize - 1) : buffer'[i] \in holds'[i]
    <2>1. CASE file = NoFile /\ \A i \in 0..(ChipSize - 1) : holds[i] = {Erased}
      BY <1>1, <1>4, <2>1
    <2>2. CASE /\ path /\ IsMemory(file, ChipSize)
               /\ \A i \in 0..(ChipSize - 1) : file[i] \in holds[i]
      <3>1. file # NoFile
        BY <1>2, <2>2, MemoryLength
      <3>2. QED
        BY <1>1, <1>4, <2>2, <3>1
    <2>3. QED
      BY <1>2, <2>1, <2>2 DEF FlashOff
  <1>6. FlashOn' /\ IsMemory(holds', ChipSize')
    BY <1>1, <1>3, <1>4, <1>5 DEF FlashOn, FlashInv, IsMemory
  <1>7. QED
    BY <1>1, <1>2, <1>3, <1>4, <1>6, FlashSnapshotIsKept DEF FlashInv

LEMMA SaveFlashKeeps ==
  ASSUME FlashInv, SaveFlashState
  PROVE  FlashInv'
  <1>1. /\ fsnapshot' = [taken |-> TRUE, flash |-> flash, bus |-> bus, doing |-> doing, view |-> view]
        /\ UNCHANGED <<process, path, file, buffer, flash, bus, doing, view, holds>>
    BY DEF SaveFlashState, flashChipVars, backupVars, flashGameVars
  <1>2. Protocol(flash, bus, doing, view)'
    BY <1>1 DEF FlashInv, Protocol, Agree, InPlan, BetweenPlans, Meant, ChangeOfPlan, CellsOfPlan, ChipSize
  <1>3. /\ fsnapshot'.taken = TRUE /\ fsnapshot'.flash = flash' /\ fsnapshot'.bus = bus'
        /\ fsnapshot'.doing = doing' /\ fsnapshot'.view = view'
    BY <1>1
  <1>4. FlashSnapshotInv'
    BY <1>2, <1>3 DEF FlashSnapshotInv
  <1>5. QED
    BY <1>1, <1>2, <1>4 DEF FlashInv, FlashOn, FlashOff, ChipSize, IsMemory

LEMMA RestoreFlashKeeps ==
  ASSUME FlashInv, RestoreFlashState
  PROVE  FlashInv'
  <1>1. /\ process = "on" /\ process' = "on" /\ fsnapshot.taken
        /\ flash' = fsnapshot.flash /\ bus' = fsnapshot.bus
        /\ doing' = fsnapshot.doing /\ view' = fsnapshot.view
        /\ OpenBackup(ChipSize) /\ holds' = (IF path THEN holds ELSE NothingHeld)
        /\ fsnapshot' = NoFlashState
    BY DEF RestoreFlashState, ChipSize, FlashInv
  <1>2. Protocol(fsnapshot.flash, fsnapshot.bus, fsnapshot.doing, fsnapshot.view)
    BY <1>1 DEF FlashInv, FlashSnapshotInv
  <1>3. flash'.banks = flash.banks /\ ChipSize' = ChipSize
    BY <1>1, <1>2 DEF Protocol, Agree, ChipSize
  <1>4. Protocol(flash, bus, doing, view)'
    <2> DEFINE fl == fsnapshot.flash
               b == fsnapshot.bus
               d == fsnapshot.doing
               vw == fsnapshot.view
    <2>1. flash' = fl /\ bus' = b /\ doing' = d /\ view' = vw /\ Protocol(fl, b, d, vw)
      BY <1>1, <1>2
    <2> HIDE DEF fl, b, d, vw
    <2>2. Agree(flash, view)'
      BY <2>1, <1>3 DEF Protocol, Agree
    <2>3. CASE BetweenPlans(fl, b, d, vw)
      <3>1. BetweenPlans(flash, bus, doing, view)'
        BY <2>1, <2>3 DEF BetweenPlans
      <3>2. QED
        BY <2>2, <3>1 DEF Protocol
    <2>4. CASE \E kind \in Plans, a \in 0..(BankSize - 1), v \in FlashBytes \cup {0, 1}, k \in 0..5 :
                 InPlan(fl, b, d, vw, kind, a, v, k)
      <3>1. PICK kind \in Plans, a \in 0..(BankSize - 1), v \in FlashBytes \cup {0, 1}, k \in 0..5 :
              InPlan(fl, b, d, vw, kind, a, v, k)
        BY <2>4
      <3>2. InPlan(flash, bus, doing, view, kind, a, v, k)'
        BY <2>1, <3>1, <1>3 DEF InPlan, Meant, ChangeOfPlan, CellsOfPlan, ChipSize
      <3>3. QED
        BY <2>2, <3>2 DEF Protocol
    <2>5. QED
      BY <2>1, <2>3, <2>4 DEF Protocol
  <1>5. FlashOn /\ path \in BOOLEAN /\ (~path => file = NoFile) /\ ChipSize \in Nat /\ ChipSize >= 1
        /\ IsMemory(holds, ChipSize) /\ DOMAIN holds = 0..(ChipSize - 1)
    BY <1>1, FlashFacts DEF FlashInv
  <1>6. /\ IsMemory(buffer', ChipSize) /\ path' = path
        /\ path => file' = buffer'
        /\ ~path => file' = file
        /\ path /\ file # NoFile => buffer' = file
        /\ ~path \/ file = NoFile => \A i \in 0..(ChipSize - 1) : buffer'[i] = Erased
    BY <1>1, <1>5, OpenedMemory DEF FlashOn
  <1>7. IsMemory(holds', ChipSize) /\ \A i \in 0..(ChipSize - 1) : buffer'[i] \in holds'[i]
    <2>1. CASE path
      <3>1. file = buffer /\ file # NoFile
        BY <1>5, <2>1, MemoryLength DEF FlashOn
      <3>2. QED
        BY <1>1, <1>5, <1>6, <2>1, <3>1 DEF FlashOn
    <2>2. CASE ~path
      <3>1. holds' = [i \in 0..(ChipSize - 1) |-> {Erased}]
        BY <1>1, <1>5, <2>2 DEF NothingHeld
      <3>2. QED
        BY <1>6, <2>2, <3>1 DEF IsMemory
    <2>3. QED
      BY <1>5, <2>1, <2>2
  <1>8. FlashOn' /\ IsMemory(holds', ChipSize')
    BY <1>3, <1>6, <1>7 DEF FlashOn, IsMemory
  <1>9. FlashSnapshotInv'
    BY <1>1 DEF FlashSnapshotInv, NoFlashState
  <1>10. QED
    BY <1>1, <1>4, <1>5, <1>6, <1>8, <1>9 DEF FlashInv
LEMMA FlashStarts ==
  ASSUME NEW type \in FlashMedia, FlashInit(IF type = "Sram" THEN type ELSE "Flash", FlashSizeOf(type))
  PROVE  FlashInv
  <1> DEFINE banks == FlashSizeOf(type)
  <1>1. banks \in {1, 2}
    BY DEF FlashSizeOf
  <1> HIDE DEF banks
  <1>2. /\ flash = NewFlash(banks) /\ process = "off" /\ path \in BOOLEAN /\ file = NoFile
        /\ bus = <<>> /\ doing = NoChange /\ view = ClearView /\ fsnapshot = NoFlashState
        /\ holds = [i \in 0..(banks * BankSize - 1) |-> {Erased}]
    BY DEF FlashInit, banks
  <1>3. /\ flash \in FlashChips /\ flash.banks = banks /\ flash.bank = 0
        /\ flash.wrseq = "Initial" /\ flash.mode = "Initial"
    BY <1>1, <1>2 DEF NewFlash, FlashChips, FlashWriteSequence, FlashMode
  <1>4. view.bank = 0 /\ view.id = FALSE /\ view \in [bank : 0..(banks - 1), id : BOOLEAN]
    BY <1>1, <1>2 DEF ClearView
  <1>5. Agree(flash, view)
    BY <1>3, <1>4 DEF Agree
  <1>6. BetweenPlans(flash, bus, doing, view)
    BY <1>2, <1>3, <1>4 DEF BetweenPlans, ModeOf
  <1>7. Protocol(flash, bus, doing, view)
    BY <1>5, <1>6 DEF Protocol
  <1>8. holds = [i \in 0..(ChipSize - 1) |-> {Erased}]
    BY <1>2, <1>3 DEF ChipSize
  <1>9. IsMemory(holds, ChipSize) /\ \A i \in 0..(ChipSize - 1) : holds[i] = {Erased}
    BY <1>8 DEF IsMemory
  <1>10. FlashOff
    BY <1>2, <1>3, <1>9 DEF FlashOff
  <1>11. FlashSnapshotInv
    BY <1>2 DEF FlashSnapshotInv, NoFlashState
  <1>12. QED
    BY <1>2, <1>7, <1>9, <1>10, <1>11 DEF FlashInv

LEMMA FlashKeeps ==
  ASSUME FlashInv, [FlashNext]_flashVars
  PROVE  FlashInv'
  <1>1. CASE UNCHANGED flashVars
    <2>1. UNCHANGED <<process, flash, path, file, buffer, bus, doing, view, fsnapshot, holds>>
      BY <1>1 DEF flashVars, flashChipVars, backupVars, flashGameVars
    <2>2. Protocol(flash, bus, doing, view)'
      BY <2>1 DEF FlashInv, Protocol, Agree, InPlan, BetweenPlans, Meant, ChangeOfPlan, CellsOfPlan, ChipSize
    <2>3. FlashSnapshotInv'
      BY <2>1, FlashSnapshotIsKept DEF FlashInv
    <2>4. QED
      BY <2>1, <2>2, <2>3 DEF FlashInv, FlashOn, FlashOff, ChipSize, IsMemory
  <1>2. CASE FlashGame
    BY <1>2, PlansKeep, SramWriteKeeps, WriteBusKeeps DEF FlashGame
  <1>3. CASE FlashProcess
    BY <1>3, EndFlashKeeps, StartFlashKeeps, KilledKeeps, SaveFlashKeeps, RestoreFlashKeeps DEF FlashProcess
  <1>4. QED
    BY <1>1, <1>2, <1>3 DEF FlashNext

\* The game reads what the memory holds, in the bank it means.
LEMMA FlashReads ==
  ASSUME FlashInv
  PROVE  FlashKeepsBytes
  <1>1. SUFFICES ASSUME FlashIdle, ~view.id, NEW a \in 0..(BankSize - 1)
                 PROVE  FlashReadable(a) /\ FlashRead(a) \in holds[Absolute(a)]
    BY DEF FlashKeepsBytes
  <1>2. process = "on" /\ bus = <<>>
    BY <1>1 DEF FlashIdle
  <1>3. BetweenPlans(flash, bus, doing, view)
    <2>1. ASSUME NEW kind \in Plans, NEW a2, NEW v, NEW k, InPlan(flash, bus, doing, view, kind, a2, v, k)
          PROVE  FALSE
      BY <1>2, <2>1, RestIsTail DEF InPlan
    <2>2. QED
      BY <2>1 DEF FlashInv, Protocol
  <1>4. flash.mode = "Initial" /\ flash.bank = view.bank /\ flash_offset(a) = Absolute(a)
    BY <1>1, <1>3, FlashFacts DEF BetweenPlans, ModeOf, flash_offset, Absolute
  <1>5. flash_offset(a) \in 0..(ChipSize - 1)
    BY FlashFacts, BankInChip DEF flash_offset, ChipSize
  <1>6. DOMAIN buffer = 0..(ChipSize - 1) /\ \A i \in 0..(ChipSize - 1) : buffer[i] \in holds[i]
    BY <1>2 DEF FlashInv, FlashOn, IsMemory
  <1>7. QED
    BY <1>4, <1>5, <1>6 DEF FlashReadable, FlashRead

-----------------------------------------------------------------------------
(* What a read of the EEPROM gets, when the game reads whole answers. *)

\* What the game may be waiting on.
IsRequestOf(x) ==
  \/ x = Nothing
  \/ \E a \in GameAddresses[game] : x = AskedRead(a)
  \/ \E a \in GameAddresses[game], w \in Cell : x = AskedWrite(a, w)

\* A memory that is smaller than the game's has erased cells to come.
CellOf(m, a) == IF a \in DOMAIN m THEN m[a] ELSE Erased

Kept(m) == \A a \in GameAddresses[game] : CellOf(m, a) \in latest[a]

\* A word is stored one bit before its request ends.
StoredAlready(a) == asked[1] = "write" /\ Len(wire) = 1 /\ a = asked[2]

KeptNow ==
  \A a \in GameAddresses[game] :
    IF StoredAlready(a) THEN CellOf(buffer, a) = asked[3] ELSE CellOf(buffer, a) \in latest[a]

KeptInv ==
  /\ latest = [a \in GameAddresses[game] |-> latest[a]]
  /\ process = "off" => Kept(file)
  /\ process = "on" => KeptNow

\* An answer on its way out: the game has the high bits of a word that it may
\* read, the chip has the low ones.
Answering == asked[1] = "read" /\ wire = <<>>

BitsOut == IF fetching = 0 THEN 0 ELSE DummyBits + DataBits - fetching

HalfOut(j) ==
  \E v \in latest[asked[2]], rest \in 0..(2 ^ DataBits - 1) :
    /\ v \in Cell /\ rest < 2 ^ (DataBits - j)
    /\ v = answer * 2 ^ (DataBits - j) + rest /\ chip.tx_buffer = rest * 2 ^ j

AnswerUnderway ==
  /\ chip.address = asked[2] /\ fetching <= DummyBits + DataBits /\ answer \in Nat
  /\ BitsOut < DummyBits => chip.state = TxDummy /\ chip.tx_count = BitsOut /\ answer = 0
  /\ BitsOut >= DummyBits =>
       chip.state = TxData /\ chip.tx_count = BitsOut - DummyBits /\ HalfOut(BitsOut - DummyBits)

AnswerInv ==
  /\ IsRequestOf(asked)
  /\ IsTransmitting(chip) <=> Answering
  /\ fetching > 0 => Answering
  /\ asked[1] = "read" /\ wire # <<>> => answer = 0
  /\ Answering => AnswerUnderway

SnapshotAnswers ==
  snapshot.taken /\ ~snapshot.detect =>
    /\ IsRequestOf(snapshot.asked)
    /\ IsTransmitting(snapshot.chip) <=> snapshot.asked[1] = "read"
    /\ snapshot.asked[1] = "read" =>
         /\ snapshot.chip.state = TxDummy /\ snapshot.chip.tx_count = 0
         /\ snapshot.chip.address = snapshot.asked[2]

ReadInv ==
  /\ KeptInv /\ SnapshotAnswers
  /\ process = "on" /\ ~detect => AnswerInv

ReadMediumInv == medium = "Eeprom" => ReadInv

\* One bit leaves: the high one of what the chip has goes below what the game has.
LEMMA BitLeaves ==
  ASSUME NEW p \in Nat \ {0}, NEW q \in Nat \ {0}, NEW high \in Nat, NEW rest \in 0..(2 * p - 1)
  PROVE  LET t == rest * q
             b == t \div (p * q)
             r == rest - b * p
         IN  /\ b \in {0, 1} /\ r \in 0..(p - 1)
             /\ (2 * t) % (2 * (p * q)) = r * (2 * q)
             /\ high * (2 * p) + rest = (2 * high + b) * p + r
  <1> DEFINE t == rest * q
             b == IF rest < p THEN 0 ELSE 1
             r == rest - b * p
             m == p * q
  <1>1. b \in {0, 1} /\ r \in 0..(p - 1) /\ rest = b * p + r
    <2>1. CASE rest < p
      BY <2>1
    <2>2. CASE rest >= p
      BY <2>2
    <2>3. QED
      BY <2>1, <2>2
  <1> HIDE DEF b, r
  <1>2. m \in Nat /\ m >= 1 /\ r * q \in Nat /\ r * q < m
    <2>1. m \in Nat /\ r * q \in Nat
      BY <1>1
    <2>2. (r + 1) * q <= p * q
      BY <1>1
    <2>3. (r + 1) * q = r * q + q
      BY <1>1
    <2>4. QED
      BY <2>1, <2>2, <2>3
  <1>3. t = b * m + r * q
    BY <1>1
  <1> HIDE DEF t, m
  <1>4. t \div m = b
    <2> DEFINE x == r * q
    <2> HIDE DEF x
    <2>1. CASE b = 0
      BY <1>2, <1>3, <2>1 DEF x
    <2>2. CASE b = 1
      BY <1>2, <1>3, <2>2 DEF x
    <2>3. QED
      BY <1>1, <2>1, <2>2
  <1>5. (2 * t) % (2 * m) = 2 * (r * q)
    <2> DEFINE x == r * q
    <2>1. x \in Nat /\ x < m /\ t = b * m + x
      BY <1>2, <1>3
    <2> HIDE DEF x
    <2>2. ASSUME b = 0
          PROVE  (2 * t) % (2 * m) = 2 * x
      <3>1. 2 * t = 0 * (2 * m) + 2 * x /\ 2 * x < 2 * m
        BY <1>2, <2>1, <2>2
      <3>2. QED
        BY <1>2, <2>1, <3>1
    <2>3. ASSUME b = 1
          PROVE  (2 * t) % (2 * m) = 2 * x
      <3>1. 2 * t = 1 * (2 * m) + 2 * x /\ 2 * x < 2 * m
        BY <1>2, <2>1, <2>3
      <3>2. QED
        BY <1>2, <2>1, <3>1
    <2>4. (2 * t) % (2 * m) = 2 * x
      BY <1>1, <2>2, <2>3
    <2>5. QED
      BY <2>4 DEF x
  <1>6. 2 * (r * q) = r * (2 * q)
    BY <1>1
  <1>7. high * (2 * p) + rest = (2 * high + b) * p + r
    BY <1>1
  <1>8. r = rest - b * p
    BY DEF r
  <1>9. QED
    BY <1>1, <1>4, <1>5, <1>6, <1>7, <1>8 DEF t, m

\* The places of a word that is j bits out.
LEMMA PlacesOut ==
  ASSUME DataBits \in Nat, NEW j \in 0..(DataBits - 1)
  PROVE  LET p == 2 ^ (DataBits - (j + 1))
             q == 2 ^ j
         IN  /\ p \in Nat \ {0} /\ q \in Nat \ {0}
             /\ 2 ^ (DataBits - j) = 2 * p /\ 2 ^ (j + 1) = 2 * q
             /\ 2 ^ (DataBits - 1) = p * q /\ 2 ^ DataBits = 2 * (p * q)
  <1> DEFINE n == DataBits - (j + 1)
             p == 2 ^ n
             q == 2 ^ j
  <1>1. n \in Nat /\ j \in Nat /\ n + j = DataBits - 1 /\ n + 1 = DataBits - j /\ (n + j) + 1 = DataBits
    OBVIOUS
  <1> HIDE DEF n
  <1>2. 2 ^ (n + j) = p * q
    BY <1>1, PowerSplits
  <1>3. /\ p \in Nat /\ p >= 1 /\ q \in Nat /\ q >= 1 /\ 2 ^ (n + j) \in Nat
    BY <1>1, PowerIsCount, PowerGrows
  <1>4. 2 ^ (n + 1) = 2 * p /\ 2 ^ (j + 1) = 2 * q /\ 2 ^ ((n + j) + 1) = 2 * 2 ^ (n + j)
    BY <1>1, PowerDoubles
  <1> DEFINE x == 2 ^ (n + j)
             y == 2 ^ (n + 1)
             z == 2 ^ (j + 1)
             d == 2 ^ ((n + j) + 1)
  <1>5. /\ p \in Nat \ {0} /\ q \in Nat \ {0} /\ y = 2 * p /\ z = 2 * q /\ x = p * q /\ d = 2 * (p * q)
    <2> HIDE DEF p, q, x, y, z, d
    <2>1. d = 2 * x /\ x \in Nat /\ x = p * q /\ y = 2 * p /\ z = 2 * q
      BY <1>2, <1>3, <1>4 DEF x, y, z, d
    <2>2. p \in Nat /\ q \in Nat /\ p >= 1 /\ q >= 1
      BY <1>3
    <2>3. QED
      BY <2>1, <2>2
  <1>6. y = 2 ^ (DataBits - j) /\ x = 2 ^ (DataBits - 1) /\ d = 2 ^ DataBits
    BY <1>1
  <1> HIDE DEF x, y, z, d
  <1>7. QED
    BY <1>5, <1>6 DEF p, q, z, n

\* One bit of the dummies, or of the word, and the chip after it.
LEMMA SendsDummy ==
  ASSUME chip \in Chips, chip.state = TxDummy, ~detect, chip.address \in DOMAIN buffer, ReadHalf
  PROVE  /\ OutBit = 0 /\ chip'.address = chip.address
         /\ chip.tx_count + 1 # DummyBits => chip'.state = TxDummy /\ chip'.tx_count = chip.tx_count + 1
         /\ chip.tx_count + 1 = DummyBits =>
              /\ chip'.state = TxData /\ chip'.tx_count = 0 /\ chip'.tx_buffer = buffer[chip.address]
  <1> DEFINE c == [chip EXCEPT !.tx_count = chip.tx_count + 1]
             v == buffer[chip.address]
  <1>1. chip.state # TxData /\ IsTransmitting(chip)
    BY StateNames DEF IsTransmitting
  <1>2. SendDummy
    BY <1>1 DEF ReadHalf, SendData, SendReady
  <1>3. c.tx_count = chip.tx_count + 1 /\ c.state = TxDummy /\ c.address = chip.address
    BY DEF Chips
  <1>4. /\ chip.tx_count + 1 # DummyBits => chip' = c
        /\ chip.tx_count + 1 = DummyBits =>
             chip' = [c EXCEPT !.state = TxData, !.tx_buffer = v, !.tx_count = 0]
    BY <1>2, <1>3 DEF SendDummy, ChipBecomes
  <1>5. OutBit = 0
    BY <1>1 DEF OutBit
  <1>6. CASE chip.tx_count + 1 # DummyBits
    BY <1>3, <1>4, <1>5, <1>6
  <1>7. CASE chip.tx_count + 1 = DummyBits
    <2> HIDE DEF v
    <2>1. chip'.state = TxData /\ chip'.tx_count = 0 /\ chip'.tx_buffer = v /\ chip'.address = c.address
      BY <1>4, <1>7 DEF Chips
    <2>2. QED
      BY <2>1, <1>3, <1>5, <1>7 DEF v
  <1>8. QED
    BY <1>6, <1>7

LEMMA SendsData ==
  ASSUME chip \in Chips, chip.state = TxData, ~detect, ReadHalf
  PROVE  /\ OutBit = chip.tx_buffer \div 2 ^ (DataBits - 1)
         /\ chip.tx_count + 1 # DataBits =>
              /\ chip'.state = TxData /\ chip'.tx_count = chip.tx_count + 1
              /\ chip'.address = chip.address
              /\ chip'.tx_buffer = (2 * chip.tx_buffer) % 2 ^ DataBits
         /\ chip.tx_count + 1 = DataBits => chip'.state = RxInstruction
  <1> DEFINE b == (2 * chip.tx_buffer) % 2 ^ DataBits
             c == [chip EXCEPT !.tx_buffer = b, !.tx_count = chip.tx_count + 1]
  <1>1. chip.state # TxDummy /\ IsTransmitting(chip)
    BY StateNames DEF IsTransmitting
  <1>2. SendData
    BY <1>1 DEF ReadHalf, SendDummy, SendReady
  <1>3. chip' = IF c.tx_count = DataBits THEN ResetChip(c) ELSE c
    BY <1>2 DEF SendData, ChipBecomes, Chips
  <1> HIDE DEF b
  <1>4. c.tx_count = chip.tx_count + 1 /\ c.state = TxData /\ c.address = chip.address /\ c.tx_buffer = b
    BY DEF Chips
  <1>5. ResetChip(c).state = RxInstruction
    BY DEF ResetChip, RxReset, TxReset, Chips
  <1>6. OutBit = chip.tx_buffer \div 2 ^ (DataBits - 1)
    BY <1>1 DEF OutBit
  <1> HIDE DEF c
  <1>7. QED
    BY <1>3, <1>4, <1>5, <1>6 DEF b

\* What reading leaves alone.
LEMMA ReadRest ==
  ASSUME ReadInv, process = "on", UNCHANGED <<process, buffer, game, snapshot, latest>>,
         ~StoredAlready(asked[2]), asked'[1] # "write" \/ wire' = <<>>
  PROVE  KeptInv' /\ SnapshotAnswers'
  <1>1. KeptNow /\ latest = [a \in GameAddresses[game] |-> latest[a]]
    BY DEF ReadInv, KeptInv
  <1>2. \A a \in GameAddresses[game] : ~StoredAlready(a) /\ CellOf(buffer, a) \in latest[a]
    BY <1>1 DEF KeptNow, StoredAlready
  <1>3. \A a \in GameAddresses[game] : CellOf(buffer', a) \in latest'[a]
    BY <1>2
  <1>4. ~(asked'[1] = "write" /\ Len(wire') = 1)
    <2>1. Len(<<>>) = 0
      OBVIOUS
    <2>2. QED
      BY <2>1
  <1>5. KeptNow'
    BY <1>3, <1>4 DEF KeptNow, StoredAlready, CellOf
  <1>6. KeptInv'
    BY <1>1, <1>5 DEF KeptInv
  <1>7. SnapshotAnswers'
    BY DEF ReadInv, SnapshotAnswers, IsRequestOf, IsTransmitting
  <1>8. QED
    BY <1>6, <1>7

LEMMA RequestNames ==
  /\ Nothing[1] = "nothing"
  /\ \A a : AskedRead(a)[1] = "read" /\ AskedRead(a)[2] = a
  /\ \A a, w : AskedWrite(a, w)[1] = "write" /\ AskedWrite(a, w)[2] = a /\ AskedWrite(a, w)[3] = w
  BY DEF Nothing, AskedRead, AskedWrite

LEMMA ClockOutReads ==
  ASSUME EepromInv, ReadInv, ClockOut
  PROVE  ReadInv' /\ (fetching = 1 => answer' \in latest[asked[2]])
  <1> DEFINE D == DataBits
             a == asked[2]
             b == OutBit
  <1>1. /\ process = "on" /\ fetching > 0 /\ ReadHalf /\ fetching' = fetching - 1
        /\ answer' = (2 * answer + OutBit) % 2 ^ DataBits
        /\ asked' = IF fetching' = 0 THEN Nothing ELSE asked
        /\ UNCHANGED <<wire, game, snapshot, latest>>
    BY DEF ClockOut
  <1>2. fetching \in Nat /\ ~detect /\ Speaks(chip) /\ chip \in Chips /\ game \in EepromType
    BY <1>1 DEF EepromInv, DetectInv, CommandInv, Speaks
  <1>3. AnswerInv /\ Answering /\ AnswerUnderway /\ asked[1] = "read" /\ wire = <<>>
    BY <1>1, <1>2 DEF ReadInv, AnswerInv, Answering
  <1>4. a \in GameAddresses[game] /\ asked = AskedRead(a)
    BY <1>3, RequestNames DEF AnswerInv, IsRequestOf
  <1>5. UNCHANGED <<process, detect, path, file, buffer>>
    BY <1>1, <1>2, ReadHalfKeeps
  <1>6. KeptInv' /\ SnapshotAnswers'
    <2>1. ~StoredAlready(asked[2]) /\ wire' = <<>>
      BY <1>1, <1>3 DEF StoredAlready
    <2>2. QED
      BY <1>1, <1>5, <2>1, ReadRest
  <1>7. /\ D \in Nat /\ D >= 2 /\ DummyBits \in Nat /\ DummyBits >= 1
        /\ 2 ^ D \in Nat /\ \A w \in Cell : w \in 0..(2 ^ D - 1)
    BY <1>2, GameConstants
  <1>8. /\ BitsOut = DummyBits + D - fetching /\ BitsOut \in Nat /\ BitsOut < DummyBits + D
        /\ chip.address = a /\ answer \in Nat
    BY <1>1, <1>2, <1>3, <1>7 DEF BitsOut, AnswerUnderway
  <1>9. IsRequestOf(asked)'
    BY <1>1, <1>4, RequestNames DEF IsRequestOf
  <1>10. ASSUME fetching' # 0, IsTransmitting(chip'), AnswerUnderway'
         PROVE  ReadInv'
    BY <1>1, <1>3, <1>5, <1>6, <1>9, <1>10 DEF ReadInv, AnswerInv, Answering, IsTransmitting
  <1>11. fetching' # 0 => fetching # 1 /\ BitsOut' = BitsOut + 1 /\ asked' = asked /\ fetching' <= DummyBits + D
    BY <1>1, <1>2, <1>7, <1>8 DEF BitsOut
  <1>12. chip.address \in DOMAIN buffer /\ buffer[a] \in latest[a] /\ buffer[a] \in Cell
    <2>1. IsMemory(buffer, Words[game]) /\ Words[game] \in Nat /\ a \in 0..(Words[game] - 1)
      BY <1>1, <1>2, <1>4, GameConstants, SessionAssumption DEF EepromInv, CommandInv
    <2>2. a \in DOMAIN buffer
      BY <2>1, MemoryLength
    <2>3. KeptNow
      BY <1>1 DEF ReadInv, KeptInv
    <2>4. CellOf(buffer, a) \in latest[a]
      BY <2>3, <1>3, <1>4 DEF KeptNow, StoredAlready
    <2>5. QED
      BY <2>2, <2>4, <1>8 DEF CellOf, EepromInv, CellsInv
  <1> HIDE DEF D, a, b
  <1>13. CASE BitsOut < DummyBits
    <2>1. chip.state = TxDummy /\ chip.tx_count = BitsOut /\ answer = 0
      BY <1>3, <1>13 DEF AnswerUnderway
    <2>2. fetching' # 0
      BY <1>1, <1>2, <1>7, <1>8, <1>13
    <2>3. /\ OutBit = 0 /\ chip'.address = chip.address
          /\ BitsOut + 1 # DummyBits => chip'.state = TxDummy /\ chip'.tx_count = BitsOut + 1
          /\ BitsOut + 1 = DummyBits =>
               chip'.state = TxData /\ chip'.tx_count = 0 /\ chip'.tx_buffer = buffer[chip.address]
      BY <1>1, <1>2, <1>12, <2>1, SendsDummy
    <2>4. answer' = 0
      <3> DEFINE d == 2 ^ D
      <3>1. answer' = 0 % d /\ d \in Nat /\ d > 0
        BY <1>1, <1>7, <2>1, <2>3, <1>2, GameConstants DEF D
      <3> HIDE DEF d
      <3>2. QED
        BY <3>1
    <2>5. IsTransmitting(chip')
      BY <2>3 DEF IsTransmitting
    <2>6. CASE BitsOut + 1 < DummyBits
      <3>1. AnswerUnderway'
        BY <1>7, <1>8, <1>11, <2>2, <2>3, <2>4, <2>6 DEF AnswerUnderway, a, D
      <3>2. QED
        BY <1>10, <1>11, <2>2, <2>5, <3>1
    <2>7. CASE BitsOut + 1 = DummyBits
      <3>1. chip'.state = TxData /\ chip'.tx_count = 0 /\ chip'.tx_buffer = buffer[a]
        BY <2>3, <2>7, <1>8
      <3>2. HalfOut(0)'
        <4> DEFINE v == buffer[a]
        <4>1. v \in latest'[asked'[2]] /\ v \in Cell /\ v \in 0..(2 ^ D - 1) /\ v \in Nat
          BY <1>1, <1>7, <1>11, <1>12, <2>2 DEF a
        <4>2. D - 0 = D /\ 2 ^ 0 = 1
          BY <1>7, PowerOfZero
        <4>3. v < 2 ^ (D - 0) /\ v = answer' * 2 ^ (D - 0) + v /\ chip'.tx_buffer = v * 2 ^ 0
          <5> DEFINE d == 2 ^ D
          <5>1. d \in Nat /\ v \in 0..(d - 1)
            BY <1>7, <4>1
          <5> HIDE DEF d, v
          <5>2. v < d /\ v = 0 * d + v /\ v = v * 1
            BY <5>1
          <5>3. QED
            BY <5>2, <4>2, <2>4, <3>1 DEF d, v
        <4> HIDE DEF v
        <4>4. QED
          BY <4>1, <4>3 DEF HalfOut, D
      <3>3. BitsOut' = DummyBits /\ BitsOut' - DummyBits = 0
        BY <1>7, <1>8, <1>11, <2>2, <2>7
      <3>4. AnswerUnderway'
        BY <1>7, <1>8, <1>11, <2>2, <2>3, <2>4, <3>1, <3>2, <3>3 DEF AnswerUnderway, a, D
      <3>5. QED
        BY <1>10, <1>11, <2>2, <2>5, <3>4
    <2>8. QED
      BY <1>7, <1>8, <1>13, <2>6, <2>7
  <1>14. CASE BitsOut >= DummyBits
    <2>0. PICK j \in Nat : j = BitsOut - DummyBits
      BY <1>7, <1>8, <1>14
    <2> DEFINE p == 2 ^ (D - (j + 1))
               q == 2 ^ j
    <2>1. chip.state = TxData /\ chip.tx_count = j /\ HalfOut(j)
      BY <1>3, <1>14, <2>0 DEF AnswerUnderway
    <2>2. j \in 0..(D - 1) /\ j \in Nat
      BY <1>7, <1>8, <1>14, <2>0
    <2>3. PICK v \in latest[a], rest \in 0..(2 ^ D - 1) :
            /\ v \in Cell /\ rest < 2 ^ (D - j)
            /\ v = answer * 2 ^ (D - j) + rest /\ chip.tx_buffer = rest * 2 ^ j
      BY <2>1 DEF HalfOut, D, a
    <2>4. /\ p \in Nat \ {0} /\ q \in Nat \ {0}
          /\ 2 ^ (D - j) = 2 * p /\ 2 ^ (j + 1) = 2 * q
          /\ 2 ^ (D - 1) = p * q /\ 2 ^ D = 2 * (p * q)
      BY <1>7, <2>2, PlacesOut DEF D
    <2> DEFINE t == chip.tx_buffer
               r == rest - b * p
    <2>5. /\ OutBit = t \div 2 ^ (D - 1)
          /\ j + 1 # D =>
               /\ chip'.state = TxData /\ chip'.tx_count = j + 1 /\ chip'.address = chip.address
               /\ chip'.tx_buffer = (2 * t) % 2 ^ D
          /\ j + 1 = D => chip'.state = RxInstruction
      BY <1>1, <1>2, <2>1, SendsData DEF D
    <2> HIDE DEF p, q
    <2>6. rest \in 0..(2 * p - 1) /\ v = answer * (2 * p) + rest /\ t = rest * q
      <3>1. t = rest * q
        BY <2>3 DEF q
      <3>2. 2 ^ (D - j) = 2 * p /\ rest \in Nat /\ p \in Nat
        BY <2>3, <2>4, <1>7
      <3> DEFINE e == 2 ^ (D - j)
      <3>3. rest < e /\ v = answer * e + rest /\ e = 2 * p
        BY <2>3, <3>2
      <3> HIDE DEF e, t
      <3>4. QED
        BY <3>1, <3>2, <3>3
    <2> HIDE DEF t
    <2>7. b = (rest * q) \div (p * q)
      BY <2>4, <2>5, <2>6 DEF b
    <2>8. /\ b \in {0, 1} /\ r \in 0..(p - 1)
          /\ (2 * t) % (2 * (p * q)) = r * (2 * q)
          /\ v = (2 * answer + b) * p + r
      BY <1>8, <2>4, <2>6, <2>7, BitLeaves
    <2> HIDE DEF r
    <2>9. answer' = 2 * answer + b
      <3> DEFINE d == 2 ^ D
                 x == 2 * answer + b
      <3>1. d \in Nat /\ v \in 0..(d - 1) /\ x \in Nat
        BY <1>7, <1>8, <2>3, <2>8
      <3>2. answer' = x % d
        BY <1>1 DEF b, D
      <3> HIDE DEF d, x
      <3>3. v = x * p + r
        BY <2>8 DEF x
      <3>4. x <= v
        <4>1. x * p = x + x * (p - 1) /\ x * (p - 1) >= 0
          BY <2>4, <3>1
        <4>2. QED
          BY <4>1, <3>1, <3>3, <2>8, <2>4
      <3>5. x % d = x
        BY <3>1, <3>4
      <3>6. QED
        BY <3>2, <3>5 DEF x
    <2>10. CASE j + 1 # D
      <3>1. fetching' # 0
        BY <1>1, <1>2, <1>7, <1>8, <2>0, <2>2, <2>10
      <3>2. chip'.tx_buffer = r * 2 ^ (j + 1) /\ r < 2 ^ (D - (j + 1)) /\ r \in 0..(2 ^ D - 1)
        <4>1. r \in 0..(2 ^ D - 1)
          <5>1. 2 * (p * q) >= p
            <6>1. p * q = p + p * (q - 1) /\ p * (q - 1) >= 0
              BY <2>4
            <6>2. QED
              BY <6>1, <2>4
          <5>2. QED
            BY <5>1, <2>4, <2>8
        <4>2. QED
          BY <4>1, <2>4, <2>5, <2>8, <2>10 DEF p
      <3>3. v = answer' * 2 ^ (D - (j + 1)) + r
        BY <2>8, <2>9 DEF p
      <3>4. v \in latest'[asked'[2]] /\ v \in Cell /\ r \in 0..(2 ^ D - 1)
        BY <1>1, <1>11, <2>3, <3>1, <3>2 DEF a
      <3>5. HalfOut(j + 1)'
        <4> DEFINE e == 2 ^ (D - (j + 1))
                   f == 2 ^ (j + 1)
        <4>1. chip'.tx_buffer = r * f /\ r < e /\ v = answer' * e + r
          BY <3>2, <3>3
        <4> HIDE DEF e, f
        <4>2. \E u \in latest'[asked'[2]], lower \in 0..(2 ^ D - 1) :
                /\ u \in Cell /\ lower < e
                /\ u = answer' * e + lower /\ chip'.tx_buffer = lower * f
          BY <3>4, <4>1
        <4>3. QED
          BY <4>2 DEF HalfOut, D, e, f
      <3>6. BitsOut' = BitsOut + 1 /\ BitsOut' - DummyBits = j + 1 /\ BitsOut' >= DummyBits
        BY <1>7, <1>8, <1>11, <1>14, <2>0, <3>1
      <3>7. answer' \in Nat
        BY <1>8, <2>8, <2>9
      <3>8. AnswerUnderway'
        <4>1. chip'.address = asked'[2] /\ fetching' <= DummyBits + DataBits /\ answer' \in Nat
          BY <1>8, <1>11, <2>5, <2>10, <3>1, <3>7 DEF a, D
        <4>2. ~(BitsOut' < DummyBits)
          BY <1>7, <1>8, <1>11, <3>1, <3>6
        <4>3. chip'.state = TxData /\ chip'.tx_count = BitsOut' - DummyBits /\ HalfOut(BitsOut - DummyBits)'
          BY <2>5, <2>10, <3>5, <3>6 DEF HalfOut
        <4>4. QED
          BY <4>1, <4>2, <4>3 DEF AnswerUnderway
      <3>9. IsTransmitting(chip')
        BY <2>5, <2>10 DEF IsTransmitting
      <3>10. QED
        BY <1>10, <1>11, <3>1, <3>8, <3>9
    <2>11. CASE j + 1 = D
      <3>1. fetching' = 0 /\ asked' = Nothing
        BY <1>1, <1>2, <1>7, <1>8, <2>0, <2>2, <2>11
      <3>2. p = 1
        <4>1. D - (j + 1) = 0
          BY <1>7, <2>2, <2>11
        <4>2. QED
          BY <4>1, PowerOfZero DEF p
      <3>3. answer' = v
        BY <3>2, <2>8, <2>9, <1>8
      <3>4. answer' \in latest[a]
        BY <3>3, <2>3
      <3>5. ~IsTransmitting(chip')
        BY <2>5, <2>11, StateNames DEF IsTransmitting
      <3>6. AnswerInv'
        BY <1>9, <3>1, <3>5, RequestNames DEF AnswerInv, Answering, IsTransmitting
      <3>7. QED
        BY <1>6, <3>4, <3>6 DEF ReadInv, a
    <2>12. QED
      BY <2>10, <2>11
  <1>15. QED
    BY <1>7, <1>8, <1>13, <1>14

\* Where neither a store nor its game's request is under way, the words are kept.
LEMMA WordsAreKept ==
  ASSUME KeptInv, process = "on", process' = "on", UNCHANGED <<game, latest>>,
         ~(asked[1] = "write" /\ Len(wire) = 1), ~(asked'[1] = "write" /\ Len(wire') = 1),
         \A a \in GameAddresses[game] : CellOf(buffer', a) = CellOf(buffer, a)
  PROVE  KeptInv'
  <1>1. \A a \in GameAddresses[game] : CellOf(buffer', a) \in latest'[a]
    BY DEF KeptInv, KeptNow, StoredAlready
  <1>2. \A a \in GameAddresses'[game'] : CellOf(buffer, a)' \in latest'[a]
    BY <1>1 DEF CellOf
  <1>3. KeptNow'
    BY <1>2 DEF KeptNow, StoredAlready
  <1>4. QED
    BY <1>3 DEF KeptInv

LEMMA SnapshotAnswersKept ==
  ASSUME SnapshotAnswers, UNCHANGED <<snapshot, game>>
  PROVE  SnapshotAnswers'
  BY DEF SnapshotAnswers, IsRequestOf, IsTransmitting

\* A chip that is not asked for an answer.
LEMMA NothingToAnswer ==
  ASSUME IsRequestOf(asked'), UNCHANGED game, ~IsTransmitting(chip'), fetching' = 0,
         asked'[1] # "read" \/ wire' # <<>>, answer' = 0 \/ asked'[1] # "read"
  PROVE  AnswerInv'
  BY DEF AnswerInv, Answering, IsRequestOf, IsTransmitting

LEMMA EmptyLength == Len(<<>>) = 0
  OBVIOUS

LEMMA SendReads ==
  ASSUME EepromInv, ReadInv, process = "on", fetching = 0, asked = Nothing,
         NEW op \in {"Read", "Write"}, NEW a \in GameAddresses[game], NEW w \in Cell,
         NEW bits, NEW request, Asks(bits, request, op, a, w), Send(bits, request)
  PROVE  ReadInv'
  <1>1. /\ OnDma3Transfer("to", Len(bits)) /\ Len(bits) \in Nat /\ wire' = bits /\ bits # <<>>
        /\ asked' = request /\ answer' = 0 /\ UNCHANGED <<fetching, game, snapshot, latest>>
    BY DEF Send, Asks
  <1>2. /\ game \in EepromType /\ AddrBits[game] \in Nat /\ DataBits \in Nat /\ DataBits >= 2
        /\ Words[game] \in Nat /\ \A b \in GameAddresses[game] : b \in 0..(Words[game] - 1)
    BY GameConstants, SessionAssumption DEF EepromInv
  <1>3. detect => Len(bits) \in {ReadLength(game), WriteLength(game)}
    BY DEF Asks, RequestLength
  <1>4. /\ process' = "on" /\ detect' = FALSE /\ (~detect => UNCHANGED buffer)
        /\ IsTransmitting(chip') => IsTransmitting(chip) /\ ~detect
    BY <1>1, <1>3, TransferBegins
  <1>5. ~IsTransmitting(chip')
    <2>1. ~detect => ~IsTransmitting(chip)
      BY RequestNames DEF ReadInv, AnswerInv, Answering
    <2>2. QED
      BY <1>4, <2>1
  <1>6. ASSUME NEW b \in GameAddresses[game]
        PROVE  CellOf(buffer', b) = CellOf(buffer, b)
    <2>1. CASE detect
      <3>1. LearnType(Len(bits))
        BY <1>1, <2>1 DEF OnDma3Transfer
      <3>2. TypeOfTransfer(Len(bits)) = {game}
        BY <1>2, <1>3, <2>1, LengthTellsType
      <3>3. buffer' = Resized(buffer, Words[game])
        BY <3>1, <3>2 DEF LearnType, ResizeBackup
      <3>4. QED
        BY <3>3, <1>2 DEF Resized, CellOf
    <2>2. CASE ~detect
      BY <1>4, <2>2 DEF CellOf
    <2>3. QED
      BY <2>1, <2>2
  <1>7. IsRequestOf(request)
    BY DEF IsRequestOf, Asks
  <1>8. request[1] = "write" => Len(bits) = RequestLength("Write")
    BY RequestNames DEF Asks
  <1>9. RequestLength("Write") # 1
    BY <1>2 DEF RequestLength, WriteLength
  <1>10. KeptInv'
    BY <1>1, <1>4, <1>6, <1>8, <1>9, RequestNames, WordsAreKept DEF ReadInv
  <1>11. IsRequestOf(asked') /\ SnapshotAnswers'
    BY <1>1, <1>7, SnapshotAnswersKept DEF ReadInv
  <1>12. AnswerInv'
    BY <1>1, <1>5, <1>11, NothingToAnswer
  <1>13. QED
    BY <1>10, <1>11, <1>12 DEF ReadInv

LEMMA AskReads ==
  ASSUME EepromInv, ReadInv, NEW a \in GameAddresses[game],
         \/ AskRead(a)
         \/ \E w \in GameWords[game][a] : AskWrite(a, w)
         \/ \E w \in GameWords[game][a], n \in PartLengths : AskInPart(a, w, n)
  PROVE  ReadInv'
  <1>1. game \in EepromType
    BY DEF EepromInv
  <1>2. CASE AskRead(a)
    <2>1. process = "on" /\ fetching = 0 /\ asked = Nothing /\ Send(ReadRequest(a), AskedRead(a))
      BY <1>2 DEF AskRead, MayAsk, Idle
    <2>2. Erased \in Cell /\ Asks(ReadRequest(a), AskedRead(a), "Read", a, Erased)
      <3>1. a \in 0..(Words[game] - 1) /\ Words[game] \in Nat /\ AddrBits[game] \in Nat
        BY <1>1, SessionAssumption, GameConstants
      <3>2. a \in Nat
        BY <3>1
      <3>3. IsRequest(ReadRequest(a), "Read", a, Erased)
        BY <1>1, <3>2, ReadRequestBits
      <3>4. RequestLength("Read") = AddrBits[game] + 3
        BY <3>1 DEF RequestLength, ReadLength
      <3>5. QED
        BY <3>1, <3>3, <3>4, BackupAssumption DEF IsRequest, Asks
    <2>3. QED
      BY <2>1, <2>2, SendReads
  <1>3. CASE \E w \in GameWords[game][a] : AskWrite(a, w)
    <2>1. PICK w \in GameWords[game][a] : AskWrite(a, w)
      BY <1>3
    <2>2. /\ process = "on" /\ fetching = 0 /\ asked = Nothing
          /\ Send(WriteRequest(a, w), AskedWrite(a, w))
      BY <2>1 DEF AskWrite, MayAsk, Idle
    <2>3. QED
      BY <1>1, <2>2, GameAsks, SendReads
  <1>4. CASE \E w \in GameWords[game][a], n \in PartLengths : AskInPart(a, w, n)
    <2>1. PICK w \in GameWords[game][a], n \in PartLengths : AskInPart(a, w, n)
      BY <1>4
    <2>2. /\ process = "on" /\ fetching = 0 /\ asked = Nothing /\ ~detect
          /\ Send(SubSeq(WriteRequest(a, w), 1, n), Nothing)
      BY <2>1 DEF AskInPart, MayAsk, Idle
    <2>3. QED
      BY <1>1, <2>2, GameAsks, SendReads
  <1>5. QED
    BY <1>2, <1>3, <1>4

\* The first bit of an answer is still to come.
LEMMA AnswerBegins ==
  ASSUME DummyBits \in Nat, DummyBits >= 1, DataBits \in Nat,
         chip'.state = TxDummy, chip'.tx_count = 0, chip'.address = asked'[2],
         answer' = 0, fetching' \in {0, DummyBits + DataBits}
  PROVE  AnswerUnderway' /\ IsTransmitting(chip')
  <1>1. BitsOut' = 0 /\ fetching' <= DummyBits + DataBits
    <2> DEFINE total == DummyBits + DataBits
    <2>1. total \in Nat /\ total - total = 0 /\ total <= total /\ 0 <= total
      OBVIOUS
    <2>2. fetching' = 0 => BitsOut' = 0
      BY DEF BitsOut
    <2>3. fetching' # 0 => fetching' = total /\ BitsOut' = total - total
      <3>1. fetching' # 0 => fetching' = total
        OBVIOUS
      <3>2. fetching' # 0 => BitsOut' = DummyBits + DataBits - fetching'
        BY DEF BitsOut
      <3>3. QED
        BY <3>1, <3>2
    <2> HIDE DEF total
    <2>4. BitsOut' = 0 /\ fetching' <= total
      BY <2>1, <2>2, <2>3
    <2>5. QED
      BY <2>4 DEF total
  <1>2. BitsOut' < DummyBits /\ ~(BitsOut' >= DummyBits)
    BY <1>1
  <1>3. QED
    BY <1>1, <1>2 DEF AnswerUnderway, IsTransmitting

LEMMA FetchReads ==
  ASSUME EepromInv, ReadInv, Fetch(DummyBits + DataBits)
  PROVE  ReadInv'
  <1>1. /\ process = "on" /\ wire = <<>> /\ fetching = 0 /\ asked[1] = "read"
        /\ fetching' = DummyBits + DataBits /\ asked' = asked
        /\ UNCHANGED <<wire, answer, game, snapshot, latest>>
    BY DEF Fetch, Idle
  <1>2. ~detect /\ game \in EepromType
    BY <1>1 DEF EepromInv, DetectInv, Nothing
  <1>3. ResetIfDirty
    BY <1>2 DEF Fetch, OnDma3Transfer
  <1>4. Answering /\ IsTransmitting(chip) /\ AnswerUnderway /\ AnswerInv
    BY <1>1, <1>2 DEF ReadInv, AnswerInv, Answering
  <1>5. chip' = chip /\ UNCHANGED <<process, detect, path, file, buffer>>
    BY <1>3, <1>4 DEF ResetIfDirty, ChipBecomes, backupVars
  <1>6. DummyBits \in Nat /\ DummyBits >= 1 /\ DataBits \in Nat
    BY <1>2, GameConstants
  <1>7. BitsOut = 0
    BY <1>1 DEF BitsOut
  <1>8. chip.state = TxDummy /\ chip.tx_count = 0 /\ chip.address = asked[2] /\ answer = 0
    BY <1>4, <1>6, <1>7 DEF AnswerUnderway
  <1>9. AnswerUnderway' /\ IsTransmitting(chip')
    BY <1>1, <1>5, <1>6, <1>8, AnswerBegins
  <1>10. AnswerInv'
    BY <1>1, <1>4, <1>5, <1>9 DEF AnswerInv, Answering, IsRequestOf, IsTransmitting
  <1>11. KeptInv'
    BY <1>1, <1>5, EmptyLength, WordsAreKept DEF ReadInv, CellOf
  <1>12. SnapshotAnswers'
    BY <1>1, SnapshotAnswersKept DEF ReadInv
  <1>13. QED
    BY <1>10, <1>11, <1>12 DEF ReadInv

LEMMA ElsewhereReads ==
  ASSUME EepromInv, ReadInv, OtherDma3
  PROVE  ReadInv'
  <1>1. /\ process = "on" /\ wire = <<>>
        /\ UNCHANGED <<game, wire, fetching, asked, answer, snapshot, latest>>
    BY DEF OtherDma3, Idle, gameVars
  <1>2. detect => UNCHANGED <<process, chip, detect, path, file, buffer>>
    BY DEF OtherDma3, OnDma3Transfer, eepromVars, backupVars
  <1>3. ~detect => ResetIfDirty
    BY DEF OtherDma3, OnDma3Transfer
  <1>4. ~detect => UNCHANGED <<process, detect, path, file, buffer>>
    BY <1>1, <1>3, DirtyIsReset
  <1>5. UNCHANGED <<process, detect, path, file, buffer>>
    BY <1>2, <1>4
  <1>6. KeptInv'
    BY <1>1, <1>5, EmptyLength, WordsAreKept DEF ReadInv, CellOf
  <1>7. SnapshotAnswers'
    BY <1>1, SnapshotAnswersKept DEF ReadInv
  <1>8. ASSUME ~detect
        PROVE  AnswerInv'
    <2>1. AnswerInv /\ (fetching > 0 => Answering) /\ chip \in Chips
      BY <1>1, <1>8 DEF ReadInv, AnswerInv, EepromInv, CommandInv, Speaks
    <2>2. CASE IsTransmitting(chip)
      <3>1. chip' = chip
        BY <1>3, <1>8, <2>2 DEF ResetIfDirty, ChipBecomes
      <3>2. AnswerUnderway => AnswerUnderway'
        BY <1>1, <3>1 DEF AnswerUnderway, BitsOut, HalfOut
      <3>3. QED
        BY <1>1, <2>1, <3>1, <3>2 DEF AnswerInv, Answering, IsRequestOf, IsTransmitting
    <2>3. CASE ~IsTransmitting(chip)
      <3>1. chip' = ResetChip(chip)
        BY <1>3, <1>8, <2>3 DEF ResetIfDirty, ChipBecomes
      <3>2. ~IsTransmitting(chip') /\ ~Answering
        BY <2>1, <2>3, <3>1, ResetIsChip DEF AnswerInv
      <3>3. QED
        BY <1>1, <2>1, <3>2 DEF AnswerInv, Answering, IsRequestOf, IsTransmitting
    <2>4. QED
      BY <2>2, <2>3
  <1>9. QED
    BY <1>5, <1>6, <1>7, <1>8 DEF ReadInv

LEMMA PollReads ==
  ASSUME EepromInv, ReadInv, Poll
  PROVE  ReadInv'
  <1>1. /\ process = "on" /\ wire = <<>> /\ fetching = 0 /\ asked[1] = "write" /\ ReadHalf
        /\ asked' \in {Nothing, asked}
        /\ UNCHANGED <<wire, fetching, answer, game, snapshot, latest>>
    BY DEF Poll, Idle
  <1>2. ~detect
    BY <1>1 DEF EepromInv, DetectInv, Nothing
  <1>3. AnswerInv /\ ~IsTransmitting(chip)
    BY <1>1, <1>2 DEF ReadInv, AnswerInv, Answering
  <1>4. chip' = chip
    BY <1>1, <1>2, <1>3 DEF ReadHalf, SendDummy, SendData, SendReady, ChipBecomes, IsTransmitting
  <1>5. UNCHANGED <<process, detect, path, file, buffer>>
    BY <1>1, <1>2, ReadHalfKeeps
  <1>6. IsRequestOf(asked') /\ asked'[1] # "read"
    BY <1>1, <1>3, RequestNames DEF AnswerInv, IsRequestOf
  <1>7. AnswerInv'
    BY <1>1, <1>3, <1>4, <1>6, NothingToAnswer
  <1>8. KeptInv'
    BY <1>1, <1>5, EmptyLength, WordsAreKept DEF ReadInv, CellOf
  <1>9. SnapshotAnswers'
    BY <1>1, SnapshotAnswersKept DEF ReadInv
  <1>10. QED
    BY <1>7, <1>8, <1>9 DEF ReadInv

\* A word is stored when two bits of its request are left.
LEMMA PlaceOfStore ==
  ASSUME NEW n \in Nat, NEW d \in Nat, NEW l \in Nat, NEW k \in Nat, k = n + 3 + d - l
  PROVE  k + 1 = n + 2 + d <=> l = 2
  OBVIOUS

LEMMA ClockInReads ==
  ASSUME EepromInv, ReadInv, ClockIn
  PROVE  ReadInv'
  <1>1. /\ process = "on" /\ wire # <<>> /\ WriteHalf(Head(wire)) /\ wire' = Tail(wire)
        /\ latest' = IF wire' = <<>> /\ asked[1] = "write"
                     THEN [latest EXCEPT ![asked[2]] = {asked[3]}] ELSE latest
        /\ UNCHANGED <<fetching, asked, answer, game, snapshot>>
    BY DEF ClockIn
  <1>2. ~detect /\ fetching = 0 /\ wire \in Seq({0, 1}) /\ game \in EepromType
    BY <1>1 DEF EepromInv, DetectInv, CommandInv, WireInv
  <1>3. /\ wire' \in Seq({0, 1}) /\ Len(wire') = Len(wire) - 1 /\ Len(wire) \in Nat /\ Len(wire) >= 1
        /\ wire' = <<>> <=> Len(wire) = 1
    <2>1. /\ wire' \in Seq({0, 1}) /\ Len(wire') = Len(wire) - 1 /\ Len(wire) \in Nat /\ Len(wire) >= 1
      BY <1>1, <1>2, TailOfBits
    <2>2. wire' = <<>> <=> Len(wire') = 0
      BY <2>1
    <2>3. QED
      BY <2>1, <2>2
  <1>4. AnswerInv /\ ~Answering /\ ~IsTransmitting(chip) /\ IsRequestOf(asked)
    BY <1>1, <1>2 DEF ReadInv, AnswerInv, Answering
  <1>5. PICK op \in {"Read", "Write"}, a \in GameAddresses[game], w \in Cell, k \in Nat :
          Underway(op, a, w, k)
    BY <1>1, <1>2, <1>4 DEF EepromInv, CommandInv, WireInv
  <1>6. TookBit(op, a, w, k + 1) /\ k < RequestLength(op) /\ a \in 0..(Words[game] - 1)
    BY <1>5, <1>1, <1>2, ComesIn
  <1>7. /\ AddrBits[game] \in Nat /\ DataBits \in Nat /\ DataBits >= 2
        /\ DummyBits \in Nat /\ DummyBits >= 1
    BY <1>2, GameConstants
  <1>8. /\ RequestLength("Read") = AddrBits[game] + 3
        /\ RequestLength("Write") = AddrBits[game] + 3 + DataBits
    BY <1>7 DEF RequestLength, ReadLength, WriteLength
  <1>9. SnapshotAnswers'
    BY <1>1, SnapshotAnswersKept DEF ReadInv
  <1>10. /\ UNCHANGED <<process, detect>>
         /\ KeptNow /\ latest = [b \in GameAddresses[game] |-> latest[b]]
    BY <1>1, <1>6 DEF TookBit, ReadInv, KeptInv
  <1>11. ASSUME ~Stores(op, k + 1)
         PROVE  buffer' = buffer
    BY <1>6, <1>11 DEF TookBit, backupVars
  <1>12. k + 1 < RequestLength(op) => ~IsTransmitting(chip')
    BY <1>6 DEF TookBit
  <1>13. CASE op = "Read"
    <2>1. asked = AskedRead(a) /\ k + Len(wire) = RequestLength("Read")
      BY <1>5, <1>13 DEF Underway
    <2>2. asked[1] = "read" /\ asked[2] = a /\ answer = 0
      BY <2>1, <1>1, <1>4, RequestNames DEF AnswerInv
    <2>3. KeptInv'
      BY <1>1, <1>10, <1>11, <1>13, <2>2, WordsAreKept DEF Stores, ReadInv, CellOf
    <2>4. CASE wire' = <<>>
      <3>1. k + 1 = RequestLength(op)
        BY <1>3, <1>7, <1>8, <1>13, <2>1, <2>4
      <3>2. chip'.state = TxDummy /\ chip'.tx_count = 0 /\ chip'.address = a
        BY <1>6, <1>13, <3>1 DEF TookBit
      <3>3. AnswerUnderway' /\ IsTransmitting(chip')
        BY <1>1, <1>2, <1>7, <2>2, <3>2, AnswerBegins
      <3>4. AnswerInv'
        BY <1>1, <1>2, <1>4, <2>2, <2>4, <3>3 DEF AnswerInv, Answering, IsRequestOf, IsTransmitting
      <3>5. QED
        BY <1>9, <2>3, <3>4 DEF ReadInv
    <2>5. CASE wire' # <<>>
      <3>1. k + 1 < RequestLength(op)
        BY <1>3, <1>7, <1>8, <1>13, <2>1, <2>5
      <3>2. AnswerInv'
        BY <1>1, <1>2, <1>4, <1>12, <2>2, <2>5, <3>1, NothingToAnswer DEF IsRequestOf
      <3>3. QED
        BY <1>9, <2>3, <3>2 DEF ReadInv
    <2>6. QED
      BY <2>4, <2>5
  <1>14. CASE op = "Write" /\ asked = Nothing
    <2>1. k + Len(wire) < RequestLength("Write") - 1
      BY <1>5, <1>14, RequestNames DEF Underway
    <2>2. k + 1 < RequestLength("Write") - 1
      BY <2>1, <1>3, <1>7, <1>8
    <2>3. ~Stores(op, k + 1)
      BY <2>2, <1>7, <1>8 DEF Stores
    <2>4. asked[1] # "write" /\ asked[1] # "read"
      BY <1>14, RequestNames
    <2>5. KeptInv'
      BY <1>1, <1>10, <1>11, <2>3, <2>4, WordsAreKept DEF ReadInv, CellOf
    <2>6. ~IsTransmitting(chip')
      BY <1>7, <1>8, <1>12, <1>14, <2>2
    <2>7. AnswerInv'
      BY <1>1, <1>2, <1>4, <2>4, <2>6, NothingToAnswer DEF IsRequestOf
    <2>8. QED
      BY <1>9, <2>5, <2>7 DEF ReadInv
  <1>15. CASE op = "Write" /\ asked # Nothing
    <2>1. asked = AskedWrite(a, w) /\ k + Len(wire) = RequestLength("Write")
      BY <1>5, <1>15 DEF Underway
    <2>2. asked[1] = "write" /\ asked[2] = a /\ asked[3] = w /\ asked[1] # "read"
      BY <2>1, RequestNames
    <2>3. Stores(op, k + 1) <=> Len(wire) = 2
      <3>1. k = AddrBits[game] + 3 + DataBits - Len(wire)
        BY <1>3, <1>7, <1>8, <2>1
      <3>2. k + 1 = AddrBits[game] + 2 + DataBits <=> Len(wire) = 2
        <4> DEFINE n == AddrBits[game]
                   l == Len(wire)
        <4>1. n \in Nat /\ l \in Nat /\ k \in Nat /\ DataBits \in Nat /\ k = n + 3 + DataBits - l
          BY <1>3, <1>7, <3>1
        <4> HIDE DEF n, l
        <4>2. k + 1 = n + 2 + DataBits <=> l = 2
          BY <4>1, PlaceOfStore
        <4>3. QED
          BY <4>2 DEF n, l
      <3>3. QED
        BY <1>15, <3>2 DEF Stores
    <2>4. ~IsTransmitting(chip')
      <3>1. CASE k + 1 = RequestLength(op)
        BY <3>1, <1>6, <1>15, StateNames DEF TookBit, IsTransmitting
      <3>2. CASE k + 1 # RequestLength(op)
        BY <3>2, <1>6, <1>7, <1>8, <1>12
      <3>3. QED
        BY <3>1, <3>2
    <2>5. AnswerInv'
      BY <1>1, <1>2, <1>4, <2>2, <2>4, NothingToAnswer DEF IsRequestOf
    <2>6. \A b \in GameAddresses[game] :
            IF Len(wire) = 1 /\ b = a THEN CellOf(buffer, b) = w ELSE CellOf(buffer, b) \in latest[b]
      BY <1>10, <2>2 DEF KeptNow, StoredAlready
    <2>7. ASSUME \A b \in GameAddresses[game] :
                   IF Len(wire') = 1 /\ b = a
                   THEN CellOf(buffer', b) = w ELSE CellOf(buffer', b) \in latest'[b],
                 latest' = [b \in GameAddresses[game] |-> latest'[b]]
          PROVE  ReadInv'
      <3>1. KeptNow'
        BY <2>7, <2>2, <1>1 DEF KeptNow, StoredAlready, CellOf
      <3>2. KeptInv'
        BY <2>7, <3>1, <1>1, <1>10 DEF KeptInv
      <3>3. QED
        BY <3>2, <2>5, <1>9 DEF ReadInv
    <2>8. CASE Len(wire) = 1
      <3>1. latest' = [latest EXCEPT ![a] = {w}] /\ Len(wire') # 1
        BY <1>1, <1>3, <2>2, <2>8
      <3>2. buffer' = buffer
        BY <1>11, <2>3, <2>8
      <3>3. \A b \in GameAddresses[game] : CellOf(buffer', b) \in latest'[b]
        BY <1>10, <2>6, <2>8, <3>1, <3>2 DEF CellOf
      <3>4. latest' = [b \in GameAddresses[game] |-> latest'[b]]
        BY <1>10, <3>1
      <3>5. QED
        BY <2>7, <3>1, <3>3, <3>4
    <2>9. CASE Len(wire) = 2
      <3>1. latest' = latest /\ Len(wire') = 1 /\ Len(wire) # 1
        BY <1>1, <1>3, <2>9
      <3>2. WriteBackup(a, w)
        BY <1>6, <2>3, <2>9 DEF TookBit
      <3>3. buffer' = [buffer EXCEPT ![a] = w]
        BY <3>2 DEF WriteBackup
      <3>4. a \in DOMAIN buffer
        <4>1. IsMemory(buffer, Words[game]) /\ Words[game] \in Nat
          BY <1>1, <1>2, GameConstants DEF EepromInv, CommandInv
        <4>2. QED
          BY <4>1, <1>6, MemoryLength
      <3>5. \A b \in GameAddresses[game] :
              IF b = a THEN CellOf(buffer', b) = w ELSE CellOf(buffer', b) = CellOf(buffer, b)
        BY <3>3, <3>4 DEF CellOf
      <3>6. QED
        BY <1>10, <2>6, <2>7, <3>1, <3>5
    <2>10. CASE Len(wire) # 1 /\ Len(wire) # 2
      <3>1. latest' = latest /\ Len(wire') # 1
        BY <1>1, <1>3, <2>10
      <3>2. buffer' = buffer
        BY <1>11, <2>3, <2>10
      <3>3. \A b \in GameAddresses[game] : CellOf(buffer', b) \in latest'[b]
        BY <2>6, <2>10, <3>1, <3>2 DEF CellOf
      <3>4. QED
        BY <1>10, <2>7, <3>1, <3>3
    <2>11. QED
      BY <2>8, <2>9, <2>10
  <1>16. QED
    BY <1>13, <1>14, <1>15

LEMMA StartReads ==
  ASSUME EepromInv, ReadInv, StartSession
  PROVE  ReadInv'
  <1>1. /\ process = "off" /\ OffInv /\ game \in EepromType /\ Words[game] \in Nat
        /\ NewEeprom /\ UNCHANGED <<game, snapshot, latest>>
        /\ wire' = <<>> /\ fetching' = 0 /\ asked' = Nothing /\ answer' = 0
    BY GameConstants DEF StartSession, NothingUnderWay, EepromInv
  <1>2. process' = "on" /\ SnapshotAnswers'
    BY <1>1, StartKeeps, SnapshotAnswersKept DEF ReadInv
  <1>3. Kept(file) /\ latest = [a \in GameAddresses[game] |-> latest[a]]
    BY <1>1 DEF ReadInv, KeptInv
  <1>4. ASSUME \A a \in GameAddresses[game] : CellOf(buffer', a) = CellOf(file, a),
               ~IsTransmitting(chip')
        PROVE  ReadInv'
    <2>1. KeptNow'
      BY <1>1, <1>3, <1>4, RequestNames DEF Kept, KeptNow, StoredAlready, CellOf
    <2>2. KeptInv'
      BY <1>1, <1>2, <1>3, <2>1 DEF KeptInv
    <2>3. AnswerInv'
      BY <1>1, <1>4, RequestNames, NothingToAnswer DEF IsRequestOf
    <2>4. QED
      BY <1>2, <2>2, <2>3 DEF ReadInv
  <1>5. \A i \in DOMAIN file : file[i] \in Cell
    BY DEF EepromInv, CellsInv
  <1>6. CASE path /\ file # NoFile
    <2>1. IsMemory(file, Words[game]) /\ Length(file) = Words[game]
      BY <1>1, <1>6, MemoryLength DEF OffInv
    <2>2. (CHOOSE t \in EepromType : Words[t] = Length(file)) = game
      BY <1>1, <2>1, TypeSizes
    <2>3. chip' = NewChip(game) /\ OpenBackup(Words[game])
      BY <1>1, <1>6, <2>1, <2>2 DEF NewEeprom
    <2>4. buffer' = file
      BY <1>1, <1>5, <1>6, <2>1, <2>3, TypeSizes, Opened
    <2>5. ~IsTransmitting(chip')
      BY <2>3, <1>1, NewChipIsChip
    <2>6. QED
      BY <1>4, <2>4, <2>5 DEF CellOf
  <1>7. CASE ~(path /\ file # NoFile)
    <2>1. chip' = NewChip(Eeprom512) /\ OpenBackup(Words[Eeprom512])
      BY <1>1, <1>7 DEF NewEeprom
    <2>2. file = NoFile
      BY <1>7 DEF EepromInv
    <2>3. buffer' = Blank(Words[Eeprom512])
      BY <1>1, <1>5, <2>1, <2>2, TypeSizes, Opened DEF EepromInv
    <2>4. ~IsTransmitting(chip')
      BY <2>1, <1>1, TypeSizes, NewChipIsChip
    <2>5. \A a \in GameAddresses[game] : CellOf(buffer', a) = CellOf(file, a)
      BY <2>2, <2>3 DEF CellOf, Blank, NoFile
    <2>6. QED
      BY <1>4, <2>4, <2>5
  <1>8. QED
    BY <1>6, <1>7

\* The words a game may read once its process is gone.
LEMMA CutIsKept ==
  ASSUME ReadInv, process = "on", ~path => file = NoFile, path => file = buffer, NEW stored,
         asked[1] = "write" => asked[2] \in GameAddresses[game],
         latest' = AfterCut(stored), UNCHANGED <<snapshot, game>>, process' = "off",
         \A a \in GameAddresses[game] :
           \/ CellOf(file', a) = CellOf(file, a)
           \/ path /\ asked[1] = "write" /\ wire # <<>> /\ a = asked[2] /\ CellOf(file', a) \in stored
  PROVE  ReadInv'
  <1>1. KeptNow /\ latest = [a \in GameAddresses[game] |-> latest[a]]
    BY DEF ReadInv, KeptInv
  <1>2. SnapshotAnswers'
    BY SnapshotAnswersKept DEF ReadInv
  <1>3. CASE ~path
    <2>1. latest' = NothingKept /\ file = NoFile
      BY <1>3 DEF AfterCut
    <2>2. \A a \in GameAddresses[game] : CellOf(file', a) = Erased /\ latest'[a] = {Erased}
      BY <1>3, <2>1 DEF CellOf, NoFile, NothingKept
    <2>3. latest' = [a \in GameAddresses[game] |-> latest'[a]]
      BY <2>1 DEF NothingKept
    <2>4. QED
      BY <1>2, <2>2, <2>3 DEF ReadInv, KeptInv, Kept, CellOf
  <1>4. CASE path /\ asked[1] = "write" /\ wire # <<>>
    <2>1. latest' = [latest EXCEPT ![asked[2]] = @ \cup {asked[3]} \cup stored] /\ file = buffer
      BY <1>4 DEF AfterCut
    <2>2. latest' = [a \in GameAddresses[game] |-> latest'[a]]
      BY <1>1, <2>1
    <2>3. \A a \in GameAddresses[game] :
            latest'[a] = IF a = asked[2] THEN latest[a] \cup {asked[3]} \cup stored ELSE latest[a]
      BY <1>1, <1>4, <2>1
    <2>4. \A a \in GameAddresses[game] :
            CellOf(file, a) \in latest[a] \/ (a = asked[2] /\ CellOf(file, a) = asked[3])
      BY <1>1, <2>1 DEF KeptNow, StoredAlready
    <2>5. \A a \in GameAddresses[game] : CellOf(file', a) \in latest'[a]
      BY <2>3, <2>4
    <2>6. QED
      BY <1>2, <2>2, <2>5 DEF ReadInv, KeptInv, Kept, CellOf
  <1>5. CASE path /\ ~(asked[1] = "write" /\ wire # <<>>)
    <2>1. latest' = latest /\ file = buffer
      BY <1>5 DEF AfterCut
    <2>2. ~(asked[1] = "write" /\ Len(wire) = 1)
      BY <1>5, EmptyLength
    <2>3. \A a \in GameAddresses[game] : CellOf(file', a) \in latest'[a]
      BY <1>1, <1>5, <2>1, <2>2 DEF KeptNow, StoredAlready
    <2>4. QED
      BY <1>1, <1>2, <2>1, <2>3 DEF ReadInv, KeptInv, Kept, CellOf
  <1>6. QED
    BY <1>3, <1>4, <1>5

\* What is asked of a chip that knows its size.
LEMMA AskedAddress ==
  ASSUME EepromInv, ReadInv, process = "on", asked[1] = "write"
  PROVE  ~detect /\ asked[2] \in GameAddresses[game]
  <1>1. ~detect
    BY RequestNames DEF EepromInv, DetectInv
  <1>2. IsRequestOf(asked)
    BY <1>1 DEF ReadInv, AnswerInv
  <1>3. QED
    BY <1>1, <1>2, RequestNames DEF IsRequestOf

LEMMA EndReads ==
  ASSUME EepromInv, ReadInv, EndSession
  PROVE  ReadInv'
  <1>1. /\ process = "on" /\ process' = "off" /\ latest' = AfterCut({})
        /\ UNCHANGED <<path, file, game, snapshot>>
    BY DEF EndSession
  <1>2. (~path => file = NoFile) /\ (path => file = buffer)
    BY <1>1 DEF EepromInv
  <1>3. asked[1] = "write" => asked[2] \in GameAddresses[game]
    BY <1>1, AskedAddress
  <1>4. \A a \in GameAddresses[game] : CellOf(file', a) = CellOf(file, a)
    BY <1>1
  <1>5. QED
    BY <1>1, <1>2, <1>3, <1>4, CutIsKept

LEMMA KilledReads ==
  ASSUME EepromInv, ReadInv, NEW bits \in 1..(DataBits - 1), KilledWhileStoring(bits)
  PROVE  ReadInv'
  <1> DEFINE c == ShiftedIn(Head(wire))
             word == Torn(file[c.address], c.rx_buffer, bits)
  <1>1. /\ process = "on" /\ path /\ wire # <<>>
        /\ c.state = RxData /\ c.rx_count = DataBits /\ c.address \in DOMAIN file
        /\ process' = "off" /\ file' = [file EXCEPT ![c.address] = word]
        /\ latest' = AfterCut({word}) /\ UNCHANGED <<path, game, snapshot>>
    BY DEF KilledWhileStoring
  <1>2. ~detect /\ file = buffer /\ game \in EepromType /\ wire \in Seq({0, 1}) /\ chip \in Chips
    BY <1>1 DEF EepromInv, DetectInv, CommandInv, WireInv, Speaks
  <1>3. /\ AddrBits[game] \in Nat /\ DataBits \in Nat /\ DataBits >= 2
        /\ 2 ^ DataBits \in Nat /\ 2 ^ DataBits >= 4
    BY <1>2, GameConstants
  <1>4. Head(wire) \in {0, 1} /\ Len(wire) \in Nat /\ Len(wire) >= 1
    BY <1>1, <1>2, TailOfBits
  <1>5. /\ c.rx_count = chip.rx_count + 1 /\ c.state = chip.state /\ c.address = chip.address
    BY <1>2, <1>3, <1>4, ShiftedChip
  <1>6. chip.state = RxData /\ chip.rx_count + 1 = DataBits /\ chip.rx_count \in Nat
    BY <1>1, <1>2, <1>5 DEF Chips
  <1> HIDE DEF c, word
  <1>7. ~IsTransmitting(chip)
    BY <1>6, StateNames DEF IsTransmitting
  <1>8. PICK op \in {"Read", "Write"}, a \in GameAddresses[game], w \in Cell, k \in Nat :
          Underway(op, a, w, k)
    BY <1>1, <1>2, <1>7 DEF EepromInv, CommandInv, WireInv
  <1>9. op = "Write" /\ chip.address = a /\ chip.rx_count = k - 2 - AddrBits[game]
    BY <1>6, <1>8, StateNames DEF Underway, HasReceived
  <1>10. k = DataBits + 1 + AddrBits[game]
    BY <1>3, <1>6, <1>9
  <1>11. RequestLength("Write") = AddrBits[game] + 3 + DataBits
    BY <1>3 DEF RequestLength, WriteLength
  <1>12. ~(k + Len(wire) < RequestLength("Write") - 1)
    BY <1>3, <1>4, <1>10, <1>11
  <1>13. asked = AskedWrite(a, w)
    BY <1>8, <1>9, <1>12 DEF Underway
  <1>14. asked[1] = "write" /\ asked[2] = a /\ a \in GameAddresses[game]
    BY <1>13, RequestNames
  <1>15. ASSUME NEW b \in GameAddresses[game]
         PROVE  \/ CellOf(file', b) = CellOf(file, b)
                \/ path /\ asked[1] = "write" /\ wire # <<>> /\ b = asked[2] /\ CellOf(file', b) \in {word}
    <2>1. CASE b = a
      BY <2>1, <1>1, <1>5, <1>9, <1>14 DEF CellOf
    <2>2. CASE b # a
      BY <2>2, <1>1, <1>5, <1>9 DEF CellOf
    <2>3. QED
      BY <2>1, <2>2
  <1>16. QED
    BY <1>1, <1>2, <1>14, <1>15, CutIsKept

LEMMA SaveReads ==
  ASSUME EepromInv, ReadInv, SaveState
  PROVE  ReadInv'
  <1>1. /\ process = "on" /\ wire = <<>> /\ fetching = 0
        /\ snapshot' = [taken |-> TRUE, chip |-> chip, detect |-> detect,
                        size |-> Length(buffer), asked |-> asked]
        /\ UNCHANGED <<process, chip, detect, path, file, buffer, game, wire, fetching, asked,
                       answer, latest>>
        /\ game \in EepromType
    BY DEF SaveState, Idle, eepromVars, backupVars, gameVars, EepromInv
  <1>2. KeptInv'
    BY <1>1 DEF ReadInv, KeptInv, KeptNow, Kept, CellOf, StoredAlready
  <1>3. AnswerInv => AnswerInv'
    BY <1>1 DEF AnswerInv, Answering, AnswerUnderway, BitsOut, HalfOut, IsRequestOf, IsTransmitting
  <1>4. ASSUME ~detect
        PROVE  /\ IsRequestOf(asked) /\ (IsTransmitting(chip) <=> asked[1] = "read")
               /\ asked[1] = "read" =>
                    chip.state = TxDummy /\ chip.tx_count = 0 /\ chip.address = asked[2]
    <2>1. AnswerInv /\ DummyBits \in Nat /\ DummyBits >= 1
      BY <1>1, <1>4, GameConstants DEF ReadInv
    <2>2. BitsOut = 0
      BY <1>1 DEF BitsOut
    <2>3. QED
      BY <1>1, <2>1, <2>2 DEF AnswerInv, Answering, AnswerUnderway
  <1>5. SnapshotAnswers'
    BY <1>1, <1>4 DEF SnapshotAnswers, IsRequestOf, IsTransmitting
  <1>6. QED
    BY <1>1, <1>2, <1>3, <1>5 DEF ReadInv

LEMMA RestoreReads ==
  ASSUME EarlyStates = FALSE, EepromInv, ReadInv, RestoreState
  PROVE  ReadInv'
  <1>1. /\ process = "on" /\ wire = <<>> /\ fetching = 0 /\ snapshot.taken
        /\ path => snapshot.size = Length(file)
        /\ chip' = snapshot.chip /\ detect' = snapshot.detect /\ asked' = snapshot.asked
        /\ OpenBackup(snapshot.size) /\ answer' = 0
        /\ latest' = IF path THEN latest ELSE NothingKept
        /\ UNCHANGED <<process, wire, fetching, game, snapshot>>
        /\ game \in EepromType /\ Words[game] \in Nat /\ Words[game] >= 1
    BY GameConstants DEF RestoreState, Idle, EepromInv
  <1>2. SnapshotAnswers' /\ SnapshotAnswers
    BY <1>1, SnapshotAnswersKept DEF ReadInv
  <1>3. KeptInv'
    <2>1. \A a \in GameAddresses[game] : CellOf(buffer, a) \in latest[a]
      <3>1. KeptNow /\ Len(wire) # 1
        BY <1>1, EmptyLength DEF ReadInv, KeptInv
      <3>2. QED
        BY <3>1 DEF KeptNow, StoredAlready
    <2>2. latest = [a \in GameAddresses[game] |-> latest[a]]
      BY DEF ReadInv, KeptInv
    <2>3. CASE path
      <3>1. PICK n \in Nat : n >= 1 /\ IsMemory(file, n)
        BY <1>1, <2>3, TypeSizes DEF EepromInv, DetectInv, CommandInv
      <3>2. file = buffer /\ file # NoFile /\ snapshot.size = n
        BY <1>1, <2>3, <3>1, MemoryLength DEF EepromInv
      <3>3. file' = file /\ buffer' = Resized(file, n)
        BY <1>1, <2>3, <3>2 DEF OpenBackup
      <3>4. buffer' = buffer /\ latest' = latest
        BY <1>1, <2>3, <3>1, <3>2, <3>3, MemoryIsKept
      <3>5. KeptNow'
        BY <1>1, <2>1, <3>4, EmptyLength DEF KeptNow, StoredAlready, CellOf
      <3>6. QED
        BY <1>1, <2>2, <3>4, <3>5 DEF KeptInv
    <2>4. CASE ~path
      <3>1. buffer' = Blank(snapshot.size) /\ latest' = NothingKept
        BY <1>1, <2>4 DEF OpenBackup
      <3>2. \A a \in GameAddresses[game] : CellOf(buffer', a) = Erased /\ latest'[a] = {Erased}
        BY <3>1 DEF Blank, CellOf, NothingKept
      <3>3. KeptNow'
        BY <1>1, <3>2, EmptyLength DEF KeptNow, StoredAlready, CellOf
      <3>4. QED
        BY <1>1, <3>1, <3>3 DEF KeptInv, NothingKept
    <2>5. QED
      BY <2>3, <2>4
  <1>4. ASSUME ~detect'
        PROVE  AnswerInv'
    <2>1. /\ IsRequestOf(asked') /\ (IsTransmitting(chip') <=> asked'[1] = "read")
          /\ asked'[1] = "read" =>
               chip'.state = TxDummy /\ chip'.tx_count = 0 /\ chip'.address = asked'[2]
      BY <1>1, <1>2, <1>4 DEF SnapshotAnswers
    <2>2. CASE asked'[1] # "read"
      BY <1>1, <2>1, <2>2, NothingToAnswer
    <2>3. CASE asked'[1] = "read"
      <3>1. DummyBits \in Nat /\ DummyBits >= 1 /\ DataBits \in Nat
        BY <1>1, GameConstants
      <3>2. AnswerUnderway' /\ IsTransmitting(chip')
        BY <1>1, <2>1, <2>3, <3>1, AnswerBegins
      <3>3. QED
        BY <1>1, <2>1, <2>3, <3>2 DEF AnswerInv, Answering, IsRequestOf, IsTransmitting
    <2>4. QED
      BY <2>2, <2>3
  <1>5. QED
    BY <1>2, <1>3, <1>4 DEF ReadInv

LEMMA ReadStarts ==
  ASSUME SessionsInit
  PROVE  ReadInv
  <1>1. /\ process = "off" /\ file = NoFile /\ snapshot = NoState /\ latest = NothingKept
    BY DEF SessionsInit, EepromInit
  <1>2. Kept(file)
    BY <1>1 DEF Kept, CellOf, NoFile, NothingKept
  <1>3. latest = [a \in GameAddresses[game] |-> latest[a]]
    BY <1>1 DEF NothingKept
  <1>4. QED
    BY <1>1, <1>2, <1>3 DEF ReadInv, KeptInv, SnapshotAnswers, NoState

\* Games that read what they ask for to the end.
LEMMA ReadKeeps ==
  ASSUME EarlyStates = FALSE, FetchLengths \subseteq {DummyBits + DataBits},
         EepromInv, ReadInv, [SessionsNext]_vars
  PROVE  ReadInv'
  <1>1. CASE UNCHANGED vars
    <2>1. UNCHANGED <<process, path, file, buffer, chip, detect, game, wire, fetching, asked, answer,
                      snapshot, latest>>
      BY <1>1 DEF vars, eepromVars, backupVars, gameVars
    <2>2. KeptInv' /\ SnapshotAnswers'
      BY <2>1, SnapshotAnswersKept DEF ReadInv, KeptInv, KeptNow, Kept, CellOf, StoredAlready
    <2>3. AnswerInv => AnswerInv'
      BY <2>1 DEF AnswerInv, Answering, AnswerUnderway, BitsOut, HalfOut, IsRequestOf, IsTransmitting
    <2>4. QED
      BY <2>1, <2>2, <2>3 DEF ReadInv
  <1>2. CASE GameStep
    BY <1>2, AskReads, FetchReads, ElsewhereReads, ClockInReads, ClockOutReads, PollReads DEF GameStep
  <1>3. CASE StartSession \/ EndSession
    BY <1>3, StartReads, EndReads
  <1>4. CASE \E bits \in 1..(DataBits - 1) : KilledWhileStoring(bits)
    BY <1>4, KilledReads
  <1>5. CASE SaveState \/ RestoreState
    BY <1>5, SaveReads, RestoreReads
  <1> QED
    BY <1>1, <1>2, <1>3, <1>4, <1>5 DEF SessionsNext

-----------------------------------------------------------------------------
(* Cartridges of every kind. *)

\* What is behind the other buses has not learnt, stored or panicked anything.
OthersInv ==
  /\ medium \in {"Eeprom", "Sram", "Flash512", "Flash1M", "Rtc"}
  /\ medium # "Eeprom" => detect = TRUE /\ asked = Nothing
  /\ medium = "Rtc" => process = "on" /\ path = FALSE

CartridgeInv == EepromMediumInv /\ FlashMediumInv /\ OthersInv

LEMMA FlashMediumHolds == CartridgeSpec => []FlashMediumInv
  <1>1. CartridgeInit => FlashMediumInv
    BY FlashStarts DEF CartridgeInit, FlashMediumInv, FlashMedia
  <1>2. FlashMediumInv /\ [CartridgeNext]_cartridgeVars => FlashMediumInv'
    <2> SUFFICES ASSUME FlashMediumInv, [CartridgeNext]_cartridgeVars, medium' \in FlashMedia
                 PROVE  FlashInv'
      BY DEF FlashMediumInv
    <2>1. medium \in FlashMedia /\ FlashInv
      BY DEF FlashMediumInv, CartridgeNext, cartridgeVars
    <2>2. [FlashNext]_flashVars
      BY <2>1 DEF CartridgeNext, cartridgeVars, FlashMedia
    <2>3. QED
      BY <2>1, <2>2, FlashKeeps
  <1>3. QED
    BY <1>1, <1>2, PTL DEF CartridgeSpec

LEMMA CartridgeInvHolds ==
  ASSUME EarlyStates = FALSE, EarlyQuits = FALSE
  PROVE  CartridgeSpec => []CartridgeInv
  <1>1. CartridgeInit => EepromMediumInv /\ OthersInv
    <2> SUFFICES ASSUME CartridgeInit PROVE EepromMediumInv /\ OthersInv
      OBVIOUS
    <2>1. medium \in {"Eeprom", "Sram", "Flash512", "Flash1M", "Rtc"}
      BY MediaAssumption DEF CartridgeInit
    <2>2. medium = "Eeprom" => SessionsInit
      BY DEF CartridgeInit
    <2>3. /\ medium # "Eeprom" => detect = TRUE /\ asked = Nothing
          /\ medium = "Rtc" => process = "on" /\ path = FALSE
      BY DEF CartridgeInit, NoEeprom
    <2>4. QED
      BY <2>1, <2>2, <2>3, EepromStarts DEF EepromMediumInv, OthersInv
  <1>2. EepromMediumInv /\ [CartridgeNext]_cartridgeVars => EepromMediumInv'
    <2> SUFFICES ASSUME EepromMediumInv, [CartridgeNext]_cartridgeVars, medium' = "Eeprom"
                 PROVE  EepromInv'
      BY DEF EepromMediumInv
    <2>1. medium = "Eeprom" /\ EepromInv
      BY DEF EepromMediumInv, CartridgeNext, cartridgeVars
    <2>2. [SessionsNext]_vars
      BY <2>1 DEF CartridgeNext, cartridgeVars
    <2>3. QED
      BY <2>1, <2>2, EepromKeeps
  <1>3. OthersInv /\ [CartridgeNext]_cartridgeVars => OthersInv'
    BY DEF OthersInv, CartridgeNext, cartridgeVars, vars, eepromVars, backupVars, gameVars, flashVars
  <1>4. CartridgeSpec => []FlashMediumInv
    BY FlashMediumHolds
  <1>5. QED
    BY <1>1, <1>2, <1>3, <1>4, PTL DEF CartridgeSpec, CartridgeInv

\* The save file is the memory (backup_file.rs write, resize, flush; eeprom.rs
\* on_dma3_transfer): while a session runs with a file, the file is the buffer,
\* cell by cell and of the same size, of whatever type the memory is and however
\* the session before ended, even in the middle of a word or of an erase; where
\* no session ends before the EEPROM knows its size and no save state of another
\* size is loaded.
THEOREM CartridgeFileIsMemory ==
  ASSUME EarlyStates = FALSE, EarlyQuits = FALSE
  PROVE  CartridgeSpec => []FileIsMemory
  <1>1. CartridgeInv => FileIsMemory
    BY DEF CartridgeInv, EepromMediumInv, EepromInv, FlashMediumInv, FlashInv, FlashOn, FlashMedia,
           OthersInv, FileIsMemory
  <1>2. QED
    BY <1>1, CartridgeInvHolds, PTL

\* No panic (eeprom.rs write_half, read_half, on_dma3_transfer, new; flash.rs
\* command; the indices of BackupFile): a game that sends whole commands, whatever
\* save states it is put back to and wherever its process was killed, brings the
\* emulator down neither by what it sends nor by the file it left behind.
THEOREM CartridgeNeverPanics ==
  ASSUME EarlyStates = FALSE, EarlyQuits = FALSE
  PROVE  CartridgeSpec => []NeverPanics
  <1>1. CartridgeInv => NeverPanics
    BY DEF CartridgeInv, EepromMediumInv, EepromInv, FlashMediumInv, FlashInv, FlashMedia,
           OthersInv, NeverPanics
  <1>2. QED
    BY <1>1, CartridgeInvHolds, PTL

\* Size detection (eeprom.rs on_dma3_transfer, EepromController::new): a chip that
\* takes commands takes those of the length the game sends, whether it learnt the
\* size from a transfer, from the file or from a save state.
THEOREM CartridgeSpeaksGamesType ==
  ASSUME EarlyStates = FALSE, EarlyQuits = FALSE
  PROVE  CartridgeSpec => []SpeaksGamesType
  <1>1. CartridgeInv => SpeaksGamesType
    BY DEF CartridgeInv, EepromMediumInv, EepromInv, CommandInv, Speaks, OthersInv, SpeaksGamesType
  <1>2. QED
    BY <1>1, CartridgeInvHolds, PTL

\* Flash and SRAM (flash.rs write, command, read; backup_file.rs): each byte a game
\* reads, in the bank it believes it has selected, is the one it last wrote or
\* erased there, through every kill, restart, save and load.
THEOREM CartridgeBytesAreKept == CartridgeSpec => []BytesAreKept
  <1>1. FlashMediumInv => BytesAreKept
    BY FlashReads DEF FlashMediumInv, FlashMedia, BytesAreKept
  <1>2. QED
    BY <1>1, FlashMediumHolds, PTL


\* EEPROM reads (eeprom.rs fill_tx_buffer, clock_data_out; clock_data_in, where a
\* word is stored): a game that reads its answers whole gets, for every address
\* and word length, the word it last wrote there, in this session or an earlier
\* one; after a write that was cut off, the old word, the new one or the torn one.
THEOREM CartridgeReadsLastWrite ==
  ASSUME EarlyStates = FALSE, EarlyQuits = FALSE, FetchLengths \subseteq {DummyBits + DataBits}
  PROVE  CartridgeSpec => ReadsLastWrite
  <1> DEFINE Answered == asked[1] = "read" /\ fetching = 1 /\ asked' = Nothing /\ process' = "on"
                           => answer' \in latest[asked[2]]
  <1>1. CartridgeInit => ReadMediumInv
    BY ReadStarts DEF CartridgeInit, ReadMediumInv
  <1>2. CartridgeInv /\ ReadMediumInv /\ [CartridgeNext]_cartridgeVars => ReadMediumInv'
    <2> SUFFICES ASSUME CartridgeInv, ReadMediumInv, [CartridgeNext]_cartridgeVars, medium' = "Eeprom"
                 PROVE  ReadInv'
      BY DEF ReadMediumInv
    <2>1. medium = "Eeprom" /\ EepromInv /\ ReadInv
      BY DEF CartridgeInv, EepromMediumInv, ReadMediumInv, CartridgeNext, cartridgeVars
    <2>2. [SessionsNext]_vars
      BY <2>1 DEF CartridgeNext, cartridgeVars
    <2>3. QED
      BY <2>1, <2>2, ReadKeeps
  <1>3. CartridgeInv /\ ReadMediumInv /\ [CartridgeNext]_cartridgeVars => [Answered]_vars
    <2> SUFFICES ASSUME CartridgeInv, ReadMediumInv, [CartridgeNext]_cartridgeVars, vars' # vars,
                        asked[1] = "read", fetching = 1, asked' = Nothing, process' = "on"
                 PROVE  answer' \in latest[asked[2]]
      OBVIOUS
    <2>1. medium = "Eeprom" /\ EepromInv /\ ReadInv
      BY RequestNames DEF CartridgeInv, EepromMediumInv, OthersInv, ReadMediumInv
    <2>2. SessionsNext
      BY <2>1 DEF CartridgeNext, cartridgeVars
    <2>3. process = "on" /\ wire = <<>>
      BY <2>1, RequestNames DEF EepromInv, OffInv
    <2>4. ~Idle /\ ~ClockIn /\ ~StartSession
      BY <2>3 DEF Idle, ClockIn, StartSession
    <2>5. ~EndSession /\ \A bits \in 1..(DataBits - 1) : ~KilledWhileStoring(bits)
      BY DEF EndSession, KilledWhileStoring
    <2>6. ~SaveState /\ ~RestoreState
      BY <2>4 DEF SaveState, RestoreState
    <2>7. ClockOut
      BY <2>2, <2>4, <2>5, <2>6
         DEF SessionsNext, GameStep, AskRead, AskWrite, AskInPart, MayAsk, Fetch, OtherDma3, Poll
    <2>8. QED
      BY <2>1, <2>7, ClockOutReads
  <1>4. CartridgeSpec => []CartridgeInv
    BY CartridgeInvHolds
  <1>5. QED
    BY <1>1, <1>2, <1>3, <1>4, PTL DEF CartridgeSpec, ReadsLastWrite

-----------------------------------------------------------------------------
(* The clock behind the port: what the protocol has done at each place.    *)

AskedRegisters == {Status, Time, DateTime}

Sends(t, reg, read) == \E lsb_first \in BOOLEAN : t.command = CommandByte(reg, read, lsb_first)

Transfers == [kind : {"none", "end", "reset", "set", "read"}, reg : RegisterKind,
              command : 0..255, value : 0..255]

OfProtocol(t) ==
  \/ t.kind \in {"none", "end"}
  \/ t.kind = "reset" /\ Sends(t, ForceReset, FALSE)
  \/ t.kind = "set" /\ Sends(t, Status, FALSE)
  \/ t.kind = "read" /\ t.reg \in AskedRegisters /\ Sends(t, t.reg, TRUE)

Ports == [out : [0..3 -> BOOLEAN], readable : BOOLEAN]

ClockChips ==
  [state : RtcState, sck : {0, 1}, sio : {0, 1}, cs : {0, 1}, status : 0..255,
   serial : [byte : 0..255, counter : 0..8], internal : [0..7 -> 0..255],
   reg : RegisterKind, byte_count : 0..7, byte_index : 0..7]

Resting(r) == r.state \in {"Idle", "WaitForChipSelectHigh"}

\* A byte that the game sends, k edges after the last fall before it.
TakenIn(r, byte, k) ==
  /\ r.cs = 1 /\ r.sck = k % 2
  /\ r.serial = [byte |-> byte % 2 ^ (k \div 2), counter |-> k \div 2]

\* A transfer before its command, in its command, in the byte it stores, done.
Starting ==
  /\ Resting(rtc)
  /\ place >= 2 => gpio.out[Sio]
  /\ place = 3 => rtc.state = "WaitForChipSelectHigh"

Commanding ==
  /\ rtc.state = "GetCommandByte" /\ gpio.out[Sio]
  /\ TakenIn(rtc, transfer.command, place - 3)

Storing ==
  /\ rtc.state = "RxFromMaster" /\ gpio.out[Sio]
  /\ rtc.reg = Status /\ rtc.byte_count = 1 /\ rtc.byte_index = 0
  /\ TakenIn(rtc, transfer.value, place - 19)

\* The bits of the internal buffer, and a transfer that has sent m of them.
BitSent(r, j) == BitOf(r.internal[j \div 8], j % 8)

SentOut(r, m, n) ==
  IF m = 8 * n THEN r.state = "Idle"
  ELSE /\ r.state = "TxToMaster" /\ r.cs = 1 /\ r.byte_count = n
       /\ r.byte_index = (m + 7) \div 8 /\ r.serial.counter = (8 - (m % 8)) % 8
       /\ m % 8 # 0 => r.serial.byte = r.internal[m \div 8] \div 2 ^ (m % 8)

BitsOnPin(p) == IF p < 21 THEN 0 ELSE (p - 19) \div 3
BitsGot(p) == IF p < 21 THEN 0 ELSE (p - 20) \div 3

Tells(reg, byte, value) ==
  IF reg = Status THEN byte = value ELSE IsDecimal(byte) /\ Decimal(byte) = value

Telling(reg, internal, bytes) ==
  /\ Len(bytes) = param_count[reg]
  /\ \A i \in 0..(param_count[reg] - 1) : Tells(reg, internal[i], bytes[i + 1])

Answers ==
  /\ SentOut(rtc, BitsOnPin(place), param_count[transfer.reg])
  /\ Telling(transfer.reg, rtc.internal, want)
  /\ rtc.sck = IF place = 19 \/ (place > 20 /\ place % 3 # 0) THEN 0 ELSE 1
  /\ gpio.out[Sio] <=> place < 21
  /\ place > 21 /\ place % 3 # 0 => rtc.sio = BitSent(rtc, BitsOnPin(place) - 1)
  /\ Len(got) = BitsGot(place)
  /\ \A j \in 1..Len(got) : got[j] = BitSent(rtc, j - 1)

ClockPlace ==
  /\ transfer.kind = "none" => Resting(rtc)
  /\ transfer.kind = "end" /\ place = 1 => Resting(rtc)
  /\ transfer.kind \in {"reset", "set", "read"} /\ place < 4 => Starting
  /\ transfer.kind \in {"reset", "set", "read"} /\ place \in 4..18 => Commanding
  /\ transfer.kind = "reset" /\ place > 18 => rtc.state = "Idle"
  /\ transfer.kind = "set" /\ place \in 19..34 => Storing
  /\ transfer.kind = "set" /\ place > 34 => rtc.state = "Idle"
  /\ transfer.kind = "read" /\ place > 18 => Answers

ClockTypes ==
  /\ transfer \in Transfers /\ gpio \in Ports /\ rtc \in ClockChips
  /\ status_is \in 0..255 /\ place \in 0..Steps(transfer) /\ got \in Seq({0, 1})

\* The register is what the game knows, but for a command that is to change it.
StatusKnown ==
  \/ transfer.kind \in {"none", "end", "read"}
  \/ transfer.kind = "reset" /\ place > 18
  \/ transfer.kind = "set" /\ place > 34

ClockInv ==
  /\ ClockTypes /\ OfProtocol(transfer)
  /\ ~rtc_panicked /\ gpio.out[Sck] /\ gpio.out[Cs]
  /\ transfer.kind = "set" => status_is = StatusWritten(transfer.value)
  /\ transfer.kind = "reset" => status_is = StatusWritten(0)
  /\ StatusKnown => rtc.status = status_is
  /\ transfer.kind = "read" /\ place < 19 => got = <<>>
  /\ ClockPlace

LEMMA SmallPowers ==
  /\ 2 ^ 0 = 1 /\ 2 ^ 1 = 2 /\ 2 ^ 2 = 4 /\ 2 ^ 3 = 8 /\ 2 ^ 4 = 16
  /\ 2 ^ 5 = 32 /\ 2 ^ 6 = 64 /\ 2 ^ 7 = 128 /\ 2 ^ 8 = 256
  <1>1. 2 ^ 0 = 1
    BY PowerOfZero
  <1>2. 2 ^ 1 = 2
    <2>1. 2 ^ (0 + 1) = 2 * 2 ^ 0
      BY PowerDoubles
    <2>2. QED
      BY <1>1, <2>1
  <1>3. 2 ^ 2 = 4
    <2>1. 2 ^ (1 + 1) = 2 * 2 ^ 1
      BY PowerDoubles
    <2>2. QED
      BY <1>2, <2>1
  <1>4. 2 ^ 3 = 8
    <2>1. 2 ^ (2 + 1) = 2 * 2 ^ 2
      BY PowerDoubles
    <2>2. QED
      BY <1>3, <2>1
  <1>5. 2 ^ 4 = 16
    <2>1. 2 ^ (3 + 1) = 2 * 2 ^ 3
      BY PowerDoubles
    <2>2. QED
      BY <1>4, <2>1
  <1>6. 2 ^ 5 = 32
    <2>1. 2 ^ (4 + 1) = 2 * 2 ^ 4
      BY PowerDoubles
    <2>2. QED
      BY <1>5, <2>1
  <1>7. 2 ^ 6 = 64
    <2>1. 2 ^ (5 + 1) = 2 * 2 ^ 5
      BY PowerDoubles
    <2>2. QED
      BY <1>6, <2>1
  <1>8. 2 ^ 7 = 128
    <2>1. 2 ^ (6 + 1) = 2 * 2 ^ 6
      BY PowerDoubles
    <2>2. QED
      BY <1>7, <2>1
  <1>9. 2 ^ 8 = 256
    <2>1. 2 ^ (7 + 1) = 2 * 2 ^ 7
      BY PowerDoubles
    <2>2. QED
      BY <1>8, <2>1
  <1>10. QED
    BY <1>1, <1>2, <1>3, <1>4, <1>5, <1>6, <1>7, <1>8, <1>9

\* The bits of a byte, written without powers.
LEMMA BitsOfByte ==
  ASSUME NEW x \in Nat
  PROVE  /\ BitOf(x, 0) = x % 2 /\ BitOf(x, 1) = (x \div 2) % 2
         /\ BitOf(x, 2) = (x \div 4) % 2 /\ BitOf(x, 3) = (x \div 8) % 2
         /\ BitOf(x, 4) = (x \div 16) % 2 /\ BitOf(x, 5) = (x \div 32) % 2
         /\ BitOf(x, 6) = (x \div 64) % 2 /\ BitOf(x, 7) = (x \div 128) % 2
  BY SmallPowers DEF BitOf

LEMMA BitIsBit ==
  ASSUME NEW x \in Nat, NEW i \in 0..7
  PROVE  BitOf(x, i) \in {0, 1}
  <1>1. \A m \in Nat \ {0} : (x \div m) % 2 \in {0, 1}
    <2> SUFFICES ASSUME NEW m \in Nat \ {0} PROVE (x \div m) % 2 \in {0, 1}
      OBVIOUS
    <2>1. x \div m \in Nat
      BY Division
    <2>2. QED
      BY <2>1
  <1>2. 2 ^ i \in Nat \ {0}
    <2>1. i \in Nat /\ i <= i
      OBVIOUS
    <2>2. 2 ^ i \in Nat /\ 2 ^ i >= 1
      BY <2>1, PowerGrows, PowerIsCount
    <2>3. QED
      BY <2>2
  <1>3. QED
    BY <1>1, <1>2 DEF BitOf

LEMMA DoubledRemainder ==
  ASSUME NEW a \in Nat, NEW m \in Nat \ {0}
  PROVE  a % (2 * m) = (a % m) + ((a \div m) % 2) * m
  <1> DEFINE q == a \div m
             r == a % m
             h == q \div 2
             x == q % 2
  <1>1. q \in Nat /\ r \in 0..(m - 1) /\ a = m * q + r
    BY Division
  <1> HIDE DEF q, r
  <1>2. h \in Nat /\ x \in {0, 1} /\ q = 2 * h + x
    BY <1>1
  <1> HIDE DEF h, x
  <1>3. a = (2 * m) * h + (x * m + r)
    BY <1>1, <1>2
  <1>4. x * m + r \in 0..(2 * m - 1)
    BY <1>1, <1>2
  <1>5. a % (2 * m) = x * m + r
    <2> DEFINE p == 2 * m
               s == x * m + r
    <2>1. p \in Nat \ {0} /\ s \in 0..(p - 1) /\ a = p * h + s
      BY <1>3, <1>4, <1>2
    <2> HIDE DEF p, s
    <2>2. a % p = s
      BY <2>1, <1>2
    <2>3. QED
      BY <2>2 DEF p, s
  <1>6. QED
    BY <1>5, <1>1, <1>2 DEF q, r, x

LEMMA ThreePins ==
  ASSUME NEW sck \in {0, 1}, NEW sio \in {0, 1}, NEW cs \in {0, 1}
  PROVE  /\ sck + 2 * sio + 4 * cs \in Nat
         /\ BitOf(sck + 2 * sio + 4 * cs, Sck) = sck
         /\ BitOf(sck + 2 * sio + 4 * cs, Sio) = sio
         /\ BitOf(sck + 2 * sio + 4 * cs, Cs) = cs
  <1> DEFINE x == sck + 2 * sio + 4 * cs
  <1>1. /\ x \in Nat /\ x % 2 = sck /\ (x \div 2) % 2 = sio /\ (x \div 4) % 2 = cs
    <2>1. CASE sck = 0 /\ sio = 0
      BY <2>1
    <2>2. CASE sck = 0 /\ sio = 1
      BY <2>2
    <2>3. CASE sck = 1 /\ sio = 0
      BY <2>3
    <2>4. CASE sck = 1 /\ sio = 1
      BY <2>4
    <2>5. QED
      BY <2>1, <2>2, <2>3, <2>4
  <1> HIDE DEF x
  <1>2. BitOf(x, 0) = sck /\ BitOf(x, 1) = sio /\ BitOf(x, 2) = cs
    BY <1>1, BitsOfByte
  <1>3. QED
    BY <1>1, <1>2 DEF x, Sck, Sio, Cs

\* A byte comes in and goes out bit by bit, least significant first.
LEMMA BitComesIn ==
  ASSUME NEW b \in 0..255, NEW c \in 0..7
  PROVE  /\ (b % 2 ^ c) + BitOf(b, c) * 2 ^ c = b % 2 ^ (c + 1)
         /\ b % 2 ^ c \in 0..255 /\ b % 2 ^ 0 = 0 /\ b % 2 ^ 8 = b
  <1>1. b \in Nat /\ c \in Nat /\ c <= c /\ b % 1 = 0 /\ b % 256 = b
    OBVIOUS
  <1>2. 2 ^ c \in Nat \ {0}
    <2>1. 2 ^ c \in Nat /\ 2 ^ c >= 1
      BY <1>1, PowerGrows, PowerIsCount
    <2>2. QED
      BY <2>1
  <1> DEFINE m == 2 ^ c
  <1>3. 2 ^ (c + 1) = 2 * m
    BY <1>1, PowerDoubles
  <1>4. b % 2 ^ (c + 1) = (b % m) + BitOf(b, c) * m
    BY <1>1, <1>2, <1>3, DoubledRemainder DEF BitOf
  <1>5. b % m \in 0..255
    <2> DEFINE q == b \div m
               r == b % m
    <2>1. q \in Nat /\ r \in 0..(m - 1) /\ b = m * q + r /\ m \in Nat \ {0}
      BY <1>1, <1>2, Division
    <2> HIDE DEF m, q, r
    <2>2. m * q >= 0
      BY <2>1
    <2>3. QED
      BY <2>1, <2>2 DEF r
  <1>6. QED
    BY <1>1, <1>4, <1>5, SmallPowers

LEMMA BitGoesOut ==
  ASSUME NEW b \in 0..255, NEW c \in 0..7
  PROVE  /\ (b \div 2 ^ c) % 2 = BitOf(b, c) /\ (b \div 2 ^ c) \div 2 = b \div 2 ^ (c + 1)
         /\ b \div 2 ^ c \in 0..255 /\ b \div 2 ^ 0 = b
  <1>1. /\ b \in Nat /\ b < 256 /\ b \div 1 = b
    OBVIOUS
  <1>2. CASE c = 0
    BY <1>1, <1>2, SmallPowers DEF BitOf
  <1>3. CASE c = 1
    BY <1>1, <1>3, SmallPowers DEF BitOf
  <1>4. CASE c = 2
    BY <1>1, <1>4, SmallPowers DEF BitOf
  <1>5. CASE c = 3
    BY <1>1, <1>5, SmallPowers DEF BitOf
  <1>6. CASE c = 4
    BY <1>1, <1>6, SmallPowers DEF BitOf
  <1>7. CASE c = 5
    BY <1>1, <1>7, SmallPowers DEF BitOf
  <1>8. CASE c = 6
    BY <1>1, <1>8, SmallPowers DEF BitOf
  <1>9. CASE c = 7
    BY <1>1, <1>9, SmallPowers DEF BitOf
  <1>10. QED
    BY <1>2, <1>3, <1>4, <1>5, <1>6, <1>7, <1>8, <1>9

LEMMA ByteOfBits ==
  ASSUME NEW b \in 0..255
  PROVE  BitOf(b, 0) + 2 * BitOf(b, 1) + 4 * BitOf(b, 2) + 8 * BitOf(b, 3) + 16 * BitOf(b, 4)
           + 32 * BitOf(b, 5) + 64 * BitOf(b, 6) + 128 * BitOf(b, 7) = b
  <1> DEFINE rest(c) == b \div 2 ^ c
  <1>1. \A c \in 0..7 : /\ rest(c) \in 0..255 /\ rest(c) % 2 = BitOf(b, c)
                        /\ rest(c) \div 2 = rest(c + 1)
    BY BitGoesOut
  <1>2. rest(0) = b /\ rest(8) = 0
    <2>1. b \div 256 = 0
      OBVIOUS
    <2>2. QED
      BY <2>1, BitGoesOut, SmallPowers
  <1> HIDE DEF rest
  <1>3. \A x \in 0..255 : x = 2 * (x \div 2) + (x % 2)
    OBVIOUS
  <1>4. \A c \in 0..7 : rest(c) = 2 * rest(c + 1) + BitOf(b, c)
    BY <1>1, <1>3
  <1>5. /\ rest(0) = 2 * rest(1) + BitOf(b, 0) /\ rest(1) = 2 * rest(2) + BitOf(b, 1)
        /\ rest(2) = 2 * rest(3) + BitOf(b, 2) /\ rest(3) = 2 * rest(4) + BitOf(b, 3)
        /\ rest(4) = 2 * rest(5) + BitOf(b, 4) /\ rest(5) = 2 * rest(6) + BitOf(b, 5)
        /\ rest(6) = 2 * rest(7) + BitOf(b, 6) /\ rest(7) = 2 * rest(8) + BitOf(b, 7)
    BY <1>4
  <1>6. \A c \in 0..7 : BitOf(b, c) \in {0, 1} /\ rest(c) \in 0..255
    BY <1>1, BitIsBit
  <1>7. /\ BitOf(b, 0) \in Int /\ BitOf(b, 1) \in Int /\ BitOf(b, 2) \in Int /\ BitOf(b, 3) \in Int
        /\ BitOf(b, 4) \in Int /\ BitOf(b, 5) \in Int /\ BitOf(b, 6) \in Int /\ BitOf(b, 7) \in Int
    BY <1>6
  <1>8. QED
    BY <1>2, <1>5, <1>7

LEMMA StatusIsByte ==
  ASSUME NEW b \in 0..255
  PROVE  StatusWritten(b) \in 0..255
  BY BitIsBit DEF StatusWritten

LEMMA TwoDigits ==
  ASSUME NEW x \in 0..99
  PROVE  num2bcd(x) \in 0..255 /\ IsDecimal(num2bcd(x)) /\ Decimal(num2bcd(x)) = x
  <1> DEFINE t == x \div 10
             u == x % 10
  <1>1. t \in 0..9 /\ u \in 0..9 /\ x = 10 * t + u /\ num2bcd(x) = 16 * t + u
    BY DEF num2bcd
  <1> HIDE DEF t, u
  <1>2. (16 * t + u) \div 16 = t /\ (16 * t + u) % 16 = u
    BY <1>1
  <1>3. QED
    BY <1>1, <1>2 DEF IsDecimal, Decimal

LEMMA ParamCounts ==
  /\ ForceReset \in RegisterKind /\ Status \in RegisterKind /\ Time \in RegisterKind
  /\ DateTime \in RegisterKind
  /\ param_count[ForceReset] = 0 /\ param_count[Status] = 1 /\ param_count[Time] = 3
  /\ param_count[DateTime] = 7
  <1>1. \A reg \in RegisterKind :
          /\ reg = DateTime => param_count[reg] = 7
          /\ reg = Time => param_count[reg] = 3
          /\ reg = Status => param_count[reg] = 1
          /\ reg = ForceReset => param_count[reg] = 0
    BY DEF param_count, RegisterKind, ForceReset, DateTime, ForceIrq, Status, Time, Free
  <1>2. QED
    BY <1>1 DEF RegisterKind

\* The commands a game sends, from either end, and what the clock takes them for.
LEMMA ReversedCommands ==
  /\ Reversed(6) = 96 /\ Reversed(96) = 6
  /\ Reversed(70) = 98 /\ Reversed(98) = 70
  /\ Reversed(166) = 101 /\ Reversed(101) = 166
  /\ Reversed(198) = 99 /\ Reversed(99) = 198
  /\ Reversed(230) = 103 /\ Reversed(103) = 230
  BY BitsOfByte DEF Reversed

LEMMA CommandMeans ==
  /\ \A c \in {6, 96} : IsCommand(c) /\ RegOf(c) = ForceReset /\ ~IsRead(c)
  /\ \A c \in {70, 98} : IsCommand(c) /\ RegOf(c) = Status /\ ~IsRead(c)
  /\ \A c \in {166, 101} : IsCommand(c) /\ RegOf(c) = DateTime /\ IsRead(c)
  /\ \A c \in {198, 99} : IsCommand(c) /\ RegOf(c) = Status /\ IsRead(c)
  /\ \A c \in {230, 103} : IsCommand(c) /\ RegOf(c) = Time /\ IsRead(c)
  <1>1. \A c \in {6, 96} : IsCommand(c) /\ RegOf(c) = ForceReset /\ ~IsRead(c)
    <2>1. \A c \in {6, 96} : IsCommand(c) /\ CommandOf(c) = 6
      BY ReversedCommands DEF CommandOf, IsCommand
    <2>2. BitOf(6, 7) = 0 /\ (6 \div 16) % 8 = 0
      BY BitsOfByte
    <2>3. QED
      BY <2>1, <2>2 DEF RegOf, IsRead, ForceReset
  <1>2. \A c \in {70, 98} : IsCommand(c) /\ RegOf(c) = Status /\ ~IsRead(c)
    <2>1. \A c \in {70, 98} : IsCommand(c) /\ CommandOf(c) = 70
      BY ReversedCommands DEF CommandOf, IsCommand
    <2>2. BitOf(70, 7) = 0 /\ (70 \div 16) % 8 = 4
      BY BitsOfByte
    <2>3. QED
      BY <2>1, <2>2 DEF RegOf, IsRead, Status
  <1>3. \A c \in {166, 101} : IsCommand(c) /\ RegOf(c) = DateTime /\ IsRead(c)
    <2>1. \A c \in {166, 101} : IsCommand(c) /\ CommandOf(c) = 166
      BY ReversedCommands DEF CommandOf, IsCommand
    <2>2. BitOf(166, 7) = 1 /\ (166 \div 16) % 8 = 2
      BY BitsOfByte
    <2>3. QED
      BY <2>1, <2>2 DEF RegOf, IsRead, DateTime
  <1>4. \A c \in {198, 99} : IsCommand(c) /\ RegOf(c) = Status /\ IsRead(c)
    <2>1. \A c \in {198, 99} : IsCommand(c) /\ CommandOf(c) = 198
      BY ReversedCommands DEF CommandOf, IsCommand
    <2>2. BitOf(198, 7) = 1 /\ (198 \div 16) % 8 = 4
      BY BitsOfByte
    <2>3. QED
      BY <2>1, <2>2 DEF RegOf, IsRead, Status
  <1>5. \A c \in {230, 103} : IsCommand(c) /\ RegOf(c) = Time /\ IsRead(c)
    <2>1. \A c \in {230, 103} : IsCommand(c) /\ CommandOf(c) = 230
      BY ReversedCommands DEF CommandOf, IsCommand
    <2>2. BitOf(230, 7) = 1 /\ (230 \div 16) % 8 = 6
      BY BitsOfByte
    <2>3. QED
      BY <2>1, <2>2 DEF RegOf, IsRead, Time
  <1>6. QED
    BY <1>1, <1>2, <1>3, <1>4, <1>5

LEMMA CommandOfTransfer ==
  ASSUME NEW t, OfProtocol(t)
  PROVE  /\ t.kind = "reset" => /\ t.command \in 0..255 /\ RegOf(t.command) = ForceReset
                                /\ ~IsRead(t.command) /\ ~CommandPanics(t.command)
         /\ t.kind = "set" => /\ t.command \in 0..255 /\ RegOf(t.command) = Status
                              /\ ~IsRead(t.command) /\ ~CommandPanics(t.command)
         /\ t.kind = "read" => /\ t.command \in 0..255 /\ RegOf(t.command) = t.reg
                               /\ IsRead(t.command) /\ ~CommandPanics(t.command)
  <1>1. ASSUME t.kind = "reset"
        PROVE  /\ t.command \in 0..255 /\ RegOf(t.command) = ForceReset
               /\ ~IsRead(t.command) /\ ~CommandPanics(t.command)
    <2>1. t.command \in {6, 96}
      BY <1>1, ReversedCommands DEF OfProtocol, Sends, CommandByte, ForceReset
    <2>2. IsCommand(t.command) /\ RegOf(t.command) = ForceReset /\ ~IsRead(t.command)
      BY <2>1, CommandMeans
    <2>3. QED
      BY <2>1, <2>2, ParamCounts DEF CommandPanics
  <1>2. ASSUME t.kind = "set"
        PROVE  /\ t.command \in 0..255 /\ RegOf(t.command) = Status
               /\ ~IsRead(t.command) /\ ~CommandPanics(t.command)
    <2>1. t.command \in {70, 98}
      BY <1>2, ReversedCommands DEF OfProtocol, Sends, CommandByte, Status
    <2>2. IsCommand(t.command) /\ RegOf(t.command) = Status /\ ~IsRead(t.command)
      BY <2>1, CommandMeans
    <2>3. QED
      BY <2>1, <2>2, ParamCounts DEF CommandPanics
  <1>3. ASSUME t.kind = "read"
        PROVE  /\ t.command \in 0..255 /\ RegOf(t.command) = t.reg
               /\ IsRead(t.command) /\ ~CommandPanics(t.command)
    <2>1. \/ t.reg = DateTime /\ t.command \in {166, 101}
          \/ t.reg = Status /\ t.command \in {198, 99}
          \/ t.reg = Time /\ t.command \in {230, 103}
      <3>1. t.reg \in {Status, Time, DateTime} /\ Sends(t, t.reg, TRUE)
        BY <1>3 DEF OfProtocol, AskedRegisters
      <3>2. CASE t.reg = DateTime
        <4>1. Sends(t, DateTime, TRUE)
          BY <3>1, <3>2, Zenon
        <4>2. t.command \in {166, 101}
          <5>1. PICK lsb_first \in BOOLEAN : t.command = CommandByte(DateTime, TRUE, lsb_first)
            BY <4>1 DEF Sends
          <5>2. CommandByte(DateTime, TRUE, lsb_first) \in {166, 101}
            BY ReversedCommands DEF CommandByte, DateTime
          <5>3. QED
            BY <5>1, <5>2
        <4>3. QED
          BY <3>2, <4>2, Zenon
      <3>3. CASE t.reg = Status
        <4>1. Sends(t, Status, TRUE)
          BY <3>1, <3>3, Zenon
        <4>2. t.command \in {198, 99}
          <5>1. PICK lsb_first \in BOOLEAN : t.command = CommandByte(Status, TRUE, lsb_first)
            BY <4>1 DEF Sends
          <5>2. CommandByte(Status, TRUE, lsb_first) \in {198, 99}
            BY ReversedCommands DEF CommandByte, Status
          <5>3. QED
            BY <5>1, <5>2
        <4>3. QED
          BY <3>3, <4>2, Zenon
      <3>4. CASE t.reg = Time
        <4>1. Sends(t, Time, TRUE)
          BY <3>1, <3>4, Zenon
        <4>2. t.command \in {230, 103}
          <5>1. PICK lsb_first \in BOOLEAN : t.command = CommandByte(Time, TRUE, lsb_first)
            BY <4>1 DEF Sends
          <5>2. CommandByte(Time, TRUE, lsb_first) \in {230, 103}
            BY ReversedCommands DEF CommandByte, Time
          <5>3. QED
            BY <5>1, <5>2
        <4>3. QED
          BY <3>4, <4>2, Zenon
      <3>5. QED
        BY <3>1, <3>2, <3>3, <3>4
    <2>2. IsCommand(t.command) /\ RegOf(t.command) = t.reg /\ IsRead(t.command)
      BY <2>1, CommandMeans
    <2>3. t.command \in 0..255
      BY <2>1
    <2>4. QED
      BY <2>1, <2>2, <2>3, ParamCounts DEF CommandPanics
  <1>4. QED
    BY <1>1, <1>2, <1>3

\* What a write of the three pins does, by the state of the clock.
LEMMA PinsWritten ==
  ASSUME NEW sck \in {0, 1}, NEW sio \in {0, 1}, NEW cs \in {0, 1}, NEW now,
         rtc \in ClockChips, gpio.out[Sck], gpio.out[Cs],
         RtcWrite(sck + 2 * sio + 4 * cs, now)
  PROVE  /\ PinsSeen(sck, sio, cs).state = rtc.state
         /\ PinsSeen(sck, sio, cs).cs = cs /\ PinsSeen(sck, sio, cs).sck = sck
         /\ ClockStep(PinsSeen(sck, sio, cs), now)
  <1>1. /\ BitOf(sck + 2 * sio + 4 * cs, Sck) = sck /\ BitOf(sck + 2 * sio + 4 * cs, Sio) = sio
        /\ BitOf(sck + 2 * sio + 4 * cs, Cs) = cs
    BY ThreePins
  <1>2. ClockStep(PinsSeen(sck, sio, cs), now)
    BY <1>1, Zenon DEF RtcWrite
  <1>3. /\ PinsSeen(sck, sio, cs).state = rtc.state
        /\ PinsSeen(sck, sio, cs).cs = cs /\ PinsSeen(sck, sio, cs).sck = sck
    BY DEF PinsSeen, ClockChips
  <1>4. QED
    BY <1>2, <1>3


LEMMA ChipFields ==
  ASSUME NEW r \in ClockChips
  PROVE  /\ r.state \in RtcState /\ r.sck \in {0, 1} /\ r.sio \in {0, 1} /\ r.cs \in {0, 1}
         /\ r.status \in 0..255 /\ r.serial \in [byte : 0..255, counter : 0..8]
         /\ r.internal \in [0..7 -> 0..255] /\ r.reg \in RegisterKind
         /\ r.byte_count \in 0..7 /\ r.byte_index \in 0..7
         /\ \A state \in RtcState : [r EXCEPT !.state = state] \in ClockChips
         /\ \A serial \in [byte : 0..255, counter : 0..8] : [r EXCEPT !.serial = serial] \in ClockChips
  BY DEF ClockChips

LEMMA EmptyIsSerial == EmptySerial \in [byte : 0..255, counter : 0..8]
  BY DEF EmptySerial

LEMMA IdleIsChip ==
  ASSUME NEW r \in ClockChips
  PROVE  /\ RtcIdle(r) \in ClockChips /\ RtcIdle(r).state = "Idle"
         /\ RtcIdle(r).status = r.status /\ RtcIdle(r).internal = r.internal
         /\ RtcIdle(r).sck = r.sck /\ RtcIdle(r).sio = r.sio
  <1>1. "Idle" \in RtcState
    BY DEF RtcState
  <1>2. QED
    BY <1>1, EmptyIsSerial DEF RtcIdle, ClockChips

LEMMA CommandedChip ==
  ASSUME NEW r \in ClockChips, NEW g \in RegisterKind, NEW n \in 0..7
  PROVE  [r EXCEPT !.serial = EmptySerial, !.reg = g, !.byte_count = n, !.byte_index = 0] \in ClockChips
  <1> DEFINE d == [r EXCEPT !.serial = EmptySerial]
             e == [d EXCEPT !.reg = g]
             h == [e EXCEPT !.byte_count = n]
             i == [h EXCEPT !.byte_index = 0]
             f == [r EXCEPT !.serial = EmptySerial, !.reg = g, !.byte_count = n, !.byte_index = 0]
  <1>1. d \in ClockChips
    BY EmptyIsSerial, ChipFields
  <1>2. f = i
    BY DEF ClockChips
  <1> HIDE DEF d, f
  <1>3. e \in ClockChips
    BY <1>1 DEF ClockChips
  <1> HIDE DEF e
  <1>4. h \in ClockChips
    BY <1>3 DEF ClockChips
  <1> HIDE DEF h
  <1>5. i \in ClockChips
    BY <1>4 DEF ClockChips
  <1>6. QED
    BY <1>2, <1>5 DEF f

LEMMA PinsSeenIsChip ==
  ASSUME NEW sck \in {0, 1}, NEW sio \in {0, 1}, NEW cs \in {0, 1}, rtc \in ClockChips
  PROVE  LET r == PinsSeen(sck, sio, cs)
         IN /\ r \in ClockChips /\ r.state = rtc.state /\ r.sck = sck /\ r.cs = cs
            /\ r.serial = rtc.serial /\ r.internal = rtc.internal /\ r.reg = rtc.reg
            /\ r.byte_count = rtc.byte_count /\ r.byte_index = rtc.byte_index
            /\ r.status = rtc.status
            /\ rtc.sck = 1 /\ sck = 0 /\ gpio.out[Sio] => r.sio = sio
            /\ ~(rtc.sck = 1 /\ sck = 0) => r.sio = rtc.sio
  <1> DEFINE bit == IF rtc.sck = 1 /\ sck = 0 /\ gpio.out[Sio] THEN sio ELSE rtc.sio
             r == [rtc EXCEPT !.sck = sck, !.cs = cs, !.sio = bit]
  <1>1. PinsSeen(sck, sio, cs) = r
    BY DEF PinsSeen, ClockChips
  <1>2. bit \in {0, 1}
    BY DEF ClockChips
  <1>3. /\ rtc.sck = 1 /\ sck = 0 /\ gpio.out[Sio] => bit = sio
        /\ ~(rtc.sck = 1 /\ sck = 0) => bit = rtc.sio
    OBVIOUS
  <1> HIDE DEF bit
  <1>4. /\ r \in ClockChips /\ r.state = rtc.state /\ r.sck = sck /\ r.cs = cs
        /\ r.serial = rtc.serial /\ r.internal = rtc.internal /\ r.reg = rtc.reg
        /\ r.byte_count = rtc.byte_count /\ r.byte_index = rtc.byte_index
        /\ r.status = rtc.status /\ r.sio = bit
    BY <1>2 DEF ClockChips
  <1> HIDE DEF r
  <1>5. QED
    BY <1>1, <1>3, <1>4

\* The bit of an edge that falls goes on top of those before it.
LEMMA TakesOneBit ==
  ASSUME NEW b \in 0..255, NEW k \in 0..14, k % 2 = 0
  PROVE  LET s == push_bit([byte |-> b % 2 ^ ((k + 1) \div 2), counter |-> (k + 1) \div 2],
                           BitOf(b, k \div 2))
         IN /\ s = [byte |-> b % 2 ^ ((k + 2) \div 2), counter |-> (k + 2) \div 2]
            /\ k < 14 => s \in [byte : 0..255, counter : 0..8] /\ s.counter < 8
            /\ k = 14 => s.byte = b /\ s.counter = 8
  <1> DEFINE c == k \div 2
  <1>1. c \in 0..7 /\ (k + 1) \div 2 = c /\ (k + 2) \div 2 = c + 1 /\ (k < 14 <=> c < 7)
    OBVIOUS
  <1> HIDE DEF c
  <1>2. (b % 2 ^ c) + BitOf(b, c) * 2 ^ c = b % 2 ^ (c + 1) /\ b % 2 ^ 8 = b
    BY <1>1, BitComesIn
  <1>3. c < 7 => b % 2 ^ (c + 1) \in 0..255
    <2>1. c < 7 => c + 1 \in 0..7
      BY <1>1
    <2>2. QED
      BY <2>1, BitComesIn
  <1>4. push_bit([byte |-> b % 2 ^ c, counter |-> c], BitOf(b, c))
          = [byte |-> b % 2 ^ (c + 1), counter |-> c + 1]
    BY <1>1, <1>2 DEF push_bit
  <1>5. k = 14 => c = 7 /\ c + 1 = 8
    BY <1>1
  <1> DEFINE s == push_bit([byte |-> b % 2 ^ c, counter |-> c], BitOf(b, c))
             t == push_bit([byte |-> b % 2 ^ ((k + 1) \div 2), counter |-> (k + 1) \div 2],
                           BitOf(b, k \div 2))
  <1>6. t = s
    BY <1>1 DEF c
  <1>7. s = [byte |-> b % 2 ^ ((k + 2) \div 2), counter |-> (k + 2) \div 2]
    BY <1>1, <1>4
  <1>8. k < 14 => s \in [byte : 0..255, counter : 0..8] /\ s.counter < 8
    <2>1. k < 14 => b % 2 ^ (c + 1) \in 0..255 /\ c + 1 \in 0..7
      BY <1>1, <1>3
    <2>2. QED
      BY <1>4, <2>1
  <1>9. k = 14 => s.byte = b /\ s.counter = 8
    BY <1>2, <1>4, <1>5
  <1>10. QED
    BY <1>6, <1>7, <1>8, <1>9

-----------------------------------------------------------------------------
(* One step of a transfer at the port. *)

LEMMA StepsOfTransfer ==
  ASSUME NEW t \in Transfers
  PROVE  /\ t.kind = "none" => Steps(t) = 0
         /\ t.kind = "end" => Steps(t) = 1
         /\ t.kind = "reset" => Steps(t) = 20
         /\ t.kind = "set" => Steps(t) = 36
         /\ t.kind = "read" => Steps(t) = 21 + 24 * param_count[t.reg]
         /\ Steps(t) \in Nat /\ param_count[t.reg] \in 0..7
  <1>1. \A reg \in RegisterKind : param_count[reg] \in 0..7
    BY DEF param_count, RegisterKind, ForceReset, DateTime, ForceIrq, Status, Time, Free
  <1>2. t.kind \in {"none", "end", "reset", "set", "read"} /\ t.reg \in RegisterKind
    BY DEF Transfers
  <1>3. /\ t.kind = "none" => Steps(t) = 0
        /\ t.kind = "end" => Steps(t) = 1
        /\ t.kind = "reset" => Steps(t) = 20
        /\ t.kind = "set" => Steps(t) = 36
        /\ t.kind = "read" => Steps(t) = 21 + 24 * param_count[t.reg]
    BY DEF Steps
  <1>4. QED
    BY <1>1, <1>2, <1>3

LEMMA StepsAtPlaces ==
  ASSUME NEW t, t.kind \in {"reset", "set", "read"}, NEW p \in Nat
  PROVE  /\ p = 0 => StepOf(t, p) = <<"control", 1>>
         /\ p = 1 => StepOf(t, p) = <<"direction", 7>>
         /\ p = 2 => StepOf(t, p) = Pins(1, 0, 0)
         /\ p = 3 => StepOf(t, p) = Pins(1, 0, 1)
         /\ p \in 4..19 => StepOf(t, p) = Transmit(t.command, p - 4)
         /\ p > 19 /\ t.kind = "set" => StepOf(t, p) = Transmit(t.value, p - 20)
         /\ p = 20 /\ t.kind = "read" => StepOf(t, p) = <<"direction", 5>>
         /\ p > 20 /\ t.kind = "read" => StepOf(t, p) = Receive(p - 21)
  <1> DEFINE start == StartTransfer[p + 1]
             command == Transmit(t.command, p - 4)
             value == Transmit(t.value, p - 20)
             answer_bit == Receive(p - 21)
             x == StepOf(t, p)
  <1>1. x = CASE p < 4 -> start
              [] p \in 4..19 -> command
              [] t.kind = "set" /\ p > 19 -> value
              [] t.kind = "read" /\ p = 20 -> <<"direction", 5>>
              [] t.kind = "read" /\ p > 20 -> answer_bit
    <2>1. Dir(FALSE) = <<"direction", 5>>
      BY DEF Dir
    <2>2. QED
      BY <2>1, Zenon DEF StepOf
  <1> HIDE DEF start, command, value, answer_bit, x
  <1>2. /\ p < 4 => x = start
        /\ p \in 4..19 => x = command
    <2>1. CASE p < 4
      BY <1>1, <2>1
    <2>2. CASE p \in 4..19
      BY <1>1, <2>2
    <2>3. QED
      BY <2>1, <2>2
  <1>3. t.kind = "set" /\ p > 19 => x = value
    BY <1>1
  <1>4. t.kind = "read" /\ p = 20 => x = <<"direction", 5>>
    BY <1>1
  <1>5. t.kind = "read" /\ p > 20 => x = answer_bit
    BY <1>1
  <1>6. /\ StartTransfer[1] = <<"control", 1>> /\ StartTransfer[2] = <<"direction", 7>>
        /\ StartTransfer[3] = Pins(1, 0, 0) /\ StartTransfer[4] = Pins(1, 0, 1)
    BY DEF StartTransfer, Dir
  <1>7. /\ p = 0 => start = <<"control", 1>>
        /\ p = 1 => start = <<"direction", 7>>
        /\ p = 2 => start = Pins(1, 0, 0)
        /\ p = 3 => start = Pins(1, 0, 1)
    <2>1. CASE p = 0
      <3>1. p + 1 = 1
        BY <2>1
      <3>2. QED
        BY <1>6, <2>1, <3>1 DEF start
    <2>2. CASE p = 1
      <3>1. p + 1 = 2
        BY <2>2
      <3>2. QED
        BY <1>6, <2>2, <3>1 DEF start
    <2>3. CASE p = 2
      <3>1. p + 1 = 3
        BY <2>3
      <3>2. QED
        BY <1>6, <2>3, <3>1 DEF start
    <2>4. CASE p = 3
      <3>1. p + 1 = 4
        BY <2>4
      <3>2. QED
        BY <1>6, <2>4, <3>1 DEF start
    <2>5. QED
      BY <2>1, <2>2, <2>3, <2>4
  <1>8. QED
    BY <1>2, <1>3, <1>4, <1>5, <1>7 DEF command, value, answer_bit, x

LEMMA TouchesPort ==
  ASSUME ClockInv, NEW now, TouchPort(now)
  PROVE  /\ place \in Nat /\ place < Steps(transfer) /\ place' = place + 1
         /\ transfer' = transfer /\ status_is' = status_is
         /\ want' = IF rtc'.state = "TxToMaster" /\ rtc.state = "GetCommandByte"
                    THEN Shown(transfer.reg, now) ELSE want
  <1>1. place \in 0..Steps(transfer) /\ Steps(transfer) \in Int
    BY StepsOfTransfer DEF ClockInv, ClockTypes
  <1>2. QED
    BY <1>1 DEF TouchPort

LEMMA TouchesPins ==
  ASSUME ClockInv, NEW now, TouchPort(now),
         NEW sck \in {0, 1}, NEW sio \in {0, 1}, NEW cs \in {0, 1},
         StepOf(transfer, place) = Pins(sck, sio, cs)
  PROVE  ClockStep(PinsSeen(sck, sio, cs), now) /\ got' = got
  <1>1. /\ rtc \in ClockChips /\ gpio.out[Sck] /\ gpio.out[Cs]
    BY DEF ClockInv, ClockTypes
  <1> DEFINE step == StepOf(transfer, place)
             x == sck + 2 * sio + 4 * cs
  <1>2. step = <<"data", x>>
    BY DEF Pins
  <1>3. /\ \/ step[1] = "data" /\ RtcWrite(step[2], now)
           \/ step[1] = "direction" /\ WriteDirection(step[2])
           \/ step[1] = "control" /\ WriteControl(step[2])
           \/ step[1] = "read" /\ UNCHANGED gpioVars
        /\ got' = IF step = ReadPin THEN Append(got, BitOf(ReadData, Sio)) ELSE got
    BY DEF TouchPort
  <1> HIDE DEF step, x
  <1>4. step[1] = "data" /\ step[2] = x /\ step # ReadPin
    BY <1>2 DEF ReadPin
  <1>5. RtcWrite(x, now) /\ got' = got
    BY <1>3, <1>4
  <1>6. QED
    BY <1>1, <1>5, PinsWritten DEF x

LEMMA TouchesDirection ==
  ASSUME ClockInv, NEW now, TouchPort(now), NEW x \in {5, 7},
         StepOf(transfer, place) = <<"direction", x>>
  PROVE  /\ gpio' \in Ports /\ gpio'.out[Sck] /\ gpio'.out[Cs] /\ (gpio'.out[Sio] <=> x = 7)
         /\ UNCHANGED <<rtc, rtc_panicked, got>>
  <1> DEFINE step == StepOf(transfer, place)
  <1>1. step = <<"direction", x>>
    OBVIOUS
  <1>2. /\ \/ step[1] = "data" /\ RtcWrite(step[2], now)
           \/ step[1] = "direction" /\ WriteDirection(step[2])
           \/ step[1] = "control" /\ WriteControl(step[2])
           \/ step[1] = "read" /\ UNCHANGED gpioVars
        /\ got' = IF step = ReadPin THEN Append(got, BitOf(ReadData, Sio)) ELSE got
    BY DEF TouchPort
  <1> HIDE DEF step
  <1>3. step[1] = "direction" /\ step[2] = x /\ step # ReadPin
    BY <1>1 DEF ReadPin
  <1>4. WriteDirection(x) /\ got' = got
    BY <1>2, <1>3
  <1>5. BitOf(x, Sck) = 1 /\ BitOf(x, Cs) = 1 /\ (BitOf(x, Sio) = 1 <=> x = 7)
    <2>1. /\ BitOf(7, 0) = 1 /\ BitOf(7, 1) = 1 /\ BitOf(7, 2) = 1
          /\ BitOf(5, 0) = 1 /\ BitOf(5, 1) = 0 /\ BitOf(5, 2) = 1
      BY BitsOfByte
    <2>2. QED
      BY <2>1 DEF Sck, Sio, Cs
  <1>6. gpio \in Ports
    BY DEF ClockInv, ClockTypes
  <1>7. gpio' = [gpio EXCEPT !.out = [pin \in 0..3 |-> BitOf(x, pin) = 1]]
    BY <1>4 DEF WriteDirection
  <1>8. gpio' \in Ports /\ \A pin \in 0..3 : gpio'.out[pin] = (BitOf(x, pin) = 1)
    BY <1>6, <1>7 DEF Ports
  <1>9. Sck \in 0..3 /\ Sio \in 0..3 /\ Cs \in 0..3
    BY DEF Sck, Sio, Cs
  <1>10. QED
    BY <1>4, <1>5, <1>8, <1>9 DEF WriteDirection

LEMMA TouchesControl ==
  ASSUME ClockInv, NEW now, TouchPort(now), StepOf(transfer, place) = <<"control", 1>>
  PROVE  /\ gpio' \in Ports /\ gpio'.out = gpio.out
         /\ UNCHANGED <<rtc, rtc_panicked, got>>
  <1> DEFINE step == StepOf(transfer, place)
  <1>1. step[1] = "control" /\ step[2] = 1 /\ step # ReadPin
    BY DEF ReadPin
  <1>2. /\ \/ step[1] = "data" /\ RtcWrite(step[2], now)
           \/ step[1] = "direction" /\ WriteDirection(step[2])
           \/ step[1] = "control" /\ WriteControl(step[2])
           \/ step[1] = "read" /\ UNCHANGED gpioVars
        /\ got' = IF step = ReadPin THEN Append(got, BitOf(ReadData, Sio)) ELSE got
    BY DEF TouchPort
  <1> HIDE DEF step
  <1>3. WriteControl(1) /\ got' = got
    BY <1>1, <1>2
  <1>4. gpio \in Ports
    BY DEF ClockInv, ClockTypes
  <1>5. QED
    BY <1>3, <1>4 DEF WriteControl, Ports

LEMMA TouchesToRead ==
  ASSUME ClockInv, NEW now, TouchPort(now), StepOf(transfer, place) = ReadPin
  PROVE  UNCHANGED <<gpio, rtc, rtc_panicked>> /\ got' = Append(got, rtc.sio)
  <1> DEFINE step == StepOf(transfer, place)
  <1>1. step[1] = "read" /\ step = ReadPin
    BY DEF ReadPin
  <1>2. /\ \/ step[1] = "data" /\ RtcWrite(step[2], now)
           \/ step[1] = "direction" /\ WriteDirection(step[2])
           \/ step[1] = "control" /\ WriteControl(step[2])
           \/ step[1] = "read" /\ UNCHANGED gpioVars
        /\ got' = IF step = ReadPin THEN Append(got, BitOf(ReadData, Sio)) ELSE got
    BY DEF TouchPort
  <1> HIDE DEF step
  <1>3. UNCHANGED gpioVars /\ got' = Append(got, BitOf(ReadData, Sio))
    BY <1>1, <1>2
  <1>4. rtc \in ClockChips
    BY DEF ClockInv, ClockTypes
  <1>5. BitOf(rtc.sck + 2 * rtc.sio + 4 * rtc.cs, Sio) = rtc.sio
    BY <1>4, ChipFields, ThreePins
  <1>6. ReadData = rtc.sck + 2 * rtc.sio + 4 * rtc.cs
    BY <1>4, ChipFields, SmallPowers DEF ReadData, Sck, Sio, Cs
  <1>7. QED
    BY <1>3, <1>5, <1>6 DEF gpioVars

LEMMA ClockSteps ==
  ASSUME NEW r, NEW now, ClockStep(r, now)
  PROVE  /\ r.state = "Idle" /\ ~(r.sck = 1 /\ r.cs = 0) => RtcBecomes(r)
         /\ r.state = "Idle" /\ r.sck = 1 /\ r.cs = 0 =>
              RtcBecomes([r EXCEPT !.state = "WaitForChipSelectHigh"])
         /\ r.state = "WaitForChipSelectHigh" /\ ~(r.sck = 1 /\ r.cs = 1) => RtcBecomes(r)
         /\ r.state = "WaitForChipSelectHigh" /\ r.sck = 1 /\ r.cs = 1 =>
              RtcBecomes([r EXCEPT !.state = "GetCommandByte", !.serial = EmptySerial])
         /\ ~Resting(r) /\ r.cs = 0 => RtcBecomes(RtcIdle(r))
         /\ ~Resting(r) /\ r.cs = 1 /\ ~(rtc.sck = 1 /\ r.sck = 0) => RtcBecomes(r)
         /\ r.state = "GetCommandByte" /\ r.cs = 1 /\ rtc.sck = 1 /\ r.sck = 0 =>
              LET byte == push_bit(r.serial, r.sio)
              IN IF byte.counter < 8 THEN RtcBecomes([r EXCEPT !.serial = byte])
                 ELSE IF CommandPanics(byte.byte) \/ LoadPanics(byte.byte, now) THEN RtcPanics
                 ELSE RtcBecomes(RunCommand(r, byte.byte, now))
         /\ r.state = "TxToMaster" /\ r.cs = 1 /\ rtc.sck = 1 /\ r.sck = 0 /\ ~gpio.out[Sio] =>
              RtcBecomes(SendBit(r))
         /\ r.state = "RxFromMaster" /\ r.cs = 1 /\ rtc.sck = 1 /\ r.sck = 0 /\ gpio.out[Sio] =>
              RtcBecomes(ReceiveBit(r))
  BY DEF ClockStep, Resting

LEMMA StepKeeps ==
  ASSUME ClockInv, NEW now, TouchPort(now),
         rtc' \in ClockChips, gpio' \in Ports, ~rtc_panicked', gpio'.out[Sck], gpio'.out[Cs],
         got' \in Seq({0, 1}), transfer.kind = "read" /\ place' < 19 => got' = <<>>,
         StatusKnown' => rtc'.status = status_is, ClockPlace'
  PROVE  ClockInv'
  <1>1. /\ place' = place + 1 /\ transfer' = transfer /\ status_is' = status_is
        /\ place \in Nat /\ place < Steps(transfer)
    BY TouchesPort
  <1>2. transfer \in Transfers /\ Steps(transfer) \in Nat
    BY StepsOfTransfer DEF ClockInv, ClockTypes
  <1>3. Steps(transfer)' = Steps(transfer)
    BY <1>1 DEF Steps
  <1>4. place' \in 0..Steps(transfer)
    BY <1>1, <1>2
  <1>5. ClockTypes'
    BY <1>1, <1>2, <1>3, <1>4 DEF ClockInv, ClockTypes
  <1>6. OfProtocol(transfer)'
    BY <1>1, Zenon DEF ClockInv
  <1>7. /\ transfer'.kind = "set" => status_is' = StatusWritten(transfer'.value)
        /\ transfer'.kind = "reset" => status_is' = StatusWritten(0)
        /\ StatusKnown' => rtc'.status = status_is'
        /\ transfer'.kind = "read" /\ place' < 19 => got' = <<>>
    BY <1>1 DEF ClockInv
  <1>8. QED
    BY <1>5, <1>6, <1>7 DEF ClockInv

\* A step that leaves the pins to the clock.
LEMMA BecomesKeeps ==
  ASSUME ClockInv, NEW now, TouchPort(now), NEW r \in ClockChips, RtcBecomes(r), got' = got,
         StatusKnown' => r.status = status_is,
         ClockPlace'
  PROVE  ClockInv'
  <1>1. place' = place + 1 /\ place \in Nat
    BY TouchesPort
  <1>2. rtc' \in ClockChips /\ gpio' = gpio /\ rtc' = r /\ ~rtc_panicked'
    BY DEF RtcBecomes, ClockInv
  <1>3. /\ gpio \in Ports /\ gpio.out[Sck] /\ gpio.out[Cs] /\ got \in Seq({0, 1})
        /\ transfer.kind = "read" /\ place < 19 => got = <<>>
    BY DEF ClockInv, ClockTypes
  <1>4. QED
    BY <1>1, <1>2, <1>3, StepKeeps

LEMMA StatusKept ==
  ASSUME ClockInv, NEW now, TouchPort(now),
         transfer.kind = "reset" => place # 18, transfer.kind = "set" => place # 34
  PROVE  StatusKnown' => rtc.status = status_is
  <1>1. place' = place + 1 /\ place \in Nat /\ transfer' = transfer
    BY TouchesPort
  <1>2. StatusKnown' => StatusKnown
    BY <1>1 DEF StatusKnown
  <1>3. QED
    BY <1>2 DEF ClockInv

LEMMA StartSteps ==
  ASSUME ClockInv, NEW now, TouchPort(now),
         transfer.kind \in {"reset", "set", "read"}, place < 4
  PROVE  ClockInv'
  <1>1. /\ place' = place + 1 /\ place \in Nat /\ transfer' = transfer
    BY TouchesPort
  <1>2. /\ rtc \in ClockChips /\ gpio \in Ports /\ gpio.out[Sck] /\ gpio.out[Cs]
        /\ got \in Seq({0, 1}) /\ (transfer.kind = "read" => got = <<>>) /\ ~rtc_panicked
        /\ Starting /\ transfer \in Transfers
    BY DEF ClockInv, ClockTypes, ClockPlace
  <1>3. StatusKnown' => rtc.status = status_is
    BY StatusKept
  <1>4. CASE place < 2
    <2>1. \/ StepOf(transfer, place) = <<"control", 1>> /\ place = 0
          \/ StepOf(transfer, place) = <<"direction", 7>> /\ place = 1
      BY <1>1, <1>4, StepsAtPlaces
    <2>2. /\ gpio' \in Ports /\ gpio'.out[Sck] /\ gpio'.out[Cs] /\ (place = 1 => gpio'.out[Sio])
          /\ UNCHANGED <<rtc, rtc_panicked, got>>
      <3>1. CASE place = 0
        BY <1>2, <2>1, <3>1, TouchesControl
      <3>2. CASE place = 1
        BY <2>1, <3>2, TouchesDirection
      <3>3. QED
        BY <1>4, <1>1, <3>1, <3>2
    <2>3. Starting'
      BY <1>1, <1>2, <1>4, <2>2 DEF Starting, Resting
    <2>4. ClockPlace'
      BY <1>1, <1>4, <2>3 DEF ClockPlace
    <2>5. QED
      BY <1>1, <1>2, <1>3, <2>2, <2>4, StepKeeps
  <1>5. CASE place = 2
    <2> DEFINE r == PinsSeen(1, 0, 0)
               w == [r EXCEPT !.state = "WaitForChipSelectHigh"]
    <2>1. ClockStep(r, now) /\ got' = got
      BY <1>1, <1>5, StepsAtPlaces, TouchesPins
    <2>2. r \in ClockChips /\ r.state = rtc.state /\ r.sck = 1 /\ r.cs = 0 /\ r.status = rtc.status
      BY <1>2, PinsSeenIsChip
    <2> HIDE DEF r
    <2>3. /\ w \in ClockChips /\ w.status = rtc.status /\ w.state = "WaitForChipSelectHigh"
          /\ r.state = "WaitForChipSelectHigh" => w = r
      BY <2>2 DEF ClockChips, RtcState
    <2>4. r.state \in {"Idle", "WaitForChipSelectHigh"}
      BY <1>2, <2>2 DEF Starting, Resting
    <2>5. RtcBecomes(w)
      <3>1. CASE r.state = "Idle"
        BY <2>1, <2>2, <3>1, ClockSteps
      <3>2. CASE r.state = "WaitForChipSelectHigh"
        <4>1. ~(r.sck = 1 /\ r.cs = 1)
          BY <2>2
        <4>2. RtcBecomes(r)
          BY <2>1, <3>2, <4>1, ClockSteps, Zenon
        <4>3. QED
          BY <2>3, <3>2, <4>2
      <3>3. QED
        BY <2>4, <3>1, <3>2
    <2>6. Starting'
      BY <1>1, <1>2, <1>5, <2>3, <2>5 DEF Starting, Resting, RtcBecomes
    <2>7. ClockPlace'
      BY <1>1, <1>5, <2>6 DEF ClockPlace
    <2>8. QED
      BY <1>3, <2>1, <2>3, <2>5, <2>7, BecomesKeeps
  <1>6. CASE place = 3
    <2> DEFINE r == PinsSeen(1, 0, 1)
               w == [r EXCEPT !.state = "GetCommandByte", !.serial = EmptySerial]
    <2>1. ClockStep(r, now) /\ got' = got
      BY <1>1, <1>6, StepsAtPlaces, TouchesPins
    <2>2. r \in ClockChips /\ r.state = rtc.state /\ r.sck = 1 /\ r.cs = 1 /\ r.status = rtc.status
      BY <1>2, PinsSeenIsChip
    <2> HIDE DEF r
    <2>3. /\ w \in ClockChips /\ w.status = rtc.status /\ w.state = "GetCommandByte"
          /\ w.sck = 1 /\ w.cs = 1 /\ w.serial = EmptySerial
      BY <2>2, EmptyIsSerial DEF ClockChips, RtcState
    <2>4. RtcBecomes(w)
      BY <1>2, <1>6, <2>1, <2>2, ClockSteps DEF Starting
    <2>5. Commanding'
      <3>1. transfer.command \in 0..255
        BY <1>2 DEF Transfers
      <3>2. transfer.command % 2 ^ 0 = 0
        BY <3>1, BitComesIn, 0 \in 0..7
      <3>3. TakenIn(w, transfer.command, 1)
        BY <2>3, <3>2 DEF TakenIn, EmptySerial
      <3>4. rtc' = w /\ gpio' = gpio /\ place' - 3 = 1 /\ transfer' = transfer
        BY <1>1, <1>6, <2>4 DEF RtcBecomes
      <3>5. gpio.out[Sio]
        BY <1>2, <1>6 DEF Starting
      <3>6. QED
        BY <2>3, <3>3, <3>4, <3>5 DEF Commanding
    <2>6. ClockPlace'
      BY <1>1, <1>6, <2>5 DEF ClockPlace
    <2>7. QED
      BY <1>3, <2>1, <2>3, <2>4, <2>6, BecomesKeeps
  <1>7. QED
    BY <1>1, <1>4, <1>5, <1>6

\* An edge that the game sends in the middle of a byte.
LEMMA EdgeFalls ==
  ASSUME rtc \in ClockChips, gpio.out[Sio],
         NEW b \in 0..255, NEW k \in 0..14, k % 2 = 0, TakenIn(rtc, b, k + 1)
  PROVE  LET r == PinsSeen(0, BitOf(b, k \div 2), 1)
             s == push_bit(r.serial, r.sio)
             w == [r EXCEPT !.serial = s]
         IN /\ BitOf(b, k \div 2) \in {0, 1} /\ rtc.sck = 1
            /\ k < 14 => s.counter < 8 /\ w \in ClockChips /\ TakenIn(w, b, k + 2)
            /\ k = 14 => s.counter = 8 /\ s.byte = b
  <1> DEFINE bit == BitOf(b, k \div 2)
             r == PinsSeen(0, bit, 1)
             s == push_bit(r.serial, r.sio)
             w == [r EXCEPT !.serial = s]
             taken == [byte |-> b % 2 ^ ((k + 1) \div 2), counter |-> (k + 1) \div 2]
  <1>1. bit \in {0, 1}
    <2>1. k \div 2 \in 0..7 /\ b \in Nat
      OBVIOUS
    <2>2. QED
      BY <2>1, BitIsBit
  <1>2. rtc.sck = 1 /\ rtc.serial = taken
    <2>1. (k + 1) % 2 = 1
      OBVIOUS
    <2>2. QED
      BY <2>1 DEF TakenIn
  <1>3. /\ r \in ClockChips /\ r.sck = 0 /\ r.cs = 1 /\ r.serial = taken /\ r.sio = bit
    BY <1>1, <1>2, PinsSeenIsChip
  <1> HIDE DEF r
  <1>4. s = push_bit(taken, bit)
    BY <1>3
  <1> HIDE DEF s
  <1>5. /\ s = [byte |-> b % 2 ^ ((k + 2) \div 2), counter |-> (k + 2) \div 2]
        /\ k < 14 => s \in [byte : 0..255, counter : 0..8] /\ s.counter < 8
        /\ k = 14 => s.byte = b /\ s.counter = 8
    <2> DEFINE t == push_bit(taken, bit)
    <2>1. /\ t = [byte |-> b % 2 ^ ((k + 2) \div 2), counter |-> (k + 2) \div 2]
          /\ k < 14 => t \in [byte : 0..255, counter : 0..8] /\ t.counter < 8
          /\ k = 14 => t.byte = b /\ t.counter = 8
      BY TakesOneBit
    <2> HIDE DEF t
    <2>2. s = t
      BY <1>4 DEF t
    <2>3. QED
      BY <2>1, <2>2
  <1> HIDE DEF bit, taken
  <1>6. k < 14 => w \in ClockChips /\ w.sck = 0 /\ w.cs = 1 /\ w.serial = s
    <2>1. w.sck = 0 /\ w.cs = 1 /\ w.serial = s
      BY <1>3 DEF ClockChips
    <2>2. k < 14 => w \in ClockChips
      BY <1>3, <1>5, ChipFields
    <2>3. QED
      BY <2>1, <2>2
  <1>7. (k + 2) % 2 = 0
    OBVIOUS
  <1>8. k < 14 => TakenIn(w, b, k + 2)
    BY <1>5, <1>6, <1>7 DEF TakenIn
  <1>9. QED
    BY <1>1, <1>2, <1>5, <1>6, <1>8 DEF r, s, bit

LEMMA EdgeRises ==
  ASSUME rtc \in ClockChips,
         NEW b \in 0..255, NEW k \in 0..14, k % 2 = 0, TakenIn(rtc, b, k)
  PROVE  /\ rtc.sck = 0 /\ PinsSeen(1, 0, 1) \in ClockChips
         /\ TakenIn(PinsSeen(1, 0, 1), b, k + 1)
  <1> DEFINE r == PinsSeen(1, 0, 1)
             taken == [byte |-> b % 2 ^ (k \div 2), counter |-> k \div 2]
  <1>1. rtc.sck = 0 /\ rtc.serial = taken
    BY DEF TakenIn
  <1>2. r \in ClockChips /\ r.sck = 1 /\ r.cs = 1 /\ r.serial = taken
    BY <1>1, PinsSeenIsChip
  <1>3. (k + 1) \div 2 = k \div 2 /\ (k + 1) % 2 = 1
    OBVIOUS
  <1> HIDE DEF r
  <1>4. TakenIn(r, b, k + 1)
    BY <1>2, <1>3 DEF TakenIn
  <1>5. QED
    BY <1>1, <1>2, <1>4 DEF r

\* What load_register puts into the buffer, digit by digit.
Digits(bytes, values, n) ==
  /\ Len(bytes) = n /\ Len(values) = n
  /\ \A i \in 1..n : bytes[i] \in 0..255 /\ IsDecimal(bytes[i]) /\ Decimal(bytes[i]) = values[i]

LEMMA ThreeTwoDigits ==
  ASSUME NEW x \in 0..99, NEW y \in 0..99, NEW z \in 0..99
  PROVE  Digits(<<num2bcd(x), num2bcd(y), num2bcd(z)>>, <<x, y, z>>, 3)
  <1> DEFINE good(v) == num2bcd(v) \in 0..255 /\ IsDecimal(num2bcd(v)) /\ Decimal(num2bcd(v)) = v
             b == <<num2bcd(x), num2bcd(y), num2bcd(z)>>
             s == <<x, y, z>>
  <1>1. good(x) /\ good(y) /\ good(z)
    BY TwoDigits
  <1>2. Len(b) = 3 /\ Len(s) = 3
    OBVIOUS
  <1>3. \A i \in 1..3 : \E v \in {x, y, z} : b[i] = num2bcd(v) /\ s[i] = v
    OBVIOUS
  <1>4. \A v \in {x, y, z} : good(v)
    BY <1>1
  <1> HIDE DEF b, s
  <1>5. QED
    BY <1>2, <1>3, <1>4 DEF Digits, b, s

LEMMA SevenTwoDigits ==
  ASSUME NEW t \in 0..99, NEW u \in 0..99, NEW v \in 0..99, NEW w \in 0..99,
         NEW x \in 0..99, NEW y \in 0..99, NEW z \in 0..99
  PROVE  Digits(<<num2bcd(t), num2bcd(u), num2bcd(v), num2bcd(w), num2bcd(x), num2bcd(y), num2bcd(z)>>,
                <<t, u, v, w, x, y, z>>, 7)
  <1> DEFINE good(n) == num2bcd(n) \in 0..255 /\ IsDecimal(num2bcd(n)) /\ Decimal(num2bcd(n)) = n
             b == <<num2bcd(t), num2bcd(u), num2bcd(v), num2bcd(w), num2bcd(x), num2bcd(y), num2bcd(z)>>
             s == <<t, u, v, w, x, y, z>>
             vs == {t, u, v, w, x, y, z}
  <1>1. \A n \in vs : good(n)
    BY TwoDigits
  <1>2. Len(b) = 7 /\ Len(s) = 7
    OBVIOUS
  <1>3. \A i \in 1..7 : \E n \in vs : b[i] = num2bcd(n) /\ s[i] = n
    OBVIOUS
  <1> HIDE DEF b, s, vs
  <1>4. QED
    BY <1>1, <1>2, <1>3 DEF Digits, b, s

LEMMA HourIsHour ==
  ASSUME NEW now \in Clocks, NEW status
  PROVE  /\ Hour(status, now) \in 0..99
         /\ now.minute \in 0..99 /\ now.second \in 0..99 /\ now.month \in 0..99
         /\ now.day \in 0..99 /\ now.weekday \in 0..99 /\ now.year % 100 \in 0..99
         /\ now.year \in 2000..2099
  <1>1. /\ now.year \in 2000..2099 /\ now.month \in 1..12 /\ now.day \in 1..31
        /\ now.weekday \in 1..7 /\ now.hour \in 0..23
        /\ now.minute \in 0..59 /\ now.second \in 0..59
    BY RtcAssumption
  <1>2. (now.hour + 11) % 12 \in 0..99
    BY <1>1
  <1>3. Hour(status, now) \in 0..99
    BY <1>1, <1>2 DEF Hour
  <1>4. now.year % 100 \in 0..99
    BY <1>1
  <1>5. QED
    BY <1>1, <1>3, <1>4

LEMMA LoadedTells ==
  ASSUME NEW now \in Clocks, NEW reg \in AskedRegisters, status_is \in 0..255
  PROVE  LET bytes == Loaded(reg, status_is, now)
             shown == Shown(reg, now)
             n == param_count[reg]
         IN /\ n \in 1..7 /\ Len(bytes) = n /\ Len(shown) = n
            /\ \A i \in 1..n : bytes[i] \in 0..255 /\ Tells(reg, bytes[i], shown[i])
  <1> DEFINE hour == Hour(status_is, now)
  <1>1. HourShown(now) = hour
    BY DEF HourShown, Hour
  <1>2. /\ hour \in 0..99 /\ now.minute \in 0..99 /\ now.second \in 0..99 /\ now.month \in 0..99
        /\ now.day \in 0..99 /\ now.weekday \in 0..99 /\ now.year % 100 \in 0..99
    BY HourIsHour
  <1>3. CASE reg = Status
    <2>1. Status # Time /\ Status # DateTime /\ param_count[reg] = 1
      BY <1>3, ParamCounts DEF Time, Status, DateTime
    <2>2. Loaded(reg, status_is, now) = <<status_is>>
      BY <1>3, <2>1, Zenon DEF Loaded
    <2>3. Shown(reg, now) = <<status_is>>
      BY <1>3, <2>1, Zenon DEF Shown
    <2>4. QED
      BY <1>3, <2>1, <2>2, <2>3 DEF Tells
  <1>4. CASE reg = Time
    <2> DEFINE bytes == <<num2bcd(hour), num2bcd(now.minute), num2bcd(now.second)>>
               shown == <<hour, now.minute, now.second>>
    <2>1. Time # Status /\ Time # DateTime /\ param_count[reg] = 3
      BY <1>4, ParamCounts DEF Time, Status, DateTime
    <2>2. Loaded(reg, status_is, now) = bytes
      BY <1>4, <2>1, Zenon DEF Loaded
    <2>3. Shown(reg, now) = shown
      BY <1>1, <1>4, <2>1, Zenon DEF Shown
    <2>4. Digits(bytes, shown, 3)
      BY <1>2, ThreeTwoDigits
    <2> HIDE DEF bytes, shown
    <2>5. \A i \in 1..3 : bytes[i] \in 0..255 /\ Tells(reg, bytes[i], shown[i])
      BY <1>4, <2>1, <2>4 DEF Tells, Digits
    <2>6. QED
      BY <2>1, <2>2, <2>3, <2>4, <2>5 DEF Digits
  <1>5. CASE reg = DateTime
    <2> DEFINE bytes == <<num2bcd(now.year % 100), num2bcd(now.month), num2bcd(now.day),
                          num2bcd(now.weekday), num2bcd(hour), num2bcd(now.minute), num2bcd(now.second)>>
               shown == <<now.year % 100, now.month, now.day, now.weekday, hour, now.minute, now.second>>
    <2>1. DateTime # Status /\ DateTime # Time /\ param_count[reg] = 7
      BY <1>5, ParamCounts DEF Time, Status, DateTime
    <2>2. Loaded(reg, status_is, now) = bytes
      BY <1>5, <2>1, Zenon DEF Loaded
    <2>3. Shown(reg, now) = shown
      BY <1>1, <1>5, <2>1, Zenon DEF Shown
    <2>4. Digits(bytes, shown, 7)
      BY <1>2, SevenTwoDigits
    <2> HIDE DEF bytes, shown
    <2>5. \A i \in 1..7 : bytes[i] \in 0..255 /\ Tells(reg, bytes[i], shown[i])
      BY <1>5, <2>1, <2>4 DEF Tells, Digits
    <2>6. QED
      BY <2>1, <2>2, <2>3, <2>4, <2>5 DEF Digits
  <1>6. QED
    BY <1>3, <1>4, <1>5 DEF AskedRegisters

LEMMA LoadsRegister ==
  ASSUME NEW r \in ClockChips, NEW now \in Clocks, r.reg \in AskedRegisters, r.status = status_is
  PROVE  LET w == load_register(r, now)
         IN /\ w \in ClockChips /\ Telling(r.reg, w.internal, Shown(r.reg, now))
            /\ \E internal \in [0..7 -> 0..255] : w = [r EXCEPT !.internal = internal]
  <1> DEFINE bytes == Loaded(r.reg, status_is, now)
             shown == Shown(r.reg, now)
             n == param_count[r.reg]
             internal == [i \in 0..7 |-> IF i < Len(bytes) THEN bytes[i + 1] ELSE r.internal[i]]
             w == [r EXCEPT !.internal = internal]
  <1>1. /\ n \in 1..7 /\ Len(bytes) = n /\ Len(shown) = n
        /\ \A i \in 1..n : bytes[i] \in 0..255 /\ Tells(r.reg, bytes[i], shown[i])
    <2>1. status_is \in 0..255
      BY ChipFields
    <2>2. QED
      BY <2>1, LoadedTells
  <1>2. load_register(r, now) = w
    BY ChipFields DEF load_register
  <1> HIDE DEF bytes, shown, n
  <1>3. internal \in [0..7 -> 0..255]
    <2>1. \A i \in 0..7 : i < n => i + 1 \in 1..n
      BY <1>1
    <2>2. \A i \in 0..7 : r.internal[i] \in 0..255
      BY ChipFields
    <2>3. QED
      BY <1>1, <2>1, <2>2
  <1>4. \A i \in 0..(n - 1) : Tells(r.reg, internal[i], shown[i + 1])
    <2>1. \A i \in 0..(n - 1) : i \in 0..7 /\ i < Len(bytes) /\ i + 1 \in 1..n
      BY <1>1
    <2>2. \A i \in 0..(n - 1) : internal[i] = bytes[i + 1]
      BY <2>1
    <2>3. QED
      BY <1>1, <2>1, <2>2
  <1> HIDE DEF internal
  <1>5. w \in ClockChips /\ w.internal = internal
    BY <1>3 DEF ClockChips
  <1>6. Telling(r.reg, w.internal, shown)
    BY <1>1, <1>4, <1>5 DEF Telling, n
  <1>7. QED
    BY <1>2, <1>3, <1>5, <1>6 DEF shown

LEMMA CommandSteps ==
  ASSUME ClockInv, NEW now \in Clocks, TouchPort(now),
         transfer.kind \in {"reset", "set", "read"}, place \in 4..18
  PROVE  ClockInv'
  <1> DEFINE k == place - 4
             b == transfer.command
  <1>1. /\ place' = place + 1 /\ place \in Nat /\ transfer' = transfer
        /\ want' = IF rtc'.state = "TxToMaster" /\ rtc.state = "GetCommandByte"
                   THEN Shown(transfer.reg, now) ELSE want
    BY TouchesPort
  <1>10. place - 3 = k + 1
    BY <1>1
  <1>2. /\ rtc \in ClockChips /\ gpio \in Ports /\ transfer \in Transfers /\ OfProtocol(transfer)
        /\ rtc.state = "GetCommandByte" /\ gpio.out[Sio] /\ TakenIn(rtc, b, k + 1)
        /\ (transfer.kind = "read" => got = <<>>) /\ status_is \in 0..255
        /\ (transfer.kind = "reset" => status_is = StatusWritten(0))
        /\ (transfer.kind = "read" => rtc.status = status_is)
    BY <1>10 DEF ClockInv, ClockTypes, ClockPlace, Commanding, StatusKnown
  <1>3. b \in 0..255 /\ k \in 0..14 /\ (k = 14 <=> place = 18)
    BY <1>1, <1>2 DEF Transfers
  <1>4. StepOf(transfer, place) = Transmit(b, k)
    BY <1>1, StepsAtPlaces
  <1> HIDE DEF k, b
  <1>5. CASE k % 2 = 1
    <2> DEFINE r == PinsSeen(1, 0, 1)
    <2>1. Transmit(b, k) = Pins(1, 0, 1) /\ k + 1 \in 0..14 /\ (k + 1) % 2 = 0
      BY <1>3, <1>5 DEF Transmit
    <2>2. ClockStep(r, now) /\ got' = got
      BY <1>4, <2>1, TouchesPins
    <2>3. rtc.sck = 0 /\ r \in ClockChips /\ TakenIn(r, b, (k + 1) + 1)
      BY <1>2, <1>3, <1>5, <2>1, EdgeRises
    <2>4. r.state = "GetCommandByte" /\ r.status = rtc.status /\ r.cs = 1
      BY <1>2, PinsSeenIsChip
    <2> HIDE DEF r
    <2>5. RtcBecomes(r)
      <3>1. ~Resting(r) /\ ~(rtc.sck = 1 /\ r.sck = 0)
        BY <2>3, <2>4 DEF Resting
      <3>2. QED
        BY <2>2, <2>4, <3>1, ClockSteps, Zenon
    <2>6. place # 18
      BY <1>3, <1>5
    <2>7. StatusKnown' => r.status = status_is
      <3>1. transfer.kind = "set" => place # 34
        OBVIOUS
      <3>2. QED
        BY <2>4, <2>6, <3>1, StatusKept
    <2>8. Commanding'
      <3>1. place' - 3 = (k + 1) + 1 /\ transfer'.command = b /\ rtc' = r /\ gpio' = gpio
        BY <1>1, <2>5 DEF k, b, RtcBecomes
      <3>2. QED
        BY <1>2, <2>3, <2>4, <3>1 DEF Commanding
    <2>9. ClockPlace'
      BY <1>1, <2>6, <2>8 DEF ClockPlace
    <2>10. QED
      BY <2>2, <2>3, <2>5, <2>7, <2>9, BecomesKeeps
  <1>6. CASE k % 2 = 0 /\ k < 14
    <2> DEFINE bit == BitOf(b, k \div 2)
               r == PinsSeen(0, bit, 1)
               s == push_bit(r.serial, r.sio)
               w == [r EXCEPT !.serial = s]
    <2>1. Transmit(b, k) = Pins(0, bit, 1)
      BY <1>6 DEF Transmit
    <2>2. bit \in {0, 1} /\ rtc.sck = 1 /\ s.counter < 8 /\ w \in ClockChips /\ TakenIn(w, b, k + 2)
      BY <1>2, <1>3, <1>6, EdgeFalls
    <2>3. ClockStep(r, now) /\ got' = got
      BY <1>4, <2>1, <2>2, TouchesPins
    <2>4. r.state = "GetCommandByte" /\ r.status = rtc.status /\ r.cs = 1 /\ r.sck = 0 /\ r \in ClockChips
      BY <1>2, <2>2, PinsSeenIsChip
    <2> HIDE DEF bit, r
    <2>5. RtcBecomes(w)
      BY <2>2, <2>3, <2>4, ClockSteps
    <2>6. w.state = "GetCommandByte" /\ w.status = rtc.status
      BY <2>4 DEF ClockChips
    <2> HIDE DEF w
    <2>7. place # 18
      BY <1>3, <1>6
    <2>8. StatusKnown' => w.status = status_is
      <3>1. transfer.kind = "set" => place # 34
        OBVIOUS
      <3>2. QED
        BY <2>6, <2>7, <3>1, StatusKept
    <2>9. Commanding'
      <3>1. place' - 3 = k + 2 /\ transfer'.command = b /\ rtc' = w /\ gpio' = gpio
        BY <1>1, <2>5 DEF k, b, RtcBecomes
      <3>2. QED
        BY <1>2, <2>2, <2>6, <3>1 DEF Commanding
    <2>10. ClockPlace'
      BY <1>1, <2>7, <2>9 DEF ClockPlace
    <2>11. QED
      BY <2>2, <2>3, <2>5, <2>8, <2>10, BecomesKeeps
  <1>7. CASE k = 14
    <2> DEFINE bit == BitOf(b, k \div 2)
               r == PinsSeen(0, bit, 1)
               s == push_bit(r.serial, r.sio)
               w == RunCommand(r, b, now)
    <2>1. k % 2 = 0
      BY <1>7
    <2>2. Transmit(b, k) = Pins(0, bit, 1)
      BY <2>1 DEF Transmit
    <2>3. bit \in {0, 1} /\ rtc.sck = 1 /\ s.counter = 8 /\ s.byte = b
      <3>1. bit \in {0, 1} /\ rtc.sck = 1 /\ (k = 14 => s.counter = 8 /\ s.byte = b)
        BY <1>2, <1>3, <2>1, EdgeFalls
      <3>2. QED
        BY <1>7, <3>1
    <2>4. ClockStep(r, now) /\ got' = got
      BY <1>4, <2>2, <2>3, TouchesPins
    <2>5. r.state = "GetCommandByte" /\ r.status = rtc.status /\ r.cs = 1 /\ r.sck = 0 /\ r \in ClockChips
      BY <1>2, <2>3, PinsSeenIsChip
    <2> HIDE DEF bit, r
    <2>6. ~CommandPanics(b) /\ ~LoadPanics(b, now)
      <3>1. now.year \in 2000..2099
        BY HourIsHour
      <3>2. QED
        BY <1>2, <3>1, CommandOfTransfer DEF LoadPanics, b
    <2>7. RtcBecomes(w)
      <3>1. ~(s.counter < 8)
        BY <2>3
      <3>2. QED
        BY <2>3, <2>4, <2>5, <2>6, <3>1, ClockSteps
    <2>8. place' = 19 /\ rtc' = w /\ gpio' = gpio /\ got' = got
      BY <1>1, <1>3, <1>7, <2>4, <2>7 DEF RtcBecomes
    <2>9. ASSUME w \in ClockChips,
                 StatusKnown' => w.status = status_is,
                 transfer.kind = "reset" => w.state = "Idle",
                 transfer.kind = "set" => Storing',
                 transfer.kind = "read" => Answers'
          PROVE  ClockInv'
      <3>1. ClockPlace'
        BY <1>1, <2>8, <2>9 DEF ClockPlace
      <3>2. QED
        BY <2>4, <2>7, <2>9, <3>1, BecomesKeeps
    <2> DEFINE c == [r EXCEPT !.serial = EmptySerial, !.reg = RegOf(b),
                              !.byte_count = param_count[RegOf(b)], !.byte_index = 0]
    <2>10. w = IF c.byte_count = 0 THEN RtcIdle(store_register(c))
               ELSE IF IsRead(b) THEN [load_register(c, now) EXCEPT !.state = "TxToMaster"]
               ELSE [c EXCEPT !.state = "RxFromMaster"]
      BY Zenon DEF RunCommand
    <2>11. RegOf(b) \in RegisterKind
      BY <2>6 DEF CommandPanics
    <2>12. /\ c \in ClockChips /\ c.status = rtc.status /\ c.reg = RegOf(b) /\ c.sck = 0 /\ c.cs = 1
           /\ c.byte_count = param_count[RegOf(b)] /\ c.byte_index = 0 /\ c.serial = EmptySerial
      <3>1. param_count[RegOf(b)] \in 0..7
        BY <2>11 DEF param_count, RegisterKind, ForceReset, DateTime, ForceIrq, Status, Time, Free
      <3> DEFINE g == RegOf(b)
                 n == param_count[g]
      <3> HIDE DEF g, n
      <3>2. c = [r EXCEPT !.serial = EmptySerial, !.reg = g, !.byte_count = n, !.byte_index = 0]
        BY DEF g, n
      <3>3. g \in RegisterKind /\ n \in 0..7
        BY <2>11, <3>1 DEF g, n
      <3> HIDE DEF c
      <3>4. c \in ClockChips
        BY <2>5, <3>2, <3>3, CommandedChip
      <3>5. /\ c.status = rtc.status /\ c.reg = g /\ c.sck = 0 /\ c.cs = 1
            /\ c.byte_count = n /\ c.byte_index = 0 /\ c.serial = EmptySerial
        BY <2>5, <3>2 DEF ClockChips
      <3>6. QED
        BY <3>4, <3>5 DEF g, n
    <2> HIDE DEF c, w
    <2>13. CASE transfer.kind = "reset"
      <3>1. RegOf(b) = ForceReset /\ c.reg = ForceReset /\ c.byte_count = 0
        BY <1>2, <2>12, <2>13, CommandOfTransfer, ParamCounts DEF b
      <3>2. w = RtcIdle([RtcIdle(c) EXCEPT !.status = StatusWritten(0)])
        <4>1. ForceReset # Status
          BY DEF ForceReset, Status
        <4>2. QED
          BY <2>10, <3>1, <4>1 DEF store_register
      <3>3. w \in ClockChips /\ w.status = StatusWritten(0) /\ w.state = "Idle"
        <4>1. StatusWritten(0) \in 0..255
          BY StatusIsByte, 0 \in 0..255
        <4> DEFINE i == RtcIdle(c)
                   j == [i EXCEPT !.status = StatusWritten(0)]
        <4>2. i \in ClockChips
          BY <2>12, IdleIsChip
        <4> HIDE DEF i
        <4>3. j \in ClockChips /\ j.status = StatusWritten(0)
          BY <4>1, <4>2 DEF ClockChips
        <4> HIDE DEF j
        <4>4. w = RtcIdle(j)
          BY <3>2 DEF i, j
        <4>5. QED
          BY <4>3, <4>4, IdleIsChip
      <3>4. QED
        BY <1>2, <2>9, <2>13, <3>3
    <2>14. CASE transfer.kind = "set"
      <3>1. RegOf(b) = Status /\ c.reg = Status /\ c.byte_count = 1 /\ ~IsRead(b)
        BY <1>2, <2>12, <2>14, CommandOfTransfer, ParamCounts DEF b
      <3>2. w = [c EXCEPT !.state = "RxFromMaster"]
        BY <2>10, <3>1
      <3>3. /\ w \in ClockChips /\ w.state = "RxFromMaster" /\ w.reg = Status /\ w.byte_count = 1
            /\ w.byte_index = 0 /\ w.cs = 1 /\ w.sck = 0 /\ w.serial = EmptySerial
        BY <2>12, <3>1, <3>2 DEF ClockChips, RtcState
      <3>4. TakenIn(w, transfer.value, 0)
        <4>1. transfer.value \in 0..255 /\ 0 \in 0..7
          BY <1>2 DEF Transfers
        <4>2. transfer.value % 2 ^ 0 = 0
          BY <4>1, BitComesIn
        <4>3. QED
          BY <3>3, <4>2 DEF TakenIn, EmptySerial
      <3>5. Storing'
        BY <1>1, <1>2, <2>8, <3>3, <3>4 DEF Storing
      <3>6. ~StatusKnown'
        BY <1>1, <2>8, <2>14 DEF StatusKnown
      <3>7. QED
        BY <2>9, <2>14, <3>3, <3>5, <3>6
    <2>15. CASE transfer.kind = "read"
      <3> DEFINE l == load_register(c, now)
                 n == param_count[transfer.reg]
      <3>1. /\ RegOf(b) = transfer.reg /\ c.reg = transfer.reg /\ c.byte_count = n /\ IsRead(b)
            /\ transfer.reg \in AskedRegisters /\ n # 0 /\ n \in 1..7
        <4>1. transfer.reg \in AskedRegisters
          BY <1>2, <2>15 DEF OfProtocol
        <4>2. n \in 1..7
          BY <4>1, ParamCounts DEF AskedRegisters
        <4>3. QED
          BY <1>2, <2>12, <2>15, <4>1, <4>2, CommandOfTransfer DEF b
      <3>2. w = [l EXCEPT !.state = "TxToMaster"]
        BY <2>10, <3>1
      <3>3. /\ l \in ClockChips /\ Telling(transfer.reg, l.internal, Shown(transfer.reg, now))
            /\ \E internal \in [0..7 -> 0..255] : l = [c EXCEPT !.internal = internal]
        BY <1>2, <2>12, <2>15, <3>1, LoadsRegister
      <3> HIDE DEF l, n
      <3>4. /\ l.sck = 0 /\ l.cs = 1 /\ l.byte_count = n /\ l.byte_index = 0 /\ l.serial = EmptySerial
            /\ l.status = status_is
        BY <1>2, <2>12, <2>15, <3>1, <3>3 DEF ClockChips
      <3>5. /\ w \in ClockChips /\ w.state = "TxToMaster" /\ w.sck = 0 /\ w.cs = 1 /\ w.byte_count = n
            /\ w.byte_index = 0 /\ w.serial = EmptySerial /\ w.status = status_is
            /\ w.internal = l.internal
        BY <3>2, <3>3, <3>4 DEF ClockChips, RtcState
      <3>6. want' = Shown(transfer.reg, now)
        BY <1>1, <1>2, <2>8, <3>5
      <3>7. Answers'
        <4>1. BitsOnPin(19) = 0 /\ BitsGot(19) = 0
          BY DEF BitsOnPin, BitsGot
        <4>2. SentOut(w, 0, n)
          BY <3>1, <3>5 DEF SentOut, EmptySerial
        <4>3. Telling(transfer.reg, w.internal, want')
          BY <3>3, <3>5, <3>6
        <4>4. got' = <<>> /\ Len(got') = 0
          BY <1>2, <2>8, <2>15, EmptyLength
        <4>5. gpio'.out[Sio] /\ \A j \in 1..Len(got') : FALSE
          BY <1>2, <2>8, <4>4
        <4>6. /\ SentOut(rtc', BitsOnPin(place'), param_count[transfer'.reg])
              /\ Telling(transfer'.reg, rtc'.internal, want')
              /\ rtc'.sck = 0 /\ Len(got') = BitsGot(place')
          BY <1>1, <2>8, <3>5, <4>1, <4>2, <4>3, <4>4 DEF n
        <4>7. QED
          BY <2>8, <4>5, <4>6 DEF Answers
      <3>8. QED
        BY <2>9, <2>15, <3>5, <3>7
    <2>16. QED
      BY <2>13, <2>14, <2>15
  <1>8. QED
    BY <1>3, <1>5, <1>6, <1>7

\* The byte for the status register.
LEMMA ReceivesStatus ==
  ASSUME NEW r \in ClockChips, NEW b \in 0..255, r.reg = Status, r.byte_count = 1, r.byte_index = 0
  PROVE  LET s == push_bit(r.serial, r.sio)
             w == ReceiveBit(r)
         IN /\ s.counter < 8 => w = [r EXCEPT !.serial = s]
            /\ s.counter = 8 /\ s.byte = b => /\ w \in ClockChips /\ w.state = "Idle"
                                              /\ w.status = StatusWritten(b)
  <1> DEFINE s == push_bit(r.serial, r.sio)
             w == ReceiveBit(r)
             stored == [r EXCEPT !.serial = EmptySerial, !.internal[r.byte_index] = s.byte,
                                 !.byte_index = r.byte_index + 1]
  <1>1. w = IF s.counter < 8 THEN [r EXCEPT !.serial = s]
            ELSE IF stored.byte_index = r.byte_count
                 THEN [store_register(stored) EXCEPT !.state = "Idle"] ELSE stored
    BY Zenon DEF ReceiveBit
  <1> HIDE DEF s, w
  <1>2. ASSUME s.counter = 8, s.byte = b
        PROVE  w \in ClockChips /\ w.state = "Idle" /\ w.status = StatusWritten(b)
    <2> DEFINE d == [r EXCEPT !.serial = EmptySerial]
               internal == [r.internal EXCEPT ![0] = b]
               e == [d EXCEPT !.internal = internal]
               f == [e EXCEPT !.byte_index = 1]
    <2>1. d \in ClockChips
      BY EmptyIsSerial, ChipFields
    <2>2. internal \in [0..7 -> 0..255] /\ internal[0] = b
      BY ChipFields
    <2>3. stored = f
      BY <1>2 DEF ClockChips
    <2>4. d.reg = Status
      BY DEF ClockChips
    <2> HIDE DEF d, internal, stored
    <2>5. e \in ClockChips /\ e.internal[0] = b /\ e.reg = Status
      BY <2>1, <2>2, <2>4 DEF ClockChips
    <2> HIDE DEF e
    <2>6. f \in ClockChips /\ f.internal[0] = b /\ f.reg = Status /\ f.byte_index = 1
      BY <2>5 DEF ClockChips
    <2> HIDE DEF f
    <2> DEFINE g == [f EXCEPT !.status = StatusWritten(b)]
    <2>7. store_register(f) = g
      BY <2>6 DEF store_register
    <2>8. g \in ClockChips /\ g.status = StatusWritten(b)
      <3>1. StatusWritten(b) \in 0..255
        BY StatusIsByte
      <3>2. QED
        BY <2>6, <3>1 DEF ClockChips
    <2> HIDE DEF g
    <2>9. w = [g EXCEPT !.state = "Idle"]
      <3>1. stored.byte_index = r.byte_count /\ ~(s.counter < 8)
        BY <1>2, <2>3, <2>6
      <3>2. QED
        BY <1>1, <2>3, <2>7, <3>1
    <2>10. QED
      BY <2>8, <2>9 DEF ClockChips, RtcState
  <1>3. QED
    BY <1>1, <1>2 DEF s, w

LEMMA StoreSteps ==
  ASSUME ClockInv, NEW now \in Clocks, TouchPort(now), transfer.kind = "set", place \in 19..34
  PROVE  ClockInv'
  <1> DEFINE j == place - 19
             k == j - 1
             b == transfer.value
  <1>1. /\ place' = place + 1 /\ place \in Nat /\ transfer' = transfer /\ status_is' = status_is
    BY TouchesPort
  <1>2. /\ rtc \in ClockChips /\ transfer \in Transfers
        /\ rtc.state = "RxFromMaster" /\ gpio.out[Sio] /\ rtc.reg = Status
        /\ rtc.byte_count = 1 /\ rtc.byte_index = 0 /\ TakenIn(rtc, b, j)
        /\ status_is = StatusWritten(b)
    BY DEF ClockInv, ClockTypes, ClockPlace, Storing
  <1>3. b \in 0..255 /\ j \in 0..15
    BY <1>2 DEF Transfers
  <1>4. /\ j = 0 => StepOf(transfer, place) = Transmit(transfer.command, 15)
        /\ j > 0 => StepOf(transfer, place) = Transmit(b, k)
    <2>1. place = 19 => StepOf(transfer, place) = Transmit(transfer.command, 15)
      <3>1. place = 19 => place \in 4..19 /\ place - 4 = 15
        OBVIOUS
      <3>2. place \in 4..19 => StepOf(transfer, place) = Transmit(transfer.command, place - 4)
        BY <1>1, StepsAtPlaces
      <3>3. QED
        BY <3>1, <3>2
    <2>2. place > 19 => StepOf(transfer, place) = Transmit(b, place - 20)
      BY <1>1, StepsAtPlaces
    <2>3. place - 20 = k /\ (j = 0 <=> place = 19) /\ (j > 0 <=> place > 19)
      BY <1>1
    <2>4. QED
      BY <2>1, <2>2, <2>3
  <1>5. place' - 19 = j + 1 /\ (j = 15 <=> place = 34) /\ (j < 15 => place # 34)
    BY <1>1
  <1> HIDE DEF j, b
  <1>6. ASSUME j < 15, NEW w \in ClockChips, RtcBecomes(w), got' = got, TakenIn(w, b, j + 1),
               w.state = "RxFromMaster", w.reg = Status, w.byte_count = 1, w.byte_index = 0,
               w.status = rtc.status
        PROVE  ClockInv'
    <2>1. StatusKnown' => w.status = status_is
      BY <1>5, <1>6, StatusKept
    <2>2. Storing'
      BY <1>1, <1>2, <1>5, <1>6 DEF Storing, RtcBecomes, b
    <2>3. ClockPlace'
      BY <1>1, <1>5, <1>6, <2>2 DEF ClockPlace
    <2>4. QED
      BY <1>6, <2>1, <2>3, BecomesKeeps
  <1>7. CASE j % 2 = 0
    <2> DEFINE r == PinsSeen(1, 0, 1)
    <2>1. StepOf(transfer, place) = Pins(1, 0, 1)
      <3>1. 15 % 2 = 1 /\ (j > 0 => k % 2 = 1)
        BY <1>3, <1>7
      <3>2. QED
        BY <1>3, <1>4, <3>1 DEF Transmit
    <2>2. ClockStep(r, now) /\ got' = got
      BY <2>1, TouchesPins
    <2>3. j \in 0..14 /\ j < 15
      BY <1>3, <1>7
    <2>4. rtc.sck = 0 /\ r \in ClockChips /\ TakenIn(r, b, j + 1)
      BY <1>2, <1>3, <1>7, <2>3, EdgeRises
    <2>5. /\ r.state = "RxFromMaster" /\ r.reg = Status /\ r.byte_count = 1 /\ r.byte_index = 0
          /\ r.status = rtc.status /\ r.cs = 1
      BY <1>2, PinsSeenIsChip
    <2> HIDE DEF r
    <2>6. RtcBecomes(r)
      <3>1. ~Resting(r) /\ ~(rtc.sck = 1 /\ r.sck = 0)
        BY <2>4, <2>5 DEF Resting
      <3>2. QED
        BY <2>2, <2>5, <3>1, ClockSteps, Zenon
    <2>7. QED
      BY <1>6, <2>2, <2>3, <2>4, <2>5, <2>6
  <1>8. CASE j % 2 = 1
    <2> DEFINE bit == BitOf(b, k \div 2)
               r == PinsSeen(0, bit, 1)
               s == push_bit(r.serial, r.sio)
               w == ReceiveBit(r)
    <2>1. k \in 0..14 /\ k % 2 = 0 /\ k + 1 = j /\ j > 0 /\ k + 2 = j + 1 /\ (k = 14 <=> j = 15)
          /\ (k < 14 <=> j < 15)
      BY <1>3, <1>8
    <2> HIDE DEF k
    <2>2. StepOf(transfer, place) = Pins(0, bit, 1)
      BY <1>4, <2>1 DEF Transmit
    <2>3. /\ bit \in {0, 1} /\ rtc.sck = 1
          /\ k < 14 => s.counter < 8 /\ [r EXCEPT !.serial = s] \in ClockChips
                       /\ TakenIn([r EXCEPT !.serial = s], b, k + 2)
          /\ k = 14 => s.counter = 8 /\ s.byte = b
      BY <1>2, <1>3, <2>1, EdgeFalls
    <2>4. ClockStep(r, now) /\ got' = got
      BY <2>2, <2>3, TouchesPins
    <2>5. /\ r.state = "RxFromMaster" /\ r.reg = Status /\ r.byte_count = 1 /\ r.byte_index = 0
          /\ r.status = rtc.status /\ r.cs = 1 /\ r.sck = 0 /\ r \in ClockChips
      BY <1>2, <2>3, PinsSeenIsChip
    <2> HIDE DEF bit, r
    <2>6. RtcBecomes(w)
      BY <1>2, <2>3, <2>4, <2>5, ClockSteps
    <2>7. /\ s.counter < 8 => w = [r EXCEPT !.serial = s]
          /\ s.counter = 8 /\ s.byte = b => /\ w \in ClockChips /\ w.state = "Idle"
                                            /\ w.status = StatusWritten(b)
      BY <1>3, <2>5, ReceivesStatus
    <2> HIDE DEF s, w
    <2>8. CASE j < 15
      <3>1. w = [r EXCEPT !.serial = s] /\ w \in ClockChips /\ TakenIn(w, b, j + 1)
        BY <2>1, <2>3, <2>7, <2>8
      <3>2. /\ w.state = "RxFromMaster" /\ w.reg = Status /\ w.byte_count = 1 /\ w.byte_index = 0
            /\ w.status = rtc.status
        BY <2>5, <3>1 DEF ClockChips
      <3>3. QED
        BY <1>6, <2>4, <2>6, <2>8, <3>1, <3>2
    <2>9. CASE j = 15
      <3>1. w \in ClockChips /\ w.state = "Idle" /\ w.status = status_is
        BY <1>2, <2>1, <2>3, <2>7, <2>9
      <3>2. place' = 35 /\ rtc' = w
        BY <1>1, <1>5, <2>6, <2>9 DEF RtcBecomes
      <3>3. ClockPlace'
        BY <1>1, <3>1, <3>2 DEF ClockPlace
      <3>4. QED
        BY <2>4, <2>6, <3>1, <3>3, BecomesKeeps
    <2>10. QED
      BY <1>3, <2>8, <2>9
  <1>9. QED
    BY <1>3, <1>7, <1>8

\* The last edge of a transfer that is done, and the end of one that is broken off.
LEMMA TailSteps ==
  ASSUME ClockInv, NEW now, TouchPort(now),
         \/ transfer.kind = "reset" /\ place = 19
         \/ transfer.kind = "set" /\ place = 35
  PROVE  ClockInv'
  <1> DEFINE r == PinsSeen(1, 0, 1)
  <1>1. place' = place + 1 /\ transfer' = transfer
    BY TouchesPort
  <1>2. rtc \in ClockChips /\ rtc.state = "Idle"
    BY DEF ClockInv, ClockTypes, ClockPlace
  <1>3. StepOf(transfer, place) = Pins(1, 0, 1)
    <2>1. CASE place = 19
      <3>1. place \in 4..19 /\ place - 4 = 15 /\ 15 % 2 = 1 /\ place \in Nat
        BY <2>1
      <3>2. StepOf(transfer, place) = Transmit(transfer.command, place - 4)
        BY <3>1, StepsAtPlaces
      <3>3. QED
        BY <3>1, <3>2 DEF Transmit
    <2>2. CASE place = 35
      <3>1. place > 19 /\ place - 20 = 15 /\ 15 % 2 = 1 /\ place \in Nat /\ transfer.kind = "set"
        BY <2>2
      <3>2. StepOf(transfer, place) = Transmit(transfer.value, place - 20)
        BY <3>1, StepsAtPlaces
      <3>3. QED
        BY <3>1, <3>2 DEF Transmit
    <2>3. QED
      BY <2>1, <2>2
  <1>4. ClockStep(r, now) /\ got' = got
    BY <1>3, TouchesPins
  <1>5. r \in ClockChips /\ r.state = "Idle" /\ r.cs = 1 /\ r.status = rtc.status
    BY <1>2, PinsSeenIsChip
  <1> HIDE DEF r
  <1>6. RtcBecomes(r)
    <2>1. ~(r.sck = 1 /\ r.cs = 0)
      BY <1>5
    <2>2. QED
      BY <1>4, <1>5, <2>1, ClockSteps, Zenon
  <1>7. StatusKnown' => r.status = status_is
    BY <1>5, StatusKept
  <1>8. ClockPlace'
    BY <1>1, <1>5, <1>6 DEF ClockPlace, RtcBecomes
  <1>9. QED
    BY <1>4, <1>5, <1>6, <1>7, <1>8, BecomesKeeps

LEMMA EndSteps ==
  ASSUME ClockInv, NEW now, TouchPort(now), transfer.kind = "end"
  PROVE  ClockInv'
  <1> DEFINE r == PinsSeen(1, 0, 0)
             w == [r EXCEPT !.state = "WaitForChipSelectHigh"]
             i == RtcIdle(r)
  <1>1. place' = place + 1 /\ transfer' = transfer
    BY TouchesPort
  <1>2. rtc \in ClockChips
    BY DEF ClockInv, ClockTypes
  <1>3. StepOf(transfer, place) = Pins(1, 0, 0)
    BY DEF StepOf, EndTransfer
  <1>4. ClockStep(r, now) /\ got' = got
    BY <1>3, TouchesPins
  <1>5. r \in ClockChips /\ r.sck = 1 /\ r.cs = 0 /\ r.status = rtc.status
    BY <1>2, PinsSeenIsChip
  <1> HIDE DEF r
  <1>6. StatusKnown' => rtc.status = status_is
    BY StatusKept
  <1>7. ASSUME NEW x \in ClockChips, RtcBecomes(x), x.status = rtc.status,
               x.state \in {"Idle", "WaitForChipSelectHigh"}
        PROVE  ClockInv'
    <2>1. ClockPlace'
      BY <1>1, <1>7 DEF ClockPlace, RtcBecomes, Resting
    <2>2. QED
      BY <1>4, <1>6, <1>7, <2>1, BecomesKeeps
  <1>8. CASE r.state = "Idle"
    <2>1. RtcBecomes(w)
      BY <1>4, <1>5, <1>8, ClockSteps
    <2>2. w \in ClockChips /\ w.status = rtc.status /\ w.state = "WaitForChipSelectHigh"
      BY <1>5 DEF ClockChips, RtcState
    <2>3. QED
      BY <1>7, <2>1, <2>2
  <1>9. CASE r.state = "WaitForChipSelectHigh"
    <2>1. ~(r.sck = 1 /\ r.cs = 1)
      BY <1>5
    <2>2. RtcBecomes(r)
      BY <1>4, <1>9, <2>1, ClockSteps, Zenon
    <2>3. QED
      BY <1>5, <1>7, <1>9, <2>2
  <1>10. CASE ~Resting(r)
    <2>1. RtcBecomes(i)
      BY <1>4, <1>5, <1>10, ClockSteps, Zenon
    <2>2. i \in ClockChips /\ i.status = rtc.status /\ i.state = "Idle"
      BY <1>5, IdleIsChip
    <2>3. QED
      BY <1>7, <2>1, <2>2
  <1>11. QED
    BY <1>8, <1>9, <1>10 DEF Resting

\* A falling edge puts the next bit on the pin.
LEMMA SendsNextBit ==
  ASSUME NEW r \in ClockChips, NEW m \in Nat, NEW n \in 1..7, m < 8 * n, SentOut(r, m, n)
  PROVE  LET w == SendBit(r)
         IN /\ w \in ClockChips /\ SentOut(w, m + 1, n) /\ w.sio = BitSent(r, m)
            /\ w.internal = r.internal /\ w.sck = r.sck /\ w.status = r.status
  <1> DEFINE q == m \div 8
             c == m % 8
             byte == r.internal[q]
             refill == r.serial.counter = 0
             s == IF refill THEN [byte |-> r.internal[r.byte_index], counter |-> 8] ELSE r.serial
             index == IF refill THEN r.byte_index + 1 ELSE r.byte_index
             sent == [r EXCEPT !.sio = s.byte % 2, !.serial = popped(s), !.byte_index = index]
             w == SendBit(r)
  <1>1. /\ q \in 0..6 /\ q < n /\ c \in 0..7 /\ m = 8 * q + c
        /\ (m + 7) \div 8 = (IF c = 0 THEN q ELSE q + 1)
        /\ (m + 1) + 7 = m + 8 /\ (m + 8) \div 8 = q + 1 /\ m # 8 * n
        /\ (m + 1) % 8 = (IF c = 7 THEN 0 ELSE c + 1)
        /\ (c < 7 => (m + 1) \div 8 = q)
        /\ (m + 1 = 8 * n <=> c = 7 /\ q + 1 = n)
    OBVIOUS
  <1>2. /\ r.state = "TxToMaster" /\ r.cs = 1 /\ r.byte_count = n
        /\ r.byte_index = (m + 7) \div 8 /\ r.serial.counter = (8 - c) % 8
        /\ c # 0 => r.serial.byte = byte \div 2 ^ c
    BY <1>1 DEF SentOut
  <1>3. w = IF sent.serial.counter = 0 /\ sent.byte_index = r.byte_count THEN RtcIdle(sent) ELSE sent
    BY DEF SendBit, ClockChips
  <1>4. byte \in 0..255
    <2>1. r.internal \in [0..7 -> 0..255]
      BY ChipFields
    <2>2. q \in 0..7
      BY <1>1
    <2> HIDE DEF q
    <2>3. QED
      BY <2>1, <2>2
  <1>5. /\ (byte \div 2 ^ c) % 2 = BitOf(byte, c) /\ (byte \div 2 ^ c) \div 2 = byte \div 2 ^ (c + 1)
        /\ byte \div 2 ^ c \in 0..255 /\ byte \div 2 ^ 0 = byte
    BY <1>1, <1>4, BitGoesOut
  <1>6. BitSent(r, m) = BitOf(byte, c)
    BY DEF BitSent
  <1> HIDE DEF q, c, byte, refill
  <1>7. (refill <=> c = 0) /\ s.counter = 8 - c /\ index = q + 1 /\ s.byte = byte \div 2 ^ c
    <2>1. CASE c = 0
      <3>1. refill /\ r.byte_index = q
        BY <1>1, <1>2, <2>1 DEF refill
      <3>2. QED
        BY <1>5, <2>1, <3>1 DEF byte
    <2>2. CASE c # 0
      <3>1. ~refill /\ r.byte_index = q + 1 /\ r.serial.counter = 8 - c
        BY <1>1, <1>2, <2>2 DEF refill
      <3>2. QED
        BY <1>2, <2>2, <3>1
    <2>3. QED
      BY <2>1, <2>2
  <1> HIDE DEF s, index
  <1>8. BitOf(byte, c) \in {0, 1} /\ byte \div 2 ^ (c + 1) \in 0..255
    <2>1. byte \in Nat
      BY <1>4
    <2>2. BitOf(byte, c) \in {0, 1}
      BY <1>1, <2>1, BitIsBit
    <2>3. \A x \in 0..255 : x \div 2 \in 0..255
      OBVIOUS
    <2>4. QED
      BY <1>5, <2>2, <2>3
  <1> DEFINE p == [byte |-> byte \div 2 ^ (c + 1), counter |-> 7 - c]
  <1>9. s.byte % 2 = BitOf(byte, c) /\ popped(s) = p
    <2>1. (8 - c) - 1 = 7 - c
      BY <1>1
    <2>2. QED
      BY <1>5, <1>7, <2>1 DEF popped
  <1>10. p \in [byte : 0..255, counter : 0..8] /\ p.counter = 7 - c /\ p.byte = byte \div 2 ^ (c + 1)
    BY <1>1, <1>8
  <1> HIDE DEF p
  <1>11. sent \in ClockChips
    <2> DEFINE d == [r EXCEPT !.serial = p]
               e == [d EXCEPT !.sio = BitOf(byte, c)]
               f == [e EXCEPT !.byte_index = q + 1]
    <2>1. d \in ClockChips
      BY <1>10, ChipFields
    <2>2. sent = f
      BY <1>7, <1>9 DEF ClockChips
    <2> HIDE DEF d, sent
    <2>3. e \in ClockChips
      BY <1>8, <2>1 DEF ClockChips
    <2> HIDE DEF e
    <2>4. q + 1 \in 0..7
      BY <1>1
    <2>5. f \in ClockChips
      BY <2>3, <2>4 DEF ClockChips
    <2>6. QED
      BY <2>2, <2>5
  <1>12. /\ sent.state = "TxToMaster" /\ sent.cs = 1 /\ sent.byte_count = n /\ sent.byte_index = q + 1
         /\ sent.serial = p /\ sent.sio = BitOf(byte, c) /\ sent.internal = r.internal
         /\ sent.sck = r.sck /\ sent.status = r.status
    BY <1>2, <1>7, <1>9 DEF ClockChips
  <1> HIDE DEF sent, w
  <1>13. CASE c = 7 /\ q + 1 = n
    <2>1. sent.serial.counter = 0 /\ sent.byte_index = r.byte_count
      BY <1>2, <1>10, <1>12, <1>13
    <2>2. w = RtcIdle(sent)
      BY <1>3, <2>1
    <2>3. SentOut(w, m + 1, n)
      BY <1>1, <1>11, <1>13, <2>2, IdleIsChip DEF SentOut
    <2>4. QED
      BY <1>6, <1>11, <1>12, <2>2, <2>3, IdleIsChip DEF w
  <1>14. CASE ~(c = 7 /\ q + 1 = n)
    <2>1. ~(sent.serial.counter = 0 /\ sent.byte_index = r.byte_count)
      BY <1>1, <1>2, <1>10, <1>12, <1>14
    <2>2. w = sent
      BY <1>3, <2>1
    <2>3. m + 1 # 8 * n /\ (8 - ((m + 1) % 8)) % 8 = 7 - c
      BY <1>1, <1>14
    <2>4. (m + 1) % 8 # 0 => /\ sent.internal[(m + 1) \div 8] = byte /\ (m + 1) % 8 = c + 1
      BY <1>1, <1>12 DEF byte
    <2>5. (m + 1) % 8 # 0 => sent.serial.byte = sent.internal[(m + 1) \div 8] \div 2 ^ ((m + 1) % 8)
      BY <1>10, <1>12, <2>4
    <2>6. sent.byte_index = ((m + 1) + 7) \div 8 /\ sent.serial.counter = (8 - ((m + 1) % 8)) % 8
      BY <1>1, <1>10, <1>12, <2>3
    <2>7. SentOut(w, m + 1, n)
      BY <1>12, <2>2, <2>3, <2>5, <2>6 DEF SentOut
    <2>8. QED
      BY <1>6, <1>11, <1>12, <2>2, <2>7 DEF w
  <1>15. QED
    BY <1>13, <1>14

\* Which bit is on the pin and how many the game has read, by the place.
LEMMA BitPlaces ==
  ASSUME NEW p \in Nat, p > 20
  PROVE  /\ BitsOnPin(p) \in Nat /\ BitsGot(p) \in Nat /\ BitsOnPin(p) = (p - 19) \div 3
         /\ p % 3 = 0 => /\ (p - 21) % 3 = 0 /\ (p + 1) % 3 = 1 /\ BitsOnPin(p + 1) = BitsOnPin(p) + 1
                         /\ BitsGot(p) = BitsOnPin(p) /\ BitsGot(p + 1) = BitsOnPin(p)
         /\ p % 3 = 1 => /\ (p - 21) % 3 = 1 /\ (p + 1) % 3 = 2 /\ BitsOnPin(p + 1) = BitsOnPin(p)
                         /\ BitsGot(p) = BitsOnPin(p) - 1 /\ BitsGot(p + 1) = BitsOnPin(p)
         /\ p % 3 = 2 => /\ (p - 21) % 3 = 2 /\ (p + 1) % 3 = 0 /\ BitsOnPin(p + 1) = BitsOnPin(p)
                         /\ BitsGot(p) = BitsOnPin(p) /\ BitsGot(p + 1) = BitsOnPin(p)
  <1>1. /\ BitsOnPin(p) = (p - 19) \div 3 /\ BitsGot(p) = (p - 20) \div 3
        /\ BitsOnPin(p + 1) = (p - 18) \div 3 /\ BitsGot(p + 1) = (p - 19) \div 3
    BY DEF BitsOnPin, BitsGot
  <1>2. PICK a \in Nat : p \in {3 * a, 3 * a + 1, 3 * a + 2} /\ a >= 7
    <2>1. p = 3 * (p \div 3) + (p % 3) /\ p % 3 \in 0..2 /\ p \div 3 \in Nat /\ p \div 3 >= 7
      OBVIOUS
    <2>2. QED
      BY <2>1
  <1>3. CASE p = 3 * a
    BY <1>1, <1>2, <1>3
  <1>4. CASE p = 3 * a + 1
    BY <1>1, <1>2, <1>4
  <1>5. CASE p = 3 * a + 2
    BY <1>1, <1>2, <1>5
  <1>6. QED
    BY <1>2, <1>3, <1>4, <1>5

LEMMA AnswerSteps ==
  ASSUME ClockInv, NEW now, TouchPort(now), transfer.kind = "read", place > 18
  PROVE  ClockInv'
  <1> DEFINE n == param_count[transfer.reg]
             m == BitsOnPin(place)
  <1>1. /\ place' = place + 1 /\ place \in Nat /\ transfer' = transfer /\ place < Steps(transfer)
        /\ want' = IF rtc'.state = "TxToMaster" /\ rtc.state = "GetCommandByte"
                   THEN Shown(transfer.reg, now) ELSE want
    BY TouchesPort
  <1>2. /\ rtc \in ClockChips /\ gpio \in Ports /\ gpio.out[Sck] /\ gpio.out[Cs]
        /\ transfer \in Transfers /\ got \in Seq({0, 1}) /\ ~rtc_panicked /\ rtc.status = status_is
    BY DEF ClockInv, ClockTypes, StatusKnown
  <1>3. /\ SentOut(rtc, m, n) /\ Telling(transfer.reg, rtc.internal, want)
        /\ rtc.sck = (IF place = 19 \/ (place > 20 /\ place % 3 # 0) THEN 0 ELSE 1)
        /\ gpio.out[Sio] <=> place < 21
    BY DEF ClockInv, ClockPlace, Answers
  <1>4. /\ place > 21 /\ place % 3 # 0 => rtc.sio = BitSent(rtc, m - 1)
        /\ Len(got) = BitsGot(place)
        /\ \A j \in 1..Len(got) : got[j] = BitSent(rtc, j - 1)
    BY DEF ClockInv, ClockPlace, Answers
  <1>5. n \in 1..7 /\ Steps(transfer) = 21 + 24 * n
    <2>1. transfer.reg \in AskedRegisters
      BY DEF ClockInv, OfProtocol
    <2>2. QED
      BY <1>2, <2>1, ParamCounts, StepsOfTransfer DEF AskedRegisters
  <1> HIDE DEF n, m
  <1>6. rtc.state \in {"Idle", "TxToMaster"}
    BY <1>3 DEF SentOut
  <1>7. want' = want
    BY <1>1, <1>6
  <1>8. ASSUME rtc' \in ClockChips, gpio' \in Ports, gpio'.out[Sck], gpio'.out[Cs], ~rtc_panicked',
               got' \in Seq({0, 1}), rtc'.status = rtc.status, Answers'
        PROVE  ClockInv'
    <2>1. ClockPlace'
      BY <1>1, <1>8 DEF ClockPlace
    <2>2. QED
      BY <1>1, <1>2, <1>8, <2>1, StepKeeps
  <1>9. ASSUME NEW r \in ClockChips, RtcBecomes(r), got' = got, r.status = rtc.status, Answers'
        PROVE  ClockInv'
    BY <1>2, <1>8, <1>9 DEF RtcBecomes
  \* A rising edge leaves everything but the clock pin.
  <1>10. ASSUME StepOf(transfer, place) = Pins(1, 0, 1), rtc.sck = 0,
                BitsOnPin(place') = m, BitsGot(place') = BitsGot(place),
                place' < 21 <=> place < 21,
                place' = 20 \/ place' % 3 = 0
         PROVE  ClockInv'
    <2> DEFINE r == PinsSeen(1, 0, 1)
    <2>1. ClockStep(r, now) /\ got' = got
      BY <1>10, TouchesPins
    <2>2. /\ r \in ClockChips /\ r.state = rtc.state /\ r.sck = 1 /\ r.cs = 1
          /\ r.serial = rtc.serial /\ r.internal = rtc.internal
          /\ r.byte_count = rtc.byte_count /\ r.byte_index = rtc.byte_index /\ r.status = rtc.status
      BY <1>2, PinsSeenIsChip
    <2> HIDE DEF r
    <2>3. RtcBecomes(r)
      <3>1. CASE r.state = "Idle"
        <4>1. ~(r.sck = 1 /\ r.cs = 0)
          BY <2>2
        <4>2. QED
          BY <2>1, <3>1, <4>1, ClockSteps, Zenon
      <3>2. CASE r.state = "TxToMaster"
        <4>1. ~Resting(r) /\ ~(rtc.sck = 1 /\ r.sck = 0)
          BY <2>2, <3>2 DEF Resting
        <4>2. QED
          BY <2>1, <2>2, <4>1, ClockSteps, Zenon
      <3>3. QED
        BY <1>6, <2>2, <3>1, <3>2
    <2>4. rtc' = r /\ gpio' = gpio
      BY <2>3 DEF RtcBecomes
    <2>5. SentOut(r, m, n)
      BY <1>3, <2>2 DEF SentOut
    <2>6. \A j \in Int : BitSent(r, j) = BitSent(rtc, j)
      BY <2>2 DEF BitSent
    <2>7. \A j \in 1..Len(got) : got[j] = BitSent(r, j - 1)
      <3>1. Len(got) \in Nat
        BY <1>2
      <3>2. QED
        BY <1>4, <2>6, <3>1
    <2>8. ~(place' = 19 \/ (place' > 20 /\ place' % 3 # 0)) /\ ~(place' > 21 /\ place' % 3 # 0)
      BY <1>10
    <2>9. Answers'
      <3>1. /\ SentOut(rtc', BitsOnPin(place'), param_count[transfer'.reg])
            /\ Telling(transfer'.reg, rtc'.internal, want')
        BY <1>1, <1>3, <1>7, <1>10, <2>2, <2>4, <2>5 DEF n
      <3>2. /\ rtc'.sck = 1 /\ (gpio'.out[Sio] <=> place' < 21)
            /\ Len(got') = BitsGot(place')
            /\ \A j \in 1..Len(got') : got'[j] = BitSent(rtc', j - 1)
        BY <1>3, <1>4, <1>10, <2>1, <2>2, <2>4, <2>7
      <3>3. QED
        BY <2>8, <3>1, <3>2 DEF Answers
    <2>10. QED
      BY <1>9, <2>1, <2>2, <2>3, <2>9
  <1>11. CASE place = 19
    <2>1. place \in 4..19 /\ place - 4 = 15 /\ 15 % 2 = 1 /\ transfer.kind \in {"reset", "set", "read"}
      BY <1>11
    <2>2. StepOf(transfer, place) = Transmit(transfer.command, place - 4)
      BY <1>1, <2>1, StepsAtPlaces
    <2>3. StepOf(transfer, place) = Pins(1, 0, 1)
      BY <2>1, <2>2 DEF Transmit
    <2>4. BitsOnPin(place') = m /\ BitsGot(place') = BitsGot(place)
      BY <1>1, <1>11 DEF m, BitsOnPin, BitsGot
    <2>5. rtc.sck = 0 /\ (place' < 21 <=> place < 21) /\ place' = 20
      BY <1>1, <1>3, <1>11
    <2>6. QED
      BY <1>10, <2>3, <2>4, <2>5
  <1>12. CASE place = 20
    <2>1. StepOf(transfer, place) = <<"direction", 5>>
      BY <1>1, <1>12, StepsAtPlaces
    <2>2. /\ gpio' \in Ports /\ gpio'.out[Sck] /\ gpio'.out[Cs] /\ ~gpio'.out[Sio]
          /\ UNCHANGED <<rtc, rtc_panicked, got>>
      BY <2>1, TouchesDirection
    <2>3. BitsOnPin(place') = m /\ BitsGot(place') = BitsGot(place)
      BY <1>1, <1>12 DEF m, BitsOnPin, BitsGot
    <2>4. place' = 21 /\ 21 % 3 = 0
      BY <1>1, <1>12
    <2>5. Answers'
      <3>1. /\ SentOut(rtc', BitsOnPin(place'), param_count[transfer'.reg])
            /\ Telling(transfer'.reg, rtc'.internal, want')
        BY <1>1, <1>3, <1>7, <2>2, <2>3 DEF n
      <3>2. /\ rtc'.sck = 1 /\ ~gpio'.out[Sio] /\ Len(got') = BitsGot(place')
            /\ \A j \in 1..Len(got') : got'[j] = BitSent(rtc', j - 1)
        BY <1>3, <1>4, <1>12, <2>2, <2>3 DEF BitSent
      <3>3. QED
        BY <2>4, <3>1, <3>2 DEF Answers
    <2>6. QED
      BY <1>2, <1>8, <2>2, <2>5
  <1>13. CASE place > 20
    <2>1. StepOf(transfer, place) = Receive(place - 21)
      BY <1>1, <1>13, StepsAtPlaces
    <2>2. m \in Nat /\ m = (place - 19) \div 3 /\ place' > 20
      BY <1>1, <1>13, BitPlaces DEF m
    <2>3. CASE place % 3 = 0
      <3> DEFINE r == PinsSeen(0, 0, 1)
                 w == SendBit(r)
      <3>1. /\ (place - 21) % 3 = 0 /\ place' % 3 = 1 /\ BitsOnPin(place') = m + 1
            /\ BitsGot(place) = m /\ BitsGot(place') = m
        BY <1>1, <1>13, <2>3, BitPlaces DEF m
      <3>2. StepOf(transfer, place) = Pins(0, 0, 1)
        BY <2>1, <3>1 DEF Receive
      <3>3. ClockStep(r, now) /\ got' = got
        BY <3>2, TouchesPins
      <3>4. m < 8 * n
        BY <1>1, <1>5, <2>2, <2>3
      <3>5. rtc.state = "TxToMaster" /\ rtc.cs = 1 /\ rtc.sck = 1 /\ ~gpio.out[Sio]
        <4>1. m # 8 * n /\ ~(place = 19 \/ (place > 20 /\ place % 3 # 0)) /\ ~(place < 21)
          BY <1>1, <1>5, <1>13, <2>2, <2>3, <3>4
        <4>2. rtc.state = "TxToMaster" /\ rtc.cs = 1
          BY <1>3, <4>1 DEF SentOut
        <4>3. QED
          BY <1>3, <4>1, <4>2
      <3>6. /\ r \in ClockChips /\ r.state = rtc.state /\ r.sck = 0 /\ r.cs = 1
            /\ r.serial = rtc.serial /\ r.internal = rtc.internal
            /\ r.byte_count = rtc.byte_count /\ r.byte_index = rtc.byte_index /\ r.status = rtc.status
        BY <1>2, PinsSeenIsChip
      <3> HIDE DEF r
      <3>7. RtcBecomes(w)
        BY <3>3, <3>5, <3>6, ClockSteps
      <3>8. SentOut(r, m, n)
        BY <1>3, <3>6 DEF SentOut
      <3>9. /\ w \in ClockChips /\ SentOut(w, m + 1, n) /\ w.sio = BitSent(r, m)
            /\ w.internal = r.internal /\ w.sck = 0 /\ w.status = rtc.status
        BY <1>5, <2>2, <3>4, <3>6, <3>8, SendsNextBit
      <3> HIDE DEF w
      <3>10. \A j \in Int : BitSent(w, j) = BitSent(rtc, j) /\ BitSent(r, j) = BitSent(rtc, j)
        BY <3>6, <3>9 DEF BitSent
      <3>11. rtc' = w /\ gpio' = gpio
        BY <3>7 DEF RtcBecomes
      <3>12. Answers'
        <4>1. /\ SentOut(rtc', BitsOnPin(place'), param_count[transfer'.reg])
              /\ Telling(transfer'.reg, rtc'.internal, want')
          BY <1>1, <1>3, <1>7, <3>1, <3>6, <3>9, <3>11 DEF n
        <4>2. rtc'.sck = 0 /\ ~gpio'.out[Sio] /\ Len(got') = BitsGot(place')
          BY <1>4, <3>1, <3>3, <3>5, <3>9, <3>11
        <4>3. rtc'.sio = BitSent(rtc', BitsOnPin(place') - 1)
          <5>1. (m + 1) - 1 = m /\ m \in Int
            BY <2>2
          <5>2. QED
            BY <3>1, <3>9, <3>10, <3>11, <5>1
        <4>4. \A j \in 1..Len(got') : got'[j] = BitSent(rtc', j - 1)
          <5>1. Len(got) \in Nat
            BY <1>2
          <5>2. QED
            BY <1>4, <3>3, <3>10, <3>11, <5>1
        <4>5. place' > 20 /\ place' % 3 # 0 /\ ~(place' < 21)
          BY <1>1, <1>13, <2>2, <3>1
        <4>6. QED
          BY <4>1, <4>2, <4>3, <4>4, <4>5 DEF Answers
      <3>13. QED
        BY <1>9, <3>3, <3>7, <3>9, <3>12
    <2>4. CASE place % 3 = 1
      <3>1. /\ (place - 21) % 3 = 1 /\ place' % 3 = 2 /\ BitsOnPin(place') = m
            /\ BitsGot(place) = m - 1 /\ BitsGot(place') = m
        BY <1>1, <1>13, <2>4, BitPlaces DEF m
      <3>2. StepOf(transfer, place) = ReadPin
        BY <2>1, <3>1 DEF Receive
      <3>3. UNCHANGED <<gpio, rtc, rtc_panicked>> /\ got' = Append(got, rtc.sio)
        BY <3>2, TouchesToRead
      <3>4. rtc.sio = BitSent(rtc, m - 1) /\ rtc.sio \in {0, 1} /\ rtc.sck = 0 /\ ~gpio.out[Sio]
        <4>1. place > 21 /\ place % 3 # 0 /\ ~(place < 21)
          BY <1>1, <1>13, <2>4
        <4>2. rtc.sio = BitSent(rtc, m - 1) /\ rtc.sio \in {0, 1}
          BY <1>2, <1>4, <4>1, ChipFields
        <4>3. rtc.sck = 0 /\ ~gpio.out[Sio]
          BY <1>3, <1>13, <4>1
        <4>4. QED
          BY <4>2, <4>3
      <3>5. Len(got) = m - 1
        BY <1>4, <3>1
      <3>6. /\ got' \in Seq({0, 1}) /\ Len(got') = m /\ got'[m] = rtc.sio
            /\ \A j \in 1..(m - 1) : got'[j] = got[j]
        BY <1>2, <2>2, <3>3, <3>4, <3>5
      <3>7. \A j \in 1..Len(got') : got'[j] = BitSent(rtc', j - 1)
        <4>1. \A j \in 1..m : j = m \/ j \in 1..(m - 1)
          BY <2>2
        <4>2. \A j \in 1..(m - 1) : got'[j] = BitSent(rtc, j - 1)
          BY <1>4, <3>5, <3>6
        <4>3. QED
          BY <3>3, <3>4, <3>6, <4>1, <4>2
      <3>8. Answers'
        <4>1. /\ SentOut(rtc', BitsOnPin(place'), param_count[transfer'.reg])
              /\ Telling(transfer'.reg, rtc'.internal, want')
          BY <1>1, <1>3, <1>7, <3>1, <3>3 DEF n
        <4>2. /\ rtc'.sck = 0 /\ ~gpio'.out[Sio] /\ Len(got') = BitsGot(place')
              /\ rtc'.sio = BitSent(rtc', BitsOnPin(place') - 1)
          BY <3>1, <3>3, <3>4, <3>6
        <4>3. place' > 20 /\ place' % 3 # 0 /\ ~(place' < 21)
          BY <1>1, <1>13, <2>2, <3>1
        <4>4. QED
          BY <3>7, <4>1, <4>2, <4>3 DEF Answers
      <3>9. QED
        BY <1>2, <1>8, <3>3, <3>6, <3>8
    <2>5. CASE place % 3 = 2
      <3>1. /\ (place - 21) % 3 = 2 /\ place' % 3 = 0 /\ BitsOnPin(place') = m
            /\ BitsGot(place') = BitsGot(place)
        BY <1>1, <1>13, <2>5, BitPlaces DEF m
      <3>2. StepOf(transfer, place) = Pins(1, 0, 1)
        BY <2>1, <3>1 DEF Receive
      <3>3. rtc.sck = 0 /\ (place' < 21 <=> place < 21)
        BY <1>1, <1>3, <1>13, <2>5
      <3>4. QED
        BY <1>10, <3>1, <3>2, <3>3
    <2>6. QED
      <3>1. place % 3 \in {0, 1, 2}
        BY <1>1
      <3>2. QED
        BY <2>3, <2>4, <2>5, <3>1
  <1>14. QED
    BY <1>1, <1>11, <1>12, <1>13

-----------------------------------------------------------------------------
(* The transfers a game begins, and what it has when one is done. *)

LEMMA DoneRests ==
  ASSUME ClockInv, place = Steps(transfer)
  PROVE  Resting(rtc) /\ rtc.status = status_is
  <1>1. transfer \in Transfers /\ place \in Int
    BY StepsOfTransfer DEF ClockInv, ClockTypes
  <1>2. ClockPlace /\ (StatusKnown => rtc.status = status_is)
    BY DEF ClockInv
  <1>3. CASE transfer.kind = "none" \/ transfer.kind = "end"
    BY <1>1, <1>2, <1>3, StepsOfTransfer DEF ClockPlace, StatusKnown
  <1>4. CASE transfer.kind = "reset" \/ transfer.kind = "set"
    BY <1>1, <1>2, <1>4, StepsOfTransfer DEF ClockPlace, StatusKnown, Resting
  <1>5. CASE transfer.kind = "read"
    <2> DEFINE n == param_count[transfer.reg]
    <2>1. place = 21 + 24 * n /\ n \in 0..7
      BY <1>1, <1>5, StepsOfTransfer
    <2>2. SentOut(rtc, BitsOnPin(place), n)
      <3>1. place > 18
        BY <2>1
      <3>2. Answers
        BY <1>2, <1>5, <3>1 DEF ClockPlace
      <3>3. QED
        BY <3>2 DEF Answers
    <2>3. BitsOnPin(place) = 8 * n
      BY <2>1 DEF BitsOnPin
    <2>4. rtc.state = "Idle"
      BY <2>2, <2>3 DEF SentOut
    <2>5. QED
      BY <1>2, <1>5, <2>4 DEF Resting, StatusKnown
  <1>6. QED
    BY <1>1, <1>3, <1>4, <1>5 DEF Transfers

LEMMA BeginKeeps ==
  ASSUME ClockInv, NEW t \in Transfers, OfProtocol(t), Begin(t), t.kind # "none",
         t.kind = "end" \/ place = Steps(transfer),
         t.kind = "set" => status_is' = StatusWritten(t.value),
         t.kind = "reset" => status_is' = StatusWritten(0),
         t.kind \in {"end", "read"} => status_is' = rtc.status,
         status_is' \in 0..255
  PROVE  ClockInv'
  <1>1. /\ transfer' = t /\ place' = 0 /\ got' = <<>>
        /\ gpio' = gpio /\ rtc' = rtc /\ rtc_panicked' = rtc_panicked
    BY DEF Begin, gpioVars
  <1>2. Steps(t) \in Nat
    BY StepsOfTransfer
  <1>3. ClockTypes'
    BY <1>1, <1>2 DEF ClockInv, ClockTypes
  <1>4. t.kind # "end" => Resting(rtc)
    BY DoneRests
  <1>5. ClockPlace'
    BY <1>1, <1>4 DEF ClockPlace, Starting, Resting
  <1>6. StatusKnown' => t.kind \in {"end", "read"}
    BY <1>1 DEF StatusKnown
  <1>7. OfProtocol(transfer)'
    BY <1>1
  <1>8. QED
    BY <1>1, <1>3, <1>5, <1>6, <1>7 DEF ClockInv

LEMMA ClockGameKeeps ==
  ASSUME ClockInv, RtcNext
  PROVE  ClockInv'
  <1>1. /\ transfer \in Transfers /\ status_is \in 0..255 /\ place \in 0..Steps(transfer)
        /\ 0 \in 0..255
    BY DEF ClockInv, ClockTypes
  <1>2. ASSUME NEW lsb_first \in BOOLEAN, NEW reg \in RegisterKind, AskRegister(reg, lsb_first)
        PROVE  ClockInv'
    <2> DEFINE t == Transfer("read", reg, CommandByte(reg, TRUE, lsb_first), 0)
    <2>1. /\ t.kind = "read" /\ t.reg = reg /\ t.command = CommandByte(reg, TRUE, lsb_first)
          /\ t.value = 0
      BY DEF Transfer
    <2>2. reg \in AskedRegisters /\ Begin(t) /\ status_is' = status_is /\ place = Steps(transfer)
      BY <1>2 DEF AskRegister, AskedRegisters, RtcGameIdle
    <2>3. OfProtocol(t)
      BY <2>1, <2>2 DEF OfProtocol, Sends
    <2>4. t \in Transfers
      <3>1. t.command \in 0..255
        BY <2>1, <2>3, CommandOfTransfer
      <3>2. QED
        BY <1>1, <2>1, <3>1 DEF Transfer, Transfers
    <2> HIDE DEF t
    <2>5. QED
      BY <1>1, <2>1, <2>2, <2>3, <2>4, DoneRests, BeginKeeps
  <1>3. ASSUME NEW lsb_first \in BOOLEAN, NEW value \in StatusBytes, SetStatus(value, lsb_first)
        PROVE  ClockInv'
    <2> DEFINE t == Transfer("set", Status, CommandByte(Status, FALSE, lsb_first), value)
    <2>1. /\ t.kind = "set" /\ t.reg = Status /\ t.command = CommandByte(Status, FALSE, lsb_first)
          /\ t.value = value
      BY DEF Transfer
    <2>2. Begin(t) /\ status_is' = StatusWritten(value) /\ place = Steps(transfer)
      BY <1>3 DEF SetStatus, RtcGameIdle
    <2>3. OfProtocol(t)
      BY <2>1 DEF OfProtocol, Sends
    <2>4. value \in 0..255
      BY RtcAssumption
    <2>5. t \in Transfers
      <3>1. t.command \in 0..255
        BY <2>1, <2>3, CommandOfTransfer
      <3>2. QED
        BY <2>1, <2>4, <3>1, ParamCounts DEF Transfer, Transfers
    <2>6. status_is' \in 0..255
      BY <2>2, <2>4, StatusIsByte
    <2> HIDE DEF t
    <2>7. QED
      BY <2>1, <2>2, <2>3, <2>5, <2>6, BeginKeeps
  <1>4. ASSUME NEW lsb_first \in BOOLEAN, ResetClock(lsb_first)
        PROVE  ClockInv'
    <2> DEFINE t == Transfer("reset", ForceReset, CommandByte(ForceReset, FALSE, lsb_first), 0)
    <2>1. /\ t.kind = "reset" /\ t.reg = ForceReset
          /\ t.command = CommandByte(ForceReset, FALSE, lsb_first) /\ t.value = 0
      BY DEF Transfer
    <2>2. Begin(t) /\ status_is' = 0 /\ place = Steps(transfer)
      BY <1>4 DEF ResetClock, RtcGameIdle
    <2>3. OfProtocol(t)
      BY <2>1 DEF OfProtocol, Sends
    <2>4. t \in Transfers
      <3>1. t.command \in 0..255
        BY <2>1, <2>3, CommandOfTransfer
      <3>2. QED
        BY <1>1, <2>1, <3>1, ParamCounts DEF Transfer, Transfers
    <2>5. StatusWritten(0) = 0
      <3>1. BitOf(0, 6) = 0 /\ BitOf(0, 5) = 0 /\ BitOf(0, 3) = 0 /\ BitOf(0, 1) = 0
        BY BitsOfByte
      <3>2. QED
        BY <3>1 DEF StatusWritten
    <2> HIDE DEF t
    <2>6. QED
      BY <1>1, <2>1, <2>2, <2>3, <2>4, <2>5, BeginKeeps
  <1>5. ASSUME BreakOff
        PROVE  ClockInv'
    <2> DEFINE t == Transfer("end", transfer.reg, 0, 0)
    <2>1. t.kind = "end" /\ t \in Transfers
      BY <1>1 DEF Transfer, Transfers
    <2>2. Begin(t) /\ status_is' = status_is /\ rtc.status = status_is
      BY <1>5 DEF BreakOff, ClockInv, StatusKnown
    <2>3. OfProtocol(t)
      BY <2>1 DEF OfProtocol
    <2> HIDE DEF t
    <2>4. QED
      BY <1>1, <2>1, <2>2, <2>3, BeginKeeps
  <1>6. ASSUME NEW now \in Clocks, TouchPort(now)
        PROVE  ClockInv'
    <2>1. place \in Nat /\ place < Steps(transfer)
      BY <1>6, TouchesPort
    <2>2. transfer.kind # "none"
      BY <1>1, <2>1, StepsOfTransfer
    <2>3. transfer.kind \in {"end", "reset", "set", "read"}
      BY <1>1, <2>2 DEF Transfers
    <2>4. CASE transfer.kind = "end"
      BY <1>6, <2>4, EndSteps
    <2>5. CASE transfer.kind \in {"reset", "set", "read"} /\ place < 4
      BY <1>6, <2>5, StartSteps
    <2>6. CASE transfer.kind \in {"reset", "set", "read"} /\ place \in 4..18
      BY <1>6, <2>6, CommandSteps
    <2>7. CASE transfer.kind = "reset" /\ place > 18
      <3>1. place = 19
        BY <1>1, <2>1, <2>7, StepsOfTransfer
      <3>2. QED
        BY <1>6, <2>7, <3>1, TailSteps
    <2>8. CASE transfer.kind = "set" /\ place > 18
      <3>1. place \in 19..34 \/ place = 35
        BY <1>1, <2>1, <2>8, StepsOfTransfer
      <3>2. QED
        BY <1>6, <2>8, <3>1, StoreSteps, TailSteps
    <2>9. CASE transfer.kind = "read" /\ place > 18
      BY <1>6, <2>9, AnswerSteps
    <2>10. QED
      BY <2>1, <2>3, <2>4, <2>5, <2>6, <2>7, <2>8, <2>9
  <1>7. QED
    BY <1>2, <1>3, <1>4, <1>5, <1>6 DEF RtcNext

LEMMA ClockStays ==
  ASSUME ClockInv, UNCHANGED rtcVars
  PROVE  ClockInv'
  BY DEF ClockInv, rtcVars, gpioVars, rtcGameVars, ClockTypes, ClockPlace, StatusKnown, Starting,
         Commanding, Storing, Answers

LEMMA ClockStarts == RtcProgramInit => ClockInv
  <1> SUFFICES ASSUME RtcProgramInit PROVE ClockInv
    OBVIOUS
  <1>1. /\ gpio = [out |-> [pin \in 0..3 |-> TRUE], readable |-> FALSE] /\ rtc = RtcNew
        /\ ~rtc_panicked /\ transfer = Transfer("none", Status, 0, 0) /\ place = 0 /\ got = <<>>
        /\ status_is = 130
    BY DEF RtcProgramInit, new_rtc
  <1>2. transfer \in Transfers /\ transfer.kind = "none"
    BY <1>1, ParamCounts DEF Transfer, Transfers
  <1>3. Steps(transfer) = 0
    BY <1>2, StepsOfTransfer
  <1>4. gpio \in Ports /\ gpio.out[Sck] /\ gpio.out[Cs]
    BY <1>1 DEF Ports, Sck, Cs
  <1>5. rtc \in ClockChips /\ rtc.state = "Idle" /\ rtc.status = 130
    BY <1>1, EmptyIsSerial, ParamCounts DEF RtcNew, ClockChips, RtcState
  <1>6. ClockPlace
    BY <1>2, <1>5 DEF ClockPlace, Resting
  <1>7. ClockTypes
    BY <1>1, <1>2, <1>3, <1>4, <1>5 DEF ClockTypes
  <1>8. OfProtocol(transfer)
    BY <1>2 DEF OfProtocol
  <1>9. QED
    BY <1>1, <1>2, <1>4, <1>5, <1>6, <1>7, <1>8 DEF ClockInv

LEMMA ClockTells ==
  ASSUME ClockInv
  PROVE  ClockAnswers
  <1> SUFFICES ASSUME transfer.kind = "read", place = Steps(transfer)
               PROVE  /\ Len(got) = 8 * Len(want)
                      /\ \A i \in 0..(Len(want) - 1) :
                           IF transfer.reg = Status THEN GotByte(i) = want[i + 1]
                           ELSE IsDecimal(GotByte(i)) /\ Decimal(GotByte(i)) = want[i + 1]
    BY DEF ClockAnswers, ClockInv
  <1> DEFINE n == param_count[transfer.reg]
  <1>1. place = 21 + 24 * n /\ n \in 0..7 /\ rtc \in ClockChips
    BY StepsOfTransfer DEF ClockInv, ClockTypes
  <1>2. Answers
    BY <1>1 DEF ClockInv, ClockPlace
  <1>3. BitsGot(place) = 8 * n
    BY <1>1 DEF BitsGot
  <1> HIDE DEF n
  <1>4. /\ Len(got) = 8 * n /\ Len(want) = n
        /\ \A j \in 1..(8 * n) : got[j] = BitSent(rtc, j - 1)
        /\ \A i \in 0..(n - 1) : Tells(transfer.reg, rtc.internal[i], want[i + 1])
    BY <1>2, <1>3 DEF Answers, Telling, n
  <1>5. ASSUME NEW i \in 0..(n - 1)
        PROVE  GotByte(i) = rtc.internal[i]
    <2> DEFINE b == rtc.internal[i]
    <2>1. i \in 0..7 /\ b \in 0..255
      BY <1>1, ChipFields
    <2>2. ASSUME NEW c \in 0..7
          PROVE  got[8 * i + c + 1] = BitOf(b, c)
      <3>1. 8 * i + c + 1 \in 1..(8 * n) /\ (8 * i + c + 1) - 1 = 8 * i + c
            /\ (8 * i + c) \div 8 = i /\ (8 * i + c) % 8 = c
        BY <1>1, <2>1
      <3>2. QED
        BY <1>4, <3>1 DEF BitSent
    <2>3. /\ got[8 * i + 0 + 1] = BitOf(b, 0) /\ got[8 * i + 1 + 1] = BitOf(b, 1)
          /\ got[8 * i + 2 + 1] = BitOf(b, 2) /\ got[8 * i + 3 + 1] = BitOf(b, 3)
          /\ got[8 * i + 4 + 1] = BitOf(b, 4) /\ got[8 * i + 5 + 1] = BitOf(b, 5)
          /\ got[8 * i + 6 + 1] = BitOf(b, 6) /\ got[8 * i + 7 + 1] = BitOf(b, 7)
      BY <2>2
    <2> HIDE DEF b
    <2>4. GotByte(i) = BitOf(b, 0) + 2 * BitOf(b, 1) + 4 * BitOf(b, 2) + 8 * BitOf(b, 3)
                       + 16 * BitOf(b, 4) + 32 * BitOf(b, 5) + 64 * BitOf(b, 6) + 128 * BitOf(b, 7)
      BY <2>3, Zenon DEF GotByte
    <2>5. QED
      BY <2>1, <2>4, ByteOfBits DEF b
  <1>6. QED
    BY <1>1, <1>4, <1>5 DEF Tells

\* Clock reads (rtc.rs write, load_register, serial_read, SerialBuffer; gpio.rs):
\* whatever registers a game sets, resets and reads, from either end and with
\* reads broken off between two edges, no transfer panics the emulator, and the
\* bytes of a read that is done are the register, digit by digit, of one moment.
THEOREM CartridgeClockAnswers == CartridgeSpec => []ClockAnswers
  <1>1. CartridgeInit => ClockInv
    BY ClockStarts DEF CartridgeInit
  <1>2. ClockInv /\ [CartridgeNext]_cartridgeVars => ClockInv'
    <2> SUFFICES ASSUME ClockInv, [CartridgeNext]_cartridgeVars PROVE ClockInv'
      OBVIOUS
    <2>1. RtcNext \/ UNCHANGED rtcVars
      BY DEF CartridgeNext, cartridgeVars
    <2>2. QED
      BY <2>1, ClockGameKeeps, ClockStays
  <1>3. ClockInv => ClockAnswers
    BY ClockTells
  <1>4. QED
    BY <1>1, <1>2, <1>3, PTL DEF CartridgeSpec
=============================================================================
