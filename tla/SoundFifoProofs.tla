-------------------------- MODULE SoundFifoProofs ---------------------------
(***************************************************************************)
(* The ring of fifo.rs is a bounded queue for every capacity and every set *)
(* of samples.                                                             *)
(***************************************************************************)
EXTENDS SoundFifoMachine, SequenceTheorems, TLAPS

FifoInv == FifoTypeOK /\ RingConsistent

\* A step of a position wraps exactly at the capacity.
LEMMA ModStep ==
  ASSUME NEW p \in 0..(Capacity - 1)
  PROVE  (p + 1) % Capacity = IF p + 1 = Capacity THEN 0 ELSE p + 1
  <1>1. Capacity \in Nat \ {0} BY FifoAssumption
  <1> QED BY <1>1

\* A position plus a count that is at most the capacity wraps at most once.
LEMMA ModSum ==
  ASSUME NEW p \in 0..(Capacity - 1), NEW k \in 0..Capacity
  PROVE  (p + k) % Capacity = IF p + k >= Capacity THEN p + k - Capacity ELSE p + k
  <1>1. Capacity \in Nat \ {0} BY FifoAssumption
  <1> QED BY <1>1

\* Writing moves the write position as the count grows.
LEMMA WriteArith ==
  ASSUME NEW r \in 0..(Capacity - 1), NEW c \in 0..(Capacity - 1)
  PROVE  NextPos((r + c) % Capacity) = (r + (c + 1)) % Capacity
<1>1. Capacity \in Nat \ {0} /\ c \in 0..Capacity /\ c + 1 \in 0..Capacity
  BY FifoAssumption
<1>2. (r + c) % Capacity = IF r + c >= Capacity THEN r + c - Capacity ELSE r + c
  BY <1>1, ModSum
<1>3. (r + (c + 1)) % Capacity =
        IF r + (c + 1) >= Capacity THEN r + (c + 1) - Capacity ELSE r + (c + 1)
  BY <1>1, ModSum
<1> DEFINE w == (r + c) % Capacity
<1>4. w \in 0..(Capacity - 1)
  BY <1>1, <1>2
<1>5. (w + 1) % Capacity = IF w + 1 = Capacity THEN 0 ELSE w + 1
  BY <1>4, ModStep
<1> QED BY <1>1, <1>2, <1>3, <1>5 DEF NextPos

\* Reading moves the read position as the count shrinks.
LEMMA ReadArith ==
  ASSUME NEW r \in 0..(Capacity - 1), NEW c \in 1..Capacity
  PROVE  (r + c) % Capacity = (NextPos(r) + (c - 1)) % Capacity
<1>1. Capacity \in Nat \ {0} /\ c \in 0..Capacity /\ c - 1 \in 0..Capacity
  BY FifoAssumption
<1>2. (r + c) % Capacity = IF r + c >= Capacity THEN r + c - Capacity ELSE r + c
  BY <1>1, ModSum
<1>3. NextPos(r) = IF r + 1 = Capacity THEN 0 ELSE r + 1
  BY ModStep DEF NextPos
<1> DEFINE n == NextPos(r)
<1>4. n \in 0..(Capacity - 1)
  BY <1>1, <1>3
<1> HIDE DEF n
<1>5. (n + (c - 1)) % Capacity =
        IF n + (c - 1) >= Capacity THEN n + (c - 1) - Capacity ELSE n + (c - 1)
  BY <1>1, <1>4, ModSum
<1>6. (n + (c - 1)) % Capacity = (r + c) % Capacity
  BY <1>1, <1>2, <1>3, <1>5 DEF n
<1> QED BY <1>6 DEF n

\* Positions stay inside the ring.
LEMMA NextPosType ==
  ASSUME NEW p \in 0..(Capacity - 1)
  PROVE  NextPos(p) \in 0..(Capacity - 1)
BY FifoAssumption, ModStep DEF NextPos

LEMMA FifoInitInv == FifoInit => FifoInv
<1>1. (0 + 0) % Capacity = 0 /\ 0 \in 0..(Capacity - 1) /\ 0 \in 0..Capacity
  BY FifoAssumption, ModSum
<1> QED BY <1>1, FifoAssumption
        DEF FifoInit, FifoInv, FifoTypeOK, RingConsistent, Ring, NewFifo

\* What each operation makes of the ring, field by field.
LEMMA FifoEffect ==
  ASSUME FifoInv
  PROVE  /\ \A v \in Samples : Write(v) /\ fifo.count < Capacity =>
              /\ fifo' = [wr_pos |-> NextPos(fifo.wr_pos), rd_pos |-> fifo.rd_pos,
                          count |-> fifo.count + 1,
                          data |-> [fifo.data EXCEPT ![fifo.wr_pos] = v]]
              /\ played' = played
         /\ Read /\ fifo.count # 0 =>
              /\ fifo' = [wr_pos |-> fifo.wr_pos, rd_pos |-> NextPos(fifo.rd_pos),
                          count |-> fifo.count - 1, data |-> fifo.data]
              /\ played' = fifo.data[fifo.rd_pos]
         /\ Reset =>
              /\ fifo' = [wr_pos |-> 0, rd_pos |-> 0, count |-> 0, data |-> fifo.data]
              /\ played' = played
<1>1. fifo.count \in 0..Capacity
  BY DEF FifoInv, FifoTypeOK, Ring
<1> QED BY <1>1, FifoAssumption
        DEF Write, FifoWrite, Read, FifoReadValue, FifoAfterRead, Reset, FifoReset

\* Each operation keeps the ring well-formed and its positions together.
LEMMA FifoStepInv == FifoInv /\ [FifoNext]_fifoVars => FifoInv'
<1> SUFFICES ASSUME FifoInv, [FifoNext]_fifoVars PROVE FifoInv'
  OBVIOUS
<1> DEFINE w == fifo.wr_pos  r == fifo.rd_pos  c == fifo.count
<1>a. /\ w \in 0..(Capacity - 1) /\ r \in 0..(Capacity - 1) /\ c \in 0..Capacity
      /\ fifo.data \in [0..(Capacity - 1) -> Samples] /\ played \in Samples
      /\ w = (r + c) % Capacity
  BY DEF FifoInv, FifoTypeOK, RingConsistent, Ring
<1>b. ASSUME NEW w1 \in 0..(Capacity - 1), NEW r1 \in 0..(Capacity - 1),
             NEW c1 \in 0..Capacity, NEW d1 \in [0..(Capacity - 1) -> Samples],
             fifo' = [wr_pos |-> w1, rd_pos |-> r1, count |-> c1, data |-> d1],
             w1 = (r1 + c1) % Capacity, played' \in Samples
      PROVE  FifoInv'
  BY <1>b DEF FifoInv, FifoTypeOK, RingConsistent, Ring
<1>1. ASSUME NEW v \in Samples, Write(v) PROVE FifoInv'
  <2>1. CASE c >= Capacity
    BY <1>1, <2>1 DEF Write, FifoWrite, FifoInv, FifoTypeOK, RingConsistent
  <2>2. CASE c < Capacity
    <3>1. c + 1 \in 0..Capacity /\ c \in 0..(Capacity - 1)
      BY <2>2, <1>a, FifoAssumption
    <3>2. [fifo.data EXCEPT ![w] = v] \in [0..(Capacity - 1) -> Samples]
      BY <1>a
    <3>3. NextPos(w) = (r + (c + 1)) % Capacity /\ NextPos(w) \in 0..(Capacity - 1)
      BY <1>a, <3>1, WriteArith, NextPosType
    <3> QED BY <1>1, <1>a, <2>2, <1>b, <3>1, <3>2, <3>3, FifoEffect
  <2> QED BY <2>1, <2>2, <1>a, FifoAssumption
<1>2. CASE Read
  <2>1. CASE c = 0
    BY <1>2, <2>1, FifoAssumption
       DEF Read, FifoReadValue, FifoAfterRead, FifoInv, FifoTypeOK, RingConsistent
  <2>2. CASE c # 0
    <3>1. c - 1 \in 0..Capacity /\ c \in 1..Capacity
      BY <2>2, <1>a, FifoAssumption
    <3>2. fifo.data[r] \in Samples
      BY <1>a
    <3>3. w = (NextPos(r) + (c - 1)) % Capacity /\ NextPos(r) \in 0..(Capacity - 1)
      BY <1>a, <3>1, ReadArith, NextPosType
    <3> QED BY <1>2, <1>a, <2>2, <1>b, <3>1, <3>2, <3>3, FifoEffect
  <2> QED BY <2>1, <2>2
<1>3. CASE Reset
  <2>1. 0 = (0 + 0) % Capacity /\ 0 \in 0..(Capacity - 1) /\ 0 \in 0..Capacity
    BY ModSum, FifoAssumption
  <2> QED BY <1>3, <2>1, <1>a, <1>b, FifoEffect
<1>4. CASE UNCHANGED fifoVars
  BY <1>4 DEF fifoVars, FifoInv, FifoTypeOK, RingConsistent
<1> QED BY <1>1, <1>2, <1>3, <1>4 DEF FifoNext

\* The type invariant of one ring, for every capacity.
THEOREM FifoTypeCorrect == FifoSpec => []FifoTypeOK
<1>1. FifoSpec => []FifoInv
  BY FifoInitInv, FifoStepInv, PTL DEF FifoSpec
<1>2. FifoInv => FifoTypeOK
  BY DEF FifoInv
<1> QED BY <1>1, <1>2, PTL

\* The positions and the count of fifo.rs never drift apart.
THEOREM FifoPositionsAgree == FifoSpec => []RingConsistent
<1>1. FifoSpec => []FifoInv
  BY FifoInitInv, FifoStepInv, PTL DEF FifoSpec
<1>2. FifoInv => RingConsistent
  BY DEF FifoInv
<1> QED BY <1>1, <1>2, PTL

-----------------------------------------------------------------------------
\* The place of the i-th queued sample.
LEMMA PlaceArith ==
  ASSUME NEW r \in 0..(Capacity - 1), NEW i \in 1..Capacity
  PROVE  /\ (r + i - 1) % Capacity \in 0..(Capacity - 1)
         /\ (r + i - 1) % Capacity
               = IF r + i - 1 >= Capacity THEN r + i - 1 - Capacity ELSE r + i - 1
<1>1. Capacity \in Nat \ {0} /\ i - 1 \in 0..Capacity /\ r + i - 1 = r + (i - 1)
  BY FifoAssumption
<1>2. (r + (i - 1)) % Capacity
        = IF r + (i - 1) >= Capacity THEN r + (i - 1) - Capacity ELSE r + (i - 1)
  BY <1>1, ModSum
<1> QED BY <1>1, <1>2

\* Two samples of the ring are never in the same place, and the place written
\* next is free.
LEMMA PlacesDiffer ==
  ASSUME NEW r \in 0..(Capacity - 1), NEW c \in 0..(Capacity - 1), NEW i \in 1..c
  PROVE  (r + i - 1) % Capacity # (r + c) % Capacity
<1>1. Capacity \in Nat \ {0} /\ i \in 1..Capacity /\ c \in 0..Capacity
  BY FifoAssumption
<1>2. (r + i - 1) % Capacity
        = IF r + i - 1 >= Capacity THEN r + i - 1 - Capacity ELSE r + i - 1
  BY <1>1, PlaceArith
<1>3. (r + c) % Capacity = IF r + c >= Capacity THEN r + c - Capacity ELSE r + c
  BY <1>1, ModSum
<1> QED BY <1>1, <1>2, <1>3

\* Reading moves every remaining sample one place nearer.
LEMMA PlaceAfterRead ==
  ASSUME NEW r \in 0..(Capacity - 1), NEW i \in 1..(Capacity - 1)
  PROVE  (NextPos(r) + i - 1) % Capacity = (r + (i + 1) - 1) % Capacity
<1>1. Capacity \in Nat \ {0} /\ i \in 1..Capacity /\ i + 1 \in 1..Capacity
  BY FifoAssumption
<1>2. NextPos(r) = (IF r + 1 = Capacity THEN 0 ELSE r + 1)
      /\ NextPos(r) \in 0..(Capacity - 1)
  BY <1>1, ModStep DEF NextPos
<1> DEFINE n == NextPos(r)
<1> HIDE DEF n
<1>3. (n + i - 1) % Capacity = IF n + i - 1 >= Capacity THEN n + i - 1 - Capacity ELSE n + i - 1
  BY <1>1, <1>2, PlaceArith DEF n
<1>4. (r + (i + 1) - 1) % Capacity
        = IF r + (i + 1) - 1 >= Capacity THEN r + (i + 1) - 1 - Capacity ELSE r + (i + 1) - 1
  BY <1>1, PlaceArith
<1>5. n = IF r + 1 = Capacity THEN 0 ELSE r + 1
  BY <1>2 DEF n
<1>6. (n + i - 1) % Capacity = (r + (i + 1) - 1) % Capacity
  BY <1>1, <1>3, <1>4, <1>5
<1> QED BY <1>6 DEF n

\* The samples in a ring are a sequence as long as its count.
LEMMA ContentsType ==
  ASSUME NEW f \in Ring
  PROVE  /\ ContentsOf(f) \in Seq(Samples) /\ Len(ContentsOf(f)) = f.count
         /\ \A i \in 1..f.count :
              ContentsOf(f)[i] = f.data[(f.rd_pos + i - 1) % Capacity]
<1>1. /\ f.rd_pos \in 0..(Capacity - 1) /\ f.count \in 0..Capacity
      /\ f.data \in [0..(Capacity - 1) -> Samples] /\ f.count \in Nat
  BY FifoAssumption DEF Ring
<1>2. \A i \in 1..f.count : f.data[(f.rd_pos + i - 1) % Capacity] \in Samples
  <2> TAKE i \in 1..f.count
  <2>1. i \in 1..Capacity
    BY <1>1, FifoAssumption
  <2>2. (f.rd_pos + i - 1) % Capacity \in 0..(Capacity - 1)
    BY <1>1, <2>1, PlaceArith
  <2> QED BY <1>1, <2>2
<1> QED BY <1>1, <1>2 DEF ContentsOf

\* A ring with no sample in it stands for the empty queue.
LEMMA ContentsEmpty ==
  ASSUME NEW f \in Ring, f.count = 0
  PROVE  ContentsOf(f) = <<>>
<1>1. ContentsOf(f) \in Seq(Samples) /\ Len(ContentsOf(f)) = 0
  BY ContentsType
<1> QED BY <1>1, EmptySeq

\* Every step of the ring is a step of the bounded queue, or leaves it alone.
LEMMA FifoStepSimulates ==
  FifoInv /\ [FifoNext]_fifoVars => [Queue!QueueNext]_(Queue!qvars)
<1> SUFFICES ASSUME FifoInv, [FifoNext]_fifoVars
             PROVE  [Queue!QueueNext]_(Queue!qvars)
  OBVIOUS
<1> DEFINE w == fifo.wr_pos  r == fifo.rd_pos  c == fifo.count
<1>a. /\ w \in 0..(Capacity - 1) /\ r \in 0..(Capacity - 1) /\ c \in 0..Capacity
      /\ fifo.data \in [0..(Capacity - 1) -> Samples]
      /\ w = (r + c) % Capacity /\ c \in Nat
  BY FifoAssumption DEF FifoInv, FifoTypeOK, RingConsistent, Ring
<1>b. /\ Contents \in Seq(Samples) /\ Len(Contents) = c
      /\ \A i \in 1..c : Contents[i] = fifo.data[(r + i - 1) % Capacity]
  BY ContentsType DEF Contents, FifoInv, FifoTypeOK
<1>c. fifo' \in Ring
  BY FifoStepInv DEF FifoInv, FifoTypeOK
<1>d. /\ Contents' \in Seq(Samples) /\ Len(Contents') = fifo'.count
      /\ \A i \in 1..(fifo'.count) :
           Contents'[i] = fifo'.data[(fifo'.rd_pos + i - 1) % Capacity]
  BY <1>c, ContentsType DEF Contents
<1>1. ASSUME NEW v \in Samples, Write(v) PROVE Queue!Push(v)
  <2>1. CASE c >= Capacity
    <3>1. UNCHANGED fifoVars
      BY <1>1, <2>1 DEF Write, FifoWrite, fifoVars
    <3> QED BY <2>1, <3>1, <1>a, <1>b, FifoAssumption
            DEF fifoVars, Contents, Queue!Push
  <2>2. CASE c < Capacity
    <3>1. c \in 0..(Capacity - 1)
      BY <2>2, <1>a, FifoAssumption
    <3>2. /\ fifo'.rd_pos = r /\ fifo'.count = c + 1
          /\ fifo'.data = [fifo.data EXCEPT ![w] = v] /\ played' = played
      BY <1>1, <2>2, FifoEffect
    <3>3. \A i \in 1..c : Contents'[i] = Contents[i]
      <4> TAKE i \in 1..c
      <4>1. i \in 1..Capacity /\ i \in 1..(c + 1)
        BY <1>a, FifoAssumption
      <4>2. (r + i - 1) % Capacity # w
        BY <1>a, <3>1, PlacesDiffer
      <4>3. (r + i - 1) % Capacity \in 0..(Capacity - 1)
        BY <1>a, <4>1, PlaceArith
      <4>4. fifo'.data[(r + i - 1) % Capacity] = fifo.data[(r + i - 1) % Capacity]
        BY <1>a, <3>2, <4>2, <4>3
      <4> QED BY <1>b, <1>d, <3>2, <4>1, <4>4
    <3>4. Contents'[c + 1] = v
      <4>1. r + (c + 1) - 1 = r + c /\ c + 1 \in 1..(c + 1)
        BY <1>a, FifoAssumption
      <4>2. fifo'.data[w] = v
        BY <1>a, <3>2
      <4> QED BY <1>a, <1>d, <3>2, <4>1, <4>2
    <3>5. Contents' = Append(Contents, v)
      <4> DEFINE s == Contents  t == Contents'
      <4>1. s \in Seq(Samples) /\ t \in Seq(Samples) /\ Len(s) = c /\ Len(t) = c + 1
        BY <1>b, <1>d, <3>2
      <4>2. \A i \in 1..c : t[i] = s[i]
        BY <3>3
      <4>3. t[c + 1] = v
        BY <3>4
      <4> HIDE DEF s, t
      <4>4. Append(s, v) \in Seq(Samples) /\ Len(Append(s, v)) = c + 1
        BY <4>1
      <4>5. \A i \in 1..(c + 1) : t[i] = Append(s, v)[i]
        BY <4>1, <4>2, <4>3, <1>a
      <4>6. t = Append(s, v)
        BY <4>1, <4>4, <4>5, SeqEqual
      <4> QED BY <4>6 DEF s, t
    <3> QED BY <1>b, <2>2, <3>2, <3>5 DEF Queue!Push
  <2> QED BY <2>1, <2>2, <1>a, FifoAssumption
<1>2. ASSUME Read PROVE Queue!Pop
  <2>1. CASE c = 0
    <3>1. Contents = <<>>
      BY <2>1, ContentsEmpty DEF Contents, FifoInv, FifoTypeOK
    <3>2. fifo' = fifo /\ played' = Silence
      BY <1>2, <2>1 DEF Read, FifoReadValue, FifoAfterRead
    <3> QED BY <3>1, <3>2 DEF Contents, Queue!Pop
  <2>2. CASE c # 0
    <3>1. /\ fifo'.rd_pos = NextPos(r) /\ fifo'.count = c - 1
          /\ fifo'.data = fifo.data /\ played' = fifo.data[r]
      BY <1>2, <2>2, FifoEffect
    <3>2. Contents # <<>> /\ Contents[1] = fifo.data[r]
      <4>1. (r + 1 - 1) % Capacity = r /\ 1 \in 1..c
        <5>1. 1 \in 1..Capacity
          BY FifoAssumption
        <5> QED BY <1>a, <2>2, <5>1, PlaceArith, FifoAssumption
      <4> QED BY <1>b, <2>2, <4>1
    <3>3. \A i \in 1..(c - 1) : Contents'[i] = Contents[i + 1]
      <4> TAKE i \in 1..(c - 1)
      <4>1. i \in 1..(Capacity - 1) /\ i + 1 \in 1..c
        BY <1>a, FifoAssumption
      <4>2. (NextPos(r) + i - 1) % Capacity = (r + (i + 1) - 1) % Capacity
        BY <1>a, <4>1, PlaceAfterRead
      <4> QED BY <1>b, <1>d, <3>1, <4>1, <4>2
    <3>4. Contents' = Tail(Contents) /\ Head(Contents) = Contents[1]
      <4> DEFINE s == Contents  t == Contents'
      <4>1. /\ s \in Seq(Samples) /\ t \in Seq(Samples) /\ s # <<>>
            /\ Len(s) = c /\ Len(t) = c - 1
        BY <1>b, <1>d, <3>1, <3>2
      <4>2. \A i \in 1..(c - 1) : t[i] = s[i + 1]
        BY <3>3
      <4> HIDE DEF s, t
      <4>3. /\ Tail(s) \in Seq(Samples) /\ Len(Tail(s)) = c - 1
            /\ \A i \in 1..(c - 1) : Tail(s)[i] = s[i + 1]
        BY <4>1, HeadTailProperties
      <4>4. t = Tail(s)
        BY <4>1, <4>2, <4>3, SeqEqual
      <4>5. Head(s) = s[1]
        BY <4>1
      <4> QED BY <4>4, <4>5 DEF s, t
    <3> QED BY <3>1, <3>2, <3>4 DEF Queue!Pop
  <2> QED BY <2>1, <2>2
<1>3. ASSUME Reset PROVE Queue!Clear
  <2>1. fifo'.count = 0 /\ played' = played
    BY <1>3, FifoEffect
  <2>2. Contents' = <<>>
    BY <2>1, <1>c, ContentsEmpty DEF Contents
  <2> QED BY <2>1, <2>2 DEF Queue!Clear
<1>4. CASE UNCHANGED fifoVars
  BY <1>4 DEF fifoVars, Contents, Queue!qvars
<1> QED BY <1>1, <1>2, <1>3, <1>4 DEF FifoNext, Queue!QueueNext

LEMMA FifoInitSimulates == FifoInit => Queue!QueueInit
<1> SUFFICES ASSUME FifoInit PROVE Queue!QueueInit
  OBVIOUS
<1>1. fifo \in Ring /\ fifo.count = 0
  BY FifoInitInv DEF FifoInv, FifoTypeOK, FifoInit, NewFifo
<1>2. Contents = <<>>
  BY <1>1, ContentsEmpty DEF Contents
<1> QED BY <1>2 DEF FifoInit, Queue!QueueInit

\* A SoundFifo is a bounded queue: whatever the wrap-around of its positions,
\* samples leave in the order they came, each once, and only a full ring loses.
THEOREM FifoImplementsQueue == FifoSpec => ImplementsQueue
<1>1. FifoSpec => []FifoInv
  BY FifoInitInv, FifoStepInv, PTL DEF FifoSpec
<1> QED BY <1>1, FifoInitSimulates, FifoStepSimulates, PTL
        DEF FifoSpec, ImplementsQueue, Queue!QueueSpec
=============================================================================
