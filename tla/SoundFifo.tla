----------------------------- MODULE SoundFifo ------------------------------
(***************************************************************************)
(* core/src/sound/fifo.rs: the ring buffer behind FIFO_A and FIFO_B.       *)
(* The operators are pure: SoundController keeps two rings of this shape,  *)
(* and SoundFifoMachine runs one alone.                                    *)
(***************************************************************************)
EXTENDS Integers, Sequences

CONSTANTS Samples, Silence, Capacity

ASSUME FifoAssumption == /\ Capacity \in Nat \ {0}
                         /\ Silence \in Samples

Ring == [wr_pos : 0..(Capacity - 1), rd_pos : 0..(Capacity - 1),
         count : 0..Capacity, data : [0..(Capacity - 1) -> Samples]]

NewFifo == [wr_pos |-> 0, rd_pos |-> 0, count |-> 0,
            data |-> [i \in 0..(Capacity - 1) |-> Silence]]

NextPos(p) == (p + 1) % Capacity

\* A mistake a change to fifo.rs could make; the project's mutation runs put it
\* in place of the definition it varies.
FifoWriteOverwriting(f, v) ==
  LET full == f.count >= Capacity
  IN  [wr_pos |-> NextPos(f.wr_pos),
       rd_pos |-> IF full THEN NextPos(f.rd_pos) ELSE f.rd_pos,
       count |-> IF full THEN f.count ELSE f.count + 1,
       data |-> [f.data EXCEPT ![f.wr_pos] = v]]

FifoWrite(f, v) ==
  IF f.count >= Capacity THEN f
  ELSE [wr_pos |-> NextPos(f.wr_pos), rd_pos |-> f.rd_pos, count |-> f.count + 1,
        data |-> [f.data EXCEPT ![f.wr_pos] = v]]

\* SoundFifo::read is its value and its effect.
FifoReadValue(f) == IF f.count = 0 THEN Silence ELSE f.data[f.rd_pos]

FifoAfterRead(f) ==
  IF f.count = 0 THEN f
  ELSE [wr_pos |-> f.wr_pos, rd_pos |-> NextPos(f.rd_pos), count |-> f.count - 1,
        data |-> f.data]

FifoReset(f) == [wr_pos |-> 0, rd_pos |-> 0, count |-> 0, data |-> f.data]
=============================================================================
