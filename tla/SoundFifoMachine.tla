-------------------------- MODULE SoundFifoMachine --------------------------
(***************************************************************************)
(* One SoundFifo on its own: any sequence of write, read and reset.        *)
(***************************************************************************)
EXTENDS SoundFifo

VARIABLES fifo,    \* [wr_pos, rd_pos, count, data]
          played   \* what the last FifoRead returned

fifoVars == <<fifo, played>>

FifoInit == fifo = NewFifo /\ played = Silence

Write(v) == fifo' = FifoWrite(fifo, v) /\ UNCHANGED played

Read == played' = FifoReadValue(fifo) /\ fifo' = FifoAfterRead(fifo)

Reset == fifo' = FifoReset(fifo) /\ UNCHANGED played

FifoNext == (\E v \in Samples : Write(v)) \/ Read \/ Reset

FifoSpec == FifoInit /\ [][FifoNext]_fifoVars

-----------------------------------------------------------------------------
\* The type invariant of one ring.
FifoTypeOK == fifo \in Ring /\ played \in Samples

\* The write position is always `count` places ahead of the read position:
\* the three fields of fifo.rs, updated separately, never drift apart, also
\* across a dropped write, an empty read and a reset.
RingConsistent == fifo.wr_pos = (fifo.rd_pos + fifo.count) % Capacity

\* The samples a ring holds, oldest first.
ContentsOf(f) == [i \in 1..f.count |-> f.data[(f.rd_pos + i - 1) % Capacity]]

Contents == ContentsOf(fifo)

Queue == INSTANCE SoundQueue WITH queue <- Contents

\* The ring behaves as the bounded queue: nothing is reordered, repeated or
\* overwritten, whatever the wrap-around of the two positions.
ImplementsQueue == Queue!QueueSpec
=============================================================================
