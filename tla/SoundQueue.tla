----------------------------- MODULE SoundQueue -----------------------------
(***************************************************************************)
(* What a direct-sound FIFO promises its users: a queue of samples of      *)
(* bounded length.  Writing to a full queue loses the new sample, reading  *)
(* an empty one yields silence, and a reset forgets what was queued.       *)
(* SoundFifo implements this with a ring buffer.                           *)
(***************************************************************************)
EXTENDS Naturals, Sequences

CONSTANTS Samples,   \* the values the program writes to the FIFO
          Silence,   \* what an empty FIFO yields (0_i8)
          Capacity   \* SOUND_FIFO_CAPACITY

VARIABLES queue,     \* the samples not yet played, oldest first
          played     \* the result of the last read

qvars == <<queue, played>>

QueueInit == queue = <<>> /\ played = Silence

Push(v) == /\ queue' = IF Len(queue) < Capacity THEN Append(queue, v) ELSE queue
           /\ UNCHANGED played

Pop == IF queue = <<>>
         THEN played' = Silence /\ UNCHANGED queue
         ELSE played' = Head(queue) /\ queue' = Tail(queue)

Clear == queue' = <<>> /\ UNCHANGED played

QueueNext == (\E v \in Samples : Push(v)) \/ Pop \/ Clear

QueueSpec == QueueInit /\ [][QueueNext]_qvars
=============================================================================
