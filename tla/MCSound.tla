------------------------------- MODULE MCSound -------------------------------
EXTENDS SoundController

\* Sounds lie at 0 and at 16; FIFO_A is 56, FIFO_B 60.
MCSilence == -1
MCSamples == -1..63

Timer == [prescalar |-> 0, cascade |-> FALSE, irq_enabled |-> FALSE, enabled |-> TRUE]
Sound(e) == [dst_adj |-> 2, src_adj |-> 0, repeat |-> TRUE, is_32bit |-> TRUE,
             timing |-> 3, irq |-> FALSE, enabled |-> e]
Copy == [dst_adj |-> 0, src_adj |-> 0, repeat |-> FALSE, is_32bit |-> TRUE,
         timing |-> 0, irq |-> FALSE, enabled |-> TRUE]
MCDmaControls == {Sound(TRUE), Copy}
MCControls == {Timer}
Ticks == [p \in {0} |-> 1]
MCSampleCycles == [r \in 0..1 |-> IF r = 0 THEN 8 ELSE 4]

W(r, i, v) == [reg |-> r, id |-> i, value |-> v]
H(t, r) == [reg |-> "SOUNDCNT_H", timers |-> t, resets |-> r]

Channel1 == <<W("DMAxSAD", 1, 0), W("DMAxDAD", 1, 56), W("DMAxCNT_H", 1, Sound(TRUE))>>
Channel2 == <<W("DMAxSAD", 2, 16), W("DMAxDAD", 2, 60), W("DMAxCNT_H", 2, Sound(TRUE))>>
Start == <<W("TMxCNT_L", 0, 2), W("TMxCNT_H", 0, Timer)>>
On == <<W("SOUNDCNT_X", 0, TRUE)>>

\* Mono, with a copy of memory beside it; stereo from one timer; the timer running
\* before the rest is set up; a first halfword written by the CPU.
MCDrivers == {On \o <<H([f \in Fifos |-> f], {0, 1})>> \o Channel1 \o Start
                 \o <<W("SOUNDBIAS", 0, 1), W("DMAxCNT_H", 2, Copy)>>,
              <<H([f \in Fifos |-> 0], {0, 1})>> \o Channel1 \o Channel2 \o Start \o On,
              Start \o On \o Channel1,
              <<W("FIFO", 1, <<14, 15>>)>> \o On \o Channel2 \o Start}

ASSUME SettledDrivers == \A d \in MCDrivers : Settled(d)
=============================================================================
