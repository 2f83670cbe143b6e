-------------------------------- MODULE MCGba --------------------------------
EXTENDS Gba

MCSilence == -1
MCSamples == -1..63
Ticks == [p \in {0} |-> 1]
MCSampleCycles == [r \in {0} |-> 4]

Timer == [prescalar |-> 0, cascade |-> FALSE, irq_enabled |-> TRUE, enabled |-> TRUE]
MCControls == {Timer}
Blank == [dst_adj |-> 2, src_adj |-> 0, repeat |-> TRUE, is_32bit |-> FALSE,
          timing |-> 2, irq |-> FALSE, enabled |-> TRUE]
Copy == [dst_adj |-> 0, src_adj |-> 0, repeat |-> FALSE, is_32bit |-> TRUE,
         timing |-> 0, irq |-> TRUE, enabled |-> TRUE]
MCDmaControls == {Blank, Copy}

W(r, v) == [reg |-> r, id |-> 0, value |-> v]

\* A timer and an HBlank DMA; a copy of memory.
MCDrivers == {<<W("TMxCNT_L", 1), W("TMxCNT_H", Timer), W("DMAxCNT_H", Blank)>>,
              <<W("DMAxCNT_H", Copy)>>}

MCDeviceTypes == {ApuSample, TimerOverflow(0), DmaActivateChannel(0)}
                   \cup {Gpu(g) : g \in GpuEvents}
=============================================================================
