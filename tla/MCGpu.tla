------------------------------- MODULE MCGpu --------------------------------
EXTENDS GpuProgram

C(t, r, e) == [dst_adj |-> 0, src_adj |-> 0, repeat |-> r, is_32bit |-> FALSE,
               timing |-> t, irq |-> FALSE, enabled |-> e]
BlankControls == {C(2, TRUE, FALSE), C(0, FALSE, TRUE), C(2, TRUE, TRUE), C(1, TRUE, TRUE)}

\* All interrupts, at the line after the picture.
MCDispstats == {[vblank_irq |-> TRUE, hblank_irq |-> TRUE, vcount_irq |-> TRUE,
                 vcount_setting |-> 3]}
=============================================================================
