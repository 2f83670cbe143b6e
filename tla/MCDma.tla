-------------------------------- MODULE MCDma -------------------------------
EXTENDS DmaProgram

C(d, s, r, w, t, e) == [dst_adj |-> d, src_adj |-> s, repeat |-> r, is_32bit |-> w,
                        timing |-> t, irq |-> TRUE, enabled |-> e]
\* Off; one shot, at once; each blank with reload; each blank backwards; sound.
MCControls == {C(3, 0, TRUE, FALSE, 2, FALSE), C(0, 1, FALSE, TRUE, 0, TRUE),
               C(3, 0, TRUE, FALSE, 2, TRUE), C(1, 2, TRUE, FALSE, 1, TRUE),
               C(0, 2, TRUE, TRUE, 3, TRUE)}
=============================================================================
