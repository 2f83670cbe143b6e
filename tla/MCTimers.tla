------------------------------ MODULE MCTimers ------------------------------
EXTENDS TimersHistory

MCTickCycles == [p \in 0..1 |-> IF p = 0 THEN 1 ELSE 2]
Control(p, c, q, e) == [prescalar |-> p, cascade |-> c, irq_enabled |-> q, enabled |-> e]
Off == Control(0, FALSE, FALSE, FALSE)
MCControls == {Control(0, FALSE, TRUE, TRUE), Control(1, FALSE, FALSE, TRUE),
               Control(0, TRUE, TRUE, TRUE), Off}
=============================================================================
