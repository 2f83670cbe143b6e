\* Three timers of one bit: a chain of three wraps every 8 cycles.  A reload value of
\* 1 gives a period of one cycle, so a step of two leaves two overflows of one timer
\* due at once.
CONSTANTS
  NumTimers = 3
  CounterMod = 2
  TickCycles <- MCTickCycles
  Controls <- MCControls
  Reloads = {1}
  ReadTimers = {0}
  MaxStep = 2
  Horizon = 5
SPECIFICATION HSpec
INVARIANTS
  OneOverflowEvent
  CountIsSound
  NoDrift
  CascadeExact
\* The horizon stops the clock.
CHECK_DEADLOCK FALSE
