--------------------------- MODULE TimersHistory ----------------------------
(***************************************************************************)
(* Timers with history: what the program started each count with, and how  *)
(* often the timer has overflowed and ticked since.  The history is what a *)
(* timer that really counted every cycle would know.                       *)
(***************************************************************************)
EXTENDS Timers

VARIABLE hist   \* by timer, see HistInit

hvars == <<tvars, hist>>

HistInit == [epoch |-> 0,       \* when TMxCNT_H was last written
             count0 |-> 0,      \* the counter when the count began
             overflows |-> 0,   \* overflows since
             ticks |-> 0,       \* overflows of the timer below since
             steady |-> TRUE]   \* the reload value has not changed since

HInit == TInit /\ hist = [i \in TimerIds |-> HistInit]

HWriteReload(i, v, d) ==
  /\ CpuWriteReload(i, v, d)
  /\ hist' = [hist EXCEPT ![i] = [@ EXCEPT !.steady = FALSE, !.count0 = v, !.ticks = 0]]

HWriteCtl(i, new, c, d) ==
  /\ CpuWriteCtl(i, new, c, d)
  /\ hist' = [hist EXCEPT ![i] = [HistInit EXCEPT !.epoch = timestamp + c, !.count0 = data[i]]]

HTimerEvent ==
  \E e \in events, i \in TimerIds :
    /\ HandleTimerOverflow(e, i)
    /\ hist' = [j \in TimerIds |->
         [hist[j] EXCEPT !.overflows = IF j \in Overflowing(i) THEN @ + 1 ELSE @,
                         !.ticks = IF j - 1 \in Overflowing(i) THEN @ + 1 ELSE @]]

HNext ==
  \/ \E d \in 1..MaxStep : Idle(d) /\ UNCHANGED hist
  \/ \E d \in 1..MaxStep, i \in TimerIds : CpuAcknowledge(i, d) /\ UNCHANGED hist
  \/ \E d \in 1..MaxStep, i \in TimerIds, v \in Reloads : HWriteReload(i, v, d)
  \/ \E d \in 1..MaxStep : \E c \in 1..d, i \in TimerIds, new \in Controls :
       HWriteCtl(i, new, c, d)
  \/ \E d \in 1..MaxStep : \E c \in 1..d, i \in ReadTimers : CpuRead(i, c, d) /\ UNCHANGED hist
  \/ HTimerEvent

HSpec == HInit /\ [][HNext]_hvars

-----------------------------------------------------------------------------
\* The overflows of a running timer form an arithmetic progression from the
\* moment it was started: handling them late, however late, never shifts the
\* next one, and none is skipped or repeated.
NoDrift ==
  \A i \in TimerIds : is_scheduled[i] /\ hist[i].steady =>
    \A e \in OverflowEvents(i) :
      e.time = hist[i].epoch
               + ((CounterMod - hist[i].count0)
                  + hist[i].overflows * (CounterMod - initial_data[i])) * Tick(ctl[i])

\* A counter that began at c, reloads r and has ticked n times.
CounterAfter(c, r, n) ==
  IF c + n < CounterMod THEN c + n ELSE r + ((c + n - CounterMod) % (CounterMod - r))

\* A cascading timer has counted every overflow of the timer below it, through
\* any number of wraps of the chain: the one-step recursion of
\* handle_timer_overflow amounts to exact counting.
CascadeExact ==
  \A i \in TimerIds : i > 0 /\ ctl[i].cascade =>
    data[i] = CounterAfter(hist[i].count0, initial_data[i], hist[i].ticks)
=============================================================================
