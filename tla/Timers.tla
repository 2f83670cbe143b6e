------------------------------- MODULE Timers -------------------------------
(***************************************************************************)
(* core/src/timer.rs.  A timer that is enabled and not cascading is not    *)
(* counted cycle by cycle: it keeps the value and the time its count began *)
(* with, and an overflow event in the scheduler.  A cascading timer counts *)
(* the overflows of the timer below it.                                    *)
(*                                                                         *)
(* prescalar_shift is always SHIFT_LUT[ctl.prescalar], so it is not a      *)
(* variable; TickCycles[p] is 1 << SHIFT_LUT[p].  The overflow's effect on *)
(* the sound FIFOs is in SoundController; Gba composes the two.            *)
(***************************************************************************)
EXTENDS Scheduler, Interrupts

CONSTANTS NumTimers,    \* 4
          CounterMod,   \* 2^16
          TickCycles,   \* cycles per tick, for each prescaler setting
          Controls,     \* the TMxCNT_H values the program writes
          Reloads,      \* the TMxCNT_L values the program writes
          ReadTimers    \* the timers whose TMxCNT_L the program reads

TimerIds == 0..(NumTimers - 1)
Counts == 0..(CounterMod - 1)
Prescalars == DOMAIN TickCycles
TimerCtl == [prescalar : Prescalars, cascade : BOOLEAN,
             irq_enabled : BOOLEAN, enabled : BOOLEAN]

ASSUME TimersAssumption ==
  /\ NumTimers \in Nat \ {0} /\ CounterMod \in Nat \ {0}
  /\ 0 \in Prescalars /\ TickCycles \in [Prescalars -> Nat \ {0}]
  /\ Controls \subseteq TimerCtl /\ Reloads \subseteq Counts
  /\ ReadTimers \subseteq TimerIds

VARIABLES ctl, data, initial_data, start_time, is_scheduled,  \* by timer
          running_timers

timerRegs == <<ctl, data, initial_data>>
timerVars == <<ctl, data, initial_data, start_time, is_scheduled, running_timers>>

TimerOverflow(i) == <<"TimerOverflow", i>>
TimerIrq(i) == <<"Timer_Overflow", i>>

Tick(c) == TickCycles[c.prescalar]

\* ticks_to_overflow() << prescalar_shift after t: when a count from `value` ends.
OverflowTimeShort(t, value, c) == t + (CounterMod - 1 - value) * Tick(c)

OverflowTime(t, value, c) == t + (CounterMod - value) * Tick(c)

TimersInit ==
  /\ ctl = [i \in TimerIds |-> [prescalar |-> 0, cascade |-> FALSE,
                                irq_enabled |-> FALSE, enabled |-> FALSE]]
  /\ data = [i \in TimerIds |-> 0]
  /\ initial_data = [i \in TimerIds |-> 0]
  /\ start_time = [i \in TimerIds |-> 0]
  /\ is_scheduled = [i \in TimerIds |-> FALSE]
  /\ running_timers = {}

-----------------------------------------------------------------------------
\* The effect of the register accesses, at time `now`.

\* TMxCNT_L: sets the reload value and, unlike the hardware, the counter.
TimerWriteReload(i, v) ==
  /\ data' = [data EXCEPT ![i] = v]
  /\ initial_data' = [initial_data EXCEPT ![i] = v]
  /\ UNCHANGED <<ctl, start_time, is_scheduled, running_timers, events, interrupt_flags>>

CancelTimerForgotten(i) == events

CancelTimer(i) == CancelPending(events, TimerOverflow(i))

\* write_timer_ctl: any write restarts or stops the count.
TimerWriteCtl(i, new, now) ==
  LET start == new.enabled /\ ~new.cascade
  IN /\ ctl' = [ctl EXCEPT ![i] = new]
     /\ running_timers' = IF start THEN running_timers \cup {i}
                                   ELSE running_timers \ {i}
     /\ is_scheduled' = [is_scheduled EXCEPT ![i] = start]
     /\ start_time' = IF start THEN [start_time EXCEPT ![i] = now] ELSE start_time
     /\ events' = IF start
                    THEN CancelTimer(i) \cup
                         {EventAt(TimerOverflow(i), OverflowTime(now, data[i], new))}
                    ELSE CancelTimer(i)
     /\ UNCHANGED <<data, initial_data, interrupt_flags>>

\* sync_timer_data; u16 arithmetic, which wraps in the release profile.
Synced(i, now) ==
  (data[i] + ((now - start_time[i]) \div Tick(ctl[i]))) % CounterMod

\* read_timer_data: the value returned is data'[i].
TimerRead(i, now) ==
  /\ data' = IF is_scheduled[i] THEN [data EXCEPT ![i] = Synced(i, now)] ELSE data
  /\ UNCHANGED <<ctl, initial_data, start_time, is_scheduled, running_timers,
                 events, interrupt_flags>>

-----------------------------------------------------------------------------
\* handle_timer_overflow recurses upwards while the next timer cascades and
\* stands at its last value: these are the timers one overflow event overflows.
OverflowingOneLevel(i) ==
  {j \in {i, i + 1} \cap TimerIds :
     j > i => ctl[j].cascade /\ data[j] = CounterMod - 1}

Overflowing(i) ==
  {j \in TimerIds : /\ j >= i
                    /\ \A k \in (i + 1)..j : ctl[k].cascade /\ data[k] = CounterMod - 1}

\* The timer that counts the last of those overflows without overflowing.
Counting(i) ==
  {j \in TimerIds \ Overflowing(i) : j - 1 \in Overflowing(i) /\ ctl[j].cascade}

\* The count restarts at the time of the event, not at the time it is handled.
NextOverflowFromNow(i, t) ==
  EventAt(TimerOverflow(i), OverflowTime(timestamp, initial_data[i], ctl[i]))

NextOverflow(i, t) ==
  EventAt(TimerOverflow(i), OverflowTime(t, initial_data[i], ctl[i]))

\* handle_overflow_event
HandleTimerOverflow(e, i) ==
  /\ e.typ = TimerOverflow(i)
  /\ data' = [j \in TimerIds |-> IF j \in Overflowing(i) THEN initial_data[j]
                                 ELSE IF j \in Counting(i) THEN data[j] + 1
                                 ELSE data[j]]
  /\ interrupt_flags' = Requested(interrupt_flags,
                          {TimerIrq(j) : j \in {k \in Overflowing(i) : ctl[k].irq_enabled}})
  /\ is_scheduled' = [is_scheduled EXCEPT ![i] = TRUE]
  /\ start_time' = [start_time EXCEPT ![i] = e.time]
  /\ HandleEvent(e, {NextOverflow(i, e.time)})
  /\ UNCHANGED <<ctl, initial_data, running_timers>>

-----------------------------------------------------------------------------
\* The timers alone, driven by a program that accesses their registers.  A step
\* of the CPU takes d cycles, and the access happens after c of them.
tvars == <<schedVars, timerVars, interrupt_flags>>

Idle(d) == Elapse(d) /\ UNCHANGED <<events, timerVars, interrupt_flags>>

CpuWriteReload(i, v, d) == Elapse(d) /\ TimerWriteReload(i, v)

CpuWriteCtl(i, new, c, d) == Elapse(d) /\ TimerWriteCtl(i, new, timestamp + c)

CpuRead(i, c, d) == Elapse(d) /\ TimerRead(i, timestamp + c)

CpuAcknowledge(i, d) ==
  /\ Elapse(d)
  /\ interrupt_flags' = Acknowledged(interrupt_flags, {TimerIrq(i)})
  /\ UNCHANGED <<events, timerVars>>

TimerEvent == \E e \in events, i \in TimerIds : HandleTimerOverflow(e, i)

TInit == SchedInit({}) /\ TimersInit /\ interrupt_flags = {}

TNext == \/ \E d \in 1..MaxStep : Idle(d)
         \/ \E d \in 1..MaxStep, i \in TimerIds : CpuAcknowledge(i, d)
         \/ \E d \in 1..MaxStep, i \in TimerIds, v \in Reloads : CpuWriteReload(i, v, d)
         \/ \E d \in 1..MaxStep : \E c \in 1..d, i \in TimerIds, new \in Controls :
              CpuWriteCtl(i, new, c, d)
         \/ \E d \in 1..MaxStep : \E c \in 1..d, i \in ReadTimers : CpuRead(i, c, d)
         \/ TimerEvent

TSpec == TInit /\ [][TNext]_tvars

-----------------------------------------------------------------------------
\* The type invariant of the timers and of the scheduler that carries them.
TimersTypeOK ==
  /\ timestamp \in 0..Horizon /\ handling \in BOOLEAN
  /\ events \subseteq [typ : {TimerOverflow(i) : i \in TimerIds}, time : Nat]
  /\ ctl \in [TimerIds -> TimerCtl]
  /\ data \in [TimerIds -> Counts] /\ initial_data \in [TimerIds -> Counts]
  /\ start_time \in [TimerIds -> Nat] /\ is_scheduled \in [TimerIds -> BOOLEAN]
  /\ running_timers \subseteq TimerIds
  /\ interrupt_flags \subseteq {TimerIrq(i) : i \in TimerIds}

OverflowEvents(i) == {e \in events : e.typ = TimerOverflow(i)}

\* The flag, the mask, the control register and the scheduler agree on which
\* timers run: a running timer has one overflow event ahead, whatever sequence
\* of starts, stops and late handlers came before; any other has none, so it
\* can neither tick twice as fast nor overflow after it was stopped.
OneOverflowEvent ==
  \A i \in TimerIds :
    /\ is_scheduled[i] <=> ctl[i].enabled /\ ~ctl[i].cascade
    /\ is_scheduled[i] <=> i \in running_timers
    /\ is_scheduled[i] => \E e \in events : OverflowEvents(i) = {e}
    /\ ~is_scheduled[i] => OverflowEvents(i) = {}

\* A count began in the past (read_timer_data subtracts its start from the
\* clock, unsigned), and ends a whole number of ticks later: at least one, so
\* that an overflow never reschedules itself at its own time, and no more than
\* the counter holds.
CountIsSound ==
  \A i \in TimerIds : is_scheduled[i] =>
    /\ start_time[i] <= timestamp
    /\ \A e \in OverflowEvents(i) : \E n \in 1..CounterMod :
         e.time = start_time[i] + n * Tick(ctl[i])
=============================================================================
