------------------------------ MODULE GbaProofs ------------------------------
(***************************************************************************)
(* The timers, the run loop and the console.                               *)
(*                                                                         *)
(* For every number of timers, counter width, prescaler table, program and *)
(* step length: the timers and the scheduler agree on which timers run,    *)
(* counts are sound, and no event is overdue by more than one step.        *)
(*                                                                         *)
(* The four invariants are inductive only together: that a rescheduled     *)
(* event lies ahead of the one it follows needs the types of the counters; *)
(* that stopping a timer removes its only event needs uniqueness; and that *)
(* a count began in the past needs that only due events are handled.       *)
(*                                                                         *)
(* With the history: what was proved of the timers holds of them with it   *)
(* (it only watches), no overflow drifts, and cascades count exactly.      *)
(*                                                                         *)
(* Then the run loop's promises to its callers and to its unchecked peek,  *)
(* for arbitrary devices, any latency and any pattern of breakpoints; that *)
(* the console, with all its devices, is such a run loop; and that its     *)
(* timers, DMA and sound never overfill a FIFO.                            *)
(***************************************************************************)
EXTENDS Gba, TimersHistory, WellFoundedInduction, TLAPS

-----------------------------------------------------------------------------
\* The timers.

TimersInv == /\ TimersTypeOK
             /\ OneOverflowEvent
             /\ CountIsSound
             /\ LatencyBounded

\* A count ends a whole number of ticks after it begins, at least one.
LEMMA OverflowTimeSound ==
  ASSUME NEW t \in Nat, NEW v \in Counts, NEW c \in TimerCtl
  PROVE  /\ OverflowTime(t, v, c) \in Nat
         /\ OverflowTime(t, v, c) > t
         /\ \E n \in 1..CounterMod : OverflowTime(t, v, c) = t + n * Tick(c)
<1>1. Tick(c) \in Nat /\ Tick(c) >= 1
  BY TimersAssumption DEF Tick, TimerCtl
<1> DEFINE n == CounterMod - v
<1>2. n \in 1..CounterMod /\ n \in Nat
  BY TimersAssumption DEF Counts
<1>3. OverflowTime(t, v, c) = t + n * Tick(c)
  BY DEF OverflowTime
<1> HIDE DEF n
<1>4. \A a, b \in Nat : a >= 1 /\ b >= 1 => a * b \in Nat /\ a * b >= 1
  OBVIOUS
<1>5. n * Tick(c) \in Nat /\ n * Tick(c) >= 1
  BY <1>1, <1>2, <1>4
<1> QED BY <1>2, <1>3, <1>5

\* Events of different timers are different.
LEMMA TypesDiffer ==
  ASSUME NEW i, NEW j
  PROVE  TimerOverflow(i) = TimerOverflow(j) <=> i = j
BY DEF TimerOverflow

LEMMA TimersInitInv == TInit => TimersInv
<1> SUFFICES ASSUME TInit PROVE TimersInv
  OBVIOUS
<1> USE DEF TInit, SchedInit, TimersInit
<1>1. TimersTypeOK
  <2>1. [prescalar |-> 0, cascade |-> FALSE, irq_enabled |-> FALSE, enabled |-> FALSE]
          \in TimerCtl
    BY TimersAssumption DEF TimerCtl
  <2>2. 0 \in Counts /\ timestamp \in 0..Horizon
    BY TimersAssumption, SchedulerAssumption DEF Counts
  <2> QED BY <2>1, <2>2 DEF TimersTypeOK
<1>2. OneOverflowEvent
  <2> SUFFICES ASSUME NEW i \in TimerIds
               PROVE  /\ is_scheduled[i] <=> ctl[i].enabled /\ ~ctl[i].cascade
                      /\ is_scheduled[i] <=> i \in running_timers
                      /\ ~is_scheduled[i] /\ OverflowEvents(i) = {}
    BY DEF OneOverflowEvent
  <2>1. ctl[i].enabled = FALSE /\ is_scheduled[i] = FALSE
    OBVIOUS
  <2> QED BY <2>1 DEF OverflowEvents
<1>3. CountIsSound
  BY DEF CountIsSound
<1>4. LatencyBounded
  BY DEF LatencyBounded
<1> QED BY <1>1, <1>2, <1>3, <1>4 DEF TimersInv

\* Time passing disturbs nothing but the delay, and that stays within a step.
LEMMA ElapseInv ==
  ASSUME TimersInv, NEW d \in 1..MaxStep, Elapse(d), UNCHANGED events
  PROVE  /\ timestamp' \in 0..Horizon /\ handling' \in BOOLEAN
         /\ timestamp' > timestamp /\ timestamp' <= timestamp + MaxStep
         /\ LatencyBounded'
<1>1. /\ timestamp' = timestamp + d /\ timestamp + d <= Horizon
      /\ handling' = handling /\ \A e \in events : timestamp <= e.time
  BY DEF Elapse, MayStep
<1>2. /\ timestamp \in Nat /\ Horizon \in Nat /\ d \in Nat /\ d >= 1 /\ d <= MaxStep
      /\ handling \in BOOLEAN /\ MaxStep \in Nat
      /\ \A e \in events : e.time \in Nat
  BY SchedulerAssumption DEF TimersInv, TimersTypeOK
<1>3. LatencyBounded'
  BY <1>1, <1>2 DEF LatencyBounded
<1> QED BY <1>1, <1>2, <1>3

\* A step that only moves the clock and the counters keeps the invariant.
LEMMA QuietStepInv ==
  ASSUME TimersInv, NEW d \in 1..MaxStep, Elapse(d),
         UNCHANGED <<events, ctl, start_time, is_scheduled, running_timers>>,
         data' \in [TimerIds -> Counts], initial_data' \in [TimerIds -> Counts],
         interrupt_flags' \subseteq {TimerIrq(i) : i \in TimerIds}
  PROVE  TimersInv'
<1>1. /\ timestamp' \in 0..Horizon /\ handling' \in BOOLEAN
      /\ timestamp' > timestamp /\ LatencyBounded'
  BY ElapseInv
<1>2. TimersTypeOK'
  BY <1>1 DEF TimersInv, TimersTypeOK
<1>3. OneOverflowEvent'
  BY DEF TimersInv, OneOverflowEvent, OverflowEvents
<1>4. CountIsSound'
  <2> SUFFICES ASSUME NEW i \in TimerIds, is_scheduled[i]
               PROVE  /\ start_time[i] <= timestamp'
                      /\ \A e \in OverflowEvents(i) : \E n \in 1..CounterMod :
                           e.time = start_time[i] + n * Tick(ctl[i])
    BY DEF CountIsSound, OverflowEvents
  <2>1. start_time[i] <= timestamp /\ start_time[i] \in Nat /\ timestamp \in Nat
    BY SchedulerAssumption DEF TimersInv, CountIsSound, TimersTypeOK
  <2>2. timestamp' \in Nat
    BY <1>1, SchedulerAssumption
  <2> QED BY <1>1, <2>1, <2>2 DEF TimersInv, CountIsSound
<1> QED BY <1>1, <1>2, <1>3, <1>4 DEF TimersInv

\* Starting or stopping a timer replaces its event, and no other.
LEMMA WriteCtlInv ==
  ASSUME TimersInv, NEW d \in 1..MaxStep, NEW c \in 1..d, NEW i \in TimerIds,
         NEW new \in Controls, CpuWriteCtl(i, new, c, d)
  PROVE  TimersInv'
<1> DEFINE now == timestamp + c
           start == new.enabled /\ ~new.cascade
           over == EventAt(TimerOverflow(i), OverflowTime(now, data[i], new))
<1>0. new \in TimerCtl /\ new.enabled \in BOOLEAN /\ new.cascade \in BOOLEAN
  BY TimersAssumption DEF TimerCtl
<1>1. /\ timestamp \in Nat /\ timestamp' = timestamp + d /\ timestamp' \in 0..Horizon
      /\ timestamp' \in Nat /\ handling' \in BOOLEAN
      /\ now \in Nat /\ now <= timestamp' /\ timestamp' <= now + MaxStep
      /\ \A e \in events : timestamp <= e.time /\ e.time \in Nat
      /\ MaxStep \in Nat /\ timestamp' <= timestamp + MaxStep
  BY SchedulerAssumption DEF TimersInv, TimersTypeOK, CpuWriteCtl, Elapse, MayStep
<1>2. /\ ctl' = [ctl EXCEPT ![i] = new]
      /\ running_timers' = IF start THEN running_timers \cup {i} ELSE running_timers \ {i}
      /\ is_scheduled' = [is_scheduled EXCEPT ![i] = start]
      /\ start_time' = IF start THEN [start_time EXCEPT ![i] = now] ELSE start_time
      /\ UNCHANGED <<data, initial_data, interrupt_flags>>
      /\ events' = IF start THEN CancelTimer(i) \cup {over} ELSE CancelTimer(i)
  BY DEF CpuWriteCtl, TimerWriteCtl
<1>3. data[i] \in Counts
  BY DEF TimersInv, TimersTypeOK
<1>4. /\ over.typ = TimerOverflow(i) /\ over.time \in Nat /\ over.time > now
      /\ over \in [typ : {TimerOverflow(j) : j \in TimerIds}, time : Nat]
      /\ \E n \in 1..CounterMod : over.time = now + n * Tick(new)
  BY <1>0, <1>1, <1>3, OverflowTimeSound DEF EventAt
<1> HIDE DEF over, now
<1>5. TimersTypeOK'
  <2>1. events' \subseteq [typ : {TimerOverflow(j) : j \in TimerIds}, time : Nat]
    BY <1>2, <1>4 DEF TimersInv, TimersTypeOK, CancelTimer, CancelPending
  <2>2. start_time' \in [TimerIds -> Nat] /\ ctl' \in [TimerIds -> TimerCtl]
    BY <1>0, <1>1, <1>2 DEF TimersInv, TimersTypeOK
  <2>3. is_scheduled' \in [TimerIds -> BOOLEAN] /\ running_timers' \subseteq TimerIds
    BY <1>0, <1>2 DEF TimersInv, TimersTypeOK
  <2> QED BY <1>1, <1>2, <2>1, <2>2, <2>3 DEF TimersInv, TimersTypeOK
<1>6. \A j \in TimerIds : j # i => OverflowEvents(j)' = OverflowEvents(j)
  BY <1>2, <1>4, TypesDiffer DEF OverflowEvents, CancelTimer, CancelPending
<1>7. OverflowEvents(i)' = IF start THEN {over} ELSE {}
  BY <1>2, <1>4 DEF OverflowEvents, CancelTimer, CancelPending
<1>8. OneOverflowEvent'
  <2> SUFFICES ASSUME NEW j \in TimerIds
               PROVE  /\ is_scheduled'[j] <=> ctl'[j].enabled /\ ~ctl'[j].cascade
                      /\ is_scheduled'[j] <=> j \in running_timers'
                      /\ is_scheduled'[j] => \E e \in events' : OverflowEvents(j)' = {e}
                      /\ ~is_scheduled'[j] => OverflowEvents(j)' = {}
    BY DEF OneOverflowEvent
  <2>0. ctl \in [TimerIds -> TimerCtl] /\ is_scheduled \in [TimerIds -> BOOLEAN]
    BY DEF TimersInv, TimersTypeOK
  <2>1. CASE j = i
    <3>1. is_scheduled'[j] = start /\ ctl'[j] = new
      BY <1>2, <2>0, <2>1
    <3>2. start => over \in events'
      BY <1>2
    <3>3. start <=> j \in running_timers'
      BY <1>2, <2>1
    <3> QED BY <1>7, <2>1, <3>1, <3>2, <3>3
  <2>2. CASE j # i
    <3>1. /\ is_scheduled'[j] = is_scheduled[j] /\ ctl'[j] = ctl[j]
          /\ j \in running_timers' <=> j \in running_timers
      BY <1>2, <2>0, <2>2
    <3>2. OverflowEvents(j)' = OverflowEvents(j)
      BY <1>6, <2>2
    <3>3. \A e \in events : OverflowEvents(j) = {e} => e \in events'
      <4> SUFFICES ASSUME NEW e \in events, OverflowEvents(j) = {e} PROVE e \in events'
        OBVIOUS
      <4>1. e.typ = TimerOverflow(j)
        BY DEF OverflowEvents
      <4> QED BY <1>2, <2>2, <4>1, TypesDiffer DEF CancelTimer, CancelPending
    <3> QED BY <3>1, <3>2, <3>3 DEF TimersInv, OneOverflowEvent
  <2> QED BY <2>1, <2>2
<1>9. CountIsSound'
  <2> SUFFICES ASSUME NEW j \in TimerIds, is_scheduled'[j]
               PROVE  /\ start_time'[j] <= timestamp'
                      /\ \A e \in OverflowEvents(j)' : \E n \in 1..CounterMod :
                           e.time = start_time'[j] + n * Tick(ctl'[j])
    BY DEF CountIsSound, OverflowEvents
  <2>0. /\ ctl \in [TimerIds -> TimerCtl] /\ is_scheduled \in [TimerIds -> BOOLEAN]
        /\ start_time \in [TimerIds -> Nat]
    BY DEF TimersInv, TimersTypeOK
  <2>1. CASE j = i
    <3>1. start /\ start_time'[j] = now /\ ctl'[j] = new
      BY <1>2, <2>0, <2>1
    <3> QED BY <1>1, <1>4, <1>7, <2>1, <3>1
  <2>2. CASE j # i
    <3>1. is_scheduled[j] /\ start_time'[j] = start_time[j] /\ ctl'[j] = ctl[j]
      BY <1>2, <2>0, <2>2
    <3>2. start_time[j] <= timestamp /\ start_time[j] \in Nat
      BY <2>0, <3>1 DEF TimersInv, CountIsSound
    <3>3. start_time[j] <= timestamp'
      BY <1>1, <3>2
    <3> QED BY <1>6, <2>2, <3>1, <3>3 DEF TimersInv, CountIsSound
  <2> QED BY <2>1, <2>2
<1>10. LatencyBounded'
  <2> SUFFICES ASSUME NEW e \in events' PROVE timestamp' <= e.time + MaxStep
    BY DEF LatencyBounded
  <2>1. CASE e \in events
    BY <1>1, <2>1
  <2>2. CASE e = over
    BY <1>1, <1>4, <2>2
  <2> QED BY <1>2, <2>1, <2>2 DEF CancelTimer, CancelPending
<1> QED BY <1>5, <1>8, <1>9, <1>10 DEF TimersInv

\* A register access or a tick of an idle CPU.
LEMMA CpuStepInv ==
  ASSUME TimersInv, NEW d \in 1..MaxStep
  PROVE  /\ Idle(d) => TimersInv'
         /\ \A i \in TimerIds : CpuAcknowledge(i, d) => TimersInv'
         /\ \A i \in TimerIds, v \in Reloads : CpuWriteReload(i, v, d) => TimersInv'
         /\ \A c \in 1..d, i \in TimerIds : CpuRead(i, c, d) => TimersInv'
<1>0. /\ data \in [TimerIds -> Counts] /\ initial_data \in [TimerIds -> Counts]
      /\ interrupt_flags \subseteq {TimerIrq(i) : i \in TimerIds}
      /\ ctl \in [TimerIds -> TimerCtl] /\ start_time \in [TimerIds -> Nat]
  BY DEF TimersInv, TimersTypeOK
<1>1. ASSUME Idle(d) PROVE TimersInv'
  BY <1>0, <1>1, QuietStepInv DEF Idle, timerVars
<1>2. ASSUME NEW i \in TimerIds, CpuAcknowledge(i, d) PROVE TimersInv'
  <2>1. interrupt_flags' \subseteq {TimerIrq(j) : j \in TimerIds}
    BY <1>0, <1>2 DEF CpuAcknowledge, Acknowledged
  <2> QED BY <1>0, <1>2, <2>1, QuietStepInv DEF CpuAcknowledge, timerVars
<1>3. ASSUME NEW i \in TimerIds, NEW v \in Reloads, CpuWriteReload(i, v, d)
      PROVE  TimersInv'
  <2>1. v \in Counts
    BY TimersAssumption
  <2>2. /\ data' = [data EXCEPT ![i] = v] /\ initial_data' = [initial_data EXCEPT ![i] = v]
        /\ UNCHANGED <<ctl, start_time, is_scheduled, running_timers, events, interrupt_flags>>
        /\ Elapse(d)
    BY <1>3 DEF CpuWriteReload, TimerWriteReload
  <2>3. data' \in [TimerIds -> Counts] /\ initial_data' \in [TimerIds -> Counts]
    BY <1>0, <2>1, <2>2
  <2> QED BY <1>0, <2>2, <2>3, QuietStepInv
<1>4. ASSUME NEW c \in 1..d, NEW i \in TimerIds, CpuRead(i, c, d) PROVE TimersInv'
  <2>1. /\ data' = IF is_scheduled[i] THEN [data EXCEPT ![i] = Synced(i, timestamp + c)] ELSE data
        /\ UNCHANGED <<ctl, initial_data, start_time, is_scheduled, running_timers,
                       events, interrupt_flags>>
        /\ Elapse(d)
    BY <1>4 DEF CpuRead, TimerRead
  <2>2. ASSUME is_scheduled[i] PROVE Synced(i, timestamp + c) \in Counts
    <3>1. start_time[i] <= timestamp
      BY <2>2 DEF TimersInv, CountIsSound
    <3>2. Tick(ctl[i]) \in Nat \ {0} /\ data[i] \in Nat
      BY <1>0, TimersAssumption DEF Tick, TimerCtl, Counts
    <3>3. timestamp \in Nat /\ c \in Nat /\ start_time[i] \in Nat
      BY <1>0, SchedulerAssumption DEF TimersInv, TimersTypeOK
    <3> DEFINE t == (timestamp + c) - start_time[i]
               q == t \div Tick(ctl[i])
    <3>4. t \in Nat
      BY <3>1, <3>3
    <3> HIDE DEF t
    <3>5. q \in Nat
      BY <3>2, <3>4
    <3> HIDE DEF q
    <3>6. data[i] + q \in Nat /\ CounterMod \in Nat \ {0}
      BY <3>2, <3>5, TimersAssumption
    <3> DEFINE s == data[i] + q
    <3> HIDE DEF s
    <3>7. s \in Nat
      BY <3>6 DEF s
    <3>8. s % CounterMod \in 0..(CounterMod - 1)
      BY <3>6, <3>7
    <3> QED BY <3>8 DEF Synced, Counts, s, q, t
  <2>3. data' \in [TimerIds -> Counts]
    BY <1>0, <2>1, <2>2
  <2> QED BY <1>0, <2>1, <2>3, QuietStepInv
<1> QED BY <1>1, <1>2, <1>3, <1>4

\* A timer at its last value either overflows or is not reached.
LEMMA CountingBelowLast ==
  ASSUME NEW i \in TimerIds, NEW j \in Counting(i)
  PROVE  data[j] # CounterMod - 1
<1>1. /\ j \in TimerIds /\ j \notin Overflowing(i) /\ j - 1 \in Overflowing(i)
      /\ ctl[j].cascade
  BY DEF Counting
<1>2. /\ j - 1 >= i /\ j \in Int /\ i \in Int /\ j >= i
      /\ \A k \in (i + 1)..(j - 1) : ctl[k].cascade /\ data[k] = CounterMod - 1
  BY <1>1, TimersAssumption DEF Overflowing, TimerIds
<1>3. SUFFICES ASSUME data[j] = CounterMod - 1 PROVE FALSE
  OBVIOUS
<1>4. \A k \in (i + 1)..j : k \in (i + 1)..(j - 1) \/ k = j
  BY <1>2
<1>5. \A k \in (i + 1)..j : ctl[k].cascade /\ data[k] = CounterMod - 1
  BY <1>1, <1>2, <1>3, <1>4
<1> QED BY <1>1, <1>2, <1>5 DEF Overflowing

\* Handling an overflow replaces the event by a later one of the same timer.
LEMMA TimerEventInv ==
  ASSUME TimersInv, NEW e \in events, NEW i \in TimerIds, HandleTimerOverflow(e, i)
  PROVE  TimersInv'
<1> DEFINE next == NextOverflow(i, e.time)
<1>0. /\ data \in [TimerIds -> Counts] /\ initial_data \in [TimerIds -> Counts]
      /\ interrupt_flags \subseteq {TimerIrq(j) : j \in TimerIds}
      /\ ctl \in [TimerIds -> TimerCtl] /\ start_time \in [TimerIds -> Nat]
      /\ is_scheduled \in [TimerIds -> BOOLEAN] /\ running_timers \subseteq TimerIds
      /\ events \subseteq [typ : {TimerOverflow(j) : j \in TimerIds}, time : Nat]
      /\ timestamp \in 0..Horizon /\ MaxStep \in Nat /\ timestamp \in Nat
  BY SchedulerAssumption DEF TimersInv, TimersTypeOK
<1>1. /\ e.typ = TimerOverflow(i) /\ e.time <= timestamp /\ e.time \in Nat
      /\ timestamp <= e.time + MaxStep
      /\ events' = (events \ {e}) \cup {next}
      /\ timestamp' = timestamp /\ handling' \in BOOLEAN
      /\ is_scheduled' = [is_scheduled EXCEPT ![i] = TRUE]
      /\ start_time' = [start_time EXCEPT ![i] = e.time]
      /\ UNCHANGED <<ctl, initial_data, running_timers>>
  <2>1. e.time \in Nat
    BY <1>0
  <2>2. timestamp <= e.time + MaxStep
    BY DEF TimersInv, LatencyBounded
  <2>3. HandleEvent(e, {next})
    BY DEF HandleTimerOverflow
  <2>4. e.time <= timestamp /\ events' = (events \ {e}) \cup {next} /\ timestamp' = timestamp
    BY <2>1, <2>3, <1>0 DEF HandleEvent, PendingEvents
  <2>5. handling' \in BOOLEAN
    BY <2>3 DEF HandleEvent
  <2> QED BY <2>1, <2>2, <2>4, <2>5 DEF HandleTimerOverflow
<1>2. /\ next.typ = TimerOverflow(i) /\ next.time \in Nat /\ next.time > e.time
      /\ next \in [typ : {TimerOverflow(j) : j \in TimerIds}, time : Nat]
      /\ \E n \in 1..CounterMod : next.time = e.time + n * Tick(ctl[i])
  <2>1. initial_data[i] \in Counts /\ ctl[i] \in TimerCtl
    BY <1>0
  <2> QED BY <1>1, <2>1, OverflowTimeSound DEF NextOverflow, EventAt
<1> HIDE DEF next
<1>3. is_scheduled[i] /\ OverflowEvents(i) = {e}
  <2>1. e \in OverflowEvents(i)
    BY <1>1 DEF OverflowEvents
  <2> QED BY <2>1 DEF TimersInv, OneOverflowEvent
<1>4. TimersTypeOK'
  <2>1. data' \in [TimerIds -> Counts]
    <3>1. data' = [j \in TimerIds |-> IF j \in Overflowing(i) THEN initial_data[j]
                                      ELSE IF j \in Counting(i) THEN data[j] + 1
                                      ELSE data[j]]
      BY DEF HandleTimerOverflow
    <3>2. ASSUME NEW j \in Counting(i) PROVE data[j] + 1 \in Counts
      <4>1. j \in TimerIds /\ data[j] # CounterMod - 1
        BY CountingBelowLast DEF Counting
      <4> QED BY <1>0, <4>1, TimersAssumption DEF Counts
    <3> QED BY <1>0, <3>1, <3>2
  <2>2. interrupt_flags' \subseteq {TimerIrq(j) : j \in TimerIds}
    <3>1. Overflowing(i) \subseteq TimerIds
      BY DEF Overflowing
    <3> QED BY <1>0, <3>1 DEF HandleTimerOverflow, Requested
  <2>3. start_time' \in [TimerIds -> Nat] /\ is_scheduled' \in [TimerIds -> BOOLEAN]
    BY <1>0, <1>1
  <2>4. events' \subseteq [typ : {TimerOverflow(j) : j \in TimerIds}, time : Nat]
    BY <1>0, <1>1, <1>2
  <2> QED BY <1>0, <1>1, <2>1, <2>2, <2>3, <2>4 DEF TimersTypeOK
<1>5. OverflowEvents(i)' = {next}
  BY <1>1, <1>2, <1>3 DEF OverflowEvents
<1>6. \A j \in TimerIds : j # i => OverflowEvents(j)' = OverflowEvents(j)
  BY <1>1, <1>2, TypesDiffer DEF OverflowEvents
<1>7. OneOverflowEvent'
  <2> SUFFICES ASSUME NEW j \in TimerIds
               PROVE  /\ is_scheduled'[j] <=> ctl[j].enabled /\ ~ctl[j].cascade
                      /\ is_scheduled'[j] <=> j \in running_timers
                      /\ is_scheduled'[j] => \E f \in events' : OverflowEvents(j)' = {f}
                      /\ ~is_scheduled'[j] => OverflowEvents(j)' = {}
    BY <1>1 DEF OneOverflowEvent
  <2>1. is_scheduled'[j] = is_scheduled[j]
    BY <1>0, <1>1, <1>3
  <2>2. CASE j = i
    BY <1>1, <1>3, <1>5, <2>1, <2>2 DEF TimersInv, OneOverflowEvent
  <2>3. CASE j # i
    <3>1. \A f \in events : OverflowEvents(j) = {f} => f \in events'
      <4> SUFFICES ASSUME NEW f \in events, OverflowEvents(j) = {f} PROVE f \in events'
        OBVIOUS
      <4>1. f.typ = TimerOverflow(j)
        BY DEF OverflowEvents
      <4> QED BY <1>1, <2>3, <4>1, TypesDiffer
    <3> QED BY <1>6, <2>1, <2>3, <3>1 DEF TimersInv, OneOverflowEvent
  <2> QED BY <2>2, <2>3
<1>8. CountIsSound'
  <2> SUFFICES ASSUME NEW j \in TimerIds, is_scheduled'[j]
               PROVE  /\ start_time'[j] <= timestamp'
                      /\ \A f \in OverflowEvents(j)' : \E n \in 1..CounterMod :
                           f.time = start_time'[j] + n * Tick(ctl'[j])
    BY DEF CountIsSound, OverflowEvents
  <2>1. CASE j = i
    <3>1. start_time'[j] = e.time /\ ctl'[j] = ctl[j]
      BY <1>0, <1>1, <2>1
    <3> QED BY <1>1, <1>2, <1>5, <2>1, <3>1
  <2>2. CASE j # i
    <3>1. is_scheduled[j] /\ start_time'[j] = start_time[j] /\ ctl'[j] = ctl[j]
      BY <1>0, <1>1, <2>2
    <3> QED BY <1>1, <1>6, <2>2, <3>1 DEF TimersInv, CountIsSound
  <2> QED BY <2>1, <2>2
<1>9. LatencyBounded'
  <2> SUFFICES ASSUME NEW f \in events' PROVE timestamp <= f.time + MaxStep
    BY <1>1 DEF LatencyBounded
  <2>1. CASE f \in events
    BY <2>1 DEF TimersInv, LatencyBounded
  <2>2. CASE f = next
    BY <1>0, <1>1, <1>2, <2>2
  <2> QED BY <1>1, <2>1, <2>2
<1> QED BY <1>4, <1>7, <1>8, <1>9 DEF TimersInv

LEMMA TimersStepInv == TimersInv /\ [TNext]_tvars => TimersInv'
<1> SUFFICES ASSUME TimersInv, [TNext]_tvars PROVE TimersInv'
  OBVIOUS
<1>1. CASE \E d \in 1..MaxStep : Idle(d)
  BY <1>1, CpuStepInv
<1>2. CASE \E d \in 1..MaxStep, i \in TimerIds : CpuAcknowledge(i, d)
  BY <1>2, CpuStepInv
<1>3. CASE \E d \in 1..MaxStep, i \in TimerIds, v \in Reloads : CpuWriteReload(i, v, d)
  BY <1>3, CpuStepInv
<1>4. CASE \E d \in 1..MaxStep : \E c \in 1..d, i \in TimerIds, new \in Controls :
             CpuWriteCtl(i, new, c, d)
  BY <1>4, WriteCtlInv
<1>5. CASE \E d \in 1..MaxStep : \E c \in 1..d, i \in ReadTimers : CpuRead(i, c, d)
  BY <1>5, CpuStepInv, TimersAssumption
<1>6. CASE TimerEvent
  BY <1>6, TimerEventInv DEF TimerEvent
<1>7. CASE UNCHANGED tvars
  BY <1>7 DEF tvars, schedVars, timerVars, TimersInv, TimersTypeOK, OneOverflowEvent,
              OverflowEvents, CountIsSound, LatencyBounded
<1> QED BY <1>1, <1>2, <1>3, <1>4, <1>5, <1>6, <1>7 DEF TNext

LEMMA TimersInvariant == TSpec => []TimersInv
BY TimersInitInv, TimersStepInv, PTL DEF TSpec

-----------------------------------------------------------------------------
\* Counters keep their width, and every event in the scheduler is a timer's.
THEOREM TimersTypeCorrect == TSpec => []TimersTypeOK
<1>1. TimersInv => TimersTypeOK
  BY DEF TimersInv
<1> QED BY <1>1, TimersInvariant, PTL

\* Whatever the program does, a running timer has exactly one overflow event,
\* a stopped or cascading one has none.
THEOREM TimersOneOverflowEvent == TSpec => []OneOverflowEvent
<1>1. TimersInv => OneOverflowEvent
  BY DEF TimersInv
<1> QED BY <1>1, TimersInvariant, PTL

\* A count began in the past and ends 1 to 2^16 whole ticks later: the unsigned
\* subtraction of read_timer_data never wraps, and an overflow event never
\* reschedules itself at its own time.
THEOREM TimersCountIsSound == TSpec => []CountIsSound
<1>1. TimersInv => CountIsSound
  BY DEF TimersInv
<1> QED BY <1>1, TimersInvariant, PTL

\* No overflow is ever handled more than one CPU step late.
THEOREM TimersLatencyBounded == TSpec => []LatencyBounded
<1>1. TimersInv => LatencyBounded
  BY DEF TimersInv
<1> QED BY <1>1, TimersInvariant, PTL

-----------------------------------------------------------------------------
\* Division with remainder, and what it says of counting by one.
LEMMA DivMod ==
  ASSUME NEW m \in Nat \ {0}, NEW k \in Nat
  PROVE  k = m * (k \div m) + (k % m) /\ k % m \in 0..(m - 1) /\ k \div m \in Nat
OBVIOUS

LEMMA SmallMultiple ==
  ASSUME NEW m \in Nat \ {0}, NEW a \in Int, m * a < m, m * a > 0 - m
  PROVE  a = 0
<1>1. CASE a >= 1
  BY <1>1
<1>2. CASE a <= -1
  BY <1>2
<1> QED BY <1>1, <1>2

LEMMA RemainderUnique ==
  ASSUME NEW m \in Nat \ {0}, NEW q \in Nat, NEW r \in 0..(m - 1)
  PROVE  (m * q + r) % m = r
<1> DEFINE k == m * q + r
<1>1. k \in Nat
  OBVIOUS
<1> HIDE DEF k
<1>2. k = m * (k \div m) + (k % m) /\ k % m \in 0..(m - 1) /\ k \div m \in Nat
  BY <1>1, DivMod
<1> DEFINE a == (k \div m) - q
           s == k % m
           d == m * a
<1>3. a \in Int /\ d = r - s /\ s \in 0..(m - 1) /\ d \in Int
  BY <1>2 DEF k
<1> HIDE DEF s, d, a
<1>4. d < m /\ d > 0 - m
  BY <1>3
<1>5. a = 0
  BY <1>3, <1>4, SmallMultiple DEF d
<1> QED BY <1>2, <1>3, <1>5 DEF k, a, d, s

LEMMA RemainderStep ==
  ASSUME NEW m \in Nat \ {0}, NEW k \in Nat
  PROVE  (k + 1) % m = IF k % m = m - 1 THEN 0 ELSE (k % m) + 1
<1> DEFINE q == k \div m
           r == k % m
<1>1. k = m * q + r /\ r \in 0..(m - 1) /\ q \in Nat
  BY DivMod
<1> HIDE DEF q, r
<1>2. CASE r = m - 1
  <2>1. k + 1 = m * (q + 1) + 0
    BY <1>1, <1>2
  <2>2. (k + 1) % m = 0
    BY <1>1, <2>1, RemainderUnique
  <2> QED BY <1>2, <2>2 DEF r
<1>3. CASE r # m - 1
  <2>1. k + 1 = m * q + (r + 1) /\ r + 1 \in 0..(m - 1)
    BY <1>1, <1>3
  <2>2. (k + 1) % m = r + 1
    BY <1>1, <2>1, RemainderUnique
  <2> QED BY <1>3, <2>2 DEF r
<1> QED BY <1>2, <1>3

\* One more tick: the counter goes up by one, or from its last value to the reload.
LEMMA CounterAfterStep ==
  ASSUME NEW c \in Counts, NEW r \in Counts, NEW n \in Nat
  PROVE  /\ CounterAfter(c, r, n) \in Counts
         /\ CounterAfter(c, r, n + 1) = IF CounterAfter(c, r, n) = CounterMod - 1
                                       THEN r ELSE CounterAfter(c, r, n) + 1
<1>0. CounterMod \in Nat \ {0} /\ c \in 0..(CounterMod - 1) /\ r \in 0..(CounterMod - 1)
  BY TimersAssumption DEF Counts
<1> DEFINE m == CounterMod - r
           k == (c + n) - CounterMod
<1>1. m \in Nat \ {0} /\ r + m = CounterMod
  BY <1>0
<1>2. CASE c + n + 1 < CounterMod
  BY <1>0, <1>2 DEF CounterAfter, Counts
<1>3. CASE c + n = CounterMod - 1
  <2>1. CounterAfter(c, r, n) = CounterMod - 1
    BY <1>0, <1>3 DEF CounterAfter
  <2>2. CounterAfter(c, r, n + 1) = r + (0 % m)
    BY <1>0, <1>3 DEF CounterAfter
  <2>3. 0 % m = 0
    BY <1>1
  <2> QED BY <1>0, <2>1, <2>2, <2>3 DEF Counts
<1>4. CASE c + n >= CounterMod
  <2>1. k \in Nat
    BY <1>0, <1>4
  <2>2. CounterAfter(c, r, n) = r + (k % m)
    BY <1>0, <1>4 DEF CounterAfter
  <2>3. CounterAfter(c, r, n + 1) = r + ((k + 1) % m)
    <3>1. c + (n + 1) - CounterMod = k + 1 /\ ~(c + (n + 1) < CounterMod)
      BY <1>0, <1>4
    <3> QED BY <3>1 DEF CounterAfter
  <2> HIDE DEF k, m
  <2>4. k % m \in 0..(m - 1)
    BY <1>1, <2>1, DivMod
  <2>5. (k + 1) % m = IF k % m = m - 1 THEN 0 ELSE (k % m) + 1
    BY <1>1, <2>1, RemainderStep
  <2> DEFINE s == k % m
             t == (k + 1) % m
  <2> HIDE DEF s, t
  <2>6. s \in 0..(m - 1) /\ t = IF s = m - 1 THEN 0 ELSE s + 1
    BY <2>4, <2>5 DEF s, t
  <2>7. CounterAfter(c, r, n) = r + s /\ CounterAfter(c, r, n + 1) = r + t
    BY <2>2, <2>3 DEF s, t
  <2> QED BY <1>0, <1>1, <2>6, <2>7 DEF Counts
<1> QED BY <1>0, <1>2, <1>3, <1>4

-----------------------------------------------------------------------------
\* The history only watches: what is proved of the timers holds with it.
LEMMA HistoryWatches == (HInit => TInit) /\ ([HNext]_hvars => [TNext]_tvars)
<1>1. HInit => TInit
  BY DEF HInit
<1>2. HNext => TNext
  BY DEF HNext, TNext, HWriteReload, HWriteCtl, HTimerEvent, TimerEvent
<1> QED BY <1>1, <1>2 DEF hvars

HistRecords == [epoch : Nat, count0 : Counts, overflows : Nat, ticks : Nat, steady : BOOLEAN]

HistInv == /\ TimersInv
           /\ hist \in [TimerIds -> HistRecords]
           /\ NoDrift
           /\ CascadeExact

LEMMA HistInitInv == HInit => HistInv
<1> SUFFICES ASSUME HInit PROVE HistInv
  OBVIOUS
<1>1. TimersInv
  BY HistoryWatches, TimersInitInv
<1>2. hist \in [TimerIds -> HistRecords]
  BY TimersAssumption DEF HInit, HistInit, HistRecords, Counts
<1>3. NoDrift /\ CascadeExact
  <2>1. \A i \in TimerIds : ~is_scheduled[i] /\ ~ctl[i].cascade
    BY DEF HInit, TInit, TimersInit
  <2> QED BY <2>1 DEF NoDrift, CascadeExact
<1> QED BY <1>1, <1>2, <1>3 DEF HistInv

\* The program's steps.
LEMMA HistCpuStep ==
  ASSUME HistInv, TimersInv', NEW d \in 1..MaxStep
  PROVE  /\ Idle(d) /\ UNCHANGED hist => HistInv'
         /\ \A i \in TimerIds : CpuAcknowledge(i, d) /\ UNCHANGED hist => HistInv'
         /\ \A i \in TimerIds, v \in Reloads : HWriteReload(i, v, d) => HistInv'
         /\ \A c \in 1..d, i \in TimerIds : CpuRead(i, c, d) /\ UNCHANGED hist => HistInv'
<1>0. /\ data \in [TimerIds -> Counts] /\ initial_data \in [TimerIds -> Counts]
      /\ ctl \in [TimerIds -> TimerCtl] /\ is_scheduled \in [TimerIds -> BOOLEAN]
      /\ hist \in [TimerIds -> HistRecords]
  BY DEF HistInv, TimersInv, TimersTypeOK
<1>1. ASSUME UNCHANGED <<events, timerVars, hist>> PROVE HistInv'
  BY <1>1 DEF HistInv, timerVars, NoDrift, CascadeExact, OverflowEvents
<1>2. ASSUME NEW i \in TimerIds, NEW v \in Reloads, HWriteReload(i, v, d) PROVE HistInv'
  <2>1. /\ data' = [data EXCEPT ![i] = v] /\ initial_data' = [initial_data EXCEPT ![i] = v]
        /\ UNCHANGED <<ctl, is_scheduled, events>>
        /\ hist' = [hist EXCEPT ![i] = [@ EXCEPT !.steady = FALSE, !.count0 = v, !.ticks = 0]]
        /\ v \in Counts
    BY <1>2, TimersAssumption DEF HWriteReload, CpuWriteReload, TimerWriteReload
  <2>2. /\ hist' \in [TimerIds -> HistRecords]
        /\ ~hist'[i].steady /\ hist'[i].count0 = v /\ hist'[i].ticks = 0
        /\ data'[i] = v /\ initial_data'[i] = v
    BY <1>0, <2>1 DEF HistRecords
  <2>3. ASSUME NEW j \in TimerIds, j # i
        PROVE  /\ hist'[j] = hist[j] /\ data'[j] = data[j] /\ initial_data'[j] = initial_data[j]
               /\ OverflowEvents(j)' = OverflowEvents(j)
    BY <1>0, <2>1, <2>3 DEF OverflowEvents
  <2>4. NoDrift'
    BY <2>1, <2>2, <2>3 DEF HistInv, NoDrift
  <2>5. CounterAfter(v, v, 0) = v
    BY <2>1, TimersAssumption DEF CounterAfter, Counts
  <2>6. CascadeExact'
    BY <2>1, <2>2, <2>3, <2>5 DEF HistInv, CascadeExact
  <2> QED BY <2>2, <2>4, <2>6 DEF HistInv
<1>3. ASSUME NEW c \in 1..d, NEW i \in TimerIds, CpuRead(i, c, d), UNCHANGED hist
      PROVE  HistInv'
  <2>1. /\ data' = IF is_scheduled[i] THEN [data EXCEPT ![i] = Synced(i, timestamp + c)] ELSE data
        /\ UNCHANGED <<ctl, initial_data, is_scheduled, events, hist>>
    BY <1>3 DEF CpuRead, TimerRead
  <2>2. NoDrift'
    BY <2>1 DEF HistInv, NoDrift, OverflowEvents
  <2>3. \A j \in TimerIds : ctl[j].cascade => data'[j] = data[j]
    BY <1>0, <2>1 DEF HistInv, TimersInv, OneOverflowEvent
  <2>4. CascadeExact'
    BY <2>1, <2>3 DEF HistInv, CascadeExact
  <2> QED BY <2>1, <2>2, <2>4 DEF HistInv
<1> QED BY <1>1, <1>2, <1>3 DEF Idle, CpuAcknowledge

\* A control write begins the history anew.
LEMMA HistWriteCtl ==
  ASSUME HistInv, TimersInv', NEW d \in 1..MaxStep, NEW c \in 1..d, NEW i \in TimerIds,
         NEW new \in Controls, HWriteCtl(i, new, c, d)
  PROVE  HistInv'
<1> DEFINE now == timestamp + c
           start == new.enabled /\ ~new.cascade
           over == EventAt(TimerOverflow(i), OverflowTime(now, data[i], new))
<1>0. /\ data \in [TimerIds -> Counts] /\ ctl \in [TimerIds -> TimerCtl]
      /\ initial_data \in [TimerIds -> Counts]
      /\ is_scheduled \in [TimerIds -> BOOLEAN] /\ hist \in [TimerIds -> HistRecords]
      /\ now \in Nat /\ new \in TimerCtl /\ CounterMod \in Nat
  BY TimersAssumption, SchedulerAssumption DEF HistInv, TimersInv, TimersTypeOK
<1>1. /\ ctl' = [ctl EXCEPT ![i] = new]
      /\ is_scheduled' = [is_scheduled EXCEPT ![i] = start]
      /\ UNCHANGED <<data, initial_data>>
      /\ events' = IF start THEN CancelTimer(i) \cup {over} ELSE CancelTimer(i)
      /\ hist' = [hist EXCEPT ![i] = [HistInit EXCEPT !.epoch = now, !.count0 = data[i]]]
  BY DEF HWriteCtl, CpuWriteCtl, TimerWriteCtl
<1>2. /\ hist'[i].epoch = now /\ hist'[i].count0 = data[i]
      /\ hist'[i].overflows = 0 /\ hist'[i].ticks = 0
      /\ hist' \in [TimerIds -> HistRecords]
  BY <1>0, <1>1 DEF HistInit, HistRecords
<1>3. /\ over.typ = TimerOverflow(i)
      /\ over.time = now + (CounterMod - data[i]) * Tick(new)
  BY DEF EventAt, OverflowTime
<1> HIDE DEF over, now, start
<1>4. OverflowEvents(i)' \subseteq {over}
  BY <1>1, <1>3 DEF OverflowEvents, CancelTimer, CancelPending
<1>5. ASSUME NEW j \in TimerIds, j # i
      PROVE  /\ OverflowEvents(j)' = OverflowEvents(j) /\ hist'[j] = hist[j]
             /\ ctl'[j] = ctl[j] /\ is_scheduled'[j] = is_scheduled[j]
  BY <1>0, <1>1, <1>3, <1>5, TypesDiffer DEF OverflowEvents, CancelTimer, CancelPending
<1>6. NoDrift'
  <2> SUFFICES ASSUME NEW j \in TimerIds, is_scheduled'[j], hist'[j].steady,
                      NEW e \in OverflowEvents(j)'
               PROVE  e.time = hist'[j].epoch
                        + ((CounterMod - hist'[j].count0)
                           + hist'[j].overflows * (CounterMod - initial_data'[j])) * Tick(ctl'[j])
    BY DEF NoDrift, OverflowEvents
  <2>1. CASE j = i
    <3>1. e = over /\ ctl'[i] = new
      BY <1>0, <1>1, <1>4, <2>1
    <3>2. (CounterMod - data[i]) + 0 * (CounterMod - initial_data'[i]) = CounterMod - data[i]
      BY <1>0, <1>1 DEF Counts
    <3> QED BY <1>2, <1>3, <2>1, <3>1, <3>2
  <2>2. CASE j # i
    BY <1>1, <1>5, <2>2 DEF HistInv, NoDrift
  <2> QED BY <2>1, <2>2
<1>7. CascadeExact'
  <2> SUFFICES ASSUME NEW j \in TimerIds, j > 0, ctl'[j].cascade
               PROVE  data'[j] = CounterAfter(hist'[j].count0, initial_data'[j], hist'[j].ticks)
    BY DEF CascadeExact
  <2>1. CASE j = i
    BY <1>0, <1>1, <1>2, <2>1, TimersAssumption DEF CounterAfter, Counts
  <2>2. CASE j # i
    BY <1>1, <1>5, <2>2 DEF HistInv, CascadeExact
  <2> QED BY <2>1, <2>2
<1> QED BY <1>2, <1>6, <1>7 DEF HistInv

\* The next overflow of a progression.
LEMMA ProgressionStep ==
  ASSUME NEW e \in Int, NEW a \in Int, NEW n \in Int, NEW b \in Int, NEW t \in Int
  PROVE  (e + (a + n * b) * t) + b * t = e + (a + (n + 1) * b) * t
OBVIOUS

\* Above the timer of the event, those that overflow cascade, stand at their last
\* value and follow one that overflows.
LEMMA OverflowingAbove ==
  ASSUME NEW i \in TimerIds, NEW j \in Overflowing(i), j # i
  PROVE  ctl[j].cascade /\ data[j] = CounterMod - 1 /\ j - 1 \in Overflowing(i)
<1>1. /\ j \in TimerIds /\ j >= i /\ j \in Int /\ i \in Int /\ j >= i + 1
      /\ \A k \in (i + 1)..j : ctl[k].cascade /\ data[k] = CounterMod - 1
  BY TimersAssumption DEF Overflowing, TimerIds
<1>2. j \in (i + 1)..j /\ j - 1 \in TimerIds /\ j - 1 >= i
  BY <1>1, TimersAssumption DEF TimerIds
<1>3. \A k \in (i + 1)..(j - 1) : k \in (i + 1)..j
  BY <1>1
<1> QED BY <1>1, <1>2, <1>3 DEF Overflowing

\* What an overflow does to the history of a timer that counts it.
LEMMA CountedHistory ==
  ASSUME NEW h \in HistRecords, NEW over \in BOOLEAN, NEW tick \in BOOLEAN,
         NEW g, g = [h EXCEPT !.overflows = IF over THEN @ + 1 ELSE @,
                              !.ticks = IF tick THEN @ + 1 ELSE @]
  PROVE  /\ g \in HistRecords
         /\ g.epoch = h.epoch /\ g.count0 = h.count0 /\ g.steady = h.steady
         /\ g.overflows = IF over THEN h.overflows + 1 ELSE h.overflows
         /\ g.ticks = IF tick THEN h.ticks + 1 ELSE h.ticks
<1> DEFINE o == IF over THEN h.overflows + 1 ELSE h.overflows
           n == IF tick THEN h.ticks + 1 ELSE h.ticks
<1>1. g = [h EXCEPT !.overflows = o, !.ticks = n]
  OBVIOUS
<1>2. o \in Nat /\ n \in Nat
  BY DEF HistRecords
<1> HIDE DEF o, n
<1>3. /\ g \in HistRecords
      /\ g.epoch = h.epoch /\ g.count0 = h.count0 /\ g.steady = h.steady
      /\ g.overflows = o /\ g.ticks = n
  BY <1>1, <1>2 DEF HistRecords
<1> QED BY <1>3 DEF o, n

LEMMA HistTimerEvent == HistInv /\ TimersInv' /\ HTimerEvent => HistInv'
<1> SUFFICES ASSUME HistInv, TimersInv', HTimerEvent PROVE HistInv'
  OBVIOUS
<1>p. PICK e \in events, i \in TimerIds :
        /\ HandleTimerOverflow(e, i)
        /\ hist' = [j \in TimerIds |->
             [hist[j] EXCEPT !.overflows = IF j \in Overflowing(i) THEN @ + 1 ELSE @,
                             !.ticks = IF j - 1 \in Overflowing(i) THEN @ + 1 ELSE @]]
  BY DEF HTimerEvent
<1> DEFINE next == NextOverflow(i, e.time)
<1>0. /\ data \in [TimerIds -> Counts] /\ initial_data \in [TimerIds -> Counts]
      /\ ctl \in [TimerIds -> TimerCtl] /\ is_scheduled \in [TimerIds -> BOOLEAN]
      /\ hist \in [TimerIds -> HistRecords] /\ CounterMod \in Nat /\ e.time \in Nat
  BY TimersAssumption DEF HistInv, TimersInv, TimersTypeOK
<1>1. /\ e.typ = TimerOverflow(i) /\ events' = (events \ {e}) \cup {next}
      /\ data' = [j \in TimerIds |-> IF j \in Overflowing(i) THEN initial_data[j]
                                     ELSE IF j \in Counting(i) THEN data[j] + 1
                                     ELSE data[j]]
      /\ is_scheduled' = [is_scheduled EXCEPT ![i] = TRUE]
      /\ UNCHANGED <<ctl, initial_data>>
  BY <1>p DEF HandleTimerOverflow, HandleEvent
<1>2. /\ next.typ = TimerOverflow(i)
      /\ next.time = e.time + (CounterMod - initial_data[i]) * Tick(ctl[i])
  BY DEF NextOverflow, EventAt, OverflowTime
<1> HIDE DEF next
<1>3. /\ e \in OverflowEvents(i) /\ is_scheduled[i] /\ OverflowEvents(i) = {e}
      /\ ~ctl[i].cascade
  <2>1. e \in OverflowEvents(i)
    BY <1>1 DEF OverflowEvents
  <2> QED BY <2>1 DEF HistInv, TimersInv, OneOverflowEvent
<1>4. i \in Overflowing(i)
  <2>1. i \in Int
    BY TimersAssumption DEF TimerIds
  <2>2. i >= i /\ \A k \in (i + 1)..i : FALSE
    BY <2>1
  <2> QED BY <2>2 DEF Overflowing
<1>5. ASSUME NEW j \in TimerIds
      PROVE  /\ hist'[j] \in HistRecords /\ hist'[j].epoch = hist[j].epoch
             /\ hist'[j].count0 = hist[j].count0 /\ hist'[j].steady = hist[j].steady
             /\ hist'[j].overflows = IF j \in Overflowing(i) THEN hist[j].overflows + 1
                                                              ELSE hist[j].overflows
             /\ hist'[j].ticks = IF j - 1 \in Overflowing(i) THEN hist[j].ticks + 1
                                                             ELSE hist[j].ticks
             /\ hist[j] \in HistRecords
  <2>1. hist[j] \in HistRecords
    BY <1>0
  <2>2. hist'[j] = [hist[j] EXCEPT
                      !.overflows = IF j \in Overflowing(i) THEN @ + 1 ELSE @,
                      !.ticks = IF j - 1 \in Overflowing(i) THEN @ + 1 ELSE @]
    BY <1>p
  <2>3. (j \in Overflowing(i)) \in BOOLEAN /\ (j - 1 \in Overflowing(i)) \in BOOLEAN
    OBVIOUS
  <2> QED BY <2>1, <2>2, <2>3, CountedHistory
<1>6. hist' \in [TimerIds -> HistRecords]
  <2>1. hist' = [j \in TimerIds |-> hist'[j]]
    BY <1>p
  <2> QED BY <1>5, <2>1
<1>7. NoDrift'
  <2> SUFFICES ASSUME NEW j \in TimerIds, is_scheduled'[j], hist'[j].steady,
                      NEW f \in OverflowEvents(j)'
               PROVE  f.time = hist'[j].epoch
                        + ((CounterMod - hist'[j].count0)
                           + hist'[j].overflows * (CounterMod - initial_data[j])) * Tick(ctl[j])
    BY <1>1 DEF NoDrift, OverflowEvents
  <2>1. CASE j = i
    <3>1. f = next
      BY <1>1, <1>3, <2>1 DEF OverflowEvents
    <3>2. e.time = hist[i].epoch
                     + ((CounterMod - hist[i].count0)
                        + hist[i].overflows * (CounterMod - initial_data[i])) * Tick(ctl[i])
      BY <1>3, <1>5, <2>1 DEF HistInv, NoDrift
    <3>3. /\ hist[i].epoch \in Int /\ hist[i].overflows \in Int /\ Tick(ctl[i]) \in Int
          /\ CounterMod - hist[i].count0 \in Int /\ CounterMod - initial_data[i] \in Int
      <4>1. hist[i] \in HistRecords /\ initial_data[i] \in Counts /\ ctl[i] \in TimerCtl
        BY <1>0
      <4>2. Tick(ctl[i]) \in Int
        <5>1. ctl[i].prescalar \in Prescalars /\ TickCycles \in [Prescalars -> Nat \ {0}]
          BY <4>1, TimersAssumption DEF TimerCtl
        <5> QED BY <5>1 DEF Tick
      <4>3. hist[i].count0 \in Int /\ initial_data[i] \in Int
        BY <1>0, <4>1 DEF HistRecords, Counts
      <4> QED BY <1>0, <4>1, <4>2, <4>3 DEF HistRecords
    <3> DEFINE a == CounterMod - hist[i].count0
               n == hist[i].overflows
               b == CounterMod - initial_data[i]
               t == Tick(ctl[i])
    <3>4. next.time = hist[i].epoch
                     + ((CounterMod - hist[i].count0)
                        + (hist[i].overflows + 1) * (CounterMod - initial_data[i])) * Tick(ctl[i])
      <4>1. next.time = (hist[i].epoch + (a + n * b) * t) + b * t
        BY <1>2, <3>2
      <4>2. (hist[i].epoch + (a + n * b) * t) + b * t = hist[i].epoch + (a + (n + 1) * b) * t
        <5>1. a \in Int /\ n \in Int /\ b \in Int /\ t \in Int /\ hist[i].epoch \in Int
          BY <3>3
        <5> HIDE DEF a, n, b, t
        <5> QED BY <5>1, ProgressionStep
      <4> QED BY <4>1, <4>2
    <3> QED BY <1>4, <1>5, <2>1, <3>1, <3>4
  <2>2. CASE j # i
    <3>1. is_scheduled[j] /\ ~ctl[j].cascade
      BY <1>0, <1>1, <2>2 DEF HistInv, TimersInv, OneOverflowEvent
    <3>2. j \notin Overflowing(i)
      BY <2>2, <3>1, OverflowingAbove
    <3>3. f \in OverflowEvents(j)
      BY <1>1, <1>2, <2>2, TypesDiffer DEF OverflowEvents
    <3>4. /\ hist'[j].epoch = hist[j].epoch /\ hist'[j].count0 = hist[j].count0
          /\ hist'[j].overflows = hist[j].overflows /\ hist[j].steady
      BY <1>5, <3>2
    <3> QED BY <3>1, <3>3, <3>4 DEF HistInv, NoDrift
  <2> QED BY <2>1, <2>2
<1>8. CascadeExact'
  <2> SUFFICES ASSUME NEW j \in TimerIds, j > 0, ctl[j].cascade
               PROVE  data'[j] = CounterAfter(hist'[j].count0, initial_data[j], hist'[j].ticks)
    BY <1>1 DEF CascadeExact
  <2> DEFINE c == hist[j].count0
             r == initial_data[j]
             n == hist[j].ticks
  <2>1. /\ data[j] = CounterAfter(c, r, n) /\ c \in Counts /\ r \in Counts /\ n \in Nat
        /\ hist'[j].count0 = c /\ j # i
    BY <1>0, <1>3, <1>5 DEF HistInv, CascadeExact, HistRecords
  <2>2. CounterAfter(c, r, n + 1) = IF CounterAfter(c, r, n) = CounterMod - 1
                                      THEN r ELSE CounterAfter(c, r, n) + 1
    BY <2>1, CounterAfterStep
  <2>3. CASE j \in Overflowing(i)
    <3>1. data[j] = CounterMod - 1 /\ j - 1 \in Overflowing(i)
      BY <2>1, <2>3, OverflowingAbove
    <3>2. data'[j] = r /\ hist'[j].ticks = n + 1
      BY <1>1, <1>5, <2>3, <3>1
    <3> QED BY <2>1, <2>2, <3>1, <3>2
  <2>4. CASE j \in Counting(i)
    <3>1. data[j] # CounterMod - 1 /\ j - 1 \in Overflowing(i) /\ j \notin Overflowing(i)
      BY <2>4, CountingBelowLast DEF Counting
    <3>2. data'[j] = data[j] + 1 /\ hist'[j].ticks = n + 1
      BY <1>1, <1>5, <2>4, <3>1
    <3> QED BY <2>1, <2>2, <3>1, <3>2
  <2>5. CASE j \notin Overflowing(i) /\ j \notin Counting(i)
    <3>1. j - 1 \notin Overflowing(i)
      BY <2>5 DEF Counting
    <3>2. data'[j] = data[j] /\ hist'[j].ticks = n
      BY <1>1, <1>5, <2>5, <3>1
    <3> QED BY <2>1, <3>2
  <2> QED BY <2>3, <2>4, <2>5
<1> QED BY <1>6, <1>7, <1>8 DEF HistInv

LEMMA HistStepInv == HistInv /\ [HNext]_hvars => HistInv'
<1> SUFFICES ASSUME HistInv, [HNext]_hvars PROVE HistInv'
  OBVIOUS
<1>0. TimersInv'
  BY HistoryWatches, TimersStepInv DEF HistInv
<1>1. CASE \E d \in 1..MaxStep : Idle(d) /\ UNCHANGED hist
  BY <1>0, <1>1, HistCpuStep
<1>2. CASE \E d \in 1..MaxStep, i \in TimerIds : CpuAcknowledge(i, d) /\ UNCHANGED hist
  BY <1>0, <1>2, HistCpuStep
<1>3. CASE \E d \in 1..MaxStep, i \in TimerIds, v \in Reloads : HWriteReload(i, v, d)
  BY <1>0, <1>3, HistCpuStep
<1>4. CASE \E d \in 1..MaxStep : \E c \in 1..d, i \in TimerIds, new \in Controls :
             HWriteCtl(i, new, c, d)
  BY <1>0, <1>4, HistWriteCtl
<1>5. CASE \E d \in 1..MaxStep : \E c \in 1..d, i \in ReadTimers :
             CpuRead(i, c, d) /\ UNCHANGED hist
  BY <1>0, <1>5, HistCpuStep, TimersAssumption
<1>6. CASE HTimerEvent
  BY <1>0, <1>6, HistTimerEvent
<1>7. CASE UNCHANGED hvars
  BY <1>0, <1>7 DEF hvars, tvars, schedVars, timerVars, HistInv, NoDrift, CascadeExact,
                    OverflowEvents
<1> QED BY <1>1, <1>2, <1>3, <1>4, <1>5, <1>6, <1>7 DEF HNext

LEMMA HistInvariant == HSpec => []HistInv
BY HistInitInv, HistStepInv, PTL DEF HSpec

\* The n-th overflow of a running timer is due exactly where a timer that counted
\* every cycle would have it, however late each one before it was handled.
THEOREM TimersNoDrift == HSpec => []NoDrift
<1>1. HistInv => NoDrift
  BY DEF HistInv
<1> QED BY <1>1, HistInvariant, PTL

\* A cascading timer has counted every overflow of the timer below it, through any
\* number of wraps of a chain of any length.
THEOREM TimersCascadeExact == HSpec => []CascadeExact
<1>1. HistInv => CascadeExact
  BY DEF HistInv
<1> QED BY <1>1, HistInvariant, PTL
-----------------------------------------------------------------------------
\* The run loop and the console.

\* A run's limit bounds the clock, in events while it is queued and afterwards
\* by itself; `cut` and `handling` follow the phase.
RInv ==
  /\ RunTypeOK
  /\ OneLimitPerRun
  /\ LatencyBounded
  /\ RunLength
  /\ phase # "idle" => run_start <= timestamp
  /\ phase = "draining" => timestamp <= run_start + asked + MaxStep
  /\ cut \/ phase # "draining"
  /\ phase = "running" => ~cut
  /\ phase \in {"idle", "hit"} => ~handling

LEMMA DeviceEventsSound ==
  ASSUME NEW e \in DeviceEvents
  PROVE  e = EventAt(e.typ, e.time) /\ e.time \in Nat /\ e.typ # RunLimitReached
  BY RunLoopAssumption DEF DeviceEvents, EventAt

\* The events alone.
EventsOK(evs) == \A e \in evs : e = EventAt(e.typ, e.time) /\ e.time \in Nat

LimitsOf(evs) == {e \in evs : e.typ = RunLimitReached}

LEMMA LimitEvent ==
  ASSUME NEW t \in Nat
  PROVE  /\ EventAt(RunLimitReached, t).typ = RunLimitReached
         /\ EventAt(RunLimitReached, t).time = t
  BY DEF EventAt

LEMMA NoLimit ==
  ASSUME NEW evs, LimitsOf(evs) = {}
  PROVE  \A e \in evs : e.typ # RunLimitReached
  BY DEF LimitsOf

LEMMA OvershootInFrame ==
  ASSUME NEW n \in Nat
  PROVE  Overshoot(n) \in 0..FrameCycles
  BY RunLoopAssumption DEF Overshoot, SaturatingSub

LEMMA SumInNat ==
  ASSUME NEW a \in Nat, NEW b \in Nat
  PROVE  a + b \in Nat /\ a <= a + b + MaxStep
  BY SchedulerAssumption

\* Whoever returns does so within a step of the limit; the rest of the state is
\* known to the action that returns.
LEMMA ReturnKeeps ==
  ASSUME RunTypeOK, Return, UNCHANGED timestamp, cut' \in BOOLEAN, handling' = FALSE,
         EventsOK(events'), LimitsOf(events') = {},
         \A e \in events' : timestamp <= e.time + MaxStep,
         run_start <= timestamp, timestamp <= run_start + asked + MaxStep,
         ~cut' => timestamp >= run_start + asked
  PROVE  RInv'
  <1>1. ran' = timestamp - run_start /\ ran' \in Nat
    BY SMT DEF Return, RunTypeOK
  <1>2. overshoot' \in [BOOLEAN -> 0..FrameCycles]
    <2>1. Overshoot(ran') \in 0..FrameCycles
      BY <1>1, OvershootInFrame
    <2>2. checks \in BOOLEAN /\ overshoot \in [BOOLEAN -> 0..FrameCycles]
      BY DEF RunTypeOK
    <2>3. overshoot' = [overshoot EXCEPT ![checks] = Overshoot(ran')]
      BY DEF Return
    <2>4. QED
      BY <2>1, <2>2, <2>3, Zenon
  <1>3. RunTypeOK'
    <2>1. phase' \in Phases
      BY DEF Return, Phases
    <2>2. checks' \in BOOLEAN
      BY Zenon DEF Return, RunTypeOK
    <2>3. timestamp' \in Nat /\ run_start' \in Nat /\ asked' \in Nat
      BY DEF Return, RunTypeOK
    <2>4. handling' \in BOOLEAN
      BY Zenon
    <2>5. \A e \in events' : e = EventAt(e.typ, e.time) /\ e.time \in Nat
      BY Zenon DEF EventsOK
    <2>6. QED
      BY <1>1, <1>2, <2>1, <2>2, <2>3, <2>4, <2>5 DEF RunTypeOK
  <1>4. OneLimitPerRun'
    BY Zenon DEF OneLimitPerRun, Limits, LimitsOf, Return
  <1>5. LatencyBounded'
    BY DEF LatencyBounded
  <1>6. RunLength'
    <2>1. ran' <= asked + MaxStep /\ (~cut' => ran' >= asked)
      BY <1>1, SchedulerAssumption, SMT DEF RunTypeOK
    <2>2. asked' = asked
      BY DEF Return
    <2>3. QED
      BY <2>1, <2>2, Zenon DEF RunLength
  <1>7. phase' = "idle"
    BY DEF Return
  <1>8. QED
    BY <1>3, <1>4, <1>5, <1>6, <1>7 DEF RInv

-----------------------------------------------------------------------------
LEMMA RunInitInv == RunLoopInit => RInv
  <1> SUFFICES ASSUME RunLoopInit PROVE RInv
    OBVIOUS
  <1>1. \A e \in events : /\ e = EventAt(e.typ, e.time) /\ e.time \in Nat
                          /\ e.typ # RunLimitReached
    BY DeviceEventsSound DEF RunLoopInit
  <1>2. RunTypeOK
    <2>1. phase \in Phases /\ timestamp \in Nat /\ run_start \in Nat /\ asked \in Nat /\ ran \in Nat
      BY DEF RunLoopInit, RunInit, Phases
    <2>2. checks \in BOOLEAN /\ cut \in BOOLEAN /\ handling \in BOOLEAN
      BY Zenon DEF RunLoopInit, RunInit
    <2>3. 0 \in 0..FrameCycles
      BY RunLoopAssumption
    <2>4. overshoot \in [BOOLEAN -> 0..FrameCycles]
      BY <2>3 DEF RunLoopInit, RunInit
    <2>5. QED
      BY <1>1, <2>1, <2>2, <2>4 DEF RunTypeOK
  <1>3. OneLimitPerRun
    BY <1>1 DEF OneLimitPerRun, Limits, RunLoopInit, RunInit
  <1>4. LatencyBounded
    BY <1>1, SchedulerAssumption DEF LatencyBounded, RunLoopInit
  <1>5. RunLength
    BY SchedulerAssumption DEF RunLength, RunLoopInit, RunInit
  <1>6. QED
    BY <1>2, <1>3, <1>4, <1>5 DEF RInv, RunLoopInit, RunInit

\* A run begins with its limit as the only one.
LEMMA StartFrameInv ==
  ASSUME RInv, NEW b \in BOOLEAN, StartFrame(b)
  PROVE  RInv'
  <1>0. overshoot[b] \in 0..FrameCycles
    BY DEF RInv, RunTypeOK
  <1>1. timestamp \in Nat /\ ran \in Nat
    BY DEF RInv, RunTypeOK
  <1>2. asked' \in Nat
    BY <1>0, RunLoopAssumption DEF StartFrame
  <1> DEFINE t == timestamp + asked'
             new == EventAt(RunLimitReached, t)
  <1>3. t \in Nat /\ timestamp <= t + MaxStep
    BY <1>1, <1>2, SumInNat
  <1>4. new.typ = RunLimitReached /\ new.time = t
    BY <1>3, LimitEvent
  <1>5. events' = events \cup {new}
    BY DEF StartFrame, Limit
  <1>6. phase = "idle" /\ phase' = "running" /\ cut' = FALSE /\ checks' = b /\ run_start' = timestamp
        /\ UNCHANGED <<timestamp, handling, ran, overshoot>>
    BY DEF StartFrame
  <1>7. EventAt(RunLimitReached, run_start' + asked') = new
    BY <1>6
  <1>8. new = EventAt(new.typ, new.time)
    BY <1>4 DEF EventAt
  <1> HIDE DEF new
  <1>9. RunTypeOK'
    <2>1. phase' \in Phases /\ timestamp' \in Nat /\ run_start' \in Nat /\ ran' \in Nat
      BY <1>1, <1>6 DEF Phases
    <2>2. checks' \in BOOLEAN /\ cut' \in BOOLEAN
      BY <1>6, Zenon
    <2>3. handling' \in BOOLEAN /\ overshoot' \in [BOOLEAN -> 0..FrameCycles]
      BY <1>6, Zenon DEF RInv, RunTypeOK
    <2>4. \A e \in events' : e = EventAt(e.typ, e.time) /\ e.time \in Nat
      BY <1>3, <1>4, <1>5, <1>8 DEF RInv, RunTypeOK
    <2>5. QED
      BY <1>2, <2>1, <2>2, <2>3, <2>4 DEF RunTypeOK
  <1>10. OneLimitPerRun'
    <2>1. Limits = {}
      BY <1>6 DEF RInv, OneLimitPerRun
    <2>2. Limits' = {new}
      BY <1>4, <1>5, <2>1 DEF Limits
    <2>3. QED
      BY <1>6, <1>7, <2>2 DEF OneLimitPerRun
  <1>11. LatencyBounded'
    <2>1. timestamp <= new.time + MaxStep
      BY <1>3, <1>4
    <2>2. QED
      BY <1>5, <1>6, <2>1 DEF LatencyBounded, RInv
  <1>12. RunLength'
    BY <1>6 DEF RunLength
  <1>13. phase # "idle" => ~handling'
    BY <1>6
  <1>14. QED
    BY <1>1, <1>6, <1>9, <1>10, <1>11, <1>12 DEF RInv

\* No step begins with the clock past an event, so none ends more than its own
\* length past one.
LEMMA AnyStepInv ==
  ASSUME RInv, NEW c \in 1..MaxStep, AnyStep(c)
  PROVE  RInv'
  <1>1. /\ timestamp \in Nat /\ run_start \in Nat /\ asked \in Nat
        /\ EventsOK(events)
    BY DEF RInv, RunTypeOK, EventsOK
  <1>2. timestamp' = timestamp + c /\ c \in Nat /\ c <= MaxStep /\ handling' = handling /\ ~handling
        /\ \A e \in events : timestamp <= e.time
    BY SchedulerAssumption DEF AnyStep, Elapse, MayStep
  <1>3. /\ events' \subseteq DeviceEvents \cup events
        /\ \A e \in events : e.typ = RunLimitReached => e \in events'
        /\ \A e \in events' \ events : e.time >= timestamp'
    BY DEF AnyStep
  <1>4. /\ phase = "running" /\ phase' \in {"running", "hit"}
        /\ UNCHANGED <<checks, run_start, asked, ran, cut, overshoot>>
    <2>1. phase' \in {"running", "hit"}
      BY DEF AnyStep, StepPhase
    <2>2. QED
      BY <2>1 DEF AnyStep, InLoop, StepPhase
  <1>5. EventsOK(events')
    BY <1>1, <1>3, DeviceEventsSound DEF EventsOK
  <1>6. Limits' = Limits
    BY <1>3, DeviceEventsSound DEF Limits
  <1>7. RunTypeOK'
    <2>1. phase' \in Phases /\ timestamp' \in Nat /\ run_start' \in Nat /\ asked' \in Nat
      BY <1>1, <1>2, <1>4 DEF Phases
    <2>2. ran' \in Nat /\ overshoot' \in [BOOLEAN -> 0..FrameCycles]
      BY <1>4 DEF RInv, RunTypeOK
    <2>3. checks' \in BOOLEAN /\ cut' \in BOOLEAN /\ handling' \in BOOLEAN
      BY <1>2, <1>4, Zenon DEF RInv, RunTypeOK
    <2>4. QED
      BY <1>5, <2>1, <2>2, <2>3 DEF RunTypeOK, EventsOK
  <1>8. OneLimitPerRun'
    BY <1>4, <1>6 DEF RInv, OneLimitPerRun
  <1>9. LatencyBounded'
    <2>1. SUFFICES ASSUME NEW e \in events' PROVE timestamp' <= e.time + MaxStep
      BY DEF LatencyBounded
    <2>2. e.time \in Nat
      BY <1>5 DEF EventsOK
    <2>3. CASE e \in events
      BY <1>1, <1>2, <2>2, <2>3, SchedulerAssumption
    <2>4. CASE e \notin events
      <3>1. e.time >= timestamp'
        BY <1>3, <2>4
      <3>2. QED
        BY <1>1, <1>2, <2>2, <3>1, SchedulerAssumption
    <2>5. QED
      BY <2>3, <2>4
  <1>10. run_start' <= timestamp'
    <2>1. run_start <= timestamp
      BY <1>4 DEF RInv
    <2>2. QED
      BY <1>1, <1>2, <1>4, <2>1
  <1>11. ~cut' /\ ~handling'
    BY <1>2, <1>4 DEF RInv
  <1>12. RunLength'
    BY <1>4 DEF RunLength
  <1>13. QED
    BY <1>4, <1>7, <1>8, <1>9, <1>10, <1>11, <1>12 DEF RInv

\* The breakpoint path drops the limit; what is due is within a step of it.
LEMMA HitInv ==
  ASSUME RInv, Hit
  PROVE  RInv'
  <1>1. /\ timestamp \in Nat /\ run_start \in Nat /\ asked \in Nat
        /\ EventsOK(events)
    BY DEF RInv, RunTypeOK, EventsOK
  <1>2. /\ phase = "hit" /\ cut' = TRUE /\ timestamp' = timestamp
        /\ events' = {e \in events : e.typ # RunLimitReached}
    BY DEF Hit, CancelAtHit, CancelPending
  <1>3. handling' \in BOOLEAN
    BY Zenon DEF Hit
  <1> DEFINE limit == EventAt(RunLimitReached, run_start + asked)
  <1>4. run_start <= timestamp /\ timestamp <= run_start + asked + MaxStep
    <2>1. limit \in events
      BY <1>2 DEF RInv, OneLimitPerRun, Limits
    <2>2. limit.time = run_start + asked
      BY DEF EventAt
    <2>3. timestamp <= limit.time + MaxStep
      BY <2>1 DEF RInv, LatencyBounded
    <2>4. run_start <= timestamp
      BY <1>2 DEF RInv
    <2>5. QED
      BY <2>2, <2>3, <2>4
  <1>5. EventsOK(events') /\ LimitsOf(events') = {}
        /\ \A e \in events' : timestamp <= e.time + MaxStep
    <2>1. EventsOK(events')
      BY <1>1, <1>2 DEF EventsOK
    <2>2. LimitsOf(events') = {}
      BY <1>2 DEF LimitsOf
    <2>3. \A e \in events' : timestamp <= e.time + MaxStep
      BY <1>2 DEF RInv, LatencyBounded
    <2>4. QED
      BY <2>1, <2>2, <2>3
  <1>6. CASE ~handling'
    <2>1. Return
      BY <1>6 DEF Hit
    <2>2. handling' = FALSE
      BY <1>6, <1>3, Zenon
    <2>3. cut' \in BOOLEAN
      BY <1>2, Zenon
    <2>4. QED
      BY <1>2, <1>4, <1>5, <2>1, <2>2, <2>3, ReturnKeeps DEF RInv
  <1>7. CASE handling'
    <2>1. phase' = "draining" /\ UNCHANGED <<checks, run_start, asked, ran, overshoot>>
      BY <1>7 DEF Hit
    <2>2. RunTypeOK'
      <3>1. phase' \in Phases
        BY <2>1 DEF Phases
      <3>2. checks' \in BOOLEAN /\ cut' \in BOOLEAN
        BY <1>2, <2>1, Zenon DEF RInv, RunTypeOK
      <3>3. timestamp' \in Nat /\ run_start' \in Nat /\ asked' \in Nat /\ ran' \in Nat
            /\ overshoot' \in [BOOLEAN -> 0..FrameCycles]
        BY <1>2, <2>1 DEF RInv, RunTypeOK
      <3>4. QED
        BY <1>3, <1>5, <3>1, <3>2, <3>3 DEF RunTypeOK, EventsOK
    <2>3. OneLimitPerRun'
      BY <1>5, <2>1 DEF OneLimitPerRun, Limits, LimitsOf
    <2>4. LatencyBounded'
      BY <1>2, <1>5 DEF LatencyBounded
    <2>5. RunLength'
      BY <2>1 DEF RunLength
    <2>6. QED
      BY <1>2, <1>4, <2>1, <2>2, <2>3, <2>4, <2>5 DEF RInv
  <1>8. QED
    BY <1>6, <1>7

\* The limit is handled when the clock has reached it.
LEMMA HandleRunLimitInv ==
  ASSUME RInv, NEW e \in events, HandleRunLimit(e)
  PROVE  RInv'
  <1>1. /\ timestamp \in Nat /\ run_start \in Nat /\ asked \in Nat
        /\ EventsOK(events)
    BY DEF RInv, RunTypeOK, EventsOK
  <1>2. /\ phase = "running" /\ e.typ = RunLimitReached /\ events' = events \ {e}
        /\ Return /\ timestamp' = timestamp /\ cut' = cut /\ handling' = FALSE
    BY DEF HandleRunLimit
  <1>3. Limits = {e} /\ e = EventAt(RunLimitReached, run_start + asked)
    BY <1>2 DEF RInv, OneLimitPerRun, Limits
  <1>4. e.time = run_start + asked /\ timestamp >= e.time /\ timestamp <= e.time + MaxStep
    <2>1. e.time = run_start + asked
      BY <1>3 DEF EventAt
    <2>2. timestamp >= e.time
      BY DEF HandleRunLimit, PendingEvents
    <2>3. QED
      BY <2>1, <2>2 DEF RInv, LatencyBounded
  <1>5. EventsOK(events')
    BY <1>1, <1>2 DEF EventsOK
  <1>6. LimitsOf(events') = {}
    BY <1>2, <1>3 DEF LimitsOf, Limits
  <1>7. \A d \in events' : timestamp <= d.time + MaxStep
    BY <1>2 DEF RInv, LatencyBounded
  <1>8. cut' \in BOOLEAN
    BY <1>2, Zenon DEF RInv, RunTypeOK
  <1>9. run_start <= timestamp
    BY <1>2 DEF RInv
  <1>10. QED
    BY <1>1, <1>2, <1>4, <1>5, <1>6, <1>7, <1>8, <1>9, ReturnKeeps DEF RInv

\* A device's handler leaves the limit alone and schedules only later events.
LEMMA AnyHandlerInv ==
  ASSUME RInv, NEW e \in events, AnyHandler(e)
  PROVE  RInv'
  <1> DEFINE new == events' \ (events \ {e})
  <1>1. /\ timestamp \in Nat /\ run_start \in Nat /\ asked \in Nat
        /\ EventsOK(events)
    BY DEF RInv, RunTypeOK, EventsOK
  <1>2. /\ phase \in {"running", "draining"} /\ e.typ # RunLimitReached
        /\ events' \subseteq DeviceEvents \cup events
        /\ \A d \in new : d.typ # RunLimitReached /\ d.time > e.time
        /\ HandleEvent(e, new) /\ AfterHandling
    BY DEF AnyHandler
  <1>3. timestamp' = timestamp /\ events' = (events \ {e}) \cup new
    BY <1>2 DEF HandleEvent
  <1>4. handling' \in BOOLEAN
    BY <1>2, Zenon DEF HandleEvent
  <1>5. EventsOK(events')
    BY <1>1, <1>2, DeviceEventsSound DEF EventsOK
  <1>6. LimitsOf(events') = LimitsOf(events)
    BY <1>2, <1>3 DEF LimitsOf
  <1>7. \A d \in events' : timestamp <= d.time + MaxStep
    <2>1. e.time \in Nat /\ timestamp <= e.time + MaxStep
      BY <1>1 DEF EventsOK, RInv, LatencyBounded
    <2>2. \A d \in new : d.time \in Nat /\ d.time > e.time
      BY <1>2, <1>5 DEF EventsOK
    <2>3. \A d \in new : timestamp <= d.time + MaxStep
      BY <1>1, <2>1, <2>2, SchedulerAssumption
    <2>4. \A d \in events : timestamp <= d.time + MaxStep
      BY DEF RInv, LatencyBounded
    <2> HIDE DEF new
    <2>5. QED
      BY <1>3, <2>3, <2>4
  <1> HIDE DEF new
  <1>8. CASE phase = "draining" /\ ~handling'
    <2>1. Return /\ cut' = cut
      BY <1>2, <1>8 DEF AfterHandling
    <2>2. handling' = FALSE
      BY <1>4, <1>8, Zenon
    <2>3. cut' \in BOOLEAN /\ cut'
      <3>1. cut \in BOOLEAN /\ cut
        BY <1>8 DEF RInv, RunTypeOK
      <3>2. QED
        BY <2>1, <3>1
    <2>4. LimitsOf(events') = {}
      BY <1>6, <1>8 DEF RInv, OneLimitPerRun, Limits, LimitsOf
    <2>5. run_start <= timestamp /\ timestamp <= run_start + asked + MaxStep
      BY <1>8 DEF RInv
    <2>6. QED
      BY <1>3, <1>5, <1>7, <2>1, <2>2, <2>3, <2>4, <2>5, ReturnKeeps DEF RInv
  <1>9. CASE ~(phase = "draining" /\ ~handling')
    <2>1. UNCHANGED <<phase, checks, run_start, asked, ran, cut, overshoot>>
      BY <1>2, <1>9 DEF AfterHandling, runVars
    <2>2. RunTypeOK'
      <3>1. phase' \in Phases /\ timestamp' \in Nat /\ run_start' \in Nat /\ asked' \in Nat
            /\ ran' \in Nat /\ overshoot' \in [BOOLEAN -> 0..FrameCycles]
        BY <1>3, <2>1 DEF RInv, RunTypeOK
      <3>2. checks' \in BOOLEAN /\ cut' \in BOOLEAN
        BY <2>1, Zenon DEF RInv, RunTypeOK
      <3>3. QED
        BY <1>4, <1>5, <3>1, <3>2 DEF RunTypeOK, EventsOK
    <2>3. OneLimitPerRun'
      BY <1>6, <2>1 DEF RInv, OneLimitPerRun, Limits, LimitsOf
    <2>4. LatencyBounded'
      BY <1>3, <1>7 DEF LatencyBounded
    <2>5. RunLength' /\ phase' \in {"running", "draining"}
      BY <1>2, <2>1 DEF RunLength
    <2>6. QED
      BY <1>3, <2>1, <2>2, <2>3, <2>4, <2>5 DEF RInv
  <1>10. QED
    BY <1>8, <1>9

LEMMA RunStutter ==
  ASSUME RInv, UNCHANGED rlvars
  PROVE  RInv'
  BY DEF RInv, RunTypeOK, OneLimitPerRun, Limits, LatencyBounded, RunLength, rlvars, schedVars,
         runVars

LEMMA RunLoopStep == RInv /\ [RunLoopNext]_rlvars => RInv'
  <1> SUFFICES ASSUME RInv, [RunLoopNext]_rlvars PROVE RInv'
    OBVIOUS
  <1>1. CASE \E b \in BOOLEAN : StartFrame(b)
    BY <1>1, StartFrameInv
  <1>2. CASE \E c \in 1..MaxStep : AnyStep(c)
    BY <1>2, AnyStepInv
  <1>3. CASE Hit
    BY <1>3, HitInv
  <1>4. CASE \E e \in events : HandleRunLimit(e)
    BY <1>4, HandleRunLimitInv
  <1>5. CASE \E e \in events : AnyHandler(e)
    BY <1>5, AnyHandlerInv
  <1>6. CASE UNCHANGED rlvars
    BY <1>6, RunStutter
  <1>7. QED
    BY <1>1, <1>2, <1>3, <1>4, <1>5, <1>6 DEF RunLoopNext

LEMMA RunLoopInvariant == RunLoopSpec => []RInv
  BY RunLoopStep, RunInitInv, PTL DEF RunLoopSpec

-----------------------------------------------------------------------------
\* The phases, times and events of the run loop keep their types.
THEOREM RunTypeCorrect == RunLoopSpec => []RunTypeOK
  BY RunLoopInvariant, PTL DEF RInv

\* The unchecked peek of run() always finds an event: its own limit, once.
THEOREM PeekIsSafe == RunLoopSpec => []OneLimitPerRun
  BY RunLoopInvariant, PTL DEF RInv

\* A run lasts what it was asked for and at most one step longer.
THEOREM RunsAreBounded == RunLoopSpec => []RunLength
  BY RunLoopInvariant, PTL DEF RInv

\* No event is ever overdue by more than one step, across runs and breakpoints.
THEOREM LatencyIsBounded == RunLoopSpec => []LatencyBounded
  BY RunLoopInvariant, PTL DEF RInv

-----------------------------------------------------------------------------
\* The console.  What its devices must be for their events to be those of the
\* run loop: the registers that times are computed from hold what fits them.
DevicesOK ==
  /\ ctl \in [TimerIds -> TimerCtl]
  /\ data \in [TimerIds -> Counts] /\ initial_data \in [TimerIds -> Counts]
  /\ cycles_per_sample \in Nat \ {0}
  /\ driver \in Drivers /\ pc \in Nat \ {0}

\* The events that register writes schedule and cancel.
WrittenTypes == {TimerOverflow(i) : i \in TimerIds} \cup {DmaActivateChannel(i) : i \in Channels}

\* The chains that keep themselves going.
GpuTypes == {Gpu(g) : g \in GpuEvents}

OneOf(types, evs) == \E e \in evs : {d \in evs : d.typ \in types} = {e}

\* Only written events come and go, and they come at t or later.
OnlyWritten(t) ==
  /\ \A e \in events \ events' : e.typ \in WrittenTypes
  /\ \A e \in events' \ events : e \in DeviceEvents /\ e.typ \in WrittenTypes /\ e.time >= t

LEMMA TypesApart ==
  /\ \A i : TimerOverflow(i) \notin GpuTypes \cup {ApuSample, RunLimitReached}
  /\ \A i : DmaActivateChannel(i) \notin GpuTypes \cup {ApuSample, RunLimitReached}
  /\ RunLimitReached \notin GpuTypes \cup {ApuSample} /\ ApuSample \notin GpuTypes
  BY DEF TimerOverflow, DmaActivateChannel, GpuTypes, Gpu, ApuSample, RunLimitReached

LEMMA WrittenApart ==
  WrittenTypes \cap (GpuTypes \cup {ApuSample, RunLimitReached}) = {}
  BY TypesApart DEF WrittenTypes

LEMMA ScheduledEvent ==
  ASSUME NEW typ \in DeviceTypes, NEW t \in Nat
  PROVE  EventAt(typ, t) \in DeviceEvents /\ EventAt(typ, t).typ = typ /\ EventAt(typ, t).time = t
  BY DEF EventAt, DeviceEvents

LEMMA OneOfEachParts == OneOfEach <=> OneOf(GpuTypes, events) /\ OneOf({ApuSample}, events)
  BY DEF OneOfEach, OneOf, GpuTypes

\* A step that only writes keeps both chains.
LEMMA ChainsKept ==
  ASSUME NEW types, types \cap WrittenTypes = {}, NEW t, OnlyWritten(t), OneOf(types, events)
  PROVE  OneOf(types, events')
  BY DEF OneOf, OnlyWritten

-----------------------------------------------------------------------------
LEMMA GbaStarts == GbaInit => RunLoopInit /\ DevicesOK /\ OneOfEach
  <1> SUFFICES ASSUME GbaInit PROVE RunLoopInit /\ DevicesOK /\ OneOfEach
    OBVIOUS
  <1> DEFINE g == GpuFirstEvent
             s == SoundFirstEvent
  <1>1. events = {g, s} /\ timestamp = 0 /\ handling = FALSE /\ RunInit
    BY DEF GbaInit, SchedInit
  <1>2. SampleCycles[0] \in Nat \ {0}
    BY SoundAssumption
  <1>3. g \in DeviceEvents /\ g.typ = Gpu("HDraw") /\ Gpu("HDraw") \in GpuTypes
    BY GpuAssumption, DevicesAssumption, ScheduledEvent DEF GpuFirstEvent, GpuEvents, GpuTypes
  <1>4. s \in DeviceEvents /\ s.typ = ApuSample
    BY <1>2, DevicesAssumption, ScheduledEvent DEF SoundFirstEvent
  <1> HIDE DEF g, s
  <1>5. RunLoopInit
    BY <1>1, <1>3, <1>4 DEF RunLoopInit
  <1>6. OneOfEach
    <2>1. OneOf(GpuTypes, events)
      BY <1>1, <1>3, <1>4, TypesApart DEF OneOf
    <2>2. OneOf({ApuSample}, events)
      BY <1>1, <1>3, <1>4, TypesApart DEF OneOf
    <2>3. QED
      BY <2>1, <2>2, OneOfEachParts
  <1>7. DevicesOK
    <2>1. [prescalar |-> 0, cascade |-> FALSE, irq_enabled |-> FALSE, enabled |-> FALSE] \in TimerCtl
      BY TimersAssumption DEF TimerCtl
    <2>2. 0 \in Counts
      BY TimersAssumption DEF Counts
    <2>3. QED
      BY <1>2, <2>1, <2>2 DEF DevicesOK, GbaInit, TimersInit, SoundInit
  <1>8. QED
    BY <1>5, <1>6, <1>7

\* The register writes that schedule events, made at `now`.
LEMMA WriteTimer ==
  ASSUME DevicesOK, NEW i \in TimerIds, NEW new \in Controls, NEW now \in Nat,
         TimerWriteCtl(i, new, now)
  PROVE  /\ OnlyWritten(now)
         /\ ctl' \in [TimerIds -> TimerCtl] /\ UNCHANGED <<data, initial_data>>
  <1> DEFINE e == EventAt(TimerOverflow(i), OverflowTime(now, data[i], new))
  <1>1. new \in TimerCtl
    BY TimersAssumption
  <1>2. data[i] \in Counts /\ ctl \in [TimerIds -> TimerCtl]
    BY DEF DevicesOK
  <1>3. OverflowTime(now, data[i], new) \in Nat /\ OverflowTime(now, data[i], new) > now
    BY <1>1, <1>2, OverflowTimeSound
  <1>4. e \in DeviceEvents /\ e.typ = TimerOverflow(i) /\ e.time > now
    BY <1>3, DevicesAssumption, ScheduledEvent
  <1>5. e.time \in Nat /\ e.time >= now
    BY <1>3, <1>4 DEF DeviceEvents
  <1> HIDE DEF e
  <1>6. events' \subseteq CancelTimer(i) \cup {e} /\ CancelTimer(i) \subseteq events'
    BY DEF TimerWriteCtl, e
  <1>7. CancelTimer(i) = {d \in events : d.typ # TimerOverflow(i)}
    BY DEF CancelTimer, CancelPending
  <1>8. TimerOverflow(i) \in WrittenTypes
    BY DEF WrittenTypes
  <1>9. OnlyWritten(now)
    BY <1>4, <1>5, <1>6, <1>7, <1>8 DEF OnlyWritten
  <1>10. QED
    BY <1>1, <1>2, <1>9 DEF TimerWriteCtl

LEMMA WriteDma ==
  ASSUME NEW i \in Channels, NEW new, NEW now \in Nat, DmaWriteCtrl(i, new, now)
  PROVE  OnlyWritten(now)
  <1> DEFINE e == EventAt(DmaActivateChannel(i), now + 3)
  <1>1. e \in DeviceEvents /\ e.typ = DmaActivateChannel(i) /\ e.time = now + 3
    BY DevicesAssumption, ScheduledEvent
  <1>2. e.typ \in WrittenTypes /\ e.time >= now
    BY <1>1 DEF WrittenTypes
  <1> HIDE DEF e
  <1>3. events' = events \/ events' = events \cup {e}
    BY DEF DmaWriteCtrl, e
  <1>4. QED
    BY <1>1, <1>2, <1>3 DEF OnlyWritten

LEMMA NothingWritten ==
  ASSUME NEW t, UNCHANGED events
  PROVE  OnlyWritten(t)
  BY DEF OnlyWritten

LEMMA CpuStepOK ==
  ASSUME DevicesOK, timestamp \in Nat, NEW c \in 1..MaxStep, CpuIdle(c) \/ CpuWrite(c)
  PROVE  /\ Elapse(c) /\ OnlyWritten(timestamp + c) /\ DevicesOK'
  <1>0. Elapse(c)
    BY DEF CpuIdle, CpuWrite, CpuStep
  <1>1. CASE CpuIdle(c)
    BY <1>0, <1>1, NothingWritten DEF CpuIdle, DevicesOK, timerVars, soundVars
  <1>2. CASE CpuWrite(c)
    <2> DEFINE w == driver[pc]
               now == timestamp + c
    <2>1. now \in Nat
      BY SchedulerAssumption
    <2>2. IsWrite(w) /\ Write(w, now)
      <3>1. driver \in Drivers /\ pc \in 1..Len(driver)
        BY <1>2 DEF CpuWrite, DevicesOK
      <3>2. QED
        BY <1>2, <3>1, DriversAssumption DEF CpuWrite
    <2>3. driver' \in Drivers /\ pc' \in Nat \ {0}
      BY <1>2 DEF CpuWrite, DevicesOK
    <2> HIDE DEF w, now
    <2> DEFINE Kept == /\ ctl' \in [TimerIds -> TimerCtl] /\ data' \in [TimerIds -> Counts]
                       /\ initial_data' \in [TimerIds -> Counts]
                       /\ cycles_per_sample' \in Nat \ {0}
    <2>4. CASE w.reg = "TMxCNT_L"
      <3>1. TimerWriteReload(w.id, w.value) /\ ToTimer /\ w.value \in Reloads
        BY <2>2, <2>4 DEF Write, IsWrite
      <3>2. w.value \in Counts
        BY <3>1, TimersAssumption
      <3>3. Kept
        BY <3>1, <3>2 DEF TimerWriteReload, DevicesOK, ToTimer, soundVars
      <3>4. QED
        BY <1>0, <2>3, <3>1, <3>3, NothingWritten DEF DevicesOK, TimerWriteReload
    <2>5. CASE w.reg = "TMxCNT_H"
      <3>1. TimerWriteCtl(w.id, w.value, now) /\ ToTimer /\ w.id \in TimerIds /\ w.value \in Controls
        BY <2>2, <2>5 DEF Write, IsWrite
      <3>2. OnlyWritten(now) /\ ctl' \in [TimerIds -> TimerCtl] /\ UNCHANGED <<data, initial_data>>
        BY <2>1, <3>1, WriteTimer
      <3>3. Kept
        BY <3>1, <3>2 DEF DevicesOK, ToTimer, soundVars
      <3>4. QED
        BY <1>0, <2>3, <3>2, <3>3 DEF DevicesOK, now
    <2>6. CASE w.reg \in {"DMAxSAD", "DMAxDAD", "DMAxCNT_H"}
      <3>1. /\ ToDma /\ w.id \in Channels
            /\ \/ DmaWriteSrc(w.id, w.value) \/ DmaWriteDst(w.id, w.value)
               \/ DmaWriteCtrl(w.id, w.value, now)
        BY <2>2, <2>6 DEF Write, IsWrite
      <3>2. OnlyWritten(now)
        <4>1. CASE DmaWriteSrc(w.id, w.value) \/ DmaWriteDst(w.id, w.value)
          BY <4>1, NothingWritten DEF DmaWriteSrc, DmaWriteDst
        <4>2. CASE DmaWriteCtrl(w.id, w.value, now)
          BY <2>1, <3>1, <4>2, WriteDma
        <4>3. QED
          BY <3>1, <4>1, <4>2
      <3>3. Kept
        BY <3>1 DEF ToDma, timerVars, soundVars, DevicesOK
      <3>4. QED
        BY <1>0, <2>3, <3>2, <3>3 DEF DevicesOK, now
    <2>7. CASE w.reg \in {"SOUNDCNT_H", "SOUNDCNT_X", "FIFO", "SOUNDBIAS"}
      <3>1. /\ ToSound
            /\ \/ UNCHANGED cycles_per_sample
               \/ cycles_per_sample' = SampleCycles[w.value] /\ w.value \in DOMAIN SampleCycles
        BY <2>2, <2>7 DEF Write, IsWrite, SoundWriteControl, SoundWriteEnable, SoundWriteFifo,
                          SoundWriteBias
      <3>2. Kept
        BY <3>1, SoundAssumption DEF ToSound, timerVars, DevicesOK
      <3>3. QED
        BY <1>0, <2>3, <3>1, <3>2, NothingWritten DEF DevicesOK, ToSound
    <2>8. QED
      BY <2>2, <2>4, <2>5, <2>6, <2>7 DEF IsWrite
  <1>3. QED
    BY <1>1, <1>2

LEMMA DmaStepOK ==
  ASSUME DevicesOK, NEW c \in 1..MaxStep, DmaStep(c), UNCHANGED programVars
  PROVE  Elapse(c) /\ OnlyWritten(timestamp + c) /\ DevicesOK'
  BY NothingWritten DEF DmaStep, PerformWork, DevicesOK, timerVars, programVars

-----------------------------------------------------------------------------
\* A handler takes e away and schedules at most one event, of the same device
\* and later than e.
Successor(e, n) == n \in DeviceEvents /\ n.time > e.time

LEMMA SuccessorOf ==
  ASSUME NEW e, e.time \in Nat, NEW typ \in DeviceTypes, NEW d \in Nat \ {0}
  PROVE  Successor(e, EventAt(typ, e.time + d)) /\ EventAt(typ, e.time + d).typ = typ
  <1>1. e.time + d \in Nat /\ e.time + d > e.time
    OBVIOUS
  <1>2. QED
    BY <1>1, ScheduledEvent DEF Successor

\* What becomes of a chain.
LEMMA ChainHandled ==
  ASSUME NEW types, OneOf(types, events), NEW e \in events, NEW n,
         events' = (events \ {e}) \cup {n}, e.typ \in types <=> n.typ \in types
  PROVE  OneOf(types, events')
  <1>1. PICK x \in events : {d \in events : d.typ \in types} = {x}
    BY DEF OneOf
  <1>2. CASE e.typ \in types
    <2>1. x = e
      BY <1>1, <1>2
    <2>2. {d \in events' : d.typ \in types} = {n}
      BY <1>1, <1>2, <2>1
    <2>3. QED
      BY <2>2 DEF OneOf
  <1>3. CASE e.typ \notin types
    <2>1. x \in events' /\ {d \in events' : d.typ \in types} = {x}
      BY <1>1, <1>3
    <2>2. QED
      BY <2>1 DEF OneOf
  <1>4. QED
    BY <1>2, <1>3

LEMMA ChainPassed ==
  ASSUME NEW types, OneOf(types, events), NEW e \in events, events' = events \ {e}, e.typ \notin types
  PROVE  OneOf(types, events')
  BY DEF OneOf

\* A handler as the run loop sees it.
HandlerOK(e) ==
  /\ e.typ # RunLimitReached
  /\ \E new \in SUBSET DeviceEvents : HandleEvent(e, new) /\ \A n \in new : n.time > e.time
  /\ DevicesOK' /\ OneOfEach'

LEMMA OneSuccessor ==
  ASSUME NEW e \in events, NEW n, Successor(e, n), HandleEvent(e, {n}), OneOfEach, DevicesOK',
         e.typ = n.typ \/ {e.typ, n.typ} \subseteq GpuTypes, e.typ # RunLimitReached
  PROVE  HandlerOK(e)
  <1>1. events' = (events \ {e}) \cup {n}
    BY DEF HandleEvent
  <1>2. e.typ \in GpuTypes <=> n.typ \in GpuTypes
    OBVIOUS
  <1>3. e.typ \in {ApuSample} <=> n.typ \in {ApuSample}
    BY TypesApart
  <1>4. OneOf(GpuTypes, events')
    BY <1>1, <1>2, OneOfEachParts, ChainHandled
  <1>5. OneOf({ApuSample}, events')
    BY <1>1, <1>3, OneOfEachParts, ChainHandled
  <1>6. OneOfEach'
    BY <1>4, <1>5 DEF OneOfEach, OneOf, GpuTypes
  <1>7. {n} \in SUBSET DeviceEvents /\ \A x \in {n} : x.time > e.time
    BY DEF Successor
  <1>8. QED
    BY <1>6, <1>7 DEF HandlerOK

LEMMA TimerHandlerOK ==
  ASSUME DevicesOK, OneOfEach, NEW e \in events, e.time \in Nat, NEW i \in TimerIds,
         HandleTimerEvent(e, i), UNCHANGED programVars
  PROVE  HandlerOK(e)
  <1> DEFINE n == NextOverflow(i, e.time)
  <1>1. /\ e.typ = TimerOverflow(i) /\ HandleEvent(e, {n})
        /\ UNCHANGED <<ctl, initial_data, cycles_per_sample, driver, pc>>
    BY DEF HandleTimerEvent, HandleTimerOverflow, PlayNext, programVars
  <1>2. data' = [j \in TimerIds |-> IF j \in Overflowing(i) THEN initial_data[j]
                                    ELSE IF j \in Counting(i) THEN data[j] + 1 ELSE data[j]]
    BY DEF HandleTimerEvent, HandleTimerOverflow
  <1>3. \A j \in Counting(i) : data[j] + 1 \in Counts
    <2>1. SUFFICES ASSUME NEW j \in Counting(i) PROVE data[j] + 1 \in Counts
      OBVIOUS
    <2>2. data[j] # CounterMod - 1 /\ j \in TimerIds
      BY CountingBelowLast DEF Counting
    <2>3. QED
      BY <2>2, TimersAssumption DEF DevicesOK, Counts
  <1>4. data' \in [TimerIds -> Counts]
    BY <1>2, <1>3 DEF DevicesOK
  <1>5. DevicesOK'
    BY <1>1, <1>4 DEF DevicesOK
  <1>6. initial_data[i] \in Counts /\ ctl[i] \in TimerCtl
    BY DEF DevicesOK
  <1>7. OverflowTime(e.time, initial_data[i], ctl[i]) \in Nat
        /\ OverflowTime(e.time, initial_data[i], ctl[i]) > e.time
    BY <1>6, OverflowTimeSound
  <1>8. Successor(e, n) /\ n.typ = e.typ
    BY <1>1, <1>7, DevicesAssumption, ScheduledEvent DEF NextOverflow, Successor
  <1> HIDE DEF n
  <1>9. QED
    BY <1>1, <1>5, <1>8, OneSuccessor, TypesApart

LEMMA SampleHandlerOK ==
  ASSUME DevicesOK, OneOfEach, NEW e \in events, e.time \in Nat, HandleSample(e), UNCHANGED programVars
  PROVE  HandlerOK(e)
  <1> DEFINE n == EventAt(ApuSample, e.time + cycles_per_sample)
  <1>1. e.typ = ApuSample /\ HandleEvent(e, {n}) /\ DevicesOK'
    BY DEF HandleSample, NextSample, DevicesOK, soundVars, timerVars, programVars
  <1>2. Successor(e, n) /\ n.typ = ApuSample
    BY DevicesAssumption, SuccessorOf DEF DevicesOK
  <1> HIDE DEF n
  <1>3. QED
    BY <1>1, <1>2, OneSuccessor, TypesApart

LEMMA ActivateHandlerOK ==
  ASSUME DevicesOK, OneOfEach, NEW e \in events, NEW i \in Channels, HandleDmaActivate(e, i),
         UNCHANGED <<timerVars, soundVars, programVars>>
  PROVE  HandlerOK(e)
  <1>1. e.typ = DmaActivateChannel(i) /\ HandleEvent(e, {}) /\ events' = events \ {e}
    BY DEF HandleDmaActivate, HandleEvent
  <1>2. DevicesOK'
    BY DEF DevicesOK, timerVars, soundVars, programVars
  <1>3. e.typ \notin GpuTypes /\ e.typ \notin {ApuSample} /\ e.typ # RunLimitReached
    BY <1>1, TypesApart
  <1>4. OneOf(GpuTypes, events') /\ OneOf({ApuSample}, events')
    BY <1>1, <1>3, OneOfEachParts, ChainPassed
  <1>5. OneOfEach'
    BY <1>4 DEF OneOfEach, OneOf, GpuTypes
  <1>6. QED
    BY <1>1, <1>2, <1>3, <1>5 DEF HandlerOK

LEMMA GpuHandlerOK ==
  ASSUME DevicesOK, OneOfEach, NEW e \in events, e.time \in Nat, HandleGpuEvent(e),
         UNCHANGED <<timerVars, soundVars, programVars>>
  PROVE  HandlerOK(e)
  <1>1. DevicesOK'
    BY DEF DevicesOK, timerVars, soundVars, programVars
  <1>2. \E g, h \in GpuEvents, d \in {CYCLES_HDRAW, CYCLES_HBLANK} : e.typ = Gpu(g) /\ Then(e, h, d)
    BY DEF HandleGpuEvent, HandleHDrawEnd, HandleHBlankEnd, HandleVBlankHDrawEnd,
           HandleVBlankHBlankEnd, GpuEvents
  <1>3. PICK g \in GpuEvents, h \in GpuEvents, d \in {CYCLES_HDRAW, CYCLES_HBLANK} :
          e.typ = Gpu(g) /\ Then(e, h, d)
    BY <1>2
  <1> DEFINE n == EventAt(Gpu(h), e.time + d)
  <1>4. HandleEvent(e, {n})
    BY <1>3 DEF Then
  <1>5. d \in Nat \ {0} /\ Gpu(h) \in DeviceTypes
    BY GpuAssumption, DevicesAssumption
  <1>6. Successor(e, n) /\ n.typ = Gpu(h)
    BY <1>5, SuccessorOf
  <1> HIDE DEF n
  <1>7. {e.typ, n.typ} \subseteq GpuTypes
    BY <1>3, <1>6 DEF GpuTypes
  <1>8. QED
    BY <1>1, <1>4, <1>6, <1>7, OneSuccessor, TypesApart

LEMMA DeviceEventOK ==
  ASSUME DevicesOK, OneOfEach, NEW e \in events, e.time \in Nat, DeviceEvent(e)
  PROVE  HandlerOK(e)
  <1> USE DEF DeviceEvent
  <1>1. CASE \E i \in TimerIds : HandleTimerEvent(e, i)
    BY <1>1, TimerHandlerOK
  <1>2. CASE HandleSample(e)
    BY <1>2, SampleHandlerOK
  <1>3. CASE \E i \in Channels : HandleDmaActivate(e, i) /\ UNCHANGED <<timerVars, soundVars>>
    BY <1>3, ActivateHandlerOK
  <1>4. CASE HandleGpuEvent(e) /\ UNCHANGED <<timerVars, soundVars>>
    BY <1>4, GpuHandlerOK
  <1>5. QED
    BY <1>1, <1>2, <1>3, <1>4 DEF HandleAny

-----------------------------------------------------------------------------
\* Action by action, a step of the console is a step of the run loop.
LEMMA MasterStepRefines ==
  ASSUME NEW c \in 1..MaxStep, InLoop, Elapse(c), StepPhase, OnlyWritten(timestamp + c)
  PROVE  AnyStep(c)
  <1>1. timestamp' = timestamp + c
    BY DEF Elapse
  <1>2. events' \in SUBSET (DeviceEvents \cup events)
    BY DEF OnlyWritten
  <1>3. \A e \in events : e.typ = RunLimitReached => e \in events'
    BY WrittenApart DEF OnlyWritten
  <1>4. \A e \in events' \ events : e.time >= timestamp'
    BY <1>1 DEF OnlyWritten
  <1>5. QED
    BY <1>2, <1>3, <1>4 DEF AnyStep

LEMMA HandlerRefines ==
  ASSUME NEW e \in events, HandlerOK(e), phase \in {"running", "draining"}, AfterHandling
  PROVE  AnyHandler(e)
  <1>1. PICK new \in SUBSET DeviceEvents : HandleEvent(e, new) /\ \A n \in new : n.time > e.time
    BY DEF HandlerOK
  <1> DEFINE diff == events' \ (events \ {e})
  <1>2. events' = (events \ {e}) \cup new
    BY <1>1 DEF HandleEvent
  <1>3. diff \subseteq new /\ events' = (events \ {e}) \cup diff
    BY <1>2
  <1>4. \A d \in diff : d.typ # RunLimitReached /\ d.time > e.time
    BY <1>1, <1>3, DeviceEventsSound
  <1>5. HandleEvent(e, diff)
    BY <1>1, <1>3 DEF HandleEvent
  <1>6. events' \in SUBSET (DeviceEvents \cup events)
    BY <1>2
  <1> HIDE DEF diff
  <1>7. QED
    BY <1>4, <1>5, <1>6 DEF AnyHandler, HandlerOK, diff

LEMMA OneOfEachKept ==
  ASSUME OneOfEach, \A t \in GpuTypes \cup {ApuSample} :
                      {d \in events' : d.typ = t} = {d \in events : d.typ = t}
  PROVE  OneOfEach'
  <1>1. \A types \in {GpuTypes, {ApuSample}} : OneOf(types, events) => OneOf(types, events')
    BY DEF OneOf
  <1>2. OneOf(GpuTypes, events') /\ OneOf({ApuSample}, events')
    BY <1>1, OneOfEachParts
  <1>3. QED
    BY <1>2 DEF OneOfEach, OneOf, GpuTypes

GbaInv == RInv /\ DevicesOK /\ OneOfEach

LEMMA GbaStep ==
  ASSUME GbaInv, [GbaNext]_gbaVars
  PROVE  [RunLoopNext]_rlvars /\ DevicesOK' /\ OneOfEach'
  <1>0. DevicesOK /\ OneOfEach /\ timestamp \in Nat /\ \A e \in events : e.time \in Nat
    BY DEF GbaInv, RInv, RunTypeOK
  <1>1. CASE \E b \in BOOLEAN : Frame(b)
    <2>1. PICK b \in BOOLEAN : StartFrame(b) /\ UNCHANGED <<deviceVars, programVars>>
      BY <1>1 DEF Frame
    <2>2. DevicesOK'
      BY <1>0, <2>1 DEF DevicesOK, deviceVars, programVars, timerVars, soundVars
    <2>3. \A d \in Limit(timestamp + asked') : d.typ = RunLimitReached
      BY DEF Limit, EventAt
    <2>4. OneOfEach'
      BY <1>0, <2>1, <2>3, OneOfEachKept, TypesApart DEF StartFrame
    <2>5. QED
      BY <2>1, <2>2, <2>4 DEF RunLoopNext
  <1>2. CASE \E c \in 1..MaxStep : CpuSingleStep(c)
    <2>1. PICK c \in 1..MaxStep : InLoop /\ (CpuIdle(c) \/ CpuWrite(c)) /\ StepPhase
      BY <1>2 DEF CpuSingleStep
    <2>2. Elapse(c) /\ OnlyWritten(timestamp + c) /\ DevicesOK'
      BY <1>0, <2>1, CpuStepOK
    <2>3. AnyStep(c)
      BY <2>1, <2>2, MasterStepRefines
    <2>4. OneOf(GpuTypes, events') /\ OneOf({ApuSample}, events')
      BY <1>0, <2>2, ChainsKept, OneOfEachParts, WrittenApart
    <2>5. OneOfEach'
      BY <2>4 DEF OneOfEach, OneOf, GpuTypes
    <2>6. QED
      BY <2>2, <2>3, <2>5 DEF RunLoopNext
  <1>3. CASE \E c \in 1..MaxStep : DmaSingleStep(c)
    <2>1. PICK c \in 1..MaxStep : InLoop /\ DmaStep(c) /\ StepPhase /\ UNCHANGED programVars
      BY <1>3 DEF DmaSingleStep
    <2>2. Elapse(c) /\ OnlyWritten(timestamp + c) /\ DevicesOK'
      BY <1>0, <2>1, DmaStepOK
    <2>3. AnyStep(c)
      BY <2>1, <2>2, MasterStepRefines
    <2>4. OneOf(GpuTypes, events') /\ OneOf({ApuSample}, events')
      BY <1>0, <2>2, ChainsKept, OneOfEachParts, WrittenApart
    <2>5. OneOfEach'
      BY <2>4 DEF OneOfEach, OneOf, GpuTypes
    <2>6. QED
      BY <2>2, <2>3, <2>5 DEF RunLoopNext
  <1>4. CASE Breakpoint
    <2>1. Hit /\ DevicesOK'
      BY <1>0, <1>4 DEF Breakpoint, DevicesOK, deviceVars, programVars, timerVars, soundVars
    <2>2. OneOfEach'
      BY <1>0, <2>1, OneOfEachKept, TypesApart DEF Hit, CancelAtHit, CancelPending
    <2>3. QED
      BY <2>1, <2>2 DEF RunLoopNext
  <1>5. CASE \E e \in events : RunLimit(e)
    <2>1. PICK e \in events : HandleRunLimit(e) /\ UNCHANGED <<deviceVars, programVars>>
      BY <1>5 DEF RunLimit
    <2>2. DevicesOK'
      BY <1>0, <2>1 DEF DevicesOK, deviceVars, programVars, timerVars, soundVars
    <2>3. OneOfEach'
      BY <1>0, <2>1, OneOfEachKept, TypesApart DEF HandleRunLimit
    <2>4. QED
      BY <2>1, <2>2, <2>3 DEF RunLoopNext
  <1>6. CASE \E e \in events : DeviceEvent(e)
    <2>1. PICK e \in events : DeviceEvent(e)
      BY <1>6
    <2>2. HandlerOK(e)
      BY <1>0, <2>1, DeviceEventOK
    <2>3. AnyHandler(e)
      BY <2>1, <2>2, HandlerRefines DEF DeviceEvent
    <2>4. QED
      BY <2>2, <2>3 DEF RunLoopNext, HandlerOK
  <1>7. CASE UNCHANGED gbaVars
    <2>1. UNCHANGED rlvars
      BY <1>7 DEF gbaVars, rlvars
    <2>2. DevicesOK' /\ OneOfEach'
      BY <1>0, <1>7 DEF gbaVars, DevicesOK, OneOfEach, deviceVars, programVars, timerVars, soundVars,
                        schedVars
    <2>3. QED
      BY <2>1, <2>2
  <1>8. QED
    BY <1>1, <1>2, <1>3, <1>4, <1>5, <1>6, <1>7 DEF GbaNext

LEMMA GbaInvariant == GbaSpec => []GbaInv
  <1>1. GbaInit => GbaInv
    BY GbaStarts, RunInitInv DEF GbaInv
  <1>2. GbaInv /\ [GbaNext]_gbaVars => GbaInv'
    BY GbaStep, RunLoopStep DEF GbaInv
  <1>3. QED
    BY <1>1, <1>2, PTL DEF GbaSpec

\* The console, with all its devices and any program, is a run loop around
\* arbitrary devices: no handler or register write schedules an event into the
\* past or touches the limit of a run (gba.rs run, frame, handle_events).
THEOREM GbaImplementsRunLoop == GbaSpec => RunLoopSpec
  <1>1. GbaInit => RunLoopInit
    BY GbaStarts
  <1>2. GbaInv /\ [GbaNext]_gbaVars => [RunLoopNext]_rlvars
    BY GbaStep
  <1>3. QED
    BY <1>1, <1>2, GbaInvariant, PTL DEF GbaSpec, RunLoopSpec

\* The display and the sampler keep their one event through all runs, however
\* they end (gba.rs run and handle_events, gpu on_event, sound on_event).
THEOREM GbaOneOfEach == GbaSpec => []OneOfEach
  BY GbaInvariant, PTL DEF GbaInv

\* What was proved of the run loop holds of the console: its peek is safe, its
\* runs are bounded and no event is overdue by more than one step.
THEOREM GbaKeepsPromises == GbaSpec => [](OneLimitPerRun /\ RunLength /\ LatencyBounded)
  BY GbaInvariant, PTL DEF GbaInv, RInv

-----------------------------------------------------------------------------
\* What holds of 0, and of n + 1 when it holds of n, holds of all numbers: the
\* counting of a FIFO's samples rests on it.
LEMMA UpToAll ==
  ASSUME NEW S, 0 \in S, \A n \in S \cap Nat : n + 1 \in S
  PROVE  Nat \subseteq S
  <1> DEFINE Rest == Nat \ S
  <1> SUFFICES ASSUME Rest # {} PROVE FALSE
    OBVIOUS
  <1>1. PICK x \in Rest : \A y \in Rest : ~ (<<y, x>> \in OpToRel(<, Nat))
    <2>1. Rest \subseteq Nat
      OBVIOUS
    <2> HIDE DEF Rest
    <2>2. QED
      BY <2>1, NatLessThanWellFounded, WFMin
  <1>2. x \in Nat /\ x # 0
    OBVIOUS
  <1>3. x - 1 \in Nat /\ x - 1 < x /\ (x - 1) + 1 = x
    BY <1>2
  <1>4. x - 1 \notin S
    BY <1>3
  <1>5. <<x - 1, x>> \in OpToRel(<, Nat)
    <2> DEFINE y == x - 1
    <2>1. y \in Nat /\ y < x /\ <<y, x>> \in Nat \X Nat /\ <<y, x>>[1] = y /\ <<y, x>>[2] = x
      BY <1>2, <1>3
    <2> HIDE DEF y
    <2>2. <<y, x>> \in OpToRel(<, Nat)
      BY <2>1, Zenon DEF OpToRel
    <2>3. QED
      BY <2>2 DEF y
  <1>6. QED
    BY <1>1, <1>3, <1>4, <1>5

\* A ring with a count that fits.
Counted(ring) == ring.count \in 0..Capacity

LEMMA WriteCounted ==
  ASSUME NEW ring, Counted(ring), NEW v
  PROVE  Counted(FifoWrite(ring, v))
  BY FifoAssumption DEF Counted, FifoWrite

LEMMA FilledCounted ==
  ASSUME NEW ring, Counted(ring), NEW addr
  PROVE  Counted(Filled(ring, addr))
  <1> DEFINE Body(F) == [n \in 0..FifoBurst |->
                           IF n = 0 THEN ring ELSE FifoWrite(F[n - 1], Burst(addr)[n])]
             Fills(F, m) == \A n \in 0..m :
                              F[n] = IF n = 0 THEN ring ELSE FifoWrite(F[n - 1], Burst(addr)[n])
             Reached == {m \in Nat : \E F : F = [n \in 0..m |-> F[n]] /\ Fills(F, m)}
             Fill == CHOOSE F : F = Body(F)
  <1>0. FifoBurst \in Nat \ {0}
    BY DmaAssumption
  <1>1. 0 \in Reached
    <2> DEFINE G == [n \in 0..0 |-> ring]
    <2>1. G = [n \in 0..0 |-> G[n]] /\ Fills(G, 0)
      OBVIOUS
    <2>2. QED
      BY <2>1
  <1>2. ASSUME NEW m \in Reached PROVE m + 1 \in Reached
    <2>1. PICK F : F = [n \in 0..m |-> F[n]] /\ Fills(F, m)
      BY <1>2
    <2> DEFINE G == [n \in 0..(m + 1) |->
                       IF n = m + 1 THEN FifoWrite(F[m], Burst(addr)[m + 1]) ELSE F[n]]
    <2>2. G = [n \in 0..(m + 1) |-> G[n]]
      OBVIOUS
    <2>3. \A n \in 0..m : G[n] = F[n]
      OBVIOUS
    <2>4. G[m + 1] = FifoWrite(F[m], Burst(addr)[m + 1])
      OBVIOUS
    <2> HIDE DEF G
    <2>5. Fills(G, m + 1)
      <3> SUFFICES ASSUME NEW n \in 0..(m + 1)
                   PROVE  G[n] = IF n = 0 THEN ring ELSE FifoWrite(G[n - 1], Burst(addr)[n])
        OBVIOUS
      <3>1. CASE n = m + 1
        <4>1. n # 0 /\ n - 1 = m /\ m \in 0..m
          BY <3>1
        <4>2. QED
          BY <2>3, <2>4, <3>1, <4>1
      <3>2. CASE n # m + 1
        <4>1. n \in 0..m /\ (n # 0 => n - 1 \in 0..m)
          BY <3>2
        <4>2. QED
          BY <2>1, <2>3, <4>1
      <3>3. QED
        BY <3>1, <3>2
    <2>6. m + 1 \in Nat
      OBVIOUS
    <2>7. QED
      BY <2>2, <2>5, <2>6
  <1>3. FifoBurst \in Reached
    <2> HIDE DEF Reached
    <2>1. Nat \subseteq Reached
      BY <1>1, <1>2, UpToAll
    <2>2. QED
      BY <1>0, <2>1
  <1>4. PICK F : F = [n \in 0..FifoBurst |-> F[n]] /\ Fills(F, FifoBurst)
    BY <1>3
  <1>5. F = Body(F)
    BY <1>4
  <1>6. Fill = Body(Fill)
    BY <1>5
  <1>7. Filled(ring, addr) = Fill[FifoBurst]
    BY DEF Filled
  <1> HIDE DEF Fill
  <1>8. \A n \in 0..FifoBurst : Fill[n] = IF n = 0 THEN ring ELSE FifoWrite(Fill[n - 1], Burst(addr)[n])
    BY <1>6
  <1> DEFINE Fine == {m \in Nat : m <= FifoBurst => Counted(Fill[m])}
  <1>9. 0 \in Fine
    BY <1>0, <1>8
  <1>10. ASSUME NEW m \in Fine PROVE m + 1 \in Fine
    <2> SUFFICES ASSUME m + 1 <= FifoBurst PROVE Counted(Fill[m + 1])
      OBVIOUS
    <2>1. Counted(Fill[m]) /\ m + 1 \in 0..FifoBurst /\ m + 1 # 0 /\ (m + 1) - 1 = m
      BY <1>0
    <2>2. Fill[m + 1] = FifoWrite(Fill[m], Burst(addr)[m + 1])
      BY <1>8, <2>1
    <2>3. QED
      BY <2>1, <2>2, WriteCounted
  <1>11. FifoBurst \in Fine
    <2> HIDE DEF Fine
    <2>1. Nat \subseteq Fine
      BY <1>9, <1>10, UpToAll
    <2>2. QED
      BY <1>0, <2>1
  <1>12. QED
    BY <1>7, <1>11

-----------------------------------------------------------------------------
Channeled(f) == f = [i \in Channels |-> f[i]]

RingsOK ==
  /\ fifo = [f \in Fifos |-> fifo[f]]
  /\ \A f \in Fifos : Counted(fifo[f])

Activates(i) == \E e \in events : e.typ = DmaActivateChannel(i)

\* What the registers, the events and the driver's past say of channel i.
Feeds(i) ==
  /\ dma_ctrl[i].enabled /\ fifo_mode[i] => /\ dma_internal[i].dst_addr = dma_dst[i]
                                            /\ dma_ctrl[i].timing = TIMING_SPECIAL
  /\ Activates(i) => ~fifo_mode[i] /\ StartsNow(driver, pc - 1, i)
  /\ dma_ctrl[i].enabled => LeavesOn(driver, pc - 1, i)

FeedInv ==
  /\ driver \in Drivers /\ pc \in Nat \ {0}
  /\ Channeled(dma_dst) /\ Channeled(dma_ctrl) /\ Channeled(fifo_mode) /\ Channeled(dma_internal)
  /\ pending_set \subseteq Channels
  /\ RingsOK
  /\ \A i \in Channels : Feeds(i)
  /\ RoomForBurst

LEMMA NewRing == Counted(NewFifo)
  BY FifoAssumption DEF Counted, NewFifo

LEMMA ReadCounted ==
  ASSUME NEW ring, Counted(ring)
  PROVE  Counted(FifoAfterRead(ring)) /\ FifoAfterRead(ring).count <= ring.count
  BY FifoAssumption DEF Counted, FifoAfterRead

LEMMA ResetCounted ==
  ASSUME NEW ring
  PROVE  Counted(FifoReset(ring))
  BY FifoAssumption DEF Counted, FifoReset

LEMMA ActivationsApart ==
  /\ \A i, j : DmaActivateChannel(i) = DmaActivateChannel(j) => i = j
  /\ \A i, j : DmaActivateChannel(i) # TimerOverflow(j)
  /\ \A i : DmaActivateChannel(i) # ApuSample
  BY DEF DmaActivateChannel, TimerOverflow, ApuSample

LEMMA FeedInit ==
  ASSUME DmaInit, SoundInit, driver \in Drivers, pc = 1, \A i \in Channels : ~Activates(i)
  PROVE  FeedInv
  <1>1. driver \in Drivers /\ pc \in Nat \ {0} /\ pending_set = {}
    BY DEF DmaInit
  <1>2. Channeled(dma_dst) /\ Channeled(dma_ctrl) /\ Channeled(fifo_mode) /\ Channeled(dma_internal)
    BY DEF DmaInit, Channeled
  <1>3. RingsOK
    BY NewRing DEF SoundInit, RingsOK
  <1>4. \A i \in Channels : ~dma_ctrl[i].enabled
    BY DEF DmaInit
  <1>5. RoomForBurst
    BY <1>1 DEF RoomForBurst, FilledBy
  <1>6. QED
    BY <1>1, <1>2, <1>3, <1>4, <1>5 DEF FeedInv, Feeds

\* The driver's past grows.
LEMMA PastGrows ==
  ASSUME NEW d, NEW n \in Nat, NEW i
  PROVE  /\ StartsNow(d, n, i) => StartsNow(d, n + 1, i)
         /\ LeavesOn(d, n, i) /\ ~ControlWrite(d[n + 1], i) => LeavesOn(d, n + 1, i)
         /\ ControlWrite(d[n + 1], i) /\ d[n + 1].value.enabled =>
              /\ LeavesOn(d, n + 1, i)
              /\ d[n + 1].value.timing = TIMING_IMMEDIATE => StartsNow(d, n + 1, i)
  <1>1. \A k \in 1..n : k \in 1..(n + 1) /\ \A j \in (k + 1)..(n + 1) : j \in (k + 1)..n \/ j = n + 1
    OBVIOUS
  <1>2. n + 1 \in 1..(n + 1) /\ (n + 1 + 1)..(n + 1) = {}
    OBVIOUS
  <1>3. StartsNow(d, n, i) => StartsNow(d, n + 1, i)
    BY <1>1 DEF StartsNow
  <1>4. LeavesOn(d, n, i) /\ ~ControlWrite(d[n + 1], i) => LeavesOn(d, n + 1, i)
    BY <1>1 DEF LeavesOn
  <1>5. ControlWrite(d[n + 1], i) /\ d[n + 1].value.enabled => LeavesOn(d, n + 1, i)
    BY <1>2 DEF LeavesOn
  <1>6. ControlWrite(d[n + 1], i) /\ d[n + 1].value.enabled
        /\ d[n + 1].value.timing = TIMING_IMMEDIATE => StartsNow(d, n + 1, i)
    BY <1>2 DEF StartsNow
  <1>7. QED
    BY <1>3, <1>4, <1>5, <1>6

\* A step after which nothing is pending leaves room.
LEMMA NonePending ==
  ASSUME pending_set' = {}
  PROVE  RoomForBurst'
  BY DEF RoomForBurst, FilledBy

LEMMA FeedCpu ==
  ASSUME FeedInv, \A d \in Drivers : Settled(d), NEW c \in 1..MaxStep, CpuWrite(c)
  PROVE  FeedInv'
  <1> DEFINE w == driver[pc]
             now == timestamp + c
  <1>1. pending_set = {} /\ pc \in 1..Len(driver) /\ driver \in Drivers /\ pc \in Nat \ {0}
        /\ pc' = pc + 1 /\ driver' = driver /\ (pc - 1) + 1 = pc /\ pc' - 1 = pc /\ pc - 1 \in Nat
    BY DEF CpuWrite, CpuStep, FeedInv
  <1>2. IsWrite(w) /\ Write(w, now)
    BY <1>1, DriversAssumption DEF CpuWrite
  <1>3. \A i \in Channels :
          /\ w.reg = "DMAxDAD" /\ w.id = i => ~LeavesOn(driver, pc - 1, i)
          /\ ControlWrite(w, i) /\ w.value.timing = TIMING_SPECIAL => ~StartsNow(driver, pc - 1, i)
          /\ ControlWrite(w, i) /\ w.value.enabled /\ w.value.timing # TIMING_SPECIAL =>
               ~LeavesOn(driver, pc - 1, i)
    BY <1>1 DEF Settled
  <1>4. \A i \in Channels :
          /\ StartsNow(driver, pc - 1, i) => StartsNow(driver', pc' - 1, i)
          /\ LeavesOn(driver, pc - 1, i) /\ ~ControlWrite(w, i) => LeavesOn(driver', pc' - 1, i)
          /\ ControlWrite(w, i) /\ w.value.enabled =>
               /\ LeavesOn(driver', pc' - 1, i)
               /\ w.value.timing = TIMING_IMMEDIATE => StartsNow(driver', pc' - 1, i)
    BY <1>1, PastGrows
  <1>5. driver' \in Drivers /\ pc' \in Nat \ {0}
    BY <1>1
  <1>6. /\ Channeled(dma_dst) /\ Channeled(dma_ctrl) /\ Channeled(fifo_mode) /\ Channeled(dma_internal)
        /\ RingsOK /\ \A i \in Channels : Feeds(i)
    BY DEF FeedInv
  <1> HIDE DEF w, now
  <1>7. CASE w.reg \in {"TMxCNT_L", "TMxCNT_H"}
    <2>1. UNCHANGED <<dmaVars, soundVars>>
      BY <1>2, <1>7 DEF Write, ToTimer
    <2>2. \A i \in Channels : Activates(i)' => Activates(i)
      <3>1. \A e \in events' : e \in events \/ \E i : e.typ = TimerOverflow(i)
        <4>1. CASE w.reg = "TMxCNT_L"
          BY <1>2, <4>1 DEF Write, TimerWriteReload
        <4>2. CASE w.reg = "TMxCNT_H"
          <5>1. TimerWriteCtl(w.id, w.value, now)
            BY <1>2, <4>2 DEF Write
          <5>2. QED
            BY <5>1 DEF TimerWriteCtl, CancelTimer, CancelPending, EventAt
        <4>3. QED
          BY <1>7, <4>1, <4>2
      <3>2. QED
        BY <3>1, ActivationsApart DEF Activates
    <2>3. \A i \in Channels : Feeds(i)' /\ ~ControlWrite(w, i)
      BY <1>4, <1>6, <1>7, <2>1, <2>2 DEF Feeds, dmaVars, ControlWrite
    <2>4. QED
      BY <1>1, <1>5, <1>6, <2>1, <2>3, NonePending DEF FeedInv, dmaVars, soundVars, Channeled, RingsOK
  <1>8. CASE w.reg \in {"DMAxSAD", "DMAxDAD"}
    <2>1. /\ w.id \in Channels /\ ToDma
          /\ \/ DmaWriteSrc(w.id, w.value)
             \/ w.reg = "DMAxDAD" /\ DmaWriteDst(w.id, w.value)
      BY <1>2, <1>8 DEF Write, IsWrite
    <2>2. UNCHANGED <<dma_ctrl, dma_internal, fifo_mode, pending_set, events, soundVars>>
      BY <2>1 DEF ToDma, DmaWriteSrc, DmaWriteDst
    <2>3. /\ Channeled(dma_dst)'
          /\ \A i \in Channels : \/ dma_dst'[i] = dma_dst[i]
                                 \/ w.reg = "DMAxDAD" /\ w.id = i
      BY <1>6, <2>1 DEF DmaWriteSrc, DmaWriteDst, Channeled
    <2>4. \A i \in Channels : Feeds(i)' /\ ~ControlWrite(w, i)
      <3> TAKE i \in Channels
      <3>1. ~ControlWrite(w, i)
        BY <1>8 DEF ControlWrite
      <3>2. dma_ctrl[i].enabled => dma_dst'[i] = dma_dst[i]
        BY <1>3, <1>6, <2>3 DEF Feeds
      <3>3. QED
        BY <1>4, <1>6, <2>2, <3>1, <3>2 DEF Feeds, Activates
    <2>5. QED
      BY <1>1, <1>5, <1>6, <2>2, <2>3, <2>4, NonePending DEF FeedInv, soundVars, Channeled, RingsOK
  <1>9. CASE w.reg = "DMAxCNT_H"
    <2>1. w.id \in Channels /\ DmaWriteCtrl(w.id, w.value, now) /\ ToDma
      BY <1>2, <1>9 DEF Write, IsWrite
    <2>2. UNCHANGED <<dma_dst, soundVars>> /\ pending_set' = {}
      BY <1>1, <2>1 DEF ToDma, DmaWriteCtrl
    <2>3. Channeled(dma_ctrl)' /\ Channeled(fifo_mode)' /\ Channeled(dma_internal)'
      BY <1>6, <2>1 DEF DmaWriteCtrl, Channeled
    <2>4. \A i \in Channels : Feeds(i)'
      <3> TAKE i \in Channels
      <3>1. CASE i # w.id
        <4>1. dma_ctrl'[i] = dma_ctrl[i] /\ fifo_mode'[i] = fifo_mode[i]
              /\ dma_internal'[i] = dma_internal[i] /\ ~ControlWrite(w, i)
          BY <1>6, <2>1, <3>1 DEF DmaWriteCtrl, Channeled, ControlWrite
        <4>2. Activates(i)' => Activates(i)
          BY <2>1, <3>1, ActivationsApart DEF DmaWriteCtrl, Activates, EventAt
        <4>3. QED
          BY <1>4, <1>6, <2>2, <4>1, <4>2 DEF Feeds
      <3>2. CASE i = w.id
        <4>1. ControlWrite(w, i)
          BY <1>9, <3>2 DEF ControlWrite
        <4>2. dma_ctrl'[i] = w.value
          BY <1>6, <2>1, <3>2 DEF DmaWriteCtrl, Channeled
        <4>3. CASE Rising(i, w.value)
          <5>1. dma_internal'[i].dst_addr = dma_dst[i] /\ (fifo_mode'[i] <=> IsFifoTransfer(i, w.value))
            BY <1>6, <2>1, <3>2, <4>3 DEF DmaWriteCtrl, Channeled, Latched, IsFifoTransfer
          <5>2. w.value.enabled
            BY <4>3 DEF Rising
          <5>3. CASE w.value.timing = TIMING_IMMEDIATE
            BY <1>4, <2>2, <4>1, <4>2, <5>1, <5>2, <5>3
               DEF Feeds, IsFifoTransfer, TIMING_IMMEDIATE, TIMING_SPECIAL
          <5>4. CASE w.value.timing # TIMING_IMMEDIATE
            <6>1. events' = events
              BY <2>1, <3>2, <5>4 DEF DmaWriteCtrl
            <6>2. QED
              BY <1>3, <1>4, <1>6, <2>2, <4>1, <4>2, <5>1, <5>2, <6>1
                 DEF Feeds, IsFifoTransfer, Activates
          <5>5. QED
            BY <5>3, <5>4
        <4>4. CASE ~Rising(i, w.value)
          <5>1. UNCHANGED <<events, fifo_mode, dma_internal>>
            BY <2>1, <3>2, <4>4 DEF DmaWriteCtrl
          <5>2. w.value.enabled => dma_ctrl[i].enabled
            BY <4>4 DEF Rising
          <5>3. QED
            BY <1>3, <1>4, <1>6, <2>2, <4>1, <4>2, <5>1, <5>2 DEF Feeds, Activates
        <4>5. QED
          BY <4>3, <4>4
      <3>3. QED
        BY <3>1, <3>2
    <2>5. QED
      BY <1>5, <1>6, <2>2, <2>3, <2>4, NonePending DEF FeedInv, soundVars, Channeled, RingsOK
  <1>10. CASE w.reg \in {"SOUNDCNT_H", "SOUNDCNT_X", "FIFO", "SOUNDBIAS"}
    <2>1. UNCHANGED <<dmaVars, events>>
      BY <1>2, <1>10 DEF Write, ToSound
    <2>2. RingsOK'
      <3>1. CASE w.reg = "SOUNDCNT_H"
        BY <1>2, <1>6, <3>1, ResetCounted DEF Write, SoundWriteControl, RingsOK
      <3>2. CASE w.reg = "FIFO"
        <4>1. /\ w.id \in Fifos
              /\ fifo' = [fifo EXCEPT ![w.id] =
                            FifoWrite(FifoWrite(fifo[w.id], w.value[1]), w.value[2])]
          BY <1>2, <3>2 DEF Write, SoundWriteFifo, IsWrite
        <4>2. Counted(FifoWrite(FifoWrite(fifo[w.id], w.value[1]), w.value[2]))
          BY <1>6, <4>1, WriteCounted DEF RingsOK
        <4>3. QED
          BY <1>6, <4>1, <4>2 DEF RingsOK
      <3>3. CASE w.reg \in {"SOUNDCNT_X", "SOUNDBIAS"}
        BY <1>2, <1>6, <3>3 DEF Write, SoundWriteEnable, SoundWriteBias, RingsOK
      <3>4. QED
        BY <1>10, <3>1, <3>2, <3>3
    <2>3. \A i \in Channels : Feeds(i)' /\ ~ControlWrite(w, i)
      BY <1>4, <1>6, <1>10, <2>1 DEF Feeds, dmaVars, ControlWrite, Activates
    <2>4. QED
      BY <1>1, <1>5, <1>6, <2>1, <2>2, <2>3, NonePending DEF FeedInv, dmaVars, Channeled
  <1>11. QED
    BY <1>2, <1>7, <1>8, <1>9, <1>10 DEF IsWrite

\* The transfers, channel by channel, keep the counts and leave nothing pending.
LEMMA FeedDma ==
  ASSUME FeedInv, NEW c \in 1..MaxStep, DmaStep(c), UNCHANGED <<driver, pc>>
  PROVE  FeedInv'
  <1>1. PerformWork(c) /\ pending_set' = {} /\ UNCHANGED <<dma_dst, fifo_mode, events>>
    BY DEF DmaStep, PerformWork, dmaRegs
  <1>2. /\ driver \in Drivers /\ pc \in Nat \ {0}
        /\ Channeled(dma_dst) /\ Channeled(dma_ctrl) /\ Channeled(fifo_mode) /\ Channeled(dma_internal)
        /\ RingsOK /\ \A i \in Channels : Feeds(i)
    BY DEF FeedInv
  <1>3. Channeled(dma_ctrl)' /\ Channeled(dma_internal)'
    BY <1>1 DEF PerformWork, Channeled
  <1>4. \A i \in Channels : /\ dma_ctrl'[i].enabled => dma_ctrl[i].enabled
                            /\ dma_ctrl'[i].timing = dma_ctrl[i].timing
                            /\ fifo_mode[i] => dma_internal'[i].dst_addr \in
                                                 {dma_dst[i], dma_internal[i].dst_addr}
    BY <1>1 DEF PerformWork, Disabled, InternalAfter
  <1>5. \A i \in Channels : Feeds(i)'
    BY <1>1, <1>2, <1>4 DEF Feeds, Activates
  <1>6. RingsOK'
    <2>1. \A f \in Fifos : \A i, ring : Counted(ring) => Counted(AfterChannel(f, i, ring))
      BY FilledCounted DEF AfterChannel
    <2>2. fifo' = [f \in Fifos |-> AfterChannel(f, 2, AfterChannel(f, 1, fifo[f]))]
      BY DEF DmaStep
    <2>3. QED
      BY <1>2, <2>1, <2>2 DEF RingsOK
  <1>7. QED
    BY <1>1, <1>2, <1>3, <1>5, <1>6, NonePending DEF FeedInv, Channeled

\* A step that leaves the rings and the channels alone and starts nothing.
LEMMA FeedQuiet ==
  ASSUME FeedInv, UNCHANGED <<dmaVars, fifo, driver, pc>>,
         \A i \in Channels : Activates(i)' => Activates(i)
  PROVE  FeedInv'
  <1>1. \A i \in Channels : Feeds(i)'
    BY DEF FeedInv, Feeds, dmaVars
  <1>2. RoomForBurst'
    BY DEF FeedInv, RoomForBurst, FilledBy, dmaVars
  <1>3. QED
    BY <1>1, <1>2 DEF FeedInv, Channeled, RingsOK, dmaVars

\* An event that asks only for channels that feed no FIFO.
LEMMA FeedRequest ==
  ASSUME FeedInv, UNCHANGED <<dmaButPending, fifo, driver, pc>>, NEW S \in SUBSET Channels, Request(S),
         \A i \in S : ~fifo_mode[i],
         \A i \in Channels : Activates(i)' => Activates(i)
  PROVE  FeedInv'
  <1>1. /\ UNCHANGED <<dma_dst, dma_ctrl, dma_internal, fifo_mode>>
        /\ pending_set' = pending_set \cup S
    BY DEF Request, dmaButPending
  <1>2. \A j \in Channels : Feeds(j)'
    BY <1>1 DEF FeedInv, Feeds
  <1>3. RoomForBurst'
    BY <1>1 DEF FeedInv, RoomForBurst, FilledBy
  <1>4. QED
    BY <1>1, <1>2, <1>3 DEF FeedInv, Channeled, RingsOK

LEMMA FeedActivate ==
  ASSUME FeedInv, NEW e \in events, NEW i \in Channels, HandleDmaActivate(e, i),
         UNCHANGED <<soundVars, driver, pc>>
  PROVE  FeedInv'
  <1>1. /\ UNCHANGED <<dmaButPending, fifo>> /\ events' \subseteq events
        /\ Request({i}) /\ Activates(i)
    BY DEF HandleDmaActivate, HandleEvent, soundVars, Activates
  <1>2. \A j \in Channels : Activates(j)' => Activates(j)
    BY <1>1 DEF Activates
  <1>3. ~fifo_mode[i]
    BY <1>1 DEF FeedInv, Feeds
  <1>4. QED
    BY <1>1, <1>2, <1>3, FeedRequest

LEMMA FeedSample ==
  ASSUME FeedInv, NEW e \in events, HandleSample(e), UNCHANGED <<driver, pc>>
  PROVE  FeedInv'
  <1>1. \A i \in Channels : Activates(i)' => Activates(i)
    BY ActivationsApart DEF HandleSample, HandleEvent, NextSample, EventAt, Activates
  <1>2. UNCHANGED <<dmaVars, fifo>>
    BY DEF HandleSample, soundVars
  <1>3. QED
    BY <1>1, <1>2, FeedQuiet

\* An overflow takes samples away and asks for bursts where half is free.
LEMMA FeedTimer ==
  ASSUME FeedInv, NEW e \in events, NEW i \in TimerIds, HandleTimerEvent(e, i),
         UNCHANGED <<driver, pc>>
  PROVE  FeedInv'
  <1> DEFINE ids == Overflowing(i)
  <1>1. /\ UNCHANGED <<dma_dst, dma_ctrl, dma_internal, fifo_mode>>
        /\ PlayNext(ids) /\ pending_set' = pending_set \cup Refills(ids)
        /\ HandleTimerOverflow(e, i)
    BY DEF HandleTimerEvent, Request, dmaButPending
  <1>2. \A j \in Channels : Activates(j)' => Activates(j)
    BY <1>1, ActivationsApart DEF HandleTimerOverflow, HandleEvent, NextOverflow, EventAt, Activates
  <1> HIDE DEF ids
  <1>3. \A j \in Channels : Feeds(j)'
    BY <1>1, <1>2 DEF FeedInv, Feeds
  <1>4. /\ RingsOK'
        /\ \A f \in Fifos : fifo'[f].count <= fifo[f].count
        /\ \A f \in Served(ids) : fifo'[f] = FifoAfterRead(fifo[f])
    <2>1. fifo' = [f \in Fifos |-> IF f \in Served(ids) THEN FifoAfterRead(fifo[f]) ELSE fifo[f]]
      BY <1>1 DEF PlayNext
    <2>2. \A f \in Fifos : Counted(fifo[f]) /\ fifo[f].count <= fifo[f].count
      BY FifoAssumption DEF FeedInv, RingsOK, Counted
    <2>3. \A f \in Fifos : Counted(fifo'[f]) /\ fifo'[f].count <= fifo[f].count
      BY <2>1, <2>2, ReadCounted
    <2>4. Served(ids) \subseteq Fifos
      BY DEF Served
    <2>5. QED
      BY <2>1, <2>3, <2>4 DEF RingsOK
  <1>5. pending_set' \subseteq Channels
    BY <1>1 DEF FeedInv, Refills, RequestedByFifo
  <1>6. RoomForBurst'
    <2> SUFFICES ASSUME NEW f \in Fifos, NEW j \in Channels, FilledBy(f, j)'
                 PROVE  fifo'[f].count + FifoBurst <= Capacity
      BY DEF RoomForBurst
    <2>0. /\ fifo[f].count \in Int /\ fifo'[f].count \in Int /\ fifo'[f].count <= fifo[f].count
          /\ FifoBurst \in Int /\ Capacity \in Int /\ FifoBurst + FifoBurst <= Capacity
      BY <1>4, FifoAssumption, DmaAssumption, SoundAssumption DEF FeedInv, RingsOK, Counted
    <2>1. CASE j \in pending_set
      <3>1. FilledBy(f, j)
        BY <1>1, <2>1 DEF FilledBy
      <3>2. fifo[f].count + FifoBurst <= Capacity
        BY <3>1 DEF FeedInv, RoomForBurst
      <3>3. QED
        BY <2>0, <3>2
    <2>2. CASE j \notin pending_set
      <3>1. PICK g \in Served(ids) :
              RunningLow(FifoAfterRead(fifo[g])) /\ j \in RequestedByFifo(FifoReg(g))
        BY <1>1, <2>2 DEF FilledBy, Refills
      <3>2. dma_ctrl[j].enabled /\ fifo_mode[j] /\ dma_dst[j] = FifoReg(g)
            /\ dma_internal[j].dst_addr = FifoReg(f)
        BY <1>1, <3>1 DEF FilledBy, RequestedByFifo
      <3>3. FifoReg(f) = FifoReg(g)
        BY <3>2 DEF FeedInv, Feeds
      <3>4. f = g
        BY <3>1, <3>3, SoundAssumption DEF FifoReg, Fifos, Served
      <3>5. fifo'[f].count <= FifoBurst
        BY <1>4, <3>1, <3>4 DEF RunningLow
      <3>6. QED
        BY <2>0, <3>5
    <2>3. QED
      BY <2>1, <2>2
  <1>7. QED
    BY <1>1, <1>3, <1>4, <1>5, <1>6 DEF FeedInv, Channeled

LEMMA FeedAny ==
  ASSUME FeedInv, NEW e \in events, HandleAny(e), UNCHANGED <<driver, pc>>
  PROVE  FeedInv'
  <1>1. CASE \E i \in TimerIds : HandleTimerEvent(e, i)
    BY <1>1, FeedTimer
  <1>2. CASE HandleSample(e)
    BY <1>2, FeedSample
  <1>3. CASE \E i \in Channels : HandleDmaActivate(e, i) /\ UNCHANGED <<timerVars, soundVars>>
    BY <1>3, FeedActivate
  <1>4. QED
    BY <1>1, <1>2, <1>3 DEF HandleAny

LEMMA FeedIdle ==
  ASSUME FeedInv, NEW c \in 1..MaxStep, CpuIdle(c)
  PROVE  FeedInv'
  BY FeedQuiet DEF CpuIdle, soundVars, Activates

LEMMA FeedStep ==
  ASSUME \A d \in Drivers : Settled(d)
  PROVE  FeedInv /\ [PNext]_pvars => FeedInv'
  <1> SUFFICES ASSUME FeedInv, [PNext]_pvars PROVE FeedInv'
    OBVIOUS
  <1>1. CASE \E c \in 1..MaxStep : CpuIdle(c)
    BY <1>1, FeedIdle
  <1>2. CASE \E c \in 1..MaxStep : CpuWrite(c)
    BY <1>2, FeedCpu
  <1>3. CASE \E c \in 1..MaxStep : DmaStep(c) /\ UNCHANGED <<driver, pc>>
    BY <1>3, FeedDma
  <1>4. CASE (\E e \in events : HandleAny(e)) /\ UNCHANGED <<driver, pc>>
    BY <1>4, FeedAny
  <1>5. CASE UNCHANGED pvars
    BY <1>5, FeedQuiet DEF pvars, sysVars, schedVars, soundVars, Activates
  <1>6. QED
    BY <1>1, <1>2, <1>3, <1>4, <1>5 DEF PNext

\* With drivers that let a channel feed its FIFO, a burst about to be transferred
\* finds room in its FIFO, however late the overflows and the transfers come: the
\* samples that fifo.rs would drop are never written (sound/mod.rs
\* handle_timer_overflow, dma.rs notify_sound_fifo and transfer).
THEOREM SoundRoomForBurst ==
  ASSUME \A d \in Drivers : Settled(d)
  PROVE  PSpec => []RoomForBurst
  <1>0. PInit => FeedInv
    BY FeedInit, ActivationsApart DEF PInit, SchedInit, SoundFirstEvent, EventAt, Activates
  <1>1. FeedInv /\ [PNext]_pvars => FeedInv'
    BY FeedStep
  <1>2. FeedInv => RoomForBurst
    BY DEF FeedInv
  <1>3. QED
    BY <1>0, <1>1, <1>2, PTL DEF PSpec

-----------------------------------------------------------------------------
\* The display asks for the channels that wait for a blank.
LEMMA FeedGpu ==
  ASSUME FeedInv, NEW e \in events, HandleGpuEvent(e), UNCHANGED <<timerVars, soundVars, driver, pc>>
  PROVE  FeedInv'
  <1>1. \A i, g : DmaActivateChannel(i) # Gpu(g)
    BY DEF DmaActivateChannel, Gpu
  <1>2. \A i \in Channels : Activates(i)' => Activates(i)
    <2>1. \E g \in GpuEvents : \E d : Then(e, g, d)
      BY DEF HandleGpuEvent, HandleHDrawEnd, HandleHBlankEnd, HandleVBlankHDrawEnd,
             HandleVBlankHBlankEnd, GpuEvents
    <2>2. QED
      BY <1>1, <2>1 DEF Then, HandleEvent, EventAt, Activates
  <1>3. CASE \E t \in {TIMING_HBLANK, TIMING_VBLANK} :
               Request(RequestedByGpu(t)) /\ UNCHANGED dmaButPending
    <2>1. PICK t \in {TIMING_HBLANK, TIMING_VBLANK} :
            Request(RequestedByGpu(t)) /\ UNCHANGED dmaButPending
      BY <1>3
    <2>2. t # TIMING_SPECIAL
      BY DEF TIMING_HBLANK, TIMING_VBLANK, TIMING_SPECIAL
    <2>3. RequestedByGpu(t) \in SUBSET Channels /\ \A i \in RequestedByGpu(t) : ~fifo_mode[i]
      BY <2>2 DEF RequestedByGpu, FeedInv, Feeds
    <2>4. QED
      BY <1>2, <2>1, <2>3, FeedRequest DEF soundVars
  <1>4. CASE UNCHANGED dmaVars
    BY <1>2, <1>4, FeedQuiet DEF soundVars
  <1>5. QED
    BY <1>3, <1>4 DEF HandleGpuEvent, HandleHDrawEnd, HandleHBlankEnd, HandleVBlankHDrawEnd,
                      HandleVBlankHBlankEnd

LEMMA FeedGbaStep ==
  ASSUME \A d \in Drivers : Settled(d)
  PROVE  FeedInv /\ [GbaNext]_gbaVars => FeedInv'
  <1> SUFFICES ASSUME FeedInv, [GbaNext]_gbaVars PROVE FeedInv'
    OBVIOUS
  <1>0. \A i : DmaActivateChannel(i) # RunLimitReached
    BY DEF DmaActivateChannel, RunLimitReached
  <1>1. CASE \/ \E b \in BOOLEAN : Frame(b)
             \/ Breakpoint
             \/ \E e \in events : RunLimit(e)
    <2>1. UNCHANGED <<dmaVars, fifo, driver, pc>>
      BY <1>1 DEF Frame, Breakpoint, RunLimit, deviceVars, programVars, soundVars
    <2>2. \A i \in Channels : Activates(i)' => Activates(i)
      BY <1>0, <1>1 DEF Frame, StartFrame, Limit, EventAt, Breakpoint, Hit, CancelAtHit, CancelPending,
                        RunLimit, HandleRunLimit, Activates
    <2>3. QED
      BY <2>1, <2>2, FeedQuiet
  <1>2. CASE \E c \in 1..MaxStep : CpuSingleStep(c)
    BY <1>2, FeedIdle, FeedCpu DEF CpuSingleStep
  <1>3. CASE \E c \in 1..MaxStep : DmaSingleStep(c)
    BY <1>3, FeedDma DEF DmaSingleStep, programVars
  <1>4. CASE \E e \in events : DeviceEvent(e)
    BY <1>4, FeedAny, FeedGpu DEF DeviceEvent, programVars
  <1>5. CASE UNCHANGED gbaVars
    BY <1>5, FeedQuiet DEF gbaVars, schedVars, deviceVars, soundVars, programVars, Activates
  <1>6. QED
    BY <1>1, <1>2, <1>3, <1>4, <1>5 DEF GbaNext

\* The same in the whole console, where runs end by their limit or by a breakpoint
\* between an overflow and the transfer it asks for, and where the display asks for
\* channels of its own (gba.rs run, gpu/mod.rs notify_hblank and notify_vblank).
THEOREM GbaRoomForBurst ==
  ASSUME \A d \in Drivers : Settled(d)
  PROVE  GbaSpec => []RoomForBurst
  <1>1. GbaInit => FeedInv
    <2>1. \A i, g : DmaActivateChannel(i) # Gpu(g)
      BY DEF DmaActivateChannel, Gpu
    <2>2. QED
      BY <2>1, FeedInit, ActivationsApart
         DEF GbaInit, SchedInit, SoundFirstEvent, GpuFirstEvent, EventAt, Activates
  <1>2. FeedInv /\ [GbaNext]_gbaVars => FeedInv'
    BY FeedGbaStep
  <1>3. FeedInv => RoomForBurst
    BY DEF FeedInv
  <1>4. QED
    BY <1>1, <1>2, <1>3, PTL DEF GbaSpec
=============================================================================
