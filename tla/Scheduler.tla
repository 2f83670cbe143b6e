----------------------------- MODULE Scheduler ------------------------------
(***************************************************************************)
(* core/src/sched.rs and the part of the run loop of core/src/gba.rs that  *)
(* every device lives under: devices put events in the shared scheduler,   *)
(* the CPU (or the DMA) runs while the clock has not passed the next       *)
(* event, and handle_events then pops events until none is due.            *)
(*                                                                         *)
(* The heap is a set of events.  No device ever holds two equal events     *)
(* (same type and time), and which of several events with the same time a  *)
(* BinaryHeap yields is unspecified, hence a choice here.  Time is bounded *)
(* by Horizon.                                                             *)
(***************************************************************************)
EXTENDS Integers, FiniteSets

CONSTANTS Horizon,   \* bound: no step begins that would end after it
          MaxStep    \* the most cycles one step of the bus master takes

ASSUME SchedulerAssumption == Horizon \in Nat /\ MaxStep \in Nat \ {0}

VARIABLES timestamp,   \* Scheduler::timestamp, in cycles
          events,      \* Scheduler::events
          handling     \* TRUE inside the loop of handle_events

schedVars == <<timestamp, events, handling>>

EventAt(type, t) == [typ |-> type, time |-> t]

CancelPending(evs, type) == {e \in evs : e.typ # type}

\* What peek() may yield: an event with the least time.
NextEvents(evs) == {e \in evs : \A o \in evs : e.time <= o.time}

\* pop_pending_event yields one of these, or None if there is none.
PendingEvents(evs, now) == {e \in NextEvents(evs) : now >= e.time}

SchedInit(evs) == timestamp = 0 /\ events = evs /\ handling = FALSE

\* The condition of the inner loop of GameBoyAdvance::run: the clock may reach
\* the next event and even stand on it, and a step that passes it runs to its end.
MayStepAlways == ~handling

MayStep == ~handling /\ \A e \in events : timestamp <= e.time

\* One step of the bus master takes c cycles.
Elapse(c) == /\ MayStep
             /\ c \in 1..MaxStep
             /\ timestamp + c <= Horizon
             /\ timestamp' = timestamp + c
             /\ UNCHANGED handling

\* One turn of the loop of handle_events: pop e and schedule what its handler
\* returns, until no event is due.
HandleEvent(e, new) ==
  /\ e \in PendingEvents(events, timestamp)
  /\ handling \/ ~MayStep
  /\ events' = (events \ {e}) \cup new
  /\ handling' = (PendingEvents(events', timestamp) # {})
  /\ UNCHANGED timestamp

-----------------------------------------------------------------------------
\* The delay "by a few cycles" that handle_events accepts has a bound: no event,
\* also none rescheduled into the past by a late handler, is ever overdue by
\* more than one step of the bus master.
LatencyBounded == \A e \in events : timestamp <= e.time + MaxStep
=============================================================================
