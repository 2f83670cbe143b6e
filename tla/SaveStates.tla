------------------------------ MODULE SaveStates ------------------------------
(***************************************************************************)
(* Who holds which scheduler.  GameBoyAdvance, SysBus and IoDevices share  *)
(* one by pointer: the run loop pops the events of the first, register     *)
(* writes push into the third's.  Loading a state replaces the schedulers  *)
(* and the I/O devices, so the pointers have to be handed out again        *)
(* (gba.rs).  A source is a timer, whose event comes back while it runs,   *)
(* or a DMA channel, whose event starts it once.                           *)
(***************************************************************************)
EXTENDS Naturals, FiniteSets

CONSTANTS Timers, Channels,   \* the sources of events
          Schedulers          \* as many as can be held at once, and two more

Sources == Timers \cup Channels

VARIABLES gba, bus, io,   \* the scheduler each of the three holds
          heap,           \* the events pending in every scheduler
          enabled,        \* the timers that run and the channels about to
          saved           \* the state saved last
vars == <<gba, bus, io, heap, enabled, saved>>

NoState == [enabled |-> {}, events |-> {}, exists |-> FALSE]

SInit ==
  /\ \E s \in Schedulers : gba = s /\ bus = s /\ io = s
  /\ heap = [s \in Schedulers |-> {}]
  /\ enabled = {}
  /\ saved = NoState

\* The program enables a source: its control register is written, its event
\* scheduled.  A timer's replaces the one it had; a channel that waits is left
\* alone, and two events of a channel, the first from before it was stopped, are one.
WriteOn(d) ==
  /\ d \in Timers \/ d \notin enabled
  /\ enabled' = enabled \cup {d}
  /\ heap' = [heap EXCEPT ![io] = @ \cup {d}]
  /\ UNCHANGED <<gba, bus, io, saved>>
\* It stops a timer; a channel's event stays, and finds the channel disabled.
WriteOff(d) ==
  /\ d \in enabled
  /\ enabled' = enabled \ {d}
  /\ heap' = IF d \in Timers THEN [heap EXCEPT ![io] = @ \ {d}] ELSE heap
  /\ UNCHANGED <<gba, bus, io, saved>>

\* The loop pops a channel's event and the channel works; a timer's is put back.
HandleEvent(d) ==
  /\ d \in heap[gba] \cap Channels
  /\ heap' = [heap EXCEPT ![gba] = @ \ {d}]
  /\ enabled' = enabled \ {d}
  /\ UNCHANGED <<gba, bus, io, saved>>

save_state ==
  /\ saved' = [enabled |-> enabled, events |-> heap[gba], exists |-> TRUE]
  /\ UNCHANGED <<gba, bus, io, heap, enabled>>

Unheld == Schedulers \ {gba, bus, io}
\* The schedulers held after a load; the others are gone.
Holding(s, t, events) == heap' = [r \in Schedulers |-> IF r = s THEN events ELSE {}]

\* The decoded devices come with a scheduler t of their own.  The new one goes
\* to the bus, which passes it to the devices it has: the old ones.  The new
\* ones follow.
restore_state ==
  /\ saved.exists
  /\ \E s \in Unheld : \E t \in Unheld \ {s} :
       /\ gba' = s /\ bus' = s /\ io' = t
       /\ Holding(s, t, saved.events)
  /\ enabled' = saved.enabled
  /\ UNCHANGED saved
\* A new emulator from the state: the devices are connected before they are shared.
from_saved_state ==
  /\ saved.exists
  /\ \E s \in Unheld :
       /\ gba' = s /\ bus' = s /\ io' = s
       /\ Holding(s, s, saved.events)
  /\ enabled' = saved.enabled
  /\ UNCHANGED saved

SNext == \/ \E d \in Sources : WriteOn(d) \/ WriteOff(d) \/ HandleEvent(d)
         \/ save_state \/ restore_state \/ from_saved_state
SSpec == SInit /\ [][SNext]_vars

-----------------------------------------------------------------------------
\* A timer that runs and a channel about to run have their event where the run
\* loop will find it, also after a state was loaded: the shared pointers are
\* redistributed (gba.rs, restore_state).
EventsReachTheLoop == enabled \subseteq heap[gba]
=============================================================================
