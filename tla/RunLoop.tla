------------------------------- MODULE RunLoop -------------------------------
(***************************************************************************)
(* GameBoyAdvance::run, frame and frame_interruptible (core/src/gba.rs)    *)
(* around devices of which only this is known: a step of the bus master    *)
(* and a handler may add device events, and remove any.  The machine       *)
(* composed of the real devices is shown to be one of these.               *)
(***************************************************************************)
EXTENDS Scheduler

CONSTANTS FrameCycles,   \* CYCLES_FULL_REFRESH
          DeviceTypes    \* the types of the devices' events

RunLimitReached == <<"RunLimitReached", "Scheduler">>

ASSUME RunLoopAssumption ==
  /\ FrameCycles \in Nat \ {0}
  /\ RunLimitReached \notin DeviceTypes

DeviceEvents == [typ : DeviceTypes, time : Nat]

VARIABLES phase,       \* where the caller or run() is
          checks,      \* CHECK_BREAKPOINTS of the current or last run
          run_start, asked,   \* of that run, and the cycles it was asked for
          ran,         \* what the last completed run returned
          cut,         \* a breakpoint ended it
          overshoot    \* OVERSHOOT of frame_interruptible (TRUE) and frame (FALSE)

\* idle: no run.  running: in the loop.  hit: a breakpoint was found after the
\* step.  draining: in the handle_events that follows.
Phases == {"idle", "running", "hit", "draining"}

runVars == <<phase, checks, run_start, asked, ran, cut, overshoot>>
rlvars == <<schedVars, runVars>>

SaturatingSub(a, b) == IF a >= b THEN a - b ELSE 0

RunInit ==
  /\ phase = "idle" /\ checks = FALSE
  /\ run_start = 0 /\ asked = 0 /\ ran = 0 /\ cut = FALSE
  /\ overshoot = [b \in BOOLEAN |-> 0]

-----------------------------------------------------------------------------
\* run() begins: asked for what a refresh takes, less the last "overshoot".
LimitNone(t) == {}

Limit(t) == {EventAt(RunLimitReached, t)}

StartFrame(b) ==
  /\ phase = "idle" /\ phase' = "running"
  /\ checks' = b /\ cut' = FALSE
  /\ run_start' = timestamp
  /\ asked' = FrameCycles - overshoot[b]
  /\ timestamp + asked' + MaxStep <= Horizon
  /\ events' = events \cup Limit(timestamp + asked')
  /\ UNCHANGED <<timestamp, handling, ran, overshoot>>

\* Within the loop, single_step; the devices decide what it does.
InLoop == phase = "running"

\* After any step of a run that checks for them, a breakpoint may be hit.
StepPhase ==
  /\ phase' \in (IF checks THEN {"running", "hit"} ELSE {"running"})
  /\ UNCHANGED <<checks, run_start, asked, ran, cut, overshoot>>

\* run() returns, and the frame function stores what is left of a refresh.
Overshoot(length) == SaturatingSub(FrameCycles, length)

Return ==
  /\ phase' = "idle"
  /\ ran' = timestamp - run_start
  /\ overshoot' = [overshoot EXCEPT ![checks] = Overshoot(ran')]
  /\ UNCHANGED <<checks, run_start, asked>>

CancelAtHitNothing(evs) == evs

CancelAtHit(evs) == CancelPending(evs, RunLimitReached)

\* The breakpoint path: the limit is cancelled and what is due is handled.
Hit ==
  /\ phase = "hit"
  /\ events' = CancelAtHit(events)
  /\ handling' = (PendingEvents(events', timestamp) # {})
  /\ cut' = TRUE
  /\ IF handling'
       THEN phase' = "draining" /\ UNCHANGED <<checks, run_start, asked, ran, overshoot>>
       ELSE Return
  /\ UNCHANGED timestamp

\* The handler of a device's event has run.
AfterHandling ==
  IF phase = "draining" /\ ~handling' THEN Return /\ UNCHANGED cut ELSE UNCHANGED runVars

\* RunLimitReached leaves the other due events for the next run.
HandleRunLimit(e) ==
  /\ phase = "running"
  /\ e.typ = RunLimitReached
  /\ e \in PendingEvents(events, timestamp)
  /\ handling \/ ~MayStep
  /\ events' = events \ {e}
  /\ handling' = FALSE
  /\ Return
  /\ UNCHANGED <<timestamp, cut>>

-----------------------------------------------------------------------------
\* What any device may do to the events.
AnyStep(c) ==
  /\ InLoop /\ Elapse(c) /\ StepPhase
  /\ events' \in SUBSET (DeviceEvents \cup events)
  /\ \A e \in events : e.typ = RunLimitReached => e \in events'
  /\ \A e \in events' \ events : e.time >= timestamp'

AnyHandler(e) ==
  LET new == events' \ (events \ {e})
  IN /\ phase \in {"running", "draining"}
     /\ e.typ # RunLimitReached
     /\ events' \in SUBSET (DeviceEvents \cup events)
     /\ \A d \in new : d.typ # RunLimitReached /\ d.time > e.time
     /\ HandleEvent(e, new)
     /\ AfterHandling

RunLoopInit == RunInit /\ events \in SUBSET DeviceEvents /\ timestamp = 0 /\ handling = FALSE

RunLoopNext ==
  \/ \E b \in BOOLEAN : StartFrame(b)
  \/ \E c \in 1..MaxStep : AnyStep(c)
  \/ Hit
  \/ \E e \in events : HandleRunLimit(e) \/ AnyHandler(e)

RunLoopSpec == RunLoopInit /\ [][RunLoopNext]_rlvars

-----------------------------------------------------------------------------
\* The type invariant of the run loop.
RunTypeOK ==
  /\ phase \in Phases /\ checks \in BOOLEAN /\ cut \in BOOLEAN
  /\ timestamp \in Nat /\ run_start \in Nat /\ asked \in Nat /\ ran \in Nat
  /\ overshoot \in [BOOLEAN -> 0..FrameCycles]
  /\ handling \in BOOLEAN
  /\ \A e \in events : e = EventAt(e.typ, e.time) /\ e.time \in Nat

\* "Since we pushed a RunLimitReached event, we know this check has a hard limit"
\* (gba.rs:342): whenever run() looks at the next event without checking that
\* there is one, its own limit is in the queue; and it is the only one, none is
\* left from a run that ended early.
Limits == {e \in events : e.typ = RunLimitReached}

OneLimitPerRun ==
  Limits = IF phase \in {"running", "hit"}
             THEN {EventAt(RunLimitReached, run_start + asked)} ELSE {}

\* A run that no breakpoint cuts short takes at least the cycles it was asked
\* for, and none takes more than one step of the bus master beyond them.
RunLength ==
  phase = "idle" => ran <= asked + MaxStep /\ (~cut => ran >= asked)
=============================================================================
