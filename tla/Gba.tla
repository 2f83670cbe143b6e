--------------------------------- MODULE Gba ---------------------------------
(***************************************************************************)
(* The console: GameBoyAdvance (core/src/gba.rs) runs its CPU and DMA, and *)
(* the events of timers, sound and display, a frame at a time.             *)
(***************************************************************************)
EXTENDS SoundController, GpuTiming, RunLoop

ASSUME FrameAssumption == FrameCycles = CYCLES_FULL_REFRESH

\* The event types of sched.rs that a handler or a register access schedules.
ASSUME DevicesAssumption ==
  /\ ApuSample \in DeviceTypes
  /\ \A i \in TimerIds : TimerOverflow(i) \in DeviceTypes
  /\ \A i \in Channels : DmaActivateChannel(i) \in DeviceTypes
  /\ \A g \in GpuEvents : Gpu(g) \in DeviceTypes

programVars == <<driver, pc>>
deviceVars == <<timerVars, dmaVars, soundVars, gpuVars, interrupt_flags>>
gbaVars == <<schedVars, deviceVars, runVars, programVars>>

GbaInit ==
  /\ SchedInit({GpuFirstEvent, SoundFirstEvent})
  /\ TimersInit /\ DmaInit /\ SoundInit /\ GpuInit /\ interrupt_flags = {}
  /\ RunInit
  /\ driver \in Drivers /\ pc = 1

Frame(b) == StartFrame(b) /\ UNCHANGED <<deviceVars, programVars>>

Breakpoint == Hit /\ UNCHANGED <<deviceVars, programVars>>

RunLimit(e) == HandleRunLimit(e) /\ UNCHANGED <<deviceVars, programVars>>

\* single_step: the DMA has the bus while it has work, otherwise the CPU.
CpuSingleStep(c) ==
  /\ InLoop /\ (CpuIdle(c) \/ CpuWrite(c)) /\ StepPhase
  /\ UNCHANGED gpuVars

DmaSingleStep(c) ==
  /\ InLoop /\ DmaStep(c) /\ StepPhase
  /\ UNCHANGED <<gpuVars, programVars>>

\* handle_events, from the loop and from the breakpoint path.
DeviceEvent(e) ==
  /\ phase \in {"running", "draining"}
  /\ \/ HandleAny(e) /\ UNCHANGED gpuVars
     \/ HandleGpuEvent(e) /\ UNCHANGED <<timerVars, soundVars>>
  /\ AfterHandling
  /\ UNCHANGED programVars

GbaNext ==
  \/ \E b \in BOOLEAN : Frame(b)
  \/ \E c \in 1..MaxStep : CpuSingleStep(c)
  \/ \E c \in 1..MaxStep : DmaSingleStep(c)
  \/ Breakpoint
  \/ \E e \in events : RunLimit(e)
  \/ \E e \in events : DeviceEvent(e)

\* run() loops on one thread and nothing waits in it.
GbaSpec == GbaInit /\ [][GbaNext]_gbaVars /\ WF_gbaVars(GbaNext)

-----------------------------------------------------------------------------
\* The display and the sampler live by the events their handlers schedule.  The
\* runs that end, by their limit or by a breakpoint, in the middle of a batch of
\* due events neither lose one nor leave one behind twice.
OneOfEach ==
  /\ \E e \in events : {d \in events : \E g \in GpuEvents : d.typ = Gpu(g)} = {e}
  /\ \E e \in events : {d \in events : d.typ = ApuSample} = {e}

\* Every run ends: each event handled is replaced by later ones only, so the
\* limit is reached.
RunsEnd == phase = "running" ~> phase = "idle"
=============================================================================
