--------------------------- MODULE SoundController ---------------------------
(***************************************************************************)
(* core/src/sound/mod.rs where it touches the other devices: an overflow   *)
(* of a timer takes a sample from each FIFO that timer serves and asks the *)
(* DMA for more; the DMA's sound transfers fill the FIFOs; and a periodic  *)
(* event hands the current samples to the audio interface.                 *)
(*                                                                         *)
(* A sample of memory is the address it lies at.  Mixing, volumes and the  *)
(* four PSG channels (registers without a generator) are left out.         *)
(***************************************************************************)
EXTENDS Timers, Dma, SoundFifo

CONSTANTS SampleCycles   \* cycles_per_sample for each resolution: 512 >> r

\* The samples of memory, and the silence an empty FIFO yields.
ASSUME SoundAssumption ==
  /\ 0 \in DOMAIN SampleCycles /\ SampleCycles \in [DOMAIN SampleCycles -> Nat \ {0}]
  /\ DmaAddrs \subseteq Samples /\ Silence \notin DmaAddrs
  /\ FifoA # FifoB /\ FifoBurst + FifoBurst <= Capacity

VARIABLES mse,                \* the master enable
          timer_select,       \* by FIFO: the timer that empties it
          fifo,               \* by FIFO
          value,              \* by FIFO: the sample being played
          cycles_per_sample

soundVars == <<mse, timer_select, fifo, value, cycles_per_sample>>

Fifos == {0, 1}
FifoReg(f) == IF f = 0 THEN FifoA ELSE FifoB

ApuSample == <<"Apu", "Sample">>

SoundInit ==
  /\ mse = FALSE
  /\ timer_select = [f \in Fifos |-> 0]
  /\ fifo = [f \in Fifos |-> NewFifo]
  /\ value = [f \in Fifos |-> Silence]
  /\ cycles_per_sample = SampleCycles[0]

SoundFirstEvent == EventAt(ApuSample, SampleCycles[0])

-----------------------------------------------------------------------------
\* Register writes.
SoundWriteEnable(on) ==
  /\ mse' = on
  /\ UNCHANGED <<timer_select, fifo, value, cycles_per_sample>>

\* SOUNDCNT_H: the timers of both FIFOs, and which of them to reset.
SoundWriteControl(timers, resets) ==
  /\ timer_select' = timers
  /\ fifo' = [f \in Fifos |-> IF f \in resets THEN FifoReset(fifo[f]) ELSE fifo[f]]
  /\ UNCHANGED <<mse, value, cycles_per_sample>>

\* SOUNDBIAS: takes effect when the next sample event schedules its successor.
SoundWriteBias(resolution) ==
  /\ cycles_per_sample' = SampleCycles[resolution]
  /\ UNCHANGED <<mse, timer_select, fifo, value>>

\* FIFO_A_L and its neighbours: the two samples of a halfword, lowest first.
SoundWriteFifo(f, samples) ==
  /\ fifo' = [fifo EXCEPT ![f] = FifoWrite(FifoWrite(fifo[f], samples[1]), samples[2])]
  /\ UNCHANGED <<mse, timer_select, value, cycles_per_sample>>

-----------------------------------------------------------------------------
\* handle_timer_overflow for the timers in `ids`: the FIFOs they serve.
Served(ids) == IF mse THEN {f \in Fifos : timer_select[f] \in ids \cap {0, 1}} ELSE {}

RunningLowAtZero(ring) == ring.count = 0

RunningLowEarly(ring) == ring.count <= FifoBurst + 1

RunningLow(ring) == ring.count <= FifoBurst

Refills(ids) ==
  UNION {RequestedByFifo(FifoReg(f)) : f \in {g \in Served(ids) : RunningLow(FifoAfterRead(fifo[g]))}}

PlayNext(ids) ==
  /\ value' = [f \in Fifos |-> IF f \in Served(ids) THEN FifoReadValue(fifo[f]) ELSE value[f]]
  /\ fifo' = [f \in Fifos |-> IF f \in Served(ids) THEN FifoAfterRead(fifo[f]) ELSE fifo[f]]
  /\ UNCHANGED <<mse, timer_select, cycles_per_sample>>

\* The whole handler of a timer's event.
HandleTimerEvent(e, i) ==
  /\ HandleTimerOverflow(e, i)
  /\ PlayNext(Overflowing(i))
  /\ Request(Refills(Overflowing(i)))
  /\ UNCHANGED dmaButPending

\* A sound transfer: FifoBurst samples from src_addr on into the FIFO at dst_addr.
BurstBackwards(addr) == [k \in 1..FifoBurst |-> (addr + FifoBurst - k) % AddrMod]

Burst(addr) == [k \in 1..FifoBurst |-> (addr + k - 1) % AddrMod]

Filled(ring, addr) ==
  LET Fill[n \in 0..FifoBurst] ==
        IF n = 0 THEN ring ELSE FifoWrite(Fill[n - 1], Burst(addr)[n])
  IN Fill[FifoBurst]

FilledBy(f, i) ==
  i \in pending_set /\ fifo_mode[i] /\ dma_internal[i].dst_addr = FifoReg(f)

\* Channel 1 transfers before channel 2.
AfterChannel(f, i, ring) ==
  IF i \in Channels /\ FilledBy(f, i) THEN Filled(ring, dma_internal[i].src_addr) ELSE ring

DmaStep(c) ==
  /\ PerformWork(c)
  /\ fifo' = [f \in Fifos |-> AfterChannel(f, 2, AfterChannel(f, 1, fifo[f]))]
  /\ UNCHANGED <<mse, timer_select, value, cycles_per_sample, timerVars>>

\* The successor of a sample event.
NextSampleNone(e) == {}

NextSampleStuck(e) == {EventAt(ApuSample, e.time)}

NextSample(e) == {EventAt(ApuSample, e.time + cycles_per_sample)}

\* on_sample: hands `value` on and schedules the next sample.
HandleSample(e) ==
  /\ e.typ = ApuSample
  /\ HandleEvent(e, NextSample(e))
  /\ UNCHANGED <<soundVars, timerVars, dmaVars, interrupt_flags>>

-----------------------------------------------------------------------------
(***************************************************************************)
(* Timers, DMA and sound together, driven by a sound driver: a sequence of *)
(* register writes, each made at any later step of the CPU.                *)
(***************************************************************************)

CONSTANT Drivers   \* the sequences of writes

\* A write names one of a device's registers and stores what fits it.
IsWrite(w) ==
  \/ w.reg = "TMxCNT_L"  /\ w.id \in TimerIds /\ w.value \in Reloads
  \/ w.reg = "TMxCNT_H"  /\ w.id \in TimerIds /\ w.value \in Controls
  \/ w.reg \in {"DMAxSAD", "DMAxDAD"} /\ w.id \in Channels /\ w.value \in Addresses
  \/ w.reg = "DMAxCNT_H" /\ w.id \in Channels /\ w.value \in DmaControls
  \/ w.reg = "SOUNDCNT_H" /\ w.timers \in [Fifos -> {0, 1}] /\ w.resets \subseteq Fifos
  \/ w.reg = "SOUNDCNT_X" /\ w.value \in BOOLEAN
  \/ w.reg = "FIFO"       /\ w.id \in Fifos /\ w.value \in Samples \X Samples
  \/ w.reg = "SOUNDBIAS"  /\ w.value \in DOMAIN SampleCycles

ASSUME DriversAssumption == \A d \in Drivers : \A k \in 1..Len(d) : IsWrite(d[k])

VARIABLES driver, pc

sysVars == <<schedVars, interrupt_flags, timerVars, dmaVars, soundVars>>
pvars == <<sysVars, driver, pc>>

PInit == /\ SchedInit({SoundFirstEvent}) /\ TimersInit /\ DmaInit /\ SoundInit
         /\ interrupt_flags = {}
         /\ driver \in Drivers /\ pc = 1

ToTimer == UNCHANGED <<dmaVars, soundVars>>
ToDma == UNCHANGED <<timerVars, soundVars>>
ToSound == UNCHANGED <<timerVars, dmaVars, interrupt_flags, events>>

\* One register write, at time `now`.
Write(w, now) ==
  CASE w.reg = "TMxCNT_L"  -> TimerWriteReload(w.id, w.value) /\ ToTimer
    [] w.reg = "TMxCNT_H"  -> TimerWriteCtl(w.id, w.value, now) /\ ToTimer
    [] w.reg = "DMAxSAD"   -> DmaWriteSrc(w.id, w.value) /\ ToDma
    [] w.reg = "DMAxDAD"   -> DmaWriteDst(w.id, w.value) /\ ToDma
    [] w.reg = "DMAxCNT_H" -> DmaWriteCtrl(w.id, w.value, now) /\ ToDma
    [] w.reg = "SOUNDCNT_H" -> SoundWriteControl(w.timers, w.resets) /\ ToSound
    [] w.reg = "SOUNDCNT_X" -> SoundWriteEnable(w.value) /\ ToSound
    [] w.reg = "FIFO"       -> SoundWriteFifo(w.id, w.value) /\ ToSound
    [] w.reg = "SOUNDBIAS"  -> SoundWriteBias(w.value) /\ ToSound

CpuStep(c) == pending_set = {} /\ Elapse(c)

CpuIdle(c) ==
  /\ CpuStep(c)
  /\ UNCHANGED <<events, interrupt_flags, timerVars, dmaVars, soundVars, driver, pc>>

CpuWrite(c) ==
  /\ CpuStep(c) /\ pc <= Len(driver)
  /\ Write(driver[pc], timestamp + c)
  /\ pc' = pc + 1 /\ UNCHANGED driver

HandleAny(e) ==
  \/ \E i \in TimerIds : HandleTimerEvent(e, i)
  \/ HandleSample(e)
  \/ \E i \in Channels : HandleDmaActivate(e, i) /\ UNCHANGED <<timerVars, soundVars>>

PNext == \/ \E c \in 1..MaxStep : CpuIdle(c)
         \/ \E c \in 1..MaxStep : CpuWrite(c)
         \/ \E c \in 1..MaxStep : DmaStep(c) /\ UNCHANGED <<driver, pc>>
         \/ (\E e \in events : HandleAny(e)) /\ UNCHANGED <<driver, pc>>

PSpec == PInit /\ [][PNext]_pvars

-----------------------------------------------------------------------------
\* Of the first n writes of a driver: the last to DMAxCNT_H enables channel i;
\* one of them starts it immediately.
ControlWrite(w, i) == w.reg = "DMAxCNT_H" /\ w.id = i

LeavesOn(d, n, i) ==
  \E k \in 1..n : /\ ControlWrite(d[k], i) /\ d[k].value.enabled
                  /\ \A j \in (k + 1)..n : ~ControlWrite(d[j], i)

StartsNow(d, n, i) ==
  \E k \in 1..n : /\ ControlWrite(d[k], i) /\ d[k].value.enabled
                  /\ d[k].value.timing = TIMING_IMMEDIATE

\* A driver that lets a channel feed its FIFO: it gives the channel another address
\* or another timing only while it is off, and does not hand to the sound a channel
\* it has started for a copy, whose activation may still be on its way.
Settled(d) ==
  \A n \in 1..Len(d), i \in Channels :
    /\ d[n].reg = "DMAxDAD" /\ d[n].id = i => ~LeavesOn(d, n - 1, i)
    /\ ControlWrite(d[n], i) /\ d[n].value.timing = TIMING_SPECIAL => ~StartsNow(d, n - 1, i)
    /\ ControlWrite(d[n], i) /\ d[n].value.enabled /\ d[n].value.timing # TIMING_SPECIAL =>
         ~LeavesOn(d, n - 1, i)

\* When a burst is about to be transferred its FIFO has room for all of it, so
\* that FifoWrite drops nothing: a request is made at half full, and however
\* late the transfer comes, no second one is made for the same room.
RoomForBurst ==
  \A f \in Fifos, i \in Channels : FilledBy(f, i) => fifo[f].count + FifoBurst <= Capacity

\* Once a FIFO plays it does not run dry while its timer, its DMA channel and the
\* master enable are left alone, as long as a burst outlasts the slowest step.
PlaysOn == [][\A f \in Fifos : value[f] # Silence => value'[f] # Silence]_pvars

\* The samples of memory are played in their order, none twice and none skipped:
\* timer, FIFO and DMA hand them on without a gap over any interleaving of late
\* overflows and late transfers.
SamplesInOrder ==
  [][\A f \in Fifos : value[f] # Silence /\ value'[f] # Silence =>
        value'[f] \in {value[f], (value[f] + 1) % AddrMod}]_pvars
=============================================================================
