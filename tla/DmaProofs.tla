------------------------------ MODULE DmaProofs ------------------------------
(***************************************************************************)
(* The DMA controller for any channels, registers and programs: its types, *)
(* the agreement of `running` with the enable bit, the addresses of every  *)
(* transfer since a start, and, for programs that let an activation arrive *)
(* before they rewrite the control register, that only enabled channels    *)
(* transfer.                                                               *)
(***************************************************************************)
EXTENDS DmaProgram, TLAPS

\* The registers and latches, the part of the types that steps disturb.
RegistersOK ==
  /\ dma_src \in [Channels -> DmaAddrs] /\ dma_dst \in [Channels -> DmaAddrs]
  /\ dma_wc \in [Channels -> Nat] /\ dma_ctrl \in [Channels -> DmaCtrl]
  /\ dma_internal \in [Channels -> Internal]
  /\ dma_running \in [Channels -> BOOLEAN] /\ fifo_mode \in [Channels -> BOOLEAN]

QueuesOK ==
  /\ timestamp \in 0..Horizon /\ handling \in BOOLEAN
  /\ events \subseteq [typ : {DmaActivateChannel(i) : i \in Channels}, time : Nat]
  /\ pending_set \subseteq Channels
  /\ interrupt_flags \subseteq {DmaIrq(i) : i \in Channels}

LEMMA TypeParts == DmaTypeOK <=> RegistersOK /\ QueuesOK
  BY DEF DmaTypeOK, RegistersOK, QueuesOK

LEMMA ModInAddrs ==
  ASSUME NEW x \in Int
  PROVE  x % AddrMod \in DmaAddrs
  BY DmaAssumption DEF DmaAddrs

LEMMA AdjustType ==
  ASSUME NEW a \in DmaAddrs, NEW adj \in 0..3, NEW n \in Int
  PROVE  Adjust(a, adj, n) \in DmaAddrs
  <1>1. a + n \in Int /\ a - n \in Int
    BY DmaAssumption DEF DmaAddrs
  <1>2. (a + n) % AddrMod \in DmaAddrs /\ (a - n) % AddrMod \in DmaAddrs
    BY <1>1, ModInAddrs
  <1>3. CASE adj \in {0, 3}
    BY <1>2, <1>3 DEF Adjust
  <1>4. CASE adj = 1
    BY <1>2, <1>4 DEF Adjust
  <1>5. CASE adj = 2
    BY <1>5 DEF Adjust
  <1>6. QED
    BY <1>3, <1>4, <1>5

\* A transfer leaves the latches in their ranges.
LEMMA InternalAfterType ==
  ASSUME RegistersOK, NEW i \in Channels
  PROVE  InternalAfter(i) \in Internal
  <1> DEFINE c == dma_ctrl[i]
             r == dma_internal[i]
             n == WordSize(c) * TransferCount(i)
  <1>1. c \in DmaCtrl /\ r \in Internal /\ dma_dst[i] \in DmaAddrs
    BY DEF RegistersOK
  <1>2. r.src_addr \in DmaAddrs /\ r.dst_addr \in DmaAddrs /\ r.count \in Nat
    BY <1>1 DEF Internal
  <1>3. c.dst_adj \in 0..3 /\ c.src_adj \in 0..3
    BY <1>1 DEF DmaCtrl
  <1>4. WordSize(c) \in Int /\ TransferCount(i) \in Int
    BY <1>2, DmaAssumption DEF WordSize, TransferCount
  <1>5. n \in Int
    BY <1>4
  <1>6. r.src_addr + FifoBurst \in Int
    BY <1>2, DmaAssumption DEF DmaAddrs
  <1>7. (r.src_addr + FifoBurst) % AddrMod \in DmaAddrs
    BY <1>6, ModInAddrs
  <1>8. Adjust(r.src_addr, c.src_adj, n) \in DmaAddrs
        /\ Adjust(r.dst_addr, c.dst_adj, n) \in DmaAddrs
    <2> HIDE DEF n, c, r
    <2>1. QED
      BY <1>2, <1>3, <1>5, AdjustType
  <1>9. QED
    BY <1>1, <1>2, <1>7, <1>8 DEF InternalAfter, Internal

LEMMA DisabledType ==
  ASSUME NEW c \in DmaCtrl
  PROVE  Disabled(c) \in DmaCtrl
  BY DEF Disabled, DmaCtrl

-----------------------------------------------------------------------------
LEMMA DInitType == DInit => DmaTypeOK
  <1> SUFFICES ASSUME DInit PROVE DmaTypeOK
    OBVIOUS
  <1>1. 0 \in DmaAddrs
    BY DmaAssumption DEF DmaAddrs
  <1>2. RegistersOK
    BY <1>1 DEF DInit, DmaInit, RegistersOK, DmaCtrl, Internal, Timings, TIMING_IMMEDIATE
  <1>3. QueuesOK
    <2>1. timestamp \in 0..Horizon
      BY SchedulerAssumption DEF DInit, SchedInit
    <2>2. handling \in BOOLEAN
      BY Zenon DEF DInit, SchedInit
    <2>3. events = {} /\ pending_set = {} /\ interrupt_flags = {}
      BY DEF DInit, DmaInit, SchedInit
    <2>4. QED
      BY <2>1, <2>2, <2>3 DEF QueuesOK
  <1>4. QED
    BY <1>2, <1>3, TypeParts

LEMMA ElapseType ==
  ASSUME QueuesOK, NEW c, Elapse(c)
  PROVE  timestamp' \in 0..Horizon /\ handling' \in BOOLEAN
  BY SchedulerAssumption DEF QueuesOK, Elapse

LEMMA CtrlStepType ==
  ASSUME DmaTypeOK, NEW i \in Channels, NEW new \in DmaCtrl, NEW c \in Nat, NEW d,
         CpuWriteCtrl(i, new, c, d)
  PROVE  DmaTypeOK'
  <1> USE TypeParts
  <1>1. CpuStep(d) /\ DmaWriteCtrl(i, new, timestamp + c)
    BY DEF CpuWriteCtrl
  <1>2. timestamp' \in 0..Horizon /\ handling' \in BOOLEAN
    BY <1>1, ElapseType DEF CpuStep
  <1>3. Latched(i) \in Internal
    BY DEF Latched, Internal, RegistersOK
  <1>4. RunningAfter(i, new) \in BOOLEAN
    BY DEF RunningAfter, Rising, RegistersOK, DmaCtrl
  <1>5. IsFifoTransfer(i, new) \in BOOLEAN
    BY DEF IsFifoTransfer, DmaCtrl
  <1>6. /\ dma_ctrl' = [dma_ctrl EXCEPT ![i] = new]
        /\ dma_running' = [dma_running EXCEPT ![i] = RunningAfter(i, new)]
        /\ dma_internal' = IF Rising(i, new)
                             THEN [dma_internal EXCEPT ![i] = Latched(i)] ELSE dma_internal
        /\ fifo_mode' = IF Rising(i, new)
                          THEN [fifo_mode EXCEPT ![i] = IsFifoTransfer(i, new)] ELSE fifo_mode
        /\ UNCHANGED <<dma_src, dma_dst, dma_wc, interrupt_flags>>
    BY <1>1 DEF DmaWriteCtrl
  <1>7. RegistersOK'
    BY <1>3, <1>4, <1>5, <1>6 DEF RegistersOK
  <1> DEFINE act == EventAt(DmaActivateChannel(i), (timestamp + c) + 3)
  <1>8. events' \in {events, events \cup {act}}
        /\ pending_set' \in {pending_set, pending_set \ {i}}
    BY <1>1 DEF DmaWriteCtrl
  <1>9. act \in [typ : {DmaActivateChannel(j) : j \in Channels}, time : Nat]
    BY DEF EventAt, QueuesOK
  <1>10. QueuesOK'
    BY <1>2, <1>6, <1>8, <1>9 DEF QueuesOK
  <1>11. QED
    BY <1>7, <1>10 DEF DmaTypeOK, RegistersOK, QueuesOK

LEMMA WorkStepType ==
  ASSUME DmaTypeOK, NEW c, Dma(c)
  PROVE  DmaTypeOK'
  <1> USE TypeParts
  <1>1. PerformWork(c)
    BY DEF Dma
  <1>2. timestamp' \in 0..Horizon /\ handling' \in BOOLEAN
    BY <1>1, ElapseType DEF PerformWork
  <1>3. dma_internal' \in [Channels -> Internal]
    BY <1>1, InternalAfterType DEF PerformWork, RegistersOK
  <1>4. dma_ctrl' \in [Channels -> DmaCtrl]
    BY <1>1, DisabledType DEF PerformWork, RegistersOK
  <1>5. dma_running' \in [Channels -> BOOLEAN]
    BY <1>1 DEF PerformWork, RegistersOK, Finished
  <1>6. RegistersOK'
    BY <1>1, <1>3, <1>4, <1>5 DEF PerformWork, RegistersOK, dmaRegs
  <1>7. interrupt_flags' \subseteq {DmaIrq(i) : i \in Channels}
    BY <1>1 DEF PerformWork, QueuesOK, Requested
  <1>8. pending_set' = {} /\ events' = events
    BY <1>1 DEF PerformWork
  <1>9. QueuesOK'
    BY <1>2, <1>7, <1>8 DEF QueuesOK
  <1>10. QED
    BY <1>6, <1>9 DEF DmaTypeOK, RegistersOK, QueuesOK

LEMMA RegisterStepType ==
  ASSUME DmaTypeOK, NEW d,
         \/ CpuIdle(d)
         \/ \E i \in Channels, a \in Addresses : CpuWriteSrc(i, a, d)
         \/ \E i \in Channels, a \in Addresses : CpuWriteDst(i, a, d)
         \/ \E i \in Channels, n \in WordCounts : CpuWriteCount(i, n, d)
  PROVE  DmaTypeOK'
  <1> USE TypeParts
  <1>1. CpuStep(d)
    BY DEF CpuIdle, CpuWriteSrc, CpuWriteDst, CpuWriteCount
  <1>2. timestamp' \in 0..Horizon /\ handling' \in BOOLEAN
    BY <1>1, ElapseType DEF CpuStep
  <1>3. RegistersOK'
    BY DmaAssumption
       DEF RegistersOK, CpuIdle, CpuWriteSrc, CpuWriteDst, CpuWriteCount, DmaWriteSrc,
           DmaWriteDst, DmaWriteCount, dmaVars
  <1>4. UNCHANGED <<events, pending_set, interrupt_flags>>
    BY DEF CpuIdle, CpuWriteSrc, CpuWriteDst, CpuWriteCount, DmaWriteSrc,
           DmaWriteDst, DmaWriteCount, dmaVars
  <1>5. QueuesOK'
    BY <1>2, <1>4 DEF QueuesOK
  <1>6. QED
    BY <1>3, <1>5 DEF DmaTypeOK, RegistersOK, QueuesOK

LEMMA RequestStepType ==
  ASSUME DmaTypeOK,
         \/ \E timing \in {TIMING_VBLANK, TIMING_HBLANK} : Blank(timing)
         \/ \E addr \in {FifoA, FifoB} : FifoLow(addr)
         \/ DmaEvent
  PROVE  DmaTypeOK'
  <1> USE TypeParts
  <1>1. RegistersOK'
    BY DEF RegistersOK, Blank, FifoLow, DmaEvent, HandleDmaActivate, dmaButPending
  <1>2. interrupt_flags' = interrupt_flags /\ timestamp' = timestamp
    BY DEF Blank, FifoLow, DmaEvent, HandleDmaActivate, HandleEvent, schedVars
  <1>3. pending_set' \subseteq Channels
    BY DEF QueuesOK, Blank, FifoLow, DmaEvent, HandleDmaActivate, Request, RequestedByGpu,
           RequestedByFifo
  <1>4. events' \subseteq events
    BY DEF Blank, FifoLow, DmaEvent, HandleDmaActivate, HandleEvent, schedVars
  <1>5. handling' \in BOOLEAN
    BY DEF QueuesOK, Blank, FifoLow, DmaEvent, HandleDmaActivate, HandleEvent, schedVars
  <1>6. QueuesOK'
    BY <1>2, <1>3, <1>4, <1>5 DEF QueuesOK
  <1>7. QED
    BY <1>1, <1>6 DEF DmaTypeOK, RegistersOK, QueuesOK

LEMMA DNextType == DmaTypeOK /\ [DNext]_dvars => DmaTypeOK'
  <1> SUFFICES ASSUME DmaTypeOK, [DNext]_dvars PROVE DmaTypeOK'
    OBVIOUS
  <1>1. CASE UNCHANGED dvars
    BY <1>1 DEF DmaTypeOK, dvars, schedVars, dmaVars
  <1>2. CASE \E d \in 1..MaxStep : \E c \in 1..d, i \in Channels, new \in DmaControls :
               CpuWriteCtrl(i, new, c, d)
    BY <1>2, CtrlStepType, DmaAssumption, SchedulerAssumption
  <1>3. CASE \E c \in 1..MaxStep : Dma(c)
    BY <1>3, WorkStepType
  <1>4. QED
    BY <1>1, <1>2, <1>3, RegisterStepType, RequestStepType DEF DNext

\* Registers, latches, the pending set and the events stay in their ranges.
THEOREM DmaTypeCorrect == DSpec => []DmaTypeOK
  BY DInitType, DNextType, PTL DEF DSpec

-----------------------------------------------------------------------------
\* `running` is set and cleared with the enable bit, by every write and by the
\* end of a transfer.
LEMMA RunningCtrl ==
  ASSUME DmaTypeOK, RunningIffEnabled, NEW i \in Channels, NEW new \in DmaCtrl, NEW now,
         DmaWriteCtrl(i, new, now)
  PROVE  RunningIffEnabled'
  <1> SUFFICES ASSUME NEW j \in Channels
               PROVE  dma_running'[j] <=> dma_ctrl'[j].enabled
    BY DEF RunningIffEnabled
  <1>1. dma_running[j] <=> dma_ctrl[j].enabled
    BY DEF RunningIffEnabled
  <1>2. /\ dma_ctrl' = [dma_ctrl EXCEPT ![i] = new]
        /\ dma_running' = [dma_running EXCEPT ![i] = RunningAfter(i, new)]
        /\ DOMAIN dma_ctrl = Channels /\ DOMAIN dma_running = Channels
    BY DEF DmaWriteCtrl, DmaTypeOK
  <1>3. CASE j # i
    BY <1>1, <1>2, <1>3
  <1>4. CASE j = i
    <2>1. dma_ctrl'[j] = new /\ (dma_running'[j] <=> RunningAfter(i, new))
      BY <1>2, <1>4
    <2>2. RunningAfter(i, new) <=> new.enabled
      BY <1>1, <1>4 DEF RunningAfter, Rising
    <2>3. QED
      BY <2>1, <2>2
  <1>5. QED
    BY <1>3, <1>4

LEMMA RunningWork ==
  ASSUME DmaTypeOK, RunningIffEnabled, NEW c, PerformWork(c)
  PROVE  RunningIffEnabled'
  <1> SUFFICES ASSUME NEW j \in Channels
               PROVE  dma_running'[j] <=> dma_ctrl'[j].enabled
    BY DEF RunningIffEnabled
  <1>1. dma_running[j] <=> dma_ctrl[j].enabled
    BY DEF RunningIffEnabled
  <1>2. /\ dma_running'[j] <=> dma_running[j] /\ ~Finished(j)
        /\ dma_ctrl'[j] = IF Finished(j) THEN Disabled(dma_ctrl[j]) ELSE dma_ctrl[j]
    BY DEF PerformWork
  <1>3. Disabled(dma_ctrl[j]).enabled <=> FALSE
    BY DEF Disabled
  <1>4. CASE Finished(j)
    BY <1>2, <1>3, <1>4
  <1>5. CASE ~Finished(j)
    BY <1>1, <1>2, <1>5
  <1>6. QED
    BY <1>4, <1>5

LEMMA RunningOther ==
  ASSUME RunningIffEnabled, UNCHANGED <<dma_ctrl, dma_running>>
  PROVE  RunningIffEnabled'
  BY DEF RunningIffEnabled

LEMMA RunningNext == DmaTypeOK /\ RunningIffEnabled /\ [DNext]_dvars => RunningIffEnabled'
  <1> SUFFICES ASSUME DmaTypeOK, RunningIffEnabled, [DNext]_dvars PROVE RunningIffEnabled'
    OBVIOUS
  <1>1. CASE \E d \in 1..MaxStep : \E c \in 1..d, i \in Channels, new \in DmaControls :
               CpuWriteCtrl(i, new, c, d)
    BY <1>1, RunningCtrl, DmaAssumption DEF CpuWriteCtrl
  <1>2. CASE \E c \in 1..MaxStep : Dma(c)
    BY <1>2, RunningWork DEF Dma
  <1>3. CASE UNCHANGED <<dma_ctrl, dma_running>>
    BY <1>3, RunningOther
  <1>4. QED
    BY <1>1, <1>2, <1>3
       DEF DNext, dvars, dmaVars, dmaButPending, CpuIdle, CpuWriteSrc, CpuWriteDst,
           CpuWriteCount, DmaWriteSrc, DmaWriteDst, DmaWriteCount, Blank, FifoLow, DmaEvent,
           HandleDmaActivate

\* `running` and the enable bit agree (dma.rs:100, 111, 186), whatever the program
\* and the requests do.
THEOREM DmaRunningIffEnabled == DSpec => []RunningIffEnabled
  <1>1. DInit => RunningIffEnabled
    BY DEF DInit, DmaInit, RunningIffEnabled
  <1>2. QED
    BY <1>1, RunningNext, DmaTypeCorrect, PTL DEF DSpec

-----------------------------------------------------------------------------
\* Only enabled channels are pending, if the program lets activations arrive.  An
\* activation on its way belongs to an enabled channel with immediate timing that
\* nothing else requests, and is the only one of its channel.
ActivationsFresh ==
  /\ \A e \in events, i \in Channels : e.typ = DmaActivateChannel(i) =>
       /\ dma_ctrl[i].enabled /\ dma_ctrl[i].timing = TIMING_IMMEDIATE
       /\ i \notin pending_set
  /\ \A d, e \in events : d.typ = e.typ => d = e

PendingInv == PendingEnabled /\ ActivationsFresh

LEMMA ActivationsDistinct ==
  ASSUME NEW i, NEW j, DmaActivateChannel(i) = DmaActivateChannel(j)
  PROVE  i = j
  BY DEF DmaActivateChannel

LEMMA PendingQuiet ==
  ASSUME PendingInv, UNCHANGED <<dma_ctrl, pending_set, events>>
  PROVE  PendingInv'
  BY DEF PendingInv, PendingEnabled, ActivationsFresh

LEMMA PendingCtrl ==
  ASSUME DmaTypeOK, PendingInv, ~HastyRewrites, NEW i \in Channels, NEW new \in DmaCtrl,
         NEW c, NEW d, CpuWriteCtrl(i, new, c, d)
  PROVE  PendingInv'
  <1> DEFINE act == EventAt(DmaActivateChannel(i), (timestamp + c) + 3)
             immediately == Rising(i, new) /\ new.timing = TIMING_IMMEDIATE
  <1>1. ~Activating(i) /\ pending_set = {} /\ DmaWriteCtrl(i, new, timestamp + c)
    BY DEF CpuWriteCtrl, CpuStep
  <1>2. pending_set' = {}
    BY <1>1 DEF DmaWriteCtrl
  <1>3. events' = IF immediately THEN events \cup {act} ELSE events
    BY <1>1 DEF DmaWriteCtrl
  <1>4. \A j \in Channels : dma_ctrl'[j] = IF j = i THEN new ELSE dma_ctrl[j]
    BY <1>1 DEF DmaWriteCtrl, DmaTypeOK
  <1>5. \A e \in events : e.typ # DmaActivateChannel(i)
    BY <1>1 DEF Activating
  <1>6. act.typ = DmaActivateChannel(i)
    BY DEF EventAt
  <1>7. ASSUME NEW e \in events', NEW j \in Channels, e.typ = DmaActivateChannel(j)
        PROVE  dma_ctrl'[j].enabled /\ dma_ctrl'[j].timing = TIMING_IMMEDIATE
    <2>1. CASE e \in events
      <3>1. j # i
        BY <1>5, <1>7, <2>1
      <3>2. QED
        BY <1>4, <1>7, <2>1, <3>1 DEF PendingInv, ActivationsFresh
    <2>2. CASE e = act /\ immediately
      <3>1. j = i
        BY <1>6, <1>7, <2>2, ActivationsDistinct
      <3>2. QED
        BY <1>4, <2>2, <3>1 DEF Rising
    <2>3. QED
      BY <1>3, <2>1, <2>2
  <1>8. \A e, f \in events' : e.typ = f.typ => e = f
    BY <1>3, <1>5, <1>6 DEF PendingInv, ActivationsFresh
  <1>9. QED
    BY <1>2, <1>7, <1>8 DEF PendingInv, PendingEnabled, ActivationsFresh

LEMMA PendingWork ==
  ASSUME DmaTypeOK, PendingInv, NEW c, PerformWork(c)
  PROVE  PendingInv'
  <1>1. pending_set' = {} /\ events' = events
    BY DEF PerformWork
  <1>2. ASSUME NEW e \in events, NEW i \in Channels, e.typ = DmaActivateChannel(i)
        PROVE  dma_ctrl'[i] = dma_ctrl[i]
    <2>1. i \notin pending_set
      BY <1>2 DEF PendingInv, ActivationsFresh
    <2>2. QED
      BY <2>1 DEF PerformWork, Finished
  <1>3. QED
    BY <1>1, <1>2 DEF PendingInv, PendingEnabled, ActivationsFresh

LEMMA PendingRequest ==
  ASSUME PendingInv,
         \/ \E timing \in {TIMING_VBLANK, TIMING_HBLANK} : Blank(timing)
         \/ \E addr \in {FifoA, FifoB} : FifoLow(addr)
  PROVE  PendingInv'
  <1>1. UNCHANGED <<dma_ctrl, events>>
    BY DEF Blank, FifoLow, schedVars, dmaButPending
  <1>2. \A i \in pending_set' : i \in pending_set \/
          (dma_ctrl[i].enabled /\ dma_ctrl[i].timing # TIMING_IMMEDIATE)
    BY DEF Blank, FifoLow, Request, RequestedByGpu, RequestedByFifo, TIMING_VBLANK,
           TIMING_HBLANK, TIMING_SPECIAL, TIMING_IMMEDIATE
  <1>3. QED
    BY <1>1, <1>2 DEF PendingInv, PendingEnabled, ActivationsFresh

LEMMA PendingActivate ==
  ASSUME PendingInv, DmaEvent
  PROVE  PendingInv'
  <1>1. PICK e \in events, i \in Channels : HandleDmaActivate(e, i)
    BY DEF DmaEvent
  <1>2. /\ e.typ = DmaActivateChannel(i) /\ events' = events \ {e}
        /\ pending_set' = pending_set \cup {i} /\ dma_ctrl' = dma_ctrl
    BY <1>1 DEF HandleDmaActivate, HandleEvent, Request, dmaButPending
  <1>3. \A d \in events' : d \in events /\ d.typ # DmaActivateChannel(i)
    BY <1>2 DEF PendingInv, ActivationsFresh
  <1>4. dma_ctrl[i].enabled
    BY <1>2 DEF PendingInv, ActivationsFresh
  <1>5. QED
    BY <1>2, <1>3, <1>4 DEF PendingInv, PendingEnabled, ActivationsFresh

LEMMA PendingNext ==
  ASSUME ~HastyRewrites
  PROVE  DmaTypeOK /\ PendingInv /\ [DNext]_dvars => PendingInv'
  <1> SUFFICES ASSUME DmaTypeOK, PendingInv, [DNext]_dvars PROVE PendingInv'
    OBVIOUS
  <1>1. CASE \E d \in 1..MaxStep : \E c \in 1..d, i \in Channels, new \in DmaControls :
               CpuWriteCtrl(i, new, c, d)
    BY <1>1, PendingCtrl, DmaAssumption
  <1>2. CASE \E c \in 1..MaxStep : Dma(c)
    BY <1>2, PendingWork DEF Dma
  <1>3. CASE DmaEvent
    BY <1>3, PendingActivate
  <1>4. CASE UNCHANGED <<dma_ctrl, pending_set, events>>
    BY <1>4, PendingQuiet
  <1>5. QED
    BY <1>1, <1>2, <1>3, <1>4, PendingRequest
       DEF DNext, dvars, dmaVars, schedVars, CpuIdle, CpuWriteSrc, CpuWriteDst,
           CpuWriteCount, DmaWriteSrc, DmaWriteDst, DmaWriteCount

\* A program that lets activations arrive never has a disabled channel transfer
\* (dma.rs:293 does not ask).
THEOREM DmaPendingEnabled ==
  ASSUME ~HastyRewrites
  PROVE  DSpec => []PendingEnabled
  <1>1. DInit => PendingInv
    BY DEF DInit, DmaInit, SchedInit, PendingInv, PendingEnabled, ActivationsFresh
  <1>2. DmaTypeOK /\ PendingInv /\ [DNext]_dvars => PendingInv'
    BY PendingNext
  <1>3. PendingInv => PendingEnabled
    BY DEF PendingInv
  <1>4. QED
    BY <1>1, <1>2, <1>3, DmaTypeCorrect, PTL DEF DSpec

-----------------------------------------------------------------------------
\* Addresses are exact.  A start that nothing has written over since keeps its
\* registers, so that a reloaded destination is the one it latched.
ChannelHistory == [src : DmaAddrs, dst : DmaAddrs, transfers : Nat, steady : BOOLEAN]

\* AddressesExact of one channel, from its history, control, latches and mode.
Exact(h, c, r, fifo) ==
  LET n == WordSize(c) * (IF r.count = 0 THEN MaxCount ELSE r.count)
      k == h.transfers
  IN /\ r.src_addr = IF fifo THEN Moved(h.src, 0, FifoBurst, k) ELSE Moved(h.src, c.src_adj, n, k)
     /\ r.dst_addr = IF fifo \/ (c.repeat /\ c.dst_adj = 3) THEN h.dst
                     ELSE Moved(h.dst, c.dst_adj, n, k)

HistoryInv == /\ hist \in [Channels -> ChannelHistory]
              /\ \A i \in Channels : hist[i].steady =>
                   /\ dma_dst[i] = hist[i].dst
                   /\ Exact(hist[i], dma_ctrl[i], dma_internal[i], fifo_mode[i])

\* Addition modulo AddrMod may reduce its arguments first.
LEMMA SmallMultiple ==
  ASSUME NEW m \in Nat \ {0}, NEW a \in Int, m * a < m, m * a > 0 - m
  PROVE  a = 0
  <1>1. CASE a >= 1
    BY <1>1
  <1>2. CASE a <= -1
    BY <1>2
  <1>3. QED
    BY <1>1, <1>2

LEMMA RemainderUnique ==
  ASSUME NEW m \in Nat \ {0}, NEW q \in Int, NEW r \in 0..(m - 1)
  PROVE  (m * q + r) % m = r
  <1> DEFINE k == m * q + r
  <1>1. k \in Int
    OBVIOUS
  <1> HIDE DEF k
  <1>2. k = m * (k \div m) + (k % m) /\ k % m \in 0..(m - 1) /\ k \div m \in Int
    BY <1>1
  <1> DEFINE a == (k \div m) - q
             s == k % m
             d == m * a
  <1>3. a \in Int /\ d = r - s /\ s \in 0..(m - 1) /\ d \in Int
    BY <1>2 DEF k
  <1> HIDE DEF s, d, a
  <1>4. d < m /\ d > 0 - m
    BY <1>3
  <1>5. a = 0
    BY <1>3, <1>4, SmallMultiple DEF d
  <1>6. QED
    BY <1>2, <1>3, <1>5 DEF k, a, d, s

LEMMA ReduceFirst ==
  ASSUME NEW m \in Nat \ {0}, NEW x \in Int, NEW n \in Int
  PROVE  ((x % m) + n) % m = (x + n) % m
  <1> DEFINE y == (x % m) + n
             p == x \div m
             q == y \div m
             r == y % m
  <1>1. x = m * p + (x % m) /\ x % m \in Int /\ p \in Int
    OBVIOUS
  <1>2. y \in Int
    BY <1>1
  <1>3. y = m * q + r /\ r \in 0..(m - 1) /\ q \in Int
    <2> HIDE DEF y
    <2>1. QED
      BY <1>2
  <1>4. x + n = m * p + y
    BY <1>1
  <1> HIDE DEF y, p, q, r
  <1>5. x + n = m * (p + q) + r /\ p + q \in Int
    BY <1>1, <1>3, <1>4
  <1>6. (x + n) % m = r
    BY <1>3, <1>5, RemainderUnique
  <1>7. QED
    BY <1>6 DEF r, y

LEMMA MovedNone ==
  ASSUME NEW a \in DmaAddrs, NEW adj \in 0..3, NEW n \in Int
  PROVE  Moved(a, adj, n, 0) = a
  <1>1. a + n * 0 = a /\ a - n * 0 = a /\ a % AddrMod = a
    BY DmaAssumption DEF DmaAddrs
  <1>2. CASE adj \in {0, 3}
    BY <1>1, <1>2 DEF Moved
  <1>3. CASE adj = 1
    BY <1>1, <1>3 DEF Moved
  <1>4. CASE adj = 2
    BY <1>4 DEF Moved
  <1>5. QED
    BY <1>2, <1>3, <1>4

\* One transfer more takes up where the last one ended.
LEMMA MovedStep ==
  ASSUME NEW a \in DmaAddrs, NEW adj \in 0..3, NEW n \in Int, NEW k \in Nat
  PROVE  Adjust(Moved(a, adj, n, k), adj, n) = Moved(a, adj, n, k + 1)
  <1> DEFINE up == a + n * k
             down == a - n * k
  <1>1. AddrMod \in Nat \ {0} /\ a \in Int /\ 0 - n \in Int
    BY DmaAssumption DEF DmaAddrs
  <1>2. up \in Int /\ down \in Int
    BY <1>1
  <1>3. up + n = a + n * (k + 1) /\ down - n = a - n * (k + 1)
    BY <1>1
  <1> HIDE DEF up, down
  <1>4. ((up % AddrMod) + n) % AddrMod = (a + n * (k + 1)) % AddrMod
    <2>1. ((up % AddrMod) + n) % AddrMod = (up + n) % AddrMod
      BY <1>1, <1>2, ReduceFirst
    <2>2. QED
      BY <1>3, <2>1
  <1>5. ((down % AddrMod) - n) % AddrMod = (a - n * (k + 1)) % AddrMod
    <2>1. ((down % AddrMod) + (0 - n)) % AddrMod = (down + (0 - n)) % AddrMod
      BY <1>1, <1>2, ReduceFirst
    <2>2. (down % AddrMod) - n = (down % AddrMod) + (0 - n) /\ down - n = down + (0 - n)
      BY <1>1, <1>2
    <2>3. QED
      BY <1>3, <2>1, <2>2
  <1>6. CASE adj \in {0, 3}
    <2>1. Moved(a, adj, n, k) = up % AddrMod
      BY <1>6 DEF Moved, up
    <2>2. Moved(a, adj, n, k + 1) = (a + n * (k + 1)) % AddrMod
      BY <1>6 DEF Moved
    <2>3. Adjust(up % AddrMod, adj, n) = ((up % AddrMod) + n) % AddrMod
      BY <1>6 DEF Adjust
    <2>4. QED
      BY <1>4, <2>1, <2>2, <2>3
  <1>7. CASE adj = 1
    <2>1. Moved(a, adj, n, k) = down % AddrMod
      BY <1>7 DEF Moved, down
    <2>2. Moved(a, adj, n, k + 1) = (a - n * (k + 1)) % AddrMod
      BY <1>7 DEF Moved
    <2>3. Adjust(down % AddrMod, adj, n) = ((down % AddrMod) - n) % AddrMod
      BY <1>7 DEF Adjust
    <2>4. QED
      BY <1>5, <2>1, <2>2, <2>3
  <1>8. CASE adj = 2
    BY <1>8 DEF Moved, Adjust
  <1>9. QED
    BY <1>6, <1>7, <1>8

\* The transfer of one channel keeps it exact.
LEMMA TransferExact ==
  ASSUME DmaTypeOK, NEW i \in Channels, NEW h \in ChannelHistory, dma_dst[i] = h.dst,
         Exact(h, dma_ctrl[i], dma_internal[i], fifo_mode[i]),
         NEW g, g = [h EXCEPT !.transfers = @ + 1],
         NEW c, c \in {dma_ctrl[i], Disabled(dma_ctrl[i])}
  PROVE  Exact(g, c, InternalAfter(i), fifo_mode[i])
  <1> DEFINE b == dma_ctrl[i]
             r == dma_internal[i]
             s == InternalAfter(i)
             n == WordSize(b) * TransferCount(i)
             k == h.transfers
  <1>1. /\ b \in DmaCtrl /\ r \in Internal /\ fifo_mode[i] \in BOOLEAN
        /\ b.src_adj \in 0..3 /\ b.dst_adj \in 0..3 /\ b.repeat \in BOOLEAN /\ r.count \in Nat
    BY DEF DmaTypeOK, DmaCtrl, Internal
  <1>2. n \in Int
    <2>1. WordSize(b) \in Int /\ TransferCount(i) \in Int
      BY <1>1, DmaAssumption DEF WordSize, TransferCount
    <2>2. QED
      BY <2>1
  <1>3. /\ h.src \in DmaAddrs /\ h.dst \in DmaAddrs /\ k \in Nat
        /\ g.src = h.src /\ g.dst = h.dst /\ g.transfers = k + 1
    BY DEF ChannelHistory
  <1>4. /\ c.src_adj = b.src_adj /\ c.dst_adj = b.dst_adj /\ c.repeat = b.repeat
        /\ WordSize(c) = WordSize(b)
    BY DEF Disabled, WordSize
  <1>5. /\ s.count = r.count
        /\ s.src_addr = IF fifo_mode[i] THEN (r.src_addr + FifoBurst) % AddrMod
                        ELSE Adjust(r.src_addr, b.src_adj, n)
        /\ s.dst_addr = IF b.repeat /\ b.dst_adj = 3 THEN h.dst
                        ELSE IF fifo_mode[i] THEN r.dst_addr
                        ELSE Adjust(r.dst_addr, b.dst_adj, n)
    BY DEF InternalAfter
  <1>6. WordSize(c) * (IF s.count = 0 THEN MaxCount ELSE s.count) = n
    BY <1>4, <1>5 DEF TransferCount
  <1>7. /\ r.src_addr = IF fifo_mode[i] THEN Moved(h.src, 0, FifoBurst, k)
                        ELSE Moved(h.src, b.src_adj, n, k)
        /\ r.dst_addr = IF fifo_mode[i] \/ (b.repeat /\ b.dst_adj = 3) THEN h.dst
                        ELSE Moved(h.dst, b.dst_adj, n, k)
    BY DEF Exact, TransferCount
  <1> HIDE DEF b, r, s, n, k
  <1>8. (r.src_addr + FifoBurst) % AddrMod = Adjust(r.src_addr, 0, FifoBurst)
    BY DEF Adjust
  <1>9. /\ Adjust(Moved(h.src, 0, FifoBurst, k), 0, FifoBurst) = Moved(h.src, 0, FifoBurst, k + 1)
        /\ Adjust(Moved(h.src, b.src_adj, n, k), b.src_adj, n) = Moved(h.src, b.src_adj, n, k + 1)
        /\ Adjust(Moved(h.dst, b.dst_adj, n, k), b.dst_adj, n) = Moved(h.dst, b.dst_adj, n, k + 1)
    <2>1. FifoBurst \in Int /\ 0 \in 0..3
      BY DmaAssumption
    <2>2. QED
      BY <1>1, <1>2, <1>3, <2>1, MovedStep DEF b
  <1>10. s.src_addr = IF fifo_mode[i] THEN Moved(g.src, 0, FifoBurst, g.transfers)
                      ELSE Moved(g.src, c.src_adj, n, g.transfers)
    BY <1>3, <1>4, <1>5, <1>7, <1>8, <1>9
  <1>11. s.dst_addr = IF fifo_mode[i] \/ (c.repeat /\ c.dst_adj = 3) THEN g.dst
                      ELSE Moved(g.dst, c.dst_adj, n, g.transfers)
    BY <1>3, <1>4, <1>5, <1>7, <1>9
  <1>12. QED
    BY <1>6, <1>10, <1>11 DEF Exact, s

LEMMA HistoryInit == DInit => HistoryInv
  <1> SUFFICES ASSUME DInit PROVE HistoryInv
    OBVIOUS
  <1>1. NoHistory \in ChannelHistory /\ NoHistory.steady = FALSE
    BY DmaAssumption DEF NoHistory, ChannelHistory, DmaAddrs
  <1>2. QED
    BY <1>1 DEF DInit, HistoryInv

LEMMA HistoryQuiet ==
  ASSUME HistoryInv, UNCHANGED <<dma_dst, dma_ctrl, dma_internal, fifo_mode, hist>>
  PROVE  HistoryInv'
  BY DEF HistoryInv, Exact

\* A write of a register takes its channel's history out of account.
LEMMA HistoryWrite ==
  ASSUME DmaTypeOK, HistoryInv, NEW i \in Channels, Unsteady(i),
         \A j \in Channels \ {i} :
           /\ dma_dst'[j] = dma_dst[j] /\ dma_ctrl'[j] = dma_ctrl[j]
           /\ dma_internal'[j] = dma_internal[j] /\ fifo_mode'[j] = fifo_mode[j]
  PROVE  HistoryInv'
  <1>1. hist' = [hist EXCEPT ![i] = [@ EXCEPT !.steady = FALSE]]
        /\ hist \in [Channels -> ChannelHistory]
    BY DEF Unsteady, HistoryInv
  <1>2. hist' \in [Channels -> ChannelHistory] /\ hist'[i].steady = FALSE
    BY <1>1 DEF ChannelHistory
  <1>3. \A j \in Channels \ {i} : hist'[j] = hist[j]
    BY <1>1
  <1>4. QED
    BY <1>2, <1>3 DEF HistoryInv

LEMMA HistoryCtrl ==
  ASSUME DmaTypeOK, HistoryInv, NEW i \in Channels, NEW new \in DmaCtrl, NEW c, NEW d,
         CpuWriteCtrl(i, new, c, d)
  PROVE  HistoryInv'
  <1>1. /\ dma_ctrl' = [dma_ctrl EXCEPT ![i] = new]
        /\ dma_internal' = IF Rising(i, new)
                             THEN [dma_internal EXCEPT ![i] = Latched(i)] ELSE dma_internal
        /\ fifo_mode' = IF Rising(i, new)
                          THEN [fifo_mode EXCEPT ![i] = IsFifoTransfer(i, new)] ELSE fifo_mode
        /\ dma_dst' = dma_dst
        /\ hist' = IF Rising(i, new)
                     THEN [hist EXCEPT ![i] = [src |-> dma_src[i], dst |-> dma_dst[i],
                                               transfers |-> 0, steady |-> TRUE]]
                     ELSE [hist EXCEPT ![i] = [@ EXCEPT !.steady = FALSE]]
    BY DEF CpuWriteCtrl, DmaWriteCtrl
  <1>2. /\ dma_ctrl \in [Channels -> DmaCtrl] /\ dma_internal \in [Channels -> Internal]
        /\ fifo_mode \in [Channels -> BOOLEAN] /\ hist \in [Channels -> ChannelHistory]
        /\ dma_src[i] \in DmaAddrs /\ dma_dst[i] \in DmaAddrs
    BY DEF DmaTypeOK, HistoryInv
  <1>3. \A j \in Channels \ {i} :
           /\ dma_dst'[j] = dma_dst[j] /\ dma_ctrl'[j] = dma_ctrl[j]
           /\ dma_internal'[j] = dma_internal[j] /\ fifo_mode'[j] = fifo_mode[j]
    BY <1>1, <1>2
  <1>4. CASE ~Rising(i, new)
    BY <1>1, <1>3, <1>4, HistoryWrite DEF Unsteady
  <1>5. CASE Rising(i, new)
    <2> DEFINE h == [src |-> dma_src[i], dst |-> dma_dst[i], transfers |-> 0, steady |-> TRUE]
    <2>1. h \in ChannelHistory
      BY <1>2 DEF ChannelHistory
    <2>2. /\ hist' = [hist EXCEPT ![i] = h] /\ dma_internal'[i] = Latched(i)
          /\ dma_ctrl'[i] = new
      BY <1>1, <1>2, <1>5
    <2>3. hist' \in [Channels -> ChannelHistory] /\ hist'[i] = h
      BY <1>2, <2>1, <2>2
    <2>4. \A j \in Channels \ {i} : hist'[j] = hist[j]
      BY <1>2, <2>2
    <2>5. Exact(h, new, Latched(i), fifo_mode'[i])
      <3> DEFINE n == WordSize(new) * (IF dma_wc[i] = 0 THEN MaxCount ELSE dma_wc[i])
      <3>1. WordSize(new) \in Int /\ dma_wc[i] \in Nat /\ MaxCount \in Nat /\ FifoBurst \in Int
        BY DmaAssumption DEF WordSize, DmaTypeOK
      <3>2. n \in Int
        BY <3>1
      <3>3. new.src_adj \in 0..3 /\ new.dst_adj \in 0..3 /\ 0 \in 0..3
        BY DEF DmaCtrl
      <3>4. /\ Latched(i).src_addr = dma_src[i] /\ Latched(i).dst_addr = dma_dst[i]
            /\ Latched(i).count = dma_wc[i]
        BY DEF Latched
      <3> HIDE DEF n
      <3>5. /\ Moved(dma_src[i], 0, FifoBurst, 0) = dma_src[i]
            /\ Moved(dma_src[i], new.src_adj, n, 0) = dma_src[i]
            /\ Moved(dma_dst[i], new.dst_adj, n, 0) = dma_dst[i]
        BY <1>2, <3>1, <3>2, <3>3, MovedNone
      <3>6. QED
        BY <3>4, <3>5 DEF Exact, n
    <2>6. h.dst = dma_dst'[i]
      BY <1>1
    <2> HIDE DEF h
    <2>7. /\ dma_dst'[i] = hist'[i].dst
          /\ Exact(hist'[i], dma_ctrl'[i], dma_internal'[i], fifo_mode'[i])
      BY <2>2, <2>3, <2>5, <2>6
    <2>8. ASSUME NEW j \in Channels, j # i, hist'[j].steady
          PROVE  /\ dma_dst'[j] = hist'[j].dst
                 /\ Exact(hist'[j], dma_ctrl'[j], dma_internal'[j], fifo_mode'[j])
      BY <1>3, <2>4, <2>8 DEF HistoryInv
    <2>9. QED
      BY <2>3, <2>7, <2>8 DEF HistoryInv
  <1>6. QED
    BY <1>4, <1>5

LEMMA HistoryWork ==
  ASSUME DmaTypeOK, HistoryInv, NEW c, Dma(c)
  PROVE  HistoryInv'
  <1>1. /\ dma_internal' = [i \in Channels |-> IF i \in pending_set THEN InternalAfter(i)
                                               ELSE dma_internal[i]]
        /\ dma_ctrl' = [i \in Channels |-> IF Finished(i) THEN Disabled(dma_ctrl[i])
                                           ELSE dma_ctrl[i]]
        /\ UNCHANGED <<dma_dst, fifo_mode>>
        /\ hist' = [i \in Channels |-> IF i \in pending_set
                                         THEN [hist[i] EXCEPT !.transfers = @ + 1] ELSE hist[i]]
    BY DEF Dma, PerformWork, dmaRegs
  <1>2. ASSUME NEW i \in Channels
        PROVE  /\ hist'[i] \in ChannelHistory
               /\ hist'[i].steady =>
                    /\ dma_dst'[i] = hist'[i].dst
                    /\ Exact(hist'[i], dma_ctrl'[i], dma_internal'[i], fifo_mode'[i])
    <2>1. hist[i] \in ChannelHistory
      BY DEF HistoryInv
    <2>2. CASE i \in pending_set
      <3>1. /\ hist'[i] = [hist[i] EXCEPT !.transfers = @ + 1]
            /\ dma_internal'[i] = InternalAfter(i)
            /\ dma_ctrl'[i] \in {dma_ctrl[i], Disabled(dma_ctrl[i])}
            /\ dma_dst'[i] = dma_dst[i] /\ fifo_mode'[i] = fifo_mode[i]
        BY <1>1, <2>2
      <3>2. /\ hist'[i] \in ChannelHistory /\ hist'[i].steady = hist[i].steady
            /\ hist'[i].dst = hist[i].dst
        BY <2>1, <3>1 DEF ChannelHistory
      <3>3. QED
        BY <2>1, <3>1, <3>2, TransferExact DEF HistoryInv
    <2>3. CASE i \notin pending_set
      <3>1. /\ hist'[i] = hist[i] /\ dma_internal'[i] = dma_internal[i]
            /\ dma_ctrl'[i] = dma_ctrl[i]
            /\ dma_dst'[i] = dma_dst[i] /\ fifo_mode'[i] = fifo_mode[i]
        BY <1>1, <2>3 DEF Finished
      <3>2. QED
        BY <2>1, <3>1 DEF HistoryInv
    <2>4. QED
      BY <2>2, <2>3
  <1>3. hist' \in [Channels -> ChannelHistory]
    <2>1. hist' = [i \in Channels |-> hist'[i]]
      BY <1>1
    <2>2. QED
      BY <1>2, <2>1
  <1>4. QED
    BY <1>2, <1>3 DEF HistoryInv

LEMMA HistoryNext == DmaTypeOK /\ HistoryInv /\ [DNext]_dvars => HistoryInv'
  <1> SUFFICES ASSUME DmaTypeOK, HistoryInv, [DNext]_dvars PROVE HistoryInv'
    OBVIOUS
  <1>1. CASE \E d \in 1..MaxStep : \E c \in 1..d, i \in Channels, new \in DmaControls :
               CpuWriteCtrl(i, new, c, d)
    BY <1>1, HistoryCtrl, DmaAssumption
  <1>2. CASE \E c \in 1..MaxStep : Dma(c)
    BY <1>2, HistoryWork
  <1>3. ASSUME NEW i \in Channels, NEW d,
               \/ \E a \in Addresses : CpuWriteSrc(i, a, d) \/ CpuWriteDst(i, a, d)
               \/ \E n \in WordCounts : CpuWriteCount(i, n, d)
        PROVE  HistoryInv'
    <2>1. Unsteady(i)
      BY <1>3 DEF CpuWriteSrc, CpuWriteDst, CpuWriteCount
    <2>2. /\ UNCHANGED <<dma_ctrl, dma_internal, fifo_mode>>
          /\ \A j \in Channels \ {i} : dma_dst'[j] = dma_dst[j]
      BY <1>3 DEF CpuWriteSrc, CpuWriteDst, CpuWriteCount, DmaWriteSrc, DmaWriteDst,
                  DmaWriteCount, DmaTypeOK
    <2>3. QED
      BY <2>1, <2>2, HistoryWrite
  <1>4. CASE UNCHANGED <<dma_dst, dma_ctrl, dma_internal, fifo_mode, hist>>
    BY <1>4, HistoryQuiet
  <1>5. QED
    BY <1>1, <1>2, <1>3, <1>4
       DEF DNext, dvars, dmaVars, dmaButPending, CpuIdle, Blank, FifoLow, DmaEvent,
           HandleDmaActivate

\* However many transfers a start leads to, each takes up where the last one
\* ended (dma.rs:117-190): for any number of channels, address width, word count
\* and burst.
THEOREM DmaAddressesExact == DSpec => []AddressesExact
  <1>1. HistoryInv => AddressesExact
    BY DEF HistoryInv, AddressesExact, Exact, TransferCount
  <1>2. QED
    BY <1>1, HistoryInit, HistoryNext, DmaTypeCorrect, PTL DEF DSpec
=============================================================================
