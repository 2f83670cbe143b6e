----------------------------- MODULE DmaProgram -----------------------------
(***************************************************************************)
(* The DMA controller driven by a program that writes its registers, by    *)
(* the display's blanks and by the sound FIFOs, with the history of each   *)
(* channel since its last start.                                           *)
(***************************************************************************)
EXTENDS Dma

CONSTANT HastyRewrites   \* does the program rewrite DMAxCNT_H while an
                         \* activation of that channel is on its way?

ASSUME HastyAssumption == HastyRewrites \in BOOLEAN

VARIABLE hist   \* by channel

dvars == <<schedVars, dmaVars, interrupt_flags, hist>>

NoHistory == [src |-> 0, dst |-> 0, \* what the last start latched
              transfers |-> 0,     \* transfers since
              steady |-> FALSE]    \* no register written since

DInit == /\ SchedInit({}) /\ DmaInit /\ interrupt_flags = {}
         /\ hist = [i \in Channels |-> NoHistory]

CpuStep(d) == pending_set = {} /\ Elapse(d)

Unsteady(i) == hist' = [hist EXCEPT ![i] = [@ EXCEPT !.steady = FALSE]]

CpuIdle(d) == CpuStep(d) /\ UNCHANGED <<dmaVars, events, interrupt_flags, hist>>

CpuWriteSrc(i, a, d) == CpuStep(d) /\ DmaWriteSrc(i, a) /\ Unsteady(i)

CpuWriteDst(i, a, d) == CpuStep(d) /\ DmaWriteDst(i, a) /\ Unsteady(i)

CpuWriteCount(i, n, d) == CpuStep(d) /\ DmaWriteCount(i, n) /\ Unsteady(i)

Activating(i) == \E e \in events : e.typ = DmaActivateChannel(i)

CpuWriteCtrl(i, new, c, d) ==
  /\ HastyRewrites \/ ~Activating(i)
  /\ CpuStep(d)
  /\ DmaWriteCtrl(i, new, timestamp + c)
  /\ hist' = IF Rising(i, new)
               THEN [hist EXCEPT ![i] =
                      [src |-> dma_src[i], dst |-> dma_dst[i],
                       transfers |-> 0, steady |-> TRUE]]
               ELSE [hist EXCEPT ![i] = [@ EXCEPT !.steady = FALSE]]

Dma(c) ==
  /\ PerformWork(c)
  /\ hist' = [i \in Channels |->
               IF i \in pending_set THEN [hist[i] EXCEPT !.transfers = @ + 1] ELSE hist[i]]

\* The display and the timers make their requests from event handlers.
Blank(timing) ==
  /\ Request(RequestedByGpu(timing))
  /\ UNCHANGED <<schedVars, dmaButPending, interrupt_flags, hist>>

FifoLow(addr) ==
  /\ Request(RequestedByFifo(addr))
  /\ UNCHANGED <<schedVars, dmaButPending, interrupt_flags, hist>>

DmaEvent == \E e \in events, i \in Channels : HandleDmaActivate(e, i) /\ UNCHANGED hist

DNext ==
  \/ \E d \in 1..MaxStep : CpuIdle(d)
  \/ \E d \in 1..MaxStep, i \in Channels, a \in Addresses : CpuWriteSrc(i, a, d)
  \/ \E d \in 1..MaxStep, i \in Channels, a \in Addresses : CpuWriteDst(i, a, d)
  \/ \E d \in 1..MaxStep, i \in Channels, n \in WordCounts : CpuWriteCount(i, n, d)
  \/ \E d \in 1..MaxStep : \E c \in 1..d, i \in Channels, new \in DmaControls :
       CpuWriteCtrl(i, new, c, d)
  \/ \E c \in 1..MaxStep : Dma(c)
  \/ \E timing \in {TIMING_VBLANK, TIMING_HBLANK} : Blank(timing)
  \/ \E addr \in {FifoA, FifoB} : FifoLow(addr)
  \/ DmaEvent

DSpec == DInit /\ [][DNext]_dvars

-----------------------------------------------------------------------------
\* The type invariant of the controller.
DmaTypeOK ==
  /\ timestamp \in 0..Horizon /\ handling \in BOOLEAN
  /\ events \subseteq [typ : {DmaActivateChannel(i) : i \in Channels}, time : Nat]
  /\ dma_src \in [Channels -> DmaAddrs] /\ dma_dst \in [Channels -> DmaAddrs]
  /\ dma_wc \in [Channels -> Nat] /\ dma_ctrl \in [Channels -> DmaCtrl]
  /\ dma_internal \in [Channels -> Internal]
  /\ dma_running \in [Channels -> BOOLEAN] /\ fifo_mode \in [Channels -> BOOLEAN]
  /\ pending_set \subseteq Channels
  /\ interrupt_flags \subseteq {DmaIrq(i) : i \in Channels}

\* `running` and the enable bit of the register are kept apart, by the program's
\* writes and by the end of a transfer, and always agree; what is activated by
\* an event that outlived its channel does not part them.
RunningIffEnabled == \A i \in Channels : dma_running[i] <=> dma_ctrl[i].enabled

\* What a channel moved by n from a, k times over.
Moved(a, adj, n, k) ==
  CASE adj \in {0, 3} -> (a + n * k) % AddrMod
    [] adj = 1        -> (a - n * k) % AddrMod
    [] adj = 2        -> a

\* However many transfers a start leads to, each takes up where the last ended:
\* the latched addresses follow from those at the start and the number of
\* transfers, a reloaded destination is where it began, and the destination of
\* a sound transfer never leaves the FIFO.
AddressesExact ==
  \A i \in Channels : hist[i].steady =>
    LET c == dma_ctrl[i]
        n == WordSize(c) * TransferCount(i)
        k == hist[i].transfers
    IN /\ dma_internal[i].src_addr =
            IF fifo_mode[i] THEN Moved(hist[i].src, 0, FifoBurst, k)
                            ELSE Moved(hist[i].src, c.src_adj, n, k)
       /\ dma_internal[i].dst_addr =
            IF fifo_mode[i] \/ (c.repeat /\ c.dst_adj = 3) THEN hist[i].dst
                            ELSE Moved(hist[i].dst, c.dst_adj, n, k)

\* Only enabled channels are about to transfer.
PendingEnabled == \A i \in pending_set : dma_ctrl[i].enabled
=============================================================================
