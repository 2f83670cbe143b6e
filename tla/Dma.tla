-------------------------------- MODULE Dma ---------------------------------
(***************************************************************************)
(* core/src/dma.rs.  Enabling a channel latches its registers; a request   *)
(* (an activation event, a blank of the display, a sound FIFO running low) *)
(* puts it in pending_set, and perform_work then transfers every pending   *)
(* channel before the CPU runs again.                                      *)
(*                                                                         *)
(* Addresses are numbers modulo AddrMod; the memory they name is left out, *)
(* and so is the masking of unaligned addresses.  A 32-bit register is     *)
(* written at once, not in its two halves.                                 *)
(***************************************************************************)
EXTENDS Scheduler, Interrupts

CONSTANTS Channels,        \* the channels the program uses, of 0..3
          AddrMod,         \* 2^32
          FifoA, FifoB,    \* REG_FIFO_A, REG_FIFO_B
          Addresses,       \* the values the program writes to DMAxSAD, DMAxDAD
          WordCounts,      \* and to DMAxCNT_L
          DmaControls,     \* and to DMAxCNT_H
          MaxCount,        \* what a word count of 0 means: 0x10000 or 0x4000
          FifoBurst        \* the bytes of a sound transfer: 16

Timings == 0..3
TIMING_IMMEDIATE == 0
TIMING_VBLANK == 1
TIMING_HBLANK == 2
TIMING_SPECIAL == 3

DmaCtrl == [dst_adj : 0..3, src_adj : 0..2, repeat : BOOLEAN, is_32bit : BOOLEAN,
            timing : Timings, irq : BOOLEAN, enabled : BOOLEAN]
DmaAddrs == 0..(AddrMod - 1)
Internal == [src_addr : DmaAddrs, dst_addr : DmaAddrs, count : Nat]

ASSUME DmaAssumption ==
  /\ Channels \subseteq 0..3
  /\ AddrMod \in Nat \ {0} /\ {FifoA, FifoB} \subseteq DmaAddrs
  /\ Addresses \subseteq DmaAddrs /\ WordCounts \subseteq Nat
  /\ DmaControls \subseteq DmaCtrl
  /\ MaxCount \in Nat \ {0} /\ FifoBurst \in Nat \ {0}

VARIABLES dma_src, dma_dst, dma_wc, dma_ctrl,  \* the registers, by channel
          dma_internal,                        \* latched by a start
          dma_running, fifo_mode,
          pending_set

dmaRegs == <<dma_src, dma_dst, dma_wc>>
dmaVars == <<dma_src, dma_dst, dma_wc, dma_ctrl, dma_internal, dma_running,
             fifo_mode, pending_set>>

DmaActivateChannel(i) == <<"DmaActivateChannel", i>>
DmaIrq(i) == <<"DMA", i>>

DmaInit ==
  /\ dma_src = [i \in Channels |-> 0] /\ dma_dst = [i \in Channels |-> 0]
  /\ dma_wc = [i \in Channels |-> 0]
  /\ dma_ctrl = [i \in Channels |-> [dst_adj |-> 0, src_adj |-> 0, repeat |-> FALSE,
                                     is_32bit |-> FALSE, timing |-> TIMING_IMMEDIATE,
                                     irq |-> FALSE, enabled |-> FALSE]]
  /\ dma_internal = [i \in Channels |-> [src_addr |-> 0, dst_addr |-> 0, count |-> 0]]
  /\ dma_running = [i \in Channels |-> FALSE]
  /\ fifo_mode = [i \in Channels |-> FALSE]
  /\ pending_set = {}

-----------------------------------------------------------------------------
DmaWriteSrc(i, a) ==
  /\ dma_src' = [dma_src EXCEPT ![i] = a]
  /\ UNCHANGED <<dma_dst, dma_wc, dma_ctrl, dma_internal, dma_running, fifo_mode,
                 pending_set, events, interrupt_flags>>

DmaWriteDst(i, a) ==
  /\ dma_dst' = [dma_dst EXCEPT ![i] = a]
  /\ UNCHANGED <<dma_src, dma_wc, dma_ctrl, dma_internal, dma_running, fifo_mode,
                 pending_set, events, interrupt_flags>>

DmaWriteCount(i, n) ==
  /\ dma_wc' = [dma_wc EXCEPT ![i] = n]
  /\ UNCHANGED <<dma_src, dma_dst, dma_ctrl, dma_internal, dma_running, fifo_mode,
                 pending_set, events, interrupt_flags>>

\* write_dma_ctrl: only the rising edge of `enabled` latches and starts.
Rising(i, new) == new.enabled /\ ~dma_ctrl[i].enabled

IsFifoTransfer(i, new) ==
  /\ new.timing = TIMING_SPECIAL /\ new.repeat
  /\ i \in {1, 2} /\ dma_dst[i] \in {FifoA, FifoB}

Latched(i) ==
  [src_addr |-> dma_src[i], dst_addr |-> dma_dst[i], count |-> dma_wc[i]]

RunningAfterSticky(i, new) == Rising(i, new) \/ dma_running[i]

RunningAfter(i, new) == IF Rising(i, new) THEN TRUE
                        ELSE new.enabled /\ dma_running[i]

\* An immediate start schedules the activation ("DMA actually starts after 3
\* cycles"); any other write of the register withdraws a pending request.
DmaWriteCtrl(i, new, now) ==
  LET start_immediately == Rising(i, new) /\ new.timing = TIMING_IMMEDIATE
  IN /\ dma_ctrl' = [dma_ctrl EXCEPT ![i] = new]
     /\ dma_running' = [dma_running EXCEPT ![i] = RunningAfter(i, new)]
     /\ dma_internal' = IF Rising(i, new)
                          THEN [dma_internal EXCEPT ![i] = Latched(i)] ELSE dma_internal
     /\ fifo_mode' = IF Rising(i, new)
                       THEN [fifo_mode EXCEPT ![i] = IsFifoTransfer(i, new)] ELSE fifo_mode
     /\ events' = IF start_immediately
                    THEN events \cup {EventAt(DmaActivateChannel(i), now + 3)} ELSE events
     /\ pending_set' = IF start_immediately THEN pending_set ELSE pending_set \ {i}
     /\ UNCHANGED <<dma_src, dma_dst, dma_wc, interrupt_flags>>

-----------------------------------------------------------------------------
\* The requests.  DmaActivateChannel is an event; the other two are called by
\* the handlers of the GPU's and the timers' events.
RequestedByGpuAnyTiming(timing) == {i \in Channels : dma_ctrl[i].enabled}

RequestedByGpu(timing) ==
  {i \in Channels : dma_ctrl[i].enabled /\ dma_ctrl[i].timing = timing}

RequestedByFifo(addr) ==
  {i \in Channels \cap {1, 2} : /\ dma_ctrl[i].enabled /\ dma_running[i]
                               /\ dma_ctrl[i].timing = TIMING_SPECIAL
                               /\ dma_dst[i] = addr}

Request(channels) == pending_set' = pending_set \cup channels

dmaButPending == <<dma_src, dma_dst, dma_wc, dma_ctrl, dma_internal, dma_running, fifo_mode>>

HandleDmaActivate(e, i) ==
  /\ e.typ = DmaActivateChannel(i)
  /\ Request({i})
  /\ HandleEvent(e, {})
  /\ UNCHANGED <<dmaButPending, interrupt_flags>>

-----------------------------------------------------------------------------
\* One transfer of channel i.
WordSize(c) == IF c.is_32bit THEN 4 ELSE 2
TransferCount(i) == IF dma_internal[i].count = 0 THEN MaxCount ELSE dma_internal[i].count

\* Increment, decrement, fixed, increment with reload.
Adjust(a, adj, n) ==
  CASE adj \in {0, 3} -> (a + n) % AddrMod
    [] adj = 1        -> (a - n) % AddrMod
    [] adj = 2        -> a

\* The destination of a sound transfer stays, whatever the control register says.
InternalAfterAdvancing(i) ==
  LET c == dma_ctrl[i]
      r == dma_internal[i]
      n == WordSize(c) * TransferCount(i)
      dst == Adjust(r.dst_addr, c.dst_adj, n)
  IN [src_addr |-> IF fifo_mode[i] THEN (r.src_addr + FifoBurst) % AddrMod
                   ELSE Adjust(r.src_addr, c.src_adj, n),
      dst_addr |-> IF c.repeat /\ c.dst_adj = 3 THEN dma_dst[i] ELSE dst,
      count |-> r.count]

InternalAfter(i) ==
  LET c == dma_ctrl[i]
      r == dma_internal[i]
      n == WordSize(c) * TransferCount(i)
      dst == IF fifo_mode[i] THEN r.dst_addr ELSE Adjust(r.dst_addr, c.dst_adj, n)
  IN [src_addr |-> IF fifo_mode[i] THEN (r.src_addr + FifoBurst) % AddrMod
                   ELSE Adjust(r.src_addr, c.src_adj, n),
      dst_addr |-> IF c.repeat /\ c.dst_adj = 3 THEN dma_dst[i] ELSE dst,
      count |-> r.count]

\* A transfer that does not repeat disables its channel.
Finished(i) == i \in pending_set /\ ~dma_ctrl[i].repeat

Disabled(c) == [dst_adj |-> c.dst_adj, src_adj |-> c.src_adj, repeat |-> c.repeat,
                is_32bit |-> c.is_32bit, timing |-> c.timing, irq |-> c.irq,
                enabled |-> FALSE]

\* perform_work: the pending channels in order, in one step of c cycles; each
\* touches only its own registers, so the order shows only in the memory.
PerformWork(c) ==
  /\ pending_set # {}
  /\ Elapse(c)
  /\ dma_internal' = [i \in Channels |-> IF i \in pending_set THEN InternalAfter(i)
                                         ELSE dma_internal[i]]
  /\ interrupt_flags' = Requested(interrupt_flags,
                          {DmaIrq(i) : i \in {j \in pending_set : dma_ctrl[j].irq}})
  /\ dma_running' = [i \in Channels |-> dma_running[i] /\ ~Finished(i)]
  /\ dma_ctrl' = [i \in Channels |-> IF Finished(i) THEN Disabled(dma_ctrl[i]) ELSE dma_ctrl[i]]
  /\ pending_set' = {}
  /\ UNCHANGED <<dmaRegs, fifo_mode, events>>
=============================================================================
