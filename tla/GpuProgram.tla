----------------------------- MODULE GpuProgram ------------------------------
(***************************************************************************)
(* The display driven by the clock, with a program that sets its           *)
(* interrupts, moves the reference point and has DMA channels transfer at  *)
(* the blanks; and the history of the picture and of those channels.       *)
(***************************************************************************)
EXTENDS GpuTiming

CONSTANT DispstatWrites   \* the settings the program writes to DISPSTAT

ASSUME DispstatAssumption == DispstatWrites \subseteq Dispstat

VARIABLES moved,      \* a reference register was written since the last latch
          armed,      \* by channel: no write of its control since the line began,
                      \* and no activation on its way from before
          line_dma,   \* by channel: transfers since the line began
          picture,    \* pictures ended
          overran     \* the last step of CPU or DMA lasted a blank or more

historyVars == <<moved, armed, line_dma, picture>>
gvars == <<schedVars, dmaVars, interrupt_flags, gpuVars, historyVars, overran>>

GInit == /\ SchedInit({GpuFirstEvent}) /\ DmaInit /\ GpuInit /\ interrupt_flags = {}
         /\ moved = FALSE
         /\ armed = [i \in Channels |-> FALSE]
         /\ line_dma = [i \in Channels |-> 0]
         /\ picture = 0 /\ overran = FALSE

\* A step may be long: a DMA channel makes the whole of its transfer in one.
Lasts(c) == overran' = (c >= CYCLES_HBLANK)

CpuStepBeforeDma(c) == Elapse(c) /\ Lasts(c)

CpuStep(c) == pending_set = {} /\ Elapse(c) /\ Lasts(c)

CpuIdle(c) ==
  CpuStep(c) /\ UNCHANGED <<dmaVars, interrupt_flags, gpuVars, events, historyVars>>

CpuWriteDispstat(new, c) ==
  /\ CpuStep(c) /\ GpuWriteDispstat(new)
  /\ UNCHANGED <<dmaVars, interrupt_flags, events, historyVars>>

CpuWriteRefPoint(x, c) ==
  /\ CpuStep(c) /\ GpuWriteRefPoint(x) /\ moved' = TRUE
  /\ UNCHANGED <<dmaVars, interrupt_flags, events, armed, line_dma, picture>>

CpuWriteRefDelta(d, c) ==
  /\ CpuStep(c) /\ GpuWriteRefDelta(d) /\ moved' = TRUE
  /\ UNCHANGED <<dmaVars, interrupt_flags, events, armed, line_dma, picture>>

CpuWriteDmaCtrl(i, new, c) ==
  /\ CpuStep(c) /\ DmaWriteCtrl(i, new, timestamp + c)
  /\ armed' = [armed EXCEPT ![i] = FALSE]
  /\ UNCHANGED <<gpuVars, moved, line_dma, picture>>

CpuAcknowledge(c) ==
  /\ CpuStep(c) /\ interrupt_flags' = Acknowledged(interrupt_flags, interrupt_flags)
  /\ UNCHANGED <<dmaVars, events, gpuVars, historyVars>>

Dma(c) ==
  /\ PerformWork(c) /\ Lasts(c)
  /\ line_dma' = [i \in Channels |-> line_dma[i] + (IF i \in pending_set THEN 1 ELSE 0)]
  /\ UNCHANGED <<gpuVars, moved, armed, picture>>

NewLine == vcount' # vcount

Activating(i) == \E e \in events : e.typ = DmaActivateChannel(i)

GpuEvent ==
  /\ \E e \in events : HandleGpuEvent(e)
  /\ moved' = (moved /\ (vblank_flag \/ ~vblank_flag'))
  /\ armed' = [i \in Channels |-> IF NewLine THEN i \notin pending_set /\ ~Activating(i)
                                  ELSE armed[i]]
  /\ line_dma' = [i \in Channels |-> IF NewLine THEN 0 ELSE line_dma[i]]
  /\ picture' = IF vcount' < vcount THEN picture + 1 ELSE picture
  /\ UNCHANGED overran

DmaEvent ==
  /\ \E e \in events, i \in Channels : HandleDmaActivate(e, i)
  /\ UNCHANGED <<gpuVars, historyVars, overran>>

GNext ==
  \/ \E c \in 1..MaxStep : CpuIdle(c) \/ CpuAcknowledge(c)
  \/ \E c \in 1..MaxStep, new \in DispstatWrites : CpuWriteDispstat(new, c)
  \/ \E c \in 1..MaxStep, x \in RefPoints : CpuWriteRefPoint(x, c)
  \/ \E c \in 1..MaxStep, d \in RefDeltas : CpuWriteRefDelta(d, c)
  \/ \E c \in 1..MaxStep, i \in Channels, new \in DmaControls : CpuWriteDmaCtrl(i, new, c)
  \/ \E c \in 1..MaxStep : Dma(c)
  \/ GpuEvent
  \/ DmaEvent

GSpec == GInit /\ [][GNext]_gvars

-----------------------------------------------------------------------------
\* The type invariant of the display.
GpuTypeOK ==
  /\ vcount \in 0..(Lines - 1)
  /\ vblank_flag \in BOOLEAN /\ hblank_flag \in BOOLEAN /\ vcount_flag \in BOOLEAN
  /\ dispstat \in Dispstat
  /\ ref_point \in Int /\ ref_internal \in Int /\ ref_delta \in Int
  /\ frame_buffer \in [0..(DISPLAY_HEIGHT - 1) -> Int]

Phase(g) ==
  CASE g = "HDraw"        -> vcount < DISPLAY_HEIGHT /\ ~vblank_flag /\ ~hblank_flag
    [] g = "HBlank"       -> vcount < DISPLAY_HEIGHT /\ ~vblank_flag /\ hblank_flag
    [] g = "VBlankHDraw"  -> vcount >= DISPLAY_HEIGHT /\ vblank_flag /\ ~hblank_flag
    [] g = "VBlankHBlank" -> vcount >= DISPLAY_HEIGHT /\ vblank_flag /\ hblank_flag

GpuPending == {e \in events : \E g \in GpuEvents : e.typ = Gpu(g)}

\* The chain of events is all that drives the display: exactly one is pending,
\* also under late and repeated handling, and it is the one the line counter and
\* the status flags call for.
OneGpuEvent ==
  \E e \in events, g \in GpuEvents :
    GpuPending = {e} /\ e.typ = Gpu(g) /\ Phase(g)

\* However late events are handled, the display keeps its clock: the pending
\* event is due at the place of its line in the picture, to the cycle.
DisplayClock ==
  \A e \in GpuPending :
    e.time = picture * CYCLES_FULL_REFRESH + vcount * CYCLES_SCANLINE
               + (IF hblank_flag THEN CYCLES_SCANLINE ELSE CYCLES_HDRAW)

\* Each row of a picture whose reference registers are left alone was drawn with
\* the reference point latched at the blank before it and the lines since the
\* second; nothing of the picture before is left in it.
RowsExact ==
  ~moved /\ vcount < DISPLAY_HEIGHT =>
    \A row \in 0..vcount :
      frame_buffer[row] = ref_point + (IF row = 0 THEN 0 ELSE row - 1) * ref_delta

\* In every line that began with nothing of it under way, a channel whose control
\* is left alone transfers as often as its timing says: one that repeats at HBlank
\* once in the blank of each visible line and not in the others', one that repeats
\* at VBlank once, in the first line below the picture.
BlankTransfers ==
  \A i \in Channels \ pending_set :
    armed[i] /\ dma_ctrl[i].enabled /\ dma_ctrl[i].repeat =>
      line_dma[i] =
        IF \/ dma_ctrl[i].timing = TIMING_HBLANK /\ vcount < DISPLAY_HEIGHT /\ hblank_flag
           \/ dma_ctrl[i].timing = TIMING_VBLANK /\ vcount = DISPLAY_HEIGHT
        THEN 1 ELSE 0

\* No line begins with a transfer of an earlier line still to make, unless the last
\* step before was itself as long as a blank (as a long copy may be): a channel that
\* was armed is armed again, so that BlankTransfers speaks of it line after line.
ServedInLine == [][\A i \in Channels : armed[i] /\ NewLine /\ ~overran => armed'[i]]_gvars
=============================================================================
