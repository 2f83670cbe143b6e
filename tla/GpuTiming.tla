------------------------------ MODULE GpuTiming ------------------------------
(***************************************************************************)
(* The display's state machine (core/src/gpu/mod.rs): a chain of events    *)
(* that each schedule the next, the line counter, the status flags, and    *)
(* what the end of a line or of a picture does to the interrupts, the DMA  *)
(* and the affine reference points.                                        *)
(*                                                                         *)
(* Of the picture only the reference point a line was drawn with is kept,  *)
(* for one coordinate of one background.                                   *)
(***************************************************************************)
EXTENDS Dma

CONSTANTS DISPLAY_HEIGHT, VBLANK_LINES,   \* 160, 68
          CYCLES_HDRAW, CYCLES_HBLANK,    \* 1006, 226
          VcountSettings,   \* the line numbers the program asks interrupts for
          RefPoints,        \* the values it writes to a reference point
          RefDeltas         \* and to the parameter a line adds to it

Lines == DISPLAY_HEIGHT + VBLANK_LINES
CYCLES_SCANLINE == CYCLES_HDRAW + CYCLES_HBLANK
CYCLES_FULL_REFRESH == Lines * CYCLES_SCANLINE

ASSUME GpuAssumption ==
  /\ DISPLAY_HEIGHT \in Nat \ {0} /\ VBLANK_LINES \in Nat \ {0}
  /\ CYCLES_HDRAW \in Nat \ {0} /\ CYCLES_HBLANK \in Nat \ {0}
  /\ VcountSettings \subseteq Nat /\ RefPoints \subseteq Int /\ RefDeltas \subseteq Int

VARIABLES vcount, vblank_flag, hblank_flag, vcount_flag,   \* read by the program
          dispstat,      \* the part of DISPSTAT the program writes
          ref_point,     \* BgAffine::x, and x, pb stand for y, pd as well
          ref_internal,  \* internal_x
          ref_delta,     \* pb
          frame_buffer   \* each row: the reference point it was drawn with

gpuVars == <<vcount, vblank_flag, hblank_flag, vcount_flag, dispstat,
             ref_point, ref_internal, ref_delta, frame_buffer>>

Dispstat == [vblank_irq : BOOLEAN, hblank_irq : BOOLEAN, vcount_irq : BOOLEAN,
             vcount_setting : VcountSettings \cup {0}]

GpuEvents == {"HDraw", "HBlank", "VBlankHDraw", "VBlankHBlank"}
Gpu(g) == <<"Gpu", g>>

GpuInit ==
  /\ vcount = 0 /\ vblank_flag = FALSE /\ hblank_flag = FALSE /\ vcount_flag = FALSE
  /\ dispstat = [vblank_irq |-> FALSE, hblank_irq |-> FALSE, vcount_irq |-> FALSE,
                 vcount_setting |-> 0]
  /\ ref_point = 0 /\ ref_internal = 0 /\ ref_delta = 0
  /\ frame_buffer = [row \in 0..(DISPLAY_HEIGHT - 1) |-> 0]

GpuFirstEvent == EventAt(Gpu("HDraw"), CYCLES_HDRAW)

-----------------------------------------------------------------------------
\* Register writes.  A write to DISPSTAT keeps the flags, the match flag too.
GpuWriteDispstat(new) ==
  /\ dispstat' = new
  /\ UNCHANGED <<vcount, vblank_flag, hblank_flag, vcount_flag, ref_point, ref_internal,
                 ref_delta, frame_buffer>>

\* Writing a reference point sets the internal one at once, also in mid-picture.
GpuWriteRefPoint(x) ==
  /\ ref_point' = x /\ ref_internal' = x
  /\ UNCHANGED <<vcount, vblank_flag, hblank_flag, vcount_flag, dispstat, ref_delta,
                 frame_buffer>>

GpuWriteRefDelta(d) ==
  /\ ref_delta' = d
  /\ UNCHANGED <<vcount, vblank_flag, hblank_flag, vcount_flag, dispstat, ref_point,
                 ref_internal, frame_buffer>>

-----------------------------------------------------------------------------
LcdIrq(enabled, irq) == IF enabled THEN {<<"LCD", irq>>} ELSE {}

\* update_vcount
MatchIrq(line) ==
  LcdIrq(dispstat.vcount_irq /\ dispstat.vcount_setting = line, "VCounterMatch")

UpdateVcount(line) ==
  /\ vcount' = line
  /\ vcount_flag' = (dispstat.vcount_setting = line)

RenderScanlineMovedOn(line) ==
  frame_buffer' = [frame_buffer EXCEPT ![line] = ref_internal + ref_delta]

RenderScanline(line) == frame_buffer' = [frame_buffer EXCEPT ![line] = ref_internal]

InPictureOffByOne(line) == line <= DISPLAY_HEIGHT

InPicture(line) == line < DISPLAY_HEIGHT

LastLine(line) == line >= Lines - 1

\* What on_event returns is scheduled relative to the time of the event.
ThenFromNow(e, g, when) == HandleEvent(e, {EventAt(Gpu(g), timestamp + when)})

Then(e, g, when) == HandleEvent(e, {EventAt(Gpu(g), e.time + when)})

HandleHDrawEnd(e) ==
  /\ e.typ = Gpu("HDraw")
  /\ hblank_flag' = TRUE
  /\ interrupt_flags' = Requested(interrupt_flags, LcdIrq(dispstat.hblank_irq, "HBlank"))
  /\ Request(RequestedByGpu(TIMING_HBLANK))
  /\ Then(e, "HBlank", CYCLES_HBLANK)
  /\ UNCHANGED <<vcount, vblank_flag, vcount_flag, dispstat, ref_point, ref_internal,
                 ref_delta, frame_buffer, dmaButPending>>

HandleHBlankEnd(e) ==
  /\ e.typ = Gpu("HBlank")
  /\ UpdateVcount(vcount + 1)
  /\ hblank_flag' = FALSE
  /\ \/ /\ InPicture(vcount + 1)
        /\ RenderScanline(vcount + 1)
        /\ ref_internal' = ref_internal + ref_delta
        /\ interrupt_flags' = Requested(interrupt_flags, MatchIrq(vcount + 1))
        /\ Then(e, "HDraw", CYCLES_HDRAW)
        /\ UNCHANGED <<vblank_flag, dmaVars>>
     \/ /\ ~InPicture(vcount + 1)
        /\ vblank_flag' = TRUE
        /\ ref_internal' = ref_point
        /\ interrupt_flags' = Requested(interrupt_flags,
             MatchIrq(vcount + 1) \cup LcdIrq(dispstat.vblank_irq, "VBlank"))
        /\ Request(RequestedByGpu(TIMING_VBLANK))
        /\ Then(e, "VBlankHDraw", CYCLES_HDRAW)
        /\ UNCHANGED <<frame_buffer, dmaButPending>>
  /\ UNCHANGED <<dispstat, ref_point, ref_delta>>

HandleVBlankHDrawEnd(e) ==
  /\ e.typ = Gpu("VBlankHDraw")
  /\ hblank_flag' = TRUE
  /\ interrupt_flags' = Requested(interrupt_flags, LcdIrq(dispstat.hblank_irq, "HBlank"))
  /\ Then(e, "VBlankHBlank", CYCLES_HBLANK)
  /\ UNCHANGED <<vcount, vblank_flag, vcount_flag, dispstat, ref_point, ref_internal,
                 ref_delta, frame_buffer, dmaVars>>

HandleVBlankHBlankEnd(e) ==
  /\ e.typ = Gpu("VBlankHBlank")
  /\ hblank_flag' = FALSE
  /\ \/ /\ ~LastLine(vcount)
        /\ UpdateVcount(vcount + 1)
        /\ interrupt_flags' = Requested(interrupt_flags, MatchIrq(vcount + 1))
        /\ Then(e, "VBlankHDraw", CYCLES_HDRAW)
        /\ UNCHANGED <<vblank_flag, frame_buffer>>
     \/ /\ LastLine(vcount)
        /\ UpdateVcount(0)
        /\ vblank_flag' = FALSE
        /\ RenderScanline(0)
        /\ interrupt_flags' = Requested(interrupt_flags, MatchIrq(0))
        /\ Then(e, "HDraw", CYCLES_HDRAW)
  /\ UNCHANGED <<dispstat, ref_point, ref_internal, ref_delta, dmaVars>>

HandleGpuEvent(e) ==
  HandleHDrawEnd(e) \/ HandleHBlankEnd(e) \/ HandleVBlankHDrawEnd(e) \/ HandleVBlankHBlankEnd(e)
=============================================================================
