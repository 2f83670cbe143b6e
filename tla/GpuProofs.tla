------------------------------ MODULE GpuProofs ------------------------------
(***************************************************************************)
(* The display's event chain and its clock, for any geometry, latency and  *)
(* program.                                                                *)
(***************************************************************************)
EXTENDS GpuProgram, TLAPS

\* Only the place in the picture and the pending event matter to the chain.
Place(v, h) == v * CYCLES_SCANLINE + (IF h THEN CYCLES_SCANLINE ELSE CYCLES_HDRAW)

GInv == GpuTypeOK /\ picture \in Nat /\ OneGpuEvent /\ DisplayClock

\* Distributivity, the only multiplication the clock needs.
LEMMA NextMultiple ==
  ASSUME NEW a \in Int, NEW b \in Int
  PROVE  (a + 1) * b = a * b + b
  BY SMT

LEMMA ScanlineType == CYCLES_SCANLINE \in Nat /\ Lines \in Nat /\ CYCLES_FULL_REFRESH \in Int
  BY GpuAssumption DEF CYCLES_SCANLINE, Lines, CYCLES_FULL_REFRESH

LEMMA GpuTypesDistinct ==
  ASSUME NEW g \in GpuEvents, NEW h \in GpuEvents, Gpu(g) = Gpu(h)
  PROVE  g = h
  BY DEF Gpu, GpuEvents

LEMMA DmaIsNotGpu ==
  ASSUME NEW i, NEW g \in GpuEvents
  PROVE  DmaActivateChannel(i) # Gpu(g)
  BY DEF DmaActivateChannel, Gpu, GpuEvents

\* A handled event of the display is the pending one, and its phase holds.
LEMMA HandledPhase ==
  ASSUME OneGpuEvent, NEW e \in events, NEW g \in GpuEvents, e.typ = Gpu(g)
  PROVE  GpuPending = {e} /\ Phase(g)
  <1>1. e \in GpuPending
    BY DEF GpuPending
  <1>2. PICK d \in events, h \in GpuEvents : GpuPending = {d} /\ d.typ = Gpu(h) /\ Phase(h)
    BY DEF OneGpuEvent
  <1>3. d = e
    BY <1>1, <1>2
  <1>4. g = h
    BY <1>2, <1>3, GpuTypesDistinct
  <1>5. QED
    BY <1>2, <1>3, <1>4

\* The event a handler schedules takes the handled one's place.
LEMMA ChainPending ==
  ASSUME NEW e, NEW g \in GpuEvents, NEW t,
         GpuPending = {e}, HandleEvent(e, {EventAt(Gpu(g), t)})
  PROVE  GpuPending' = {EventAt(Gpu(g), t)} /\ EventAt(Gpu(g), t) \in events'
  <1> DEFINE new == EventAt(Gpu(g), t)
  <1>1. events' = (events \ {e}) \cup {new}
    BY DEF HandleEvent
  <1>2. new.typ = Gpu(g)
    BY DEF EventAt
  <1>3. \A d \in events : (\E h \in GpuEvents : d.typ = Gpu(h)) => d = e
    BY DEF GpuPending
  <1>4. \A d \in events' : (\E h \in GpuEvents : d.typ = Gpu(h)) => d = new
    BY <1>1, <1>3
  <1>5. new \in GpuPending'
    BY <1>1, <1>2 DEF GpuPending
  <1>6. QED
    BY <1>1, <1>4, <1>5 DEF GpuPending

-----------------------------------------------------------------------------
LEMMA GInitInv == GInit => GInv
  <1> SUFFICES ASSUME GInit PROVE GInv
    OBVIOUS
  <1>1. GpuTypeOK
    <2>1. vcount \in 0..(Lines - 1)
      BY GpuAssumption DEF GInit, GpuInit, Lines
    <2>2. dispstat \in Dispstat
      BY DEF GInit, GpuInit, Dispstat
    <2>3. frame_buffer \in [0..(DISPLAY_HEIGHT - 1) -> Int]
      BY DEF GInit, GpuInit
    <2>4. vblank_flag \in BOOLEAN /\ hblank_flag \in BOOLEAN /\ vcount_flag \in BOOLEAN
      BY Zenon DEF GInit, GpuInit
    <2>5. ref_point \in Int /\ ref_internal \in Int /\ ref_delta \in Int
      BY DEF GInit, GpuInit
    <2>6. QED
      BY <2>1, <2>2, <2>3, <2>4, <2>5 DEF GpuTypeOK
  <1>2. events = {GpuFirstEvent} /\ GpuFirstEvent.typ = Gpu("HDraw")
        /\ GpuFirstEvent.time = CYCLES_HDRAW
    BY DEF GInit, SchedInit, GpuFirstEvent, EventAt
  <1>3. "HDraw" \in GpuEvents /\ Phase("HDraw")
    BY GpuAssumption DEF GpuEvents, Phase, GInit, GpuInit
  <1>4. GpuPending = {GpuFirstEvent}
    BY <1>2, <1>3 DEF GpuPending
  <1>5. OneGpuEvent
    BY <1>2, <1>3, <1>4 DEF OneGpuEvent
  <1>6. picture = 0 /\ vcount = 0 /\ hblank_flag = FALSE
    BY DEF GInit, GpuInit
  <1>7. 0 * CYCLES_FULL_REFRESH = 0 /\ 0 * CYCLES_SCANLINE = 0
    BY ScanlineType
  <1>8. DisplayClock
    BY <1>2, <1>4, <1>6, <1>7, GpuAssumption DEF DisplayClock
  <1>9. QED
    BY <1>1, <1>5, <1>6, <1>8 DEF GInv

\* Steps that leave the display and its pending event alone.
LEMMA QuietStep ==
  ASSUME GInv, GpuPending' = GpuPending,
         UNCHANGED <<vcount, vblank_flag, hblank_flag, picture>>, GpuTypeOK'
  PROVE  GInv'
  <1>1. PICK e \in events, g \in GpuEvents : GpuPending = {e} /\ e.typ = Gpu(g) /\ Phase(g)
    BY DEF GInv, OneGpuEvent
  <1>2. e \in events'
    BY <1>1 DEF GpuPending
  <1>3. Phase(g)'
    BY <1>1 DEF Phase
  <1>4. OneGpuEvent'
    BY <1>1, <1>2, <1>3 DEF OneGpuEvent
  <1>5. DisplayClock'
    BY DEF GInv, DisplayClock
  <1>6. QED
    BY <1>4, <1>5 DEF GInv

LEMMA SameEvents ==
  ASSUME events' = events
  PROVE  GpuPending' = GpuPending
  BY DEF GpuPending

\* The program's steps and the DMA.
LEMMA ProgramStep ==
  ASSUME GInv,
         \/ \E c \in 1..MaxStep : CpuIdle(c) \/ CpuAcknowledge(c) \/ Dma(c)
         \/ \E c \in 1..MaxStep, new \in DispstatWrites : CpuWriteDispstat(new, c)
         \/ \E c \in 1..MaxStep, x \in RefPoints : CpuWriteRefPoint(x, c)
         \/ \E c \in 1..MaxStep, d \in RefDeltas : CpuWriteRefDelta(d, c)
  PROVE  GInv'
  <1>1. events' = events /\ UNCHANGED <<vcount, vblank_flag, hblank_flag, picture>>
    BY DEF CpuIdle, CpuAcknowledge, Dma, PerformWork, CpuWriteDispstat, CpuWriteRefPoint,
           CpuWriteRefDelta, GpuWriteDispstat, GpuWriteRefPoint, GpuWriteRefDelta,
           gpuVars, historyVars
  <1>2. GpuTypeOK'
    BY GpuAssumption, DispstatAssumption
       DEF GInv, GpuTypeOK, CpuIdle, CpuAcknowledge, Dma, CpuWriteDispstat,
           CpuWriteRefPoint, CpuWriteRefDelta, GpuWriteDispstat, GpuWriteRefPoint,
           GpuWriteRefDelta, gpuVars, historyVars
  <1>3. QED
    BY <1>1, <1>2, SameEvents, QuietStep

LEMMA UnchangedType ==
  ASSUME GpuTypeOK, UNCHANGED gpuVars
  PROVE  GpuTypeOK'
  BY DEF GpuTypeOK, gpuVars

LEMMA DmaCtrlStep ==
  ASSUME GInv, NEW c, NEW i, NEW new, CpuWriteDmaCtrl(i, new, c)
  PROVE  GInv'
  <1> DEFINE act == EventAt(DmaActivateChannel(i), (timestamp + c) + 3)
  <1>1. events' = events \/ events' = events \cup {act}
    BY DEF CpuWriteDmaCtrl, DmaWriteCtrl
  <1>2. \A g \in GpuEvents : act.typ # Gpu(g)
    BY DmaIsNotGpu DEF EventAt
  <1>3. GpuPending' = GpuPending
    BY <1>1, <1>2 DEF GpuPending
  <1>4. UNCHANGED gpuVars /\ picture' = picture
    BY DEF CpuWriteDmaCtrl
  <1>5. GpuTypeOK'
    BY <1>4, UnchangedType DEF GInv
  <1>6. QED
    BY <1>3, <1>4, <1>5, QuietStep DEF gpuVars

LEMMA DmaEventStep ==
  ASSUME GInv, DmaEvent
  PROVE  GInv'
  <1>1. PICK e \in events, i \in Channels : HandleDmaActivate(e, i)
    BY DEF DmaEvent
  <1>2. events' = events \ {e} /\ e.typ = DmaActivateChannel(i)
    BY <1>1 DEF HandleDmaActivate, HandleEvent
  <1>3. GpuPending' = GpuPending
    BY <1>2, DmaIsNotGpu DEF GpuPending
  <1>4. UNCHANGED gpuVars /\ picture' = picture
    BY DEF DmaEvent, historyVars
  <1>5. GpuTypeOK'
    BY <1>4, UnchangedType DEF GInv
  <1>6. QED
    BY <1>3, <1>4, <1>5, QuietStep DEF gpuVars

-----------------------------------------------------------------------------
\* A handler moves the place on by the time it schedules its successor after.
LEMMA ChainStep ==
  ASSUME GInv, NEW e, GpuPending = {e}, NEW g \in GpuEvents, NEW when \in Int,
         Then(e, g, when), Phase(g)', GpuTypeOK', picture' \in Nat,
         (picture * CYCLES_FULL_REFRESH + Place(vcount, hblank_flag)) + when
           = picture' * CYCLES_FULL_REFRESH + Place(vcount', hblank_flag')
  PROVE  GInv'
  <1> DEFINE new == EventAt(Gpu(g), e.time + when)
  <1>1. GpuPending' = {new} /\ new \in events'
    BY ChainPending DEF Then
  <1>2. new.typ = Gpu(g) /\ new.time = e.time + when
    BY DEF EventAt
  <1>3. OneGpuEvent'
    BY <1>1, <1>2 DEF OneGpuEvent
  <1>4. e.time = picture * CYCLES_FULL_REFRESH + Place(vcount, hblank_flag)
    <2>1. e.time = picture * CYCLES_FULL_REFRESH + vcount * CYCLES_SCANLINE
                     + (IF hblank_flag THEN CYCLES_SCANLINE ELSE CYCLES_HDRAW)
      BY DEF GInv, DisplayClock
    <2>2. picture * CYCLES_FULL_REFRESH \in Int /\ vcount * CYCLES_SCANLINE \in Int
      BY ScanlineType DEF GInv, GpuTypeOK
    <2>3. QED
      BY <2>1, <2>2, ScanlineType, GpuAssumption DEF Place
  <1>5. new.time = picture' * CYCLES_FULL_REFRESH + Place(vcount', hblank_flag')
    BY <1>2, <1>4
  <1>6. DisplayClock'
    <2>1. picture' * CYCLES_FULL_REFRESH \in Int /\ vcount' * CYCLES_SCANLINE \in Int
      BY ScanlineType DEF GpuTypeOK
    <2>2. new.time = picture' * CYCLES_FULL_REFRESH + vcount' * CYCLES_SCANLINE
                     + (IF hblank_flag' THEN CYCLES_SCANLINE ELSE CYCLES_HDRAW)
      BY <1>5, <2>1, ScanlineType, GpuAssumption DEF Place
    <2>3. QED
      BY <1>1, <2>2 DEF DisplayClock
  <1>7. QED
    BY <1>3, <1>6 DEF GInv

\* Within a picture only the place moves.
LEMMA SamePictureStep ==
  ASSUME GInv, NEW e, GpuPending = {e}, NEW g \in GpuEvents, NEW when \in Int,
         Then(e, g, when), Phase(g)', GpuTypeOK', picture' = picture,
         Place(vcount, hblank_flag) + when = Place(vcount', hblank_flag')
  PROVE  GInv'
  <1> DEFINE P == Place(vcount, hblank_flag)
             M == picture * CYCLES_FULL_REFRESH
  <1>1. P \in Int /\ M \in Int
    BY ScanlineType, GpuAssumption DEF Place, GInv, GpuTypeOK
  <1> HIDE DEF P, M
  <1>2. (M + P) + when = M + (P + when)
    BY <1>1
  <1>3. (picture * CYCLES_FULL_REFRESH + Place(vcount, hblank_flag)) + when
          = picture' * CYCLES_FULL_REFRESH + Place(vcount', hblank_flag')
    BY <1>2 DEF P, M
  <1>4. picture' \in Nat
    BY DEF GInv
  <1>5. QED
    BY <1>3, <1>4, ChainStep

LEMMA HDrawEndStep ==
  ASSUME GInv, NEW e \in events, HandleHDrawEnd(e), picture' = picture
  PROVE  GInv'
  <1>1. GpuPending = {e} /\ Phase("HDraw")
    BY HandledPhase DEF GInv, HandleHDrawEnd, GpuEvents
  <1>2. vcount < DISPLAY_HEIGHT /\ ~vblank_flag /\ ~hblank_flag
    BY <1>1 DEF Phase
  <1>3. vcount' = vcount /\ vblank_flag' = vblank_flag /\ hblank_flag' = TRUE
    BY DEF HandleHDrawEnd
  <1>4. Phase("HBlank")'
    BY <1>2, <1>3 DEF Phase
  <1>5. GpuTypeOK'
    BY DEF GInv, GpuTypeOK, HandleHDrawEnd
  <1>6. Place(vcount, hblank_flag) + CYCLES_HBLANK = Place(vcount', hblank_flag')
    BY <1>2, <1>3, ScanlineType, GpuAssumption DEF Place, CYCLES_SCANLINE, GInv, GpuTypeOK
  <1>7. CYCLES_HBLANK \in Int /\ "HBlank" \in GpuEvents
    BY GpuAssumption DEF GpuEvents
  <1>8. Then(e, "HBlank", CYCLES_HBLANK)
    BY DEF HandleHDrawEnd
  <1>9. QED
    BY <1>1, <1>4, <1>5, <1>6, <1>7, <1>8, SamePictureStep

LEMMA VBlankHDrawEndStep ==
  ASSUME GInv, NEW e \in events, HandleVBlankHDrawEnd(e), picture' = picture
  PROVE  GInv'
  <1>1. GpuPending = {e} /\ Phase("VBlankHDraw")
    BY HandledPhase DEF GInv, HandleVBlankHDrawEnd, GpuEvents
  <1>2. vcount >= DISPLAY_HEIGHT /\ vblank_flag /\ ~hblank_flag
    BY <1>1 DEF Phase
  <1>3. vcount' = vcount /\ vblank_flag' = vblank_flag /\ hblank_flag' = TRUE
    BY DEF HandleVBlankHDrawEnd
  <1>4. Phase("VBlankHBlank")'
    BY <1>2, <1>3 DEF Phase
  <1>5. GpuTypeOK'
    BY DEF GInv, GpuTypeOK, HandleVBlankHDrawEnd
  <1>6. Place(vcount, hblank_flag) + CYCLES_HBLANK = Place(vcount', hblank_flag')
    BY <1>2, <1>3, ScanlineType, GpuAssumption DEF Place, CYCLES_SCANLINE, GInv, GpuTypeOK
  <1>7. CYCLES_HBLANK \in Int /\ "VBlankHBlank" \in GpuEvents
    BY GpuAssumption DEF GpuEvents
  <1>8. Then(e, "VBlankHBlank", CYCLES_HBLANK)
    BY DEF HandleVBlankHDrawEnd
  <1>9. QED
    BY <1>1, <1>4, <1>5, <1>6, <1>7, <1>8, SamePictureStep

\* The line after line v begins where line v ends.
LEMMA NextPlace ==
  ASSUME NEW v \in Nat
  PROVE  Place(v, TRUE) + CYCLES_HDRAW = Place(v + 1, FALSE)
  BY NextMultiple, ScanlineType, GpuAssumption DEF Place

LEMMA HBlankEndStep ==
  ASSUME GInv, NEW e \in events, HandleHBlankEnd(e), picture' = picture
  PROVE  GInv'
  <1>1. GpuPending = {e} /\ Phase("HBlank")
    BY HandledPhase DEF GInv, HandleHBlankEnd, GpuEvents
  <1>2. vcount < DISPLAY_HEIGHT /\ ~vblank_flag /\ hblank_flag /\ vcount \in Nat
    BY <1>1 DEF Phase, GInv, GpuTypeOK
  <1>3. vcount' = vcount + 1 /\ hblank_flag' = FALSE /\ vcount_flag' \in BOOLEAN
    BY DEF HandleHBlankEnd, UpdateVcount
  <1>4. vcount' \in 0..(Lines - 1)
    BY <1>2, <1>3, GpuAssumption DEF Lines
  <1>5. Place(vcount, hblank_flag) + CYCLES_HDRAW = Place(vcount', hblank_flag')
    BY <1>2, <1>3, NextPlace DEF Place
  <1>6. CYCLES_HDRAW \in Int /\ "HDraw" \in GpuEvents /\ "VBlankHDraw" \in GpuEvents
    BY GpuAssumption DEF GpuEvents
  <1>7. UNCHANGED <<dispstat, ref_point, ref_delta>>
    BY DEF HandleHBlankEnd
  <1>8. CASE InPicture(vcount + 1)
    <2>1. /\ RenderScanline(vcount + 1) /\ vblank_flag' = vblank_flag
          /\ ref_internal' = ref_internal + ref_delta /\ Then(e, "HDraw", CYCLES_HDRAW)
      BY <1>8 DEF HandleHBlankEnd
    <2>2. Phase("HDraw")'
      BY <1>2, <1>3, <1>8, <2>1 DEF Phase, InPicture
    <2>3. frame_buffer' \in [0..(DISPLAY_HEIGHT - 1) -> Int]
      BY <2>1 DEF GInv, GpuTypeOK, RenderScanline
    <2>4. ref_internal' \in Int
      BY <2>1 DEF GInv, GpuTypeOK
    <2>5. vblank_flag' \in BOOLEAN /\ hblank_flag' \in BOOLEAN
      BY <1>3, <2>1 DEF GInv, GpuTypeOK
    <2>6. GpuTypeOK'
      BY <1>3, <1>4, <1>7, <2>3, <2>4, <2>5 DEF GInv, GpuTypeOK
    <2>7. QED
      BY <1>1, <1>5, <1>6, <2>1, <2>2, <2>6, SamePictureStep
  <1>9. CASE ~InPicture(vcount + 1)
    <2>1. /\ vblank_flag' = TRUE /\ frame_buffer' = frame_buffer
          /\ ref_internal' = ref_point /\ Then(e, "VBlankHDraw", CYCLES_HDRAW)
      BY <1>9 DEF HandleHBlankEnd
    <2>2. Phase("VBlankHDraw")'
      BY <1>2, <1>3, <1>9, <2>1, GpuAssumption DEF Phase, InPicture
    <2>3. GpuTypeOK'
      BY <1>3, <1>4, <1>7, <2>1 DEF GInv, GpuTypeOK
    <2>4. QED
      BY <1>1, <1>5, <1>6, <2>1, <2>2, <2>3, SamePictureStep
  <1>10. QED
    BY <1>8, <1>9

\* The last line's end is the first line's beginning, one picture on.
LEMMA NextPicture ==
  ASSUME NEW n \in Nat
  PROVE  (n * CYCLES_FULL_REFRESH + Place(Lines - 1, TRUE)) + CYCLES_HDRAW
           = (n + 1) * CYCLES_FULL_REFRESH + Place(0, FALSE)
  <1> DEFINE M == n * CYCLES_FULL_REFRESH
             S == CYCLES_SCANLINE
  <1>1. Lines - 1 \in Int /\ (Lines - 1) + 1 = Lines
    BY ScanlineType
  <1>2. (Lines - 1) * S + S = CYCLES_FULL_REFRESH
    BY <1>1, NextMultiple, ScanlineType DEF CYCLES_FULL_REFRESH
  <1>3. (n + 1) * CYCLES_FULL_REFRESH = M + CYCLES_FULL_REFRESH
    BY NextMultiple, ScanlineType
  <1>4. Place(Lines - 1, TRUE) = CYCLES_FULL_REFRESH
    BY <1>2 DEF Place
  <1>5. Place(0, FALSE) = CYCLES_HDRAW
    BY ScanlineType, GpuAssumption DEF Place
  <1>6. M \in Int
    BY ScanlineType
  <1> HIDE DEF M
  <1>7. (M + CYCLES_FULL_REFRESH) + CYCLES_HDRAW = (M + CYCLES_FULL_REFRESH) + Place(0, FALSE)
    BY <1>5
  <1>8. QED
    BY <1>3, <1>4, <1>7 DEF M

LEMMA VBlankHBlankEndStep ==
  ASSUME GInv, NEW e \in events, HandleVBlankHBlankEnd(e),
         picture' = IF vcount' < vcount THEN picture + 1 ELSE picture
  PROVE  GInv'
  <1>1. GpuPending = {e} /\ Phase("VBlankHBlank")
    BY HandledPhase DEF GInv, HandleVBlankHBlankEnd, GpuEvents
  <1>2. vcount >= DISPLAY_HEIGHT /\ vblank_flag /\ hblank_flag /\ vcount \in 0..(Lines - 1)
    BY <1>1 DEF Phase, GInv, GpuTypeOK
  <1>3. hblank_flag' = FALSE /\ UNCHANGED <<dispstat, ref_point, ref_internal, ref_delta>>
    BY DEF HandleVBlankHBlankEnd
  <1>4. CYCLES_HDRAW \in Int /\ "HDraw" \in GpuEvents /\ "VBlankHDraw" \in GpuEvents
    BY GpuAssumption DEF GpuEvents
  <1>5. CASE ~LastLine(vcount)
    <2>1. /\ vcount' = vcount + 1 /\ vcount_flag' \in BOOLEAN
          /\ vblank_flag' = vblank_flag /\ frame_buffer' = frame_buffer
          /\ Then(e, "VBlankHDraw", CYCLES_HDRAW)
      BY <1>5 DEF HandleVBlankHBlankEnd, UpdateVcount
    <2>2. vcount' \in 0..(Lines - 1) /\ ~(vcount' < vcount)
      BY <1>2, <1>5, <2>1, ScanlineType DEF LastLine
    <2>3. Phase("VBlankHDraw")'
      BY <1>2, <1>3, <2>1, GpuAssumption DEF Phase
    <2>4. GpuTypeOK'
      BY <1>3, <2>1, <2>2 DEF GInv, GpuTypeOK
    <2>5. Place(vcount, hblank_flag) + CYCLES_HDRAW = Place(vcount', hblank_flag')
      BY <1>2, <1>3, <2>1, NextPlace DEF Place
    <2>6. picture' = picture
      BY <2>2
    <2>7. QED
      BY <1>1, <1>4, <2>1, <2>3, <2>4, <2>5, <2>6, SamePictureStep
  <1>6. CASE LastLine(vcount)
    <2>1. /\ vcount' = 0 /\ vcount_flag' \in BOOLEAN
          /\ vblank_flag' = FALSE /\ RenderScanline(0)
          /\ Then(e, "HDraw", CYCLES_HDRAW)
      BY <1>6 DEF HandleVBlankHBlankEnd, UpdateVcount
    <2>2. vcount = Lines - 1 /\ vcount > 0 /\ 0 \in 0..(Lines - 1)
      BY <1>2, <1>6, ScanlineType, GpuAssumption DEF LastLine
    <2>3. picture' = picture + 1 /\ picture \in Nat
      BY <2>1, <2>2 DEF GInv
    <2>4. Phase("HDraw")'
      BY <1>3, <2>1, GpuAssumption DEF Phase
    <2>5. GpuTypeOK'
      BY <1>3, <2>1, <2>2 DEF GInv, GpuTypeOK, RenderScanline
    <2>6. Place(vcount, hblank_flag) = Place(Lines - 1, TRUE)
          /\ Place(vcount', hblank_flag') = Place(0, FALSE)
      BY <1>2, <1>3, <2>1, <2>2 DEF Place
    <2>7. (picture * CYCLES_FULL_REFRESH + Place(vcount, hblank_flag)) + CYCLES_HDRAW
            = picture' * CYCLES_FULL_REFRESH + Place(vcount', hblank_flag')
      BY <2>3, <2>6, NextPicture
    <2>8. picture' \in Nat
      BY <2>3
    <2>9. QED
      BY <1>1, <1>4, <2>1, <2>4, <2>5, <2>7, <2>8, ChainStep
  <1>7. QED
    BY <1>5, <1>6

LEMMA GpuEventStep ==
  ASSUME GInv, GpuEvent
  PROVE  GInv'
  <1>1. PICK e \in events : HandleGpuEvent(e)
    BY DEF GpuEvent
  <1>2. picture' = IF vcount' < vcount THEN picture + 1 ELSE picture
    BY DEF GpuEvent
  <1>3. vcount \in Int
    BY DEF GInv, GpuTypeOK
  <1>4. CASE HandleHDrawEnd(e)
    <2>1. picture' = picture
      BY <1>2, <1>3, <1>4 DEF HandleHDrawEnd
    <2>2. QED
      BY <1>4, <2>1, HDrawEndStep
  <1>5. CASE HandleHBlankEnd(e)
    <2>1. picture' = picture
      BY <1>2, <1>3, <1>5 DEF HandleHBlankEnd, UpdateVcount
    <2>2. QED
      BY <1>5, <2>1, HBlankEndStep
  <1>6. CASE HandleVBlankHDrawEnd(e)
    <2>1. picture' = picture
      BY <1>2, <1>3, <1>6 DEF HandleVBlankHDrawEnd
    <2>2. QED
      BY <1>6, <2>1, VBlankHDrawEndStep
  <1>7. CASE HandleVBlankHBlankEnd(e)
    BY <1>2, <1>7, VBlankHBlankEndStep
  <1>8. QED
    BY <1>1, <1>4, <1>5, <1>6, <1>7 DEF HandleGpuEvent

LEMMA StutterStep ==
  ASSUME GInv, UNCHANGED gvars
  PROVE  GInv'
  <1>1. UNCHANGED gpuVars /\ picture' = picture /\ events' = events
    BY DEF gvars, historyVars, schedVars
  <1>2. GpuTypeOK'
    BY <1>1, UnchangedType DEF GInv
  <1>3. QED
    BY <1>1, <1>2, SameEvents, QuietStep DEF gpuVars

LEMMA GNextInv == GInv /\ [GNext]_gvars => GInv'
  <1> SUFFICES ASSUME GInv, [GNext]_gvars PROVE GInv'
    OBVIOUS
  <1>1. CASE UNCHANGED gvars
    BY <1>1, StutterStep
  <1>2. CASE GpuEvent
    BY <1>2, GpuEventStep
  <1>3. CASE DmaEvent
    BY <1>3, DmaEventStep
  <1>4. CASE \E c \in 1..MaxStep, i \in Channels, new \in DmaControls :
               CpuWriteDmaCtrl(i, new, c)
    BY <1>4, DmaCtrlStep
  <1>5. QED
    BY <1>1, <1>2, <1>3, <1>4, ProgramStep DEF GNext

\* The chain, its place and the types hold together, in every behaviour.
THEOREM GpuInvariant == GSpec => []GInv
  BY GInitInv, GNextInv, PTL DEF GSpec

\* Counters, flags and rows stay in their ranges (gpu/mod.rs, the line counter).
THEOREM GpuTypeCorrect == GSpec => []GpuTypeOK
  <1>1. GInv => GpuTypeOK
    BY DEF GInv
  <1>2. QED
    BY <1>1, GpuInvariant, PTL

\* One event of the display is pending, the one its flags and counter call for.
THEOREM GpuOneEvent == GSpec => []OneGpuEvent
  <1>1. GInv => OneGpuEvent
    BY DEF GInv
  <1>2. QED
    BY <1>1, GpuInvariant, PTL

\* The display keeps its clock to the cycle, for any latency of the event loop.
THEOREM GpuKeepsItsClock == GSpec => []DisplayClock
  <1>1. GInv => DisplayClock
    BY DEF GInv
  <1>2. QED
    BY <1>1, GpuInvariant, PTL

-----------------------------------------------------------------------------
\* Rows.  Between two latches with the reference registers left alone, the internal
\* reference point has moved on by one line's worth per line drawn; below the
\* picture it stands at the point the next picture begins with.
RowsInv ==
  ~moved =>
    /\ vcount >= DISPLAY_HEIGHT => ref_internal = ref_point
    /\ vcount < DISPLAY_HEIGHT => ref_internal = ref_point + vcount * ref_delta
    /\ RowsExact

LEMMA RowsInit == GInit => RowsInv
  <1> SUFFICES ASSUME GInit PROVE RowsInv
    OBVIOUS
  <1>1. /\ vcount = 0 /\ ref_internal = 0 /\ ref_point = 0 /\ ref_delta = 0
        /\ frame_buffer = [row \in 0..(DISPLAY_HEIGHT - 1) |-> 0]
    BY DEF GInit, GpuInit
  <1>2. 0 \in 0..(DISPLAY_HEIGHT - 1)
    BY GpuAssumption
  <1>3. \A row \in 0..vcount : row = 0 /\ frame_buffer[row] = 0
    BY <1>1, <1>2
  <1>4. RowsExact
    BY <1>1, <1>3 DEF RowsExact
  <1>5. QED
    BY <1>1, <1>4, GpuAssumption DEF RowsInv

LEMMA RowsQuiet ==
  ASSUME RowsInv, UNCHANGED <<moved, vcount, ref_point, ref_internal, ref_delta, frame_buffer>>
  PROVE  RowsInv'
  BY DEF RowsInv, RowsExact

LEMMA RowsMoved ==
  ASSUME moved' = TRUE
  PROVE  RowsInv'
  BY DEF RowsInv

LEMMA RowsHBlankEnd ==
  ASSUME GInv, RowsInv, NEW e \in events, HandleHBlankEnd(e),
         moved' = (moved /\ (vblank_flag \/ ~vblank_flag'))
  PROVE  RowsInv'
  <1>1. Phase("HBlank")
    BY HandledPhase DEF GInv, HandleHBlankEnd, GpuEvents
  <1>2. /\ vcount < DISPLAY_HEIGHT /\ ~vblank_flag /\ vcount \in Nat
        /\ ref_point \in Int /\ ref_internal \in Int /\ ref_delta \in Int
        /\ frame_buffer \in [0..(DISPLAY_HEIGHT - 1) -> Int]
    BY <1>1 DEF Phase, GInv, GpuTypeOK
  <1>3. vcount' = vcount + 1 /\ UNCHANGED <<ref_point, ref_delta>>
    BY DEF HandleHBlankEnd, UpdateVcount
  <1>4. CASE InPicture(vcount + 1)
    <2>1. /\ frame_buffer' = [frame_buffer EXCEPT ![vcount + 1] = ref_internal]
          /\ ref_internal' = ref_internal + ref_delta /\ vblank_flag' = vblank_flag
          /\ vcount + 1 < DISPLAY_HEIGHT
      BY <1>4 DEF HandleHBlankEnd, RenderScanline, InPicture
    <2>0. (moved' <=> moved) /\ ~(vcount' >= DISPLAY_HEIGHT)
      <3>1. ~vblank_flag'
        BY <1>2, <2>1
      <3>2. ~(vcount' >= DISPLAY_HEIGHT)
        BY <1>2, <1>3, <2>1, GpuAssumption
      <3>3. QED
        BY <3>1, <3>2
    <2>2. SUFFICES ASSUME ~moved
                   PROVE  /\ ref_internal' = ref_point' + vcount' * ref_delta'
                          /\ RowsExact'
      BY <2>0 DEF RowsInv
    <2>3. ref_internal = ref_point + vcount * ref_delta /\ RowsExact
      BY <1>2, <2>2 DEF RowsInv
    <2>4. (vcount + 1) * ref_delta = vcount * ref_delta + ref_delta
      BY <1>2, NextMultiple
    <2>5. ref_internal' = ref_point' + vcount' * ref_delta'
      <3> DEFINE v == vcount * ref_delta
      <3>1. v \in Int
        BY <1>2
      <3> HIDE DEF v
      <3>2. (ref_point + v) + ref_delta = ref_point + (v + ref_delta)
        BY <1>2, <3>1
      <3>3. QED
        BY <1>3, <2>1, <2>3, <2>4, <3>2 DEF v
    <2>6. ASSUME NEW row \in 0..(vcount + 1)
          PROVE  frame_buffer'[row]
                   = ref_point + (IF row = 0 THEN 0 ELSE row - 1) * ref_delta
      <3>1. CASE row = vcount + 1
        <4>1. frame_buffer'[row] = ref_internal
          BY <1>2, <2>1, <3>1, GpuAssumption
        <4>2. (IF row = 0 THEN 0 ELSE row - 1) = vcount
          BY <1>2, <3>1
        <4>3. QED
          BY <2>3, <4>1, <4>2
      <3>2. CASE row # vcount + 1
        <4>1. row \in 0..vcount
          BY <1>2, <3>2
        <4>2. frame_buffer'[row] = frame_buffer[row]
          BY <1>2, <2>1, <3>2, <4>1, GpuAssumption
        <4>3. QED
          BY <1>2, <2>2, <2>3, <4>1, <4>2 DEF RowsExact
      <3>3. QED
        BY <3>1, <3>2
    <2>7. QED
      BY <1>3, <2>5, <2>6 DEF RowsExact
  <1>5. CASE ~InPicture(vcount + 1)
    <2>1. ref_internal' = ref_point /\ vcount' >= DISPLAY_HEIGHT /\ ~(vcount' < DISPLAY_HEIGHT)
      BY <1>2, <1>3, <1>5, GpuAssumption DEF HandleHBlankEnd, InPicture
    <2>2. QED
      BY <1>3, <2>1 DEF RowsInv, RowsExact
  <1>6. QED
    BY <1>4, <1>5

LEMMA RowsVBlankHBlankEnd ==
  ASSUME GInv, RowsInv, NEW e \in events, HandleVBlankHBlankEnd(e),
         moved' = (moved /\ (vblank_flag \/ ~vblank_flag'))
  PROVE  RowsInv'
  <1>1. Phase("VBlankHBlank")
    BY HandledPhase DEF GInv, HandleVBlankHBlankEnd, GpuEvents
  <1>2. /\ vcount >= DISPLAY_HEIGHT /\ vblank_flag /\ vcount \in Nat
        /\ ref_point \in Int /\ ref_delta \in Int
        /\ frame_buffer \in [0..(DISPLAY_HEIGHT - 1) -> Int]
    BY <1>1 DEF Phase, GInv, GpuTypeOK
  <1>3. (moved' <=> moved) /\ UNCHANGED <<ref_point, ref_internal, ref_delta>>
    BY <1>2 DEF HandleVBlankHBlankEnd
  <1>4. CASE ~LastLine(vcount)
    <2>1. vcount' = vcount + 1
      BY <1>4 DEF HandleVBlankHBlankEnd, UpdateVcount
    <2>2. vcount' >= DISPLAY_HEIGHT /\ ~(vcount' < DISPLAY_HEIGHT)
      BY <1>2, <2>1, GpuAssumption
    <2>3. QED
      BY <1>2, <1>3, <2>2 DEF RowsInv, RowsExact
  <1>5. CASE LastLine(vcount)
    <2>1. vcount' = 0 /\ frame_buffer' = [frame_buffer EXCEPT ![0] = ref_internal]
      BY <1>5 DEF HandleVBlankHBlankEnd, UpdateVcount, RenderScanline
    <2>2. SUFFICES ASSUME ~moved
                   PROVE  /\ ref_internal' = ref_point' + vcount' * ref_delta'
                          /\ RowsExact'
      BY <1>3, <2>1, GpuAssumption DEF RowsInv
    <2>3. ref_internal = ref_point
      BY <1>2, <2>2 DEF RowsInv
    <2>4. 0 * ref_delta = 0 /\ 0 \in 0..(DISPLAY_HEIGHT - 1)
      BY <1>2, GpuAssumption
    <2>5. frame_buffer'[0] = ref_point /\ ref_point + 0 = ref_point
      BY <1>2, <2>1, <2>3, <2>4
    <2>6. \A row \in 0..vcount' : row = 0
      BY <2>1
    <2>7. QED
      BY <1>3, <2>1, <2>3, <2>4, <2>5, <2>6 DEF RowsExact
  <1>6. QED
    BY <1>4, <1>5

LEMMA RowsGpuEvent ==
  ASSUME GInv, RowsInv, GpuEvent
  PROVE  RowsInv'
  <1>1. PICK e \in events : HandleGpuEvent(e)
    BY DEF GpuEvent
  <1>2. moved' = (moved /\ (vblank_flag \/ ~vblank_flag'))
    BY DEF GpuEvent
  <1>3. CASE HandleHDrawEnd(e) \/ HandleVBlankHDrawEnd(e)
    <2>1. UNCHANGED <<vcount, vblank_flag, ref_point, ref_internal, ref_delta, frame_buffer>>
      BY <1>3 DEF HandleHDrawEnd, HandleVBlankHDrawEnd
    <2>2. moved' <=> moved
      BY <1>2, <2>1
    <2>3. QED
      BY <2>1, <2>2 DEF RowsInv, RowsExact
  <1>4. CASE HandleHBlankEnd(e)
    BY <1>2, <1>4, RowsHBlankEnd
  <1>5. CASE HandleVBlankHBlankEnd(e)
    BY <1>2, <1>5, RowsVBlankHBlankEnd
  <1>6. QED
    BY <1>1, <1>3, <1>4, <1>5 DEF HandleGpuEvent

LEMMA RowsNext == GInv /\ RowsInv /\ [GNext]_gvars => RowsInv'
  <1> SUFFICES ASSUME GInv, RowsInv, [GNext]_gvars PROVE RowsInv'
    OBVIOUS
  <1>1. CASE UNCHANGED <<moved, vcount, ref_point, ref_internal, ref_delta, frame_buffer>>
    BY <1>1, RowsQuiet
  <1>2. CASE moved' = TRUE
    BY <1>2, RowsMoved
  <1>3. CASE GpuEvent
    BY <1>3, RowsGpuEvent
  <1>4. QED
    BY <1>1, <1>2, <1>3
       DEF GNext, gvars, gpuVars, historyVars, CpuIdle, CpuAcknowledge, CpuWriteDispstat,
           GpuWriteDispstat, CpuWriteRefPoint, CpuWriteRefDelta, CpuWriteDmaCtrl, Dma, DmaEvent

\* Every row of an undisturbed picture is drawn with its own reference point, for
\* any geometry, however late the ends of its lines are handled.
THEOREM GpuRowsExact == GSpec => []RowsExact
  <1>1. RowsInv => RowsExact
    BY DEF RowsInv, RowsExact
  <1>2. QED
    BY <1>1, RowsInit, RowsNext, GpuInvariant, PTL DEF GSpec

-----------------------------------------------------------------------------
\* Blanks.  What an armed channel owes of its line has been transferred or is about
\* to be, and nothing else will come to request it.
Owed(i) ==
  IF \/ dma_ctrl[i].timing = TIMING_HBLANK /\ vcount < DISPLAY_HEIGHT /\ hblank_flag
     \/ dma_ctrl[i].timing = TIMING_VBLANK /\ vcount = DISPLAY_HEIGHT
  THEN 1 ELSE 0

ChannelOwes(i) ==
  /\ ~Activating(i)
  /\ dma_ctrl[i].enabled /\ dma_ctrl[i].repeat =>
       line_dma[i] = IF i \in pending_set THEN Owed(i) - 1 ELSE Owed(i)

BlanksInv == /\ DOMAIN dma_ctrl = Channels
             /\ armed \in [Channels -> BOOLEAN] /\ line_dma \in [Channels -> Nat]
             /\ \A i \in Channels : armed[i] => ChannelOwes(i)

LEMMA BlanksInit == GInit => BlanksInv
  BY DEF GInit, DmaInit, BlanksInv

LEMMA BlanksQuiet ==
  ASSUME BlanksInv, UNCHANGED <<dma_ctrl, armed, line_dma, events, pending_set, vcount, hblank_flag>>
  PROVE  BlanksInv'
  BY DEF BlanksInv, ChannelOwes, Owed, Activating

\* A write of a control register answers for its own channel only.
LEMMA BlanksCtrl ==
  ASSUME BlanksInv, NEW i \in Channels, NEW new, NEW c, CpuWriteDmaCtrl(i, new, c)
  PROVE  BlanksInv'
  <1> DEFINE act == EventAt(DmaActivateChannel(i), (timestamp + c) + 3)
  <1>1. /\ dma_ctrl' = [dma_ctrl EXCEPT ![i] = new]
        /\ armed' = [armed EXCEPT ![i] = FALSE]
        /\ UNCHANGED <<line_dma, vcount, hblank_flag>>
        /\ events' \subseteq events \cup {act}
        /\ pending_set' \in {pending_set, pending_set \ {i}}
    BY DEF CpuWriteDmaCtrl, DmaWriteCtrl, gpuVars
  <1>2. act.typ = DmaActivateChannel(i)
    BY DEF EventAt
  <1> HIDE DEF act
  <1>3. ASSUME NEW j \in Channels, armed'[j] PROVE ChannelOwes(j)'
    <2>1. j # i /\ armed[j]
      BY <1>1, <1>3 DEF BlanksInv
    <2>2. DmaActivateChannel(i) # DmaActivateChannel(j)
      BY <2>1 DEF DmaActivateChannel
    <2>3. ~Activating(j)'
      BY <1>1, <1>2, <2>1, <2>2 DEF BlanksInv, ChannelOwes, Activating
    <2>4. dma_ctrl'[j] = dma_ctrl[j] /\ (j \in pending_set' <=> j \in pending_set)
      BY <1>1, <2>1 DEF BlanksInv
    <2>5. QED
      BY <1>1, <2>1, <2>3, <2>4 DEF BlanksInv, ChannelOwes, Owed
  <1>4. QED
    BY <1>1, <1>3 DEF BlanksInv

\* A transfer pays what is owed.
LEMMA BlanksDma ==
  ASSUME BlanksInv, NEW c, Dma(c)
  PROVE  BlanksInv'
  <1>1. /\ dma_ctrl' = [i \in Channels |-> IF Finished(i) THEN Disabled(dma_ctrl[i])
                                           ELSE dma_ctrl[i]]
        /\ line_dma' = [i \in Channels |-> line_dma[i] + (IF i \in pending_set THEN 1 ELSE 0)]
        /\ pending_set' = {} /\ UNCHANGED <<events, armed, vcount, hblank_flag>>
    BY DEF Dma, PerformWork, gpuVars
  <1>2. ASSUME NEW i \in Channels, armed[i] PROVE ChannelOwes(i)'
    <2>1. ChannelOwes(i) /\ line_dma[i] \in Nat /\ Owed(i) \in Int
      BY <1>2 DEF BlanksInv, Owed
    <2>2. ~Activating(i)'
      BY <1>1, <2>1 DEF ChannelOwes, Activating
    <2>3. CASE Finished(i)
      <3>1. dma_ctrl'[i].enabled = FALSE
        BY <1>1, <2>3 DEF Disabled
      <3>2. QED
        BY <2>2, <3>1 DEF ChannelOwes
    <2>4. CASE ~Finished(i)
      <3>1. dma_ctrl'[i] = dma_ctrl[i] /\ i \notin pending_set'
        BY <1>1, <2>4
      <3>2. Owed(i)' = Owed(i)
        BY <1>1, <3>1 DEF Owed
      <3>3. line_dma'[i] = IF i \in pending_set THEN line_dma[i] + 1 ELSE line_dma[i]
        BY <1>1, <2>1
      <3>4. QED
        BY <2>1, <2>2, <3>1, <3>2, <3>3 DEF ChannelOwes
    <2>5. QED
      BY <2>3, <2>4
  <1>3. line_dma' \in [Channels -> Nat]
    BY <1>1 DEF BlanksInv
  <1>4. QED
    BY <1>1, <1>2, <1>3 DEF BlanksInv

\* An activation is none of an armed channel's.
LEMMA BlanksActivate ==
  ASSUME BlanksInv, DmaEvent
  PROVE  BlanksInv'
  <1>1. PICK e \in events, i \in Channels : HandleDmaActivate(e, i)
    BY DEF DmaEvent
  <1>2. /\ e.typ = DmaActivateChannel(i) /\ events' = events \ {e}
        /\ pending_set' = pending_set \cup {i}
        /\ UNCHANGED <<dma_ctrl, armed, line_dma, vcount, hblank_flag>>
    BY <1>1 DEF DmaEvent, HandleDmaActivate, HandleEvent, Request, dmaButPending, gpuVars,
                historyVars
  <1>3. ASSUME NEW j \in Channels, armed[j] PROVE ChannelOwes(j)'
    <2>1. ChannelOwes(j)
      BY <1>3 DEF BlanksInv
    <2>2. j # i
      BY <1>2, <2>1 DEF ChannelOwes, Activating
    <2>3. QED
      BY <1>2, <2>1, <2>2 DEF ChannelOwes, Owed, Activating
  <1>4. QED
    BY <1>2, <1>3 DEF BlanksInv

\* What an event of the display does to the events of the DMA.
LEMMA NoActivation ==
  ASSUME NEW e, NEW g \in GpuEvents, NEW t, HandleEvent(e, {EventAt(Gpu(g), t)}),
         NEW i, ~Activating(i)
  PROVE  ~Activating(i)'
  <1>1. events' = (events \ {e}) \cup {EventAt(Gpu(g), t)}
    BY DEF HandleEvent
  <1>2. EventAt(Gpu(g), t).typ # DmaActivateChannel(i)
    BY DmaIsNotGpu DEF EventAt
  <1>3. QED
    BY <1>1, <1>2 DEF Activating

\* Within a line: the blank of a visible one requests what it owes.
LEMMA BlanksSameLine ==
  ASSUME GInv, BlanksInv, NEW e \in events, HandleHDrawEnd(e) \/ HandleVBlankHDrawEnd(e),
         GpuEvent
  PROVE  BlanksInv'
  <1>0. vcount' = vcount /\ dma_ctrl' = dma_ctrl
    BY DEF HandleHDrawEnd, HandleVBlankHDrawEnd, dmaButPending, dmaVars
  <1>1. armed' = armed /\ line_dma' = line_dma
    <2>1. armed' = [i \in Channels |-> armed[i]] /\ line_dma' = [i \in Channels |-> line_dma[i]]
      BY <1>0 DEF GpuEvent, NewLine
    <2>2. QED
      BY <2>1 DEF BlanksInv
  <1>2. ASSUME NEW i \in Channels, ~Activating(i) PROVE ~Activating(i)'
    <2>1. \E g \in GpuEvents, t \in {e.time + CYCLES_HBLANK} : HandleEvent(e, {EventAt(Gpu(g), t)})
      BY DEF HandleHDrawEnd, HandleVBlankHDrawEnd, Then, GpuEvents
    <2>2. QED
      BY <1>2, <2>1, NoActivation
  <1>3. CASE HandleHDrawEnd(e)
    <2>1. vcount < DISPLAY_HEIGHT /\ ~hblank_flag /\ vcount # DISPLAY_HEIGHT
      <3>1. Phase("HDraw") /\ vcount \in Int
        BY <1>3, HandledPhase DEF GInv, GpuTypeOK, HandleHDrawEnd, GpuEvents
      <3>2. QED
        BY <3>1, GpuAssumption DEF Phase
    <2>2. hblank_flag' = TRUE /\ pending_set' = pending_set \cup RequestedByGpu(TIMING_HBLANK)
      BY <1>3 DEF HandleHDrawEnd, Request
    <2>3. ASSUME NEW i \in Channels, armed[i] PROVE ChannelOwes(i)'
      <3>1. ChannelOwes(i) /\ ~Activating(i)'
        BY <1>2, <2>3 DEF BlanksInv, ChannelOwes
      <3>2. CASE dma_ctrl[i].enabled /\ dma_ctrl[i].timing = TIMING_HBLANK
        <4>1. i \in pending_set' /\ Owed(i) = 0 /\ Owed(i)' = 1
          BY <1>0, <2>1, <2>2, <3>2 DEF RequestedByGpu, Owed, TIMING_HBLANK, TIMING_VBLANK
        <4>2. dma_ctrl[i].repeat => line_dma[i] = 0
          <5>1. line_dma[i] \in Nat
            BY DEF BlanksInv
          <5>2. QED
            BY <3>1, <3>2, <4>1, <5>1 DEF ChannelOwes
        <4>3. QED
          BY <1>0, <1>1, <3>1, <4>1, <4>2 DEF ChannelOwes
      <3>3. CASE ~(dma_ctrl[i].enabled /\ dma_ctrl[i].timing = TIMING_HBLANK)
        <4>1. i \in pending_set' <=> i \in pending_set
          BY <2>2, <3>3 DEF RequestedByGpu
        <4>2. dma_ctrl[i].enabled => Owed(i)' = Owed(i)
          BY <1>0, <2>1, <3>3 DEF Owed
        <4>3. QED
          BY <1>0, <1>1, <3>1, <4>1, <4>2 DEF ChannelOwes
      <3>4. QED
        BY <3>2, <3>3
    <2>4. QED
      BY <1>0, <1>1, <2>3 DEF BlanksInv
  <1>4. CASE HandleVBlankHDrawEnd(e)
    <2>1. vcount >= DISPLAY_HEIGHT /\ ~(vcount < DISPLAY_HEIGHT)
      <3>1. Phase("VBlankHDraw") /\ vcount \in Int
        BY <1>4, HandledPhase DEF GInv, GpuTypeOK, HandleVBlankHDrawEnd, GpuEvents
      <3>2. QED
        BY <3>1, GpuAssumption DEF Phase
    <2>2. pending_set' = pending_set
      BY <1>4 DEF HandleVBlankHDrawEnd, dmaVars
    <2>3. \A i \in Channels : Owed(i)' = Owed(i)
      BY <1>0, <2>1 DEF Owed
    <2>4. QED
      BY <1>0, <1>1, <1>2, <2>2, <2>3 DEF BlanksInv, ChannelOwes
  <1>5. QED
    BY <1>3, <1>4

\* A new line starts with nothing owed but the transfers of the vertical blank,
\* which its end has requested.
LEMMA BlanksNewLine ==
  ASSUME GInv, BlanksInv, NEW e \in events, HandleHBlankEnd(e) \/ HandleVBlankHBlankEnd(e),
         GpuEvent
  PROVE  BlanksInv'
  <1>0. dma_ctrl' = dma_ctrl /\ hblank_flag' = FALSE
    BY DEF HandleHBlankEnd, HandleVBlankHBlankEnd, dmaButPending, dmaVars
  <1>1. /\ vcount' # vcount
        /\ vcount' = DISPLAY_HEIGHT
             => pending_set' = pending_set \cup RequestedByGpu(TIMING_VBLANK)
        /\ vcount' # DISPLAY_HEIGHT => pending_set' = pending_set
    <2>1. vcount \in 0..(Lines - 1) /\ Lines >= 2 /\ Lines \in Nat
      BY ScanlineType, GpuAssumption DEF GInv, GpuTypeOK, Lines
    <2>2. CASE HandleHBlankEnd(e)
      <3>1. Phase("HBlank")
        BY <2>2, HandledPhase DEF GInv, HandleHBlankEnd, GpuEvents
      <3>2. vcount' = vcount + 1 /\ vcount < DISPLAY_HEIGHT
        BY <2>2, <3>1 DEF HandleHBlankEnd, UpdateVcount, Phase
      <3>3. InPicture(vcount + 1) <=> vcount' # DISPLAY_HEIGHT
        BY <2>1, <3>2, GpuAssumption DEF InPicture
      <3>4. InPicture(vcount + 1) => pending_set' = pending_set
        BY <2>2 DEF HandleHBlankEnd, dmaVars
      <3>5. ~InPicture(vcount + 1)
              => pending_set' = pending_set \cup RequestedByGpu(TIMING_VBLANK)
        BY <2>2 DEF HandleHBlankEnd, Request
      <3>6. QED
        BY <2>1, <3>2, <3>3, <3>4, <3>5
    <2>3. CASE HandleVBlankHBlankEnd(e)
      <3>1. Phase("VBlankHBlank")
        BY <2>3, HandledPhase DEF GInv, HandleVBlankHBlankEnd, GpuEvents
      <3>2. vcount >= DISPLAY_HEIGHT /\ pending_set' = pending_set
        BY <2>3, <3>1 DEF HandleVBlankHBlankEnd, Phase, dmaVars
      <3>3. \/ vcount' = vcount + 1
            \/ vcount' = 0
        BY <2>3 DEF HandleVBlankHBlankEnd, UpdateVcount
      <3>4. QED
        BY <2>1, <3>2, <3>3, GpuAssumption
    <2>4. QED
      BY <2>2, <2>3
  <1>2. /\ armed' = [i \in Channels |-> i \notin pending_set /\ ~Activating(i)]
        /\ line_dma' = [i \in Channels |-> 0]
    BY <1>1 DEF GpuEvent, NewLine
  <1>3. ASSUME NEW i \in Channels, ~Activating(i) PROVE ~Activating(i)'
    <2>1. \E g \in GpuEvents, t \in {e.time + CYCLES_HDRAW} : HandleEvent(e, {EventAt(Gpu(g), t)})
      BY DEF HandleHBlankEnd, HandleVBlankHBlankEnd, Then, GpuEvents
    <2>2. QED
      BY <1>3, <2>1, NoActivation
  <1>4. ASSUME NEW i \in Channels, armed'[i] PROVE ChannelOwes(i)'
    <2>1. i \notin pending_set /\ ~Activating(i)' /\ line_dma'[i] = 0
      BY <1>2, <1>3, <1>4
    <2>2. ASSUME dma_ctrl[i].enabled
          PROVE  IF i \in pending_set' THEN Owed(i)' = 1 ELSE Owed(i)' = 0
      <3>1. CASE vcount' = DISPLAY_HEIGHT /\ dma_ctrl[i].timing = TIMING_VBLANK
        BY <1>0, <1>1, <2>2, <3>1 DEF Owed, RequestedByGpu
      <3>2. CASE ~(vcount' = DISPLAY_HEIGHT /\ dma_ctrl[i].timing = TIMING_VBLANK)
        <4>1. i \notin pending_set'
          BY <1>1, <2>1, <3>2 DEF RequestedByGpu
        <4>2. Owed(i)' = 0
          BY <1>0, <3>2 DEF Owed
        <4>3. QED
          BY <4>1, <4>2
      <3>3. QED
        BY <3>1, <3>2
    <2>3. QED
      BY <1>0, <2>1, <2>2 DEF ChannelOwes
  <1>5. QED
    BY <1>0, <1>2, <1>4 DEF BlanksInv

LEMMA BlanksNext == GInv /\ BlanksInv /\ [GNext]_gvars => BlanksInv'
  <1> SUFFICES ASSUME GInv, BlanksInv, [GNext]_gvars PROVE BlanksInv'
    OBVIOUS
  <1>1. CASE UNCHANGED <<dma_ctrl, armed, line_dma, events, pending_set, vcount, hblank_flag>>
    BY <1>1, BlanksQuiet
  <1>2. CASE \E c \in 1..MaxStep, i \in Channels, new \in DmaControls :
               CpuWriteDmaCtrl(i, new, c)
    BY <1>2, BlanksCtrl
  <1>3. CASE \E c \in 1..MaxStep : Dma(c)
    BY <1>3, BlanksDma
  <1>4. CASE GpuEvent
    BY <1>4, BlanksSameLine, BlanksNewLine DEF GpuEvent, HandleGpuEvent
  <1>5. CASE DmaEvent
    BY <1>5, BlanksActivate
  <1>6. QED
    BY <1>1, <1>2, <1>3, <1>4, <1>5
       DEF GNext, gvars, schedVars, dmaVars, gpuVars, historyVars, CpuIdle, CpuAcknowledge,
           CpuWriteDispstat, GpuWriteDispstat, CpuWriteRefPoint, GpuWriteRefPoint,
           CpuWriteRefDelta, GpuWriteRefDelta

\* A channel that repeats at a blank transfers once at each of them and never else,
\* for any number of channels and lines and any program.
THEOREM GpuBlankTransfers == GSpec => []BlankTransfers
  <1>1. BlanksInv => BlankTransfers
    BY DEF BlanksInv, BlankTransfers, ChannelOwes, Owed
  <1>2. QED
    BY <1>1, BlanksInit, BlanksNext, GpuInvariant, PTL DEF GSpec

-----------------------------------------------------------------------------
LineEnd == (picture * CYCLES_FULL_REFRESH + vcount * CYCLES_SCANLINE) + CYCLES_SCANLINE

\* After a step shorter than a blank an event is handled within a blank of its time,
\* and what is pending of an armed channel was requested in its line.
ServedInv == /\ timestamp \in Nat /\ armed \in [Channels -> BOOLEAN]
             /\ overran \in BOOLEAN
             /\ \A e \in events : e.time \in Nat
                                 /\ (~overran => timestamp < e.time + CYCLES_HBLANK)
             /\ ~overran => \A i \in Channels : armed[i] /\ i \in pending_set =>
                                                timestamp < LineEnd

LEMMA ServedInit == GInit => ServedInv
  <1> SUFFICES ASSUME GInit PROVE ServedInv
    OBVIOUS
  <1>1. timestamp = 0 /\ events = {GpuFirstEvent} /\ GpuFirstEvent.time = CYCLES_HDRAW
    BY DEF GInit, SchedInit, GpuFirstEvent, EventAt
  <1>2. armed = [i \in Channels |-> FALSE] /\ overran = FALSE
    BY DEF GInit
  <1>3. /\ CYCLES_HDRAW \in Nat /\ CYCLES_HBLANK \in Nat \ {0} /\ timestamp \in Nat
        /\ timestamp < CYCLES_HDRAW + CYCLES_HBLANK
    BY <1>1, GpuAssumption
  <1>4. armed \in [Channels -> BOOLEAN] /\ \A i \in Channels : ~armed[i]
    BY <1>2
  <1>5. QED
    BY <1>1, <1>2, <1>3, <1>4 DEF ServedInv

\* A step of the CPU or the DMA, which leaves nothing pending behind.
LEMMA ServedElapse ==
  ASSUME ServedInv, NEW c, Elapse(c), Lasts(c), armed' \in [Channels -> BOOLEAN],
         \A i \in Channels : armed'[i] => i \notin pending_set',
         \A e \in events' : e \in events \/ (e.time \in Nat /\ timestamp' <= e.time)
  PROVE  ServedInv'
  <1>1. /\ timestamp' = timestamp + c /\ c \in Nat /\ c <= MaxStep /\ timestamp \in Nat
        /\ \A e \in events : timestamp <= e.time /\ e.time \in Nat
        /\ CYCLES_HBLANK \in Nat \ {0} /\ overran' = (c >= CYCLES_HBLANK)
    BY SchedulerAssumption, GpuAssumption DEF Elapse, MayStep, ServedInv, Lasts
  <1>2. timestamp' \in Nat /\ overran' \in BOOLEAN
    BY <1>1
  <1>3. ASSUME NEW e \in events'
        PROVE  e.time \in Nat /\ (~overran' => timestamp' < e.time + CYCLES_HBLANK)
    <2>1. CASE e \in events
      <3>1. CASE c >= CYCLES_HBLANK
        BY <1>1, <2>1, <3>1
      <3>2. CASE ~(c >= CYCLES_HBLANK)
        <4>1. timestamp <= e.time /\ e.time \in Nat
          BY <1>1, <2>1
        <4>2. timestamp + c < e.time + CYCLES_HBLANK
          BY <1>1, <3>2, <4>1
        <4>3. QED
          BY <1>1, <4>1, <4>2
      <3>3. QED
        BY <3>1, <3>2
    <2>2. CASE e.time \in Nat /\ timestamp' <= e.time
      BY <1>1, <1>2, <2>2
    <2>3. QED
      BY <2>1, <2>2
  <1>4. QED
    BY <1>2, <1>3 DEF ServedInv

LEMMA ServedCpu ==
  ASSUME ServedInv,
         \/ \E c \in 1..MaxStep : CpuIdle(c) \/ CpuAcknowledge(c) \/ Dma(c)
         \/ \E c \in 1..MaxStep, new \in DispstatWrites : CpuWriteDispstat(new, c)
         \/ \E c \in 1..MaxStep, x \in RefPoints : CpuWriteRefPoint(x, c)
         \/ \E c \in 1..MaxStep, d \in RefDeltas : CpuWriteRefDelta(d, c)
  PROVE  ServedInv'
  <1>1. events' = events /\ pending_set' = {} /\ armed' = armed
        /\ \E c : Elapse(c) /\ Lasts(c)
    BY DEF CpuIdle, CpuAcknowledge, Dma, PerformWork, CpuWriteDispstat, CpuWriteRefPoint,
           CpuWriteRefDelta, CpuStep, dmaVars, historyVars
  <1>2. armed' \in [Channels -> BOOLEAN]
    BY <1>1 DEF ServedInv
  <1>3. QED
    BY <1>1, <1>2, ServedElapse

LEMMA ServedCtrl ==
  ASSUME ServedInv, NEW c \in 1..MaxStep, NEW i \in Channels, NEW new, CpuWriteDmaCtrl(i, new, c)
  PROVE  ServedInv'
  <1> DEFINE act == EventAt(DmaActivateChannel(i), (timestamp + c) + 3)
  <1>1. /\ pending_set = {} /\ pending_set' \subseteq pending_set /\ Elapse(c) /\ Lasts(c)
        /\ events' \subseteq events \cup {act} /\ armed' = [armed EXCEPT ![i] = FALSE]
    BY DEF CpuWriteDmaCtrl, CpuStep, DmaWriteCtrl
  <1>2. act.time \in Nat /\ timestamp' <= act.time
    <2>1. act.time = (timestamp + c) + 3 /\ timestamp' = timestamp + c
      BY <1>1 DEF EventAt, Elapse
    <2>2. timestamp \in Nat /\ c \in Nat
      BY SchedulerAssumption DEF ServedInv
    <2>3. QED
      BY <2>1, <2>2
  <1> HIDE DEF act
  <1>3. armed' \in [Channels -> BOOLEAN]
    BY <1>1 DEF ServedInv
  <1>4. QED
    BY <1>1, <1>2, <1>3, ServedElapse

LEMMA ServedActivate ==
  ASSUME BlanksInv, ServedInv, DmaEvent
  PROVE  ServedInv'
  <1>1. PICK e \in events, i \in Channels : HandleDmaActivate(e, i)
    BY DEF DmaEvent
  <1>2. /\ e.typ = DmaActivateChannel(i) /\ events' = events \ {e}
        /\ pending_set' = pending_set \cup {i}
        /\ UNCHANGED <<armed, timestamp, vcount, picture, overran>>
    BY <1>1 DEF DmaEvent, HandleDmaActivate, HandleEvent, Request, gpuVars, historyVars
  <1>3. ~armed[i]
    BY <1>2 DEF BlanksInv, ChannelOwes, Activating
  <1>4. QED
    BY <1>2, <1>3 DEF ServedInv, LineEnd

\* An event of the display: the next one follows it, and the requests it makes
\* come at the beginning of a blank or of a line.
LEMMA ServedGpuEvent ==
  ASSUME GInv, GInv', ServedInv, GpuEvent
  PROVE  /\ ServedInv'
         /\ \A i \in Channels : armed[i] /\ NewLine /\ ~overran => armed'[i] \/ Activating(i)
  <1>1. PICK e \in events : HandleGpuEvent(e)
    BY DEF GpuEvent
  <1> DEFINE S == CYCLES_SCANLINE
             P == picture * CYCLES_FULL_REFRESH
             V == vcount * S
  <1>2. /\ CYCLES_HDRAW \in Nat /\ CYCLES_HBLANK \in Nat
        /\ overran \in BOOLEAN /\ overran' = overran
        /\ CYCLES_HDRAW >= 1 /\ S = CYCLES_HDRAW + CYCLES_HBLANK /\ S \in Nat
        /\ P \in Int /\ V \in Int /\ timestamp \in Nat /\ vcount \in Nat
    BY ScanlineType, GpuAssumption
       DEF GInv, GpuTypeOK, ServedInv, CYCLES_SCANLINE, GpuEvent
  <1>3. \E g \in GpuEvents, when \in {CYCLES_HDRAW, CYCLES_HBLANK} : Then(e, g, when)
    BY <1>1 DEF HandleGpuEvent, HandleHDrawEnd, HandleHBlankEnd, HandleVBlankHDrawEnd,
                HandleVBlankHBlankEnd, GpuEvents
  <1>4. /\ e.time \in Nat /\ e.time <= timestamp
        /\ ~overran => timestamp < e.time + CYCLES_HBLANK
    BY <1>2, <1>3 DEF ServedInv, Then, HandleEvent, PendingEvents
  <1>5. timestamp' = timestamp
        /\ \A d \in events' : d.time \in Nat
                              /\ (~overran => timestamp < d.time + CYCLES_HBLANK)
    <2>1. PICK g \in GpuEvents, when \in {CYCLES_HDRAW, CYCLES_HBLANK} :
                 HandleEvent(e, {EventAt(Gpu(g), e.time + when)})
      BY <1>3 DEF Then
    <2>2. /\ events' = (events \ {e}) \cup {EventAt(Gpu(g), e.time + when)}
          /\ timestamp' = timestamp
          /\ EventAt(Gpu(g), e.time + when).time = e.time + when
      BY <2>1 DEF HandleEvent, EventAt
    <2>3. /\ e.time + when \in Nat
          /\ ~overran => timestamp < (e.time + when) + CYCLES_HBLANK
      BY <1>2, <1>4
    <2>4. QED
      BY <2>2, <2>3 DEF ServedInv
  <1>6. armed' = [i \in Channels |-> IF NewLine THEN i \notin pending_set /\ ~Activating(i)
                                     ELSE armed[i]]
    BY DEF GpuEvent
  <1>7. e \in GpuPending
    BY <1>1 DEF GpuPending, HandleGpuEvent, HandleHDrawEnd, HandleHBlankEnd,
                HandleVBlankHDrawEnd, HandleVBlankHBlankEnd, GpuEvents
  <1>8. e.time = P + V + (IF hblank_flag THEN S ELSE CYCLES_HDRAW)
    BY <1>7 DEF GInv, DisplayClock
  <1>9. LineEnd = P + V + S
    BY DEF LineEnd
  <1> HIDE DEF P, V, S
  <1>10. CASE HandleHDrawEnd(e) \/ HandleVBlankHDrawEnd(e)
    <2>1. vcount' = vcount /\ ~NewLine
      BY <1>10 DEF HandleHDrawEnd, HandleVBlankHDrawEnd, NewLine
    <2>2. \A i \in Channels : armed'[i] <=> armed[i]
      BY <1>6, <2>1
    <2>3. ~hblank_flag
      BY <1>10, HandledPhase DEF GInv, HandleHDrawEnd, HandleVBlankHDrawEnd, GpuEvents, Phase
    <2>4. e.time = P + V + CYCLES_HDRAW
      BY <1>8, <2>3
    <2>5. ~overran => timestamp < LineEnd
      BY <1>2, <1>4, <1>9, <2>4
    <2>6. picture' = picture
      BY <1>2, <2>1 DEF GpuEvent
    <2>7. LineEnd' = LineEnd
      BY <2>1, <2>6 DEF LineEnd
    <2>8. armed' \in [Channels -> BOOLEAN]
      BY <1>6 DEF ServedInv
    <2>9. QED
      BY <1>2, <1>5, <2>1, <2>5, <2>7, <2>8 DEF ServedInv
  <1>11. CASE HandleHBlankEnd(e) \/ HandleVBlankHBlankEnd(e)
    <2>1. hblank_flag' = FALSE /\ \E g \in GpuEvents : Then(e, g, CYCLES_HDRAW)
      BY <1>11 DEF HandleHBlankEnd, HandleVBlankHBlankEnd, GpuEvents
    <2>2. hblank_flag
      BY <1>11, HandledPhase DEF GInv, HandleHBlankEnd, HandleVBlankHBlankEnd, GpuEvents, Phase
    <2>3. e.time = LineEnd
      BY <1>8, <1>9, <2>2
    <2>4. LineEnd' = e.time + S
      <3> DEFINE Q == picture' * CYCLES_FULL_REFRESH
                 W == vcount' * S
      <3>1. Q \in Int /\ W \in Int
        BY <1>2, ScanlineType DEF GInv, GpuTypeOK
      <3>2. PICK d \in events' : d \in GpuPending' /\ d.time = e.time + CYCLES_HDRAW
        <4>1. PICK g \in GpuEvents : HandleEvent(e, {EventAt(Gpu(g), e.time + CYCLES_HDRAW)})
          BY <2>1 DEF Then
        <4>2. GpuPending = {e}
          BY <1>7 DEF GInv, OneGpuEvent
        <4> DEFINE d == EventAt(Gpu(g), e.time + CYCLES_HDRAW)
        <4>3. GpuPending' = {d} /\ d \in events'
          BY <4>1, <4>2, ChainPending
        <4>4. d.time = e.time + CYCLES_HDRAW
          BY DEF EventAt
        <4>5. d \in GpuPending'
          BY <4>3
        <4> HIDE DEF d
        <4>6. QED
          BY <4>3, <4>4, <4>5
      <3>3. d.time = Q + W + CYCLES_HDRAW
        BY <2>1, <3>2 DEF GInv, DisplayClock, S
      <3>4. LineEnd' = Q + W + S
        BY DEF LineEnd, S
      <3> HIDE DEF Q, W
      <3>5. QED
        BY <1>2, <1>4, <3>1, <3>2, <3>3, <3>4
    <2>5. ~overran => timestamp < LineEnd'
      BY <1>2, <1>4, <2>4
    <2>6. ~overran => \A i \in Channels : armed[i] => i \notin pending_set
      BY <1>4, <1>2, <2>3 DEF ServedInv
    <2>7. armed' \in [Channels -> BOOLEAN]
      BY <1>6 DEF ServedInv
    <2>8. QED
      BY <1>2, <1>5, <1>6, <2>5, <2>6, <2>7 DEF ServedInv
  <1>12. QED
    BY <1>1, <1>10, <1>11 DEF HandleGpuEvent

LEMMA ServedNext ==
  GInv /\ GInv' /\ BlanksInv /\ ServedInv /\ [GNext]_gvars =>
    ServedInv' /\ \A i \in Channels : armed[i] /\ NewLine /\ ~overran => armed'[i]
  <1> SUFFICES ASSUME GInv, GInv', BlanksInv, ServedInv, [GNext]_gvars
               PROVE  /\ ServedInv'
                      /\ \A i \in Channels : armed[i] /\ NewLine /\ ~overran => armed'[i]
    OBVIOUS
  <1>1. CASE GpuEvent
    <2>1. \A i \in Channels : armed[i] => ~Activating(i)
      BY DEF BlanksInv, ChannelOwes
    <2>2. QED
      BY <1>1, <2>1, ServedGpuEvent
  <1>2. CASE DmaEvent
    BY <1>2, ServedActivate DEF DmaEvent, gpuVars, NewLine
  <1>3. CASE \E c \in 1..MaxStep, i \in Channels, new \in DmaControls : CpuWriteDmaCtrl(i, new, c)
    BY <1>3, ServedCtrl DEF CpuWriteDmaCtrl, gpuVars, NewLine
  <1>4. CASE \/ \E c \in 1..MaxStep : CpuIdle(c) \/ CpuAcknowledge(c) \/ Dma(c)
             \/ \E c \in 1..MaxStep, new \in DispstatWrites : CpuWriteDispstat(new, c)
             \/ \E c \in 1..MaxStep, x \in RefPoints : CpuWriteRefPoint(x, c)
             \/ \E c \in 1..MaxStep, d \in RefDeltas : CpuWriteRefDelta(d, c)
    <2>1. vcount' = vcount
      BY <1>4 DEF CpuIdle, CpuAcknowledge, Dma, CpuWriteDispstat, CpuWriteRefPoint,
                  CpuWriteRefDelta, GpuWriteDispstat, GpuWriteRefPoint, GpuWriteRefDelta, gpuVars
    <2>2. QED
      BY <1>4, <2>1, ServedCpu DEF NewLine
  <1>5. CASE UNCHANGED gvars
    <2>1. UNCHANGED <<timestamp, armed, events, pending_set, picture, vcount, overran>>
      BY <1>5 DEF gvars, schedVars, dmaVars, gpuVars, historyVars
    <2>2. QED
      BY <2>1 DEF ServedInv, LineEnd, NewLine
  <1>6. QED
    BY <1>1, <1>2, <1>3, <1>4, <1>5 DEF GNext

\* A channel that is armed is served within its line, in every line whose last step
\* was shorter than a blank, until the program rewrites its control.  Nothing is
\* assumed of the steps before, which may last for whole lines.
THEOREM GpuServedInLine == GSpec => ServedInLine
  <1>1. GInv /\ GInv' /\ BlanksInv /\ ServedInv /\ [GNext]_gvars => ServedInv'
    BY ServedNext
  <1>2. GInv /\ GInv' /\ BlanksInv /\ ServedInv /\ [GNext]_gvars
          => [\A i \in Channels : armed[i] /\ NewLine /\ ~overran => armed'[i]]_gvars
    BY ServedNext
  <1>3. GSpec => []BlanksInv
    BY BlanksInit, BlanksNext, GpuInvariant, PTL DEF GSpec
  <1>4. GSpec => []ServedInv
    BY <1>1, <1>3, ServedInit, GpuInvariant, PTL DEF GSpec
  <1>5. QED
    BY <1>2, <1>3, <1>4, GpuInvariant, PTL DEF GSpec, ServedInLine
=============================================================================
