------------------------------- MODULE Picture -------------------------------
(***************************************************************************)
(* What one line of the picture is composed of, from the display registers *)
(* g, the video memory, the palette and the objects: a background draws    *)
(* into a line of colours, the objects into a line of entries.  A colour   *)
(* is the 16-bit number the code holds; 2^15 alone is transparent.         *)
(***************************************************************************)
EXTENDS Words, SequencesExt

CONSTANTS DISPLAY_WIDTH, DISPLAY_HEIGHT,
          Vram(_),      \* the byte at an address of the video memory
          Palette(_)    \* the half-word at an address of the palette memory

Columns == 0..(DISPLAY_WIDTH - 1)
VramHalf(a) == Vram(a) + 2^8 * Vram(a + 1)

\* rgb15.rs.
TRANSPARENT == 2^15
WHITE == 2^15 - 1
BLACK == 0
Channels(c) == [k \in 0..2 |-> Field(c, 5 * k, 5)]
from_rgb(ch) == ch[0] + 2^5 * ch[1] + 2^10 * ch[2]
to_rgb24(c) == LET ch == Channels(c) IN 2^19 * ch[0] + 2^11 * ch[1] + 2^3 * ch[2]

\* Layers are numbered as in the flags of windows and blending: backgrounds
\* 0-3, then the objects; flag 5 is the backdrop of a blend, the effects of a window.
OBJ == 4
BACKDROP == 5
SFX == 5
Flags(v) == {b \in 0..5 : Bit(v, b)}

\* regs.rs: what the registers' half-words say.
DisplayControl(v) ==
  [mode |-> Field(v, 0, 3), frame |-> Field(v, 4, 1), one_dimension |-> Bit(v, 6),
   force_blank |-> Bit(v, 7), enable_bg |-> {bg \in 0..3 : Bit(v, 8 + bg)},
   enable_obj |-> Bit(v, 12), enable_window0 |-> Bit(v, 13), enable_window1 |-> Bit(v, 14),
   enable_obj_window |-> Bit(v, 15)]
is_using_windows(d) == d.enable_window0 \/ d.enable_window1 \/ d.enable_obj_window
BgControl(v) ==
  [priority |-> Field(v, 0, 2), char_block |-> Field(v, 2, 2) * 16384,
   screen_block |-> Field(v, 8, 5) * 2048, palette256 |-> Bit(v, 7), wraparound |-> Bit(v, 13),
   size |-> Field(v, 14, 2)]
size_regular(c) == <<IF c.size % 2 = 1 THEN 512 ELSE 256, IF c.size >= 2 THEN 512 ELSE 256>>
tile_size(is8bpp) == IF is8bpp THEN 64 ELSE 32
BlendControl(v) == [target1 |-> Flags(v), target2 |-> Flags(v \div 2^8), mode |-> Field(v, 6, 2)]
\* Of the mode, which write_dispcnt keeps up to date.
vram_obj_tiles_start(d) == IF d.mode >= 3 THEN 81920 ELSE 65536

read_pixel_index(addr, x, y, is8bpp) ==
  IF is8bpp THEN Vram(addr + 8 * y + x)
  ELSE Field(Vram(addr + 4 * y + (x \div 2)), 4 * (x % 2), 4)
get_palette_color(index, bank, offset) ==
  IF index = 0 \/ (bank # 0 /\ index % 16 = 0) THEN TRANSPARENT
  ELSE Palette(offset + 2 * index + 32 * bank) % 2^15

-----------------------------------------------------------------------------
\* Text backgrounds.  The line is walked from its first map entry, pixel by
\* pixel, entry by entry and then to the other block of a wide map.
TilePixel(c, entry, px, py) ==
  get_palette_color(
    read_pixel_index(c.char_block + Field(entry, 0, 10) * tile_size(c.palette256),
                     IF Bit(entry, 10) THEN 7 - px ELSE px,
                     IF Bit(entry, 11) THEN 7 - py ELSE py, c.palette256),
    IF c.palette256 THEN 0 ELSE Field(entry, 12, 4), 0)

\* Mutant of NextCell: the walk comes back to the block it left.
NextCellSameBlock(cell, width) ==
  IF cell.px < 7 THEN [cell EXCEPT !.px = @ + 1]
  ELSE [cell EXCEPT !.px = 0, !.row = (@ + 1) % 32]
NextCell(cell, width) ==
  IF cell.px < 7 THEN [cell EXCEPT !.px = @ + 1]
  ELSE IF cell.row < 31 THEN [cell EXCEPT !.px = 0, !.row = @ + 1]
  ELSE [px |-> 0, row |-> 0,
        sbb |-> IF width # 512 THEN cell.sbb
                ELSE IF cell.sbb % 2 = 0 THEN cell.sbb + 1 ELSE cell.sbb - 1]

render_reg_bg(g, bg) ==
  LET c == g.bgcnt[bg]
      width == size_regular(c)[1]
      bg_x == g.bg_hofs[bg] % width
      bg_y == (g.vcount + g.bg_vofs[bg]) % size_regular(c)[2]
      sbb == CASE c.size = 0 -> 0 [] c.size = 1 -> bg_x \div 256 [] c.size = 2 -> bg_y \div 256
               [] c.size = 3 -> 2 * (bg_y \div 256) + (bg_x \div 256)
      cells[x \in Columns] ==
        IF x = 0 THEN [sbb |-> sbb, row |-> (bg_x \div 8) % 32, px |-> bg_x % 8]
        ELSE NextCell(cells[x - 1], width)
      entry(cell) == VramHalf(c.screen_block + 2048 * cell.sbb
                              + 2 * (32 * ((bg_y \div 8) % 32) + cell.row))
  IN  [x \in Columns |-> TilePixel(c, entry(cells[x]), cells[x].px, bg_y % 8)]

-----------------------------------------------------------------------------
\* Affine backgrounds and bitmaps: the point of a w by h texture under x.
transform_bg_point(ref, x, pa, pc) == <<(ref[1] + x * pa) \div 2^8, (ref[2] + x * pc) \div 2^8>>
contains_point(p, w, h) == p[1] \in 0..(w - 1) /\ p[2] \in 0..(h - 1)
Textured(g, bg, w, h, Color(_, _)) ==
  LET a == g.bg_aff[bg]
      point(x) == transform_bg_point(a.internal, x, a.pa, a.pc)
  IN  [x \in Columns |->
         IF contains_point(point(x), w, h) THEN Color(point(x)[1], point(x)[2])
         ELSE IF g.bgcnt[bg].wraparound THEN Color(point(x)[1] % w, point(x)[2] % h)
         ELSE TRANSPARENT]

render_aff_bg(g, bg) ==
  LET c == g.bgcnt[bg]
      size == 128 * 2^c.size
      tile(x, y) == Vram(c.screen_block + (size \div 8) * (y \div 8) + (x \div 8))
      color(x, y) == get_palette_color(
                       read_pixel_index(c.char_block + tile(x, y) * 64, x % 8, y % 8, TRUE), 0, 0)
  IN  Textured(g, bg, size, size, color)

PageOffset(g) == g.dispcnt.frame * 40960
\* A bitmap's half-word is a colour as it is: transparent if it is 2^15.
render_mode3(g) ==
  LET color(x, y) == VramHalf(2 * (DISPLAY_WIDTH * y + x))
  IN  Textured(g, 2, DISPLAY_WIDTH, DISPLAY_HEIGHT, color)
render_mode4(g) ==
  LET color(x, y) == get_palette_color(Vram(PageOffset(g) + DISPLAY_WIDTH * y + x), 0, 0)
  IN  Textured(g, 2, DISPLAY_WIDTH, DISPLAY_HEIGHT, color)
render_mode5(g) ==
  LET color(x, y) == VramHalf(PageOffset(g) + 2 * (160 * y + x))
  IN  Textured(g, 2, 160, 128, color)

-----------------------------------------------------------------------------
\* Objects.  The attributes are three half-words of the object memory.
ObjAttrs(oam) ==
  [y |-> Field(oam[1], 0, 8), objtype |-> Field(oam[1], 8, 2), objmode |-> Field(oam[1], 10, 2),
   is_8bpp |-> Bit(oam[1], 13), shape |-> Field(oam[1], 14, 2),
   x |-> Field(oam[2], 0, 9), h_flip |-> Bit(oam[2], 12), v_flip |-> Bit(oam[2], 13),
   affine_index |-> Field(oam[2], 9, 5), size |-> Field(oam[2], 14, 2),
   tile |-> Field(oam[3], 0, 10), priority |-> Field(oam[3], 10, 2), palette |-> Field(oam[3], 12, 4)]
\* ObjType and ObjMode.
NormalObj == 0
HiddenObj == 2
AffineDoubleSizeObj == 3
SfxMode == 1
WindowMode == 2
ForbiddenMode == 3

obj_size(o) ==
  LET sizes == [square |-> <<<<8, 8>>, <<16, 16>>, <<32, 32>>, <<64, 64>>>>,
                wide |-> <<<<16, 8>>, <<32, 8>>, <<32, 16>>, <<64, 32>>>>]
      wide == sizes.wide[o.size + 1]
  IN  CASE o.shape = 0 -> sizes.square[o.size + 1] [] o.shape = 1 -> wide
        [] o.shape = 2 -> <<wide[2], wide[1]>> [] o.shape = 3 -> <<8, 8>>
obj_coords(o) == <<IF o.x >= DISPLAY_WIDTH THEN o.x - 2^9 ELSE o.x,
                   IF o.y >= DISPLAY_HEIGHT THEN o.y - 2^8 ELSE o.y>>
BoundingBox(o) == IF o.objtype = AffineDoubleSizeObj THEN <<2 * obj_size(o)[1], 2 * obj_size(o)[2]>>
                  ELSE obj_size(o)
\* The point of the object's texture that a pixel of its box shows.
TexturePoint(g, o, dx, dy) ==
  LET size == obj_size(o)
      m == g.matrices[o.affine_index]
      ix == dx - BoundingBox(o)[1] \div 2
      iy == dy - BoundingBox(o)[2] \div 2
  IN  IF o.objtype = NormalObj
      THEN <<IF o.h_flip THEN size[1] - dx - 1 ELSE dx, IF o.v_flip THEN size[2] - dy - 1 ELSE dy>>
      ELSE <<((m.pa * ix + m.pb * iy) \div 2^8) + size[1] \div 2,
             ((m.pc * ix + m.pd * iy) \div 2^8) + size[2] \div 2>>
TexelColor(g, o, t) ==
  LET tile_base == 65536 + 32 * o.tile
      tile_array_width == IF g.dispcnt.one_dimension THEN obj_size(o)[1] \div 8
                          ELSE IF o.is_8bpp THEN 16 ELSE 32
      tile_addr == tile_base + (tile_array_width * (t[2] \div 8) + (t[1] \div 8)) * tile_size(o.is_8bpp)
  IN  IF tile_base < vram_obj_tiles_start(g.dispcnt) THEN TRANSPARENT
      ELSE get_palette_color(read_pixel_index(tile_addr, t[1] % 8, t[2] % 8, o.is_8bpp),
                             IF o.is_8bpp THEN 0 ELSE o.palette, 512)
\* The colour the object has at column x, transparent outside it.
ObjColor(g, o, x) ==
  LET dx == x - obj_coords(o)[1]
      dy == g.vcount - obj_coords(o)[2]
      t == TexturePoint(g, o, dx, dy)
  IN  IF /\ o.objtype # HiddenObj /\ o.objmode # ForbiddenMode
         /\ contains_point(<<dx, dy>>, BoundingBox(o)[1], BoundingBox(o)[2])
         /\ contains_point(t, obj_size(o)[1], obj_size(o)[2])
      THEN TexelColor(g, o, t) ELSE TRANSPARENT

ObjBufferEntry == [window |-> FALSE, alpha |-> FALSE, color |-> TRANSPARENT, priority |-> 4]
write_obj_pixel(entry, color, o) ==
  IF o.objmode = WindowMode THEN [entry EXCEPT !.window = TRUE]
  ELSE [entry EXCEPT !.color = color, !.priority = o.priority, !.alpha = o.objmode = SfxMode]
DrawObj(g, o, x, entry) ==
  LET color == ObjColor(g, o, x)
  IN  IF (entry.priority <= o.priority /\ o.objmode # WindowMode) \/ color = TRANSPARENT
      THEN entry ELSE write_obj_pixel(entry, color, o)
render_objs(g) ==
  [x \in Columns |-> FoldLeft(LAMBDA entry, oam : DrawObj(g, ObjAttrs(oam), x, entry),
                              ObjBufferEntry, g.oam)]

-----------------------------------------------------------------------------
(***************************************************************************)
(* One line of the picture: Gpu::render_scanline draws the layers of the   *)
(* mode and finalize_scanline composes them, column by column, under the   *)
(* windows and with the blending effects (gpu/sfx.rs).                     *)
(***************************************************************************)

\* window.rs.
Right(w) == IF w.right > DISPLAY_WIDTH \/ w.right < w.left THEN DISPLAY_WIDTH ELSE w.right
Bottom(w) == IF w.bottom > DISPLAY_HEIGHT \/ w.bottom < w.top THEN DISPLAY_HEIGHT ELSE w.bottom
contains_y(w, y) == y >= w.top /\ y < Bottom(w)
contains_x(w, x) == x >= w.left /\ x < Right(w)

Layer(kind, priority, pixel) == [kind |-> kind, priority |-> priority, pixel |-> pixel]
BackdropLayer == Layer(BACKDROP, 4, Palette(0))

blend_with(c, other, my_weight, other_weight) ==
  from_rgb([k \in 0..2 |->
    LET sum == (Channels(c)[k] * my_weight + Channels(other)[k] * other_weight) \div 2^4
    IN  IF sum > 31 THEN 31 ELSE sum])
do_alpha(g, upper, lower) == blend_with(upper, lower, g.eva, g.evb)
do_brighten(g, c) == blend_with(c, WHITE, 16 - g.bldy, g.bldy)
do_darken(g, c) == blend_with(c, BLACK, 16 - g.bldy, g.bldy)

\* The two layers that show: the first two opaque backgrounds, then the object
\* goes before, between or after them.
TopAndBottom(g, lines, entry, x, flags, backgrounds) ==
  LET opaque == SelectSeq(backgrounds, LAMBDA bg : lines[bg][x] # TRANSPARENT)
      nth(n) == IF Len(opaque) < n THEN BackdropLayer
                ELSE Layer(opaque[n], g.bgcnt[opaque[n]].priority, lines[opaque[n]][x])
      object == Layer(OBJ, entry.priority, entry.color)
  IN  IF OBJ \in flags /\ g.dispcnt.enable_obj /\ entry.color # TRANSPARENT
      THEN IF object.priority <= nth(1).priority THEN <<object, nth(1)>>
           ELSE IF object.priority <= nth(2).priority THEN <<nth(1), object>>
           ELSE <<nth(1), nth(2)>>
      ELSE <<nth(1), nth(2)>>
Blended(g, entry, flags, top, bottom) ==
  LET second == bottom.kind \in g.bldcnt.target2
      effect == SFX \in flags /\ top.kind \in g.bldcnt.target1
  IN  IF top.kind = OBJ /\ entry.alpha /\ second THEN do_alpha(g, top.pixel, bottom.pixel)
      ELSE CASE effect /\ g.bldcnt.mode = 1 /\ second -> do_alpha(g, top.pixel, bottom.pixel)
             [] effect /\ g.bldcnt.mode = 2 -> do_brighten(g, top.pixel)
             [] effect /\ g.bldcnt.mode = 3 -> do_darken(g, top.pixel)
             [] OTHER -> top.pixel
\* Mutant of finalize_pixel: an object of a background's priority goes behind it.
PixelObjectBehind(g, lines, entry, x, flags, backgrounds) ==
  LET two == TopAndBottom(g, lines, [entry EXCEPT !.priority = @ + 1], x, flags, backgrounds)
  IN  Blended(g, entry, flags, two[1], two[2])
finalize_pixel(g, lines, entry, x, flags, backgrounds) ==
  LET two == TopAndBottom(g, lines, entry, x, flags, backgrounds)
  IN  Blended(g, entry, flags, two[1], two[2])

\* The window a column belongs to: the first of window 0, window 1, which the
\* code draws over window 0's columns, the objects' window and the outside.
WindowFlags(g, entry, x) ==
  LET d == g.dispcnt
      columns == contains_x(g.win0, x)
  IN  CASE ~is_using_windows(d) -> 0..5
        [] is_using_windows(d) ->
             IF d.enable_window0 /\ contains_y(g.win0, g.vcount) /\ columns THEN g.win0.flags
             ELSE IF d.enable_window1 /\ contains_y(g.win1, g.vcount) /\ columns THEN g.win1.flags
             ELSE IF d.enable_obj_window /\ entry.window THEN g.winobj_flags
             ELSE g.winout_flags

finalize_scanline(g, lines, entries, bgs) ==
  LET before(a, b) == \/ g.bgcnt[a].priority < g.bgcnt[b].priority
                      \/ g.bgcnt[a].priority = g.bgcnt[b].priority /\ a < b
      sorted == SetToSortSeq(bgs \cap g.dispcnt.enable_bg, before)
      flags(x) == WindowFlags(g, entries[x], x)
      seen(x) == SelectSeq(sorted, LAMBDA bg : bg \in flags(x))
  IN  [x \in Columns |->
         to_rgb24(finalize_pixel(g, lines, entries[x], x, flags(x), seen(x)))]

\* The backgrounds of each mode, the affine ones among them.
ModeBackgrounds(mode) ==
  CASE mode = 0 -> 0..3 [] mode = 1 -> 0..2 [] mode = 2 -> 2..3 [] mode \in 3..5 -> {2}
AffineBackgrounds(mode) == CASE mode = 1 -> {2} [] mode = 2 -> {2, 3} [] OTHER -> {}
render_bg(g, bg) ==
  CASE g.dispcnt.mode = 3 -> render_mode3(g)
    [] g.dispcnt.mode = 4 -> render_mode4(g)
    [] g.dispcnt.mode = 5 -> render_mode5(g)
    [] OTHER -> IF bg \in AffineBackgrounds(g.dispcnt.mode) THEN render_aff_bg(g, bg)
                ELSE render_reg_bg(g, bg)
render_scanline(g) ==
  LET bgs == ModeBackgrounds(g.dispcnt.mode)
      lines == [bg \in bgs \cap g.dispcnt.enable_bg |-> render_bg(g, bg)]
      entries == IF g.dispcnt.enable_obj THEN render_objs(g)
                 ELSE [x \in Columns |-> ObjBufferEntry]
  IN  IF g.dispcnt.force_blank THEN [x \in Columns |-> 16316664]   \* 0xf8f8f8
      ELSE finalize_scanline(g, lines, entries, bgs)

-----------------------------------------------------------------------------
(***************************************************************************)
(* What a column of the picture should show, said for one column and one   *)
(* layer at a time: a text background's pixel is found from its place on   *)
(* the map and not by walking there, the object is the best of those that  *)
(* have a colour there and not the survivor of drawing them in turn, and   *)
(* the two layers that show are the first two of all layers in one order.  *)
(***************************************************************************)

\* The map is a torus of one, two or four blocks of 32 by 32 cells.
TextPixel(g, bg, x) ==
  LET c == g.bgcnt[bg]
      size == size_regular(c)
      mx == (x + g.bg_hofs[bg]) % size[1]
      my == (g.vcount + g.bg_vofs[bg]) % size[2]
      block == (mx \div 256) + (size[1] \div 256) * (my \div 256)
      cell == 32 * ((my % 256) \div 8) + ((mx % 256) \div 8)
  IN  TilePixel(c, VramHalf(c.screen_block + 2048 * block + 2 * cell), mx % 8, my % 8)
BgPixel(g, bg, x) ==
  IF g.dispcnt.mode < 2 /\ bg \notin AffineBackgrounds(g.dispcnt.mode) THEN TextPixel(g, bg, x)
  ELSE render_bg(g, bg)[x]

\* The objects with a colour at x, and which is shown: of the lowest priority, the first.
ObjectsAt(g, x) ==
  LET at(n) == LET o == ObjAttrs(g.oam[n]) IN [n |-> n, o |-> o, color |-> ObjColor(g, o, x)]
  IN  {p \in {at(n) : n \in DOMAIN g.oam} : p.color # TRANSPARENT}
InFront(p, q) ==
  p.o.priority < q.o.priority \/ (p.o.priority = q.o.priority /\ p.n <= q.n)
Winners(objects) ==
  LET shown == {p \in objects : p.o.objmode # WindowMode}
  IN  {p \in shown : \A q \in shown : InFront(p, q)}

\* A window covers its own columns and lines; the first one wins.
Covers(w, x, y) == contains_x(w, x) /\ contains_y(w, y)
Allowed(g, x, objects) ==
  LET d == g.dispcnt IN
  CASE ~is_using_windows(d) -> 0..5
    [] d.enable_window0 /\ Covers(g.win0, x, g.vcount) -> g.win0.flags
    [] OTHER -> IF d.enable_window1 /\ Covers(g.win1, x, g.vcount) THEN g.win1.flags
                ELSE IF /\ d.enable_obj_window /\ d.enable_obj
                        /\ \E p \in objects : p.o.objmode = WindowMode
                THEN g.winobj_flags ELSE g.winout_flags

\* All layers at x; an object is in front of the backgrounds of its priority.
Layers(g, x, allowed, winners) ==
  LET bgs == ModeBackgrounds(g.dispcnt.mode) \cap g.dispcnt.enable_bg \cap allowed
      objects == IF g.dispcnt.enable_obj /\ OBJ \in allowed THEN winners ELSE {}
  IN  {l \in {Layer(bg, g.bgcnt[bg].priority, BgPixel(g, bg, x)) : bg \in bgs} :
         l.pixel # TRANSPARENT}
      \cup {Layer(OBJ, p.o.priority, p.color) : p \in objects} \cup {BackdropLayer}
Rank(l) == 10 * l.priority + (IF l.kind = OBJ THEN 0 ELSE l.kind + 1)
Nearest(layers) == CHOOSE l \in layers : \A k \in layers : Rank(l) <= Rank(k)
TwoNearest(layers) ==
  LET behind == layers \ {Nearest(layers)}
  IN  <<Nearest(layers), IF behind = {} THEN BackdropLayer ELSE Nearest(behind)>>

ColorShown(g, allowed, winners, two) ==
  LET mode == IF SFX \in allowed /\ two[1].kind \in g.bldcnt.target1 THEN g.bldcnt.mode ELSE 0
      seeThrough == two[1].kind = OBJ /\ \E p \in winners : p.o.objmode = SfxMode
  IN  IF two[2].kind \in g.bldcnt.target2 /\ (seeThrough \/ mode = 1)
      THEN do_alpha(g, two[1].pixel, two[2].pixel)
      ELSE CASE mode = 2 -> do_brighten(g, two[1].pixel)
             [] mode = 3 -> do_darken(g, two[1].pixel)
             [] OTHER -> two[1].pixel
PixelShown(g, x) ==
  LET objects == ObjectsAt(g, x)
      allowed == Allowed(g, x, objects)
      winners == Winners(objects)
  IN  to_rgb24(ColorShown(g, allowed, winners, TwoNearest(Layers(g, x, allowed, winners))))
LineShown(g) ==
  [x \in Columns |-> IF g.dispcnt.force_blank THEN to_rgb24(WHITE) ELSE PixelShown(g, x)]
=============================================================================
