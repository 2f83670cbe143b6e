----------------------------- MODULE MCFunctions ------------------------------
(***************************************************************************)
(* A display of 24 columns and its 160 lines; the maps and tiles have      *)
(* their sizes.  The memories hold numbers without a pattern, two thirds   *)
(* of them with a colour.                                                  *)
(***************************************************************************)
EXTENDS PureFunctions, TLC

Mixed(a) == ((a % 997) * 31 + (a \div 997) * 167 + (a % 13) * 59 + 7) % 256
MCVram(a) == IF Mixed(a) % 3 = 0 THEN 0 ELSE Mixed(a)
MCPalette(a) == Mixed(a) * 128 + (Mixed(a + 101) % 128)

DispCnt(mode, bits) == DisplayControl(mode + bits)
NoWindow == [left |-> 0, right |-> 0, top |-> 0, bottom |-> 0, flags |-> {}]
Reference(pa, pc, x, y) == [pa |-> pa, pc |-> pc, internal |-> <<x, y>>]
Matrix(pa, pb, pc, pd) == [pa |-> pa, pb |-> pb, pc |-> pc, pd |-> pd]
Blank ==
  [vcount |-> 0, dispcnt |-> DispCnt(0, 0), bgcnt |-> [bg \in 0..3 |-> BgControl(0)],
   bg_hofs |-> [bg \in 0..3 |-> 0], bg_vofs |-> [bg \in 0..3 |-> 0],
   bg_aff |-> [bg \in 2..3 |-> Reference(256, 0, 0, 0)],
   win0 |-> NoWindow, win1 |-> NoWindow, winout_flags |-> {}, winobj_flags |-> {},
   bldcnt |-> BlendControl(0), eva |-> 0, evb |-> 0, bldy |-> 0,
   oam |-> <<>>, matrices |-> <<>>]

\* Bits of DISPCNT.
EnableBg(bg) == 2^(8 + bg)
EnableObj == 2^12
OneDimension == 2^6
ForceBlank == 2^7

MCTextScenes ==
  {[Blank EXCEPT !.vcount = y, !.dispcnt = DispCnt(0, EnableBg(bg)),
                 !.bgcnt[bg] = BgControl(2^14 * size + 2^8 * 8 + 2^7 * depth + 4),
                 !.bg_hofs[bg] = h, !.bg_vofs[bg] = v] :
     y \in {0, 9}, bg \in {0, 3}, size \in 0..3, depth \in 0..1,
     h \in {0, 5, 250, 511}, v \in {0, 250, 300}}
\* Straight, mirrored, shrunk and turned, from inside and outside the texture.
MCAffineScenes ==
  {[Blank EXCEPT !.dispcnt = DispCnt(mode, EnableBg(2) + EnableBg(3)),
                 !.bgcnt[2] = BgControl(2^14 * size + 2^13 * wrap + 2^8 * 9 + 8),
                 !.bgcnt[3] = BgControl(2^13 * wrap + 1),
                 !.bg_aff = [bg \in 2..3 |-> r]] :
     mode \in 1..5, size \in {0, 3}, wrap \in 0..1,
     r \in {Reference(256, 0, 0, 4096), Reference(-256, 0, 2048, 0),
            Reference(3000, 700, -5000, -900), Reference(64, -300, 32700, 1200)}}

Obj(y, type, mode, deep, shape, x, flips, size, tile, priority) ==
  <<(y % 256) + 2^8 * type + 2^10 * mode + 2^13 * deep + 2^14 * shape,
    (x % 512) + 2^12 * flips + 2^14 * size, tile + 2^10 * priority + 2^12 * 5>>
MCObjects ==
  {Obj(0, 0, 0, 0, 0, 3, 1, 0, 513, 1), Obj(-3, 0, 1, 1, 1, -4, 2, 1, 700, 0),
   Obj(-9, 1, 0, 0, 2, 10, 0, 0, 40, 1), Obj(-10, 3, 0, 0, 0, -9, 0, 1, 600, 2),
   Obj(-2, 0, 2, 0, 0, 6, 0, 0, 530, 3), Obj(0, 2, 0, 0, 0, 0, 0, 3, 520, 0),
   Obj(-1, 0, 3, 0, 3, 1, 3, 2, 520, 0)}
MCObjectScenes ==
  {[Blank EXCEPT !.dispcnt = DispCnt(mode, EnableObj + mapping), !.bldcnt = BlendControl(2^13),
                 !.eva = 16, !.evb = 5, !.oam = oam,
                 !.matrices = [k \in {0} |-> Matrix(200, -90, 90, 270)]] :
     mode \in {0, 3}, mapping \in {0, OneDimension}, oam \in UNION {[1..n -> MCObjects] : n \in 1..3}}

\* Two backgrounds and two objects, one that sees through and one that makes a
\* window, under each effect, window and order of priorities.
MCMixed ==
  [Blank EXCEPT !.vcount = 2, !.bgcnt[1] = BgControl(2^8 * 9 + 4),
                !.oam = <<Obj(0, 0, 1, 0, 1, 2, 0, 0, 513, 1), Obj(0, 0, 2, 0, 0, 8, 0, 1, 530, 0)>>,
                !.winobj_flags = {0, OBJ}, !.bldy = 9]
MCWindows(flags) ==
  {[left |-> 4, right |-> 9, top |-> 0, bottom |-> 8, flags |-> flags],
   [left |-> 20, right |-> 3, top |-> 2, bottom |-> 0, flags |-> flags],
   [left |-> 0, right |-> 240, top |-> 3, bottom |-> 200, flags |-> flags]}
MCMixedScenes ==
  {[MCMixed EXCEPT !.dispcnt = DispCnt(0, EnableBg(0) + EnableBg(1) + EnableObj + 2^13 * windows),
                   !.bgcnt[0].priority = p0, !.bgcnt[1].priority = p1,
                   !.win0 = w, !.win1 = [w EXCEPT !.bottom = 160, !.flags = {1, SFX}],
                   !.winout_flags = out, !.bldcnt = b, !.eva = 31 - eva, !.evb = eva] :
     windows \in 0..7, p0 \in 0..2, p1 \in 0..2, w \in MCWindows({0, OBJ, SFX}),
     out \in {{}, {0, 1, OBJ, SFX}}, eva \in {4},
     b \in {BlendControl(t1 + 2^6 * mode + 2^8 * t2) :
              t1 \in {1, 48}, mode \in 0..3, t2 \in {2, 33}}}
MCBlankScenes == {[MCMixed EXCEPT !.dispcnt = DispCnt(0, EnableBg(0) + ForceBlank)]}

MCScenes == MCTextScenes \cup MCAffineScenes \cup MCObjectScenes \cup MCMixedScenes
            \cup MCBlankScenes

\* Two stores and a load in a region, at addresses that meet in some mirror or
\* differ by a few bytes; outside the regions, fetches from the BIOS and loads.
MCPowerOn(region, ofs) == Mixed(ofs + (CASE region = "bios" -> 1 [] region = "rom" -> 2 [] OTHER -> 3))
MCRegions ==
  {[pages |-> {2}, ofs |-> {0, 262144, 262146, 262143, 6}],
   [pages |-> {3}, ofs |-> {0, 32768, 32771, 16744448}],
   [pages |-> {5, 7}, ofs |-> {0, 1, 1024, 2050}],
   [pages |-> {6}, ofs |-> {65536, 65537, 98304, 98302, 131072, 229378, 81920, 114688, 2}],
   [pages |-> {14, 15}, ofs |-> {0, 3, 32768, 65538}],
   [pages |-> {13}, ofs |-> {0, 510, 131585}]}
Cpu(thumb, page, inBios, aligned) ==
  [thumb |-> thumb, page |-> page, inBios |-> inBios, aligned |-> aligned, decoded |-> <<7, 8>>,
   prefetched |-> IF thumb THEN <<1, 2>> ELSE <<1, 2, 3, 4>>]
MCAccess(cpu, page, ofs, width, data) ==
  [at |-> [page |-> page, ofs |-> Align(ofs, width)], width |-> width, cpu |-> cpu,
   data |-> SubSeq(data, 1, IF data = <<>> THEN 0 ELSE width)]
MCStores(r, widths, data) ==
  {MCAccess(Cpu(FALSE, 8, FALSE, TRUE), page, ofs, width, data) :
     page \in r.pages, ofs \in r.ofs, width \in widths}
MCLoads(r) == MCStores(r, {1, 2, 4}, <<>>)
MCCpus == {Cpu(FALSE, 8, FALSE, TRUE), Cpu(FALSE, 0, TRUE, TRUE), Cpu(TRUE, 0, TRUE, FALSE),
           Cpu(TRUE, 3, FALSE, TRUE), Cpu(TRUE, 3, FALSE, FALSE), Cpu(TRUE, 7, FALSE, TRUE),
           Cpu(TRUE, 2, FALSE, TRUE)}
MCOutside(addresses) ==
  {MCAccess(cpu, at[1], at[2], width, <<>>) : cpu \in MCCpus, width \in {1, 2, 4}, at \in addresses}
\* Registers: up to three stores in a word and a load of it, and, after two, of
\* every word; stores of a mode and of a byte in video memory.
MCHardware == [ofs \in {4, 6, 304, 514} |->
                 CASE ofs = 4 -> 5 [] ofs = 6 -> 163 [] ofs = 304 -> 1023 [] ofs = 514 -> 12675]
MCWords == {4 * k : k \in 0..21} \cup {304, 512, 516, 520, 768, 32768, 65536}
MCBoot == Cpu(FALSE, 8, FALSE, TRUE)
MCIn(word, n) == {ofs \in word..(word + 3) : ofs % n = 0}
MCRegisterStores(word, width, data) ==
  {MCAccess(MCBoot, 4, ofs, width, d) : ofs \in MCIn(word, width), d \in data}
MCRegisterLoads(word, width) == MCRegisterStores(word, width, {<<>>})
MCFirst == <<203, 229, 154, 91>>
MCSecond == <<0, 142, 243, 6>>
MCThird == <<253, 0, 29, 255>>
MCSameWord(w) ==
  {<<MCAccess(MCBoot, 4, w, 4, MCFirst), s, t, l>> :
     s \in UNION {MCRegisterStores(w, n, {MCSecond}) : n \in {1, 2, 4}},
     t \in MCRegisterStores(w, 1, {MCSecond, MCThird}),
     l \in UNION {MCRegisterLoads(w, n) : n \in {1, 4}}}
MCTwoWords(w) ==
  {<<s, l>> : s \in MCRegisterStores(w, 1, {MCSecond, MCThird}), l \in UNION {MCRegisterLoads(v, 4) : v \in MCWords}}
MCModes ==
  {<<m, s, n, t, l>> :
     m \in UNION {MCRegisterStores(0, w, {MCSecond, MCThird}) : w \in {1, 2}},
     n \in MCRegisterStores(0, 1, {MCSecond, MCThird}),
     s \in MCStores([pages |-> {6}, ofs |-> {65536}], {1}, <<21>>),
     t \in MCStores([pages |-> {6}, ofs |-> {65537, 81920}], {1}, <<22>>),
     l \in MCStores([pages |-> {6}, ofs |-> {65536, 81920}], {2}, <<>>)}
MCMemoryHistories(r) ==
  {<<s, t, l>> : s \in MCStores(r, {4}, <<11, 12, 13, 14>>),
                 t \in MCStores(r, {1, 2, 4}, <<21, 22, 23, 24>>), l \in MCLoads(r)}
MCOutsideHistories ==
  {<<f, l>> : f \in MCOutside({<<0, 0>>, <<0, 7>>}),
              l \in MCOutside({<<0, 10>>, <<0, 16383>>, <<0, 16386>>, <<1, 5>>, <<16, 2>>, <<8, 7>>})}
MCHistories ==
  {MCMemoryHistories(r) : r \in MCRegions} \cup {MCSameWord(w) : w \in MCWords}
  \cup {MCTwoWords(w) : w \in MCWords} \cup {MCModes, MCOutsideHistories}
=============================================================================
