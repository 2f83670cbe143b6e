------------------------------- MODULE MemoryBus ------------------------------
(***************************************************************************)
(* The memory map of SysBus: each region masks the address and splits the  *)
(* access in its own way.  An address is a page (its top byte) and an      *)
(* offset; the CPU and the DMA channels align it to the access.  Data are  *)
(* sequences of 1, 2 or 4 bytes, low byte first.  A bus b holds the bytes  *)
(* stored since power on, the I/O registers, the BIOS's last opcode, where *)
(* the objects' tiles begin and what the CPU has in its pipeline.          *)
(* The registers of the timers, the sound and the DMA channels are in the  *)
(* modules of those devices and not accessed here.                         *)
(***************************************************************************)
EXTENDS Words, SequencesExt, Bitwise

CONSTANTS PowerOn(_, _),   \* the byte of a region at an offset before any store
          RomSize,         \* bytes of the cartridge's ROM
          Hardware         \* what the devices put in DISPSTAT, VCOUNT, IF and KEYINPUT

Peek(b, region, ofs) ==
  IF <<region, ofs>> \in DOMAIN b.mem THEN b.mem[<<region, ofs>>] ELSE PowerOn(region, ofs)
Poke(b, region, ofs, data) ==
  [b EXCEPT !.mem = [c \in {<<region, ofs + i - 1>> : i \in DOMAIN data} |->
                       data[c[2] - ofs + 1]] @@ @]
PeekAll(b, region, ofs, n) == [i \in 1..n |-> Peek(b, region, ofs + i - 1)]
After(a, i) == [a EXCEPT !.ofs = @ + i]

-----------------------------------------------------------------------------
\* The display's memories: read byte by byte; a byte cannot be stored alone.
GpuRegion(page) == CASE page = 5 -> "palram" [] page = 6 -> "vram" [] page = 7 -> "oam"
\* Mutant of GpuOffset: the upper 32 KiB are taken for those at the start.
GpuOffsetFromStart(a) ==
  IF a.page = 6 THEN IF a.ofs % 2^17 >= 98304 THEN (a.ofs % 2^17) - 98304 ELSE a.ofs % 2^17
  ELSE a.ofs % 2^10
GpuOffset(a) ==
  IF a.page = 6 THEN IF a.ofs % 2^17 >= 98304 THEN (a.ofs % 2^17) - 32768 ELSE a.ofs % 2^17
  ELSE a.ofs % 2^10
gpu_read(b, a, n) == [i \in 1..n |-> Peek(b, GpuRegion(a.page), GpuOffset(After(a, i - 1)))]
gpu_write_16(b, a, half) == Poke(b, GpuRegion(a.page), Align(GpuOffset(a), 2), half)
gpu_write_8(b, a, byte) ==
  IF a.page = 5 \/ (a.page = 6 /\ GpuOffset(a) < b.obj_tiles)
  THEN gpu_write_16(b, a, <<byte, byte>>) ELSE b
gpu_write(b, a, data) ==
  CASE Len(data) = 1 -> gpu_write_8(b, a, data[1])
    [] Len(data) = 2 -> gpu_write_16(b, a, data)
    [] Len(data) = 4 -> gpu_write_16(gpu_write_16(b, a, SubSeq(data, 1, 2)),
                                     After(a, 2), SubSeq(data, 3, 4))

\* A cartridge with SRAM: every access goes byte by byte, stores reach the SRAM alone.
RomOffset(a) == (a.page % 2) * 2^24 + a.ofs
read_unused(a) == Field(a.ofs, IF a.ofs % 2 = 1 THEN 9 ELSE 1, 8)
cartridge_read_8(b, a) ==
  CASE a.page \in 14..15 -> Peek(b, "sram", a.ofs % 2^15)
    [] a.page \notin 14..15 -> IF RomOffset(a) >= RomSize THEN read_unused(a)
                               ELSE PowerOn("rom", RomOffset(a))
cartridge_write_8(b, a, byte) ==
  IF a.page \in 14..15 THEN Poke(b, "sram", a.ofs % 2^15, <<byte>>) ELSE b

\* The BIOS shows itself to code in it, and the last opcode fetched to others.
read_allowed(b) == b.cpu.inBios
bios_read(b, a, n) ==
  IF read_allowed(b) THEN PeekAll(b, "bios", a.ofs, n)
  ELSE [i \in 1..n |-> b.last_opcode[(a.ofs % 4) + i]]

\* Open bus: what the pipeline holds; data of two bytes, pc: its page and its bit 1.
read_invalid(b, a, n) ==
  LET c == b.cpu
      word == CASE ~c.thumb -> c.prefetched
                [] c.thumb /\ c.page \in {0, 7} -> c.decoded \o c.prefetched
                [] c.thumb /\ c.page = 3 -> IF c.aligned THEN c.prefetched \o c.decoded
                                            ELSE c.decoded \o c.prefetched
                [] c.thumb /\ c.page \notin {0, 3, 7} -> c.prefetched \o c.prefetched
  IN  [i \in 1..n |-> word[(a.ofs % 4) + i]]

-----------------------------------------------------------------------------
\* The I/O registers, by offset: half-words, as they read.
REG_DISPCNT == 0
REG_DISPSTAT == 4
REG_VCOUNT == 6
REG_KEYINPUT == 304
REG_IF == 514
REG_IME == 520
REG_POSTFLG == 768
Halves(first, last) == {ofs \in first..last : ofs % 2 = 0}
IoOffsets == (Halves(0, 84) \ {2, 78}) \cup {304, 512, 514, 516, 520, 768}

\* What a register reads as once value is written to it.
Written(old, ofs, value) ==
  CASE ofs = REG_DISPCNT -> value & 65527
    [] ofs = REG_DISPSTAT -> (old & 7) + (value & 65336)
    [] ofs \in Halves(8, 14) -> value & 65487        \* BGxCNT
    [] ofs \in Halves(16, 30) -> value & 511         \* BGxHOFS, BGxVOFS
    [] ofs \in {42, 46, 58, 62} ->                   \* BGxX_H, BGxY_H: 12 bits and the sign
         IF value & 2048 = 0 THEN value & 4095 ELSE (value & 4095) + 61440
    [] ofs \in {72, 74} -> value & 16191             \* WININ, WINOUT
    [] ofs = 80 -> value & 16383                     \* BLDCNT
    [] ofs = 82 -> value & 7967                      \* BLDALPHA
    [] ofs = 84 -> IF value & 31 > 16 THEN 16 ELSE value & 31     \* BLDY
    [] ofs = REG_IF -> old - (old & value)
    [] ofs \in {REG_IME, REG_POSTFLG} -> Num(value # 0)
    [] ofs \in {REG_VCOUNT, REG_KEYINPUT} -> old
    [] OTHER -> value        \* the matrices, X_L, Y_L, WINxH, WINxV, MOSAIC, IE, WAITCNT

ObjTilesStart(mode) == IF mode >= 3 THEN 81920 ELSE 65536
io_read_16(b, ofs) == IF ofs \in IoOffsets THEN b.io[ofs] ELSE 0
io_write_16(b, ofs, value) ==
  LET new == Written(b.io[ofs], ofs, value)
      moved == ofs = REG_DISPCNT /\ b.io[ofs] % 8 # new % 8
  IN  IF ofs \notin IoOffsets THEN b
      ELSE [b EXCEPT !.io[ofs] = new, !.obj_tiles = IF moved THEN ObjTilesStart(new % 8) ELSE @]
\* A byte is merged into the half-word as it reads, and the whole is written.
io_write_8(b, ofs, byte) ==
  LET old == io_read_16(b, Align(ofs, 2))
  IN  io_write_16(b, Align(ofs, 2), IF ofs % 2 = 1 THEN (old % 256) + 256 * byte
                                    ELSE (old - (old % 256)) + byte)

IoOffset(a, n) == IF Align(a.ofs % 2^16, n) = 2^15 THEN 2^11 ELSE Align(a.ofs, n)
io_read(b, ofs, n) ==
  [i \in 1..n |-> Field(io_read_16(b, Align(ofs + i - 1, 2)), 8 * ((ofs + i - 1) % 2), 8)]
io_write(b, ofs, data) ==
  LET half(i) == data[i] + 256 * data[i + 1]
  IN  CASE Len(data) = 1 -> io_write_8(b, ofs, data[1])
        [] Len(data) = 2 -> io_write_16(b, ofs, half(1))
        [] Len(data) = 4 -> io_write_16(io_write_16(b, ofs, half(1)), ofs + 2, half(3))

-----------------------------------------------------------------------------
\* SysBus.
bus_read(b, a, n) ==
  CASE a.page = 0 /\ a.ofs <= 16384 - n -> bios_read(b, a, n)
    [] a.page = 2 -> PeekAll(b, "ewram", Align(a.ofs % 2^18, n), n)
    [] a.page = 3 -> PeekAll(b, "iwram", Align(a.ofs % 2^15, n), n)
    [] a.page = 4 -> io_read(b, IoOffset(a, n), n)
    [] a.page \in 5..7 -> gpu_read(b, a, n)
    [] a.page \in 8..15 -> [i \in 1..n |-> cartridge_read_8(b, After(a, i - 1))]
    [] OTHER -> read_invalid(b, a, n)
\* What a load leaves: a word read from the BIOS is most probably an opcode.
AfterRead(b, a, n) ==
  IF a.page = 0 /\ a.ofs <= 16384 - n /\ n = 4 /\ read_allowed(b)
  THEN [b EXCEPT !.last_opcode = bios_read(b, a, n)] ELSE b
\* Stores to the other cartridge pages end in the cartridge or at the map: nowhere.
bus_write(b, a, data) ==
  CASE a.page = 2 -> Poke(b, "ewram", Align(a.ofs % 2^18, Len(data)), data)
    [] a.page = 3 -> Poke(b, "iwram", Align(a.ofs % 2^15, Len(data)), data)
    [] a.page = 4 -> io_write(b, IoOffset(a, Len(data)), data)
    [] a.page \in 5..7 -> gpu_write(b, a, data)
    [] a.page \in {8, 13, 14, 15} ->
         FoldLeft(LAMBDA bb, i : cartridge_write_8(bb, After(a, i - 1), data[i]),
                  b, [i \in DOMAIN data |-> i])
    [] OTHER -> b

\* An access: a load (data empty) or a store, by the CPU as it is then.
Access(b, x) ==
  LET bb == [b EXCEPT !.cpu = x.cpu]
  IN  IF x.data = <<>> THEN AfterRead(bb, x.at, x.width) ELSE bus_write(bb, x.at, x.data)
PowerOnBus(mode, cpu) ==
  [mem |-> <<>>, last_opcode |-> <<0, 240, 41, 225>>, obj_tiles |-> ObjTilesStart(mode), cpu |-> cpu,
   io |-> [ofs \in IoOffsets |-> IF ofs = REG_DISPCNT THEN mode
                                 ELSE IF ofs \in DOMAIN Hardware THEN Hardware[ofs] ELSE 0]]

-----------------------------------------------------------------------------
(***************************************************************************)
(* The reference for MemoryBus, one byte at a time: every address names a  *)
(* cell, a store puts bytes into cells, a cell holds what was stored last. *)
(***************************************************************************)

\* The 96 KiB of video memory are 3 blocks; a fourth repeats the third.
CellOf(page, ofs) ==
  CASE page = 2 -> <<"ewram", ofs % 262144>>
    [] page = 3 -> <<"iwram", ofs % 32768>>
    [] page = 5 -> <<"palram", ofs % 1024>>
    [] page = 6 -> LET block == (ofs \div 32768) % 4
                   IN  <<"vram", 32768 * (IF block = 3 THEN 2 ELSE block) + (ofs % 32768)>>
    [] page = 7 -> <<"oam", ofs % 1024>>
    [] page \in 14..15 -> <<"sram", ofs % 32768>>
    [] OTHER -> <<"none", 0>>

\* The pairs of a cell and a byte that a store leaves.  A byte fills both bytes
\* of its half-word of palette or background memory, and no object's.
Stored(x, obj_tiles) ==
  LET cell(ofs) == CellOf(x.at.page, ofs)
      each == {<<cell(x.at.ofs + i - 1), x.data[i]>> : i \in DOMAIN x.data}
      byte == Len(x.data) = 1 /\ x.at.page \in 5..7
      whole == {<<cell(x.at.ofs - (x.at.ofs % 2) + i), x.data[1]>> : i \in {0, 1}}
  IN  CASE x.data = <<>> -> {}
        [] byte -> IF x.at.page = 7 \/ (x.at.page = 6 /\ cell(x.at.ofs)[2] >= obj_tiles) THEN {}
                   ELSE whole
        [] OTHER -> each

\* The registers, one byte at a time.  The bits of each that its stores decide:
Kept(ofs) ==
  CASE ofs = 0 -> (0..7) \ {3}
    [] ofs = 4 -> 3..5
    [] ofs \in {8, 10, 12, 14} -> (0..7) \ {4, 5}
    [] ofs \in {17, 19, 21, 23, 25, 27, 29, 31} -> {0}
    [] ofs \in {43, 47, 59, 63} -> 0..3
    [] ofs \in (72..75) \cup {81} -> 0..5
    [] ofs \in {82, 83, 84} -> 0..4
    [] ofs \in {2, 3, 6, 7, 78, 79, 85} \/ ofs \notin (0..84) \cup {512, 513, 516, 517} -> {}
    [] OTHER -> 0..7
Reaches(x, ofs) == /\ x.data # <<>> /\ x.at.page = 4
                   /\ ofs \in x.at.ofs..(x.at.ofs + Len(x.data) - 1)
ByteAt(x, ofs) == x.data[ofs - x.at.ofs + 1]
Latest(history, Test(_)) ==   \* 0: none
  LET those == {k \in DOMAIN history : Test(history[k])}
  IN  IF those = {} THEN 0 ELSE CHOOSE k \in those : \A j \in those : j <= k
BitSum(bits) == SumSet({2^k : k \in bits})
HardwareByte(ofs) ==
  LET even == ofs - (ofs % 2)
  IN  IF even \notin DOMAIN Hardware THEN 0
      ELSE IF ofs = even THEN Hardware[even] % 256 ELSE Hardware[even] \div 256

\* A request stays until its bit is stored, or a byte alone beside it.
Requested(ofs, history) ==
  LET other == IF ofs % 2 = 0 THEN ofs + 1 ELSE ofs - 1
      acknowledged(x, k) == \/ Reaches(x, ofs) /\ Bit(ByteAt(x, ofs), k)
                            \/ Reaches(x, other) /\ ~Reaches(x, ofs)
  IN  {k \in 0..7 : /\ Bit(HardwareByte(ofs), k)
                    /\ \A j \in DOMAIN history : ~acknowledged(history[j], k)}
\* A flag is switched by any bit of its half-word; zero beside it leaves it.
Switch(ofs, history) ==
  LET decides(x) == Reaches(x, ofs) \/ (Reaches(x, ofs + 1) /\ ByteAt(x, ofs + 1) # 0)
      last == Latest(history, decides)
  IN  IF last = 0 THEN 0
      ELSE IF \E o \in {ofs, ofs + 1} : Reaches(history[last], o) /\ ByteAt(history[last], o) # 0
           THEN 1 ELSE 0
RegisterByte(ofs, history, mode) ==
  LET last == Latest(history, LAMBDA x : Reaches(x, ofs))
      byte == IF last = 0 THEN (IF ofs = 0 THEN mode ELSE 0) ELSE ByteAt(history[last], ofs)
      kept == {k \in Kept(ofs) : Bit(byte, k)}
  IN  CASE ofs \in {514, 515} -> BitSum(Requested(ofs, history))
        [] ofs \in {520, 768} -> Switch(ofs, history)
        [] ofs \in {43, 47, 59, 63} /\ 3 \in kept -> BitSum(kept \cup (4..7))
        [] ofs = 84 /\ BitSum(kept) > 16 -> 16
        [] OTHER -> BitSum(kept) + HardwareByte(ofs)
\* Where the objects' tiles begin, once the display mode is as the stores left it.
TilesAfter(history, mode) == IF RegisterByte(0, history, mode) % 8 >= 3 THEN 81920 ELSE 65536

Holds(cell, history, mode) ==
  LET left(k) == Stored(history[k], TilesAfter(SubSeq(history, 1, k - 1), mode))
      stores == {k \in DOMAIN history : \E p \in left(k) : p[1] = cell}
      last == CHOOSE k \in stores : \A j \in stores : j <= k
  IN  IF stores = {} THEN PowerOn(cell[1], cell[2])
      ELSE (CHOOSE p \in left(last) : p[1] = cell)[2]

\* The word the BIOS last gave to code in it.
Fetches(history) ==
  {k \in DOMAIN history : /\ history[k].data = <<>> /\ history[k].width = 4
                          /\ history[k].at.page = 0 /\ history[k].at.ofs < 16384
                          /\ history[k].cpu.inBios}
LastOpcode(history) ==
  IF Fetches(history) = {} THEN <<0, 240, 41, 225>>     \* e129f000
  ELSE LET k == CHOOSE k \in Fetches(history) : \A j \in Fetches(history) : j <= k
       IN  [i \in 1..4 |-> PowerOn("bios", history[k].at.ofs + i - 1)]

\* The word left on the bus: the second half fetched stays when memory is 16 bits wide.
OpenBus(cpu) ==
  LET first == IF cpu.page \in {0, 7} \/ (cpu.page = 3 /\ ~cpu.aligned) THEN cpu.decoded
               ELSE cpu.prefetched
      second == IF cpu.page = 3 /\ cpu.aligned THEN cpu.decoded ELSE cpu.prefetched
  IN  IF cpu.thumb THEN first \o second ELSE cpu.prefetched

ByteLoaded(x, ofs, history, mode) ==
  LET page == x.at.page
      rom == (page % 2) * 16777216 + ofs
  IN  CASE page = 0 /\ ofs < 16384 ->
             IF x.cpu.inBios THEN PowerOn("bios", ofs) ELSE LastOpcode(history)[(ofs % 4) + 1]
        [] page \in 8..13 ->
             IF rom < RomSize THEN PowerOn("rom", rom)
             ELSE LET half == (ofs \div 2) % 65536
                  IN  IF ofs % 2 = 0 THEN half % 256 ELSE half \div 256
        [] page \in {2, 3, 5, 6, 7, 14, 15} -> Holds(CellOf(page, ofs), history, mode)
        [] page = 4 -> RegisterByte(ofs, history, mode)
        [] OTHER -> OpenBus(x.cpu)[(ofs % 4) + 1]
Loaded(x, history, mode) ==
  [i \in 1..x.width |-> ByteLoaded(x, x.at.ofs + i - 1, history, mode)]
=============================================================================
