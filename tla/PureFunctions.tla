---------------------------- MODULE PureFunctions -----------------------------
(***************************************************************************)
(* The parts of the emulator that compute a result from their arguments    *)
(* alone, against their references: a state holds one input, chosen from   *)
(* the start, and the invariants compare what the code computes with what  *)
(* it should.                                                              *)
(***************************************************************************)
EXTENDS Arm7Decode, Picture, MemoryBus

CONSTANTS Nibbles,   \* values of the four fields of an ARM word outside the index
          Scenes,    \* display registers and objects, of one line
          Histories  \* sets of accesses [at, width, data, cpu] to the bus in turn, the last a load

VARIABLE input
FInit == input = [kind |-> "none"]

ChooseArmIndex == \E key \in 0..4095 : input' = [kind |-> "ARM index", key |-> key]
ChooseArmWord ==
  \E n \in Nibbles, d \in Nibbles, s \in Nibbles, m \in Nibbles :
    input' = [kind |-> "ARM",
              word |-> ArmKeyWord(input.key) + At(16, n) + At(12, d) + At(8, s) + m]
ChooseThumbWord == \E w \in 0..65535 : input' = [kind |-> "THUMB", word |-> w]
ChooseScene == \E g \in Scenes : input' = [kind |-> "scene", g |-> g]
ChooseHistory ==
  \E hs \in Histories, mode \in {0, 3} : \E h \in hs :
    input' = [kind |-> "bus", history |-> h, mode |-> mode]

FNext == \/ /\ input.kind = "none"
            /\ ChooseArmIndex \/ ChooseThumbWord \/ ChooseScene \/ ChooseHistory
         \/ input.kind = "ARM index" /\ ChooseArmWord
FSpec == FInit /\ [][FNext]_input

-----------------------------------------------------------------------------
\* Every index of the two tables leads to the handler and the parameters that
\* the opcode table of build.rs lays down, the other fields are read from
\* their places, what the table does not name is undefined, and the listing of
\* an instruction is that of the one executed (build.rs arm_decode and
\* thumb_decode, arm/mod.rs, thumb/mod.rs).  Words that only later processors
\* name (CLZ, saturating arithmetic, LDREX) have the bits of a format of this one,
\* and count as it.
DecodedAsAssembled ==
  /\ input.kind = "ARM" => ArmDecodes(input.word) /\ ArmListed(input.word)
  /\ input.kind = "THUMB" => ThumbDecodes(input.word)

\* A line of the picture shows, in every column, the two nearest layers that
\* the column's window lets through, blended as the registers ask
\* (render_scanline, finalize_scanline, the renderers of gpu/render).
LineIsPicture == input.kind = "scene" => render_scanline(input.g) = LineShown(input.g)

\* After any stores and fetches, through whichever mirror of the memory and in
\* whichever width, a load finds in each byte what was stored there last, the
\* cartridge, the BIOS if it is allowed to, or the open bus.  A byte stored alone
\* changes no other byte of an I/O register - but acknowledges the interrupts
\* beside it - and is lost among the objects' tiles, which begin where the last
\* mode stored puts them (the read and write arms of SysBus, IoDevices, Gpu,
\* Cartridge and Bios).
StoresAreLoaded ==
  input.kind = "bus" =>
    LET x == Last(input.history)
        b == FoldLeft(Access, PowerOnBus(input.mode, x.cpu), Front(input.history))
    IN  bus_read([b EXCEPT !.cpu = x.cpu], x.at, x.width)
          = Loaded(x, Front(input.history), input.mode)
=============================================================================
