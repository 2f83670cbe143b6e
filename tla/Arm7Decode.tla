----------------------------- MODULE Arm7Decode ------------------------------
(***************************************************************************)
(* From words to the instructions Arm7Cpu executes.  build.rs runs its     *)
(* decoders once for every index of two tables, on a word that has only    *)
(* the bits of the index; what they find becomes a handler's compile-time  *)
(* parameters.  The handlers read the other fields from the word itself.   *)
(* An ARM word is its 28 bits below the condition and the condition.       *)
(***************************************************************************)
EXTENDS Words, Sequences, FiniteSets, FiniteSetsExt

ArmCond == <<"EQ", "NE", "HS", "LO", "MI", "PL", "VS", "VC", "HI", "LS", "GE", "LT", "GT",
             "LE", "AL", "Invalid">>
OpCodes == <<"AND", "EOR", "SUB", "RSB", "ADD", "ADC", "SBC", "RSC",
             "TST", "TEQ", "CMP", "CMN", "ORR", "MOV", "BIC", "MVN">>
ThumbAluOps == <<"AND", "EOR", "LSL", "LSR", "ASR", "ADC", "SBC", "ROR",
                 "TST", "NEG", "CMP", "CMN", "ORR", "MUL", "BIC", "MVN">>
BarrelShiftOpCode == <<"LSL", "LSR", "ASR", "ROR">>
OpFormat3 == <<"MOV", "CMP", "ADD", "SUB">>
OpFormat5 == <<"ADD", "CMP", "MOV", "BX">>
HalfwordTransferType == <<"None", "UnsignedHalfwords", "SignedByte", "SignedHalfwords">>
Name(names, v) == names[v + 1]

\* The low n bits of v as a number in two's complement.
SignedField(v, n) == IF Bit(v, n - 1) THEN (v % 2^n) - 2^n ELSE v % 2^n
register_list(insn, n) == {r \in 0..(n - 1) : Bit(insn, r)}

-----------------------------------------------------------------------------
\* ARM.

\* cpu.rs: bits 27-20 and 7-4 are the index, and the word build.rs decodes for it.
\* Mutant of ArmKey: the lower bits are taken one place too high.
ArmKeyShifted(insn) == Field(insn, 20, 8) * 2^4 + Field(insn, 5, 4)
ArmKey(insn) == Field(insn, 20, 8) * 2^4 + Field(insn, 4, 4)
ArmKeyWord(key) == Field(key, 4, 8) * 2^20 + Field(key, 0, 4) * 2^4

\* The formats that look like data processing with bits 7 and 4 set.
MultipliesAndSwaps(i) ==
  LET is(top, low, field, n, value) == /\ Field(i, 23, 5) = top /\ Field(i, 4, 4) = low
                                       /\ Field(i, field, n) = value
  IN  CASE is(0, 9, 22, 1, 0) -> "Multiply"
        [] is(1, 9, 22, 0, 0) -> "MultiplyLong"
        [] is(2, 9, 20, 2, 0) -> "SingleDataSwap"
        [] is(2, 1, 20, 3, 2) -> "BranchExchange"
        [] OTHER -> "Other"
\* Status transfers are data processing that would set flags only, and does not.
TransfersAndData(i) ==
  CASE ~Bit(i, 25) /\ ~Bit(i, 22) /\ Bit(i, 7) /\ Bit(i, 4) -> "HalfwordDataTransferRegOffset"
    [] ~Bit(i, 25) /\ Bit(i, 22) /\ Bit(i, 7) /\ Bit(i, 4) -> "HalfwordDataTransferImmediateOffset"
    [] OTHER -> CASE Field(i, 23, 2) = 2 /\ ~Bit(i, 20) /\ Bit(i, 21) -> "MoveToStatus"
                  [] Field(i, 23, 2) = 2 /\ ~Bit(i, 20) /\ ~Bit(i, 21) -> "MoveFromStatus"
                  [] OTHER -> "DataProcessing"
arm_decode(i) ==
  LET top == Field(i, 26, 2) IN
  CASE top = 0 /\ MultipliesAndSwaps(i) # "Other" -> MultipliesAndSwaps(i)
    [] top = 0 /\ MultipliesAndSwaps(i) = "Other" -> TransfersAndData(i)
    [] top = 1 -> IF Bit(i, 25) /\ Bit(i, 4) THEN "Undefined" ELSE "SingleDataTransfer"
    [] top = 2 -> IF Bit(i, 25) THEN "BranchLink" ELSE "BlockDataTransfer"
    [] top = 3 -> IF Bit(i, 25) /\ Bit(i, 24) THEN "SoftwareInterrupt" ELSE "Undefined"

rn(i) == Field(i, 16, 4)
rd(i) == Field(i, 12, 4)
rs(i) == Field(i, 8, 4)
rm(i) == Field(i, 0, 4)
rd_hi(i) == rn(i)
rd_lo(i) == rd(i)
get_bs_op(i) == Name(BarrelShiftOpCode, Field(i, 5, 2))
branch_offset(i) == SignedField(i, 24) * 4
hs_imm_offset(i) == rs(i) * 16 + rm(i)
\* A register shifted by a register or by an amount; k: the word of the table.
get_shift_reg_by(k, i) ==
  IF Bit(k, 4) THEN [by |-> "register", rm |-> rm(i), shift |-> get_bs_op(i), rs |-> rs(i)]
  ELSE [by |-> "amount", rm |-> rm(i), shift |-> get_bs_op(i), amount |-> Field(i, 7, 5)]
operand2(k, i) ==
  IF Bit(k, 25) THEN [by |-> "immediate", imm |-> Field(i, 0, 8), rot |-> rs(i)]
  ELSE get_shift_reg_by(k, i)
ldr_str_offset(k, i) ==
  IF Bit(k, 25) THEN get_shift_reg_by(k, i) ELSE [by |-> "immediate", imm |-> Field(i, 0, 12)]

\* The five flags of a transfer, all in the index.
TransferFlags(k) == [load |-> Bit(k, 20), writeback |-> Bit(k, 21), add |-> Bit(k, 23),
                     pre |-> Bit(k, 24)]
Both(f, g) == [x \in DOMAIN f \cup DOMAIN g |-> IF x \in DOMAIN f THEN f[x] ELSE g[x]]

HalfwordDataTransfer(k, i, offset) ==
  Both(Both(TransferFlags(k), offset),
       [fmt |-> "HalfwordDataTransfer", hs |-> Name(HalfwordTransferType, Field(k, 5, 2)),
        rn |-> rn(i), rd |-> rd(i)])

\* The instruction of the index word k and the word i.
ArmInstruction(k, i) ==
  LET fmt == arm_decode(k) IN
  CASE fmt = "BranchExchange" -> [fmt |-> fmt, rm |-> rm(i)]
    [] fmt = "BranchLink" -> [fmt |-> fmt, link |-> Bit(k, 24), offset |-> branch_offset(i)]
    [] fmt = "SoftwareInterrupt" -> [fmt |-> fmt]
    [] fmt = "Multiply" -> [fmt |-> fmt, s |-> Bit(k, 20), accumulate |-> Bit(k, 21),
                            rd |-> rd_hi(i), rn |-> rd_lo(i), rs |-> rs(i), rm |-> rm(i)]
    [] fmt = "MultiplyLong" -> [fmt |-> fmt, s |-> Bit(k, 20), accumulate |-> Bit(k, 21),
                                u_flag |-> Bit(k, 22), rd_hi |-> rd_hi(i), rd_lo |-> rd_lo(i),
                                rs |-> rs(i), rm |-> rm(i)]
    [] fmt = "SingleDataSwap" -> [fmt |-> fmt, byte |-> Bit(k, 22), rn |-> rn(i), rd |-> rd(i),
                                  rm |-> rm(i)]
    [] fmt = "HalfwordDataTransferRegOffset" ->
         HalfwordDataTransfer(k, i, [by |-> "amount", rm |-> rm(i)])
    [] fmt = "HalfwordDataTransferImmediateOffset" ->
         HalfwordDataTransfer(k, i, [by |-> "immediate", imm |-> hs_imm_offset(i)])
    [] fmt = "MoveToStatus" ->
         Both([fmt |-> fmt, is_imm |-> Bit(k, 25), spsr |-> Bit(k, 22),
               f |-> Bit(i, 19), c |-> Bit(i, 16)],
              IF Bit(k, 25) THEN [imm |-> Field(i, 0, 8), rot |-> rs(i)] ELSE [rm |-> rm(i)])
    [] fmt = "MoveFromStatus" -> [fmt |-> fmt, spsr |-> Bit(k, 22), rd |-> rd(i)]
    [] fmt = "DataProcessing" ->
         Both(operand2(k, i), [fmt |-> fmt, op |-> Name(OpCodes, Field(k, 21, 4)),
                               s |-> Bit(k, 20), rn |-> rn(i), rd |-> rd(i)])
    [] fmt = "SingleDataTransfer" ->
         Both(Both(TransferFlags(k), ldr_str_offset(k, i)),
              [fmt |-> fmt, byte |-> Bit(k, 22), rn |-> rn(i), rd |-> rd(i)])
    [] fmt = "BlockDataTransfer" ->
         Both(TransferFlags(k), [fmt |-> fmt, s |-> Bit(k, 22), rn |-> rn(i),
                                 list |-> register_list(i, 16)])
    [] fmt = "Undefined" -> [fmt |-> fmt]

ArmDecoded(cond, i) ==
  Both([cond |-> Name(ArmCond, cond)], ArmInstruction(ArmKeyWord(ArmKey(i)), i))

-----------------------------------------------------------------------------
\* arm/mod.rs has a decoder of its own, for listings: a chain of tests, each of
\* fields <<first bit, width, value>>.
ArmFormatTests ==
  <<<<"BranchExchange", {<<4, 24, 1245169>>}>>,
    <<"BranchLink", {<<25, 3, 5>>}>>,
    <<"Undefined", {<<25, 3, 3>>, <<4, 1, 0>>}>>,
    <<"SingleDataSwap", {<<23, 5, 2>>, <<20, 2, 0>>, <<4, 8, 9>>}>>,
    <<"Multiply", {<<22, 6, 0>>, <<4, 4, 9>>}>>,
    <<"MultiplyLong", {<<23, 5, 1>>, <<4, 4, 9>>}>>,
    <<"MoveFromStatus", {<<23, 5, 2>>, <<16, 6, 15>>, <<0, 12, 0>>}>>,
    <<"MoveToStatus", {<<23, 5, 2>>, <<4, 18, 171776>>}>>,
    <<"MoveToFlags", {<<26, 2, 0>>, <<23, 2, 2>>, <<12, 10, 655>>}>>,
    <<"SingleDataTransfer", {<<26, 2, 1>>}>>,
    <<"HalfwordDataTransferRegOffset", {<<25, 3, 0>>, <<22, 1, 0>>, <<7, 5, 1>>, <<4, 1, 1>>}>>,
    <<"HalfwordDataTransferImmediateOffset", {<<25, 3, 0>>, <<22, 1, 1>>, <<7, 1, 1>>, <<4, 1, 1>>}>>,
    <<"BlockDataTransfer", {<<25, 3, 4>>}>>,
    <<"SoftwareInterrupt", {<<24, 4, 15>>}>>,
    <<"DataProcessing", {<<26, 2, 0>>}>>,
    <<"Undefined", {}>>>>
FirstFormat(tests, i) ==
  LET passes(k) == \A t \in tests[k][2] : Field(i, t[1], t[2]) = t[3]
  IN  tests[CHOOSE k \in DOMAIN tests : passes(k) /\ \A j \in 1..(k - 1) : ~passes(j)][1]
ArmFormat(i) == FirstFormat(ArmFormatTests, i)

-----------------------------------------------------------------------------
\* THUMB: thumb/mod.rs and build.rs make the same tests.
ThumbFormatTests ==
  <<<<"AddSub", {<<11, 5, 3>>}>>,
    <<"MoveShiftedReg", {<<13, 3, 0>>}>>,
    <<"DataProcessImm", {<<13, 3, 1>>}>>,
    <<"AluOps", {<<10, 6, 16>>}>>,
    <<"HiRegOpOrBranchExchange", {<<10, 6, 17>>}>>,
    <<"LdrPc", {<<11, 5, 9>>}>>,
    <<"LdrStrRegOffset", {<<12, 4, 5>>, <<9, 1, 0>>}>>,
    <<"LdrStrSHB", {<<12, 4, 5>>, <<9, 1, 1>>}>>,
    <<"LdrStrImmOffset", {<<13, 3, 3>>}>>,
    <<"LdrStrHalfWord", {<<12, 4, 8>>}>>,
    <<"LdrStrSp", {<<12, 4, 9>>}>>,
    <<"LoadAddress", {<<12, 4, 10>>}>>,
    <<"AddSp", {<<8, 8, 176>>}>>,
    <<"PushPop", {<<12, 4, 11>>, <<9, 2, 2>>}>>,
    <<"LdmStm", {<<12, 4, 12>>}>>,
    <<"Swi", {<<8, 8, 223>>}>>,
    <<"BranchConditional", {<<12, 4, 13>>}>>,
    <<"Branch", {<<11, 5, 28>>}>>,
    <<"BranchLongWithLink", {<<12, 4, 15>>}>>,
    <<"Undefined", {}>>>>
ThumbFormat(i) == FirstFormat(ThumbFormatTests, i)

ThumbKey(insn) == insn \div 2^6
ThumbKeyWord(key) == key * 2^6

\* Registers of three bits, and the offsets.
low_rd(i) == Field(i, 0, 3)
low_rs(i) == Field(i, 3, 3)
ro(i) == Field(i, 6, 3)
high_rd(i) == Field(i, 8, 3)
offset5(i) == Field(i, 6, 5)
word8(i) == Field(i, 0, 8) * 4
bcond_offset(i) == SignedField(i, 8) * 2
offset11(i) == Field(i, 0, 11)

\* The fields, compile-time parameters from k and the others from i, by format.
ThumbInstruction(k, i) ==
  LET fmt == ThumbFormat(k)
      load == Bit(k, 11)
  IN
  Both([fmt |-> fmt],
  CASE fmt = "MoveShiftedReg" ->
         [shift |-> Name(BarrelShiftOpCode, Field(k, 11, 2)), amount |-> offset5(k),
          rs |-> low_rs(i), rd |-> low_rd(i)]
    [] fmt = "AddSub" ->
         Both([sub |-> Bit(k, 9), rs |-> low_rs(i), rd |-> low_rd(i)],
              IF Bit(k, 10) THEN [by |-> "immediate", imm |-> ro(k)]
              ELSE [by |-> "register", rn |-> ro(k)])
    [] fmt = "DataProcessImm" ->
         [op |-> Name(OpFormat3, Field(k, 11, 2)), rd |-> high_rd(k), imm |-> Field(i, 0, 8)]
    [] fmt = "AluOps" ->
         [op |-> Name(ThumbAluOps, Field(k, 6, 4)), rd |-> low_rd(i), rs |-> low_rs(i)]
    [] fmt = "HiRegOpOrBranchExchange" ->
         [op |-> Name(OpFormat5, Field(k, 8, 2)), rd |-> low_rd(i) + 8 * Num(Bit(k, 7)),
          rs |-> low_rs(i) + 8 * Num(Bit(k, 6))]
    [] fmt = "LdrPc" -> [rd |-> high_rd(k), imm |-> word8(i)]
    [] fmt = "LdrStrRegOffset" ->
         [load |-> load, byte |-> Bit(k, 10), ro |-> ro(k), rb |-> low_rs(i), rd |-> low_rd(i)]
    [] fmt = "LdrStrSHB" ->
         [sign |-> Bit(k, 10), half |-> Bit(k, 11), ro |-> ro(k), rb |-> low_rs(i),
          rd |-> low_rd(i)]
    [] fmt = "LdrStrImmOffset" ->
         [load |-> load, byte |-> Bit(k, 12), rb |-> low_rs(i), rd |-> low_rd(i),
          imm |-> IF Bit(k, 12) THEN offset5(k) ELSE ((offset5(k) * 8) % 256) \div 2]
    [] fmt = "LdrStrHalfWord" ->
         [load |-> load, imm |-> offset5(k) * 2, rb |-> low_rs(i), rd |-> low_rd(i)]
    [] fmt = "LdrStrSp" -> [load |-> load, rd |-> high_rd(k), imm |-> word8(i)]
    [] fmt = "LoadAddress" -> [sp |-> load, rd |-> high_rd(k), imm |-> word8(i)]
    [] fmt = "AddSp" -> [sub |-> Bit(k, 7), imm |-> Field(i, 0, 7) * 4]
    [] fmt = "PushPop" -> [pop |-> load, r |-> Bit(k, 8), list |-> register_list(i, 8)]
    [] fmt = "LdmStm" -> [load |-> load, rb |-> high_rd(k), list |-> register_list(i, 8)]
    [] fmt = "BranchConditional" ->
         [cond |-> Name(ArmCond, Field(k, 8, 4)), offset |-> bcond_offset(i)]
    [] fmt = "Branch" -> [offset |-> SignedField(offset11(i), 11) * 2]
    [] fmt = "BranchLongWithLink" ->
         [low |-> Bit(k, 11), offset |-> IF Bit(k, 11) THEN offset11(i) * 2
                                         ELSE SignedField(offset11(i), 11) * 2^12]
    [] OTHER -> <<>>)

ThumbDecoded(i) == ThumbInstruction(ThumbKeyWord(ThumbKey(i)), i)

-----------------------------------------------------------------------------
(***************************************************************************)
(* The reference for Arm7Decode: an assembler, written from the opcode     *)
(* table quoted in build.rs and from the THUMB formats that ThumbFormat    *)
(* numbers, and the instructions assembled.  Fields are placed by the      *)
(* table, where the decoder takes them out one by one.                     *)
(***************************************************************************)

\* |_..._|value|_..._|: a number, a flag, a register list and a name in their places.
At(lo, v) == v * 2^lo
Flag(lo, b) == IF b THEN 2^lo ELSE 0
ListWord(list) == MapThenSumSet(LAMBDA r : 2^r, list)
Position(names, x) == (CHOOSE k \in DOMAIN names : names[k] = x) - 1
RnRd(i) == At(16, i.rn) + At(12, i.rd)

\* Shift|Typ|0|Rm, Rs|0|Typ|1|Rm and Shift|Immediate.
Shifted(i) ==
  At(5, Position(BarrelShiftOpCode, i.shift)) + i.rm
  + (IF i.by = "amount" THEN At(7, i.amount) ELSE At(8, i.rs) + 2^4)
\* P|U|.|W|L
PUWL(i) == Flag(24, i.pre) + Flag(23, i.add) + Flag(21, i.writeback) + Flag(20, i.load)

ArmWord(i) ==
  CASE i.fmt = "DataProcessing" ->
         At(21, Position(OpCodes, i.op)) + Flag(20, i.s) + RnRd(i)
         + (IF i.by = "immediate" THEN 2^25 + At(8, i.rot) + i.imm ELSE Shifted(i))
    [] i.fmt = "MoveToStatus" ->
         At(23, 2) + Flag(22, i.spsr) + 2^21 + Flag(19, i.f) + Flag(16, i.c) + At(12, 15)
         + (IF i.is_imm THEN 2^25 + At(8, i.rot) + i.imm ELSE i.rm)
    [] i.fmt = "MoveFromStatus" -> At(23, 2) + Flag(22, i.spsr) + At(16, 15) + At(12, i.rd)
    [] i.fmt = "BranchExchange" -> At(20, 18) + At(8, 4095) + At(4, 1) + i.rm
    [] i.fmt = "Multiply" ->
         Flag(21, i.accumulate) + Flag(20, i.s) + At(16, i.rd) + At(12, i.rn) + At(8, i.rs)
         + At(4, 9) + i.rm
    [] i.fmt = "MultiplyLong" ->
         2^23 + Flag(22, i.u_flag) + Flag(21, i.accumulate) + Flag(20, i.s)
         + At(16, i.rd_hi) + At(12, i.rd_lo) + At(8, i.rs) + At(4, 9) + i.rm
    [] i.fmt = "SingleDataSwap" -> 2^24 + Flag(22, i.byte) + RnRd(i) + At(4, 9) + i.rm
    [] i.fmt = "HalfwordDataTransfer" ->
         PUWL(i) + RnRd(i) + At(5, Position(HalfwordTransferType, i.hs)) + At(4, 9)
         + (IF i.by = "immediate" THEN 2^22 + At(8, i.imm \div 16) + (i.imm % 16) ELSE i.rm)
    [] i.fmt = "SingleDataTransfer" ->
         2^26 + PUWL(i) + Flag(22, i.byte) + RnRd(i)
         + (IF i.by = "immediate" THEN i.imm ELSE 2^25 + Shifted(i))
    [] i.fmt = "BlockDataTransfer" ->
         2^27 + PUWL(i) + Flag(22, i.s) + At(16, i.rn) + ListWord(i.list)
    [] i.fmt = "BranchLink" -> At(25, 5) + Flag(24, i.link) + ((i.offset \div 4) % 2^24)
    [] i.fmt = "SoftwareInterrupt" -> At(24, 15)

ThumbWord(i) ==
  LET SD == IF "rs" \in DOMAIN i THEN At(3, i.rs % 8) + (i.rd % 8) ELSE 0
      BD == IF "rb" \in DOMAIN i /\ "rd" \in DOMAIN i THEN At(3, i.rb) + i.rd ELSE 0
  IN
  CASE i.fmt = "MoveShiftedReg" ->
         At(11, Position(BarrelShiftOpCode, i.shift)) + At(6, i.amount) + SD
    [] i.fmt = "AddSub" ->
         At(11, 3) + Flag(9, i.sub) + SD
         + (IF i.by = "immediate" THEN 2^10 + At(6, i.imm) ELSE At(6, i.rn))
    [] i.fmt = "DataProcessImm" ->
         At(13, 1) + At(11, Position(OpFormat3, i.op)) + At(8, i.rd) + i.imm
    [] i.fmt = "AluOps" -> At(10, 16) + At(6, Position(ThumbAluOps, i.op)) + SD
    [] i.fmt = "HiRegOpOrBranchExchange" ->
         At(10, 17) + At(8, Position(OpFormat5, i.op)) + Flag(7, i.rd > 7) + Flag(6, i.rs > 7) + SD
    [] i.fmt = "LdrPc" -> At(11, 9) + At(8, i.rd) + (i.imm \div 4)
    [] i.fmt = "LdrStrRegOffset" ->
         At(12, 5) + Flag(11, i.load) + Flag(10, i.byte) + At(6, i.ro) + BD
    [] i.fmt = "LdrStrSHB" ->
         At(12, 5) + Flag(11, i.half) + Flag(10, i.sign) + 2^9 + At(6, i.ro) + BD
    [] i.fmt = "LdrStrImmOffset" ->
         At(13, 3) + Flag(12, i.byte) + Flag(11, i.load) + BD
         + At(6, IF i.byte THEN i.imm ELSE i.imm \div 4)
    [] i.fmt = "LdrStrHalfWord" -> At(12, 8) + Flag(11, i.load) + At(6, i.imm \div 2) + BD
    [] i.fmt = "LdrStrSp" -> At(12, 9) + Flag(11, i.load) + At(8, i.rd) + (i.imm \div 4)
    [] i.fmt = "LoadAddress" -> At(12, 10) + Flag(11, i.sp) + At(8, i.rd) + (i.imm \div 4)
    [] i.fmt = "AddSp" -> At(12, 11) + Flag(7, i.sub) + (i.imm \div 4)
    [] i.fmt = "PushPop" -> At(12, 11) + Flag(11, i.pop) + 2^10 + Flag(8, i.r) + ListWord(i.list)
    [] i.fmt = "LdmStm" -> At(12, 12) + Flag(11, i.load) + At(8, i.rb) + ListWord(i.list)
    [] i.fmt = "BranchConditional" ->
         At(12, 13) + At(8, Position(ArmCond, i.cond)) + ((i.offset \div 2) % 2^8)
    [] i.fmt = "Swi" -> At(8, 223)
    [] i.fmt = "Branch" -> At(13, 7) + ((i.offset \div 2) % 2^11)
    [] i.fmt = "BranchLongWithLink" ->
         At(12, 15) + (IF i.low THEN 2^11 + (i.offset \div 2) ELSE (i.offset \div 2^12) % 2^11)

\* The fields <<first bit, width>> that a format's handler does not look at:
\* fixed by the table, or a comment.
Ignored(i) ==
  CASE i.fmt = "BranchExchange" -> {<<8, 12>>}
    [] i.fmt = "MoveFromStatus" -> {<<25, 1>>, <<16, 4>>, <<0, 12>>}
    [] i.fmt = "MoveToStatus" -> {<<17, 2>>, <<12, 4>>} \cup (IF i.is_imm THEN {} ELSE {<<4, 8>>})
    [] i.fmt = "SingleDataSwap" -> {<<8, 4>>}
    [] i.fmt = "HalfwordDataTransfer" -> IF i.by = "amount" THEN {<<8, 4>>} ELSE {}
    [] i.fmt = "SoftwareInterrupt" -> {<<0, 24>>}
    [] i.fmt = "Swi" -> {<<0, 8>>}
    [] OTHER -> {}
Without(fields, w) == w - MapThenSumSet(LAMBDA f : At(f[1], Field(w, f[1], f[2])), fields)

\* Coprocessor instructions and the later processors' media instructions; and
\* the gaps among the THUMB formats.
NotAnArmInstruction(w) ==
  \/ Field(w, 25, 3) = 6 \/ Field(w, 24, 4) = 14
  \/ Field(w, 25, 3) = 3 /\ Bit(w, 4)
NotAThumbInstruction(w) ==
  \/ Field(w, 11, 5) = 29
  \/ Field(w, 12, 4) = 11 /\ ~Bit(w, 10) /\ Field(w, 8, 4) # 0
  \/ Field(w, 12, 4) = 11 /\ Bit(w, 10) /\ Bit(w, 9)

Decodes(i, assembled, w, isNone) ==
  IF isNone THEN i.fmt = "Undefined"
  ELSE /\ i.fmt # "Undefined"
       /\ Without(Ignored(i), assembled) = Without(Ignored(i), w)
ArmDecodes(w) ==
  LET i == ArmDecoded(14, w) IN Decodes(i, ArmWord(i), w, NotAnArmInstruction(w))
ThumbDecodes(w) ==
  LET i == ThumbDecoded(w) IN Decodes(i, ThumbWord(i), w, NotAThumbInstruction(w))

\* The name a listing gives to a word of the table: that of the instruction,
\* where status transfers have three names, two of them for some masks only.
\* The listing has transfers with a register offset and their undefined
\* neighbours the wrong way round.
ListedAs(i, w) ==
  CASE i.fmt = "HalfwordDataTransfer" ->
         {IF i.by = "amount" THEN "HalfwordDataTransferRegOffset"
          ELSE "HalfwordDataTransferImmediateOffset"}
    [] i.fmt = "MoveToStatus" -> {"MoveToStatus", "MoveToFlags", "DataProcessing"}
    [] Field(w, 25, 3) = 3 -> {"SingleDataTransfer", "Undefined"} \ {i.fmt}
    [] OTHER -> {i.fmt}
ArmListed(w) ==
  LET i == ArmDecoded(14, w)
  IN  (NotAnArmInstruction(w) \/ ArmWord(i) = w) => ArmFormat(w) \in ListedAs(i, w)
=============================================================================
