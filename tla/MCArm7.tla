------------------------------- MODULE MCArm7 --------------------------------
(***************************************************************************)
(* Words of 12 bits, so that a status register fits one; registers 0, 1,   *)
(* 8, 13 and 14; one or two forms of every instruction format.             *)
(***************************************************************************)
EXTENDS Arm7Cpu, TLC

Arm(format, fields) == [fmt |-> format, cond |-> "AL"] @@ fields
If(c, i) == [i EXCEPT !.cond = c]

DataImm(op, s, rn, rd, imm) ==
  Arm("DataProcessing", [op |-> op, s |-> s, rn |-> rn, rd |-> rd, by |-> "immediate",
                         imm |-> imm, rot |-> 0])
DataReg(op, s, rn, rd, rm, shift, amount) ==
  Arm("DataProcessing", [op |-> op, s |-> s, rn |-> rn, rd |-> rd, by |-> "amount",
                         rm |-> rm, shift |-> shift, amount |-> amount])
DataShift(op, s, rn, rd, rm, shift, rs) ==
  Arm("DataProcessing", [op |-> op, s |-> s, rn |-> rn, rd |-> rd, by |-> "register",
                         rm |-> rm, shift |-> shift, rs |-> rs])
Single(load, byte, pre, wb, rn, rd, imm) ==
  Arm("SingleDataTransfer", [load |-> load, byte |-> byte, pre |-> pre, writeback |-> wb,
                             add |-> TRUE, rn |-> rn, rd |-> rd, by |-> "immediate", imm |-> imm])
Half(load, hs, rd, imm) ==
  Arm("HalfwordDataTransfer", [load |-> load, hs |-> hs, pre |-> TRUE, writeback |-> FALSE,
                               add |-> TRUE, rn |-> 1, rd |-> rd, by |-> "immediate", imm |-> imm])
Block(load, s, add, pre, wb, rn, list) ==
  Arm("BlockDataTransfer", [load |-> load, s |-> s, add |-> add, pre |-> pre,
                            writeback |-> wb, rn |-> rn, list |-> list])
StmFd(list) == Block(FALSE, FALSE, FALSE, TRUE, TRUE, 13, list)
LdmFd(list) == Block(TRUE, FALSE, TRUE, FALSE, TRUE, 13, list)
MsrImm(imm) == Arm("MoveToStatus", [is_imm |-> TRUE, imm |-> imm, rot |-> 0, spsr |-> FALSE,
                                    f |-> FALSE, c |-> TRUE])
MsrReg(rm, spsr, f) == Arm("MoveToStatus", [is_imm |-> FALSE, rm |-> rm, spsr |-> spsr,
                                            f |-> f, c |-> TRUE])
Mrs(rd, spsr) == Arm("MoveFromStatus", [rd |-> rd, spsr |-> spsr])
SubsPcLr(n) == DataImm("SUB", TRUE, 14, 15, n)

\* Save, switch to System mode with interrupts on, work, switch back, restore.
MCIrqHandler ==
  <<StmFd({0, 14}), Mrs(0, TRUE), StmFd({0}), MsrImm(31), StmFd({14}),
    DataImm("MOV", TRUE, 0, 14, 0), LdmFd({14}), MsrImm(128 + 18),
    LdmFd({0}), MsrReg(0, TRUE, TRUE), LdmFd({0, 14}), SubsPcLr(4)>>
\* A service lets interrupts in as well.
MCSwiHandler ==
  <<StmFd({0, 8, 14}), DataImm("MVN", TRUE, 0, 8, 1), MsrImm(19), DataImm("MOV", TRUE, 0, 0, 0),
    LdmFd({0, 8, 14}), SubsPcLr(0)>>

MCArm ==
  {Arm("BranchLink", [link |-> TRUE, offset |-> 8]),
   If("NE", Arm("BranchLink", [link |-> FALSE, offset |-> -16])),
   Arm("BranchExchange", [rm |-> 14]), Arm("BranchExchange", [rm |-> 8]),
   Mrs(0, FALSE), MsrImm(31), MsrImm(17), MsrReg(0, TRUE, FALSE),
   DataReg("ADD", TRUE, 15, 0, 0, "LSL", 2), DataReg("ADC", FALSE, 0, 15, 8, "ROR", 0),
   DataReg("ADD", TRUE, 0, 8, 1, "ASR", 0), DataImm("MOV", TRUE, 0, 14, 4),
   DataReg("CMP", TRUE, 0, 0, 8, "LSL", 0), DataReg("SBC", TRUE, 0, 0, 8, "LSL", 0),
   DataReg("RSC", TRUE, 8, 0, 0, "LSR", 1), DataReg("ADC", TRUE, 0, 8, 0, "LSL", 0),
   DataShift("ORR", TRUE, 0, 0, 8, "LSR", 0),
   Single(FALSE, FALSE, FALSE, TRUE, 1, 14, 4), Single(TRUE, TRUE, TRUE, TRUE, 1, 14, 1),
   Single(TRUE, FALSE, TRUE, FALSE, 1, 15, 0), Single(TRUE, FALSE, TRUE, FALSE, 1, 0, 2),
   Half(TRUE, "SignedHalfwords", 0, 2), Half(TRUE, "UnsignedHalfwords", 14, 1),
   Half(FALSE, "UnsignedHalfwords", 8, 2), Half(TRUE, "SignedByte", 0, 3),
   StmFd({0, 13, 14}), LdmFd({8, 15}),
   Block(TRUE, TRUE, TRUE, FALSE, FALSE, 1, {8, 14}),
   Block(FALSE, TRUE, FALSE, FALSE, TRUE, 1, {8, 13}),
   Block(FALSE, FALSE, TRUE, TRUE, FALSE, 1, {}),
   Arm("Multiply", [rd |-> 0, rn |-> 8, rs |-> 1, rm |-> 0, s |-> TRUE, accumulate |-> TRUE]),
   Arm("MultiplyLong", [rd_hi |-> 0, rd_lo |-> 8, rs |-> 0, rm |-> 0, s |-> TRUE,
                        accumulate |-> FALSE, u_flag |-> TRUE]),
   Arm("SingleDataSwap", [rn |-> 1, rm |-> 14, rd |-> 14, byte |-> FALSE]),
   If("EQ", Arm("SoftwareInterrupt", <<>>))}

Thumb(format, fields) == [fmt |-> format] @@ fields
MCThumb ==
  {Thumb("MoveShiftedReg", [shift |-> "LSR", rs |-> 0, rd |-> 0, amount |-> 0]),
   Thumb("AddSub", [sub |-> TRUE, by |-> "immediate", imm |-> 1, rs |-> 0, rd |-> 0]),
   Thumb("DataProcessImm", [op |-> "CMP", rd |-> 0, imm |-> 2]),
   Thumb("AluOps", [op |-> "SBC", rd |-> 0, rs |-> 1]),
   Thumb("AluOps", [op |-> "LSL", rd |-> 0, rs |-> 1]),
   Thumb("HiRegOpOrBranchExchange", [op |-> "BX", rd |-> 0, rs |-> 14]),
   Thumb("HiRegOpOrBranchExchange", [op |-> "MOV", rd |-> 8, rs |-> 15]),
   Thumb("HiRegOpOrBranchExchange", [op |-> "ADD", rd |-> 15, rs |-> 0]),
   Thumb("LdrPc", [rd |-> 0, imm |-> 4]),
   Thumb("LdrStrRegOffset", [load |-> FALSE, byte |-> TRUE, rb |-> 1, ro |-> 0, rd |-> 1]),
   Thumb("LdrStrSHB", [sign |-> TRUE, half |-> TRUE, rb |-> 1, ro |-> 0, rd |-> 0]),
   Thumb("LdrStrImmOffset", [load |-> FALSE, byte |-> FALSE, rb |-> 1, imm |-> 4, rd |-> 0]),
   Thumb("LdrStrHalfWord", [load |-> TRUE, rb |-> 1, imm |-> 2, rd |-> 0]),
   Thumb("LdrStrSp", [load |-> TRUE, rd |-> 0, imm |-> 0]),
   Thumb("LoadAddress", [sp |-> FALSE, rd |-> 0, imm |-> 4]),
   Thumb("AddSp", [sub |-> TRUE, imm |-> 4]),
   Thumb("PushPop", [pop |-> FALSE, r |-> TRUE, list |-> {0}]),
   Thumb("PushPop", [pop |-> TRUE, r |-> TRUE, list |-> {0}]),
   Thumb("LdmStm", [load |-> FALSE, rb |-> 1, list |-> {0, 1}]),
   Thumb("LdmStm", [load |-> TRUE, rb |-> 1, list |-> {0}]),
   Thumb("LdmStm", [load |-> TRUE, rb |-> 0, list |-> {}]),
   Thumb("BranchConditional", [cond |-> "EQ", offset |-> 6]),
   Thumb("Branch", [offset |-> -4]),
   Thumb("BranchLongWithLink", [low |-> FALSE, offset |-> 256]),
   Thumb("BranchLongWithLink", [low |-> TRUE, offset |-> 6]),
   Thumb("Swi", <<>>)}

MCRam == {4 * k : k \in 64..91}
Start(mode, thumb, r0) ==
  LET s == [NewCpu EXCEPT
              !.pc = 512, !.cpsr = [EmptyPsr EXCEPT !.mode = mode, !.thumb = thumb, !.z = TRUE],
              !.gpr = [r \in Gprs |-> CASE r = 0 -> r0 [] r = 1 -> 352 [] r = 8 -> 605
                                        [] r = 13 -> 320 [] r = 14 -> 705],
              !.gpr_banked_r13 = [b \in BankIndices |->
                                    CASE b = 2 -> 288 [] b = 3 -> 348 [] OTHER -> 320]]
             @@ [mem |-> [w \in MCRam |-> 0]]
  IN  IF thumb THEN reload_pipeline16(s) ELSE reload_pipeline32(s)
\* r0 small, negative, and equal to r8.
MCStarts == {Start("System", t, 7) : t \in BOOLEAN} \cup
            {Start("User", FALSE, 2050), Start("Fiq", FALSE, 605)}

=============================================================================
