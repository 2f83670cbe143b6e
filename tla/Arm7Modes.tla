----------------------------- MODULE Arm7Modes ------------------------------
(***************************************************************************)
(* arm7tdmi/src/cpu.rs, exception.rs and psr.rs: the registers, the banks  *)
(* that a change of mode swaps in and out, the two opcodes the pipeline    *)
(* holds, and the exceptions.                                              *)
(*                                                                         *)
(* A processor is a record s with the fields of Arm7tdmiCore.  A slot of   *)
(* the pipeline is where its opcode was fetched and at which width, since  *)
(* what matters is which instruction will run.  next_fetch_access and the  *)
(* idle cycles only cost time and are left out.                            *)
(***************************************************************************)
EXTENDS Words

CONSTANT Gprs   \* the registers of 0..14 in use

ASSUME GprsAssumption == {13, 14} \subseteq Gprs /\ Gprs \subseteq 0..14

CpuMode == {"User", "Fiq", "Irq", "Supervisor", "Abort", "Undefined", "System"}
bank_index(m) ==
  CASE m \in {"User", "System"} -> 0
    [] m = "Fiq" -> 1
    [] m = "Irq" -> 2
    [] m = "Supervisor" -> 3
    [] m = "Abort" -> 4
    [] m = "Undefined" -> 5
BankIndices == 0..5
FiqBanked == Gprs \cap 8..12

\* RegPSR::default() is 0, whose mode field names no mode.
NoMode == "none"
RegPSR == [mode : CpuMode \cup {NoMode}, thumb : BOOLEAN, irq_off : BOOLEAN,
           fiq_off : BOOLEAN, n : BOOLEAN, z : BOOLEAN, c : BOOLEAN, v : BOOLEAN]
EmptyPsr == [mode |-> NoMode, thumb |-> FALSE, irq_off |-> FALSE, fiq_off |-> FALSE,
             n |-> FALSE, z |-> FALSE, c |-> FALSE, v |-> FALSE]

NewCpu ==
  [pc |-> 0, pipeline |-> <<>>, gpr |-> [r \in Gprs |-> 0],
   cpsr |-> [EmptyPsr EXCEPT !.mode = "Supervisor", !.irq_off = TRUE, !.fiq_off = TRUE],
   spsr |-> EmptyPsr,
   gpr_banked_r13 |-> [b \in BankIndices |-> 0],
   gpr_banked_r14 |-> [b \in BankIndices |-> 0],
   gpr_banked_old_r8_12 |-> [r \in FiqBanked |-> 0],
   gpr_banked_fiq_r8_12 |-> [r \in FiqBanked |-> 0],
   spsr_bank |-> [b \in BankIndices |-> EmptyPsr]]

pc_arm(s) == Wrap(s.pc - 8)
pc_thumb(s) == Wrap(s.pc - 4)
word_size(s) == IF s.cpsr.thumb THEN 2 ELSE 4
get_next_pc(s) == Wrap(s.pc - 2 * word_size(s))
get_reg(s, r) == IF r = 15 THEN s.pc ELSE s.gpr[r]
set_reg(s, r, val) ==
  IF r = 15 THEN [s EXCEPT !.pc = Align(val, word_size(s))]
            ELSE [s EXCEPT !.gpr[r] = val]

change_mode(s, old_mode, new_mode) ==
  LET old == bank_index(old_mode)
      new == bank_index(new_mode)
  IN  IF new = old THEN s
      ELSE [s EXCEPT
        !.spsr_bank[old] = s.spsr,
        !.gpr_banked_r13[old] = s.gpr[13],
        !.gpr_banked_r14[old] = s.gpr[14],
        !.gpr_banked_old_r8_12 = IF new_mode = "Fiq" THEN [r \in FiqBanked |-> s.gpr[r]] ELSE @,
        !.gpr_banked_fiq_r8_12 = IF new_mode # "Fiq" /\ old_mode = "Fiq"
                                 THEN [r \in FiqBanked |-> s.gpr[r]] ELSE @,
        !.spsr = s.spsr_bank[new],
        !.gpr = [r \in Gprs |->
                   CASE r = 13 -> s.gpr_banked_r13[new]
                     [] r = 14 -> s.gpr_banked_r14[new]
                     [] r \in FiqBanked /\ new_mode = "Fiq" -> s.gpr_banked_fiq_r8_12[r]
                     [] r \in FiqBanked /\ old_mode = "Fiq" -> s.gpr_banked_old_r8_12[r]
                     [] OTHER -> s.gpr[r]],
        !.cpsr.mode = new_mode]

\* Both opcodes anew: the pipeline is a pair of places.
reload_pipeline16(s) ==
  [s EXCEPT !.pipeline = <<[at |-> Align(s.pc, 2), thumb |-> TRUE],
                           [at |-> Align(Wrap(s.pc + 2), 2), thumb |-> TRUE]>>,
            !.pc = Wrap(s.pc + 4)]
reload_pipeline32(s) ==
  [s EXCEPT !.pipeline = <<[at |-> Align(s.pc, 4), thumb |-> FALSE],
                           [at |-> Align(Wrap(s.pc + 4), 4), thumb |-> FALSE]>>,
            !.pc = Wrap(s.pc + 8)]

Fetch(s) ==
  [s EXCEPT !.pipeline = <<s.pipeline[2], [at |-> Align(s.pc, word_size(s)),
                                           thumb |-> s.cpsr.thumb]>>]
advance_arm(s) == [s EXCEPT !.pc = Wrap(s.pc + 4)]
advance_thumb(s) == [s EXCEPT !.pc = Wrap(s.pc + 2)]

Vector(e) == CASE e = "Reset" -> 0 [] e = "UndefinedInstruction" -> 4
               [] e = "SoftwareInterrupt" -> 8 [] e = "PrefatchAbort" -> 12
               [] e = "DataAbort" -> 16 [] e = "Irq" -> 24 [] e = "Fiq" -> 28
ExceptionMode(e) ==
  CASE e \in {"Reset", "SoftwareInterrupt"} -> "Supervisor"
    [] e = "UndefinedInstruction" -> "Undefined"
    [] e \in {"DataAbort", "PrefatchAbort"} -> "Abort"
    [] e = "Irq" -> "Irq"
    [] e = "Fiq" -> "Fiq"

\* The link register and the saved status go to the new mode's bank, and from
\* there to the live registers, unless that bank is already the live one.
exception(s, e, lr) ==
  LET new_mode == ExceptionMode(e)
      banked == [s EXCEPT !.spsr_bank[bank_index(new_mode)] = s.cpsr,
                          !.gpr_banked_r14[bank_index(new_mode)] = lr]
      changed == change_mode(banked, s.cpsr.mode, new_mode)
  IN  reload_pipeline32([changed EXCEPT
        !.cpsr.thumb = FALSE, !.cpsr.mode = new_mode,
        !.cpsr.irq_off = @ \/ e \in {"Reset", "SoftwareInterrupt", "Irq", "Fiq"},
        !.cpsr.fiq_off = @ \/ e \in {"Reset", "Fiq"},
        !.pc = Vector(e)])

\* Mutant of irq: the link register without the pipeline's offset.
IrqLinkShort(s) == IF s.cpsr.irq_off THEN s ELSE exception(s, "Irq", get_next_pc(s))
irq(s) == IF s.cpsr.irq_off THEN s ELSE exception(s, "Irq", Wrap(get_next_pc(s) + 4))
software_interrupt(s, lr) == exception(s, "SoftwareInterrupt", lr)

\* Mutant of transfer_spsr_mode: the status returns, the banks do not.
TransferWithoutBanks(s) == IF s.spsr.mode = NoMode THEN s ELSE [s EXCEPT !.cpsr = s.spsr]
transfer_spsr_mode(s) ==
  IF s.spsr.mode = NoMode THEN s
  ELSE [(IF s.cpsr.mode # s.spsr.mode THEN change_mode(s, s.cpsr.mode, s.spsr.mode)
                                       ELSE s) EXCEPT !.cpsr = s.spsr]

\* The physical registers of a bank, wherever they are at the moment.
File(s) ==
  LET live == bank_index(s.cpsr.mode)
      fiq == s.cpsr.mode = "Fiq"
  IN  [b \in BankIndices |->
        [r \in Gprs |->
           CASE r = 13 -> IF b = live THEN s.gpr[13] ELSE s.gpr_banked_r13[b]
             [] r = 14 -> IF b = live THEN s.gpr[14] ELSE s.gpr_banked_r14[b]
             [] r \in FiqBanked ->
                  IF (b = 1) = fiq THEN s.gpr[r]
                  ELSE IF b = 1 THEN s.gpr_banked_fiq_r8_12[r]
                  ELSE s.gpr_banked_old_r8_12[r]
             [] OTHER -> s.gpr[r]]]
Saved(s) == [b \in BankIndices \ {0} |->
               IF b = bank_index(s.cpsr.mode) THEN s.spsr ELSE s.spsr_bank[b]]
=============================================================================
