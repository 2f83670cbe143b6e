------------------------------ MODULE Arm7Cpu -------------------------------
(***************************************************************************)
(* arm7tdmi/src/arm/exec.rs, thumb/exec.rs, memory.rs and Arm7tdmiCore's   *)
(* step(): what each instruction does to the processor and to the memory.  *)
(*                                                                         *)
(* An instruction i is the record of its decoded fields, and the handler   *)
(* of its format maps the processor before to the processor after it; the  *)
(* memory, s.mem, holds the words of Ram and reads as 0 elsewhere.  The    *)
(* const parameters of a handler are fields of i like any other.           *)
(***************************************************************************)
EXTENDS Arm7Alu, Arm7Modes, FiniteSets, Sequences

CONSTANT Ram   \* the word addresses that can be stored to

\* A status register fits a word, and the powers of two are what they are.
ASSUME StatusAssumption ==
  /\ WordBits >= 12
  /\ \A m, n \in 0..WordBits : m + n <= WordBits => 2^m > 0 /\ 2^(m + n) = 2^m * 2^n

---------------------------------------------------------------------------
\* memory.rs

load_32(s, a) == LET w == Align(a, 4) IN IF w \in Ram THEN s.mem[w] ELSE 0
load_16(s, a) == Field(load_32(s, a), (Align(a, 2) % 4) * ByteBits, 2 * ByteBits)
load_8(s, a) == Field(load_32(s, a), (a % 4) * ByteBits, ByteBits)

StoreField(s, a, lane, bits, val) ==
  LET w == Align(a, 4)
      old == s.mem[w]
  IN  IF w \in Ram
      THEN [s EXCEPT !.mem[w] = old - Field(old, lane * ByteBits, bits) * 2^(lane * ByteBits)
                                    + (val % 2^bits) * 2^(lane * ByteBits)]
      ELSE s
store_32(s, a, val) == StoreField(s, a, 0, WordBits, val)
store_16(s, a, val) == StoreField(s, a, Align(a, 2) % 4, 2 * ByteBits, val)
store_8(s, a, val) == StoreField(s, a, a % 4, ByteBits, val)

\* A misaligned word or half-word is rotated, and the rotation's carry goes
\* to the carry flag: the value and the flag.
ldr_word(s, a) == ror(load_32(s, a), (a % 4) * ByteBits, s.cpsr.c, FALSE, FALSE)
ldr_half(s, a) == ror(load_16(s, a), (a % 2) * ByteBits, s.cpsr.c, FALSE, FALSE)
ldr_sign_half(s, a) ==
  IF a % 2 # 0 THEN SignExtended(load_8(s, a), ByteBits)
  ELSE SignExtended(load_16(s, a), 2 * ByteBits)

---------------------------------------------------------------------------
\* psr.rs: the status register as a word.

ModeNumber(m) ==
  CASE m = "User" -> 16 [] m = "Fiq" -> 17 [] m = "Irq" -> 18 [] m = "Supervisor" -> 19
    [] m = "Abort" -> 23 [] m = "Undefined" -> 27 [] m = "System" -> 31 [] m = NoMode -> 0
PsrWord(p) ==
  ModeNumber(p.mode) + Num(p.thumb) * 32 + Num(p.fiq_off) * 64 + Num(p.irq_off) * 128
  + (Num(p.n) * 8 + Num(p.z) * 4 + Num(p.c) * 2 + Num(p.v)) * 2^(WordBits - 4)
WordPsr(w) ==
  [mode |-> IF \E m \in CpuMode : ModeNumber(m) = w % 32
            THEN CHOOSE m \in CpuMode : ModeNumber(m) = w % 32 ELSE NoMode,
   thumb |-> Bit(w, 5), fiq_off |-> Bit(w, 6), irq_off |-> Bit(w, 7),
   n |-> Bit(w, WordBits - 1), z |-> Bit(w, WordBits - 2),
   c |-> Bit(w, WordBits - 3), v |-> Bit(w, WordBits - 4)]
SetFlags(s, p) == [s EXCEPT !.cpsr.n = p.n, !.cpsr.z = p.z, !.cpsr.c = p.c, !.cpsr.v = p.v]
alu_update_flags(s, val, carry, overflow) ==
  SetFlags(s, [n |-> Sign(val), z |-> val = 0, c |-> carry, v |-> overflow])

---------------------------------------------------------------------------
\* arm/exec.rs

exec_arm_b_bl(s, i) ==
  LET linked == IF i.link THEN set_reg(s, 14, Align(Wrap(pc_arm(s) + word_size(s)), 2)) ELSE s
  IN  reload_pipeline32([linked EXCEPT !.pc = Align(Wrap(s.pc + i.offset), 2)])

\* Mutant of branch_exchange: the state of the processor stays what it was.
BranchWithoutExchange(s, addr) ==
  IF Bit(addr, 0) THEN reload_pipeline16([s EXCEPT !.pc = Align(addr, 2)])
  ELSE reload_pipeline32([s EXCEPT !.pc = Align(addr, 4)])
branch_exchange(s, addr) ==
  IF Bit(addr, 0)
  THEN reload_pipeline16([s EXCEPT !.cpsr.thumb = TRUE, !.pc = Align(addr, 2)])
  ELSE reload_pipeline32([s EXCEPT !.cpsr.thumb = FALSE, !.pc = Align(addr, 4)])
exec_arm_bx(s, i) == branch_exchange(s, get_reg(s, i.rm))

exec_arm_mrs(s, i) ==
  advance_arm(set_reg(s, i.rd, PsrWord(IF i.spsr THEN s.spsr ELSE s.cpsr)))

\* An immediate's rotation leaves its carry in the flag, whatever the mask.
StatusOperand(s, i) ==
  WordPsr(IF i.is_imm THEN ror(i.imm, 2 * i.rot, s.cpsr.c, FALSE, TRUE)[1] ELSE get_reg(s, i.rm))
exec_arm_transfer_to_status(s, i) ==
  LET rotated == ror(i.imm, 2 * i.rot, s.cpsr.c, FALSE, TRUE)
      value == StatusOperand(s, i)
      t == IF i.is_imm THEN [s EXCEPT !.cpsr.c = rotated[2]] ELSE s
      flags == IF i.f THEN value ELSE t.cpsr
      control == IF i.c THEN value ELSE t.cpsr
      new_psr == [control EXCEPT !.n = flags.n, !.z = flags.z, !.c = flags.c, !.v = flags.v]
  IN  advance_arm(
        CASE t.cpsr.mode = "User" -> SetFlags(t, value)
          [] t.cpsr.mode # "User" /\ i.spsr -> [t EXCEPT !.spsr = value]
          [] OTHER -> [change_mode(t, t.cpsr.mode, new_psr.mode) EXCEPT !.cpsr = new_psr])

\* The shifted operand and the shifter's carry.  A shift by a register sees
\* the program counter four bytes further on.
register_shift(s, i) ==
  IF i.by = "register"
  THEN barrel_shift_op(i.shift, Wrap(get_reg(s, i.rm) + (IF i.rm = 15 THEN 4 ELSE 0)),
                       get_reg(s, i.rs) % 256, s.cpsr.c, FALSE)
  ELSE barrel_shift_op(i.shift, get_reg(s, i.rm), i.amount, s.cpsr.c, TRUE)

exec_arm_data_processing(s, i) ==
  LET op1 == Wrap(get_reg(s, i.rn) + (IF i.rn = 15 /\ i.by = "register" THEN 4 ELSE 0))
      op2 == IF i.by = "immediate" THEN ror(i.imm, 2 * i.rot, s.cpsr.c, FALSE, TRUE)
             ELSE register_shift(s, i)
      s_flag == i.s /\ i.rd # 15
      t == IF i.s /\ i.rd = 15 THEN transfer_spsr_mode(s) ELSE s
      full == AluWithFlags(i.op, op1, op2[1], op2[2], t.cpsr)
      val == IF s_flag THEN full.val ELSE AluValue(i.op, op1, op2[1], op2[2])
      flagged == IF s_flag THEN alu_update_flags(t, full.val, full.c, full.v) ELSE t
  IN  IF is_setting_flags(i.op) THEN advance_arm(flagged)
      ELSE IF i.rd # 15 THEN advance_arm(set_reg(flagged, i.rd, val))
      ELSE IF t.cpsr.thumb THEN reload_pipeline16(set_reg(flagged, 15, val))
      ELSE reload_pipeline32(set_reg(flagged, 15, val))

\* The effective address of a single transfer: base plus or minus offset.
EffectiveAddress(s, i, offset) ==
  Wrap(IF i.add THEN get_reg(s, i.rn) + offset ELSE get_reg(s, i.rn) - offset)
\* A post-indexed transfer with the write-back bit set is done as the user.
ForceUser(s, i) ==
  IF ~i.pre /\ i.writeback THEN change_mode(s, s.cpsr.mode, "User") ELSE s
StoredValue(s, r) == IF r = 15 THEN Wrap(s.pc + 4) ELSE get_reg(s, r)
LoadInto(s, r, val) ==
  LET t == set_reg(s, r, val) IN IF r = 15 THEN reload_pipeline32(t) ELSE advance_arm(t)
WriteBase(s, i, effective) ==
  IF (~i.load \/ i.rn # i.rd) /\ (~i.pre \/ i.writeback) THEN set_reg(s, i.rn, effective) ELSE s

exec_arm_ldr_str(s, i) ==
  LET offset == IF i.by = "immediate" THEN i.imm ELSE register_shift(s, i)[1]
      effective == EffectiveAddress(s, i, offset)
      a == IF i.pre THEN effective ELSE get_reg(s, i.rn)
      u == ForceUser(s, i)
      word == ldr_word(u, a)
      moved == CASE i.load /\ i.byte -> LoadInto(u, i.rd, load_8(u, a))
                 [] i.load /\ ~i.byte -> LoadInto([u EXCEPT !.cpsr.c = word[2]], i.rd, word[1])
                 [] ~i.load /\ i.byte -> advance_arm(store_8(u, a, StoredValue(u, i.rd)))
                 [] OTHER -> advance_arm(store_32(u, a, StoredValue(u, i.rd)))
      based == WriteBase(moved, i, effective)
  IN  IF ~i.pre /\ i.writeback THEN change_mode(based, based.cpsr.mode, s.cpsr.mode) ELSE based

\* Half-words and signed bytes: after a post-indexed one with the write-back
\* bit set the processor stays the user.
ldr_str_hs_common(s, i) ==
  LET effective == EffectiveAddress(s, i, IF i.by = "immediate" THEN i.imm ELSE get_reg(s, i.rm))
      a == IF i.pre THEN effective ELSE get_reg(s, i.rn)
      u == ForceUser(s, i)
      half == ldr_half(u, a)
      moved == CASE i.load /\ i.hs = "SignedByte" ->
                      LoadInto(u, i.rd, SignExtended(load_8(u, a), ByteBits))
                 [] i.load /\ i.hs = "SignedHalfwords" -> LoadInto(u, i.rd, ldr_sign_half(u, a))
                 [] i.load /\ i.hs = "UnsignedHalfwords" ->
                      LoadInto([u EXCEPT !.cpsr.c = half[2]], i.rd, half[1])
                 [] ~i.load /\ i.hs = "SignedByte" ->
                      advance_arm(store_8(u, a, StoredValue(u, i.rd)))
                 [] OTHER -> advance_arm(store_16(u, a, StoredValue(u, i.rd)))
  IN  WriteBase(moved, i, effective)

\* The registers of a list go to rising addresses in their order.
Rank(list, r) == Cardinality({q \in list : q < r})
StoreList(s, list, addr, val) ==
  [s EXCEPT !.mem = [w \in Ram |->
     LET at == {r \in list : Align(addr[r], 4) = w} IN
     IF at = {} THEN s.mem[w] ELSE val[CHOOSE r \in at : TRUE]]]
LoadList(s, list, addr) ==
  [s EXCEPT !.gpr = [r \in Gprs |-> IF r \in list THEN load_32(s, addr[r]) ELSE s.gpr[r]]]

\* LDM/STM.  The base is written back at once when the transfer descends and
\* after it, in the mode before, when it ascends.
exec_arm_ldm_stm(s, i) ==
  LET list == i.list
      old_base == get_reg(s, i.rn)
      size == 4 * Cardinality(list)
      user == i.s /\ (~i.load \/ 15 \notin list)
      u == IF user THEN change_mode(s, s.cpsr.mode, "User") ELSE s
      base == IF i.add \/ list = {} THEN old_base ELSE Wrap(old_base - size)
      t == IF ~i.add /\ list # {} /\ i.writeback THEN set_reg(u, i.rn, base) ELSE u
      full == IF ~i.add /\ list # {} THEN ~i.pre ELSE i.pre
      addr == [r \in list |-> Wrap(base + 4 * Rank(list, r) + (IF full THEN 4 ELSE 0))]
      stored == [r \in list |->
                   CASE r = i.rn -> IF Rank(list, r) = 0 THEN old_base
                                    ELSE Wrap(IF i.add THEN old_base + size ELSE old_base - size)
                     [] r # i.rn -> StoredValue(t, r)]
      loaded == LoadList(t, list, addr)
      jumped == LET j == set_reg(loaded, 15, load_32(t, addr[15]))
                IN  reload_pipeline32(IF i.s THEN transfer_spsr_mode(j) ELSE j)
      empty == IF i.load
               THEN LET w == ldr_word(t, base)
                    IN  reload_pipeline32(set_reg([t EXCEPT !.cpsr.c = w[2]], 15, Align(w[1], 4)))
               ELSE advance_arm(store_32(t, Wrap(base + (CASE ~i.add /\ ~full -> -60
                                                           [] ~i.add /\ full -> -64
                                                           [] i.add /\ ~full -> 0
                                                           [] i.add /\ full -> 4)),
                                         Wrap(t.pc + 4)))
      done == CASE list = {} -> empty
                [] list # {} /\ i.load /\ 15 \in list -> jumped
                [] list # {} /\ i.load /\ 15 \notin list -> advance_arm(loaded)
                [] OTHER -> advance_arm(StoreList(t, list, addr, stored))
      back == IF user THEN change_mode(done, done.cpsr.mode, s.cpsr.mode) ELSE done
      final == CASE list = {} -> Wrap(IF i.add THEN base + 64 ELSE base - 64)
                 [] OTHER -> Wrap(base + size)
  IN  IF i.writeback /\ (list = {} \/ (i.add /\ ~(i.load /\ i.rn \in list)))
      THEN set_reg(back, i.rn, final) ELSE back

MulFlags(s, i, negative, zero) ==
  IF i.s THEN SetFlags(s, [n |-> negative, z |-> zero, c |-> FALSE, v |-> FALSE]) ELSE s
exec_arm_mul_mla(s, i) ==
  LET val == Wrap(get_reg(s, i.rm) * get_reg(s, i.rs)
                  + (IF i.accumulate THEN get_reg(s, i.rn) ELSE 0))
  IN  advance_arm(MulFlags(set_reg(s, i.rd, val), i, Sign(val), val = 0))

exec_arm_mull_mlal(s, i) ==
  LET a == get_reg(s, i.rm)
      b == get_reg(s, i.rs)
      product == IF i.u_flag THEN Signed(a) * Signed(b) ELSE a * b
      sum == IF i.accumulate THEN product + get_reg(s, i.rd_hi) * Modulus + get_reg(s, i.rd_lo)
             ELSE product
      hi == Wrap(sum \div Modulus)
      lo == Wrap(sum)
  IN  advance_arm(MulFlags(set_reg(set_reg(s, i.rd_hi, hi), i.rd_lo, lo), i, Sign(hi),
                           hi = 0 /\ lo = 0))

exec_arm_swp(s, i) ==
  LET a == get_reg(s, i.rn)
      word == ldr_word(s, a)
      new == get_reg(s, i.rm)
  IN  advance_arm(IF i.byte THEN set_reg(store_8(s, a, new), i.rd, load_8(s, a))
                  ELSE set_reg([store_32(s, a, new) EXCEPT !.cpsr.c = word[2]], i.rd, word[1]))

exec_arm_swi(s, i) == software_interrupt(s, Wrap(s.pc - 4))

---------------------------------------------------------------------------
\* thumb/exec.rs

exec_thumb_move_shifted_reg(s, i) ==
  LET r == barrel_shift_op(i.shift, s.gpr[i.rs], i.amount, s.cpsr.c, TRUE)
  IN  advance_thumb(alu_update_flags(set_reg(s, i.rd, r[1]), r[1], r[2], s.cpsr.v))

FlaggedThumb(s, r, rd, writes) ==
  LET t == alu_update_flags(s, r.val, r.c, r.v)
  IN  advance_thumb(IF writes THEN set_reg(t, rd, r.val) ELSE t)

exec_thumb_add_sub(s, i) ==
  LET b == IF i.by = "immediate" THEN i.imm ELSE get_reg(s, i.rn)
      a == get_reg(s, i.rs)
  IN  FlaggedThumb(s, IF i.sub THEN alu_sub_flags(a, b) ELSE alu_add_flags(a, b), i.rd, TRUE)

exec_thumb_data_process_imm(s, i) ==
  LET a == s.gpr[i.rd]
      r == CASE i.op = "MOV" -> Result(i.imm, s.cpsr.c, s.cpsr.v)
             [] i.op \in {"CMP", "SUB"} -> alu_sub_flags(a, i.imm)
             [] i.op = "ADD" -> alu_add_flags(a, i.imm)
  IN  FlaggedThumb(s, r, i.rd, i.op # "CMP")

exec_thumb_alu_ops(s, i) ==
  LET dst == get_reg(s, i.rd)
      src == get_reg(s, i.rs)
      shifted == barrel_shift_op(i.op, dst, src % 256, s.cpsr.c, FALSE)
      r == CASE i.op \in {"LSL", "LSR", "ASR", "ROR"} -> Result(shifted[1], shifted[2], s.cpsr.v)
             [] i.op = "NEG" -> alu_sub_flags(0, src)
             [] i.op = "MUL" -> Result(dst * src, FALSE, FALSE)
             [] OTHER -> AluWithFlags(i.op, dst, src, s.cpsr.c, s.cpsr)
  IN  FlaggedThumb(s, r, i.rd, i.op \notin {"TST", "CMP", "CMN"})

exec_thumb_hi_reg_op_or_bx(s, i) ==
  LET a == get_reg(s, i.rd)
      b == get_reg(s, i.rs)
      put(val) == LET t == set_reg(s, i.rd, val)
                  IN  IF i.rd = 15 THEN reload_pipeline16(t) ELSE advance_thumb(t)
  IN  CASE i.op = "BX" -> branch_exchange(s, b)
        [] i.op = "ADD" -> put(Wrap(a + b))
        [] i.op = "MOV" -> put(b)
        [] i.op = "CMP" -> FlaggedThumb(s, alu_sub_flags(a, b), i.rd, FALSE)

exec_thumb_ldr_pc(s, i) ==
  advance_thumb(set_reg(s, i.rd, load_32(s, Wrap(Align(s.pc, 4) + i.imm))))

do_exec_thumb_ldr_str(s, i, byte, addr) ==
  LET word == ldr_word(s, addr)
  IN  advance_thumb(
        CASE i.load /\ byte -> set_reg(s, i.rd, load_8(s, addr))
          [] i.load /\ ~byte -> set_reg([s EXCEPT !.cpsr.c = word[2]], i.rd, word[1])
          [] ~i.load /\ byte -> store_8(s, addr, get_reg(s, i.rd))
          [] OTHER -> store_32(s, addr, get_reg(s, i.rd)))
exec_thumb_ldr_str_reg_offset(s, i) ==
  do_exec_thumb_ldr_str(s, i, i.byte, Wrap(s.gpr[i.rb] + s.gpr[i.ro]))
exec_thumb_ldr_str_imm_offset(s, i) ==
  do_exec_thumb_ldr_str(s, i, i.byte, Wrap(s.gpr[i.rb] + i.imm))
exec_thumb_ldr_str_sp(s, i) ==
  do_exec_thumb_ldr_str(s, i, FALSE, Wrap(s.gpr[13] + i.imm))

exec_thumb_ldr_str_shb(s, i) ==
  LET a == Wrap(s.gpr[i.rb] + s.gpr[i.ro])
      half == ldr_half(s, a)
  IN  advance_thumb(
        CASE ~i.sign /\ ~i.half -> store_16(s, a, s.gpr[i.rd])
          [] ~i.sign /\ i.half -> set_reg([s EXCEPT !.cpsr.c = half[2]], i.rd, half[1])
          [] i.sign /\ ~i.half -> set_reg(s, i.rd, SignExtended(load_8(s, a), ByteBits))
          [] i.sign /\ i.half -> set_reg(s, i.rd, ldr_sign_half(s, a)))
exec_thumb_ldr_str_halfword(s, i) ==
  LET a == Wrap(s.gpr[i.rb] + i.imm)
      half == ldr_half(s, a)
  IN  advance_thumb(IF i.load THEN set_reg([s EXCEPT !.cpsr.c = half[2]], i.rd, half[1])
                    ELSE store_16(s, a, s.gpr[i.rd]))

exec_thumb_load_address(s, i) ==
  advance_thumb(set_reg(s, i.rd, Wrap(IF i.sp THEN s.gpr[13] + i.imm
                                      ELSE Align(pc_thumb(s) + 4, 4) + i.imm)))
exec_thumb_add_sp(s, i) ==
  advance_thumb(set_reg(s, 13, Wrap(IF i.sub THEN s.gpr[13] - i.imm ELSE s.gpr[13] + i.imm)))

\* The link register lies above the low registers, the program counter too.
exec_thumb_push_pop(s, i) ==
  LET list == i.list \cup (IF ~i.r THEN {} ELSE IF i.pop THEN {15} ELSE {14})
      size == 4 * Cardinality(list)
      sp == s.gpr[13]
      low == IF i.pop THEN sp ELSE Wrap(sp - size)
      addr == [r \in list |-> Wrap(low + 4 * Rank(list, r))]
      t == [LoadList(s, list, addr) EXCEPT !.gpr[13] = Wrap(sp + size)]
  IN  CASE i.pop /\ i.r -> reload_pipeline16(set_reg(t, 15, load_32(s, addr[15])))
        [] i.pop /\ ~i.r -> advance_thumb(t)
        [] OTHER -> advance_thumb([StoreList(s, list, addr, [r \in list |-> s.gpr[r]])
                                   EXCEPT !.gpr[13] = low])

exec_thumb_ldm_stm(s, i) ==
  LET keep == s.gpr[i.rb] % 4
      base == Align(s.gpr[i.rb], 4)
      size == 4 * Cardinality(i.list)
      addr == [r \in i.list |-> Wrap(base + 4 * Rank(i.list, r))]
      stored == [r \in i.list |-> CASE r # i.rb -> s.gpr[r]
                                    [] r = i.rb /\ Rank(i.list, r) = 0 -> base
                                    [] OTHER -> Wrap(addr[r] + size - 4)]
      back(t, n) == set_reg(t, i.rb, Wrap(base + n + keep))
  IN  CASE i.list # {} /\ i.load ->
             LET t == advance_thumb(LoadList(s, i.list, addr))
             IN  IF i.rb \in i.list THEN t ELSE back(t, size)
        [] i.list # {} /\ ~i.load ->
             advance_thumb(back(StoreList(s, i.list, addr, stored), size))
        [] i.list = {} /\ i.load ->
             back(reload_pipeline16(set_reg(s, 15, Align(load_32(s, base), 2))), 64)
        [] OTHER -> advance_thumb(back(store_32(s, base, Wrap(s.pc + 2)), 64))

Jump16(s, target) == reload_pipeline16([s EXCEPT !.pc = target])
exec_thumb_branch_with_cond(s, i) ==
  IF check_arm_cond(i.cond, s.cpsr) THEN Jump16(s, Wrap(s.pc + i.offset)) ELSE advance_thumb(s)
exec_thumb_swi(s, i) == exception(s, "SoftwareInterrupt", Wrap(s.pc - 2))
exec_thumb_branch(s, i) == Jump16(s, Wrap(s.pc + i.offset))
exec_thumb_branch_long_with_link(s, i) ==
  IF i.low
  THEN Jump16(set_reg(s, 14, Wrap(Align(s.pc - 2, 2) + 1)), Wrap(Align(s.gpr[14], 2) + i.offset))
  ELSE advance_thumb(set_reg(s, 14, Wrap(s.pc + i.offset)))

---------------------------------------------------------------------------
\* cpu.rs: ARM_LUT, THUMB_LUT and step().

step_arm_exec(s, i) ==
  CASE i.fmt = "BranchLink" -> exec_arm_b_bl(s, i)
    [] i.fmt = "BranchExchange" -> exec_arm_bx(s, i)
    [] i.fmt = "MoveFromStatus" -> exec_arm_mrs(s, i)
    [] i.fmt = "MoveToStatus" -> exec_arm_transfer_to_status(s, i)
    [] i.fmt = "DataProcessing" -> exec_arm_data_processing(s, i)
    [] i.fmt = "SingleDataTransfer" -> exec_arm_ldr_str(s, i)
    [] i.fmt = "HalfwordDataTransfer" -> ldr_str_hs_common(s, i)
    [] i.fmt = "BlockDataTransfer" -> exec_arm_ldm_stm(s, i)
    [] i.fmt = "Multiply" -> exec_arm_mul_mla(s, i)
    [] i.fmt = "MultiplyLong" -> exec_arm_mull_mlal(s, i)
    [] i.fmt = "SingleDataSwap" -> exec_arm_swp(s, i)
    [] i.fmt = "SoftwareInterrupt" -> exec_arm_swi(s, i)

step_thumb_exec(s, i) ==
  CASE i.fmt = "MoveShiftedReg" -> exec_thumb_move_shifted_reg(s, i)
    [] i.fmt = "AddSub" -> exec_thumb_add_sub(s, i)
    [] i.fmt = "DataProcessImm" -> exec_thumb_data_process_imm(s, i)
    [] i.fmt = "AluOps" -> exec_thumb_alu_ops(s, i)
    [] i.fmt = "HiRegOpOrBranchExchange" -> exec_thumb_hi_reg_op_or_bx(s, i)
    [] i.fmt = "LdrPc" -> exec_thumb_ldr_pc(s, i)
    [] i.fmt = "LdrStrRegOffset" -> exec_thumb_ldr_str_reg_offset(s, i)
    [] i.fmt = "LdrStrSHB" -> exec_thumb_ldr_str_shb(s, i)
    [] i.fmt = "LdrStrImmOffset" -> exec_thumb_ldr_str_imm_offset(s, i)
    [] i.fmt = "LdrStrHalfWord" -> exec_thumb_ldr_str_halfword(s, i)
    [] i.fmt = "LdrStrSp" -> exec_thumb_ldr_str_sp(s, i)
    [] i.fmt = "LoadAddress" -> exec_thumb_load_address(s, i)
    [] i.fmt = "AddSp" -> exec_thumb_add_sp(s, i)
    [] i.fmt = "PushPop" -> exec_thumb_push_pop(s, i)
    [] i.fmt = "LdmStm" -> exec_thumb_ldm_stm(s, i)
    [] i.fmt = "BranchConditional" -> exec_thumb_branch_with_cond(s, i)
    [] i.fmt = "Swi" -> exec_thumb_swi(s, i)
    [] i.fmt = "Branch" -> exec_thumb_branch(s, i)
    [] i.fmt = "BranchLongWithLink" -> exec_thumb_branch_long_with_link(s, i)

\* step(): the next opcode is fetched, the oldest one, i, is executed.
step(s, i) ==
  LET t == Fetch(s)
  IN  CASE ~s.cpsr.thumb /\ ~check_arm_cond(i.cond, s.cpsr) -> advance_arm(t)
        [] ~s.cpsr.thumb /\ check_arm_cond(i.cond, s.cpsr) -> step_arm_exec(t, i)
        [] OTHER -> step_thumb_exec(t, i)

-----------------------------------------------------------------------------
(***************************************************************************)
(* A program on the processor, the interrupts that arrive between its      *)
(* instructions and the handlers that the BIOS and a game run for them.    *)
(* What the program does next is chosen freely from Instructions; a        *)
(* handler is a list of instructions, since it must put back what it uses. *)
(***************************************************************************)

CONSTANTS ArmInstructions, ThumbInstructions,
          IrqHandler, SwiHandler,   \* sequences of ARM instructions
          Starts,                   \* the processors the program starts with
          MaxSteps,                 \* bound on the program's instructions
          MaxIrqs                   \* bound on the interrupts

\* The fields that the decoders give each format.
Reg == Gprs \cup {15}
Conditions == {"EQ", "NE", "HS", "LO", "MI", "PL", "VS", "VC", "HI", "LS", "GE", "LT", "GT", "LE",
               "AL", "Invalid"}
Shifts == {"LSL", "LSR", "ASR", "ROR"}

ShiftedRegister(i) ==
  /\ i.rm \in Reg /\ i.shift \in Shifts
  /\ \/ i.by = "amount" /\ i.amount \in 0..31
     \/ i.by = "register" /\ i.rs \in Reg

\* A transfer; its base is not the program counter if it is written back.
Based(i) ==
  /\ {i.load, i.pre, i.writeback, i.add} \subseteq BOOLEAN /\ i.rn \in Reg
  /\ i.rn = 15 => i.pre /\ ~i.writeback

\* What the program is written with: every format, but not the program counter where an
\* instruction's result in it is unpredictable.
ArmForm(i) ==
  /\ i.cond \in Conditions
  /\ CASE i.fmt = "BranchLink" -> i.link \in BOOLEAN /\ i.offset \in Int /\ i.offset % 4 = 0
       [] i.fmt = "BranchExchange" -> i.rm \in Reg
       [] i.fmt = "MoveFromStatus" -> i.rd \in Gprs /\ i.spsr \in BOOLEAN
       [] i.fmt = "MoveToStatus" ->
            /\ {i.is_imm, i.spsr, i.f, i.c} \subseteq BOOLEAN
            /\ IF i.is_imm THEN i.imm \in Word /\ i.rot \in 0..15 ELSE i.rm \in Reg
       [] i.fmt = "DataProcessing" ->
            /\ i.op \in AluOpCode /\ i.s \in BOOLEAN /\ i.rn \in Reg /\ i.rd \in Reg
            /\ IF i.by = "immediate" THEN i.imm \in Word /\ i.rot \in 0..15 ELSE ShiftedRegister(i)
            /\ is_setting_flags(i.op) => i.rd # 15
       [] i.fmt = "SingleDataTransfer" ->
            /\ Based(i) /\ i.byte \in BOOLEAN /\ i.rd \in Reg
            /\ IF i.by = "immediate" THEN i.imm \in Word ELSE ShiftedRegister(i)
       [] i.fmt = "HalfwordDataTransfer" ->
            /\ Based(i) /\ i.hs \in {"SignedByte", "SignedHalfwords", "UnsignedHalfwords"}
            /\ i.rd \in Reg
            /\ IF i.by = "immediate" THEN i.imm \in Word ELSE i.rm \in Reg
       [] i.fmt = "BlockDataTransfer" ->
            Based(i) /\ i.s \in BOOLEAN /\ i.rn # 15 /\ i.list \subseteq Reg
       [] i.fmt = "Multiply" ->
            {i.rd, i.rn, i.rs, i.rm} \subseteq Gprs /\ {i.s, i.accumulate} \subseteq BOOLEAN
       [] i.fmt = "MultiplyLong" ->
            /\ {i.rd_hi, i.rd_lo, i.rs, i.rm} \subseteq Gprs
            /\ {i.s, i.accumulate, i.u_flag} \subseteq BOOLEAN
       [] i.fmt = "SingleDataSwap" -> {i.rn, i.rm} \subseteq Reg /\ i.rd \in Gprs /\ i.byte \in BOOLEAN
       [] i.fmt = "SoftwareInterrupt" -> TRUE
       [] OTHER -> FALSE

ThumbForm(i) ==
  CASE i.fmt = "MoveShiftedReg" ->
         i.shift \in Shifts /\ i.amount \in 0..31 /\ {i.rs, i.rd} \subseteq Gprs
    [] i.fmt = "AddSub" -> /\ i.sub \in BOOLEAN /\ {i.rs, i.rd} \subseteq Gprs
                           /\ IF i.by = "immediate" THEN i.imm \in Word ELSE i.rn \in Gprs
    [] i.fmt = "DataProcessImm" -> i.op \in {"MOV", "CMP", "ADD", "SUB"} /\ i.rd \in Gprs /\ i.imm \in Word
    [] i.fmt = "AluOps" -> /\ i.op \in (AluOpCode \ {"SUB", "RSB", "ADD", "RSC", "TEQ", "MOV"})
                                     \cup Shifts \cup {"NEG", "MUL"}
                           /\ {i.rs, i.rd} \subseteq Gprs
    [] i.fmt = "HiRegOpOrBranchExchange" -> i.op \in {"ADD", "CMP", "MOV", "BX"} /\ {i.rs, i.rd} \subseteq Reg
    [] i.fmt = "LdrPc" -> i.rd \in Gprs /\ i.imm \in Word
    [] i.fmt = "LdrStrRegOffset" -> {i.load, i.byte} \subseteq BOOLEAN /\ {i.rb, i.ro, i.rd} \subseteq Gprs
    [] i.fmt = "LdrStrSHB" -> {i.sign, i.half} \subseteq BOOLEAN /\ {i.rb, i.ro, i.rd} \subseteq Gprs
    [] i.fmt = "LdrStrImmOffset" ->
         {i.load, i.byte} \subseteq BOOLEAN /\ {i.rb, i.rd} \subseteq Gprs /\ i.imm \in Word
    [] i.fmt = "LdrStrHalfWord" -> i.load \in BOOLEAN /\ {i.rb, i.rd} \subseteq Gprs /\ i.imm \in Word
    [] i.fmt = "LdrStrSp" -> i.load \in BOOLEAN /\ i.rd \in Gprs /\ i.imm \in Word
    [] i.fmt = "LoadAddress" -> i.sp \in BOOLEAN /\ i.rd \in Gprs /\ i.imm \in Word
    [] i.fmt = "AddSp" -> i.sub \in BOOLEAN /\ i.imm \in Word
    [] i.fmt = "PushPop" -> {i.pop, i.r} \subseteq BOOLEAN /\ i.list \subseteq Gprs
    [] i.fmt = "LdmStm" -> i.load \in BOOLEAN /\ i.rb \in Gprs /\ i.list \subseteq Gprs
    [] i.fmt = "BranchConditional" -> i.cond \in Conditions /\ i.offset \in Int /\ i.offset % 2 = 0
    [] i.fmt = "Swi" -> TRUE
    [] i.fmt = "Branch" -> i.offset \in Int /\ i.offset % 2 = 0
    [] i.fmt = "BranchLongWithLink" -> i.low \in BOOLEAN /\ i.offset \in Int /\ i.offset % 2 = 0
    [] OTHER -> FALSE

\* A processor between two instructions.
Slot == [at : Word, thumb : BOOLEAN]
Processor ==
  [pc : Word, pipeline : Slot \X Slot, gpr : [Gprs -> Word], cpsr : RegPSR, spsr : RegPSR,
   gpr_banked_r13 : [BankIndices -> Word], gpr_banked_r14 : [BankIndices -> Word],
   gpr_banked_old_r8_12 : [FiqBanked -> Word], gpr_banked_fiq_r8_12 : [FiqBanked -> Word],
   spsr_bank : [BankIndices -> RegPSR], mem : [Ram -> Word]]

\* It is in a mode, and both slots hold what was fetched on the way to pc.
InStep(s) ==
  /\ s.cpsr.mode \in CpuMode /\ s.pc % word_size(s) = 0
  /\ s.pipeline = <<[at |-> get_next_pc(s), thumb |-> s.cpsr.thumb],
                    [at |-> Wrap(s.pc - word_size(s)), thumb |-> s.cpsr.thumb]>>

\* A handler makes no call of its own.
CodeOf(h) == {h[k] : k \in DOMAIN h}
IsHandler(h) ==
  /\ h \in Seq(CodeOf(h)) \ {<<>>}
  /\ \A i \in CodeOf(h) : ArmForm(i) /\ i.fmt # "SoftwareInterrupt"

ASSUME ProgramAssumption ==
  /\ \A i \in ArmInstructions : ArmForm(i)
  /\ \A i \in ThumbInstructions : ThumbForm(i)
  /\ IsHandler(IrqHandler) /\ IsHandler(SwiHandler)
  /\ \A s \in Starts : s \in Processor /\ InStep(s)

VARIABLES cpu,
          handlers,   \* what is left of the handlers being run, the innermost first
          steps, irqs,
          last,       \* history: the instruction just executed, or "irq"
          frames      \* history: for each handler, what it interrupted
pvars == <<cpu, handlers, steps, irqs, last, frames>>

PInit ==
  /\ cpu \in Starts
  /\ handlers = <<>> /\ frames = <<>>
  /\ steps = 0 /\ irqs = 0
  /\ last = [fmt |-> "none"]

\* A mode's registers, its status and the instruction it will run next.
Frame(s, next) == [cpsr |-> s.cpsr, next |-> next, file |-> File(s)[bank_index(s.cpsr.mode)]]

Taken(i) == cpu.cpsr.thumb \/ check_arm_cond(i.cond, cpu.cpsr)
IsSwi(i) == i.fmt \in {"SoftwareInterrupt", "Swi"}
\* The instructions whose result is unpredictable, or that end the emulator,
\* are not written; nor is SWI in Supervisor mode, whose link register
\* exception() does not set.  An LDM that restores the status reloads the
\* pipeline at ARM width and then writes its base back in the mode it has
\* returned to: it returns to ARM code, without a rising write-back.  MSR leaves
\* the processor in a mode, and in ARM state.
Written(i) ==
  /\ IsSwi(i) => cpu.cpsr.mode # "Supervisor"
  /\ (i.fmt = "BlockDataTransfer" /\ i.load /\ i.s /\ 15 \in i.list) =>
       ~cpu.spsr.thumb /\ (i.add /\ i.writeback => i.rn \in i.list)
  /\ (i.fmt = "MoveToStatus" /\ i.c /\ ~i.spsr /\ cpu.cpsr.mode # "User") =>
       LET p == StatusOperand(cpu, i) IN p.mode \in CpuMode /\ ~p.thumb
  /\ (i.fmt = "BlockDataTransfer" /\ i.s) => cpu.cpsr.mode \notin {"User", "System"}
  /\ (i.fmt \in {"MoveToStatus", "MoveFromStatus"} /\ i.spsr) => cpu.cpsr.mode # "User"

Run(i) ==
  /\ handlers = <<>> /\ steps < MaxSteps
  /\ Written(i)
  /\ cpu' = step(cpu, i)
  /\ last' = i
  /\ steps' = steps + 1
  /\ IF IsSwi(i) /\ Taken(i)
     THEN /\ handlers' = <<SwiHandler>>
          /\ frames' = <<Frame(cpu, Wrap(get_next_pc(cpu) + word_size(cpu)))>>
     ELSE UNCHANGED <<handlers, frames>>
  /\ UNCHANGED irqs

\* Handlers are ARM code.
Handle ==
  /\ handlers # <<>> /\ ~cpu.cpsr.thumb /\ Written(Head(Head(handlers)))
  /\ LET left == Tail(Head(handlers))
     IN  /\ cpu' = step(cpu, Head(Head(handlers)))
         /\ handlers' = IF left = <<>> THEN Tail(handlers) ELSE <<left>> \o Tail(handlers)
         /\ frames' = IF left = <<>> THEN Tail(frames) ELSE frames
  /\ last' = Head(Head(handlers))
  /\ UNCHANGED <<steps, irqs>>

Interrupt ==
  /\ ~cpu.cpsr.irq_off /\ irqs < MaxIrqs
  /\ cpu' = irq(cpu)
  /\ handlers' = <<IrqHandler>> \o handlers
  /\ frames' = <<Frame(cpu, get_next_pc(cpu))>> \o frames
  /\ last' = [fmt |-> "irq"]
  /\ irqs' = irqs + 1
  /\ UNCHANGED steps

RunArm == ~cpu.cpsr.thumb /\ \E i \in ArmInstructions : Run(i)
RunThumb == cpu.cpsr.thumb /\ \E i \in ThumbInstructions : Run(i)
PNext == RunArm \/ RunThumb \/ Handle \/ Interrupt
PSpec == PInit /\ [][PNext]_pvars

---------------------------------------------------------------------------
\* The opcode that will run next is the one fetched from get_next_pc(), at
\* the width of the current state: the return address of an interrupt and
\* the breakpoints of a debugger are computed from it (cpu.rs get_next_pc,
\* exception.rs irq).
NextPcIsNext ==
  cpu.pipeline[1] = [at |-> get_next_pc(cpu), thumb |-> cpu.cpsr.thumb]

\* When a handler returns, what it interrupted goes on with the next
\* instruction, the status, the stack, the link and the other registers it
\* had, through nested interrupts too (exception.rs, change_mode, the ^ and S
\* forms of exec.rs).
HandlersAreInvisible ==
  [][Len(frames') < Len(frames) =>
       /\ get_next_pc(cpu') = frames[1].next
       /\ cpu'.cpsr = frames[1].cpsr
       /\ File(cpu')[bank_index(cpu'.cpsr.mode)] = frames[1].file]_pvars

\* A bank's registers change only when an instruction runs in one of its
\* modes, when an exception enters it, or through a transfer of the user's
\* registers: whatever modes are visited in between, change_mode brings each
\* register back to where it was.
ForUser(i) ==
  \/ i.fmt = "BlockDataTransfer" /\ i.s
  \/ i.fmt \in {"SingleDataTransfer", "HalfwordDataTransfer"} /\ ~i.pre /\ i.writeback
Entered == last'.fmt = "irq" \/ IsSwi(last')
OwnBanks ==
  LET here == bank_index(cpu.cpsr.mode)
      there == bank_index(cpu'.cpsr.mode)
      same(b, r) == File(cpu')[b][r] = File(cpu)[b][r]
  IN  \A b \in BankIndices \ {here} :
        /\ \A r \in {13, 14} :
             \/ same(b, r)
             \/ b = 0 /\ ForUser(last')
             \/ b = there /\ r = 14 /\ Entered
        /\ \A r \in FiqBanked :
             same(b, r) \/ (b = 1) = (here = 1) \/ (b # 1 /\ ForUser(last'))
        /\ b # 0 => \/ Saved(cpu')[b] = Saved(cpu)[b]
                    \/ b = there /\ Entered
BanksAreOwn == [][OwnBanks]_pvars

\* Additions and subtractions, also those that chain through the carry, give
\* the integers' result, and the conditions read after a comparison order its
\* operands as unsigned and as signed numbers (alu.rs, check_arm_cond).
Exact(op, a, b, c) ==
  CASE op \in {"ADD", "CMN"} -> a + b
    [] op = "ADC" -> a + b + c
    [] op \in {"SUB", "CMP"} -> a - b
    [] op = "SBC" -> a - b - (1 - c)
    [] op = "RSB" -> b - a
    [] op = "RSC" -> b - a - (1 - c)
Sums == {"ADD", "CMN", "ADC"}
Differences == {"SUB", "CMP", "SBC", "RSB", "RSC"}
Computes(s, i, t) ==
  LET a == get_reg(s, i.rn)
      b == register_shift(s, i)[1]
      c == Num(s.cpsr.c)
      n == Exact(i.op, a, b, c)
      signed == Exact(i.op, Signed(a), Signed(b), c)
      f == t.cpsr
  IN  /\ f.n = Sign(Wrap(n)) /\ f.z = (Wrap(n) = 0)
      /\ f.c = (IF i.op \in Sums THEN n >= Modulus ELSE n >= 0)
      /\ f.v = (signed \notin (-(Modulus \div 2))..(Modulus \div 2 - 1))
      /\ ~is_setting_flags(i.op) => t.gpr[i.rd] = Wrap(n)
      /\ i.op \in {"SUB", "CMP"} =>
           /\ check_arm_cond("HS", f) = (a >= b) /\ check_arm_cond("HI", f) = (a > b)
           /\ check_arm_cond("GE", f) = (Signed(a) >= Signed(b))
           /\ check_arm_cond("GT", f) = (Signed(a) > Signed(b))
           /\ check_arm_cond("LS", f) = (a <= b)
           /\ check_arm_cond("LE", f) = (Signed(a) <= Signed(b))
Arithmetic(i) ==
  i.fmt = "DataProcessing" /\ i.s /\ i.rd # 15 /\ i.op \in Sums \cup Differences /\ i.by = "amount"
ExactArithmetic == Arithmetic(last') /\ Taken(last') => Computes(cpu, last', cpu')
ArithmeticIsExact == [][ExactArithmetic]_pvars
=============================================================================
