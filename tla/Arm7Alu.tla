------------------------------ MODULE Arm7Alu -------------------------------
(***************************************************************************)
(* arm7tdmi/src/alu.rs and the conditions of cpu.rs: the barrel shifter,   *)
(* the additions and subtractions that set flags, and what a condition     *)
(* reads in them.  A shift returns its value and the carry it leaves; an   *)
(* addition its value, its carry and its overflow.                         *)
(***************************************************************************)
EXTENDS Words

AluOpCode == {"AND", "EOR", "SUB", "RSB", "ADD", "ADC", "SBC", "RSC",
              "TST", "TEQ", "CMP", "CMN", "ORR", "MOV", "BIC", "MVN"}
is_setting_flags(op) == op \in {"TST", "TEQ", "CMP", "CMN"}

Complement(a) == Modulus - 1 - a

lsl(val, amount, carry) ==
  CASE amount = 0 -> <<val, carry>>
    [] amount \in 1..(WordBits - 1) -> <<Wrap(val * 2^amount), Bit(val, WordBits - amount)>>
    [] amount = WordBits -> <<0, Bit(val, 0)>>
    [] OTHER -> <<0, FALSE>>

lsr(val, amount, carry, immediate) ==
  CASE amount = 0 -> IF immediate THEN <<0, Sign(val)>> ELSE <<val, carry>>
    [] amount \in 1..(WordBits - 1) -> <<val \div 2^amount, Bit(val, amount - 1)>>
    [] amount = WordBits -> <<0, Sign(val)>>
    [] OTHER -> <<0, FALSE>>

asr(val, amount, carry, immediate) ==
  LET n == IF immediate /\ amount = 0 THEN WordBits ELSE amount
  IN  CASE n = 0 -> <<val, carry>>
        [] n \in 1..(WordBits - 1) -> <<Wrap(Signed(val) \div 2^n), Bit(val, n - 1)>>
        [] OTHER -> <<IF Sign(val) THEN Modulus - 1 ELSE 0, Sign(val)>>

rrx(val, carry) == <<(val \div 2) + Num(carry) * 2^(WordBits - 1), Bit(val, 0)>>

RotateRight(val, n) == (val \div 2^n) + Wrap(val * 2^(WordBits - n))
ror(val, amount, carry, immediate, extended) ==
  IF amount = 0
  THEN IF immediate /\ extended THEN rrx(val, carry) ELSE <<val, carry>>
  ELSE LET v == RotateRight(val, amount % WordBits) IN <<v, Sign(v)>>

barrel_shift_op(shift, val, amount, carry, immediate) ==
  CASE shift = "LSL" -> lsl(val, amount, carry)
    [] shift = "LSR" -> lsr(val, amount, carry, immediate)
    [] shift = "ASR" -> asr(val, amount, carry, immediate)
    [] shift = "ROR" -> ror(val, amount, carry, immediate, TRUE)

Result(n, carry, overflow) == [val |-> Wrap(n), c |-> carry, v |-> overflow]
\* Mutant of alu_sub_flags: equal operands borrow.
SubBorrowsWhenEqual(a, b) ==
  Result(a - b, b < a, Signed(a) - Signed(b) # Signed(Wrap(a - b)))
alu_sub_flags(a, b) ==
  Result(a - b, b <= a, Signed(a) - Signed(b) # Signed(Wrap(a - b)))
alu_add_flags(a, b) ==
  Result(a + b, a + b >= Modulus, Signed(a) + Signed(b) # Signed(Wrap(a + b)))
alu_adc_flags(a, b, c) ==
  LET n == a + b + Num(c)
  IN  Result(n, n >= Modulus, Sign(a) = Sign(b) /\ Sign(b) # Sign(Wrap(n)))
alu_sbc_flags(a, b, c) == alu_adc_flags(a, Complement(b), c)

\* With the S bit: carry is the shifter's, f the flags before the instruction.
AluWithFlags(op, a, b, carry, f) ==
  LET logical(n) == Result(n, carry, f.v)
  IN  CASE op \in {"AND", "TST"} -> logical(BitAnd(a, b))
        [] op \in {"EOR", "TEQ"} -> logical(BitXor(a, b))
        [] op \in {"SUB", "CMP"} -> alu_sub_flags(a, b)
        [] op = "RSB" -> alu_sub_flags(b, a)
        [] op \in {"ADD", "CMN"} -> alu_add_flags(a, b)
        [] op = "ADC" -> alu_adc_flags(a, b, f.c)
        [] op = "SBC" -> alu_sbc_flags(a, b, f.c)
        [] op = "RSC" -> alu_sbc_flags(b, a, f.c)
        [] op = "ORR" -> logical(BitOr(a, b))
        [] op = "MOV" -> logical(b)
        [] op = "BIC" -> logical(BitAnd(a, Complement(b)))
        [] op = "MVN" -> logical(Complement(b))

\* Without it.  c is the carry the shifter has left, not the carry flag.
AluValue(op, a, b, c) ==
  Wrap(CASE op = "AND" -> BitAnd(a, b)
         [] op = "EOR" -> BitXor(a, b)
         [] op = "SUB" -> a - b
         [] op = "RSB" -> b - a
         [] op = "ADD" -> a + b
         [] op = "ADC" -> a + b + Num(c)
         [] op = "SBC" -> a - (b + (1 - Num(c)))
         [] op = "RSC" -> b - (a + (1 - Num(c)))
         [] op = "ORR" -> BitOr(a, b)
         [] op = "MOV" -> b
         [] op = "BIC" -> BitAnd(a, Complement(b))
         [] op = "MVN" -> Complement(b))

check_arm_cond(cond, f) ==
  CASE cond = "EQ" -> f.z
    [] cond = "NE" -> ~f.z
    [] cond = "HS" -> f.c
    [] cond = "LO" -> ~f.c
    [] cond = "MI" -> f.n
    [] cond = "PL" -> ~f.n
    [] cond = "VS" -> f.v
    [] cond = "VC" -> ~f.v
    [] cond = "HI" -> f.c /\ ~f.z
    [] cond = "LS" -> ~f.c \/ f.z
    [] cond = "GE" -> f.n = f.v
    [] cond = "LT" -> f.n # f.v
    [] cond = "GT" -> ~f.z /\ f.n = f.v
    [] cond = "LE" -> f.z \/ f.n # f.v
    [] cond = "AL" -> TRUE
    [] cond = "Invalid" -> FALSE
=============================================================================
