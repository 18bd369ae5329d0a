----------------------------- MODULE VeaDecode -----------------------------
(***************************************************************************)
(* Stage 1 of the core's decoder, core/decode.sv: from the bytes of a      *)
(* frame to the fields stage 2 and Execute use.  Where illegal is set the  *)
(* other fields mean nothing, and the narrow group tests do let undefined  *)
(* opcodes set them.                                                       *)
(***************************************************************************)
EXTENDS VeaFrame

Bit(x, i) == (x \div 2 ^ i) % 2 = 1
Bits(x, hi, lo) == (x \div 2 ^ lo) % 2 ^ (hi - lo + 1)

(* The opcode groups, by the few bits that tell the defined ones apart.    *)
in_misc(op) == Bits(op, 6, 4) = 0
in_alu(op) == Bits(op, 5, 4) = 1
in_cmp(op) == Bits(op, 5, 4) = 2
in_ctl(op) == Bits(op, 5, 4) = 3
in_mem(op) == Bits(op, 6, 4) = 4

is_mov(op) == in_misc(op) /\ Bit(op, 0)
is_not(op) == in_alu(op) /\ Bits(op, 3, 0) = 4
is_bj(op) == in_ctl(op) /\ ~Bit(op, 7)
is_b(op) == is_bj(op) /\ ~Bit(op, 0)
is_jmp(op) == is_bj(op) /\ Bit(op, 0)
is_load(op) == in_mem(op) /\ ~Bit(op, 0)
is_store(op) == in_mem(op) /\ Bit(op, 0)
is_trap(op) == Bit(op, 7) /\ ~Bit(op, 0)
is_halt(op) == Bit(op, 7) /\ Bit(op, 0)

legal_opcode(op) ==
    CASE Bits(op, 7, 4) \in {0, 2, 3, 4} -> Bits(op, 3, 1) = 0
      [] Bits(op, 7, 4) = 1              -> Bits(op, 3, 0) <= 10
      [] Bits(op, 7, 4) = 15             -> Bits(op, 3, 1) = 7
      [] OTHER                           -> FALSE
-----------------------------------------------------------------------------
(* The byte the last operand starts at. *)
opnd_at_2(op) == in_ctl(op)
opnd_at_3(op) == is_mov(op) \/ is_not(op) \/ in_cmp(op)
opnd_at_4(op) == (in_alu(op) /\ ~is_not(op)) \/ in_mem(op)

imm_form(f) ==
    IF in_ctl(Opcode(f)) THEN FlagBit(f, 3) \/ is_trap(Opcode(f)) ELSE FlagBit(f, 0)

Sign(f) ==
    CASE opnd_at_2(Opcode(f)) -> LenOf(f) > 2 /\ f[2] >= 128
      [] opnd_at_3(Opcode(f)) -> LenOf(f) > 3 /\ f[3] >= 128
      [] OTHER                -> LenOf(f) > 4 /\ f[4] >= 128

Fill(f) == IF Sign(f) THEN 255 ELSE 0

(* Byte p of the 21-byte wide word, and the eight bytes the shift by the   *)
(* complement of the length leaves at its bottom: the payload slides down, *)
(* the fill slides in above it.                                            *)
WideByte_NoLead(f, p) ==
    CASE p < 0                 -> 0
      [] p \in 0 .. 9          -> Fill(f)
      [] p \in 10 .. 18        -> f[p - 6]
      [] OTHER                 -> 0

WideByte(f, p) ==
    LET op == Opcode(f) IN
    CASE p < 0                 -> 0
      [] p \in 0 .. 7          -> Fill(f)
      [] p = 8                 -> IF opnd_at_2(op) THEN f[2] ELSE Fill(f)
      [] p = 9                 -> IF opnd_at_2(op) \/ opnd_at_3(op) THEN f[3] ELSE Fill(f)
      [] p \in 10 .. 18        -> f[p - 6]
      [] OTHER                 -> 0

Imm(f) == [i \in 1 .. 8 |-> WideByte(f, LenOf(f) - 3 + i)]

(* Register numbers: bit 5 of the opcode moves the sources down a byte.    *)
RegNum(b) == b % NumRegs

raddr_a(f) == RegNum(IF Bit(Opcode(f), 5) THEN f[2] ELSE f[3])

raddr_b(f) ==
    RegNum(IF is_store(Opcode(f)) /\ imm_form(f) THEN f[2]
           ELSE IF Bit(Opcode(f), 5) THEN f[3] ELSE f[4])

(* "none": the operations the ALU calls unsupported, as it does div. *)
alu_op(f) ==
    LET n == Bits(Opcode(f), 3, 0) IN
    IF in_alu(Opcode(f))
    THEN CASE n <= 10 -> AluOfNibble[n + 1]
           [] n = 11  -> "cmp"
           [] n = 12  -> "cmp_s"
           [] OTHER   -> "none"
    ELSE IF in_cmp(Opcode(f)) THEN IF Bit(Opcode(f), 0) THEN "cmp_s" ELSE "cmp"
    ELSE "add"
-----------------------------------------------------------------------------
(* Faults.  Only a byte the format uses as a register can be a bad one.    *)
uses_r2(f) ==
    opnd_at_3(Opcode(f)) \/ opnd_at_4(Opcode(f)) \/ (is_bj(Opcode(f)) /\ ~imm_form(f))
uses_r3(f) == opnd_at_4(Opcode(f)) \/ (opnd_at_3(Opcode(f)) /\ ~imm_form(f))
uses_r4(f) == opnd_at_4(Opcode(f)) /\ ~imm_form(f)

reg_bad(f) ==
    \/ uses_r2(f) /\ f[2] >= NumRegs
    \/ uses_r3(f) /\ f[3] >= NumRegs
    \/ uses_r4(f) /\ f[4] >= NumRegs

(* Fetch has marked a length below two. *)
len_bad(f, bad_len) == bad_len \/ LenOf(f) > 12

imm_bad(f) ==
    /\ imm_form(f)
    /\ \/ (is_bj(Opcode(f)) \/ is_trap(Opcode(f))) /\ LenOf(f) > 10
       \/ opnd_at_3(Opcode(f)) /\ LenOf(f) > 11

pred_bad(f) == is_b(Opcode(f)) /\ FlagBits(f) % 8 = 7

Illegal(f, bad_len) ==
    ~legal_opcode(Opcode(f)) \/ len_bad(f, bad_len) \/ imm_bad(f) \/ pred_bad(f) \/ reg_bad(f)

AluOps == AluFn \cup {"cmp", "cmp_s", "none"}

Insn ==
    [pc : Word, imm : Word, imm_form : BOOLEAN, src_in_a : BOOLEAN, is_b : BOOLEAN,
     idx_store : BOOLEAN, alu_op : AluOps, rd : RegNums, raddr_a : RegNums,
     raddr_b : RegNums, wr_en : BOOLEAN, is_bj : BOOLEAN, pred : 0 .. 7,
     is_load : BOOLEAN, is_store : BOOLEAN, mem_size : 0 .. 3, mem_sext : BOOLEAN,
     is_trap : BOOLEAN, is_halt : BOOLEAN, illegal : BOOLEAN]

(* The result of stage 1 for the frame f that Fetch offers at byte address pc. *)
Stage1(f, pc, bad_len) ==
    LET op == Opcode(f) IN
    [ pc        |-> pc,
      imm       |-> ValueOf(Imm(f)),
      imm_form  |-> imm_form(f),
      src_in_a  |-> is_mov(op) \/ is_not(op) \/ is_jmp(op) \/ is_trap(op),
      is_b      |-> is_b(op),
      idx_store |-> is_store(op) /\ ~imm_form(f),
      alu_op    |-> alu_op(f),
      rd        |-> RegNum(f[2]),
      raddr_a   |-> raddr_a(f),
      raddr_b   |-> raddr_b(f),
      wr_en     |-> is_mov(op) \/ in_alu(op) \/ is_load(op),
      is_bj     |-> is_bj(op),
      pred      |-> IF is_jmp(op) THEN 0 ELSE FlagBits(f) % 8,
      is_load   |-> is_load(op),
      is_store  |-> is_store(op),
      mem_size  |-> Bits(FlagBits(f), 2, 1),
      mem_sext  |-> FlagBit(f, 3),
      is_trap   |-> is_trap(op),
      is_halt   |-> is_halt(op),
      illegal   |-> Illegal(f, bad_len) ]
=============================================================================
