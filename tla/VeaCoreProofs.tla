--------------------------- MODULE VeaCoreProofs ---------------------------
(***************************************************************************)
(* Proofs about the composed core, for every program, memory content,      *)
(* register count, ALU table and depth of the multiplier: its types, its   *)
(* invariants, and that it implements VeaArch.  What they need to know of  *)
(* the decoder is in RtlProofs.                                            *)
(***************************************************************************)
EXTENDS VeaCore, SimDecode, TLAPS

(* What the proofs need of the decoder is proved in RtlProofs, whose two   *)
(* words, sample bytes and width of a word play no part in it.             *)
Rtl == INSTANCE RtlProofs WITH a <- 0, b <- 0, SampleBytes <- {}, Width <- 0

(* The opcodes of the instruction set. *)
Legal == {0, 1} \cup (16 .. 26) \cup {32, 33, 48, 49, 64, 65, 254, 255}

LEMMA EvenWords == WordSize % 2 = 0
  BY SizesAssumption

LEMMA RtlForm ==
    ASSUME NEW f
    PROVE  /\ Rtl!Opcode(f) = Opcode(f) /\ Rtl!LenOf(f) = LenOf(f)
           /\ Rtl!FlagBits(f) = FlagBits(f)
           /\ \A i : Rtl!FlagBit(f, i) = FlagBit(f, i)
           /\ Rtl!OperandAt(f) = OperandAt(f) /\ Rtl!HasOperand(f) = HasOperand(f)
           /\ Rtl!IsImm(f) = IsImm(f)
           /\ Rtl!SimImm(f) = SimImm(f) /\ Rtl!SimIllegal(f) = SimIllegal(f)
  BY Zenon
  DEF Opcode, Rtl!Opcode, LenOf, Rtl!LenOf, FlagBits, Rtl!FlagBits, FlagBit,
      Rtl!FlagBit, Unary, Rtl!Unary, Binary, Rtl!Binary, Mem, Rtl!Mem, Branch,
      Rtl!Branch, Nop, Rtl!Nop, Trap, Rtl!Trap, Halt, Rtl!Halt, OperandAt,
      Rtl!OperandAt, HasOperand, Rtl!HasOperand, IsImm, Rtl!IsImm, ImmLen,
      Rtl!ImmLen, RegBytes, Rtl!RegBytes, SimImm, Rtl!SimImm, SimIllegal,
      Rtl!SimIllegal

(* The wires of decode.sv. *)
LEMMA RtlWires ==
    ASSUME NEW f, NEW op, NEW bad
    PROVE  /\ Rtl!Opcode(f) = Opcode(f) /\ Rtl!LenOf(f) = LenOf(f)
           /\ Rtl!FlagBits(f) = FlagBits(f) /\ Rtl!imm_form(f) = imm_form(f)
           /\ Rtl!Imm(f) = Imm(f) /\ Rtl!alu_op(f) = alu_op(f)
           /\ Rtl!raddr_a(f) = raddr_a(f) /\ Rtl!raddr_b(f) = raddr_b(f)
           /\ Rtl!Illegal(f, bad) = Illegal(f, bad)
           /\ Rtl!FlagBit(f, 3) = FlagBit(f, 3)
           /\ Rtl!in_misc(op) = in_misc(op) /\ Rtl!in_alu(op) = in_alu(op)
           /\ Rtl!in_cmp(op) = in_cmp(op) /\ Rtl!in_ctl(op) = in_ctl(op)
           /\ Rtl!in_mem(op) = in_mem(op) /\ Rtl!is_mov(op) = is_mov(op)
           /\ Rtl!is_not(op) = is_not(op) /\ Rtl!is_bj(op) = is_bj(op)
           /\ Rtl!is_b(op) = is_b(op) /\ Rtl!is_jmp(op) = is_jmp(op)
           /\ Rtl!is_load(op) = is_load(op) /\ Rtl!is_store(op) = is_store(op)
           /\ Rtl!is_trap(op) = is_trap(op) /\ Rtl!is_halt(op) = is_halt(op)
           /\ Rtl!legal_opcode(op) = legal_opcode(op)
  BY Zenon
  DEF Opcode, Rtl!Opcode, LenOf, Rtl!LenOf, FlagBits, Rtl!FlagBits, FlagBit,
      Rtl!FlagBit, Bit, Rtl!Bit, Bits, Rtl!Bits, in_misc, Rtl!in_misc, in_alu,
      Rtl!in_alu, in_cmp, Rtl!in_cmp, in_ctl, Rtl!in_ctl, in_mem, Rtl!in_mem,
      is_mov, Rtl!is_mov, is_not, Rtl!is_not, is_bj, Rtl!is_bj, is_b, Rtl!is_b,
      is_jmp, Rtl!is_jmp, is_load, Rtl!is_load, is_store, Rtl!is_store,
      is_trap, Rtl!is_trap, is_halt, Rtl!is_halt, legal_opcode,
      Rtl!legal_opcode, opnd_at_2, Rtl!opnd_at_2, opnd_at_3, Rtl!opnd_at_3,
      opnd_at_4, Rtl!opnd_at_4, imm_form, Rtl!imm_form, uses_r2, Rtl!uses_r2,
      uses_r3, Rtl!uses_r3, uses_r4, Rtl!uses_r4, reg_bad, Rtl!reg_bad,
      len_bad, Rtl!len_bad, imm_bad, Rtl!imm_bad, pred_bad, Rtl!pred_bad,
      Illegal, Rtl!Illegal, Sign, Rtl!Sign, Fill, Rtl!Fill, WideByte,
      Rtl!WideByte, Imm, Rtl!Imm, alu_op, Rtl!alu_op, AluOfNibble,
      Rtl!AluOfNibble, RegNum, Rtl!RegNum, raddr_a, Rtl!raddr_a, raddr_b,
      Rtl!raddr_b

LEMMA RtlSets ==
    /\ Rtl!Word = Word /\ Rtl!Byte = Byte /\ Rtl!Frame = Frame
    /\ Rtl!Legal = Legal /\ Rtl!RegNums = RegNums /\ Rtl!Insn = Insn
    /\ Rtl!AluOfNibble = AluOfNibble
    /\ \A q : Rtl!ValueOf(q) = ValueOf(q)
    /\ \A y : Rtl!RegNum(y) = RegNum(y)
  BY Zenon
  DEF Word, Rtl!Word, Byte, Rtl!Byte, Frame, Rtl!Frame, MaxInsnBytes,
      Rtl!MaxInsnBytes, Legal, Rtl!Legal, RegNums, Rtl!RegNums, Insn,
      Rtl!Insn, AluOps, Rtl!AluOps, AluFn, Rtl!AluFn, AluOfNibble,
      Rtl!AluOfNibble, ValueOf, Rtl!ValueOf, Wrap, Rtl!Wrap, RegNum,
      Rtl!RegNum

LEMMA RtlStage1 ==
    ASSUME NEW f, NEW pc, NEW bad PROVE Rtl!Stage1(f, pc, bad) = Stage1(f, pc, bad)
<1>1. Rtl!ValueOf(Rtl!Imm(f)) = ValueOf(Imm(f)) /\ Rtl!RegNum(f[2]) = RegNum(f[2])
  BY RtlWires, RtlSets
<1> QED
  BY <1>1, RtlWires, SMT DEF Stage1, Rtl!Stage1, Bit, Rtl!Bit, Bits, Rtl!Bits

(* The bytes of a frame. *)
LEMMA FrameBytes ==
    ASSUME NEW f \in Frame
    PROVE  /\ \A k \in 0 .. 12 : f[k] \in Byte
           /\ Opcode(f) \in Byte
           /\ LenOf(f) \in 0 .. 15
           /\ FlagBits(f) \in 0 .. 15
  BY EvenWords, WordSizeAssumption, NumRegsAssumption, RtlForm, RtlSets,
     Rtl!FrameBytes

(* Stage 1 makes a record of the declared fields of any frame. *)
LEMMA Stage1Type ==
    ASSUME NEW f \in Frame, NEW pc \in Word, NEW bad \in BOOLEAN
    PROVE  Stage1(f, pc, bad) \in Insn
  BY EvenWords, WordSizeAssumption, NumRegsAssumption, RtlSets, RtlStage1,
     Rtl!Stage1Type

(* Where the simulators find the last operand. *)
LEMMA SimPositions ==
    ASSUME NEW f, Opcode(f) \in Legal
    PROVE  /\ Opcode(f) \in {48, 49, 254} => OperandAt(f) = 2
           /\ Opcode(f) \in {1, 20, 32, 33} => OperandAt(f) = 3
           /\ Opcode(f) \notin {1, 20, 32, 33, 48, 49, 254} => OperandAt(f) = 4
           /\ HasOperand(f) <=> Opcode(f) \notin {0, 254, 255}
           /\ IsImm(f) <=> IF Opcode(f) \in {48, 49} THEN FlagBit(f, 3)
                           ELSE Opcode(f) = 254 \/ (Opcode(f) \notin {0, 255} /\ FlagBit(f, 0))
  BY EvenWords, WordSizeAssumption, NumRegsAssumption, RtlForm, RtlSets,
     Rtl!SimPositions

(* The core refuses the frames the simulators refuse, and those of a       *)
(* length no format has.                                                   *)
LEMMA SameFaults ==
    ASSUME NEW f \in Frame
    PROVE  Illegal(f, LenOf(f) < 2) <=> SimIllegal(f) \/ LenOf(f) \notin 2 .. 12
  BY EvenWords, WordSizeAssumption, NumRegsAssumption, RtlForm, RtlWires, RtlSets,
     Rtl!SameFaults

(* A legal frame, as the simulators see it. *)
LEMMA LegalFrame ==
    ASSUME NEW f \in Frame, ~Illegal(f, LenOf(f) < 2)
    PROVE  Opcode(f) \in Legal /\ LenOf(f) \in 2 .. 12 /\ ~SimIllegal(f)
  BY EvenWords, WordSizeAssumption, NumRegsAssumption, RtlForm, RtlWires, RtlSets,
     Rtl!LegalFrame

(* The ALU functions the core treats apart. *)
LEMMA Nibbles ==
    ASSUME NEW op \in 16 .. 26
    PROVE  /\ AluOfNibble[(op % 16) + 1] \in AluFn
           /\ AluOfNibble[(op % 16) + 1] = "add" <=> op = 16
           /\ AluOfNibble[(op % 16) + 1] = "sub" <=> op = 17
           /\ AluOfNibble[(op % 16) + 1] = "not" <=> op = 20
           /\ AluOfNibble[(op % 16) + 1] = "mul" <=> op = 25
           /\ AluOfNibble[(op % 16) + 1] = "div" <=> op = 26
  BY DEF AluOfNibble, AluFn

(* What stage 1 of decode makes of a legal frame. *)
LEMMA Fields ==
    ASSUME NEW f \in Frame, NEW pc, ~Illegal(f, LenOf(f) < 2),
           NEW i, i = Stage1(f, pc, LenOf(f) < 2)
    PROVE  /\ i.pc = pc /\ ~i.illegal
           /\ Opcode(f) \notin {0, 255} => (i.imm_form <=> IsImm(f))
           /\ IsImm(f) => i.imm = ValueOf(SimImm(f))
           /\ i.src_in_a <=> Opcode(f) \in {1, 20, 49, 254}
           /\ i.is_b <=> Opcode(f) = 48
           /\ i.alu_op = IF Opcode(f) \in 16 .. 26 THEN AluOfNibble[(Opcode(f) % 16) + 1]
                         ELSE IF Opcode(f) = 32 THEN "cmp"
                         ELSE IF Opcode(f) = 33 THEN "cmp_s" ELSE "add"
           /\ i.wr_en <=> Opcode(f) \in {1, 64} \cup (16 .. 26)
           /\ i.is_bj <=> Opcode(f) \in {48, 49}
           /\ i.pred = IF Opcode(f) = 49 THEN 0 ELSE FlagBits(f) % 8
           /\ i.is_load <=> Opcode(f) = 64
           /\ i.is_store <=> Opcode(f) = 65
           /\ i.mem_size = (FlagBits(f) \div 2) % 4
           /\ i.mem_sext = FlagBit(f, 3)
           /\ i.is_trap <=> Opcode(f) = 254
           /\ i.is_halt <=> Opcode(f) = 255
  BY EvenWords, WordSizeAssumption, NumRegsAssumption, RtlForm, RtlWires, RtlSets, RtlStage1,
     Rtl!Fields

(* Where its registers are. *)
LEMMA Registers ==
    ASSUME NEW f \in Frame, NEW pc, ~Illegal(f, LenOf(f) < 2),
           NEW i, i = Stage1(f, pc, LenOf(f) < 2)
    PROVE  /\ Opcode(f) \in {1, 64, 65} \cup (16 .. 26) => i.rd = f[2] /\ f[2] \in RegNums
           /\ Opcode(f) \in {32, 33} \/ (Opcode(f) \in {48, 49} /\ ~IsImm(f))
                => i.raddr_a = f[2] /\ f[2] \in RegNums
           /\ Opcode(f) \in ((16 .. 26) \ {20}) \cup {64, 65}
                 \/ (Opcode(f) \in {1, 20} /\ ~IsImm(f))
                => i.raddr_a = f[3] /\ f[3] \in RegNums
           /\ Opcode(f) \in {32, 33} /\ ~IsImm(f)
                => i.raddr_b = f[3] /\ f[3] \in RegNums
           /\ Opcode(f) \in ((16 .. 26) \ {20}) \cup {64, 65} /\ ~IsImm(f)
                => i.raddr_b = f[4] /\ f[4] \in RegNums
  BY EvenWords, WordSizeAssumption, NumRegsAssumption, RtlForm, RtlWires, RtlSets, RtlStage1,
     Rtl!Registers

-----------------------------------------------------------------------------
(* The wires carry values of their type. *)
LEMMA WrapInWord == ASSUME NEW i \in Int PROVE Wrap(i) \in Word
  BY WordSizeAssumption DEF Wrap, Word

LEMMA OperandsInWord ==
    ASSUME TypeOK PROVE op_a \in Word /\ op_b \in Word /\ op_c \in Word
  BY DEF TypeOK, op_a, op_b, op_c

LEMMA AluInWord ==
    ASSUME NEW fn \in AluFn \ {"div"}, NEW a \in Word, NEW b \in Word
    PROVE  Alu[<<fn, a, b>>] \in Word
  BY TablesAssumption

LEMMA AluResultInWord == ASSUME TypeOK PROVE alu_result \in Word /\ mul_result \in Word
<1>1. "mul" \in AluFn \ {"div"}
  BY DEF AluFn
<1>2. mul_result \in Word
  BY <1>1, AluInWord DEF TypeOK, mul_result
<1>3. 0 \in Word
  BY WordSizeAssumption DEF Word
<1>4. x.alu_op \in AluFn \ {"div"} => Alu[<<x.alu_op, op_a, op_b>>] \in Word
  BY OperandsInWord, AluInWord
<1>5. alu_result \in Word
  BY <1>3, <1>4, Zenon DEF TypeOK, alu_result
<1> QED
  BY <1>2, <1>5

LEMMA LoadInWord == ASSUME TypeOK PROVE load_value \in Word
<1>1. x.mem_size \in 0 .. 3
  BY DEF TypeOK, Insn
<1>2. Narrow[x.mem_size] \in 1 .. WordSize
  BY <1>1, TablesAssumption
<1>3. dmem_rdata \in Word
  <2>1. dmem_req.addr \in Nat
    BY DEF TypeOK, MemReq, Word
  <2>2. CellAt(dmem_req.addr) \in Cell
    BY <2>1, SizesAssumption DEF CellAt, Cell
  <2> QED
    BY <2>2 DEF dmem_rdata, TypeOK
<1>4. \A m \in 1 .. WordSize, v \in Word :
         v % m \in 0 .. m - 1
  BY DEF Word
<1> DEFINE m == Narrow[x.mem_size]
           low == dmem_rdata % m
<1>5. low \in 0 .. m - 1
  BY <1>2, <1>3, <1>4
<1>6. load_value = IF x.mem_sext /\ 2 * low >= m THEN low + WordSize - m ELSE low
  BY DEF load_value, Low
<1> HIDE DEF low
<1> QED
  BY <1>2, <1>5, <1>6, WordSizeAssumption DEF Word

LEMMA CompareInFlags ==
    ASSUME NEW a \in Word, NEW b \in Word, NEW sign PROVE Compare(a, b, sign) \in Flags
<1> DEFINE diff == Signed(a) - Signed(b)
<1>1. (a = b) \in BOOLEAN /\ (a < b) \in BOOLEAN /\ (a >= b) \in BOOLEAN
  OBVIOUS
<1>2. (Signed(Wrap(diff)) < 0) \in BOOLEAN
  OBVIOUS
<1>3. (sign = "signed" /\ Signed(Wrap(diff)) # diff) \in BOOLEAN
  OBVIOUS
<1>4. (IF sign = "signed" THEN Signed(Wrap(diff)) < 0 ELSE a < b) \in BOOLEAN
  BY <1>1, <1>2, Zenon
<1> QED
  BY <1>1, <1>3, <1>4, Zenon DEF Compare, Flags

LEMMA ReadInWord ==
    ASSUME TypeOK, NEW r \in RegNums PROVE Read(r) \in Word
  BY DEF TypeOK, Read

LEMMA RegFieldsOf ==
    ASSUME NEW i \in Insn
    PROVE  /\ i.rd \in RegNums /\ i.raddr_a \in RegNums /\ i.raddr_b \in RegNums
           /\ i.imm \in Word /\ i.pc \in Word
  BY DEF Insn

LEMMA SelectInWord ==
    ASSUME NEW i \in Insn, NEW d \in Word
    PROVE  OperandA(i, d) \in Word /\ OperandB(i, d) \in Word
<1>1. i.imm \in Word /\ i.pc \in Word
  BY RegFieldsOf
<1>2. 0 \in Word
  BY WordSizeAssumption DEF Word
<1>3. i.src_in_a \in BOOLEAN /\ i.is_b \in BOOLEAN /\ i.imm_form \in BOOLEAN
  BY DEF Insn
<1> QED
  BY <1>1, <1>2, <1>3, Zenon DEF OperandA, OperandB

LEMMA ReadPortsInWord ==
    ASSUME TypeOK
    PROVE  /\ rf_rdata_a \in Word /\ rf_rdata_b \in Word
           /\ ex_a \in Word /\ ex_b \in Word /\ ex_c \in Word
<1>1. s2 \in Insn /\ store_value \in Word
  BY DEF TypeOK
<1>2. rf_rdata_a \in Word /\ rf_rdata_b \in Word
  BY <1>1, RegFieldsOf, ReadInWord DEF rf_rdata_a, rf_rdata_b
<1> QED
  BY <1>1, <1>2, SelectInWord DEF ex_a, ex_b, ex_c

LEMMA WritebackTypes ==
    ASSUME TypeOK
    PROVE  wb_rd \in RegNums /\ wb_data \in Word /\ wb_redirect_pc \in Pc
<1>1. wb_rd \in RegNums
  BY RegFieldsOf DEF TypeOK, wb_rd
<1>2. wb_data \in Word
  BY LoadInWord, AluResultInWord DEF wb_data
<1>3. add_result \in 0 .. 4 * PcSize - 1 /\ PcSize \in Nat
  BY SizesAssumption DEF TypeOK, Word
<1>4. wb_redirect_pc \in Pc
  BY <1>3 DEF wb_redirect_pc, Pc
<1> QED
  BY <1>1, <1>2, <1>4

LEMMA DecodedType == ASSUME TypeOK PROVE s1 \in Insn
<1>1. frame_bytes \in Pc /\ frame_pc_word \in Pc /\ frame_bad_len \in BOOLEAN
  BY DEF TypeOK, Fetch!TypeOK, Fetch!Pc, Pc
<1>2. Code[program][frame_bytes] \in Frame
  BY <1>1, ContentsAssumption DEF TypeOK
<1>3. 4 * frame_pc_word \in Word
  BY <1>1, SizesAssumption DEF Pc, Word
<1> QED
  BY <1>1, <1>2, <1>3, Stage1Type DEF s1
-----------------------------------------------------------------------------
(* Every register keeps its type.  Fetch reads the head of what instruction *)
(* memory owes, so a reply must be for something it owes.                  *)
Replies == imem_rvalid => imem_owed # <<>>

TInv == TypeOK /\ Replies

LEMMA InitTyped == Init => TInv
<1> SUFFICES ASSUME Init PROVE TInv
  OBVIOUS
<1>1. ResetPc \in Pc /\ 4 * ResetPc \in Word /\ 0 \in Word /\ 0 \in RegNums
  BY SizesAssumption, WordSizeAssumption, NumRegsAssumption DEF Pc, Word, RegNums
<1>2. s2 \in Insn /\ x \in Insn
  BY <1>1, ContentsAssumption, Stage1Type DEF Init
<1>3. Fetch!TypeOK
  <2>1. Lengths[program] \in [Pc -> 0 .. 15]
    <3>1. \A a \in Pc : LenOf(Code[program][a]) \in 0 .. 15
      BY ContentsAssumption, FrameBytes DEF Init
    <3> QED
      BY <3>1 DEF Init, Lengths
  <2>2. imem_owed \in Seq(Pc)
    BY DEF Init, Fetch!Init
  <2>3. frame_ready \in BOOLEAN
    BY DEF Init, frame_ready
  <2> QED
    BY <1>1, <2>1, <2>2, <2>3, Zenon
    DEF Init, Fetch!Init, Fetch!TypeOK, Fetch!Pc, Pc, Fetch!States
<1>4. cc \in Flags
  BY DEF Init, NoFlags, Flags
<1>5. stage_valid \in [1 .. MulStages -> BOOLEAN] /\ regs \in [RegNums -> Word]
  BY <1>1 DEF Init
<1>6. dmem_req \in MemReq
  BY <1>1 DEF Init, MemReq
<1>7. dmem \in [Cell -> Word]
  BY ContentsAssumption DEF Init
<1>8. TypeOK
  BY <1>1, <1>2, <1>3, <1>4, <1>5, <1>6, <1>7, Zenon DEF Init, TypeOK, WaitStates
<1> QED
  BY <1>8 DEF TInv, Replies, Init, Fetch!Init

(* The control wires are Boolean. *)
LEMMA WiresBoolean ==
    ASSUME TypeOK
    PROVE  /\ completing \in BOOLEAN /\ wb_valid \in BOOLEAN
           /\ wb_redirect_valid \in BOOLEAN /\ dmem_req_taken \in BOOLEAN
           /\ mul_start \in BOOLEAN /\ ex_valid \in BOOLEAN /\ frame_ready \in BOOLEAN
           /\ ex_fwd_a \in BOOLEAN /\ ex_fwd_b \in BOOLEAN /\ ex_fwd_c \in BOOLEAN
           /\ Completes(s2.rd) \in BOOLEAN /\ read_value \in BOOLEAN
<1>1. MulStages \in 1 .. MulStages
  BY SizesAssumption
<1>2. mul_valid \in BOOLEAN /\ dmem_rvalid \in BOOLEAN
  BY <1>1 DEF mul_valid, TypeOK
<1>3. completing \in BOOLEAN
  BY <1>2, Zenon DEF completing, TypeOK, WaitStates
<1>4. ex_fwd_c \in BOOLEAN
  BY Zenon DEF ex_fwd_c, Completes, wb_valid, TypeOK
<1> QED
  BY <1>3, <1>4, Zenon
  DEF wb_valid, wb_redirect_valid, dmem_req_taken, dmem_req_valid, mul_start, ex_valid,
      frame_ready, ex_fwd_a, ex_fwd_b, Completes, read_value, need_value, ex_ready,
      can_issue

(* Fetch's registers.  The frame at every address has a length nibble, and *)
(* the address register wraps.                                             *)
LEMMA FetchStays == ASSUME TInv, Cycle PROVE Fetch!TypeOK'
<1> DEFINE lens == Lengths[program]
<1>1. TypeOK /\ Fetch!TypeOK /\ Replies
  BY DEF TInv, TypeOK
<1>2. program' = program /\ Lengths[program]' = lens
  BY DEF Cycle
<1>3. lens \in [Pc -> 0 .. 15]
  BY <1>1 DEF Fetch!TypeOK, Fetch!Pc, Pc
<1> HIDE DEF lens
<1>4. Fetch!accept_reply => Fetch!imem_rdata \in Pc
  <2>1. imem_owed \in Seq(Pc)
    BY <1>1 DEF Fetch!TypeOK, Fetch!Pc, Pc
  <2>2. Fetch!accept_reply => imem_owed # <<>>
    BY <1>1 DEF Replies, Fetch!accept_reply
  <2>3. imem_owed # <<>> => Head(imem_owed) \in Pc
    BY <2>1
  <2> QED
    BY <2>2, <2>3 DEF Fetch!imem_rdata
<1>5. Fetch!accept_reply => Fetch!next_pc \in Pc
  <2> SUFFICES ASSUME Fetch!accept_reply PROVE Fetch!next_pc \in Pc
    OBVIOUS
  <2>1. lens[Fetch!imem_rdata] \in 0 .. 15
    BY <1>3, <1>4
  <2>2. \A n \in 0 .. 15 : Fetch!LenWords(n) \in Nat
    BY DEF Fetch!LenWords
  <2>3. \A a \in Pc, n \in Nat : (a + n) % PcSize \in Pc
    BY SizesAssumption DEF Pc
  <2>4. fetch_pc \in Pc
    BY <1>1 DEF Fetch!TypeOK, Fetch!Pc, Pc
  <2> QED
    BY <2>1, <2>2, <2>3, <2>4 DEF Fetch!next_pc, lens
<1>6. fetch_state' \in Fetch!States
  BY <1>1, Zenon DEF Cycle, Fetch!StateRegister, Fetch!AfterRedirect, Fetch!InSequence,
     Fetch!TypeOK, Fetch!States
<1>7. fetch_pc' \in Pc
  BY <1>1, <1>5, Zenon DEF Cycle, Fetch!PcRegister, Fetch!TypeOK, Fetch!Pc, Pc
<1>8. frame_pc_word' \in Pc /\ frame_bytes' \in Pc /\ frame_bad_len' \in BOOLEAN
  <2>1. (lens[Fetch!imem_rdata] < Fetch!LenMin) \in BOOLEAN
    OBVIOUS
  <2> QED
    BY <1>1, <1>4, <2>1, Zenon DEF Cycle, Fetch!FrameRegisters, Fetch!TypeOK, Fetch!Pc, Pc, lens
<1>9. imem_owed' \in Seq(Pc)
  <2>1. imem_owed \in Seq(Pc) /\ fetch_pc \in Pc
    BY <1>1 DEF Fetch!TypeOK, Fetch!Pc, Pc
  <2>2. imem_rvalid => Tail(imem_owed) \in Seq(Pc)
    BY <1>1, <2>1 DEF Replies
  <2>3. \A q \in Seq(Pc) : Append(q, fetch_pc) \in Seq(Pc)
    BY <2>1
  <2> QED
    BY <2>1, <2>2, <2>3, Zenon DEF Cycle, Fetch!Memory
<1>10. imem_req_ready' \in BOOLEAN /\ imem_rvalid' \in BOOLEAN
  BY Zenon DEF Cycle, Fetch!Memory
<1>11. redirect_valid' \in BOOLEAN /\ redirect_pc' \in Pc
  BY <1>1, WiresBoolean, WritebackTypes, Zenon
  DEF Cycle, Writeback, Fetch!TypeOK, Fetch!Pc, Pc
<1>12. halt' \in BOOLEAN
  BY <1>1, Zenon DEF Cycle, HaltLatch, Fetch!TypeOK, TypeOK, s2_load, Fetch!frame_valid
<1>13. frame_ready' \in BOOLEAN
  BY Zenon DEF frame_ready
<1> QED
  BY <1>2, <1>3, <1>6, <1>7, <1>8, <1>9, <1>10, <1>11, <1>12, <1>13, Zenon
  DEF Fetch!TypeOK, Fetch!Pc, Pc

LEMMA DecodeStays ==
    ASSUME TInv, Cycle
    PROVE  /\ s2_valid' \in BOOLEAN /\ s2' \in Insn /\ value_done' \in BOOLEAN
           /\ store_value' \in Word /\ store_fwd' \in BOOLEAN
<1>1. TypeOK /\ s2 \in Insn /\ s2_valid \in BOOLEAN /\ value_done \in BOOLEAN
      /\ store_value \in Word /\ store_fwd \in BOOLEAN
  BY DEF TInv, TypeOK
<1>2. s2' \in Insn
  BY <1>1, DecodedType DEF Cycle, StageRegister
<1>3. store_value' \in Word /\ store_fwd' \in BOOLEAN
  BY <1>1, ReadPortsInWord, WiresBoolean, Zenon DEF Cycle, StageRegister
<1>4. s2_valid' \in BOOLEAN /\ value_done' \in BOOLEAN
  BY <1>1, WiresBoolean, Zenon DEF Cycle, StageRegister, s2_load
<1> QED
  BY <1>2, <1>3, <1>4

LEMMA ExecuteStays ==
    ASSUME TInv, Cycle
    PROVE  /\ x_valid' \in BOOLEAN /\ x' \in Insn
           /\ x_a' \in Word /\ x_b' \in Word /\ x_c' \in Word
           /\ x_fwd_a' \in BOOLEAN /\ x_fwd_b' \in BOOLEAN /\ x_fwd_c' \in BOOLEAN
           /\ add_result' \in Word /\ sub_result' \in Word /\ cc' \in Flags
           /\ state' \in WaitStates /\ err' \subseteq Errors
           /\ mul_a' \in Word /\ mul_b' \in Word
           /\ stage_valid' \in [1 .. MulStages -> BOOLEAN]
<1>1. TypeOK /\ op_a \in Word /\ op_b \in Word
  BY OperandsInWord DEF TInv
<1>2. x_valid' \in BOOLEAN
  BY <1>1, WiresBoolean, Zenon DEF Cycle, IdExRegister, TypeOK
<1>3. x' \in Insn /\ x_a' \in Word /\ x_b' \in Word /\ x_c' \in Word
      /\ x_fwd_a' \in BOOLEAN /\ x_fwd_b' \in BOOLEAN /\ x_fwd_c' \in BOOLEAN
  BY <1>1, WiresBoolean, ReadPortsInWord, Zenon DEF Cycle, IdExRegister, TypeOK
<1>4. add_result' \in Word /\ sub_result' \in Word
  <2>1. op_a + op_b \in Int /\ op_a - op_b \in Int
    BY <1>1 DEF Word
  <2> QED
    BY <2>1, WrapInWord DEF Cycle, Adders
<1>5. cc' \in Flags
  <2>1. alu_flags \in Flags
    BY <1>1, CompareInFlags DEF alu_flags
  <2> QED
    BY <1>1, <2>1, Zenon DEF Cycle, ConditionCodes, TypeOK
<1>6. state' \in WaitStates
  BY <1>1, Zenon DEF Cycle, WaitState, TypeOK, WaitStates
<1>7. err' \subseteq Errors
  BY <1>1, Zenon DEF Cycle, FaultLatches, TypeOK, Errors
<1>8. mul_a' \in Word /\ mul_b' \in Word
  BY <1>1, Zenon DEF Cycle, Multiplier, TypeOK
<1>9. stage_valid' \in [1 .. MulStages -> BOOLEAN]
  <2>1. \A i \in 1 .. MulStages : (IF i = 1 THEN mul_start ELSE stage_valid[i - 1]) \in BOOLEAN
    <3> SUFFICES ASSUME NEW i \in 1 .. MulStages
                 PROVE  (IF i = 1 THEN mul_start ELSE stage_valid[i - 1]) \in BOOLEAN
      OBVIOUS
    <3>1. i # 1 => i - 1 \in 1 .. MulStages
      BY SizesAssumption
    <3>2. i # 1 => stage_valid[i - 1] \in BOOLEAN
      BY <1>1, <3>1 DEF TypeOK
    <3> QED
      BY <1>1, <3>2, WiresBoolean, Zenon
  <2>2. stage_valid' =
          [i \in 1 .. MulStages |-> IF i = 1 THEN mul_start ELSE stage_valid[i - 1]]
    BY DEF Cycle, Multiplier
  <2> QED
    BY <2>1, <2>2, Zenon
<1> QED
  BY <1>2, <1>3, <1>4, <1>5, <1>6, <1>7, <1>8, <1>9

LEMMA BackStays ==
    ASSUME TInv, Cycle
    PROVE  /\ rf_wr_en' \in BOOLEAN /\ rf_wr_addr' \in RegNums /\ rf_wr_data' \in Word
           /\ regs' \in [RegNums -> Word]
           /\ dmem' \in [Cell -> Word] /\ dmem_busy' \in BOOLEAN /\ dmem_req' \in MemReq
           /\ dmem_req_ready' \in BOOLEAN /\ dmem_rvalid' \in BOOLEAN
<1>1. TypeOK
  BY DEF TInv
<1>2. rf_wr_en' \in BOOLEAN /\ rf_wr_addr' \in RegNums /\ rf_wr_data' \in Word
  BY <1>1, WiresBoolean, WritebackTypes, Zenon DEF Cycle, Writeback, TypeOK
<1>3. regs' \in [RegNums -> Word]
  BY <1>1 DEF Cycle, RegisterFile, TypeOK
<1>4. dmem' \in [Cell -> Word]
  <2>1. dmem_req.size \in 0 .. 3 /\ dmem_req.wdata \in Word
    BY <1>1 DEF TypeOK, MemReq
  <2>2. Narrow[dmem_req.size] \in 1 .. WordSize
    BY <2>1, TablesAssumption
  <2>3. \A m \in 1 .. WordSize, v \in Word : v % m \in 0 .. m - 1
    BY DEF Word
  <2>4. Low(dmem_req.wdata, dmem_req.size) \in 0 .. Narrow[dmem_req.size] - 1
    BY <2>1, <2>2, <2>3 DEF Low
  <2>5. Low(dmem_req.wdata, dmem_req.size) \in Word
    BY <2>2, <2>4, WordSizeAssumption DEF Word
  <2> QED
    BY <1>1, <2>5 DEF Cycle, DataMemory, TypeOK
<1>5. dmem_req' \in MemReq
  <2>1. add_result \in Word /\ op_c \in Word /\ x.is_store \in BOOLEAN /\ x.mem_size \in 0 .. 3
    BY <1>1, OperandsInWord DEF TypeOK, Insn
  <2> DEFINE r == [addr |-> add_result, we |-> x.is_store, size |-> x.mem_size, wdata |-> op_c]
  <2>2. r \in MemReq
    BY <2>1 DEF MemReq
  <2>3. dmem_req' = IF dmem_req_taken THEN r ELSE dmem_req
    BY DEF Cycle, DataMemory
  <2> HIDE DEF r
  <2> QED
    BY <1>1, <2>2, <2>3 DEF TypeOK
<1>6. dmem_busy' \in BOOLEAN /\ dmem_req_ready' \in BOOLEAN /\ dmem_rvalid' \in BOOLEAN
  BY Zenon DEF Cycle, DataMemory
<1> QED
  BY <1>2, <1>3, <1>4, <1>5, <1>6

LEMMA NextTyped == TInv /\ [Next]_vars => TInv'
<1> SUFFICES ASSUME TInv, [Next]_vars PROVE TInv'
  OBVIOUS
<1>1. CASE Cycle
  <2>1. program' \in Programs
    BY <1>1 DEF Cycle, TInv, TypeOK
  <2>2. TypeOK'
    BY <1>1, <2>1, FetchStays, DecodeStays, ExecuteStays, BackStays, Zenon DEF TypeOK
  <2>3. Replies'
    BY <1>1, Zenon DEF Cycle, Fetch!Memory, Replies
  <2> QED
    BY <2>2, <2>3 DEF TInv
<1>2. CASE UNCHANGED vars
  <2>1. frame_ready' = frame_ready
    BY <1>2 DEF vars, fetch_vars, decode_vars, execute_vars, writeback_vars, dmem_vars,
       frame_ready, can_issue, need_value, ex_ready, completing, late_op, mul_op, mem_op,
       valid_op, live, stopped, mul_valid
  <2>2. Lengths[program]' = Lengths[program]
    BY <1>2 DEF vars
  <2>3. Fetch!TypeOK' <=> Fetch!TypeOK
    BY <1>2, <2>1, <2>2, Zenon DEF vars, fetch_vars, decode_vars, writeback_vars,
       Fetch!TypeOK, Fetch!Pc, Fetch!States
  <2>4. UNCHANGED <<program, s2_valid, s2, value_done, store_value, store_fwd>>
        /\ UNCHANGED execute_vars /\ UNCHANGED dmem_vars
        /\ UNCHANGED <<rf_wr_en, rf_wr_addr, rf_wr_data, regs>>
        /\ UNCHANGED <<imem_owed, imem_rvalid>>
    BY <1>2 DEF vars, decode_vars, writeback_vars, fetch_vars
  <2>5. TypeOK'
    BY <2>3, <2>4 DEF TypeOK, TInv, execute_vars, dmem_vars
  <2> QED
    BY <2>4, <2>5 DEF TInv, Replies
<1> QED
  BY <1>1, <1>2 DEF Next

(* Every register of the core, and every wire between its stages, keeps its *)
(* range, for every program and every latency of the two memories.         *)
THEOREM TypeCorrect == Spec => []TypeOK
<1>1. TInv => TypeOK
  BY DEF TInv
<1> QED
  BY <1>1, InitTyped, NextTyped, PTL DEF Spec
-----------------------------------------------------------------------------
(* Execute and its units.  An instruction that will wait one more cycle    *)
(* has not completed, so the ID/EX register, the redirect and the fault    *)
(* latches are as they were; this carries WaitingIsLive, and with it which *)
(* unit holds what.                                                        *)
DataReplies == dmem_rvalid => dmem_busy

UInv == TInv /\ DataReplies /\ UnitsInStep /\ WaitingIsLive

LEMMA InitUnits == Init => UInv
<1> SUFFICES ASSUME Init PROVE UInv
  OBVIOUS
<1>1. ~ \E i \in 1 .. MulStages : stage_valid[i]
  BY DEF Init
<1>2. state = "IDLE" /\ ~dmem_busy /\ ~dmem_rvalid
  BY Zenon DEF Init
<1>3. UnitsInStep
  BY <1>1, <1>2 DEF UnitsInStep
<1> QED
  BY <1>2, <1>3, InitTyped DEF UInv, DataReplies, WaitingIsLive

(* Who waits in the next cycle, and that it is the instruction of this one. *)
LEMMA StillWaiting ==
    ASSUME UInv, Cycle, state' # "IDLE"
    PROVE  valid_op /\ ~completing /\ ~ex_ready
<1>1. state \in WaitStates /\ TypeOK
  BY DEF UInv, TInv, TypeOK
<1>2. CASE state = "IDLE"
  <2>1. late_op \/ mul_op
    BY <1>2 DEF Cycle, WaitState
  <2> QED
    BY <1>2, <2>1 DEF completing, late_op, mul_op, valid_op, live, ex_ready
<1>3. CASE state # "IDLE"
  <2>1. valid_op
    BY <1>3 DEF UInv, WaitingIsLive
  <2>2. ~completing
    BY <1>1, <1>3 DEF Cycle, WaitState, completing, dmem_req_taken, dmem_req_valid, WaitStates
  <2> QED
    BY <2>1, <2>2 DEF valid_op, live, ex_ready
<1> QED
  BY <1>2, <1>3

LEMMA HeldInExecute ==
    ASSUME UInv, Cycle, ~ex_ready, valid_op
    PROVE  /\ x' = x /\ x_valid' /\ ~redirect_valid' /\ err' = err /\ valid_op'
           /\ ~wb_valid /\ ~rf_wr_en'
<1>1. x_valid /\ ~redirect_valid /\ ~stopped /\ ~x.illegal
  BY DEF valid_op, live
<1>2. ~completing
  BY <1>1 DEF ex_ready
<1>3. x' = x /\ x_valid'
  BY <1>1 DEF Cycle, IdExRegister
<1>4. ~redirect_valid' /\ ~wb_valid /\ ~rf_wr_en'
  BY <1>2 DEF Cycle, Writeback, wb_redirect_valid, wb_valid
<1>5. err' = err
  BY <1>2, Zenon DEF Cycle, FaultLatches
<1> QED
  BY <1>1, <1>3, <1>4, <1>5 DEF valid_op, live, stopped

LEMMA NextWaiting == ASSUME UInv, Cycle PROVE WaitingIsLive'
  BY StillWaiting, HeldInExecute DEF WaitingIsLive

LEMMA NextMemoryStep == ASSUME UInv, Cycle PROVE dmem_busy' <=> state' = "MEM_WAIT"
<1>1. state \in WaitStates
  BY DEF UInv, TInv, TypeOK
<1>2. dmem_busy <=> state = "MEM_WAIT"
  BY Zenon DEF UInv, UnitsInStep
<1>3. dmem_busy' <=> dmem_req_taken \/ (dmem_busy /\ ~dmem_rvalid)
  BY Zenon DEF Cycle, DataMemory
<1>4. dmem_req_taken => state = "ADD_WAIT"
  BY DEF dmem_req_taken, dmem_req_valid
<1>5. state' = "MEM_WAIT" <=> dmem_req_taken \/ (state = "MEM_WAIT" /\ ~dmem_rvalid)
  BY <1>1, <1>4 DEF Cycle, WaitState, WaitStates
<1> QED
  BY <1>2, <1>3, <1>5, Zenon

LEMMA NextMultiplierStep ==
    ASSUME UInv, Cycle
    PROVE  /\ state' = "MUL_WAIT" <=> \E i \in 1 .. MulStages : stage_valid'[i]
           /\ \A i, j \in 1 .. MulStages : stage_valid'[i] /\ stage_valid'[j] => i = j
<1>1. state \in WaitStates /\ MulStages \in Nat \ {0}
  BY SizesAssumption DEF UInv, TInv, TypeOK
<1>2. \A i \in 1 .. MulStages : stage_valid'[i] = IF i = 1 THEN mul_start ELSE stage_valid[i - 1]
  BY DEF Cycle, Multiplier
<1>3. state' = "MUL_WAIT" <=> mul_start \/ (state = "MUL_WAIT" /\ ~mul_valid)
  BY <1>1 DEF Cycle, WaitState, WaitStates, mul_start, mul_op, late_op
<1>4. state = "MUL_WAIT" <=> \E i \in 1 .. MulStages : stage_valid[i]
  BY Zenon DEF UInv, UnitsInStep
<1>5. \A i, j \in 1 .. MulStages : stage_valid[i] /\ stage_valid[j] => i = j
  BY Zenon DEF UInv, UnitsInStep
<1>6. mul_start => state = "IDLE"
  BY DEF mul_start
<1>7. CASE mul_start
  <2>1. \A i \in 1 .. MulStages : ~stage_valid[i]
    BY <1>4, <1>6, <1>7
  <2>2. \A i \in 1 .. MulStages : stage_valid'[i] <=> i = 1
    <3>1. \A i \in 1 .. MulStages : i # 1 => i - 1 \in 1 .. MulStages
      BY <1>1
    <3> QED
      BY <1>2, <1>7, <2>1, <3>1, Zenon
  <2>3. 1 \in 1 .. MulStages
    BY <1>1
  <2> QED
    BY <1>3, <1>7, <2>2, <2>3
<1>8. CASE ~mul_start
  <2>1. \A i \in 1 .. MulStages : stage_valid'[i] => i - 1 \in 1 .. MulStages /\ stage_valid[i - 1]
    BY <1>1, <1>2, <1>8
  <2>2. \A i, j \in 1 .. MulStages : stage_valid'[i] /\ stage_valid'[j] => i = j
    BY <1>1, <1>5, <2>1
  <2>3. (\E i \in 1 .. MulStages : stage_valid'[i])
        <=> \E i \in 1 .. MulStages : i # MulStages /\ stage_valid[i]
    <3>1. ASSUME NEW i \in 1 .. MulStages, stage_valid'[i]
          PROVE  \E k \in 1 .. MulStages : k # MulStages /\ stage_valid[k]
      BY <1>1, <2>1, <3>1
    <3>2. ASSUME NEW i \in 1 .. MulStages, i # MulStages, stage_valid[i]
          PROVE  \E k \in 1 .. MulStages : stage_valid'[k]
      <4>1. i + 1 \in 1 .. MulStages /\ i + 1 # 1 /\ (i + 1) - 1 = i
        BY <1>1, <3>2
      <4> QED
        BY <1>2, <3>2, <4>1
    <3> QED
      BY <3>1, <3>2
  <2>4. mul_valid <=> stage_valid[MulStages]
    BY DEF mul_valid
  <2>5. MulStages \in 1 .. MulStages
    BY <1>1
  <2>6. (state = "MUL_WAIT" /\ ~mul_valid)
        <=> \E i \in 1 .. MulStages : i # MulStages /\ stage_valid[i]
    BY <1>4, <1>5, <2>4, <2>5, Zenon
  <2> QED
    BY <1>3, <1>8, <2>2, <2>3, <2>6, Zenon
<1> QED
  BY <1>7, <1>8

LEMMA NextUnits == UInv /\ [Next]_vars => UInv'
<1> SUFFICES ASSUME UInv, [Next]_vars PROVE UInv'
  OBVIOUS
<1>1. TInv'
  BY NextTyped DEF UInv
<1>2. CASE Cycle
  <2>1. DataReplies'
    BY <1>2, Zenon DEF Cycle, DataMemory, DataReplies
  <2>2. UnitsInStep'
    BY <1>2, NextMemoryStep, NextMultiplierStep, Zenon DEF UnitsInStep
  <2> QED
    BY <1>1, <1>2, <2>1, <2>2, NextWaiting DEF UInv
<1>3. CASE UNCHANGED vars
  <2>1. UNCHANGED <<dmem_busy, dmem_rvalid, state, stage_valid, x_valid, x, redirect_valid, err>>
    BY <1>3 DEF vars, execute_vars, writeback_vars, dmem_vars
  <2> QED
    BY <1>1, <2>1 DEF UInv, DataReplies, UnitsInStep, WaitingIsLive, valid_op, live, stopped
<1> QED
  BY <1>2, <1>3 DEF Next

(* Memory and the multiplier never hold the work of any instruction but    *)
(* the one that waits for them, however long they take and however deep    *)
(* the multiplier is.                                                      *)
THEOREM UnitsInStepAlways == Spec => []UnitsInStep
<1>1. UInv => UnitsInStep
  BY DEF UInv
<1> QED
  BY <1>1, InitUnits, NextUnits, PTL DEF Spec

(* Nothing can cancel an instruction that has begun to wait. *)
THEOREM WaitingIsLiveAlways == Spec => []WaitingIsLive
<1>1. UInv => WaitingIsLive
  BY DEF UInv
<1> QED
  BY <1>1, InitUnits, NextUnits, PTL DEF Spec
-----------------------------------------------------------------------------
(* Operands.  A read port sees what Writeback is about to write, and the   *)
(* forward select what Execute is about to hand to Writeback; together     *)
(* they make the value current one cycle on.  An indexed store has its     *)
(* value read a cycle early, with a bubble behind it, so that no result    *)
(* can come between (decode.sv:365-371).                                   *)
ValueHeld ==
    s2_valid /\ s2.idx_store /\ value_done =>
        /\ ~x_valid
        /\ (IF store_fwd THEN rf_wr_data ELSE store_value) = Read(s2.rd)

(* The store forms with an immediate offset have a read port to spare, and *)
(* the decoder gives it to the value.                                      *)
StoreShape == s2.is_store /\ ~s2.idx_store => s2.raddr_b = s2.rd

VInv == TInv /\ StoreShape /\ ValueHeld /\ OperandsCurrent

LEMMA Stage1Shape ==
    ASSUME NEW f, NEW a, NEW bad
    PROVE  LET i == Stage1(f, a, bad) IN i.is_store /\ ~i.idx_store => i.raddr_b = i.rd
<1> DEFINE i == Stage1(f, a, bad)
<1>1. /\ i.is_store = is_store(Opcode(f))
      /\ i.idx_store = (is_store(Opcode(f)) /\ ~imm_form(f))
      /\ i.raddr_b = raddr_b(f)
      /\ i.rd = RegNum(f[2])
  BY DEF Stage1
<1> HIDE DEF i
<1>2. is_store(Opcode(f)) /\ imm_form(f) => raddr_b(f) = RegNum(f[2])
  BY DEF raddr_b
<1>3. i.is_store /\ ~i.idx_store => i.raddr_b = i.rd
  BY <1>1, <1>2, Zenon
<1> QED
  BY <1>3 DEF i

LEMMA ArchRegsRead == ASSUME NEW r \in RegNums PROVE ArchRegs[r] = Read(r)
  BY DEF ArchRegs

(* A register read in the next cycle: what completes now, or what a read   *)
(* now would have given.                                                   *)
LEMMA ReadNext ==
    ASSUME TypeOK, Cycle, NEW r \in RegNums
    PROVE  (Read(r))' = IF Completes(r) THEN rf_wr_data' ELSE Read(r)
<1>1. regs'[r] = Read(r)
  BY DEF TypeOK, Cycle, RegisterFile, Read
<1>2. (Read(r))' = IF rf_wr_en' /\ rf_wr_addr' = r THEN rf_wr_data' ELSE regs'[r]
  BY DEF Read
<1>3. rf_wr_en' = wb_valid /\ (wb_valid => rf_wr_addr' = wb_rd)
  BY DEF Cycle, Writeback
<1> QED
  BY <1>1, <1>2, <1>3, Zenon DEF Completes

(* Without a result, nothing an operand depends on changes. *)
LEMMA ReadHeld ==
    ASSUME TypeOK, Cycle, ~wb_valid, NEW r \in RegNums
    PROVE  (Read(r))' = Read(r) /\ rf_wr_data' = rf_wr_data
<1>1. rf_wr_data' = rf_wr_data
  BY DEF Cycle, Writeback
<1> QED
  BY <1>1, ReadNext DEF Completes

(* Which operands come from a register, and are then the register's value. *)
LEMMA SelectFromRegister ==
    ASSUME NEW d
    PROVE  /\ OperandA(s2, d) = IF a_from_reg THEN d ELSE OperandA(s2, 0)
           /\ OperandB(s2, d) = IF b_from_reg THEN d ELSE OperandB(s2, 0)
  BY Zenon DEF OperandA, OperandB, a_from_reg, b_from_reg

LEMMA InitOperands == Init => VInv
<1> SUFFICES ASSUME Init PROVE VInv
  OBVIOUS
<1>1. StoreShape
  BY Stage1Shape DEF Init, StoreShape
<1>2. ~s2_valid /\ ~x_valid
  BY DEF Init
<1> QED
  BY <1>1, <1>2, InitTyped DEF VInv, ValueHeld, OperandsCurrent, valid_op, live

LEMMA NextShape == ASSUME VInv, Cycle PROVE StoreShape'
<1>1. CASE s2_load
  <2>1. s2' = s1
    BY <1>1 DEF Cycle, StageRegister
  <2> QED
    BY <2>1, Stage1Shape DEF StoreShape, s1
<1>2. CASE ~s2_load
  BY <1>2 DEF Cycle, StageRegister, VInv, StoreShape
<1> QED
  BY <1>1, <1>2

LEMMA NextValueHeld == ASSUME VInv, Cycle PROVE ValueHeld'
<1> SUFFICES ASSUME s2_valid', s2'.idx_store, value_done'
             PROVE  /\ ~x_valid'
                    /\ (IF store_fwd' THEN rf_wr_data' ELSE store_value') = (Read(s2.rd))'
  BY DEF ValueHeld
<1>1. ~s2_load /\ ~redirect_valid
  BY DEF Cycle, StageRegister
<1>2. s2' = s2 /\ s2_valid /\ ~(can_issue /\ ex_ready) /\ (value_done \/ read_value)
  BY <1>1, Zenon DEF Cycle, StageRegister
<1>3. TypeOK /\ s2.rd \in RegNums
  BY RegFieldsOf DEF VInv, TInv, TypeOK
<1>4. (Read(s2.rd))' = IF Completes(s2.rd) THEN rf_wr_data' ELSE Read(s2.rd)
  <2>1. \A r \in RegNums : (Read(r))' = IF Completes(r) THEN rf_wr_data' ELSE Read(r)
    BY <1>3, ReadNext
  <2> QED
    BY <1>2, <1>3, <2>1 DEF Read
<1>5. CASE read_value
  <2>1. ex_ready /\ need_value /\ ~can_issue
    BY <1>5 DEF read_value, can_issue
  <2>2. ~x_valid'
    BY <1>1, <2>1 DEF Cycle, IdExRegister, ex_valid
  <2>3. store_value' = Read(s2.rd) /\ store_fwd' = Completes(s2.rd)
    BY <1>5, <2>1 DEF Cycle, StageRegister, rf_rdata_a
  <2> QED
    BY <1>4, <2>2, <2>3, Zenon
<1>6. CASE ~read_value
  <2>1. value_done /\ s2.idx_store
    BY <1>2, <1>6
  <2>2. ~x_valid /\ (IF store_fwd THEN rf_wr_data ELSE store_value) = Read(s2.rd)
    BY <1>2, <2>1 DEF VInv, ValueHeld
  <2>3. ~ex_ready
    BY <1>2, <2>1 DEF can_issue, need_value
  <2>4. ~x_valid'
    BY <1>1, <2>2, <2>3 DEF Cycle, IdExRegister
  <2>5. ~wb_valid
    BY <2>2 DEF wb_valid, valid_op, live
  <2>6. rf_wr_data' = rf_wr_data /\ store_fwd' = store_fwd /\ store_value' = store_value
    BY <1>6, <2>5 DEF Cycle, Writeback, StageRegister
  <2> QED
    BY <1>4, <2>2, <2>4, <2>5, <2>6, Zenon DEF Completes
<1> QED
  BY <1>5, <1>6

(* The instruction enters Execute: its operands are those it will find there. *)
LEMMA OperandsLoaded ==
    ASSUME VInv, Cycle, ex_ready, x_valid'
    PROVE  /\ op_a' = (OperandA(x, Read(x.raddr_a)))'
           /\ op_b' = (OperandB(x, Read(x.raddr_b)))'
           /\ x'.is_store => op_c' = (Read(x.rd))'
<1>1. TypeOK
  BY DEF VInv, TInv
<1>2. s2 \in Insn /\ s2.rd \in RegNums /\ s2.raddr_a \in RegNums /\ s2.raddr_b \in RegNums
  BY <1>1, RegFieldsOf DEF TypeOK
<1>3. can_issue /\ s2_valid /\ ~need_value /\ ~redirect_valid
  BY DEF Cycle, IdExRegister, ex_valid, can_issue
<1>4. /\ x' = s2
      /\ x_a' = ex_a /\ x_b' = ex_b /\ x_c' = ex_c
      /\ x_fwd_a' = ex_fwd_a /\ x_fwd_b' = ex_fwd_b /\ x_fwd_c' = ex_fwd_c
  BY DEF Cycle, IdExRegister
<1> DEFINE Now(r) == Read(r)
           Soon(r) == IF Completes(r) THEN rf_wr_data' ELSE Now(r)
<1>5. \A r \in RegNums : (Read(r))' = Soon(r)
  BY <1>1, ReadNext
<1>6. /\ (Read(x.raddr_a))' = Soon(s2.raddr_a)
      /\ (Read(x.raddr_b))' = Soon(s2.raddr_b)
      /\ (Read(x.rd))' = Soon(s2.rd)
  BY <1>2, <1>4, <1>5 DEF Read
<1>7. rf_rdata_a = Now(s2.raddr_a) /\ rf_rdata_b = Now(s2.raddr_b)
  BY <1>3 DEF rf_rdata_a, rf_rdata_b
<1> HIDE DEF Now
<1>8. op_a' = OperandA(s2, Soon(s2.raddr_a))
  <2>1. op_a' = IF ex_fwd_a THEN rf_wr_data' ELSE OperandA(s2, Now(s2.raddr_a))
    BY <1>4, <1>7 DEF op_a, ex_a
  <2>2. \A d : OperandA(s2, d) = IF a_from_reg THEN d ELSE OperandA(s2, 0)
    BY SelectFromRegister
  <2> QED
    BY <2>1, <2>2, Zenon DEF ex_fwd_a
<1>9. op_b' = OperandB(s2, Soon(s2.raddr_b))
  <2>1. op_b' = IF ex_fwd_b THEN rf_wr_data' ELSE OperandB(s2, Now(s2.raddr_b))
    BY <1>4, <1>7 DEF op_b, ex_b
  <2>2. \A d : OperandB(s2, d) = IF b_from_reg THEN d ELSE OperandB(s2, 0)
    BY SelectFromRegister
  <2> QED
    BY <2>1, <2>2, Zenon DEF ex_fwd_b
<1>10. s2.is_store => op_c' = Soon(s2.rd)
  <2> SUFFICES ASSUME s2.is_store PROVE op_c' = Soon(s2.rd)
    OBVIOUS
  <2>1. CASE s2.idx_store
    <3>1. value_done
      BY <1>3, <2>1 DEF need_value
    <3>2. ~x_valid /\ (IF store_fwd THEN rf_wr_data ELSE store_value) = Now(s2.rd)
      BY <1>3, <2>1, <3>1 DEF VInv, ValueHeld, Now
    <3>3. ~wb_valid
      BY <3>2 DEF wb_valid, valid_op, live
    <3>4. rf_wr_data' = rf_wr_data
      BY <3>3 DEF Cycle, Writeback
    <3>5. op_c' = IF store_fwd THEN rf_wr_data' ELSE store_value
      BY <1>4, <2>1 DEF op_c, ex_c, ex_fwd_c
    <3> QED
      BY <3>2, <3>3, <3>4, <3>5, Zenon DEF Completes
  <2>2. CASE ~s2.idx_store
    <3>1. s2.raddr_b = s2.rd
      BY <2>2 DEF VInv, StoreShape
    <3>2. op_c' = IF Completes(s2.raddr_b) THEN rf_wr_data' ELSE Now(s2.raddr_b)
      BY <1>4, <1>7, <2>2 DEF op_c, ex_c, ex_fwd_c
    <3> QED
      BY <3>1, <3>2
  <2> QED
    BY <2>1, <2>2
<1> HIDE DEF Soon
<1>11. (OperandA(x, Read(x.raddr_a)))' = OperandA(s2, Soon(s2.raddr_a))
  BY <1>4, <1>6 DEF OperandA
<1>12. (OperandB(x, Read(x.raddr_b)))' = OperandB(s2, Soon(s2.raddr_b))
  BY <1>4, <1>6 DEF OperandB
<1> QED
  BY <1>4, <1>6, <1>8, <1>9, <1>10, <1>11, <1>12

(* The instruction waits in Execute: it has not completed, so no register  *)
(* has changed.                                                            *)
LEMMA OperandsWait ==
    ASSUME VInv, Cycle, ~ex_ready, valid_op'
    PROVE  /\ op_a' = (OperandA(x, Read(x.raddr_a)))'
           /\ op_b' = (OperandB(x, Read(x.raddr_b)))'
           /\ x'.is_store => op_c' = (Read(x.rd))'
<1>1. TypeOK
  BY DEF VInv, TInv
<1>2. x_valid' /\ err' = {} /\ ~x'.illegal
  BY DEF valid_op, live, stopped
<1>3. err = {}
  BY <1>2, Zenon DEF Cycle, FaultLatches
<1>4. UNCHANGED <<x, x_a, x_b, x_c, x_fwd_a, x_fwd_b, x_fwd_c>> /\ x_valid /\ ~redirect_valid
  BY <1>2 DEF Cycle, IdExRegister
<1>5. valid_op /\ ~completing
  BY <1>2, <1>3, <1>4 DEF valid_op, live, stopped, ex_ready
<1>6. /\ op_a = OperandA(x, ArchRegs[x.raddr_a])
      /\ op_b = OperandB(x, ArchRegs[x.raddr_b])
      /\ x.is_store => op_c = ArchRegs[x.rd]
  BY <1>5 DEF VInv, OperandsCurrent
<1>7. x.rd \in RegNums /\ x.raddr_a \in RegNums /\ x.raddr_b \in RegNums
  BY <1>1, RegFieldsOf DEF TypeOK
<1>8. ~wb_valid
  BY <1>5 DEF wb_valid
<1>9. \A r \in RegNums : (Read(r))' = Read(r)
  BY <1>1, <1>8, ReadHeld
<1>10. rf_wr_data' = rf_wr_data
  BY <1>8 DEF Cycle, Writeback
<1>11. op_a' = op_a /\ op_b' = op_b /\ op_c' = op_c
  BY <1>4, <1>10 DEF op_a, op_b, op_c
<1>12. /\ (Read(x.raddr_a))' = ArchRegs[x.raddr_a]
       /\ (Read(x.raddr_b))' = ArchRegs[x.raddr_b]
       /\ (Read(x.rd))' = ArchRegs[x.rd]
  BY <1>4, <1>7, <1>9, ArchRegsRead DEF Read
<1>13. (OperandA(x, Read(x.raddr_a)))' = OperandA(x, ArchRegs[x.raddr_a])
  BY <1>4, <1>12 DEF OperandA
<1>14. (OperandB(x, Read(x.raddr_b)))' = OperandB(x, ArchRegs[x.raddr_b])
  BY <1>4, <1>12 DEF OperandB
<1> QED
  BY <1>4, <1>6, <1>11, <1>12, <1>13, <1>14

LEMMA NextOperands == ASSUME VInv, Cycle, TypeOK' PROVE OperandsCurrent'
<1> SUFFICES ASSUME valid_op'
             PROVE  /\ op_a' = OperandA(x, ArchRegs[x.raddr_a])'
                    /\ op_b' = OperandB(x, ArchRegs[x.raddr_b])'
                    /\ x'.is_store => op_c' = ArchRegs'[x'.rd]
  BY DEF OperandsCurrent
<1>1. x_valid'
  BY DEF valid_op, live
<1>2. x'.rd \in RegNums /\ x'.raddr_a \in RegNums /\ x'.raddr_b \in RegNums
  BY RegFieldsOf DEF TypeOK
<1>3. /\ ArchRegs'[x'.rd] = (Read(x.rd))'
      /\ ArchRegs'[x'.raddr_a] = (Read(x.raddr_a))'
      /\ ArchRegs'[x'.raddr_b] = (Read(x.raddr_b))'
  BY <1>2 DEF ArchRegs
<1>4. /\ op_a' = (OperandA(x, Read(x.raddr_a)))'
      /\ op_b' = (OperandB(x, Read(x.raddr_b)))'
      /\ x'.is_store => op_c' = (Read(x.rd))'
  BY <1>1, OperandsLoaded, OperandsWait
<1> QED
  BY <1>3, <1>4 DEF OperandA, OperandB

LEMMA NextVInv == VInv /\ [Next]_vars => VInv'
<1> SUFFICES ASSUME VInv, [Next]_vars PROVE VInv'
  OBVIOUS
<1>1. TInv' /\ TypeOK'
  BY NextTyped DEF VInv, TInv
<1>2. CASE Cycle
  BY <1>1, <1>2, NextShape, NextValueHeld, NextOperands DEF VInv
<1>3. CASE UNCHANGED vars
  <2>1. UNCHANGED <<s2_valid, s2, value_done, store_value, store_fwd>>
        /\ UNCHANGED execute_vars
        /\ UNCHANGED <<rf_wr_en, rf_wr_addr, rf_wr_data, redirect_valid, regs>>
    BY <1>3 DEF vars, decode_vars, writeback_vars
  <2>2. UNCHANGED <<x_valid, x, x_a, x_b, x_c, x_fwd_a, x_fwd_b, x_fwd_c, err>>
    BY <2>1 DEF execute_vars
  <2>3. StoreShape' /\ ValueHeld'
    BY <2>1, <2>2 DEF VInv, StoreShape, ValueHeld, Read
  <2>4. ArchRegs' = ArchRegs
    BY <2>1 DEF ArchRegs, Read
  <2>5. valid_op' = valid_op /\ op_a' = op_a /\ op_b' = op_b /\ op_c' = op_c
    BY <2>1, <2>2 DEF valid_op, live, stopped, op_a, op_b, op_c
  <2>6. OperandsCurrent'
    BY <2>2, <2>4, <2>5 DEF VInv, OperandsCurrent, OperandA, OperandB
  <2> QED
    BY <1>1, <2>3, <2>6 DEF VInv
<1> QED
  BY <1>2, <1>3 DEF Next

(* Forwarding is complete: for every program and every latency, what the   *)
(* instruction in Execute computes with is the architectural value of each *)
(* register it names, as long as it stays there.                           *)
THEOREM OperandsCurrentAlways == Spec => []OperandsCurrent
<1>1. VInv => OperandsCurrent
  BY DEF VInv
<1> QED
  BY <1>1, InitOperands, NextVInv, PTL DEF Spec
-----------------------------------------------------------------------------
(* Fetch in the core.  What Decode and Execute do to it is what VeaFetch   *)
(* lets them do: only a frame taken from it raises halt, only a redirect   *)
(* clears it, and a redirect goes to an address.                           *)
LEMMA CycleOfFetch == ASSUME TInv, Cycle PROVE Fetch!Next
<1>1. TypeOK /\ Fetch!TypeOK /\ TypeOK'
  BY NextTyped DEF TInv, TypeOK, Next
<1>2. UNCHANGED Lengths[program]
  BY DEF Cycle
<1>3. redirect_valid' \in BOOLEAN /\ frame_ready' \in BOOLEAN
  BY <1>1, WiresBoolean, Zenon DEF Cycle, Writeback, frame_ready
<1>4. redirect_pc' \in IF redirect_valid' THEN Fetch!Pc ELSE {redirect_pc}
  <2>1. wb_redirect_pc \in Fetch!Pc
    BY <1>1, WritebackTypes DEF Fetch!Pc, Pc
  <2> QED
    BY <2>1, Zenon DEF Cycle, Writeback
<1>5. halt' \in IF redirect_valid THEN {FALSE}
                ELSE IF Fetch!frame_taken THEN {halt, TRUE} ELSE {halt}
  <2>1. halt \in BOOLEAN
    BY <1>1 DEF Fetch!TypeOK
  <2>2. s2_load => Fetch!frame_taken
    BY DEF s2_load, Fetch!frame_taken, Fetch!frame_valid
  <2>3. halt' = IF redirect_valid THEN FALSE ELSE halt \/ (s2_load /\ s1.is_halt /\ ~s1.illegal)
    BY DEF Cycle, HaltLatch
  <2>4. halt' \in BOOLEAN
    BY <2>1, <2>3, Zenon DEF s2_load, Fetch!frame_valid
  <2> QED
    BY <2>1, <2>2, <2>3, <2>4, Zenon
<1>6. Fetch!Downstream
  BY <1>3, <1>4, <1>5, Zenon DEF Fetch!Downstream
<1> QED
  BY <1>2, <1>6, Zenon DEF Cycle, Fetch!Next, Fetch!Cycle

(* The core implements VeaFetch: every theorem of VeaFetchProofs is one of *)
(* the fetch stage inside the core.                                        *)
THEOREM FetchRefined == Spec => RefinesFetch
<1>1. Init => Fetch!Init
  BY DEF Init
<1>2. TInv /\ [Next]_vars => [Fetch!Next]_(Fetch!vars)
  <2> SUFFICES ASSUME TInv, [Next]_vars PROVE [Fetch!Next]_(Fetch!vars)
    OBVIOUS
  <2>1. CASE Cycle
    BY <2>1, CycleOfFetch
  <2>2. CASE UNCHANGED vars
    <3>1. UNCHANGED frame_ready
      BY <2>2 DEF vars, fetch_vars, decode_vars, execute_vars, writeback_vars, dmem_vars,
         frame_ready, can_issue, need_value, ex_ready, completing, late_op, mul_op, mem_op,
         valid_op, live, stopped, mul_valid
    <3>2. UNCHANGED Lengths[program]
      BY <2>2 DEF vars
    <3> QED
      BY <2>2, <3>1, <3>2 DEF vars, fetch_vars, decode_vars, writeback_vars,
         Fetch!vars, Fetch!regs, Fetch!inputs
  <2> QED
    BY <2>1, <2>2 DEF Next
<1>3. Spec => []TInv
  BY InitTyped, NextTyped, PTL DEF Spec
<1> QED
  BY <1>1, <1>2, <1>3, PTL DEF Spec, RefinesFetch, Fetch!Spec

-----------------------------------------------------------------------------
(* The core against VeaArch: RefinesArch.  In order: the fetch stage keeps *)
(* VeaFetch's invariants inside the core; the stages hold the program's    *)
(* own instructions in the program's order (RInv); a cycle in which        *)
(* nothing completes changes nothing that VeaArch sees; and what completes *)
(* is VeaArch's Retire or Stop.                                            *)

(* A frame as VeaArch's copy of the simulator's decoder sees it. *)
LEMMA SameFrame ==
    /\ \A f : /\ Arch!Opcode(f) = Opcode(f) /\ Arch!LenOf(f) = LenOf(f)
             /\ Arch!FlagBits(f) = FlagBits(f) /\ Arch!OperandAt(f) = OperandAt(f)
             /\ Arch!IsImm(f) = IsImm(f) /\ Arch!SimImm(f) = SimImm(f)
             /\ Arch!SimIllegal(f) = SimIllegal(f)
    /\ \A f, i : Arch!FlagBit(f, i) = FlagBit(f, i)
    /\ \A q : Arch!ValueOf(q) = ValueOf(q)
    /\ \A n : Arch!Wrap(n) = Wrap(n) /\ Arch!Complement(n) = Complement(n)
    /\ \A u, v, sign : Arch!Compare(u, v, sign) = Compare(u, v, sign)
    /\ \A p, flags : Arch!Predicate(p, flags) = Predicate(p, flags)
    /\ Arch!PredOfBits = PredOfBits /\ Arch!AluOfNibble = AluOfNibble
<1>1. \A n : Arch!Wrap(n) = Wrap(n) /\ Arch!Signed(n) = Signed(n)
  BY DEF Arch!Wrap, Wrap, Arch!Signed, Signed
<1>2. \A q : Arch!ValueOf(q) = ValueOf(q)
  BY <1>1, Zenon DEF Arch!ValueOf, ValueOf
<1>3. \A u, v, sign : Arch!Compare(u, v, sign) = Compare(u, v, sign)
  BY <1>1, Zenon DEF Arch!Compare, Compare
<1>4. \A p, flags : Arch!Predicate(p, flags) = Predicate(p, flags)
  BY Zenon DEF Arch!Predicate, Predicate
<1>5. ASSUME NEW f
      PROVE  /\ Arch!OperandAt(f) = OperandAt(f)
             /\ Arch!IsImm(f) = IsImm(f)
             /\ Arch!SimImm(f) = SimImm(f)
             /\ Arch!SimIllegal(f) = SimIllegal(f)
  BY Zenon
  DEF Opcode, Arch!Opcode, LenOf, Arch!LenOf, FlagBits, Arch!FlagBits, FlagBit,
      Arch!FlagBit, Unary, Arch!Unary, Binary, Arch!Binary, Mem, Arch!Mem,
      Branch, Arch!Branch, Nop, Arch!Nop, Trap, Arch!Trap, Halt, Arch!Halt,
      OperandAt, Arch!OperandAt, HasOperand, Arch!HasOperand, IsImm, Arch!IsImm,
      ImmLen, Arch!ImmLen, RegBytes, Arch!RegBytes, SimImm, Arch!SimImm,
      SimIllegal, Arch!SimIllegal
<1>6. /\ \A f : /\ Arch!Opcode(f) = Opcode(f) /\ Arch!LenOf(f) = LenOf(f)
                /\ Arch!FlagBits(f) = FlagBits(f)
      /\ \A f, i : Arch!FlagBit(f, i) = FlagBit(f, i)
      /\ \A n : Arch!Complement(n) = Complement(n)
      /\ Arch!PredOfBits = PredOfBits /\ Arch!AluOfNibble = AluOfNibble
  BY Zenon
  DEF Arch!Opcode, Opcode, Arch!LenOf, LenOf, Arch!FlagBits, FlagBits, Arch!FlagBit, FlagBit,
      Arch!Complement, Complement, Arch!PredOfBits, PredOfBits, Arch!AluOfNibble, AluOfNibble
<1> QED
  BY <1>1, <1>2, <1>3, <1>4, <1>5, <1>6, Zenon

(* The last operand of a frame, over any register values. *)
LastOperand(f, r) == IF IsImm(f) THEN ValueOf(SimImm(f)) ELSE r[f[OperandAt(f)]]

(* What reaches the ALU is what the simulators work on: the one operand    *)
(* and nothing, the target or its offset and the pc, or the pair.          *)
LEMMA OperandValues ==
    ASSUME NEW f \in Frame, NEW a, ~Illegal(f, LenOf(f) < 2),
           NEW i, i = Stage1(f, 4 * a, LenOf(f) < 2), NEW r
    PROVE  /\ Opcode(f) \in {1, 20, 49}
                => OperandA(i, r[i.raddr_a]) = LastOperand(f, r) /\ OperandB(i, r[i.raddr_b]) = 0
           /\ Opcode(f) = 48 /\ IsImm(f)
                => OperandA(i, r[i.raddr_a]) = 4 * a /\ OperandB(i, r[i.raddr_b]) = LastOperand(f, r)
           /\ Opcode(f) = 48 /\ ~IsImm(f)
                => OperandA(i, r[i.raddr_a]) = LastOperand(f, r) /\ OperandB(i, r[i.raddr_b]) = 0
           /\ Opcode(f) \in ((16 .. 26) \ {20}) \cup {64, 65}
                => OperandA(i, r[i.raddr_a]) = r[f[3]] /\ OperandB(i, r[i.raddr_b]) = LastOperand(f, r)
           /\ Opcode(f) \in {32, 33}
                => OperandA(i, r[i.raddr_a]) = r[f[2]] /\ OperandB(i, r[i.raddr_b]) = LastOperand(f, r)
<1> DEFINE op == Opcode(f)
           Src == LastOperand(f, r)
           A == OperandA(i, r[i.raddr_a])
           B == OperandB(i, r[i.raddr_b])
<1>1. op \in Legal
  BY LegalFrame
<1>2. /\ i.pc = 4 * a
      /\ op \notin {0, 255} => (i.imm_form <=> IsImm(f))
      /\ IsImm(f) => i.imm = ValueOf(SimImm(f))
      /\ i.src_in_a <=> op \in {1, 20, 49, 254}
      /\ i.is_b <=> op = 48
  BY Fields
<1>3. /\ op \in {48, 49} => OperandAt(f) = 2
      /\ op \in {1, 20, 32, 33} => OperandAt(f) = 3
      /\ op \in ((16 .. 26) \ {20}) \cup {64, 65} => OperandAt(f) = 4
  BY <1>1, SimPositions
<1>4. /\ op \in {32, 33} \/ (op \in {48, 49} /\ ~IsImm(f)) => i.raddr_a = f[2]
      /\ op \in ((16 .. 26) \ {20}) \cup {64, 65} \/ (op \in {1, 20} /\ ~IsImm(f))
            => i.raddr_a = f[3]
      /\ op \in {32, 33} /\ ~IsImm(f) => i.raddr_b = f[3]
      /\ op \in ((16 .. 26) \ {20}) \cup {64, 65} /\ ~IsImm(f) => i.raddr_b = f[4]
  BY Registers
<1>5. /\ i.src_in_a /\ i.imm_form => A = i.imm
      /\ ~i.src_in_a /\ i.is_b /\ i.imm_form => A = i.pc
      /\ ~i.imm_form => A = r[i.raddr_a]
      /\ ~i.src_in_a /\ ~i.is_b => A = r[i.raddr_a]
  BY Zenon DEF OperandA
<1>6. /\ i.src_in_a => B = 0
      /\ ~i.src_in_a /\ i.is_b => B = IF i.imm_form THEN i.imm ELSE 0
      /\ ~i.src_in_a /\ ~i.is_b => B = IF i.imm_form THEN i.imm ELSE r[i.raddr_b]
  BY Zenon DEF OperandB
<1>7. Src = IF IsImm(f) THEN ValueOf(SimImm(f)) ELSE r[f[OperandAt(f)]]
  BY DEF LastOperand
<1> HIDE DEF op, Src, A, B
<1>8. op \in {1, 20, 49} => A = Src /\ B = 0
  BY <1>2, <1>3, <1>4, <1>5, <1>6, <1>7
<1>9. op = 48 /\ IsImm(f) => A = 4 * a /\ B = Src
  BY <1>2, <1>5, <1>6, <1>7
<1>10. op = 48 /\ ~IsImm(f) => A = Src /\ B = 0
  BY <1>2, <1>3, <1>4, <1>5, <1>6, <1>7
<1>11. op \in ((16 .. 26) \ {20}) \cup {64, 65} => A = r[f[3]] /\ B = Src
  BY <1>2, <1>3, <1>4, <1>5, <1>6, <1>7
<1>12. op \in {32, 33} => A = r[f[2]] /\ B = Src
  BY <1>2, <1>3, <1>4, <1>5, <1>6, <1>7
<1> QED
  BY <1>8, <1>9, <1>10, <1>11, <1>12 DEF op, Src, A, B
-----------------------------------------------------------------------------
(* The fetch stage in the core keeps VeaFetch's invariants. *)
FetchPcFollows == Fetch!frame_valid => fetch_pc = Fetch!Successor(frame_pc_word)

FInv ==
    /\ TInv
    /\ Fetch!OneOutstanding
    /\ Fetch!WaitsForItsPc
    /\ Fetch!FrameIsItsOwn
    /\ Fetch!NothingBehindHalt
    /\ FetchPcFollows

LEMMA FetchWires ==
    ASSUME FInv, Cycle
    PROVE  /\ fetch_state \in Fetch!States
           /\ fetch_state' = IF redirect_valid THEN Fetch!AfterRedirect ELSE Fetch!InSequence
           /\ fetch_pc' = IF redirect_valid THEN redirect_pc
                          ELSE IF Fetch!accept_reply THEN Fetch!next_pc ELSE fetch_pc
           /\ Lengths[program]' = Lengths[program]
           /\ imem_owed \in Seq(Fetch!Pc) /\ fetch_pc \in Fetch!Pc
           /\ halt \in BOOLEAN /\ halt' \in BOOLEAN
<1>1. TypeOK /\ Fetch!TypeOK
  BY DEF FInv, TInv, TypeOK
<1>2. Fetch!TypeOK'
  BY FetchStays DEF FInv
<1>3. /\ fetch_state' = IF redirect_valid THEN Fetch!AfterRedirect ELSE Fetch!InSequence
      /\ fetch_pc' = IF redirect_valid THEN redirect_pc
                     ELSE IF Fetch!accept_reply THEN Fetch!next_pc ELSE fetch_pc
  BY DEF Cycle, Fetch!StateRegister, Fetch!PcRegister
<1>4. Lengths[program]' = Lengths[program]
  BY DEF Cycle
<1> QED
  BY <1>1, <1>2, <1>3, <1>4 DEF Fetch!TypeOK

LEMMA OwedNext ==
    ASSUME FInv, Cycle
    PROVE  /\ Fetch!request_taken => imem_owed' = <<fetch_pc>>
           /\ ~Fetch!request_taken /\ imem_rvalid => imem_owed' = <<>>
           /\ ~Fetch!request_taken /\ ~imem_rvalid => imem_owed' = imem_owed
           /\ Fetch!request_taken => fetch_state = "REQUEST" /\ imem_owed = <<>> /\ ~imem_rvalid
<1>1. imem_owed \in Seq(Fetch!Pc) /\ fetch_pc \in Fetch!Pc /\ Len(imem_owed) <= 1
  BY FetchWires DEF FInv, Fetch!OneOutstanding
<1>2. Fetch!request_taken => fetch_state = "REQUEST" /\ imem_owed = <<>> /\ ~imem_rvalid
  BY DEF FInv, TInv, Replies, Fetch!OneOutstanding, Fetch!request_taken, Fetch!imem_req_valid
<1>3. imem_rvalid => imem_owed # <<>>
  BY DEF FInv, TInv, Replies
<1>4. imem_rvalid => Tail(imem_owed) = <<>>
  BY <1>1, <1>3
<1>5. imem_owed' = IF Fetch!request_taken
                   THEN Append(IF imem_rvalid THEN Tail(imem_owed) ELSE imem_owed, fetch_pc)
                   ELSE IF imem_rvalid THEN Tail(imem_owed) ELSE imem_owed
  BY DEF Cycle, Fetch!Memory
<1>6. Append(<<>>, fetch_pc) = <<fetch_pc>>
  BY <1>1
<1> QED
  BY <1>2, <1>3, <1>4, <1>5, <1>6, Zenon

LEMMA NextOneOutstanding == ASSUME FInv, Cycle PROVE Fetch!OneOutstanding'
<1>1. /\ fetch_state \in Fetch!States
      /\ fetch_state' = IF redirect_valid THEN Fetch!AfterRedirect ELSE Fetch!InSequence
  BY FetchWires
<1>2. Len(imem_owed) <= 1 /\ (imem_owed # <<>> <=> fetch_state \in {"WAIT", "DRAIN"})
  BY DEF FInv, Fetch!OneOutstanding
<1>3. <<fetch_pc>> # <<>> /\ Len(<<fetch_pc>>) <= 1 /\ Len(<<>>) <= 1
  OBVIOUS
<1>4. Len(imem_owed') <= 1
  BY <1>2, <1>3, OwedNext
<1>5. imem_rvalid => fetch_state \in {"WAIT", "DRAIN"}
  BY <1>2 DEF FInv, TInv, Replies
<1>6. imem_owed' # <<>>
        <=> Fetch!request_taken \/ (fetch_state \in {"WAIT", "DRAIN"} /\ ~imem_rvalid)
  BY <1>2, <1>3, <1>5, OwedNext, Zenon
<1>7. fetch_state' \in {"WAIT", "DRAIN"}
        <=> Fetch!request_taken \/ (fetch_state \in {"WAIT", "DRAIN"} /\ ~imem_rvalid)
  <2>1. Fetch!request_taken => fetch_state = "REQUEST"
    BY OwedNext
  <2>2. CASE fetch_state = "REQUEST"
    BY <1>1, <2>2, Zenon DEF Fetch!AfterRedirect, Fetch!InSequence
  <2>3. CASE fetch_state = "WAIT"
    BY <1>1, <2>1, <2>3, Zenon DEF Fetch!AfterRedirect, Fetch!InSequence
  <2>4. CASE fetch_state = "DELIVER"
    BY <1>1, <2>1, <2>4, Zenon DEF Fetch!AfterRedirect, Fetch!InSequence
  <2>5. CASE fetch_state = "DRAIN"
    BY <1>1, <2>1, <2>5, Zenon DEF Fetch!AfterRedirect, Fetch!InSequence
  <2> QED
    BY <1>1, <2>2, <2>3, <2>4, <2>5 DEF Fetch!States
<1> QED
  BY <1>4, <1>6, <1>7, Zenon DEF Fetch!OneOutstanding

LEMMA NextWaitsForItsPc == ASSUME FInv, Cycle PROVE Fetch!WaitsForItsPc'
<1> SUFFICES ASSUME fetch_state' = "WAIT" PROVE imem_owed'[1] = fetch_pc'
  BY DEF Fetch!WaitsForItsPc
<1>1. /\ fetch_state \in Fetch!States
      /\ fetch_state' = IF redirect_valid THEN Fetch!AfterRedirect ELSE Fetch!InSequence
      /\ fetch_pc' = IF redirect_valid THEN redirect_pc
                     ELSE IF Fetch!accept_reply THEN Fetch!next_pc ELSE fetch_pc
  BY FetchWires
<1>2. /\ ~redirect_valid
      /\ \/ fetch_state = "REQUEST" /\ Fetch!request_taken
         \/ fetch_state = "WAIT" /\ ~imem_rvalid
  BY <1>1 DEF Fetch!AfterRedirect, Fetch!InSequence, Fetch!States
<1>3. fetch_pc' = fetch_pc
  BY <1>1, <1>2, Zenon DEF Fetch!accept_reply
<1>4. CASE Fetch!request_taken
  BY <1>3, <1>4, OwedNext
<1>5. CASE ~Fetch!request_taken
  BY <1>2, <1>3, <1>5, OwedNext DEF FInv, Fetch!WaitsForItsPc
<1> QED
  BY <1>4, <1>5

(* How a frame comes to be on offer. *)
LEMMA OnOffer ==
    ASSUME FInv, Cycle, Fetch!frame_valid'
    PROVE  /\ ~redirect_valid
           /\ \/ /\ Fetch!accept_reply /\ Fetch!imem_rdata = fetch_pc
                 /\ frame_pc_word' = fetch_pc /\ frame_bytes' = fetch_pc
                 /\ frame_bad_len' = (Lengths[program][fetch_pc] < Fetch!LenMin)
                 /\ fetch_pc' = Fetch!Successor(fetch_pc)
              \/ /\ Fetch!frame_valid /\ ~Fetch!frame_taken /\ ~Fetch!accept_reply
                 /\ UNCHANGED <<frame_pc_word, frame_bytes, frame_bad_len, fetch_pc>>
<1>1. /\ fetch_state \in Fetch!States /\ fetch_state' = "DELIVER"
      /\ fetch_state' = IF redirect_valid THEN Fetch!AfterRedirect ELSE Fetch!InSequence
      /\ fetch_pc' = IF redirect_valid THEN redirect_pc
                     ELSE IF Fetch!accept_reply THEN Fetch!next_pc ELSE fetch_pc
      /\ imem_owed \in Seq(Fetch!Pc)
  BY FetchWires DEF Fetch!frame_valid
<1>2. ~redirect_valid
      /\ ((fetch_state = "WAIT" /\ imem_rvalid) \/ (fetch_state = "DELIVER" /\ ~frame_ready))
  BY <1>1 DEF Fetch!AfterRedirect, Fetch!InSequence, Fetch!States
<1>3. CASE fetch_state = "WAIT"
  <2>1. Fetch!accept_reply
    BY <1>2, <1>3 DEF Fetch!accept_reply
  <2>2. Fetch!imem_rdata = fetch_pc
    <3>1. imem_owed[1] = fetch_pc /\ imem_owed # <<>>
      BY <1>2, <1>3 DEF FInv, TInv, Fetch!WaitsForItsPc, Replies
    <3>2. Head(imem_owed) = imem_owed[1]
      BY <1>1, <3>1
    <3> QED
      BY <3>1, <3>2 DEF Fetch!imem_rdata
  <2>3. /\ frame_pc_word' = fetch_pc /\ frame_bytes' = fetch_pc
        /\ frame_bad_len' = (Lengths[program][fetch_pc] < Fetch!LenMin)
    BY <2>1, <2>2, Zenon DEF Cycle, Fetch!FrameRegisters
  <2>4. fetch_pc' = Fetch!next_pc
    BY <1>1, <1>2, <2>1
  <2>5. Fetch!next_pc = Fetch!Successor(fetch_pc)
    BY <2>2, Zenon DEF Fetch!next_pc, Fetch!Successor
  <2> QED
    BY <1>2, <2>1, <2>2, <2>3, <2>4, <2>5
<1>4. CASE fetch_state = "DELIVER"
  <2>1. ~Fetch!accept_reply /\ Fetch!frame_valid /\ ~Fetch!frame_taken
    BY <1>2, <1>4 DEF Fetch!accept_reply, Fetch!frame_valid, Fetch!frame_taken
  <2>2. UNCHANGED <<frame_pc_word, frame_bytes, frame_bad_len>>
    BY <2>1, Zenon DEF Cycle, Fetch!FrameRegisters
  <2> QED
    BY <1>1, <1>2, <2>1, <2>2
<1> QED
  BY <1>2, <1>3, <1>4

LEMMA NextFrameIsItsOwn == ASSUME FInv, Cycle PROVE Fetch!FrameIsItsOwn' /\ FetchPcFollows'
<1> SUFFICES ASSUME Fetch!frame_valid'
             PROVE  /\ frame_bytes' = frame_pc_word'
                    /\ frame_bad_len' <=> Lengths[program]'[frame_pc_word'] < Fetch!LenMin
                    /\ fetch_pc' = Fetch!Successor(frame_pc_word)'
  BY DEF Fetch!FrameIsItsOwn, FetchPcFollows
<1>1. Lengths[program]' = Lengths[program]
  BY FetchWires
<1>2. Fetch!Successor(frame_pc_word)'
        = (frame_pc_word' + Fetch!LenWords(Lengths[program][frame_pc_word'])) % PcSize
  BY <1>1 DEF Fetch!Successor, Fetch!LenWords
<1>3. CASE Fetch!accept_reply
  BY <1>1, <1>2, <1>3, OnOffer DEF Fetch!Successor
<1>4. CASE ~Fetch!accept_reply
  <2>1. Fetch!frame_valid /\ UNCHANGED <<frame_pc_word, frame_bytes, frame_bad_len, fetch_pc>>
    BY <1>4, OnOffer
  <2> QED
    BY <1>1, <1>2, <2>1 DEF FInv, Fetch!FrameIsItsOwn, FetchPcFollows, Fetch!Successor
<1> QED
  BY <1>3, <1>4

LEMMA NextBehindHalt == ASSUME FInv, Cycle PROVE Fetch!NothingBehindHalt'
<1> SUFFICES ASSUME halt' PROVE fetch_state' \notin {"DELIVER", "WAIT"}
  BY DEF Fetch!NothingBehindHalt, Fetch!frame_valid
<1>1. fetch_state \in Fetch!States /\ halt \in BOOLEAN /\ halt' \in BOOLEAN
      /\ fetch_state' = IF redirect_valid THEN Fetch!AfterRedirect ELSE Fetch!InSequence
  BY FetchWires
<1>2. ~redirect_valid /\ (halt \/ (fetch_state = "DELIVER" /\ frame_ready))
  BY <1>1, Zenon DEF Cycle, HaltLatch, s2_load, Fetch!frame_valid
<1>3. CASE halt
  <2>1. fetch_state \in {"REQUEST", "DRAIN"} /\ ~Fetch!request_taken
    BY <1>1, <1>3 DEF FInv, Fetch!NothingBehindHalt, Fetch!frame_valid, Fetch!States,
       Fetch!request_taken, Fetch!imem_req_valid
  <2> QED
    BY <1>1, <1>2, <2>1 DEF Fetch!InSequence
<1>4. CASE fetch_state = "DELIVER" /\ frame_ready
  BY <1>1, <1>2, <1>4 DEF Fetch!InSequence
<1> QED
  BY <1>2, <1>3, <1>4

LEMMA InitFetch == Init => FInv
<1> SUFFICES ASSUME Init PROVE FInv
  OBVIOUS
<1>1. fetch_state = "REQUEST" /\ imem_owed = <<>> /\ ~halt
  BY DEF Init, Fetch!Init
<1> QED
  BY <1>1, InitTyped DEF FInv, Fetch!OneOutstanding, Fetch!WaitsForItsPc, Fetch!FrameIsItsOwn,
     Fetch!NothingBehindHalt, FetchPcFollows, Fetch!frame_valid

LEMMA NextFetch == ASSUME FInv, Cycle PROVE FInv'
<1>1. TInv'
  BY NextTyped DEF FInv, Next
<1> QED
  BY <1>1, NextOneOutstanding, NextWaitsForItsPc, NextFrameIsItsOwn, NextBehindHalt DEF FInv

(* The frame Decode will be given next: VeaFetch's InOrder, in the core. *)
LEMMA NextFrameStep ==
    ASSUME FInv, Cycle
    PROVE  Fetch!NextFrame' = IF redirect_valid THEN redirect_pc
                              ELSE IF Fetch!frame_taken THEN Fetch!Successor(Fetch!NextFrame)
                              ELSE Fetch!NextFrame
<1>1. /\ fetch_state \in Fetch!States
      /\ fetch_state' = IF redirect_valid THEN Fetch!AfterRedirect ELSE Fetch!InSequence
      /\ fetch_pc' = IF redirect_valid THEN redirect_pc
                     ELSE IF Fetch!accept_reply THEN Fetch!next_pc ELSE fetch_pc
  BY FetchWires
<1>2. Fetch!NextFrame' = IF Fetch!frame_valid' THEN frame_pc_word' ELSE fetch_pc'
  BY DEF Fetch!NextFrame
<1>3. CASE Fetch!frame_valid'
  <2>1. CASE Fetch!accept_reply
    <3>1. fetch_state = "WAIT"
      BY <2>1 DEF Fetch!accept_reply
    <3> QED
      BY <1>2, <1>3, <2>1, <3>1, OnOffer DEF Fetch!NextFrame, Fetch!frame_valid, Fetch!frame_taken
  <2>2. CASE ~Fetch!accept_reply
    BY <1>2, <1>3, <2>2, OnOffer DEF Fetch!NextFrame
  <2> QED
    BY <2>1, <2>2
<1>4. CASE ~Fetch!frame_valid'
  <2>1. fetch_state' # "DELIVER"
    BY <1>4 DEF Fetch!frame_valid
  <2>2. CASE redirect_valid
    BY <1>1, <1>2, <1>4, <2>2
  <2>3. CASE ~redirect_valid
    <3>1. ~Fetch!accept_reply
      BY <1>1, <2>1, <2>3 DEF Fetch!accept_reply, Fetch!InSequence
    <3>2. fetch_state = "DELIVER" => frame_ready
      BY <1>1, <2>1, <2>3 DEF Fetch!InSequence
    <3>3. Fetch!frame_taken <=> fetch_state = "DELIVER"
      BY <3>2 DEF Fetch!frame_taken, Fetch!frame_valid
    <3>4. fetch_state = "DELIVER" => fetch_pc = Fetch!Successor(frame_pc_word)
      BY Zenon DEF FInv, FetchPcFollows, Fetch!frame_valid
    <3>5. fetch_pc' = fetch_pc
      BY <1>1, <2>3, <3>1
    <3>6. Fetch!NextFrame = IF fetch_state = "DELIVER" THEN frame_pc_word ELSE fetch_pc
      BY DEF Fetch!NextFrame, Fetch!frame_valid
    <3> QED
      BY <1>2, <1>4, <2>3, <3>3, <3>4, <3>5, <3>6
  <2> QED
    BY <2>2, <2>3
<1> QED
  BY <1>3, <1>4
-----------------------------------------------------------------------------
(* The pipeline's invariant.                                               *)

(* The word address of an instruction, and what stage 1 makes of the frame *)
(* there.                                                                  *)
At(i) == i.pc \div 4

FrameAt(a) == Code[program][a]

Decoding(a) == Stage1(FrameAt(a), 4 * a, LenOf(FrameAt(a)) < 2)

(* The instructions in Decode and Execute are the program's own.           *)
StagesDecoded ==
    /\ s2_valid => At(s2) \in Pc /\ s2 = Decoding(At(s2))
    /\ x_valid => At(x) \in Pc /\ x = Decoding(At(x))

(* On the path, each stage holds the successor of the one ahead of it.     *)
PathOrder ==
    ~redirect_valid /\ ~stopped =>
        /\ s2_valid => Fetch!NextFrame = Fetch!Successor(At(s2))
        /\ x_valid => (IF s2_valid THEN At(s2) ELSE Fetch!NextFrame) = Fetch!Successor(At(x))

Halts(i) == i.is_halt /\ ~i.illegal

(* The halt latch is up from when a halt enters Decode, and nothing is     *)
(* behind the halt.                                                        *)
HaltSeen ==
    ~redirect_valid /\ ~stopped =>
        /\ s2_valid /\ Halts(s2) => halt
        /\ x_valid /\ Halts(x) => halt /\ ~s2_valid
        /\ halt => \/ s2_valid /\ Halts(s2)
                   \/ x_valid /\ Halts(x)
                   \/ ~s2_valid /\ ~x_valid

(* What a waiting instruction has put in the adders, the multiplier and    *)
(* the memory's request.                                                   *)
UnitsHold ==
    /\ state # "IDLE" => add_result = Wrap(op_a + op_b) /\ sub_result = Wrap(op_a - op_b)
    /\ state = "MUL_WAIT" => mul_op /\ mul_a = op_a /\ mul_b = op_b
    /\ state = "ADD_WAIT" => late_op
    /\ state = "MEM_WAIT" =>
         /\ mem_op
         /\ dmem_req = [addr |-> Wrap(op_a + op_b), we |-> x.is_store, size |-> x.mem_size,
                        wdata |-> op_c]

RInv == UInv /\ VInv /\ FInv /\ StagesDecoded /\ PathOrder /\ HaltSeen /\ UnitsHold

LEMMA QuarterOfFour == \A a \in Pc : (4 * a) \div 4 = a
  BY SizesAssumption DEF Pc

(* The frame on offer, as Decode takes it. *)
LEMMA Offered ==
    ASSUME FInv, Fetch!frame_valid
    PROVE  /\ Fetch!NextFrame \in Pc /\ At(s1) = Fetch!NextFrame
           /\ s1 = Decoding(At(s1))
<1>1. TypeOK /\ frame_pc_word \in Pc /\ frame_bad_len \in BOOLEAN /\ program \in Programs
  BY DEF FInv, TInv, TypeOK, Fetch!TypeOK, Fetch!Pc, Pc
<1>2. frame_bytes = frame_pc_word /\ (frame_bad_len <=> Lengths[program][frame_pc_word] < 2)
  BY DEF FInv, Fetch!FrameIsItsOwn, Fetch!LenMin
<1>3. Lengths[program][frame_pc_word] = LenOf(Code[program][frame_pc_word])
  BY <1>1 DEF Lengths
<1>4. frame_bad_len = (LenOf(FrameAt(frame_pc_word)) < 2)
  BY <1>1, <1>2, <1>3 DEF FrameAt
<1>5. s1 = Decoding(frame_pc_word)
  BY <1>2, <1>4 DEF s1, Decoding, FrameAt
<1>6. s1.pc = 4 * frame_pc_word
  BY DEF s1, Stage1
<1>7. At(s1) = frame_pc_word
  BY <1>1, <1>6, QuarterOfFour DEF At
<1>8. Fetch!NextFrame = frame_pc_word
  BY DEF Fetch!NextFrame
<1> QED
  BY <1>1, <1>5, <1>7, <1>8

(* How the two stages fill. *)
LEMMA StagesNext ==
    ASSUME FInv, Cycle
    PROVE  /\ s2_valid' => ~redirect_valid
           /\ s2_valid' <=> ~redirect_valid /\ (s2_load \/ (s2_valid /\ ~(can_issue /\ ex_ready)))
           /\ s2' = IF s2_load THEN s1 ELSE s2
           /\ x_valid' => ~redirect_valid
           /\ x_valid' <=> ~redirect_valid /\ (IF ex_ready THEN can_issue ELSE x_valid)
           /\ x' = IF ex_ready THEN s2 ELSE x
           /\ can_issue => s2_valid
           /\ s2_load => Fetch!frame_valid /\ ~redirect_valid /\ (s2_valid => can_issue /\ ex_ready)
           /\ ~redirect_valid => (s2_load <=> Fetch!frame_taken)
           /\ program' = program
<1>1. s2_valid \in BOOLEAN /\ x_valid \in BOOLEAN /\ redirect_valid \in BOOLEAN
  BY DEF FInv, TInv, TypeOK, Fetch!TypeOK
<1>2. s2_valid' <=> ~redirect_valid /\ (s2_load \/ (s2_valid /\ ~(can_issue /\ ex_ready)))
  BY <1>1, Zenon DEF Cycle, StageRegister
<1>3. x_valid' <=> ~redirect_valid /\ (IF ex_ready THEN can_issue ELSE x_valid)
  BY <1>1, Zenon DEF Cycle, IdExRegister, ex_valid
<1>4. s2' = IF s2_load THEN s1 ELSE s2
  BY DEF Cycle, StageRegister
<1>5. x' = IF ex_ready THEN s2 ELSE x
  BY DEF Cycle, IdExRegister
<1>6. s2_load => Fetch!frame_valid /\ ~redirect_valid /\ (s2_valid => can_issue /\ ex_ready)
  BY Zenon DEF s2_load, frame_ready
<1>7. ~redirect_valid => (s2_load <=> Fetch!frame_taken)
  BY Zenon DEF s2_load, Fetch!frame_taken
<1> QED
  BY <1>2, <1>3, <1>4, <1>5, <1>6, <1>7, Zenon DEF can_issue, Cycle

LEMMA NextDecoded == ASSUME RInv, Cycle PROVE StagesDecoded'
<1>1. FInv
  BY DEF RInv
<1>2. \A a : Decoding(a)' = Decoding(a)
  BY DEF Decoding, FrameAt, Cycle
<1>3. s2_valid' => At(s2') \in Pc /\ s2' = Decoding(At(s2'))
  BY <1>1, StagesNext, Offered DEF RInv, StagesDecoded
<1>4. x_valid' => At(x') \in Pc /\ x' = Decoding(At(x'))
  BY <1>1, StagesNext DEF RInv, StagesDecoded
<1> QED
  BY <1>2, <1>3, <1>4 DEF StagesDecoded, At

(* A fault stays latched. *)
LEMMA StaysStopped == ASSUME Cycle, ~stopped' PROVE ~stopped
<1>1. err \subseteq err'
  BY Zenon DEF Cycle, FaultLatches
<1> QED
  BY <1>1 DEF stopped

LEMMA NextPath == ASSUME RInv, Cycle PROVE PathOrder'
<1> DEFINE Succ(a) == Fetch!Successor(a)
           Frm == Fetch!NextFrame
<1> SUFFICES ASSUME ~redirect_valid', ~stopped'
             PROVE  /\ s2_valid' => Frm' = Succ(At(s2))'
                    /\ x_valid' => (IF s2_valid' THEN At(s2)' ELSE Frm') = Succ(At(x))'
  BY DEF PathOrder
<1>1. FInv /\ ~stopped
  BY StaysStopped DEF RInv
<1>2. \A a : Succ(a)' = Succ(a)
  BY <1>1, FetchWires DEF Fetch!Successor, Fetch!LenWords
<1>3. At(s2)' = At(s2') /\ At(x)' = At(x')
      /\ Succ(At(s2))' = Succ(At(s2')) /\ Succ(At(x))' = Succ(At(x'))
  BY <1>1, FetchWires DEF At, Fetch!Successor, Fetch!LenWords
<1>4. CASE redirect_valid
  BY <1>1, <1>4, StagesNext
<1>5. CASE ~redirect_valid
  <2>1. /\ s2_valid => Frm = Succ(At(s2))
        /\ x_valid => (IF s2_valid THEN At(s2) ELSE Frm) = Succ(At(x))
    BY <1>1, <1>5 DEF RInv, PathOrder
  <2>2. Frm' = IF s2_load THEN Succ(Frm) ELSE Frm
    BY <1>1, <1>5, NextFrameStep, StagesNext
  <2>3. s2_load => At(s2') = Frm
    BY <1>1, StagesNext, Offered
  <2>4. ~s2_load => s2' = s2
    BY <1>1, StagesNext
  <2>5. x' = IF ex_ready THEN s2 ELSE x
    BY <1>1, StagesNext
  <2>6. /\ s2_valid' <=> s2_load \/ (s2_valid /\ ~(can_issue /\ ex_ready))
        /\ x_valid' <=> IF ex_ready THEN can_issue ELSE x_valid
        /\ can_issue => s2_valid
        /\ s2_load => (s2_valid => can_issue /\ ex_ready)
    BY <1>1, <1>5, StagesNext
  <2> HIDE DEF Succ, Frm
  <2>7. s2_valid' => Frm' = Succ(At(s2'))
    BY <2>1, <2>2, <2>3, <2>4, <2>6
  <2>8. x_valid' => (IF s2_valid' THEN At(s2') ELSE Frm') = Succ(At(x'))
    BY <2>1, <2>2, <2>3, <2>4, <2>5, <2>6
  <2> QED
    BY <1>3, <2>7, <2>8
<1> QED
  BY <1>4, <1>5

LEMMA NextHaltSeen == ASSUME RInv, Cycle PROVE HaltSeen'
<1> SUFFICES ASSUME ~redirect_valid', ~stopped'
             PROVE  /\ s2_valid' /\ Halts(s2') => halt'
                    /\ x_valid' /\ Halts(x') => halt' /\ ~s2_valid'
                    /\ halt' => \/ s2_valid' /\ Halts(s2')
                                \/ x_valid' /\ Halts(x')
                                \/ ~s2_valid' /\ ~x_valid'
  BY DEF HaltSeen, Halts
<1>1. FInv /\ ~stopped
  BY StaysStopped DEF RInv
<1>2. CASE redirect_valid
  BY <1>1, <1>2, StagesNext DEF Cycle, HaltLatch
<1>3. CASE ~redirect_valid
  <2>1. /\ s2_valid /\ Halts(s2) => halt
        /\ x_valid /\ Halts(x) => halt /\ ~s2_valid
        /\ halt => \/ s2_valid /\ Halts(s2)
                   \/ x_valid /\ Halts(x)
                   \/ ~s2_valid /\ ~x_valid
    BY <1>1, <1>3 DEF RInv, HaltSeen
  <2>2. halt' <=> halt \/ (s2_load /\ Halts(s1))
    <3>1. halt \in BOOLEAN /\ halt' \in BOOLEAN
      BY <1>1, FetchWires
    <3> QED
      BY <1>3, <3>1, Zenon DEF Cycle, HaltLatch, Halts
  <2>3. halt => ~s2_load
    BY <1>1, StagesNext DEF FInv, Fetch!NothingBehindHalt
  <2>4. /\ s2_valid' <=> s2_load \/ (s2_valid /\ ~(can_issue /\ ex_ready))
        /\ x_valid' <=> IF ex_ready THEN can_issue ELSE x_valid
        /\ s2' = IF s2_load THEN s1 ELSE s2
        /\ x' = IF ex_ready THEN s2 ELSE x
        /\ can_issue => s2_valid
        /\ s2_load => (s2_valid => can_issue /\ ex_ready)
    BY <1>1, <1>3, StagesNext
  <2>5. s2_valid' /\ Halts(s2') => halt'
    BY <2>1, <2>2, <2>4
  <2>6. x_valid' /\ Halts(x') => halt' /\ ~s2_valid'
    BY <2>1, <2>2, <2>3, <2>4
  <2>7. ASSUME halt', s2_valid' \/ x_valid'
        PROVE  (s2_valid' /\ Halts(s2')) \/ (x_valid' /\ Halts(x'))
    BY <2>1, <2>2, <2>3, <2>4, <2>7
  <2> QED
    BY <2>5, <2>6, <2>7
<1> QED
  BY <1>2, <1>3

LEMMA NextUnitsHold == ASSUME RInv, Cycle PROVE UnitsHold'
<1>1. UInv /\ TypeOK /\ state \in WaitStates
  BY DEF RInv, UInv, TInv, TypeOK
<1>2. CASE state' = "IDLE"
  BY <1>2 DEF UnitsHold
<1>3. CASE state' # "IDLE"
  <2>1. valid_op /\ ~completing /\ ~ex_ready
    BY <1>1, <1>3, StillWaiting
  <2>2. x' = x /\ valid_op' /\ ~wb_valid
    BY <1>1, <2>1, HeldInExecute
  <2>3. UNCHANGED <<x_a, x_b, x_c, x_fwd_a, x_fwd_b, x_fwd_c, rf_wr_data>>
    BY <2>1, <2>2 DEF Cycle, IdExRegister, Writeback
  <2>4. op_a' = op_a /\ op_b' = op_b /\ op_c' = op_c
    BY <2>3 DEF op_a, op_b, op_c
  <2>5. (mul_op' <=> mul_op) /\ (mem_op' <=> mem_op) /\ (late_op' <=> late_op)
    BY <2>1, <2>2 DEF mul_op, mem_op, late_op
  <2>6. /\ add_result' = Wrap(op_a' + op_b')
        /\ sub_result' = Wrap(op_a' - op_b')
    BY <2>4 DEF Cycle, Adders
  <2>7. /\ state = "MUL_WAIT" => mul_op /\ mul_a = op_a /\ mul_b = op_b
        /\ state = "ADD_WAIT" => late_op /\ add_result = Wrap(op_a + op_b)
        /\ state = "MEM_WAIT" =>
             /\ mem_op
             /\ dmem_req = [addr |-> Wrap(op_a + op_b), we |-> x.is_store,
                            size |-> x.mem_size, wdata |-> op_c]
    BY DEF RInv, UnitsHold
  <2>8. ASSUME state' = "MUL_WAIT" PROVE mul_op' /\ mul_a' = op_a' /\ mul_b' = op_b'
    <3>1. (state = "IDLE" /\ mul_op) \/ state = "MUL_WAIT"
      BY <1>1, <2>8 DEF Cycle, WaitState, WaitStates
    <3>2. IF mul_start THEN mul_a' = op_a /\ mul_b' = op_b ELSE mul_a' = mul_a /\ mul_b' = mul_b
      BY DEF Cycle, Multiplier
    <3>3. mul_start <=> state = "IDLE" /\ mul_op
      BY DEF mul_start
    <3> QED
      BY <2>4, <2>5, <2>7, <3>1, <3>2, <3>3
  <2>9. ASSUME state' = "ADD_WAIT" PROVE late_op'
    <3>1. (state = "IDLE" /\ late_op) \/ state = "ADD_WAIT"
      BY <1>1, <2>9 DEF Cycle, WaitState, WaitStates
    <3> QED
      BY <2>5, <2>7, <3>1
  <2>10. ASSUME state' = "MEM_WAIT"
         PROVE  /\ mem_op'
                /\ dmem_req' = [addr |-> Wrap(op_a' + op_b'), we |-> x'.is_store,
                                size |-> x'.mem_size, wdata |-> op_c']
    <3>1. (state = "ADD_WAIT" /\ dmem_req_taken) \/ (state = "MEM_WAIT" /\ ~dmem_req_taken)
      BY <1>1, <2>10 DEF Cycle, WaitState, WaitStates, dmem_req_taken, dmem_req_valid
    <3>2. dmem_req_taken => mem_op
      BY DEF dmem_req_taken, dmem_req_valid
    <3>3. dmem_req' = IF dmem_req_taken
                      THEN [addr |-> add_result, we |-> x.is_store, size |-> x.mem_size,
                            wdata |-> op_c]
                      ELSE dmem_req
      BY DEF Cycle, DataMemory
    <3> QED
      BY <2>2, <2>4, <2>5, <2>7, <3>1, <3>2, <3>3
  <2>11. Wrap(op_a + op_b)' = Wrap(op_a' + op_b') /\ Wrap(op_a - op_b)' = Wrap(op_a' - op_b')
    BY DEF Wrap
  <2> QED
    BY <2>6, <2>8, <2>9, <2>10, <2>11 DEF UnitsHold
<1> QED
  BY <1>2, <1>3

LEMMA InitRInv == Init => RInv
<1> SUFFICES ASSUME Init PROVE RInv
  OBVIOUS
<1>1. state = "IDLE" /\ ~s2_valid /\ ~x_valid /\ ~halt
  BY DEF Init, Fetch!Init
<1> QED
  BY <1>1, InitUnits, InitOperands, InitFetch
  DEF RInv, StagesDecoded, PathOrder, HaltSeen, UnitsHold

LEMMA NextRInv == RInv /\ [Next]_vars => RInv'
<1> SUFFICES ASSUME RInv, [Next]_vars PROVE RInv'
  OBVIOUS
<1>1. UInv' /\ VInv'
  BY NextUnits, NextVInv DEF RInv
<1>2. CASE Cycle
  <2>1. FInv'
    BY <1>2, NextFetch DEF RInv
  <2> QED
    BY <1>1, <1>2, <2>1, NextDecoded, NextPath, NextHaltSeen, NextUnitsHold DEF RInv
<1>3. CASE UNCHANGED vars
  <2>1. /\ UNCHANGED <<program, s2_valid, s2, x_valid, x, x_a, x_b, x_c, x_fwd_a, x_fwd_b, x_fwd_c>>
        /\ UNCHANGED <<rf_wr_data, redirect_valid, redirect_pc, err, halt, state>>
        /\ UNCHANGED <<add_result, sub_result, mul_a, mul_b, dmem_req>>
        /\ UNCHANGED fetch_vars
    BY <1>3 DEF vars, decode_vars, execute_vars, writeback_vars, dmem_vars
  <2>2. Lengths[program]' = Lengths[program]
    BY <2>1
  <2>3. FInv'
    <3>1. TInv'
      BY <1>1 DEF UInv
    <3>2. Fetch!OneOutstanding' /\ Fetch!WaitsForItsPc' /\ Fetch!NothingBehindHalt'
      BY <2>1 DEF fetch_vars, RInv, FInv, Fetch!OneOutstanding, Fetch!WaitsForItsPc,
         Fetch!NothingBehindHalt, Fetch!frame_valid
    <3>3. Fetch!FrameIsItsOwn' /\ FetchPcFollows'
      BY <2>1, <2>2 DEF fetch_vars, RInv, FInv, Fetch!FrameIsItsOwn, FetchPcFollows,
         Fetch!frame_valid, Fetch!Successor, Fetch!LenMin, Fetch!LenWords
    <3> QED
      BY <3>1, <3>2, <3>3 DEF FInv
  <2>4. StagesDecoded'
    BY <2>1 DEF RInv, StagesDecoded, Decoding, FrameAt, At
  <2>5. PathOrder'
    BY <2>1, <2>2 DEF fetch_vars, RInv, PathOrder, stopped, At, Fetch!NextFrame,
       Fetch!frame_valid, Fetch!Successor, Fetch!LenWords
  <2>6. HaltSeen'
    BY <2>1 DEF RInv, HaltSeen, stopped, Halts
  <2>7. op_a' = op_a /\ op_b' = op_b /\ op_c' = op_c
    BY <2>1 DEF op_a, op_b, op_c
  <2>8. valid_op' = valid_op
    BY <2>1 DEF valid_op, live, stopped
  <2>9. UnitsHold'
    BY <2>1, <2>7, <2>8 DEF RInv, UnitsHold, mul_op, late_op, mem_op, Wrap
  <2> QED
    BY <1>1, <2>3, <2>4, <2>5, <2>6, <2>9 DEF RInv
<1> QED
  BY <1>2, <1>3 DEF Next
-----------------------------------------------------------------------------
(* The state VeaArch sees, and cycles that leave it alone.                 *)

(* The pc and the status of the refinement mapping. *)
ArchPc == IF stopped THEN PcSize ELSE NextToRetire

ArchStatus == IF stopped THEN CHOOSE e \in err : TRUE ELSE IF Drained THEN "halt" ELSE "run"

LEMMA InitArch == Init => Arch!Init
<1> SUFFICES ASSUME Init PROVE Arch!Init
  OBVIOUS
<1>1. ~stopped /\ ~redirect_valid /\ ~x_valid /\ ~s2_valid /\ ~halt /\ ~rf_wr_en
  BY DEF Init, Fetch!Init, stopped
<1>2. NextToRetire = ResetPc
  BY <1>1 DEF Init, Fetch!Init, NextToRetire, Fetch!NextFrame, Fetch!frame_valid
<1>3. ~Drained
  BY <1>1 DEF Drained
<1>4. ArchRegs = [r \in RegNums |-> 0]
  BY <1>1 DEF ArchRegs, Read, Init
<1>5. cc = Arch!NoFlags
  BY DEF Init, NoFlags, Arch!NoFlags
<1> QED
  BY <1>1, <1>2, <1>3, <1>4, <1>5 DEF Init, Arch!Init, Arch!RegNums, RegNums

(* The register file as the simulator sees it: what completes is there at  *)
(* once.                                                                   *)
LEMMA ArchRegsNext ==
    ASSUME TypeOK, Cycle
    PROVE  ArchRegs' = IF wb_valid THEN [ArchRegs EXCEPT ![wb_rd] = wb_data] ELSE ArchRegs
<1>1. \A r \in RegNums : (Read(r))' = IF Completes(r) THEN rf_wr_data' ELSE Read(r)
  BY ReadNext
<1>2. wb_valid => rf_wr_data' = wb_data
  BY DEF Cycle, Writeback
<1>3. wb_rd \in RegNums
  BY WritebackTypes
<1>4. ArchRegs' = [r \in RegNums |-> IF Completes(r) THEN rf_wr_data' ELSE Read(r)]
  BY <1>1 DEF ArchRegs
<1>5. ArchRegs' = [r \in RegNums |-> IF wb_valid /\ wb_rd = r THEN wb_data ELSE Read(r)]
  BY <1>2, <1>4 DEF Completes
<1> QED
  BY <1>3, <1>5 DEF ArchRegs

(* The instruction in Execute is the next one of the program. *)
LEMMA LiveFrame ==
    ASSUME RInv, live
    PROVE  /\ At(x) \in Pc /\ program \in Programs /\ FrameAt(At(x)) \in Frame
           /\ x = Stage1(FrameAt(At(x)), 4 * At(x), LenOf(FrameAt(At(x))) < 2)
           /\ x.illegal = Illegal(FrameAt(At(x)), LenOf(FrameAt(At(x))) < 2)
           /\ ArchPc = At(x) /\ ArchStatus = "run"
<1>1. x_valid /\ ~redirect_valid /\ ~stopped
  BY DEF live
<1>2. At(x) \in Pc /\ x = Decoding(At(x))
  BY <1>1 DEF RInv, StagesDecoded
<1>3. program \in Programs
  BY DEF RInv, UInv, TInv, TypeOK
<1>4. FrameAt(At(x)) \in Frame
  BY <1>2, <1>3, ContentsAssumption DEF FrameAt
<1>5. ArchPc = At(x) /\ ArchStatus = "run"
  BY <1>1 DEF ArchPc, ArchStatus, NextToRetire, Drained, At
<1>6. x.illegal = Illegal(FrameAt(At(x)), LenOf(FrameAt(At(x))) < 2)
  BY <1>2 DEF Decoding, Stage1
<1> QED
  BY <1>2, <1>3, <1>4, <1>5, <1>6 DEF Decoding

(* Which instruction waits for which unit. *)
LEMMA UnitOfOpcode ==
    ASSUME RInv, valid_op
    PROVE  LET op == Opcode(FrameAt(At(x))) IN
           /\ op \in Legal
           /\ late_op <=> op \in {0, 1, 16, 17, 48, 49, 64, 65, 254, 255}
           /\ mem_op <=> op \in {64, 65}
           /\ mul_op <=> op = 25
           /\ flags_valid <=> op \in {32, 33}
           /\ unsupported <=> op = 26
<1> DEFINE f == FrameAt(At(x))
           op == Opcode(f)
<1>1. live /\ ~x.illegal
  BY DEF valid_op
<1>2. /\ f \in Frame /\ ~Illegal(f, LenOf(f) < 2)
      /\ x = Stage1(f, 4 * At(x), LenOf(f) < 2)
  BY <1>1, LiveFrame
<1> HIDE DEF f
<1>3. op \in Legal
  BY <1>2, LegalFrame
<1>4. /\ x.alu_op = IF op \in 16 .. 26 THEN AluOfNibble[(op % 16) + 1]
                    ELSE IF op = 32 THEN "cmp" ELSE IF op = 33 THEN "cmp_s" ELSE "add"
      /\ x.is_load <=> op = 64
      /\ x.is_store <=> op = 65
  BY <1>2, Fields
<1> HIDE DEF op
<1>5. CASE op \in 16 .. 26
  <2>1. x.alu_op = AluOfNibble[(op % 16) + 1]
    BY <1>4, <1>5
  <2>2. /\ x.alu_op \in AluFn
        /\ x.alu_op = "add" <=> op = 16
        /\ x.alu_op = "sub" <=> op = 17
        /\ x.alu_op = "mul" <=> op = 25
        /\ x.alu_op = "div" <=> op = 26
    BY <1>5, <2>1, Nibbles
  <2> QED
    BY <1>4, <1>5, <2>2 DEF valid_op, late_op, mem_op, mul_op, flags_valid, unsupported, AluFn,
       Legal, f, op
<1>6. CASE op \notin 16 .. 26
  BY <1>3, <1>4, <1>6 DEF valid_op, late_op, mem_op, mul_op, flags_valid, unsupported,
     Legal, f, op
<1> QED
  BY <1>5, <1>6 DEF f, op

(* What a completing instruction finds in the unit it has waited for. *)
LEMMA Completion ==
    ASSUME RInv, valid_op, completing
    PROVE  /\ late_op => add_result = Wrap(op_a + op_b) /\ sub_result = Wrap(op_a - op_b)
           /\ mul_op => mul_a = op_a /\ mul_b = op_b
           /\ mem_op => dmem_rvalid
           /\ mem_op => dmem_req = [addr |-> Wrap(op_a + op_b), we |-> x.is_store,
                                    size |-> x.mem_size, wdata |-> op_c]
           /\ ~mem_op => ~dmem_rvalid
<1>1. state \in WaitStates /\ UnitsHold
  BY DEF RInv, UInv, TInv, TypeOK
<1>2. dmem_rvalid => state = "MEM_WAIT"
  BY Zenon DEF RInv, UInv, DataReplies, UnitsInStep
<1>3. late_op => ~mul_op
  BY DEF late_op, mul_op
<1>4. mem_op => late_op
  BY UnitOfOpcode
<1>5. CASE state = "IDLE"
  BY <1>2, <1>4, <1>5 DEF completing
<1>6. CASE state = "ADD_WAIT"
  BY <1>1, <1>2, <1>3, <1>6 DEF completing, UnitsHold
<1>7. CASE state = "MUL_WAIT"
  BY <1>1, <1>2, <1>3, <1>4, <1>7 DEF completing, UnitsHold
<1>8. CASE state = "MEM_WAIT"
  BY <1>1, <1>2, <1>3, <1>4, <1>8 DEF completing, UnitsHold
<1> QED
  BY <1>1, <1>5, <1>6, <1>7, <1>8 DEF WaitStates

(* A cycle in which nothing completes. *)
LEMMA QuietCycle ==
    ASSUME RInv, Cycle, ~(live /\ completing)
    PROVE  UNCHANGED <<ArchRegs, cc, dmem, err>> /\ ~wb_redirect_valid
<1>1. TypeOK /\ state \in WaitStates
  BY DEF RInv, UInv, TInv, TypeOK
<1>2. ~wb_valid /\ ~wb_redirect_valid
  BY DEF wb_valid, wb_redirect_valid, valid_op
<1>3. ArchRegs' = ArchRegs
  BY <1>1, <1>2, ArchRegsNext
<1>4. err' = err
  <2>1. /\ ~(completing /\ live /\ x.illegal) /\ ~(completing /\ valid_op /\ unsupported)
        /\ ~(completing /\ valid_op /\ x.is_trap) /\ ~(completing /\ pc_misaligned)
    BY DEF valid_op, pc_misaligned
  <2> QED
    BY <2>1, Zenon DEF Cycle, FaultLatches
<1>5. cc' = cc
  <2>1. ASSUME valid_op, flags_valid PROVE completing
    <3>1. ~late_op /\ ~mem_op /\ ~mul_op
      BY <2>1, UnitOfOpcode
    <3> QED
      BY <1>1, <3>1 DEF RInv, UnitsHold, completing, WaitStates
  <2>2. ~(valid_op /\ flags_valid)
    BY <2>1 DEF valid_op
  <2> QED
    BY <2>2 DEF Cycle, ConditionCodes
<1>6. dmem' = dmem
  <2>1. dmem_rvalid => state = "MEM_WAIT"
    BY Zenon DEF RInv, UInv, DataReplies, UnitsInStep
  <2>2. state # "IDLE" => valid_op
    BY DEF RInv, UInv, WaitingIsLive
  <2>3. dmem_rvalid => live /\ completing
    BY <2>1, <2>2 DEF valid_op, completing
  <2> QED
    BY <2>3 DEF Cycle, DataMemory
<1> QED
  BY <1>2, <1>3, <1>4, <1>5, <1>6

(* Where the core goes on. *)
LEMMA PipelineNext ==
    ASSUME RInv, Cycle, ~redirect_valid
    PROVE  LET Frm == Fetch!NextFrame IN
           /\ s2_load => At(s2') = Frm
           /\ ~s2_load => s2' = s2
           /\ x' = IF ex_ready THEN s2 ELSE x
           /\ Frm' = IF s2_load THEN Fetch!Successor(Frm) ELSE Frm
           /\ s2_valid' <=> s2_load \/ (s2_valid /\ ~(can_issue /\ ex_ready))
           /\ x_valid' <=> IF ex_ready THEN can_issue ELSE x_valid
           /\ can_issue => s2_valid
           /\ s2_load => (s2_valid => can_issue /\ ex_ready)
           /\ redirect_valid' <=> wb_redirect_valid
           /\ halt => ~s2_load
           /\ halt' <=> halt \/ (s2_load /\ Halts(s1))
<1>1. FInv
  BY DEF RInv
<1>2. s2_load => At(s2') = Fetch!NextFrame
  BY <1>1, StagesNext, Offered
<1>3. /\ ~s2_load => s2' = s2
      /\ x' = IF ex_ready THEN s2 ELSE x
      /\ s2_valid' <=> s2_load \/ (s2_valid /\ ~(can_issue /\ ex_ready))
      /\ x_valid' <=> IF ex_ready THEN can_issue ELSE x_valid
      /\ can_issue => s2_valid
      /\ s2_load => (s2_valid => can_issue /\ ex_ready)
      /\ s2_load <=> Fetch!frame_taken
  BY <1>1, StagesNext
<1>4. Fetch!NextFrame' = IF s2_load THEN Fetch!Successor(Fetch!NextFrame) ELSE Fetch!NextFrame
  BY <1>1, <1>3, NextFrameStep
<1>5. redirect_valid' <=> wb_redirect_valid
  BY DEF Cycle, Writeback
<1>6. halt => ~s2_load
  BY <1>1, StagesNext DEF FInv, Fetch!NothingBehindHalt
<1>7. halt' <=> halt \/ (s2_load /\ Halts(s1))
  <2>1. halt \in BOOLEAN /\ halt' \in BOOLEAN
    BY <1>1, FetchWires
  <2> QED
    BY <2>1, Zenon DEF Cycle, HaltLatch, Halts
<1> QED
  BY <1>2, <1>3, <1>4, <1>5, <1>6, <1>7

LEMMA NextToRetireAfter ==
    NextToRetire' = IF redirect_valid' THEN redirect_pc'
                    ELSE IF x_valid' THEN At(x')
                    ELSE IF s2_valid' THEN At(s2') ELSE Fetch!NextFrame'
  BY DEF NextToRetire, At

(* Without a completion the next instruction to retire stays the same. *)
LEMMA QuietPc ==
    ASSUME RInv, Cycle, ~(live /\ completing), ~stopped
    PROVE  NextToRetire' = NextToRetire /\ (Drained' <=> Drained)
<1>1. FInv /\ ~wb_redirect_valid
  BY QuietCycle DEF RInv
<1>2. CASE redirect_valid
  <2>1. ~s2_valid' /\ ~x_valid'
    BY <1>1, <1>2, StagesNext
  <2>2. ~redirect_valid' /\ ~halt'
    BY <1>1, <1>2 DEF Cycle, Writeback, HaltLatch
  <2>3. Fetch!NextFrame' = redirect_pc
    BY <1>1, <1>2, NextFrameStep
  <2> QED
    BY <1>2, <2>1, <2>2, <2>3, NextToRetireAfter DEF NextToRetire, Drained
<1>3. CASE ~redirect_valid
  <2> DEFINE Frm == Fetch!NextFrame
  <2>1. /\ s2_load => At(s2') = Frm
        /\ ~s2_load => s2' = s2
        /\ x' = IF ex_ready THEN s2 ELSE x
        /\ Frm' = IF s2_load THEN Fetch!Successor(Frm) ELSE Frm
        /\ s2_valid' <=> s2_load \/ (s2_valid /\ ~(can_issue /\ ex_ready))
        /\ x_valid' <=> IF ex_ready THEN can_issue ELSE x_valid
        /\ can_issue => s2_valid
        /\ s2_load => (s2_valid => can_issue /\ ex_ready)
        /\ ~redirect_valid'
        /\ halt => ~s2_load
        /\ halt' <=> halt \/ (s2_load /\ Halts(s1))
    BY <1>1, <1>3, PipelineNext
  <2>2. NextToRetire = IF x_valid THEN At(x) ELSE IF s2_valid THEN At(s2) ELSE Frm
    BY <1>3 DEF NextToRetire, At
  <2>3. NextToRetire' = IF x_valid' THEN At(x') ELSE IF s2_valid' THEN At(s2') ELSE Frm'
    BY <2>1, NextToRetireAfter
  <2>4. Drained <=> halt /\ ~s2_valid /\ ~x_valid
    BY <1>3 DEF Drained
  <2>5. Drained' <=> halt' /\ ~s2_valid' /\ ~x_valid'
    BY <2>1 DEF Drained
  <2>6. /\ halt => \/ s2_valid /\ Halts(s2)
                   \/ x_valid /\ Halts(x)
                   \/ ~s2_valid /\ ~x_valid
    BY <1>3 DEF RInv, HaltSeen
  <2> HIDE DEF Frm
  <2>7. CASE x_valid
    <3>1. ~ex_ready
      BY <1>3, <2>7 DEF live, ex_ready
    <3> QED
      BY <2>1, <2>2, <2>3, <2>4, <2>5, <2>7, <3>1
  <2>8. CASE ~x_valid
    <3>1. ex_ready
      BY <2>8 DEF ex_ready
    <3>2. NextToRetire' = NextToRetire
      BY <2>1, <2>2, <2>3, <2>8, <3>1
    <3> QED
      BY <2>1, <2>4, <2>5, <2>6, <2>8, <3>1, <3>2
  <2> QED
    BY <2>7, <2>8
<1> QED
  BY <1>2, <1>3

(* A completion hands over to the redirect target or to the successor. *)
LEMMA CompletionPc ==
    ASSUME RInv, Cycle, live, completing
    PROVE  /\ wb_redirect_valid => NextToRetire' = add_result \div 4 /\ ~Drained'
           /\ ~wb_redirect_valid => /\ NextToRetire' = Fetch!Successor(At(x))
                                    /\ Drained' <=> Halts(x)
<1>1. x_valid /\ ~redirect_valid /\ ~stopped /\ ex_ready
  BY DEF live, ex_ready
<1>2. CASE wb_redirect_valid
  BY <1>2, NextToRetireAfter DEF Cycle, Writeback, wb_redirect_pc, Drained
<1>3. CASE ~wb_redirect_valid
  <2> DEFINE Frm == Fetch!NextFrame
  <2>1. /\ s2_load => At(s2') = Frm
        /\ ~s2_load => s2' = s2
        /\ x' = s2
        /\ Frm' = IF s2_load THEN Fetch!Successor(Frm) ELSE Frm
        /\ s2_valid' <=> s2_load \/ (s2_valid /\ ~can_issue)
        /\ x_valid' <=> can_issue
        /\ can_issue => s2_valid
        /\ s2_load => (s2_valid => can_issue)
        /\ ~redirect_valid'
        /\ halt => ~s2_load
        /\ halt' <=> halt \/ (s2_load /\ Halts(s1))
    BY <1>1, <1>3, PipelineNext
  <2>2. (IF s2_valid THEN At(s2) ELSE Frm) = Fetch!Successor(At(x))
    BY <1>1 DEF RInv, PathOrder
  <2>3. NextToRetire' = IF x_valid' THEN At(x') ELSE IF s2_valid' THEN At(s2') ELSE Frm'
    BY <2>1, NextToRetireAfter
  <2>4. Drained' <=> halt' /\ ~s2_valid' /\ ~x_valid'
    BY <2>1 DEF Drained
  <2>5. /\ Halts(x) => halt /\ ~s2_valid
        /\ halt => (s2_valid /\ Halts(s2)) \/ Halts(x)
    BY <1>1 DEF RInv, HaltSeen
  <2> HIDE DEF Frm
  <2>6. NextToRetire' = Fetch!Successor(At(x))
    BY <2>1, <2>2, <2>3
  <2>7. Drained' <=> Halts(x)
    BY <2>1, <2>4, <2>5
  <2> QED
    BY <1>3, <2>6, <2>7
<1> QED
  BY <1>2, <1>3
-----------------------------------------------------------------------------
(* What completes, seen from VeaArch.                                      *)

(* What the simulator sees of the instruction in Execute. *)
LEMMA SimView ==
    ASSUME RInv, live
    PROVE  /\ Arch!f = FrameAt(At(x))
           /\ Arch!op = Opcode(FrameAt(At(x)))
           /\ Arch!Source = LastOperand(FrameAt(At(x)), ArchRegs)
<1>1. ArchPc = At(x)
  BY LiveFrame
<1>2. Arch!f = FrameAt(At(x))
  BY <1>1 DEF ArchPc, Arch!f, FrameAt
<1>3. Arch!op = Opcode(FrameAt(At(x)))
  BY <1>2, SameFrame DEF Arch!op
<1>4. Arch!Source = LastOperand(FrameAt(At(x)), ArchRegs)
  BY <1>2, SameFrame DEF Arch!Source, LastOperand
<1> QED
  BY <1>2, <1>3, <1>4

(* The operands Execute works on are the simulator's. *)
LEMMA OperandsSeen ==
    ASSUME RInv, valid_op
    PROVE  LET f == FrameAt(At(x)) op == Opcode(FrameAt(At(x))) IN
           /\ op \in {1, 20, 49} => op_a = Arch!Source /\ op_b = 0
           /\ op = 48 /\ IsImm(f) => op_a = 4 * At(x) /\ op_b = Arch!Source
           /\ op = 48 /\ ~IsImm(f) => op_a = Arch!Source /\ op_b = 0
           /\ op \in ((16 .. 26) \ {20}) \cup {64, 65}
                => op_a = ArchRegs[f[3]] /\ op_b = Arch!Source
           /\ op \in {32, 33} => op_a = ArchRegs[f[2]] /\ op_b = Arch!Source
           /\ op = 65 => op_c = ArchRegs[f[2]]
<1> DEFINE f == FrameAt(At(x))
           op == Opcode(f)
<1>1. live /\ ~x.illegal
  BY DEF valid_op
<1>2. /\ f \in Frame /\ ~Illegal(f, LenOf(f) < 2)
      /\ x = Stage1(f, 4 * At(x), LenOf(f) < 2)
  BY <1>1, LiveFrame
<1>3. /\ op_a = OperandA(x, ArchRegs[x.raddr_a])
      /\ op_b = OperandB(x, ArchRegs[x.raddr_b])
      /\ x.is_store => op_c = ArchRegs[x.rd]
  BY DEF RInv, VInv, OperandsCurrent
<1>4. Arch!Source = LastOperand(f, ArchRegs)
  BY <1>1, SimView
<1> HIDE DEF f
<1>5. op = 65 => x.is_store /\ x.rd = f[2]
  BY <1>2, Fields, Registers
<1>6. /\ op \in {1, 20, 49}
           => OperandA(x, ArchRegs[x.raddr_a]) = LastOperand(f, ArchRegs)
              /\ OperandB(x, ArchRegs[x.raddr_b]) = 0
      /\ op = 48 /\ IsImm(f)
           => OperandA(x, ArchRegs[x.raddr_a]) = 4 * At(x)
              /\ OperandB(x, ArchRegs[x.raddr_b]) = LastOperand(f, ArchRegs)
      /\ op = 48 /\ ~IsImm(f)
           => OperandA(x, ArchRegs[x.raddr_a]) = LastOperand(f, ArchRegs)
              /\ OperandB(x, ArchRegs[x.raddr_b]) = 0
      /\ op \in ((16 .. 26) \ {20}) \cup {64, 65}
           => OperandA(x, ArchRegs[x.raddr_a]) = ArchRegs[f[3]]
              /\ OperandB(x, ArchRegs[x.raddr_b]) = LastOperand(f, ArchRegs)
      /\ op \in {32, 33}
           => OperandA(x, ArchRegs[x.raddr_a]) = ArchRegs[f[2]]
              /\ OperandB(x, ArchRegs[x.raddr_b]) = LastOperand(f, ArchRegs)
  BY <1>2, OperandValues
<1> HIDE DEF op
<1>7. /\ op \in {1, 20, 49} => op_a = Arch!Source /\ op_b = 0
      /\ op = 48 /\ IsImm(f) => op_a = 4 * At(x) /\ op_b = Arch!Source
      /\ op = 48 /\ ~IsImm(f) => op_a = Arch!Source /\ op_b = 0
      /\ op \in ((16 .. 26) \ {20}) \cup {64, 65}
           => op_a = ArchRegs[f[3]] /\ op_b = Arch!Source
      /\ op \in {32, 33} => op_a = ArchRegs[f[2]] /\ op_b = Arch!Source
      /\ op = 65 => op_c = ArchRegs[f[2]]
  BY <1>3, <1>4, <1>5, <1>6
<1> QED
  BY <1>7 DEF f, op

LEMMA WrapOfWord == \A v \in Word : Wrap(v + 0) = v
  BY WordSizeAssumption DEF Word, Wrap

(* A branch goes where the simulator's goes, when the simulator's does. *)
LEMMA TakenSeen ==
    ASSUME RInv, valid_op, completing
    PROVE  /\ x.is_bj /\ branch_taken <=> Arch!Taken
           /\ x.is_bj => Arch!Target = add_result
<1> DEFINE f == FrameAt(At(x))
           op == Opcode(f)
<1>1. live /\ ~x.illegal /\ TypeOK
  BY DEF valid_op, RInv, UInv, TInv
<1>2. /\ f \in Frame /\ ~Illegal(f, LenOf(f) < 2)
      /\ x = Stage1(f, 4 * At(x), LenOf(f) < 2)
      /\ ArchPc = At(x)
  BY <1>1, LiveFrame
<1>3. Arch!f = f /\ Arch!op = op
  BY <1>1, SimView
<1>4. op \in {48, 49} => late_op
  BY UnitOfOpcode
<1> HIDE DEF f
<1>5. /\ x.is_bj <=> op \in {48, 49}
      /\ x.pred = IF op = 49 THEN 0 ELSE FlagBits(f) % 8
  BY <1>2, Fields
<1>6. Predicate(PredOfBits[0 + 1], cc)
  BY DEF Predicate, PredOfBits
<1>7. Arch!Taken <=> op = 49 \/ (op = 48 /\ Predicate(PredOfBits[(FlagBits(f) % 8) + 1], cc))
  BY <1>3, SameFrame, Zenon DEF Arch!Taken
<1>8. branch_taken <=> Predicate(PredOfBits[x.pred + 1], cc)
  BY Zenon DEF branch_taken, Predicate
<1>9. x.is_bj /\ branch_taken <=> Arch!Taken
  <2>1. CASE op = 49
    <3>1. x.pred = 0
      BY <1>5, <2>1
    <3>2. branch_taken
      BY <1>6, <1>8, <3>1, Zenon
    <3> QED
      BY <1>5, <1>7, <2>1, <3>2
  <2>2. CASE op = 48
    <3>1. x.pred = FlagBits(f) % 8
      BY <1>5, <2>2
    <3>2. branch_taken <=> Predicate(PredOfBits[(FlagBits(f) % 8) + 1], cc)
      BY <1>8, <3>1, Zenon
    <3>3. op # 49 /\ x.is_bj
      BY <1>5, <2>2
    <3> HIDE DEF op
    <3> QED
      BY <1>7, <2>2, <3>2, <3>3, Zenon
  <2>3. CASE op \notin {48, 49}
    BY <1>5, <1>7, <2>3
  <2> QED
    BY <2>1, <2>2, <2>3
<1>10. ASSUME x.is_bj PROVE Arch!Target = add_result
  <2>1. add_result = Wrap(op_a + op_b) /\ op \in {48, 49}
    BY <1>4, <1>5, <1>10, Completion
  <2>2. /\ op = 49 => op_a = Arch!Source /\ op_b = 0
        /\ op = 48 /\ IsImm(f) => op_a = 4 * At(x) /\ op_b = Arch!Source
        /\ op = 48 /\ ~IsImm(f) => op_a = Arch!Source /\ op_b = 0
    BY OperandsSeen DEF f
  <2>3. op_a \in Word
    BY <1>1, OperandsInWord
  <2>4. Arch!Target = IF op = 48 /\ IsImm(f) THEN Wrap(4 * At(x) + Arch!Source)
                      ELSE Arch!Source
    BY <1>2, <1>3, SameFrame DEF Arch!Target, ArchPc
  <2> HIDE DEF op
  <2>5. CASE op = 48 /\ IsImm(f)
    BY <2>1, <2>2, <2>4, <2>5
  <2>6. CASE ~(op = 48 /\ IsImm(f))
    <3>1. op_a = Arch!Source /\ op_b = 0 /\ Arch!Target = op_a
      BY <2>1, <2>2, <2>4, <2>6
    <3> QED
      BY <2>1, <2>3, <3>1, WrapOfWord
  <2> QED
    BY <2>5, <2>6
<1> QED
  BY <1>9, <1>10

(* The fault, if any, is the simulator's. *)
LEMMA FaultSeen ==
    ASSUME RInv, live, completing
    PROVE  Arch!Fault = IF x.illegal THEN "illegal"
                        ELSE IF x.is_trap THEN "trap"
                        ELSE IF unsupported THEN "unsupported"
                        ELSE IF pc_misaligned THEN "unaligned" ELSE "none"
<1> DEFINE f == FrameAt(At(x))
           op == Opcode(f)
<1>1. /\ f \in Frame /\ x.illegal = Illegal(f, LenOf(f) < 2)
      /\ x = Stage1(f, 4 * At(x), LenOf(f) < 2)
  BY LiveFrame
<1>2. Arch!f = f /\ Arch!op = op
  BY SimView
<1>3. Arch!Trap = 254 /\ Arch!LenOf(f) = LenOf(f)
  BY SameFrame DEF Arch!Trap
<1>4. Arch!Fault = IF SimIllegal(f) \/ LenOf(f) \notin 2 .. 12 THEN "illegal"
                   ELSE IF op = 254 THEN "trap"
                   ELSE IF op = 26 THEN "unsupported"
                   ELSE IF Arch!Taken /\ Arch!Target % 4 # 0 THEN "unaligned" ELSE "none"
  BY <1>2, <1>3, SameFrame DEF Arch!Fault
<1> HIDE DEF f
<1>5. x.illegal <=> SimIllegal(f) \/ LenOf(f) \notin 2 .. 12
  BY <1>1, SameFaults
<1>6. CASE x.illegal
  BY <1>4, <1>5, <1>6
<1>7. CASE ~x.illegal
  <2>1. valid_op
    BY <1>7 DEF valid_op
  <2>2. unsupported <=> op = 26
    BY <2>1, UnitOfOpcode DEF f
  <2>3. x.is_trap <=> op = 254
    BY <1>1, <1>7, Fields
  <2>4. pc_misaligned <=> Arch!Taken /\ Arch!Target % 4 # 0
    BY <2>1, TakenSeen DEF pc_misaligned
  <2> HIDE DEF op
  <2> QED
    BY <1>4, <1>5, <1>7, <2>2, <2>3, <2>4
<1> QED
  BY <1>6, <1>7

LEMMA FaultLatched ==
    ASSUME RInv, Cycle, live, completing
    PROVE  err' = IF Arch!Fault = "none" THEN {} ELSE {Arch!Fault}
<1>1. err = {}
  BY DEF live, stopped
<1>2. valid_op <=> ~x.illegal
  BY DEF valid_op
<1>3. err' = (IF x.illegal THEN {"illegal"} ELSE {})
                \cup (IF ~x.illegal /\ unsupported THEN {"unsupported"} ELSE {})
                \cup (IF ~x.illegal /\ x.is_trap THEN {"trap"} ELSE {})
                \cup (IF ~x.illegal /\ pc_misaligned THEN {"unaligned"} ELSE {})
  BY <1>1, <1>2 DEF Cycle, FaultLatches, pc_misaligned
<1>4. ASSUME ~x.illegal
      PROVE  ~(x.is_trap /\ unsupported) /\ ~(x.is_trap /\ pc_misaligned)
             /\ ~(unsupported /\ pc_misaligned)
  <2> DEFINE f == FrameAt(At(x))
             op == Opcode(f)
  <2>1. /\ f \in Frame /\ ~Illegal(f, LenOf(f) < 2)
        /\ x = Stage1(f, 4 * At(x), LenOf(f) < 2)
    BY <1>4, LiveFrame
  <2>2. valid_op
    BY <1>2, <1>4
  <2>3. unsupported <=> op = 26
    BY <2>2, UnitOfOpcode
  <2> HIDE DEF f
  <2>4. (x.is_trap <=> op = 254) /\ (x.is_bj <=> op \in {48, 49})
    BY <2>1, Fields
  <2> HIDE DEF op
  <2> QED
    BY <2>3, <2>4 DEF pc_misaligned
<1>5. x.illegal \in BOOLEAN /\ x.is_trap \in BOOLEAN /\ unsupported \in BOOLEAN
      /\ pc_misaligned \in BOOLEAN
  BY DEF RInv, UInv, TInv, TypeOK, Insn, unsupported, pc_misaligned, valid_op, live
<1>6. CASE x.illegal
  BY <1>3, <1>6, FaultSeen
<1>7. CASE ~x.illegal
  BY <1>3, <1>4, <1>5, <1>7, FaultSeen
<1> QED
  BY <1>6, <1>7

(* Which instructions write what, when they complete. *)
LEMMA WritesSeen ==
    ASSUME RInv, valid_op, completing, Arch!Fault = "none"
    PROVE  LET f == FrameAt(At(x)) op == Opcode(FrameAt(At(x))) IN
           /\ ~pc_misaligned /\ ~unsupported /\ ~x.is_trap
           /\ wb_valid <=> op \in {1, 64} \cup (16 .. 25)
           /\ wb_valid => wb_rd = f[2]
           /\ wb_redirect_valid <=> Arch!Taken
           /\ dmem_rvalid /\ dmem_req.we <=> op = 65
<1> DEFINE f == FrameAt(At(x))
           op == Opcode(f)
<1>1. live /\ ~x.illegal
  BY DEF valid_op
<1>2. /\ f \in Frame /\ ~Illegal(f, LenOf(f) < 2)
      /\ x = Stage1(f, 4 * At(x), LenOf(f) < 2)
  BY <1>1, LiveFrame
<1>3. ~pc_misaligned /\ ~unsupported /\ ~x.is_trap
  BY <1>1, FaultSeen
<1>4. unsupported <=> op = 26
  BY UnitOfOpcode
<1>5. mem_op <=> op \in {64, 65}
  BY UnitOfOpcode
<1> HIDE DEF f
<1>6. /\ x.wr_en <=> op \in {1, 64} \cup (16 .. 26)
      /\ x.is_store <=> op = 65
      /\ op \in {1, 64} \cup (16 .. 26) => x.rd = f[2]
  BY <1>2, Fields, Registers
<1> HIDE DEF op
<1>7. wb_valid <=> op \in {1, 64} \cup (16 .. 25)
  BY <1>3, <1>4, <1>6 DEF wb_valid
<1>8. wb_valid => wb_rd = f[2]
  BY <1>6, <1>7 DEF wb_rd
<1>9. wb_redirect_valid <=> Arch!Taken
  BY <1>3, TakenSeen DEF wb_redirect_valid
<1>10. dmem_rvalid /\ dmem_req.we <=> op = 65
  BY <1>5, <1>6, Completion
<1> QED
  BY <1>3, <1>7, <1>8, <1>9, <1>10 DEF f, op

(* The result is the simulator's. *)
LEMMA ResultSeen ==
    ASSUME AluTold, RInv, valid_op, completing
    PROVE  LET f == FrameAt(At(x)) op == Opcode(FrameAt(At(x))) IN
           /\ op = 1 => wb_data = Arch!Source
           /\ op = 20 => wb_data = Complement(Arch!Source)
           /\ op \in (16 .. 25) \ {20}
                => wb_data = Alu[<<AluOfNibble[(op % 16) + 1], ArchRegs[f[3]], Arch!Source>>]
<1> DEFINE f == FrameAt(At(x))
           op == Opcode(f)
           fn == AluOfNibble[(op % 16) + 1]
<1>1. live /\ ~x.illegal /\ TypeOK /\ op_a \in Word /\ op_b \in Word
  BY OperandsInWord DEF valid_op, RInv, UInv, TInv
<1>2. /\ f \in Frame /\ ~Illegal(f, LenOf(f) < 2)
      /\ x = Stage1(f, 4 * At(x), LenOf(f) < 2)
  BY <1>1, LiveFrame
<1>3. /\ op \in {1, 20} => op_a = Arch!Source /\ op_b = 0
      /\ op \in (16 .. 25) \ {20} => op_a = ArchRegs[f[3]] /\ op_b = Arch!Source
  BY OperandsSeen
<1>4. (late_op <=> op \in {0, 1, 16, 17, 48, 49, 64, 65, 254, 255}) /\ (mul_op <=> op = 25)
  BY UnitOfOpcode
<1> HIDE DEF f
<1>5. /\ x.alu_op = IF op \in 16 .. 26 THEN fn
                    ELSE IF op = 32 THEN "cmp" ELSE IF op = 33 THEN "cmp_s" ELSE "add"
      /\ x.is_load <=> op = 64
  BY <1>2, Fields
<1>6. op \in 16 .. 26 => /\ fn \in AluFn
                         /\ fn = "add" <=> op = 16
                         /\ fn = "sub" <=> op = 17
                         /\ fn = "not" <=> op = 20
                         /\ fn = "mul" <=> op = 25
                         /\ fn = "div" <=> op = 26
  BY Nibbles
<1>7. op # 64 => wb_data = IF x.alu_op = "mul" THEN Alu[<<"mul", mul_a, mul_b>>] ELSE alu_result
  BY <1>5 DEF wb_data, mul_result
<1>8. /\ x.alu_op = "add" => alu_result = add_result
      /\ x.alu_op = "sub" => alu_result = sub_result
      /\ x.alu_op \in AluFn \ {"add", "sub", "mul", "div"}
            => alu_result = Alu[<<x.alu_op, op_a, op_b>>]
  BY DEF alu_result
<1> HIDE DEF op, fn
<1> DEFINE Row(g) == Alu[<<g, op_a, op_b>>]
<1>9. /\ Row("add") = Wrap(op_a + op_b) /\ Row("sub") = Wrap(op_a - op_b)
       /\ Row("not") = Complement(op_a)
  BY <1>1, Zenon DEF AluTold
<1>10. op \in (16 .. 25) \ {20} => Alu[<<fn, ArchRegs[f[3]], Arch!Source>>] = Row(fn)
  BY <1>3
<1>11. ASSUME op = 1 PROVE wb_data = Arch!Source
  <2>1. wb_data = Wrap(op_a + 0)
    BY <1>3, <1>4, <1>5, <1>7, <1>8, <1>11, Completion
  <2> QED
    BY <1>1, <1>3, <1>11, <2>1, WrapOfWord
<1>12. ASSUME op = 20 PROVE wb_data = Complement(Arch!Source)
  <2>1. x.alu_op = "not"
    BY <1>5, <1>6, <1>12
  <2>2. wb_data = Row("not")
    BY <1>7, <1>8, <1>12, <2>1 DEF AluFn
  <2> QED
    BY <1>3, <1>12, <1>9, <2>2
<1>13. ASSUME op \in (16 .. 25) \ {20} PROVE wb_data = Row(fn)
  <2>1. x.alu_op = fn /\ op # 64
    BY <1>5, <1>13
  <2>2. CASE op = 16
    <3>1. wb_data = Wrap(op_a + op_b) /\ fn = "add"
      BY <1>4, <1>6, <1>7, <1>8, <2>1, <2>2, Completion
    <3> QED
      BY <1>9, <3>1
  <2>3. CASE op = 17
    <3>1. wb_data = Wrap(op_a - op_b) /\ fn = "sub"
      BY <1>4, <1>6, <1>7, <1>8, <2>1, <2>3, Completion
    <3> QED
      BY <1>9, <3>1
  <2>4. CASE op = 25
    <3>1. mul_a = op_a /\ mul_b = op_b /\ fn = "mul"
      BY <1>4, <1>6, <2>4, Completion
    <3> QED
      BY <1>7, <2>1, <3>1
  <2>5. CASE op \in (18 .. 24) \ {20}
    <3>1. fn \in AluFn \ {"add", "sub", "mul", "div"}
      BY <1>6, <2>5
    <3> QED
      BY <1>7, <1>8, <2>1, <3>1
  <2> QED
    BY <1>13, <2>2, <2>3, <2>4, <2>5
<1> QED
  BY <1>11, <1>12, <1>13, <1>10 DEF f, op, fn

(* So is a load's value, and a store's address, width and value. *)
LEMMA AccessSeen ==
    ASSUME RInv, valid_op, completing
    PROVE  LET f == FrameAt(At(x)) op == Opcode(FrameAt(At(x))) IN
           /\ op = 64 => wb_data = Arch!Extend(dmem[Arch!CellAt(Arch!EffAddr)], Arch!Size,
                                          FlagBit(f, 3))
           /\ op = 65 => /\ CellAt(dmem_req.addr) = Arch!CellAt(Arch!EffAddr)
                         /\ Low(dmem_req.wdata, dmem_req.size)
                              = Arch!Low(ArchRegs[f[2]], Arch!Size)
<1> DEFINE f == FrameAt(At(x))
           op == Opcode(f)
<1>1. live /\ ~x.illegal
  BY DEF valid_op
<1>2. /\ f \in Frame /\ ~Illegal(f, LenOf(f) < 2)
      /\ x = Stage1(f, 4 * At(x), LenOf(f) < 2)
  BY <1>1, LiveFrame
<1>3. Arch!f = f
  BY <1>1, SimView
<1>4. /\ op \in {64, 65} => op_a = ArchRegs[f[3]] /\ op_b = Arch!Source
      /\ op = 65 => op_c = ArchRegs[f[2]]
  BY OperandsSeen
<1>5. op \in {64, 65} => mem_op
  BY UnitOfOpcode
<1> HIDE DEF f
<1>6. /\ x.is_load <=> op = 64
      /\ x.mem_size = (FlagBits(f) \div 2) % 4
      /\ x.mem_sext = FlagBit(f, 3)
  BY <1>2, Fields
<1>7. Arch!Size = x.mem_size /\ FlagBit(f, 3) = x.mem_sext
  BY <1>3, <1>6, SameFrame DEF Arch!Size
<1>8. Arch!EffAddr = Wrap(ArchRegs[f[3]] + Arch!Source)
  BY <1>3, SameFrame DEF Arch!EffAddr
<1>9. \A v, size : Arch!Low(v, size) = Low(v, size)
  BY DEF Arch!Low, Low
<1>10. \A c : Arch!CellAt(c) = CellAt(c)
  BY DEF Arch!CellAt, CellAt
<1> HIDE DEF op
<1>11. op \in {64, 65} => /\ dmem_req.addr = Arch!EffAddr /\ dmem_req.size = Arch!Size
                          /\ dmem_req.wdata = op_c
  BY <1>4, <1>5, <1>7, <1>8, Completion
<1>12. ASSUME op = 64
       PROVE  wb_data = Arch!Extend(dmem[Arch!CellAt(Arch!EffAddr)], Arch!Size, x.mem_sext)
  <2>1. dmem_rdata = dmem[Arch!CellAt(Arch!EffAddr)]
    BY <1>10, <1>11, <1>12 DEF dmem_rdata
  <2>2. wb_data = load_value
    BY <1>6, <1>12 DEF wb_data
  <2> QED
    BY <1>7, <1>9, <2>1, <2>2, Zenon DEF load_value, Arch!Extend
<1>13. ASSUME op = 65
       PROVE  /\ CellAt(dmem_req.addr) = Arch!CellAt(Arch!EffAddr)
              /\ Low(dmem_req.wdata, dmem_req.size) = Arch!Low(ArchRegs[f[2]], Arch!Size)
  BY <1>4, <1>9, <1>10, <1>11, <1>13
<1> QED
  BY <1>7, <1>12, <1>13 DEF f, op

(* A fault stops the program at the instruction, with no other effect. *)
LEMMA StopStep ==
    ASSUME RInv, Cycle, live, completing, Arch!Fault # "none"
    PROVE  Arch!Stop
<1> DEFINE f == FrameAt(At(x))
           op == Opcode(f)
<1>1. /\ TypeOK /\ f \in Frame /\ x.illegal = Illegal(f, LenOf(f) < 2)
      /\ x = Stage1(f, 4 * At(x), LenOf(f) < 2)
      /\ ArchStatus = "run"
  BY LiveFrame DEF RInv, UInv, TInv
<1>2. err' = {Arch!Fault}
  BY FaultLatched
<1>3. x.illegal \/ x.is_trap \/ unsupported \/ pc_misaligned
  BY FaultSeen
<1>4. ~wb_valid /\ ~(valid_op /\ flags_valid) /\ ~dmem_rvalid
  <2>1. CASE x.illegal
    <3>1. ~valid_op
      BY <2>1 DEF valid_op
    <3>2. state = "IDLE"
      BY <3>1 DEF RInv, UInv, WaitingIsLive
    <3> QED
      BY <3>1, <3>2, Zenon DEF wb_valid, RInv, UInv, DataReplies, UnitsInStep
  <2>2. CASE ~x.illegal
    <3>1. valid_op
      BY <2>2 DEF valid_op
    <3>2. /\ mem_op <=> op \in {64, 65}
          /\ flags_valid <=> op \in {32, 33}
          /\ unsupported <=> op = 26
      BY <3>1, UnitOfOpcode
    <3>3. ~mem_op => ~dmem_rvalid
      BY <3>1, Completion
    <3> HIDE DEF f
    <3>4. /\ x.is_trap <=> op = 254
          /\ x.is_bj <=> op \in {48, 49}
          /\ x.wr_en <=> op \in {1, 64} \cup (16 .. 26)
      BY <1>1, <2>2, Fields
    <3> HIDE DEF op
    <3>5. op \in {26, 48, 49, 254}
      BY <1>3, <2>2, <3>2, <3>4 DEF pc_misaligned
    <3> QED
      BY <3>2, <3>3, <3>4, <3>5 DEF wb_valid
  <2> QED
    BY <2>1, <2>2
<1>5. ArchRegs' = ArchRegs
  BY <1>1, <1>4, ArchRegsNext
<1>6. cc' = cc
  BY <1>4 DEF Cycle, ConditionCodes
<1>7. dmem' = dmem
  BY <1>4 DEF Cycle, DataMemory
<1>8. ArchPc' = PcSize /\ ArchStatus' = Arch!Fault
  BY <1>2 DEF ArchPc, ArchStatus, stopped
<1>9. program' = program
  BY DEF Cycle
<1> QED
  BY <1>1, <1>5, <1>6, <1>7, <1>8, <1>9 DEF Arch!Stop, Arch!NoPc, ArchPc, ArchStatus

(* An instruction that completes without a fault has its simulator's       *)
(* effect, all of it in the one cycle.                                     *)
LEMMA EffectStep ==
    ASSUME AluTold, RInv, Cycle, live, completing, Arch!Fault = "none"
    PROVE  Arch!Effect
<1> DEFINE f == FrameAt(At(x))
           op == Opcode(f)
           S == Arch!Source
           v == Arch!Extend(dmem[Arch!CellAt(Arch!EffAddr)], Arch!Size, FlagBit(f, 3))
           c == Arch!CellAt(Arch!EffAddr)
           w == Arch!Low(ArchRegs[f[2]], Arch!Size)
<1>1. ~x.illegal /\ valid_op /\ TypeOK
  BY FaultSeen DEF valid_op, RInv, UInv, TInv
<1>2. Arch!f = f /\ Arch!op = op
  BY SimView
<1>3. /\ op \in Legal /\ op # 26
      /\ flags_valid <=> op \in {32, 33}
  BY <1>1, UnitOfOpcode, WritesSeen
<1>4. /\ wb_valid <=> op \in {1, 64} \cup (16 .. 25)
      /\ wb_valid => wb_rd = f[2]
      /\ dmem_rvalid /\ dmem_req.we <=> op = 65
      /\ ~x.is_trap
  BY <1>1, WritesSeen
<1>5. ArchRegs' = IF wb_valid THEN [ArchRegs EXCEPT ![wb_rd] = wb_data] ELSE ArchRegs
  BY <1>1, ArchRegsNext
<1>6. cc' = IF flags_valid THEN alu_flags ELSE cc
  BY <1>1 DEF Cycle, ConditionCodes
<1>7. dmem' = IF dmem_rvalid /\ dmem_req.we
              THEN [dmem EXCEPT ![CellAt(dmem_req.addr)] = Low(dmem_req.wdata, dmem_req.size)]
              ELSE dmem
  BY DEF Cycle, DataMemory
<1>8. /\ op = 1 => wb_data = S
      /\ op = 20 => wb_data = Complement(S)
      /\ op \in (16 .. 25) \ {20} => wb_data = Alu[<<Arch!AluFnOf, ArchRegs[f[3]], S>>]
  BY <1>1, <1>2, ResultSeen, SameFrame DEF Arch!AluFnOf
<1>9. /\ op = 64 => wb_data = v
      /\ op = 65 => /\ CellAt(dmem_req.addr) = c
                    /\ Low(dmem_req.wdata, dmem_req.size) = w
  BY <1>1, AccessSeen
<1>10. op \in {32, 33} => alu_flags = Compare(ArchRegs[f[2]], S,
                                              IF op = 33 THEN "signed" ELSE "unsigned")
  <2>1. x.alu_op = "cmp_s" <=> op = 33
    <3>1. /\ f \in Frame /\ ~Illegal(f, LenOf(f) < 2)
          /\ x = Stage1(f, 4 * At(x), LenOf(f) < 2)
      BY <1>1, LiveFrame
    <3> HIDE DEF f
    <3>2. x.alu_op = IF op \in 16 .. 26 THEN AluOfNibble[(op % 16) + 1]
                     ELSE IF op = 32 THEN "cmp" ELSE IF op = 33 THEN "cmp_s" ELSE "add"
      BY <3>1, Fields
    <3>3. op \in 16 .. 26 => AluOfNibble[(op % 16) + 1] \in AluFn
      BY Nibbles
    <3> HIDE DEF op
    <3> QED
      BY <3>2, <3>3 DEF AluFn
  <2>2. op \in {32, 33} => op_a = ArchRegs[f[2]] /\ op_b = S
    BY <1>1, OperandsSeen
  <2> QED
    BY <2>1, <2>2 DEF alu_flags
<1>11. op # 254
  <2>1. /\ f \in Frame /\ ~Illegal(f, LenOf(f) < 2)
        /\ x = Stage1(f, 4 * At(x), LenOf(f) < 2)
    BY <1>1, LiveFrame
  <2> HIDE DEF f
  <2> QED
    BY <1>4, <2>1, Fields
<1>12. \A val : Arch!SetReg(val) <=> /\ ArchRegs' = [ArchRegs EXCEPT ![f[2]] = val]
                                     /\ cc' = cc /\ dmem' = dmem
  BY <1>2, Zenon DEF Arch!SetReg
<1> HIDE DEF f, op, S, v, c, w
<1>13. CASE op \in {0, 255, 48, 49}
  <2>1. UNCHANGED <<ArchRegs, cc, dmem>>
    BY <1>3, <1>4, <1>5, <1>6, <1>7, <1>13
  <2>2. /\ Arch!op \in {Arch!Nop, Arch!Halt} \cup Arch!Branch
        /\ Arch!op # 1
        /\ Arch!op # 20
        /\ Arch!op \notin Arch!Binary
        /\ Arch!op \notin {32, 33}
        /\ Arch!op # 64
        /\ Arch!op # 65
    BY <1>2, <1>13 DEF Arch!Nop, Arch!Halt, Arch!Branch, Arch!Binary
  <2> QED
    BY <2>1, <2>2, Zenon DEF Arch!Effect
<1>14. CASE op = 1
  <2>1. Arch!SetReg(S)
    <3>1. wb_valid /\ ~flags_valid /\ ~(dmem_rvalid /\ dmem_req.we)
      BY <1>3, <1>4, <1>14
    <3>2. wb_rd = f[2] /\ wb_data = S
      BY <1>4, <1>8, <1>14, <3>1
    <3> QED
      BY <1>5, <1>6, <1>7, <1>12, <3>1, <3>2, Zenon
  <2>2. /\ Arch!op = 1
        /\ Arch!op \notin {Arch!Nop, Arch!Halt} \cup Arch!Branch
        /\ Arch!op # 20
        /\ Arch!op \notin Arch!Binary
        /\ Arch!op \notin {32, 33}
        /\ Arch!op # 64
        /\ Arch!op # 65
    BY <1>2, <1>14 DEF Arch!Nop, Arch!Halt, Arch!Branch, Arch!Binary
  <2> QED
    BY <1>2, <2>1, <2>2, Zenon DEF Arch!Effect, S
<1>15. CASE op = 20
  <2>1. Arch!SetReg(Arch!Complement(S))
    <3>1. wb_valid /\ ~flags_valid /\ ~(dmem_rvalid /\ dmem_req.we)
      BY <1>3, <1>4, <1>15
    <3>2. wb_rd = f[2] /\ wb_data = Arch!Complement(S)
      BY <1>4, <1>8, <1>15, <3>1, SameFrame
    <3> QED
      BY <1>5, <1>6, <1>7, <1>12, <3>1, <3>2, Zenon
  <2>2. /\ Arch!op = 20
        /\ Arch!op \notin Arch!Binary
        /\ Arch!op \notin {Arch!Nop, Arch!Halt} \cup Arch!Branch
        /\ Arch!op # 1
        /\ Arch!op \notin {32, 33}
        /\ Arch!op # 64
        /\ Arch!op # 65
    BY <1>2, <1>15 DEF Arch!Nop, Arch!Halt, Arch!Branch, Arch!Binary
  <2> QED
    BY <1>2, <2>1, <2>2, Zenon DEF Arch!Effect, S
<1>16. CASE op \in (16 .. 25) \ {20}
  <2>1. Arch!SetReg(Alu[<<Arch!AluFnOf, ArchRegs[f[3]], S>>])
    BY <1>3, <1>4, <1>5, <1>6, <1>7, <1>8, <1>12, <1>16
  <2>2. /\ Arch!op \in Arch!Binary
        /\ Arch!op \notin {Arch!Nop, Arch!Halt} \cup Arch!Branch
        /\ Arch!op # 1
        /\ Arch!op # 20
        /\ Arch!op \notin {32, 33}
        /\ Arch!op # 64
        /\ Arch!op # 65
    BY <1>2, <1>16 DEF Arch!Nop, Arch!Halt, Arch!Branch, Arch!Binary
  <2> QED
    BY <1>2, <2>1, <2>2, Zenon DEF Arch!Effect, S
<1>17. CASE op \in {32, 33}
  <2>1. /\ cc' = Arch!Compare(ArchRegs[f[2]], S, IF op = 33 THEN "signed" ELSE "unsigned")
        /\ ArchRegs' = ArchRegs /\ dmem' = dmem
    BY <1>3, <1>4, <1>5, <1>6, <1>7, <1>10, <1>17, SameFrame
  <2>2. /\ Arch!op \in {32, 33}
        /\ Arch!op \notin {Arch!Nop, Arch!Halt} \cup Arch!Branch
        /\ Arch!op # 1
        /\ Arch!op # 20
        /\ Arch!op \notin Arch!Binary
        /\ Arch!op # 64
        /\ Arch!op # 65
    BY <1>2, <1>17 DEF Arch!Nop, Arch!Halt, Arch!Branch, Arch!Binary
  <2> QED
    BY <1>2, <2>1, <2>2, Zenon DEF Arch!Effect, S
<1>18. CASE op = 64
  <2>1. Arch!SetReg(v)
    <3>1. wb_valid /\ ~flags_valid /\ ~(dmem_rvalid /\ dmem_req.we)
      BY <1>3, <1>4, <1>18
    <3>2. wb_rd = f[2] /\ wb_data = v
      BY <1>4, <1>9, <1>18, <3>1
    <3> QED
      BY <1>5, <1>6, <1>7, <1>12, <3>1, <3>2, Zenon
  <2>2. /\ Arch!op = 64
        /\ Arch!op \notin {Arch!Nop, Arch!Halt} \cup Arch!Branch
        /\ Arch!op # 1
        /\ Arch!op # 20
        /\ Arch!op \notin Arch!Binary
        /\ Arch!op \notin {32, 33}
        /\ Arch!op # 65
    BY <1>2, <1>18 DEF Arch!Nop, Arch!Halt, Arch!Branch, Arch!Binary
  <2>3. v = Arch!Extend(dmem[Arch!CellAt(Arch!EffAddr)], Arch!Size, Arch!FlagBit(Arch!f, 3))
    BY <1>2, SameFrame, Zenon DEF v
  <2> HIDE DEF v
  <2> QED
    BY <1>2, <2>1, <2>2, <2>3, Zenon DEF Arch!Effect
<1>19. CASE op = 65
  <2>1. /\ dmem' = [dmem EXCEPT ![c] = w]
        /\ ArchRegs' = ArchRegs /\ cc' = cc
    <3>1. ~wb_valid /\ ~flags_valid /\ dmem_rvalid /\ dmem_req.we
      BY <1>3, <1>4, <1>19
    <3>2. CellAt(dmem_req.addr) = c /\ Low(dmem_req.wdata, dmem_req.size) = w
      BY <1>9, <1>19
    <3> QED
      BY <1>5, <1>6, <1>7, <3>1, <3>2, Zenon
  <2>2. /\ Arch!op = 65
        /\ Arch!op \notin {Arch!Nop, Arch!Halt} \cup Arch!Branch
        /\ Arch!op # 1
        /\ Arch!op # 20
        /\ Arch!op \notin Arch!Binary
        /\ Arch!op \notin {32, 33}
        /\ Arch!op # 64
    BY <1>2, <1>19 DEF Arch!Nop, Arch!Halt, Arch!Branch, Arch!Binary
  <2> QED
    BY <1>2, <2>1, <2>2, Zenon DEF Arch!Effect, c, w
<1> QED
  BY <1>3, <1>11, <1>13, <1>14, <1>15, <1>16, <1>17, <1>18, <1>19 DEF Legal

(* An instruction that completes without a fault retires as the            *)
(* simulator's does.                                                       *)
LEMMA RetireStep ==
    ASSUME LengthsTold, AluTold, RInv, Cycle, live, completing, Arch!Fault = "none"
    PROVE  Arch!Retire
<1> DEFINE f == FrameAt(At(x))
           op == Opcode(f)
<1>1. ~x.illegal /\ valid_op
  BY FaultSeen DEF valid_op
<1>2. /\ At(x) \in Pc /\ program \in Programs /\ f \in Frame /\ ~Illegal(f, LenOf(f) < 2)
      /\ x = Stage1(f, 4 * At(x), LenOf(f) < 2)
      /\ ArchPc = At(x) /\ ArchStatus = "run"
  BY <1>1, LiveFrame
<1>3. Arch!f = f /\ Arch!op = op
  BY SimView
<1>4. /\ wb_redirect_valid <=> Arch!Taken
      /\ ~x.is_trap
  BY <1>1, WritesSeen
<1>5. x.is_bj => Arch!Target = add_result
  BY <1>1, TakenSeen
<1>6. ~stopped'
  BY FaultLatched DEF stopped
<1>7. Fetch!Successor(At(x)) = (ArchPc + Arch!SimWords(Arch!f)) % PcSize
  <2>1. LenOf(f) \in 2 .. 12 /\ ~SimIllegal(f)
    BY <1>2, LegalFrame
  <2>2. (LenOf(f) + 3) \div 4 = Arch!SimWords(f)
    BY <1>2, <2>1, SameFrame DEF LengthsTold, FrameAt, Arch!WellFormed
  <2>3. Lengths[program][At(x)] = LenOf(f)
    BY <1>2 DEF Lengths, FrameAt
  <2> HIDE DEF f
  <2>4. Fetch!LenWords(LenOf(f)) = (LenOf(f) + 3) \div 4
    BY <2>1 DEF Fetch!LenWords
  <2> QED
    BY <1>2, <1>3, <2>2, <2>3, <2>4 DEF Fetch!Successor
<1>8. Arch!Taken => x.is_bj
  BY <1>4 DEF wb_redirect_valid
<1>9. ArchPc' = IF Arch!Taken THEN Arch!Target \div 4
                ELSE (ArchPc + Arch!SimWords(Arch!f)) % PcSize
  <2>1. ArchPc' = NextToRetire'
    BY <1>6 DEF ArchPc
  <2>2. CASE Arch!Taken
    BY <1>4, <1>5, <1>8, <2>1, <2>2, CompletionPc
  <2>3. CASE ~Arch!Taken
    BY <1>4, <1>7, <2>1, <2>3, CompletionPc
  <2> QED
    BY <2>2, <2>3
<1> HIDE DEF f
<1>10. (x.is_halt <=> op = 255) /\ (x.is_bj <=> op \in {48, 49})
  BY <1>2, Fields
<1> HIDE DEF op
<1>11. ArchStatus' = IF op = 255 THEN "halt" ELSE "run"
  <2>1. ArchStatus' = IF Drained' THEN "halt" ELSE "run"
    BY <1>6 DEF ArchStatus
  <2>2. CASE wb_redirect_valid
    <3>1. ~Drained'
      BY <2>2, CompletionPc
    <3> QED
      BY <1>4, <1>8, <1>10, <2>1, <2>2, <3>1
  <2>3. CASE ~wb_redirect_valid
    <3>1. Drained' <=> Halts(x)
      BY <2>3, CompletionPc
    <3> QED
      BY <1>1, <1>10, <2>1, <3>1 DEF Halts
  <2> QED
    BY <2>2, <2>3
<1>12. Arch!Effect
  BY EffectStep
<1>13. program' = program
  BY DEF Cycle
<1> QED
  BY <1>2, <1>3, <1>9, <1>11, <1>12, <1>13 DEF Arch!Retire, Arch!Halt, ArchPc, ArchStatus

(* Every clock edge is an instruction of the simulator or nothing to it. *)
LEMMA CycleRefines ==
    ASSUME LengthsTold, AluTold, RInv, Cycle
    PROVE  [Arch!Next]_(Arch!vars)
<1>1. CASE live /\ completing
  <2>1. CASE Arch!Fault = "none"
    BY <1>1, <2>1, RetireStep DEF Arch!Next
  <2>2. CASE Arch!Fault # "none"
    BY <1>1, <2>2, StopStep DEF Arch!Next
  <2> QED
    BY <2>1, <2>2
<1>2. CASE ~(live /\ completing)
  <2>1. UNCHANGED <<program, ArchRegs, cc, dmem, err>>
    BY <1>2, QuietCycle DEF Cycle
  <2>2. CASE stopped
    <3>1. stopped'
      BY <2>1, <2>2 DEF stopped
    <3> QED
      BY <2>1, <2>2, <3>1 DEF Arch!vars
  <2>3. CASE ~stopped
    <3>1. ~stopped'
      BY <2>1, <2>3 DEF stopped
    <3>2. NextToRetire' = NextToRetire /\ (Drained' <=> Drained)
      BY <1>2, <2>3, QuietPc
    <3> QED
      BY <2>1, <2>3, <3>1, <3>2 DEF Arch!vars
  <2> QED
    BY <2>2, <2>3
<1> QED
  BY <1>1, <1>2

LEMMA StutterRefines ==
    ASSUME UNCHANGED vars
    PROVE  UNCHANGED Arch!vars
<1>1. UNCHANGED <<program, fetch_vars, decode_vars, execute_vars, writeback_vars, dmem_vars>>
  BY DEF vars
<1>2. UNCHANGED <<stopped, Drained>>
  BY <1>1 DEF fetch_vars, decode_vars, execute_vars, writeback_vars, stopped, Drained
<1>3. UNCHANGED NextToRetire
  <2>1. UNCHANGED Fetch!NextFrame
    BY <1>1 DEF fetch_vars, Fetch!NextFrame, Fetch!frame_valid
  <2> QED
    BY <1>1, <2>1 DEF decode_vars, execute_vars, writeback_vars, NextToRetire
<1>4. UNCHANGED ArchRegs
  BY <1>1 DEF writeback_vars, ArchRegs, Read
<1> QED
  BY <1>1, <1>2, <1>3, <1>4 DEF execute_vars, dmem_vars, Arch!vars

(* The core runs its program as the simulator's instructions define it:    *)
(* every clock edge retires the next instruction with exactly its effect   *)
(* or changes nothing the program can see, for every program that tells    *)
(* its lengths, every latency of the memories, every number of multiplier  *)
(* stages and every size.                                                  *)
THEOREM CoreRefined ==
    ASSUME LengthsTold, AluTold
    PROVE  Spec => RefinesArch
<1>1. Init => Arch!Init
  BY InitArch
<1>2. RInv /\ [Next]_vars => [Arch!Next]_(Arch!vars)
  BY CycleRefines, StutterRefines DEF Next
<1>3. Spec => []RInv
  BY InitRInv, NextRInv, PTL DEF Spec
<1> QED
  BY <1>1, <1>2, <1>3, PTL DEF Spec, RefinesArch, Arch!Spec

=============================================================================
