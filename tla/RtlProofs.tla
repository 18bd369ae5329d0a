----------------------------- MODULE RtlProofs -----------------------------
(***************************************************************************)
(* The combinational logic of the core against the simulators': RtlAgree,  *)
(* its decoder for every frame and every number of registers, its flags    *)
(* and predicates for every even size of words, its ALU and multiplier for *)
(* every width that four limbs divide.                                     *)
(***************************************************************************)
EXTENDS RtlAgree, WellFoundedInduction, TLAPS

(* What the decoder makes of any frame is a record of the declared fields. *)
LEMMA ShiftInByte ==
    ASSUME NEW v \in Word, NEW y \in Byte PROVE Wrap(v * 256 + y) \in Word
  BY WordSizeAssumption DEF Word, Byte, Wrap

LEMMA ValueOfInWord ==
    ASSUME NEW q, \A i \in 1 .. 8 : q[i] \in Byte PROVE ValueOf(q) \in Word
<1> DEFINE S(v, y) == Wrap(v * 256 + y)
<1>1. 0 \in Word
  BY WordSizeAssumption DEF Word
<1>2. \A v \in Word, y \in Byte : S(v, y) \in Word
  BY ShiftInByte
<1>3. ValueOf(q) =
        S(S(S(S(S(S(S(S(0, q[1]), q[2]), q[3]), q[4]), q[5]), q[6]), q[7]), q[8])
  BY DEF ValueOf
<1>4. q[1] \in Byte /\ q[2] \in Byte /\ q[3] \in Byte /\ q[4] \in Byte
      /\ q[5] \in Byte /\ q[6] \in Byte /\ q[7] \in Byte /\ q[8] \in Byte
  OBVIOUS
<1> HIDE DEF S
<1>5. S(S(S(S(0, q[1]), q[2]), q[3]), q[4]) \in Word
  BY <1>1, <1>2, <1>4
<1> QED
  BY <1>2, <1>3, <1>4, <1>5

LEMMA FrameBytes ==
    ASSUME NEW f \in Frame
    PROVE  /\ \A k \in 0 .. 12 : f[k] \in Byte
           /\ Opcode(f) \in Byte
           /\ LenOf(f) \in 0 .. 15
           /\ FlagBits(f) \in 0 .. 15
<1>1. \A k \in 0 .. 12 : f[k] \in Byte
  BY DEF Frame, MaxInsnBytes
<1>2. f[0] \in 0 .. 255 /\ f[1] \in 0 .. 255
  BY <1>1 DEF Byte
<1>3. \A y \in 0 .. 255 : y \div 16 \in 0 .. 15 /\ y % 16 \in 0 .. 15
  OBVIOUS
<1> QED
  BY <1>1, <1>2, <1>3 DEF Opcode, LenOf, FlagBits, Byte

LEMMA ImmInWord == ASSUME NEW f \in Frame PROVE ValueOf(Imm(f)) \in Word
<1>1. Fill(f) \in Byte
  BY DEF Fill, Byte
<1>2. \A p \in Int : WideByte(f, p) \in Byte
  <2> SUFFICES ASSUME NEW p \in Int PROVE WideByte(f, p) \in Byte
    OBVIOUS
  <2>1. p \in 10 .. 18 => f[p - 6] \in Byte
    BY FrameBytes
  <2>2. f[2] \in Byte /\ f[3] \in Byte /\ 0 \in Byte
    BY FrameBytes DEF Byte
  <2> QED
    BY <1>1, <2>1, <2>2 DEF WideByte
<1>3. \A i \in 1 .. 8 : Imm(f)[i] \in Byte
  BY <1>2, FrameBytes DEF Imm
<1> QED
  BY <1>3, ValueOfInWord

LEMMA Stage1Type ==
    ASSUME NEW f \in Frame, NEW pc \in Word, NEW bad \in BOOLEAN
    PROVE  Stage1(f, pc, bad) \in Insn
<1>1. \A k \in 0 .. 12 : RegNum(f[k]) \in RegNums
  <2>1. \A y \in Nat : y % NumRegs \in 0 .. NumRegs - 1
    BY NumRegsAssumption
  <2>2. \A k \in 0 .. 12 : f[k] \in Nat
    <3>1. \A k \in 0 .. 12 : f[k] \in Byte
      BY FrameBytes
    <3>2. \A y \in Byte : y \in Nat
      BY DEF Byte
    <3> QED
      BY <3>1, <3>2, Zenon
  <2> QED
    BY <2>1, <2>2 DEF RegNum, RegNums
<1>2. raddr_a(f) \in RegNums /\ raddr_b(f) \in RegNums
  BY <1>1 DEF raddr_a, raddr_b
<1>3. alu_op(f) \in AluOps
  <2>1. Bits(Opcode(f), 3, 0) \in Nat
    BY FrameBytes DEF Bits, Byte
  <2>2. \A n \in 0 .. 10 : AluOfNibble[n + 1] \in AluFn
    BY DEF AluOfNibble, AluFn
  <2> QED
    BY <2>1, <2>2 DEF alu_op, AluOps, AluFn
<1>4. (IF is_jmp(Opcode(f)) THEN 0 ELSE FlagBits(f) % 8) \in 0 .. 7
  BY FrameBytes
<1>5. Bits(FlagBits(f), 2, 1) \in 0 .. 3
  BY FrameBytes DEF Bits
<1>6. ValueOf(Imm(f)) \in Word
  BY ImmInWord
<1>7. RegNum(f[2]) \in RegNums
  BY <1>1
<1> QED
  BY <1>2, <1>3, <1>4, <1>5, <1>6, <1>7, Zenon
  DEF Stage1, Insn, imm_form, is_mov, is_not, is_b, is_jmp, is_trap, is_store,
      is_load, is_halt, is_bj, in_alu, FlagBit, Illegal, Bit
-----------------------------------------------------------------------------
(* The two decoders.                                                       *)

(* The opcodes of the instruction set. *)
Legal == {0, 1} \cup (16 .. 26) \cup {32, 33, 48, 49, 64, 65, 254, 255}

(* What the decoder's tests of single opcode bits select. *)
LEMMA Kinds ==
    ASSUME NEW op \in Legal
    PROVE  /\ is_mov(op) <=> op = 1
           /\ is_not(op) <=> op = 20
           /\ in_alu(op) <=> op \in 16 .. 26
           /\ in_cmp(op) <=> op \in {32, 33}
           /\ in_ctl(op) <=> op \in {48, 49, 254, 255}
           /\ is_bj(op) <=> op \in {48, 49}
           /\ is_b(op) <=> op = 48
           /\ is_jmp(op) <=> op = 49
           /\ is_load(op) <=> op = 64
           /\ is_store(op) <=> op = 65
           /\ is_trap(op) <=> op = 254
           /\ is_halt(op) <=> op = 255
<1>1. op \in Nat
  BY DEF Legal
<1>2. /\ (op % 2 = 1) <=> op \in {1, 17, 19, 21, 23, 25, 33, 49, 65, 255}
      /\ op \div 128 % 2 = 1 <=> op \in {254, 255}
  BY DEF Legal
<1>3. /\ (op \div 16) % 8 = 0 <=> op \in {0, 1}
      /\ (op \div 16) % 8 = 4 <=> op \in {64, 65}
  BY DEF Legal
<1>4. /\ (op \div 16) % 4 = 1 <=> op \in 16 .. 26
      /\ (op \div 16) % 4 = 2 <=> op \in {32, 33}
      /\ (op \div 16) % 4 = 3 <=> op \in {48, 49, 254, 255}
  BY DEF Legal
<1>5. op \in 16 .. 26 => (op % 16 = 4 <=> op = 20)
  OBVIOUS
<1>6. /\ in_misc(op) = ((op \div 16) % 8 = 0) /\ in_mem(op) = ((op \div 16) % 8 = 4)
      /\ in_alu(op) = ((op \div 16) % 4 = 1) /\ in_cmp(op) = ((op \div 16) % 4 = 2)
      /\ in_ctl(op) = ((op \div 16) % 4 = 3)
  BY <1>1 DEF in_misc, in_mem, in_alu, in_cmp, in_ctl, Bits
<1>7. /\ Bit(op, 0) = (op % 2 = 1) /\ Bit(op, 7) = (op \div 128 % 2 = 1)
      /\ Bits(op, 3, 0) = op % 16
  BY <1>1 DEF Bit, Bits
<1>8. /\ in_alu(op) <=> op \in 16 .. 26
      /\ in_cmp(op) <=> op \in {32, 33}
      /\ in_ctl(op) <=> op \in {48, 49, 254, 255}
      /\ in_misc(op) <=> op \in {0, 1}
      /\ in_mem(op) <=> op \in {64, 65}
  BY <1>3, <1>4, <1>6
<1>9. /\ Bit(op, 0) <=> op \in {1, 17, 19, 21, 23, 25, 33, 49, 65, 255}
      /\ Bit(op, 7) <=> op \in {254, 255}
  BY <1>2, <1>7
<1>10. /\ is_mov(op) <=> op = 1
       /\ is_bj(op) <=> op \in {48, 49}
       /\ is_load(op) <=> op = 64
       /\ is_store(op) <=> op = 65
       /\ is_trap(op) <=> op = 254
       /\ is_halt(op) <=> op = 255
  BY <1>8, <1>9 DEF is_mov, is_bj, is_load, is_store, is_trap, is_halt
<1>11. /\ is_b(op) <=> op = 48
       /\ is_jmp(op) <=> op = 49
  BY <1>9, <1>10 DEF is_b, is_jmp
<1>12. is_not(op) <=> op = 20
  BY <1>5, <1>7, <1>8 DEF is_not
<1> QED
  BY <1>8, <1>10, <1>11, <1>12

(* Where the last operand is, as the core finds it. *)
LEMMA Positions ==
    ASSUME NEW f, Opcode(f) \in Legal
    PROVE  /\ opnd_at_2(Opcode(f)) <=> Opcode(f) \in {48, 49, 254, 255}
           /\ opnd_at_3(Opcode(f)) <=> Opcode(f) \in {1, 20, 32, 33}
           /\ opnd_at_4(Opcode(f)) <=> Opcode(f) \in ((16 .. 26) \ {20}) \cup {64, 65}
           /\ Bit(Opcode(f), 5) <=> Opcode(f) \in {32, 33, 48, 49, 254, 255}
<1> DEFINE op == Opcode(f)
<1>1. in_mem(op) <=> op \in {64, 65}
  BY DEF Legal, in_mem, Bits
<1>2. Bit(op, 5) <=> op \in {32, 33, 48, 49, 254, 255}
  BY DEF Legal, Bit
<1>3. opnd_at_2(op) <=> op \in {48, 49, 254, 255}
  BY Kinds DEF opnd_at_2
<1>4. opnd_at_3(op) <=> op \in {1, 20, 32, 33}
  <2> HIDE DEF op
  <2> QED
    BY Kinds DEF opnd_at_3, op
<1>5. opnd_at_4(op) <=> op \in ((16 .. 26) \ {20}) \cup {64, 65}
  <2> HIDE DEF op
  <2> QED
    BY <1>1, Kinds DEF opnd_at_4, op
<1> QED
  BY <1>2, <1>3, <1>4, <1>5

(* And as the simulators find it. *)
LEMMA SimPositions ==
    ASSUME NEW f, Opcode(f) \in Legal
    PROVE  /\ Opcode(f) \in {48, 49, 254} => OperandAt(f) = 2
           /\ Opcode(f) \in {1, 20, 32, 33} => OperandAt(f) = 3
           /\ Opcode(f) \notin {1, 20, 32, 33, 48, 49, 254} => OperandAt(f) = 4
           /\ HasOperand(f) <=> Opcode(f) \notin {0, 254, 255}
           /\ IsImm(f) <=> IF Opcode(f) \in {48, 49} THEN FlagBit(f, 3)
                           ELSE Opcode(f) = 254 \/ (Opcode(f) \notin {0, 255} /\ FlagBit(f, 0))
<1> DEFINE op == Opcode(f)
<1>1. Opcode(f) = op
  OBVIOUS
<1>2. FlagBit(f, 0) \in BOOLEAN /\ FlagBit(f, 3) \in BOOLEAN
  BY DEF FlagBit
<1>3. op \in Legal
  OBVIOUS
<1>4. /\ op \in Branch \cup {Trap} <=> op \in {48, 49, 254}
      /\ op \in Branch <=> op \in {48, 49}
      /\ op \in Unary <=> op \in {1, 20, 32, 33}
      /\ op = Trap <=> op = 254
      /\ op \in Unary \cup Binary \cup Mem \cup Branch <=> op \notin {0, 254, 255}
  BY DEF Legal, Branch, Trap, Unary, Binary, Mem
<1> HIDE DEF op
<1>5. OperandAt(f) = IF op \in {48, 49, 254} THEN 2 ELSE IF op \in {1, 20, 32, 33} THEN 3 ELSE 4
  BY <1>1, <1>4 DEF OperandAt
<1>6. HasOperand(f) <=> op \notin {0, 254, 255}
  BY <1>1, <1>4 DEF HasOperand
<1>7. IsImm(f) <=> IF op \in {48, 49} THEN FlagBit(f, 3)
                   ELSE op = 254 \/ (op \notin {0, 255} /\ FlagBit(f, 0))
  BY <1>1, <1>2, <1>4, <1>6 DEF IsImm
<1> QED
  BY <1>5, <1>6, <1>7 DEF op

LEMMA LegalBytes == \A op \in Byte : legal_opcode(op) <=> op \in Legal
  BY DEF legal_opcode, Bits, Legal, Byte

(* Which frames carry a payload. *)
LEMMA ImmForms ==
    ASSUME NEW f, Opcode(f) \in Legal, Opcode(f) \notin {0, 255}
    PROVE  imm_form(f) <=> IsImm(f)
<1> DEFINE op == Opcode(f)
<1>1. op \in {48, 49, 254} <=> in_ctl(op)
  BY Kinds
<1>2. is_trap(op) <=> op = 254
  BY Kinds
<1>3. IsImm(f) <=> IF op \in {48, 49} THEN FlagBit(f, 3)
                   ELSE op = 254 \/ (op \notin {0, 255} /\ FlagBit(f, 0))
  BY SimPositions
<1>4. imm_form(f) <=> IF in_ctl(op) THEN FlagBit(f, 3) \/ is_trap(op) ELSE FlagBit(f, 0)
  BY Zenon DEF imm_form, FlagBit
<1>5. FlagBit(f, 0) \in BOOLEAN /\ FlagBit(f, 3) \in BOOLEAN
  BY DEF FlagBit
<1> HIDE DEF op
<1>6. CASE op \in {48, 49}
  BY <1>1, <1>2, <1>3, <1>4, <1>6 DEF op
<1>7. CASE op = 254
  BY <1>1, <1>2, <1>3, <1>4, <1>7, <1>5 DEF op
<1>8. CASE op \notin {48, 49, 254}
  BY <1>1, <1>2, <1>3, <1>4, <1>8, <1>5 DEF op
<1> QED
  BY <1>6, <1>7, <1>8

LEMMA SimOpcodes ==
    ASSUME NEW op
    PROVE  /\ op \in Unary \cup Binary \cup Mem <=> op \in {1, 32, 33, 64, 65} \cup (16 .. 26)
           /\ op \in Unary \cup Binary \cup Mem \cup Branch
                     \cup {Nop, Trap, Halt} <=> op \in Legal
  BY DEF Unary, Binary, Mem, Branch, Nop, Trap, Halt, Legal

(* The two tests for a payload too long. *)
LEMMA SameImmFault ==
    ASSUME NEW f \in Frame, Opcode(f) \in Legal, LenOf(f) \in 2 .. 12
    PROVE  imm_bad(f) <=> IsImm(f) /\ ImmLen(f) > 8
<1> DEFINE op == Opcode(f)
           o == OperandAt(f)
           n == LenOf(f)
<1>1. ImmLen(f) = IF n > o THEN n - o ELSE 0
  BY DEF ImmLen
<1>2. /\ op \in {48, 49, 254} => o = 2
      /\ op \in {1, 20, 32, 33} => o = 3
      /\ op \notin {1, 20, 32, 33, 48, 49, 254} => o = 4
      /\ op \in {0, 255} => ~IsImm(f)
  BY SimPositions
<1>3. imm_bad(f) <=> /\ imm_form(f)
                     /\ \/ op \in {48, 49, 254} /\ n > 10
                        \/ op \in {1, 20, 32, 33} /\ n > 11
  BY Kinds, Positions DEF imm_bad
<1>4. op \notin {0, 255} => (imm_form(f) <=> IsImm(f))
  BY ImmForms
<1> HIDE DEF o, op, n
<1>5. n \in 2 .. 12
  BY DEF n
<1>6. CASE op \in {48, 49, 254}
  BY <1>1, <1>2, <1>3, <1>4, <1>5, <1>6
<1>7. CASE op \in {1, 20, 32, 33}
  BY <1>1, <1>2, <1>3, <1>4, <1>5, <1>7
<1>8. CASE op \notin {1, 20, 32, 33, 48, 49, 254}
  BY <1>1, <1>2, <1>3, <1>4, <1>5, <1>8
<1> QED
  BY <1>6, <1>7, <1>8

(* The bytes that name a register, as either decoder picks them. *)
LEMMA SameRegisterBytes ==
    ASSUME NEW f, Opcode(f) \in Legal
    PROVE  /\ uses_r2(f) <=> 2 \in RegBytes(f)
           /\ uses_r3(f) <=> 3 \in RegBytes(f)
           /\ uses_r4(f) <=> 4 \in RegBytes(f)
           /\ RegBytes(f) \subseteq 2 .. 4
<1> DEFINE op == Opcode(f)
           o == OperandAt(f)
<1>1. RegBytes(f) = (IF op \in {1, 32, 33, 64, 65} \cup (16 .. 26) THEN 2 .. o - 1 ELSE {})
                        \cup (IF HasOperand(f) /\ ~IsImm(f) THEN {o} ELSE {})
  <2>1. op \in Unary \cup Binary \cup Mem <=> op \in {1, 32, 33, 64, 65} \cup (16 .. 26)
    BY SimOpcodes
  <2> QED
    BY <2>1 DEF RegBytes
<1>2. /\ op \in {48, 49, 254} => o = 2
      /\ op \in {1, 20, 32, 33} => o = 3
      /\ op \notin {1, 20, 32, 33, 48, 49, 254} => o = 4
      /\ HasOperand(f) <=> op \notin {0, 254, 255}
  BY SimPositions
<1>3. op \notin {0, 255} => (imm_form(f) <=> IsImm(f))
  BY ImmForms
<1>4. /\ uses_r2(f) <=> op \in {1, 32, 33, 64, 65} \cup (16 .. 26) \/ (op \in {48, 49} /\ ~imm_form(f))
      /\ uses_r3(f) <=> op \in ((16 .. 26) \ {20}) \cup {64, 65} \/ (op \in {1, 20, 32, 33} /\ ~imm_form(f))
      /\ uses_r4(f) <=> op \in ((16 .. 26) \ {20}) \cup {64, 65} /\ ~imm_form(f)
  BY Kinds, Positions DEF uses_r2, uses_r3, uses_r4
<1> HIDE DEF o, op
<1>5. op \in Legal
  BY DEF op
<1>6. CASE op \in {48, 49}
  BY <1>1, <1>2, <1>3, <1>4, <1>6
<1>7. CASE op \in {1, 20, 32, 33}
  BY <1>1, <1>2, <1>3, <1>4, <1>7
<1>8. CASE op \in ((16 .. 26) \ {20}) \cup {64, 65}
  BY <1>1, <1>2, <1>3, <1>4, <1>8
<1>9. CASE op \in {0, 254, 255}
  BY <1>1, <1>2, <1>3, <1>4, <1>9
<1> QED
  BY <1>5, <1>6, <1>7, <1>8, <1>9 DEF Legal

(* The core refuses the frames the simulators refuse, and those of a       *)
(* length no format has.                                                   *)
LEMMA SameFaults ==
    ASSUME NEW f \in Frame
    PROVE  Illegal(f, LenOf(f) < 2) <=> SimIllegal(f) \/ LenOf(f) \notin 2 .. 12
<1>1. LenOf(f) \in 0 .. 15 /\ Opcode(f) \in Byte /\ FlagBits(f) \in 0 .. 15
  BY FrameBytes
<1>2. len_bad(f, LenOf(f) < 2) <=> LenOf(f) \notin 2 .. 12
  BY <1>1 DEF len_bad
<1>3. legal_opcode(Opcode(f)) <=> Opcode(f) \in Legal
  BY <1>1, LegalBytes
<1>4. SimIllegal(f) <=>
          \/ Opcode(f) \notin Legal
          \/ \E k \in RegBytes(f) : f[k] >= NumRegs
          \/ IsImm(f) /\ ImmLen(f) > 8
          \/ Opcode(f) = 48 /\ FlagBits(f) % 8 = 7
  BY SimOpcodes, Zenon DEF SimIllegal
<1>5. ASSUME Opcode(f) \in Legal PROVE reg_bad(f) <=> \E k \in RegBytes(f) : f[k] >= NumRegs
  <2>1. RegBytes(f) \subseteq {2, 3, 4}
    BY <1>5, SameRegisterBytes
  <2> QED
    BY <1>5, <2>1, SameRegisterBytes, Zenon DEF reg_bad
<1>6. ASSUME Opcode(f) \in Legal PROVE pred_bad(f) <=> Opcode(f) = 48 /\ FlagBits(f) % 8 = 7
  BY <1>6, Kinds DEF pred_bad
<1>7. ASSUME Opcode(f) \in Legal, LenOf(f) \in 2 .. 12
      PROVE  imm_bad(f) <=> IsImm(f) /\ ImmLen(f) > 8
  BY <1>7, SameImmFault
<1> QED
  BY <1>2, <1>3, <1>4, <1>5, <1>6, <1>7, Zenon DEF Illegal

(* The two payloads.  What the shifter leaves above the payload is its     *)
(* sign, and nothing of the bytes behind the frame is left below it.       *)
LEMMA SameImms ==
    ASSUME NEW f \in Frame, Opcode(f) \in Legal, LenOf(f) \in 2 .. 12, IsImm(f),
           ImmLen(f) <= 8
    PROVE  Imm(f) = SimImm(f)
<1> DEFINE op == Opcode(f)
           o == OperandAt(f)
           n == LenOf(f)
           sign == IF ImmLen(f) > 0 /\ f[o] >= 128 THEN 255 ELSE 0
<1>1. /\ op \in {48, 49, 254} => o = 2
      /\ op \in {1, 20, 32, 33} => o = 3
      /\ op \notin {1, 20, 32, 33, 48, 49, 254} => o = 4
      /\ op \notin {0, 255}
  BY SimPositions
<1>2. ImmLen(f) = IF n > o THEN n - o ELSE 0
  BY DEF ImmLen
<1>3. /\ opnd_at_2(op) <=> op \in {48, 49, 254, 255}
      /\ opnd_at_3(op) <=> op \in {1, 20, 32, 33}
  BY Positions
<1>4. SimImm(f) = [i \in 1 .. 8 |-> IF i > 8 - ImmLen(f)
                                    THEN f[o + ImmLen(f) - 9 + i] ELSE sign]
  BY DEF SimImm
<1>5. /\ opnd_at_2(op) => (Sign(f) <=> n > 2 /\ f[2] >= 128)
      /\ ~opnd_at_2(op) /\ opnd_at_3(op) => (Sign(f) <=> n > 3 /\ f[3] >= 128)
      /\ ~opnd_at_2(op) /\ ~opnd_at_3(op) => (Sign(f) <=> n > 4 /\ f[4] >= 128)
  <2>1. ~(opnd_at_2(op) /\ opnd_at_3(op))
    BY <1>3
  <2> QED
    BY <2>1, Zenon DEF Sign
<1>6. n \in 2 .. 12
  OBVIOUS
<1>7. Fill(f) = sign
  <2>1. Sign(f) <=> n > o /\ f[o] >= 128
    <3> HIDE DEF n, op, o
    <3>1. CASE op \in {48, 49, 254}
      BY <1>1, <1>3, <1>5, <3>1
    <3>2. CASE op \in {1, 20, 32, 33}
      BY <1>1, <1>3, <1>5, <3>2
    <3>3. CASE op \notin {1, 20, 32, 33, 48, 49, 254}
      BY <1>1, <1>3, <1>5, <3>3
    <3> QED
      BY <3>1, <3>2, <3>3
  <2>2. ImmLen(f) > 0 <=> n > o
    <3>1. o \in {2, 3, 4}
      BY <1>1
    <3> HIDE DEF n, op, o
    <3> QED
      BY <1>2, <1>6, <3>1
  <2> QED
    BY <2>1, <2>2 DEF Fill
<1>8. ASSUME NEW p \in 0 .. 17
      PROVE  WideByte(f, p) =
               IF p <= 7 THEN Fill(f)
               ELSE IF p = 8 THEN IF op \in {48, 49, 254} THEN f[2] ELSE Fill(f)
               ELSE IF p = 9 THEN IF op \in {48, 49, 254, 1, 20, 32, 33} THEN f[3] ELSE Fill(f)
               ELSE f[p - 6]
  <2>1. op \notin {0, 255}
    BY <1>1
  <2> HIDE DEF n, o
  <2> QED
    BY <1>3, <2>1 DEF WideByte
<1> HIDE DEF sign, n, op, o
<1>9. ASSUME NEW i \in 1 .. 8
      PROVE  WideByte(f, n - 3 + i) =
               IF i > 8 - ImmLen(f) THEN f[o + ImmLen(f) - 9 + i] ELSE sign
  <2>1. n - 3 + i \in 0 .. 17
    BY <1>6
  <2>2. CASE op \in {48, 49, 254}
    BY <1>1, <1>2, <1>6, <1>7, <1>8, <2>1, <2>2
  <2>3. CASE op \in {1, 20, 32, 33}
    BY <1>1, <1>2, <1>6, <1>7, <1>8, <2>1, <2>3
  <2>4. CASE op \notin {1, 20, 32, 33, 48, 49, 254}
    BY <1>1, <1>2, <1>6, <1>7, <1>8, <2>1, <2>4
  <2> QED
    BY <2>2, <2>3, <2>4
<1> QED
  BY <1>4, <1>9, Zenon DEF Imm, n
-----------------------------------------------------------------------------
(* Fields and operands of a legal frame.                                   *)

(* What the fields of a legal frame are. *)
LEMMA LegalFrame ==
    ASSUME NEW f \in Frame, ~Illegal(f, LenOf(f) < 2)
    PROVE  /\ Opcode(f) \in Legal /\ LenOf(f) \in 2 .. 12 /\ ~SimIllegal(f)
           /\ IsImm(f) => ValueOf(Imm(f)) = ValueOf(SimImm(f))
           /\ \A k \in RegBytes(f) : RegNum(f[k]) = f[k] /\ f[k] \in RegNums
<1>1. Opcode(f) \in Byte
  BY FrameBytes
<1>2. ~SimIllegal(f) /\ LenOf(f) \in 2 .. 12 /\ Opcode(f) \in Legal
  BY <1>1, SameFaults, LegalBytes, Zenon DEF Illegal
<1>3. IsImm(f) => ImmLen(f) <= 8
  <2>1. ImmLen(f) \in Int
    <3>1. LenOf(f) \in Int /\ OperandAt(f) \in Int
      BY <1>2, SimPositions
    <3> QED
      BY <3>1 DEF ImmLen
  <2> QED
    BY <1>2, <2>1 DEF SimIllegal
<1>4. IsImm(f) => ValueOf(Imm(f)) = ValueOf(SimImm(f))
  BY <1>2, <1>3, SameImms
<1>5. \A k \in RegBytes(f) : f[k] \in Nat /\ f[k] < NumRegs
  <2>1. RegBytes(f) \subseteq 2 .. 4
    BY <1>2, SameRegisterBytes
  <2>2. \A k \in 2 .. 4 : f[k] \in 0 .. 255
    BY FrameBytes DEF Byte
  <2>3. \A k \in RegBytes(f) : ~(f[k] >= NumRegs)
    BY <1>2 DEF SimIllegal
  <2> QED
    BY <2>1, <2>2, <2>3, NumRegsAssumption
<1>6. \A k \in RegBytes(f) : RegNum(f[k]) = f[k] /\ f[k] \in RegNums
  BY <1>5, NumRegsAssumption DEF RegNum, RegNums
<1> QED
  BY <1>2, <1>4, <1>6

(* The ALU functions the core treats apart. *)
LEMMA Nibbles ==
    ASSUME NEW op \in 16 .. 26
    PROVE  /\ AluOfNibble[(op % 16) + 1] \in AluFn
           /\ AluOfNibble[(op % 16) + 1] = "add" <=> op = 16
           /\ AluOfNibble[(op % 16) + 1] = "sub" <=> op = 17
           /\ AluOfNibble[(op % 16) + 1] = "not" <=> op = 20
           /\ AluOfNibble[(op % 16) + 1] = "mul" <=> op = 25
           /\ AluOfNibble[(op % 16) + 1] = "div" <=> op = 26
  BY DEF AluOfNibble, AluFn

LEMMA AluField ==
    ASSUME NEW f \in Frame, Opcode(f) \in Legal
    PROVE  alu_op(f) = IF Opcode(f) \in 16 .. 26 THEN AluOfNibble[(Opcode(f) % 16) + 1]
                       ELSE IF Opcode(f) = 32 THEN "cmp"
                       ELSE IF Opcode(f) = 33 THEN "cmp_s" ELSE "add"
<1> DEFINE op == Opcode(f)
<1>1. /\ in_alu(op) <=> op \in 16 .. 26
      /\ in_cmp(op) <=> op \in {32, 33}
  BY Kinds
<1>2. Bits(op, 3, 0) = op % 16 /\ (Bit(op, 0) <=> op % 2 = 1)
  BY DEF Bits, Bit, Legal
<1>3. op \in 16 .. 26 => op % 16 \in 0 .. 10
  OBVIOUS
<1>4. op \in {32, 33} => (op % 2 = 1 <=> op = 33)
  OBVIOUS
<1> HIDE DEF op
<1>5. alu_op(f) = IF in_alu(op)
                  THEN CASE op % 16 <= 10 -> AluOfNibble[(op % 16) + 1]
                         [] op % 16 = 11  -> "cmp"
                         [] op % 16 = 12  -> "cmp_s"
                         [] OTHER         -> "none"
                  ELSE IF in_cmp(op) THEN IF op % 2 = 1 THEN "cmp_s" ELSE "cmp"
                  ELSE "add"
  BY <1>2 DEF alu_op, op
<1>6. CASE op \in 16 .. 26
  <2>1. op % 16 <= 10 /\ op % 16 # 11 /\ op % 16 # 12
    BY <1>3, <1>6
  <2> QED
    BY <1>1, <1>5, <1>6, <2>1 DEF op
<1>7. CASE op \notin 16 .. 26
  BY <1>1, <1>4, <1>5, <1>7 DEF op
<1> QED
  BY <1>6, <1>7

(* What stage 1 of decode makes of a legal frame. *)
LEMMA Fields ==
    ASSUME NEW f \in Frame, NEW pc, ~Illegal(f, LenOf(f) < 2),
           NEW i, i = Stage1(f, pc, LenOf(f) < 2)
    PROVE  /\ i.pc = pc /\ ~i.illegal
           /\ Opcode(f) \notin {0, 255} => (i.imm_form <=> IsImm(f))
           /\ IsImm(f) => i.imm = ValueOf(SimImm(f))
           /\ i.src_in_a <=> Opcode(f) \in {1, 20, 49, 254}
           /\ i.is_b <=> Opcode(f) = 48
           /\ i.alu_op = IF Opcode(f) \in 16 .. 26 THEN AluOfNibble[(Opcode(f) % 16) + 1]
                         ELSE IF Opcode(f) = 32 THEN "cmp"
                         ELSE IF Opcode(f) = 33 THEN "cmp_s" ELSE "add"
           /\ i.wr_en <=> Opcode(f) \in {1, 64} \cup (16 .. 26)
           /\ i.is_bj <=> Opcode(f) \in {48, 49}
           /\ i.pred = IF Opcode(f) = 49 THEN 0 ELSE FlagBits(f) % 8
           /\ i.is_load <=> Opcode(f) = 64
           /\ i.is_store <=> Opcode(f) = 65
           /\ i.mem_size = (FlagBits(f) \div 2) % 4
           /\ i.mem_sext = FlagBit(f, 3)
           /\ i.is_trap <=> Opcode(f) = 254
           /\ i.is_halt <=> Opcode(f) = 255
<1>1. Opcode(f) \in Legal /\ FlagBits(f) \in 0 .. 15
  BY LegalFrame, FrameBytes
<1>2. IsImm(f) => ValueOf(Imm(f)) = ValueOf(SimImm(f))
  BY LegalFrame
<1>3. /\ i.pc = pc /\ i.illegal = Illegal(f, LenOf(f) < 2)
      /\ i.imm = ValueOf(Imm(f)) /\ i.imm_form = imm_form(f)
      /\ i.src_in_a = (is_mov(Opcode(f)) \/ is_not(Opcode(f)) \/ is_jmp(Opcode(f))
                         \/ is_trap(Opcode(f)))
      /\ i.is_b = is_b(Opcode(f))
      /\ i.alu_op = alu_op(f)
      /\ i.wr_en = (is_mov(Opcode(f)) \/ in_alu(Opcode(f)) \/ is_load(Opcode(f)))
      /\ i.is_bj = is_bj(Opcode(f))
      /\ i.pred = IF is_jmp(Opcode(f)) THEN 0 ELSE FlagBits(f) % 8
      /\ i.is_load = is_load(Opcode(f)) /\ i.is_store = is_store(Opcode(f))
      /\ i.mem_size = Bits(FlagBits(f), 2, 1) /\ i.mem_sext = FlagBit(f, 3)
      /\ i.is_trap = is_trap(Opcode(f)) /\ i.is_halt = is_halt(Opcode(f))
  BY DEF Stage1
<1>4. Bits(FlagBits(f), 2, 1) = (FlagBits(f) \div 2) % 4
  BY <1>1 DEF Bits
<1>5. Opcode(f) \notin {0, 255} => (imm_form(f) <=> IsImm(f))
  BY <1>1, ImmForms
<1>6. i.src_in_a <=> Opcode(f) \in {1, 20, 49, 254}
  BY <1>1, <1>3, Kinds
<1>7. i.wr_en <=> Opcode(f) \in {1, 64} \cup (16 .. 26)
  BY <1>1, <1>3, Kinds
<1>8. i.pred = IF Opcode(f) = 49 THEN 0 ELSE FlagBits(f) % 8
  BY <1>1, <1>3, Kinds
<1>9. /\ i.is_b <=> Opcode(f) = 48
      /\ i.is_bj <=> Opcode(f) \in {48, 49}
      /\ i.is_load <=> Opcode(f) = 64
      /\ i.is_store <=> Opcode(f) = 65
      /\ i.is_trap <=> Opcode(f) = 254
      /\ i.is_halt <=> Opcode(f) = 255
  BY <1>1, <1>3, Kinds
<1>10. i.alu_op = IF Opcode(f) \in 16 .. 26 THEN AluOfNibble[(Opcode(f) % 16) + 1]
                  ELSE IF Opcode(f) = 32 THEN "cmp"
                  ELSE IF Opcode(f) = 33 THEN "cmp_s" ELSE "add"
  BY <1>1, <1>3, AluField
<1>11. i.mem_size = (FlagBits(f) \div 2) % 4
  BY <1>3, <1>4
<1>12. Opcode(f) \notin {0, 255} => (i.imm_form <=> IsImm(f))
  BY <1>3, <1>5
<1>13. ~i.illegal
  BY <1>3
<1>14. IsImm(f) => i.imm = ValueOf(SimImm(f))
  BY <1>2, <1>3
<1>15. i.pc = pc /\ i.mem_sext = FlagBit(f, 3)
  BY <1>3
<1> QED
  BY <1>6, <1>7, <1>8, <1>9, <1>10, <1>11, <1>12, <1>13, <1>14, <1>15

(* Where its registers are. *)
LEMMA Registers ==
    ASSUME NEW f \in Frame, NEW pc, ~Illegal(f, LenOf(f) < 2),
           NEW i, i = Stage1(f, pc, LenOf(f) < 2)
    PROVE  /\ Opcode(f) \in {1, 64, 65} \cup (16 .. 26) => i.rd = f[2] /\ f[2] \in RegNums
           /\ Opcode(f) \in {32, 33} \/ (Opcode(f) \in {48, 49} /\ ~IsImm(f))
                => i.raddr_a = f[2] /\ f[2] \in RegNums
           /\ Opcode(f) \in ((16 .. 26) \ {20}) \cup {64, 65}
                 \/ (Opcode(f) \in {1, 20} /\ ~IsImm(f))
                => i.raddr_a = f[3] /\ f[3] \in RegNums
           /\ Opcode(f) \in {32, 33} /\ ~IsImm(f)
                => i.raddr_b = f[3] /\ f[3] \in RegNums
           /\ Opcode(f) \in ((16 .. 26) \ {20}) \cup {64, 65} /\ ~IsImm(f)
                => i.raddr_b = f[4] /\ f[4] \in RegNums
<1> DEFINE op == Opcode(f)
<1>1. op \in Legal /\ \A k \in RegBytes(f) : RegNum(f[k]) = f[k] /\ f[k] \in RegNums
  BY LegalFrame
<1>2. /\ i.rd = RegNum(f[2])
      /\ i.raddr_a = RegNum(IF Bit(op, 5) THEN f[2] ELSE f[3])
      /\ i.raddr_b = RegNum(IF is_store(op) /\ imm_form(f) THEN f[2]
                            ELSE IF Bit(op, 5) THEN f[3] ELSE f[4])
  BY DEF Stage1, raddr_a, raddr_b
<1>3. /\ Bit(op, 5) <=> op \in {32, 33, 48, 49, 254, 255}
      /\ is_store(op) <=> op = 65
      /\ op \notin {0, 255} => (imm_form(f) <=> IsImm(f))
  BY <1>1, Positions, Kinds, ImmForms
<1>4. /\ uses_r2(f) <=> op \in {1, 32, 33, 64, 65} \cup (16 .. 26) \/ (op \in {48, 49} /\ ~imm_form(f))
      /\ uses_r3(f) <=> op \in ((16 .. 26) \ {20}) \cup {64, 65} \/ (op \in {1, 20, 32, 33} /\ ~imm_form(f))
      /\ uses_r4(f) <=> op \in ((16 .. 26) \ {20}) \cup {64, 65} /\ ~imm_form(f)
  BY <1>1, Kinds, Positions DEF uses_r2, uses_r3, uses_r4
<1>5. /\ uses_r2(f) => RegNum(f[2]) = f[2] /\ f[2] \in RegNums
      /\ uses_r3(f) => RegNum(f[3]) = f[3] /\ f[3] \in RegNums
      /\ uses_r4(f) => RegNum(f[4]) = f[4] /\ f[4] \in RegNums
  BY <1>1, SameRegisterBytes
<1> HIDE DEF op
<1>6. op \in {1, 64, 65} \cup (16 .. 26) => i.rd = f[2] /\ f[2] \in RegNums
  BY <1>2, <1>4, <1>5
<1>7. op \in {32, 33} \/ (op \in {48, 49} /\ ~IsImm(f))
        => i.raddr_a = f[2] /\ f[2] \in RegNums
  BY <1>2, <1>3, <1>4, <1>5
<1>8. op \in ((16 .. 26) \ {20}) \cup {64, 65} \/ (op \in {1, 20} /\ ~IsImm(f))
        => i.raddr_a = f[3] /\ f[3] \in RegNums
  BY <1>2, <1>3, <1>4, <1>5
<1>9. op \in {32, 33} /\ ~IsImm(f) => i.raddr_b = f[3] /\ f[3] \in RegNums
  BY <1>2, <1>3, <1>4, <1>5
<1>10. op \in ((16 .. 26) \ {20}) \cup {64, 65} /\ ~IsImm(f)
        => i.raddr_b = f[4] /\ f[4] \in RegNums
  BY <1>2, <1>3, <1>4, <1>5
<1> QED
  BY <1>6, <1>7, <1>8, <1>9, <1>10 DEF op
-----------------------------------------------------------------------------
(* Compares and branches. *)

LEMMA Remainder ==
    ASSUME NEW c \in Nat \ {0}, NEW q \in Int, NEW t \in 0 .. c - 1
    PROVE  (c * q + t) % c = t
<1> DEFINE n == c * q + t
           d == n \div c
           m == n % c
<1>1. n \in Int /\ d \in Int /\ m \in 0 .. c - 1 /\ n = c * d + m
  OBVIOUS
<1> HIDE DEF d, m
<1>2. c * (d - q) < c * 1 /\ c * (d - q) > c * (-1)
  BY <1>1
<1>3. d - q < 1 /\ d - q > -1
  BY <1>1, <1>2
<1>4. d = q
  BY <1>1, <1>3
<1> QED
  BY <1>1, <1>4 DEF m

(* A difference of two words, or of two signed readings, wraps once at most. *)
LEMMA WrapOnce ==
    ASSUME NEW d \in Int, d < WordSize, d >= -WordSize
    PROVE  Wrap(d) = IF d >= 0 THEN d ELSE d + WordSize
<1>1. CASE d >= 0
  <2>1. d \in 0 .. WordSize - 1
    BY <1>1, WordSizeAssumption
  <2>2. (WordSize * 0 + d) % WordSize = d
    BY <2>1, WordSizeAssumption, Remainder
  <2> QED
    BY <1>1, <2>2, WordSizeAssumption DEF Wrap
<1>2. CASE d < 0
  <2>1. d + WordSize \in 0 .. WordSize - 1
    BY <1>2, WordSizeAssumption
  <2>2. (WordSize * (-1) + (d + WordSize)) % WordSize = d + WordSize
    BY <2>1, WordSizeAssumption, Remainder
  <2>3. WordSize * (-1) + (d + WordSize) = d
    BY WordSizeAssumption
  <2> QED
    BY <1>2, <2>2, <2>3 DEF Wrap
<1> QED
  BY <1>1, <1>2

LEMMA Halves == HalfWord \in Nat \ {0} /\ WordSize = 2 * HalfWord
  BY WordSizeAssumption, HalvesAssumption DEF HalfWord

LEMMA TopBit == ASSUME NEW x \in Word PROVE SignBit(x) = IF x < HalfWord THEN 0 ELSE 1
<1> DEFINE H == HalfWord
           q == x \div H
           r == x % H
<1>1. H \in Nat \ {0} /\ x \in 0 .. 2 * H - 1
  BY Halves DEF Word
<1>2. q \in Int /\ r \in 0 .. H - 1 /\ x = H * q + r
  BY <1>1
<1> HIDE DEF H, q, r
<1>3. H * q < H * 2 /\ H * q > H * (-1)
  BY <1>1, <1>2
<1>4. q < 2 /\ q > -1
  BY <1>1, <1>2, <1>3
<1>5. q = 0 \/ q = 1
  BY <1>2, <1>4
<1>6. q = IF x < H THEN 0 ELSE 1
  BY <1>1, <1>2, <1>5
<1> QED
  BY <1>6 DEF SignBit, q, H

(* What the subtractor and the signed reading say of two words. *)
LEMMA Differences ==
    ASSUME NEW u \in Word, NEW v \in Word
    PROVE  LET diff == Signed(u) - Signed(v)
           IN /\ DiffSign(u, v) = 1 <=> Signed(Wrap(diff)) < 0
              /\ SubOverflow(u, v) <=> Signed(Wrap(diff)) # diff
              /\ (DiffSign(u, v) = 1) # SubOverflow(u, v) <=> diff < 0
<1> DEFINE H == HalfWord
           diff == Signed(u) - Signed(v)
           w == IF u >= v THEN u - v ELSE u - v + WordSize
<1>1. H \in Nat \ {0} /\ WordSize = 2 * H /\ u \in 0 .. 2 * H - 1 /\ v \in 0 .. 2 * H - 1
  BY Halves DEF Word
<1> HIDE DEF H
<1>2. /\ Signed(u) = IF u < H THEN u ELSE u - 2 * H
      /\ Signed(v) = IF v < H THEN v ELSE v - 2 * H
  BY <1>1 DEF Signed
<1>3. diff \in Int /\ diff < WordSize /\ diff >= -WordSize
  BY <1>1, <1>2
<1>4. Wrap(u - v) = w /\ w \in Word
  <2>1. u - v \in Int /\ u - v < WordSize /\ u - v >= -WordSize
    BY <1>1
  <2>2. Wrap(u - v) = IF u - v >= 0 THEN u - v ELSE u - v + WordSize
    BY <2>1, WrapOnce
  <2> QED
    BY <1>1, <2>1, <2>2 DEF Word
<1>5. Wrap(diff) = w
  <2>1. Wrap(diff) = IF diff >= 0 THEN diff ELSE diff + WordSize
    BY <1>3, WrapOnce
  <2> QED
    BY <1>1, <1>2, <2>1
<1>6. Signed(w) = IF w < H THEN w ELSE w - 2 * H
  BY <1>1, <1>4 DEF Signed, Word
<1>7. /\ SignBit(u) = IF u < H THEN 0 ELSE 1
      /\ SignBit(v) = IF v < H THEN 0 ELSE 1
      /\ DiffSign(u, v) = IF w < H THEN 0 ELSE 1
  BY <1>4, TopBit DEF DiffSign, H
<1>8. SubOverflow(u, v) <=> (u < H /\ v >= H /\ w >= H) \/ (u >= H /\ v < H /\ w < H)
  BY <1>1, <1>4, <1>7 DEF SubOverflow, Word
<1>9. DiffSign(u, v) = 1 <=> Signed(w) < 0
  BY <1>1, <1>4, <1>6, <1>7 DEF Word
<1>10. SubOverflow(u, v) <=> Signed(w) # diff
  BY <1>1, <1>2, <1>6, <1>8
<1>11. (DiffSign(u, v) = 1 /\ ~SubOverflow(u, v)) \/ (DiffSign(u, v) # 1 /\ SubOverflow(u, v))
         <=> diff < 0
  BY <1>1, <1>2, <1>7, <1>8
<1>12. SubOverflow(u, v) \in BOOLEAN
  BY DEF SubOverflow
<1>13. (DiffSign(u, v) = 1) # SubOverflow(u, v) <=> diff < 0
  BY <1>11, <1>12
<1> QED
  BY <1>5, <1>9, <1>10, <1>13
LEMMA SameFlags ==
    ASSUME NEW u \in Word, NEW v \in Word, NEW sign \in {"signed", "unsigned"}
    PROVE  RtlFlags(u, v, sign) = Compare(u, v, sign)
<1> DEFINE diff == Signed(u) - Signed(v)
<1>1. /\ DiffSign(u, v) = 1 <=> Signed(Wrap(diff)) < 0
      /\ SubOverflow(u, v) <=> Signed(Wrap(diff)) # diff
  BY Differences
<1>2. (IF sign = "signed" THEN DiffSign(u, v) = 1 ELSE u < v)
        = (IF sign = "signed" THEN Signed(Wrap(diff)) < 0 ELSE u < v)
  BY <1>1
<1>3. (sign = "signed" /\ SubOverflow(u, v)) = (sign = "signed" /\ Signed(Wrap(diff)) # diff)
  BY <1>1
<1> QED
  BY <1>2, <1>3, Zenon DEF RtlFlags, Compare

(* A state is two words. *)
LEMMA TwoWords == Spec => [](a \in Word /\ b \in Word)
<1>1. Init => a \in Word /\ b \in Word
  BY WordSizeAssumption DEF Init, Word
<1>2. a \in Word /\ b \in Word /\ [Next]_<<a, b>> => (a \in Word /\ b \in Word)'
  BY WordSizeAssumption DEF Next, Word, Wrap
<1> QED
  BY <1>1, <1>2, PTL DEF Spec

(* CMP and CMP_S set the simulators' flags, overflow included: the core    *)
(* keeps only the sign of the difference (core/alu.sv).                    *)
THEOREM FlagsAgreeAlways == Spec => []FlagsAgree
<1>1. a \in Word /\ b \in Word => FlagsAgree
  BY SameFlags DEF FlagsAgree
<1> QED
  BY <1>1, TwoWords, PTL

(* What the predicate mux makes of the flags. *)
LEMMA Branches ==
    ASSUME NEW u \in Word, NEW v \in Word, NEW sign \in {"signed", "unsigned"}
    PROVE  LET x == IF sign = "signed" THEN Signed(u) ELSE u
               y == IF sign = "signed" THEN Signed(v) ELSE v
               f == RtlFlags(u, v, sign)
           IN /\ f.z <=> x = y
              /\ f.n # f.v <=> x < y
              /\ f.z \in BOOLEAN /\ f.n \in BOOLEAN /\ f.v \in BOOLEAN
              /\ x \in Int /\ y \in Int
<1> DEFINE diff == Signed(u) - Signed(v)
<1>1. /\ u \in Int /\ v \in Int /\ Signed(u) \in Int /\ Signed(v) \in Int
      /\ Signed(u) = Signed(v) <=> u = v
  BY WordSizeAssumption DEF Word, Signed
<1>2. (DiffSign(u, v) = 1) # SubOverflow(u, v) <=> diff < 0
  BY Differences
<1>3. diff < 0 <=> Signed(u) < Signed(v)
  BY <1>1
<1>4. SubOverflow(u, v) \in BOOLEAN
  BY DEF SubOverflow
<1>5. CASE sign = "signed"
  <2>1. /\ RtlFlags(u, v, sign).z = (u = v)
        /\ RtlFlags(u, v, sign).n = (DiffSign(u, v) = 1)
        /\ RtlFlags(u, v, sign).v = SubOverflow(u, v)
    BY <1>4, <1>5 DEF RtlFlags
  <2> QED
    BY <1>1, <1>2, <1>3, <1>4, <1>5, <2>1
<1>6. CASE sign = "unsigned"
  <2>1. /\ RtlFlags(u, v, sign).z = (u = v)
        /\ RtlFlags(u, v, sign).n = (u < v)
        /\ RtlFlags(u, v, sign).v = FALSE
    BY <1>6 DEF RtlFlags
  <2>2. (u < v) # FALSE <=> u < v
    <3>1. (u < v) = TRUE \/ (u < v) = FALSE
      BY <1>1
    <3> QED
      BY <3>1, Zenon
  <2>3. RtlFlags(u, v, sign).n # RtlFlags(u, v, sign).v <=> u < v
    BY <2>1, <2>2, Zenon
  <2> QED
    BY <1>1, <1>6, <2>1, <2>3
<1> QED
  BY <1>5, <1>6

(* A compare and a branch mean what their names say, in both signednesses: *)
(* the predicate mux of execute.sv reads the flags as the order of the     *)
(* operands, at the overflow boundary too, and as the simulators do.       *)
THEOREM BranchMeansOrderAlways == Spec => []BranchMeansOrder
<1>1. ASSUME a \in Word, b \in Word PROVE BranchMeansOrder
  <2> DEFINE Value(w, sign) == IF sign = "signed" THEN Signed(w) ELSE w
  <2>1. ASSUME NEW sign \in {"signed", "unsigned"},
               NEW x, x = Value(a, sign), NEW y, y = Value(b, sign),
               NEW f, f = RtlFlags(a, b, sign)
        PROVE  /\ BranchTaken("eq", f) <=> x = y
               /\ BranchTaken("ne", f) <=> x # y
               /\ BranchTaken("lt", f) <=> x < y
               /\ BranchTaken("ge", f) <=> x >= y
               /\ BranchTaken("gt", f) <=> x > y
               /\ BranchTaken("le", f) <=> x <= y
               /\ \A p \in Predicates : BranchTaken(p, f) = Predicate(p, Compare(a, b, sign))
    <3> DEFINE lt == f.n # f.v
    <3>1. /\ f.z <=> x = y
          /\ lt <=> x < y
          /\ x \in Int /\ y \in Int
      BY <1>1, <2>1, Branches
    <3>2. f = Compare(a, b, sign)
      BY <1>1, <2>1, SameFlags
    <3>3. /\ BranchTaken("eq", f) = f.z
          /\ BranchTaken("ne", f) = ~f.z
          /\ BranchTaken("lt", f) = lt
          /\ BranchTaken("ge", f) = ~lt
          /\ BranchTaken("gt", f) = (~f.z /\ ~lt)
          /\ BranchTaken("le", f) = (f.z \/ lt)
      BY Zenon DEF BranchTaken
    <3>4. /\ BranchTaken("eq", f) <=> x = y
          /\ BranchTaken("ne", f) <=> x # y
          /\ BranchTaken("lt", f) <=> x < y
          /\ BranchTaken("ge", f) <=> ~(x < y)
          /\ BranchTaken("gt", f) <=> x # y /\ ~(x < y)
          /\ BranchTaken("le", f) <=> x = y \/ x < y
      <4> HIDE DEF lt
      <4> QED
        BY <3>1, <3>3, Zenon
    <3>5. /\ ~(x < y) <=> x >= y
          /\ x # y /\ ~(x < y) <=> x > y
          /\ x = y \/ x < y <=> x <= y
      BY <3>1
    <3>6. ASSUME NEW p \in Predicates PROVE BranchTaken(p, f) = Predicate(p, f)
      <4>1. ~lt = (f.n = f.v)
        BY Zenon
      <4> QED
        BY <4>1, Zenon DEF BranchTaken, Predicate, Predicates
    <3> QED
      BY <3>2, <3>4, <3>5, <3>6, Zenon
  <2> QED
    BY <2>1 DEF BranchMeansOrder
<1> QED
  BY <1>1, TwoWords, PTL
-----------------------------------------------------------------------------
(* What DecodeAgrees says of one frame, for any frame. *)
LEMMA FrameReadAlike ==
    ASSUME NEW f \in Frame, NEW bad, bad = (LenOf(f) < 2)
    PROVE  /\ LenOf(f) \in 2 .. 12 => (Illegal(f, bad) <=> SimIllegal(f))
           /\ ~Illegal(f, bad) =>
                /\ IsImm(f) => imm_form(f) /\ Imm(f) = SimImm(f)
                /\ LET op == Opcode(f)
                       d == Stage1(f, 0, bad)
                   IN /\ d.wr_en <=> op \in ({1, 20, 64} \cup Binary)
                      /\ d.is_load <=> op = 64
                      /\ d.is_store <=> op = 65
                      /\ d.is_bj <=> op \in Branch
                      /\ d.is_b <=> op = 48
                      /\ d.is_trap <=> op = Trap
                      /\ d.is_halt <=> op = Halt
                      /\ HasOperand(f) => (d.imm_form <=> IsImm(f))
                      /\ d.alu_op \in {"cmp", "cmp_s"} <=> op \in {32, 33}
<1>1. LenOf(f) \in 2 .. 12 => (Illegal(f, bad) <=> SimIllegal(f))
  BY SameFaults
<1>2. ASSUME ~Illegal(f, bad), IsImm(f) PROVE imm_form(f) /\ Imm(f) = SimImm(f)
  <2>1. Opcode(f) \in Legal /\ LenOf(f) \in 2 .. 12 /\ ~SimIllegal(f)
    BY <1>2, LegalFrame
  <2>2. Opcode(f) \notin {0, 255}
    BY <1>2, <2>1, SimPositions
  <2>3. ImmLen(f) <= 8
    <3>1. LenOf(f) \in Int /\ OperandAt(f) \in Int
      BY <2>1, SimPositions
    <3>2. ImmLen(f) \in Int
      BY <3>1 DEF ImmLen
    <3> QED
      BY <1>2, <2>1, <3>2 DEF SimIllegal
  <2> QED
    BY <1>2, <2>1, <2>2, <2>3, ImmForms, SameImms
<1>3. ASSUME ~Illegal(f, bad)
      PROVE  LET op == Opcode(f)
                 d == Stage1(f, 0, bad)
             IN /\ d.wr_en <=> op \in ({1, 20, 64} \cup Binary)
                /\ d.is_load <=> op = 64
                /\ d.is_store <=> op = 65
                /\ d.is_bj <=> op \in Branch
                /\ d.is_b <=> op = 48
                /\ d.is_trap <=> op = Trap
                /\ d.is_halt <=> op = Halt
                /\ HasOperand(f) => (d.imm_form <=> IsImm(f))
                /\ d.alu_op \in {"cmp", "cmp_s"} <=> op \in {32, 33}
  <2> DEFINE op == Opcode(f)
             d == Stage1(f, 0, bad)
  <2>1. op \in Legal
    BY <1>3, LegalFrame
  <2>2. d = Stage1(f, 0, LenOf(f) < 2) /\ ~Illegal(f, LenOf(f) < 2)
    BY <1>3
  <2> HIDE DEF d
  <2>3. /\ op \notin {0, 255} => (d.imm_form <=> IsImm(f))
        /\ d.is_b <=> op = 48
        /\ d.alu_op = IF op \in 16 .. 26 THEN AluOfNibble[(op % 16) + 1]
                      ELSE IF op = 32 THEN "cmp"
                      ELSE IF op = 33 THEN "cmp_s" ELSE "add"
        /\ d.wr_en <=> op \in {1, 64} \cup (16 .. 26)
        /\ d.is_bj <=> op \in {48, 49}
        /\ d.is_load <=> op = 64
        /\ d.is_store <=> op = 65
        /\ d.is_trap <=> op = 254
        /\ d.is_halt <=> op = 255
    BY <2>2, Fields
  <2>4. HasOperand(f) => op \notin {0, 255}
    BY <2>1, SimPositions
  <2> HIDE DEF op
  <2>5. d.alu_op \in {"cmp", "cmp_s"} <=> op \in {32, 33}
    <3>1. op \in 16 .. 26 => AluOfNibble[(op % 16) + 1] \notin {"cmp", "cmp_s"}
      BY Nibbles DEF AluFn
    <3>2. CASE op \in 16 .. 26
      BY <2>3, <3>1, <3>2
    <3>3. CASE op \notin 16 .. 26
      BY <2>3, <3>3
    <3> QED
      BY <3>2, <3>3
  <2>6. /\ d.wr_en <=> op \in ({1, 20, 64} \cup Binary)
        /\ d.is_bj <=> op \in Branch
        /\ d.is_trap <=> op = Trap
        /\ d.is_halt <=> op = Halt
    BY <2>3 DEF Binary, Branch, Trap, Halt
  <2> QED
    BY <2>3, <2>4, <2>5, <2>6, Zenon DEF d, op
<1> QED
  BY <1>1, <1>2, <1>3, Zenon

(* On every frame the decoder and the simulators read alike: they refuse   *)
(* the same frames, a legal one is one kind of instruction only, and the   *)
(* shifter leaves nothing of the bytes behind the payload in its immediate *)
(* (decode.sv:148-150, 221-224, 247-249, 287-288).                         *)
LEMMA AllFramesAgree ==
    \A f \in Frame :
        /\ SameFault(f)
        /\ ~Illegal(f, BadLen(f)) => SameImm(f) /\ SameKind(f)
  BY FrameReadAlike DEF SameFault, SameImm, SameKind, BadLen

(* Whatever bytes the frames are put together from, the core's decoder     *)
(* agrees with the simulators' on them (decode.sv:46-295).                 *)
THEOREM DecodeAgreesAlways == Spec => []DecodeAgrees
<1>1. ASSUME {a, b} \subseteq Byte, NEW f \in Frames PROVE f \in Frame
  <2>1. PICK s \in SampleBytes \X SampleBytes \X SampleBytes :
          f = [k \in 0 .. MaxInsnBytes - 1 |->
                 CASE k = 0 -> a [] k = 1 -> b [] k = 2 -> s[1] [] k = 3 -> s[2]
                   [] k = 4 -> s[3] [] OTHER -> 19 * k]
    BY DEF Frames
  <2>2. s[1] \in Byte /\ s[2] \in Byte /\ s[3] \in Byte /\ a \in Byte /\ b \in Byte
    BY <1>1, SampleBytesAssumption
  <2> QED
    BY <2>1, <2>2 DEF Frame, Byte, MaxInsnBytes
<1>2. DecodeAgrees
  BY <1>1, AllFramesAgree DEF DecodeAgrees
<1> QED
  BY <1>2, PTL
-----------------------------------------------------------------------------
(* Induction over the naturals, stated with a set: the library states it   *)
(* with an operator, which the provers cannot instantiate.                 *)
LEMMA LeastNatural ==
    ASSUME NEW T \in SUBSET Nat, T # {}
    PROVE  \E x \in T : \A y \in T : x <= y
<1>1. IsWellFoundedOn(OpToRel(<, Nat), Nat)
  BY NatLessThanWellFounded, Zenon
<1>2. \A x, y \in Nat : y < x => <<y, x>> \in OpToRel(<, Nat)
  BY DEF OpToRel
<1>3. PICK x \in T : \A y \in T : ~ (<<y, x>> \in OpToRel(<, Nat))
  BY <1>1, WFMin, Zenon
<1>4. \A y \in T : ~ (y < x)
  BY <1>2, <1>3
<1> QED
  BY <1>4

LEMMA Induction ==
    ASSUME NEW T \in SUBSET Nat, 0 \in T, \A n \in T : n + 1 \in T
    PROVE  T = Nat
<1> SUFFICES ASSUME Nat \ T # {} PROVE FALSE
  OBVIOUS
<1>1. PICK x \in Nat \ T : \A y \in Nat \ T : x <= y
  BY LeastNatural
<1>2. x # 0 /\ x - 1 \in T
  BY <1>1
<1> QED
  BY <1>1, <1>2
-----------------------------------------------------------------------------
(* Powers of two.  That the recursive definition defines a function is     *)
(* shown by the restrictions of that function to 0 .. m.                   *)
Doubles(m, f) == f \in [0 .. m -> Nat] /\ f[0] = 1 /\ \A n \in 1 .. m : f[n] = 2 * f[n - 1]

LEMMA DoublesExists == \A m \in Nat : \E f : Doubles(m, f)
<1> DEFINE T == {m \in Nat : \E f : Doubles(m, f)}
<1>1. 0 \in T
  <2>1. Doubles(0, [n \in 0 .. 0 |-> 1])
    BY DEF Doubles
  <2> QED
    BY <2>1
<1>2. ASSUME NEW m \in T PROVE m + 1 \in T
  <2>1. PICK f : Doubles(m, f)
    OBVIOUS
  <2> DEFINE g == [n \in 0 .. m + 1 |-> IF n <= m THEN f[n] ELSE 2 * f[m]]
  <2>2. Doubles(m + 1, g)
    BY <2>1 DEF Doubles
  <2> QED
    BY <2>2
<1> HIDE DEF T
<1>3. T = Nat
  BY <1>1, <1>2, Induction DEF T
<1> QED
  BY <1>3 DEF T

LEMMA DoublesUnique ==
    ASSUME NEW m \in Nat, NEW k \in Nat, m <= k, NEW f, NEW g, Doubles(m, f), Doubles(k, g)
    PROVE  f[m] = g[m]
<1> DEFINE T == {n \in Nat : n <= m => f[n] = g[n]}
<1>1. 0 \in T
  BY DEF Doubles
<1>2. ASSUME NEW n \in T PROVE n + 1 \in T
  BY DEF Doubles
<1> HIDE DEF T
<1>3. T = Nat
  BY <1>1, <1>2, Induction DEF T
<1> QED
  BY <1>3 DEF T

LEMMA Pow2Doubles == Pow2 = [n \in Nat |-> IF n = 0 THEN 1 ELSE 2 * Pow2[n - 1]]
<1> DEFINE D(n) == CHOOSE f : Doubles(n, f)
           F == [n \in Nat |-> D(n)[n]]
<1>1. \A n \in Nat : Doubles(n, D(n))
  BY DoublesExists
<1> HIDE DEF D
<1>2. \A n \in Nat : F[n] = IF n = 0 THEN 1 ELSE 2 * F[n - 1]
  <2> SUFFICES ASSUME NEW n \in Nat PROVE F[n] = IF n = 0 THEN 1 ELSE 2 * F[n - 1]
    OBVIOUS
  <2>1. CASE n = 0
    BY <1>1, <2>1 DEF Doubles
  <2>2. CASE n # 0
    <3>1. n - 1 \in Nat /\ n - 1 <= n
      BY <2>2
    <3>2. D(n - 1)[n - 1] = D(n)[n - 1]
      BY <1>1, <3>1, DoublesUnique
    <3>3. D(n)[n] = 2 * D(n)[n - 1]
      BY <1>1, <2>2 DEF Doubles
    <3> QED
      BY <2>2, <3>1, <3>2, <3>3
  <2> QED
    BY <2>1, <2>2
<1>3. F = [n \in Nat |-> IF n = 0 THEN 1 ELSE 2 * F[n - 1]]
  BY <1>2
<1> HIDE DEF F
<1> QED
  BY <1>3 DEF Pow2

LEMMA Powers ==
    /\ Pow2[0] = 1
    /\ \A n \in Nat : Pow2[n] \in Nat \ {0} /\ Pow2[n + 1] = 2 * Pow2[n]
<1>1. \A n \in Nat : Pow2[n] = IF n = 0 THEN 1 ELSE 2 * Pow2[n - 1]
  BY Pow2Doubles
<1> DEFINE T == {n \in Nat : Pow2[n] \in Nat \ {0}}
<1>2. 0 \in T
  BY <1>1
<1>3. ASSUME NEW n \in T PROVE n + 1 \in T
  BY <1>1
<1> HIDE DEF T
<1>4. T = Nat
  BY <1>2, <1>3, Induction DEF T
<1> QED
  BY <1>1, <1>4 DEF T
-----------------------------------------------------------------------------
(* Quotients and remainders by a number that is not a numeral.             *)
LEMMA DivMod ==
    ASSUME NEW n \in Int, NEW c \in Nat \ {0}
    PROVE  n \div c \in Int /\ n % c \in 0 .. c - 1 /\ n = c * (n \div c) + (n % c)
  OBVIOUS

LEMMA DivUnique ==
    ASSUME NEW c \in Nat \ {0}, NEW q \in Int, NEW t \in 0 .. c - 1
    PROVE  (c * q + t) \div c = q /\ (c * q + t) % c = t
<1> DEFINE n == c * q + t
           d == n \div c
           m == n % c
<1>1. n \in Int /\ d \in Int /\ m \in 0 .. c - 1 /\ n = c * d + m
  BY DivMod
<1> HIDE DEF d, m
<1>2. c * (d - q) = t - m
  BY <1>1
<1>3. d - q < 1 /\ d - q > -1
  <2>1. c * (d - q) < c * 1 /\ c * (d - q) > c * (-1)
    BY <1>1, <1>2
  <2> QED
    BY <2>1, <1>1
<1>4. d = q
  BY <1>1, <1>3
<1> QED
  BY <1>1, <1>4 DEF d, m


LEMMA PowerOfSum ==
    ASSUME NEW m \in Nat, NEW k \in Nat
    PROVE  Pow2[m + k] = Pow2[m] * Pow2[k]
<1> DEFINE T == {n \in Nat : Pow2[m + n] = Pow2[m] * Pow2[n]}
<1>1. 0 \in T
  <2>1. Pow2[m] \in Nat /\ Pow2[0] = 1 /\ m + 0 = m
    BY Powers
  <2> QED
    BY <2>1
<1>2. ASSUME NEW n \in T PROVE n + 1 \in T
  <2> DEFINE x == Pow2[m]
             y == Pow2[n]
  <2>1. Pow2[(m + n) + 1] = 2 * Pow2[m + n] /\ Pow2[n + 1] = 2 * y /\ x \in Nat /\ y \in Nat
    BY Powers
  <2>2. Pow2[m + n] = x * y /\ (m + n) + 1 = m + (n + 1)
    OBVIOUS
  <2> HIDE DEF x, y
  <2>3. 2 * (x * y) = x * (2 * y)
    BY <2>1
  <2>4. Pow2[m + (n + 1)] = x * Pow2[n + 1]
    BY <2>1, <2>2, <2>3
  <2> QED
    BY <2>4 DEF x
<1> HIDE DEF T
<1>3. T = Nat
  BY <1>1, <1>2, Induction DEF T
<1> QED
  BY <1>3 DEF T

LEMMA DivideTwice ==
    ASSUME NEW n \in Int, NEW c \in Nat \ {0}, NEW d \in Nat \ {0}
    PROVE  (n \div c) \div d = n \div (c * d)
<1> DEFINE x == n \div c
           r == n % c
           y == x \div d
           t == x % d
<1>1. x \in Int /\ r \in 0 .. c - 1 /\ n = c * x + r
  BY DivMod
<1> HIDE DEF x, r
<1>2. y \in Int /\ t \in 0 .. d - 1 /\ x = d * y + t
  BY <1>1, DivMod
<1> HIDE DEF y, t
<1>3. n = (c * d) * y + (c * t + r)
  BY <1>1, <1>2
<1>4. c * d \in Nat \ {0} /\ c * t + r \in 0 .. c * d - 1
  <2>1. c * t <= c * (d - 1) /\ 0 <= c * t /\ c * t \in Int
    BY <1>2
  <2>2. c * (d - 1) = c * d - c /\ c * d \in Nat \ {0}
    OBVIOUS
  <2> QED
    BY <1>1, <2>1, <2>2
<1> DEFINE e == c * d
           u == c * t + r
<1>5. e \in Nat \ {0} /\ u \in 0 .. e - 1 /\ n = e * y + u
  BY <1>3, <1>4
<1> HIDE DEF e, u
<1>6. n \div e = y
  BY <1>2, <1>5, DivUnique
<1> QED
  BY <1>6 DEF e, x, y

LEMMA SameRest ==
    ASSUME NEW m \in Nat \ {0}, NEW x \in Int, NEW k \in Int
    PROVE  (x + m * k) % m = x % m
<1> DEFINE q == x \div m
           r == x % m
<1>1. q \in Int /\ r \in 0 .. m - 1 /\ x = m * q + r
  BY DivMod
<1> HIDE DEF q, r
<1>2. x + m * k = m * (q + k) + r /\ q + k \in Int
  BY <1>1
<1>3. (m * (q + k) + r) % m = r
  BY <1>1, <1>2, DivUnique
<1> QED
  BY <1>2, <1>3 DEF r

(* Remainders may be taken of the terms of a sum before they are added.    *)
LEMMA RestOfSum ==
    ASSUME NEW m \in Nat \ {0}, NEW x \in Int, NEW y \in Int
    PROVE  ((x % m) + (y % m)) % m = (x + y) % m /\ ((x % m) + y) % m = (x + y) % m
<1> DEFINE p == x \div m
           r == x % m
           q == y \div m
           s == y % m
<1>1. p \in Int /\ r \in Int /\ x = m * p + r /\ q \in Int /\ s \in Int /\ y = m * q + s
  BY DivMod
<1> HIDE DEF p, q, r, s
<1>2. x + y = (r + s) + m * (p + q) /\ x + y = (r + y) + m * p
      /\ r + s \in Int /\ r + y \in Int /\ p + q \in Int
  BY <1>1
<1>3. ((r + s) + m * (p + q)) % m = (r + s) % m
  BY <1>2, SameRest
<1>4. ((r + y) + m * p) % m = (r + y) % m
  BY <1>1, <1>2, SameRest
<1> QED
  BY <1>2, <1>3, <1>4 DEF r, s
-----------------------------------------------------------------------------
(* The adder tree and the limb products.                                   *)
LEMMA Distributes ==
    ASSUME NEW x \in Int, NEW P \in Int, NEW Q \in Int, NEW R \in Int,
           NEW y0 \in Int, NEW y1 \in Int, NEW y2 \in Int, NEW y3 \in Int
    PROVE  x * (y0 + P * y1 + Q * y2 + R * y3)
             = x * y0 + P * (x * y1) + Q * (x * y2) + R * (x * y3)
  OBVIOUS

(* What is left of a product with a limb of the first factor when it is    *)
(* moved up by that limb's weight.                                         *)
Limbs(L, L2, L3, W) ==
    /\ L \in Nat \ {0} /\ L2 \in Int /\ L3 \in Int /\ W \in Int
    /\ L2 = L * L /\ L3 = L * L2 /\ W = L * L3

LEMMA UpOne ==
    ASSUME NEW L, NEW L2, NEW L3, NEW W, Limbs(L, L2, L3, W),
           NEW u0 \in Int, NEW u1 \in Int, NEW u2 \in Int, NEW u3 \in Int,
           NEW r \in Int, NEW q \in Int, L3 * u2 = L3 * r + W * q
    PROVE  L * (u0 + L * u1 + L2 * u2 + L3 * u3) = L * u0 + L2 * u1 + L3 * r + W * (q + u3)
<1>1. L * (u0 + L * u1 + L2 * u2 + L3 * u3)
        = L * u0 + (L * L) * u1 + (L * L2) * u2 + (L * L3) * u3
  BY DEF Limbs
<1>2. W * (q + u3) = W * q + W * u3
  BY DEF Limbs
<1> QED
  BY <1>1, <1>2 DEF Limbs

LEMMA UpTwo ==
    ASSUME NEW L, NEW L2, NEW L3, NEW W, Limbs(L, L2, L3, W),
           NEW u0 \in Int, NEW u1 \in Int, NEW u2 \in Int, NEW u3 \in Int,
           NEW r \in Int, NEW q \in Int, L3 * u1 = L3 * r + W * q
    PROVE  L2 * (u0 + L * u1 + L2 * u2 + L3 * u3)
             = L2 * u0 + L3 * r + W * (q + u2 + L * u3)
<1>1. L2 * (u0 + L * u1 + L2 * u2 + L3 * u3)
        = L2 * u0 + (L2 * L) * u1 + (L2 * L2) * u2 + (L2 * L3) * u3
  BY DEF Limbs
<1>2. L2 * L = L3 /\ L2 * L2 = W /\ L2 * L3 = W * L
  BY DEF Limbs
<1>3. W * (q + u2 + L * u3) = W * q + W * u2 + (W * L) * u3
  BY DEF Limbs
<1> QED
  BY <1>1, <1>2, <1>3 DEF Limbs

LEMMA UpThree ==
    ASSUME NEW L, NEW L2, NEW L3, NEW W, Limbs(L, L2, L3, W),
           NEW u0 \in Int, NEW u1 \in Int, NEW u2 \in Int, NEW u3 \in Int,
           NEW r \in Int, NEW q \in Int, L3 * u0 = L3 * r + W * q
    PROVE  L3 * (u0 + L * u1 + L2 * u2 + L3 * u3)
             = L3 * r + W * (q + u1 + L * u2 + L2 * u3)
<1>1. L3 * (u0 + L * u1 + L2 * u2 + L3 * u3)
        = L3 * u0 + (L3 * L) * u1 + (L3 * L2) * u2 + (L3 * L3) * u3
  BY DEF Limbs
<1>2. L3 * L = W /\ L3 * L2 = W * L /\ L3 * L3 = W * L2
  BY DEF Limbs
<1>3. W * (q + u1 + L * u2 + L2 * u3) = W * q + W * u1 + (W * L) * u2 + (W * L2) * u3
  BY DEF Limbs
<1> QED
  BY <1>1, <1>2, <1>3 DEF Limbs

(* The part of a product of the top weight that stays in a word.           *)
LEMMA TopCut ==
    ASSUME NEW L, NEW L2, NEW L3, NEW W, Limbs(L, L2, L3, W), NEW z \in Int
    PROVE  L3 * z = L3 * (z % L) + W * (z \div L) /\ z \div L \in Int /\ z % L \in Int
<1> DEFINE q == z \div L
           r == z % L
<1>1. q \in Int /\ r \in Int /\ z = L * q + r
  BY DivMod DEF Limbs
<1> HIDE DEF q, r
<1>2. L3 * z = L3 * r + (L * L3) * q
  BY <1>1 DEF Limbs
<1> QED
  BY <1>1, <1>2 DEF q, r, Limbs

(* The products whose weight is a word's or more, and what is cut off those *)
(* of the top weight, are a multiple of a word.                            *)
Spread(f, L, L2, L3) == f[0] + L * f[1] + L2 * f[2] + L3 * f[3]

LowTerms(f, g, L, L2, L3) ==
    f[0] * g[0] + L * (f[0] * g[1]) + L * (f[1] * g[0])
      + L2 * (f[0] * g[2]) + L2 * (f[1] * g[1]) + L2 * (f[2] * g[0])
      + L3 * ((f[0] * g[3]) % L) + L3 * ((f[1] * g[2]) % L)
      + L3 * ((f[2] * g[1]) % L) + L3 * ((f[3] * g[0]) % L)

LEMMA LowWord ==
    ASSUME NEW L, NEW L2, NEW L3, NEW W, Limbs(L, L2, L3, W),
           NEW f \in [0 .. 3 -> Int], NEW g \in [0 .. 3 -> Int]
    PROVE  \E k \in Int :
             Spread(f, L, L2, L3) * Spread(g, L, L2, L3) = LowTerms(f, g, L, L2, L3) + W * k
<1> DEFINE x0 == f[0]
           x1 == f[1]
           x2 == f[2]
           x3 == f[3]
           y0 == g[0]
           y1 == g[1]
           y2 == g[2]
           y3 == g[3]
<1>0. /\ x0 \in Int /\ x1 \in Int /\ x2 \in Int /\ x3 \in Int
      /\ y0 \in Int /\ y1 \in Int /\ y2 \in Int /\ y3 \in Int
  OBVIOUS
<1> HIDE DEF x0, x1, x2, x3, y0, y1, y2, y3
<1> DEFINE y == y0 + L * y1 + L2 * y2 + L3 * y3
<1>1. L \in Int /\ L2 \in Int /\ L3 \in Int /\ W \in Int
  BY DEF Limbs
<1>2. y \in Int
  BY <1>0, <1>1
<1>3. \A u \in Int : u * y = u * y0 + L * (u * y1) + L2 * (u * y2) + L3 * (u * y3)
  BY <1>0, <1>1, Distributes
<1>4. (x0 + L * x1 + L2 * x2 + L3 * x3) * y
        = x0 * y + L * (x1 * y) + L2 * (x2 * y) + L3 * (x3 * y)
  <2> HIDE DEF y
  <2>1. y * (x0 + L * x1 + L2 * x2 + L3 * x3)
          = y * x0 + L * (y * x1) + L2 * (y * x2) + L3 * (y * x3)
    BY <1>0, <1>1, <1>2, Distributes
  <2>2. x0 + L * x1 + L2 * x2 + L3 * x3 \in Int
    BY <1>0, <1>1
  <2> QED
    BY <1>0, <1>1, <1>2, <2>1, <2>2
<1> DEFINE p00 == x0 * y0
           p01 == x0 * y1
           p02 == x0 * y2
           p03 == x0 * y3
           p10 == x1 * y0
           p11 == x1 * y1
           p12 == x1 * y2
           p13 == x1 * y3
           p20 == x2 * y0
           p21 == x2 * y1
           p22 == x2 * y2
           p23 == x2 * y3
           p30 == x3 * y0
           p31 == x3 * y1
           p32 == x3 * y2
           p33 == x3 * y3
           q03 == p03 \div L
           r03 == p03 % L
           q12 == p12 \div L
           r12 == p12 % L
           q21 == p21 \div L
           r21 == p21 % L
           q30 == p30 \div L
           r30 == p30 % L
           w0 == x0 * y
           w1 == x1 * y
           w2 == x2 * y
           w3 == x3 * y
<1>5. /\ p00 \in Int /\ p01 \in Int /\ p02 \in Int /\ p03 \in Int
      /\ p10 \in Int /\ p11 \in Int /\ p12 \in Int /\ p13 \in Int
      /\ p20 \in Int /\ p21 \in Int /\ p22 \in Int /\ p23 \in Int
      /\ p30 \in Int /\ p31 \in Int /\ p32 \in Int /\ p33 \in Int
  BY <1>0
<1>6. /\ w0 = p00 + L * p01 + L2 * p02 + L3 * p03
      /\ w1 = p10 + L * p11 + L2 * p12 + L3 * p13
      /\ w2 = p20 + L * p21 + L2 * p22 + L3 * p23
      /\ w3 = p30 + L * p31 + L2 * p32 + L3 * p33
  BY <1>0, <1>3
<1> HIDE DEF y, p00, p01, p02, p03, p10, p11, p12, p13, p20, p21, p22, p23, p30, p31, p32, p33, w0, w1, w2, w3
<1>7. /\ L3 * p03 = L3 * r03 + W * q03 /\ q03 \in Int /\ r03 \in Int
      /\ L3 * p12 = L3 * r12 + W * q12 /\ q12 \in Int /\ r12 \in Int
      /\ L3 * p21 = L3 * r21 + W * q21 /\ q21 \in Int /\ r21 \in Int
      /\ L3 * p30 = L3 * r30 + W * q30 /\ q30 \in Int /\ r30 \in Int
  BY <1>5, TopCut
<1> HIDE DEF q03, q12, q21, q30, r03, r12, r21, r30
<1>8. w0 = p00 + L * p01 + L2 * p02 + L3 * r03 + W * q03
  BY <1>1, <1>5, <1>6, <1>7
<1>9. L * w1 = L * p10 + L2 * p11 + L3 * r12 + W * (q12 + p13)
  BY <1>5, <1>6, <1>7, UpOne
<1>10. L2 * w2 = L2 * p20 + L3 * r21 + W * (q21 + p22 + L * p23)
  BY <1>5, <1>6, <1>7, UpTwo
<1>11. L3 * w3 = L3 * r30 + W * (q30 + p31 + L * p32 + L2 * p33)
  BY <1>5, <1>6, <1>7, UpThree
<1> DEFINE k1 == q12 + p13
           k2 == q21 + p22 + L * p23
           k3 == q30 + p31 + L * p32 + L2 * p33
<1>12. k1 \in Int /\ k2 \in Int /\ k3 \in Int /\ q03 + k1 + k2 + k3 \in Int
  BY <1>1, <1>5, <1>7
<1> HIDE DEF k1, k2, k3
<1>13. W * (q03 + k1 + k2 + k3) = W * q03 + W * k1 + W * k2 + W * k3
  BY <1>1, <1>7, <1>12
<1>14. w0 + L * w1 + L2 * w2 + L3 * w3
         = p00 + L * p01 + L * p10 + L2 * p02 + L2 * p11 + L2 * p20
           + L3 * r03 + L3 * r12 + L3 * r21 + L3 * r30 + W * (q03 + k1 + k2 + k3)
  <2>1. /\ L * p01 \in Int /\ L * p10 \in Int /\ L2 * p02 \in Int /\ L2 * p11 \in Int
        /\ L2 * p20 \in Int /\ L3 * r03 \in Int /\ L3 * r12 \in Int /\ L3 * r21 \in Int
        /\ L3 * r30 \in Int /\ W * q03 \in Int /\ W * k1 \in Int /\ W * k2 \in Int
        /\ W * k3 \in Int
    BY <1>1, <1>5, <1>7, <1>12
  <2> QED
    BY <1>5, <1>8, <1>9, <1>10, <1>11, <1>13, <2>1 DEF k1, k2, k3
<1> QED
  BY <1>4, <1>12, <1>14
     DEF w0, w1, w2, w3, r03, r12, r21, r30, y, p00, p01, p02, p03, p10, p11, p12, p20, p21,
         p30, x0, x1, x2, x3, y0, y1, y2, y3, Spread, LowTerms

LEMMA Weights ==
    ASSUME WordsOfWidth
    PROVE  /\ Weight(0) = 1 /\ Weight(1) = Limb
           /\ Limbs(Limb, Weight(2), Weight(3), Pow2[Width])
           /\ Pow2[Width] = WordSize /\ WordSize \in Nat \ {0}
<1> DEFINE n == Width \div 4
<1>1. n \in Nat /\ Width = ((n + n) + n) + n /\ 0 * n = 0 /\ 1 * n = n /\ 2 * n = n + n
      /\ 3 * n = (n + n) + n
  BY DEF WordsOfWidth
<1> HIDE DEF n
<1>2. Pow2[n + n] = Pow2[n] * Pow2[n]
  BY <1>1, PowerOfSum
<1>3. Pow2[(n + n) + n] = Pow2[n + n] * Pow2[n]
  BY <1>1, PowerOfSum
<1>4. Pow2[((n + n) + n) + n] = Pow2[(n + n) + n] * Pow2[n]
  BY <1>1, PowerOfSum
<1>5. Pow2[n] \in Nat \ {0} /\ Pow2[0] = 1
  BY <1>1, Powers
<1>6. Weight(0) = 1 /\ Weight(1) = Pow2[n] /\ Limb = Pow2[n] /\ Weight(2) = Pow2[n + n]
      /\ Weight(3) = Pow2[(n + n) + n]
  BY <1>1, <1>5 DEF Weight, Limb, n
<1> DEFINE l == Pow2[n]
           l2 == Pow2[n + n]
           l3 == Pow2[(n + n) + n]
           w == Pow2[Width]
<1>7. l \in Nat \ {0} /\ l2 = l * l /\ l3 = l2 * l /\ w = l3 * l
  BY <1>1, <1>2, <1>3, <1>4, <1>5
<1> HIDE DEF l, l2, l3, w
<1>8. Limbs(l, l2, l3, w)
  <2>1. l2 \in Int /\ l3 \in Int /\ w \in Int
    BY <1>7
  <2> QED
    BY <1>7, <2>1 DEF Limbs
<1> QED
  BY <1>6, <1>8, WordSizeAssumption DEF l, l2, l3, w, WordsOfWidth

(* A word is the sum of its limbs, each at its weight.                     *)
LEMMA SumOfLimbs ==
    ASSUME WordsOfWidth, NEW x \in Word
    PROVE  /\ \A i \in 0 .. 3 : LimbOf(x, i) \in Int
           /\ x = LimbOf(x, 0) + Limb * LimbOf(x, 1) + Weight(2) * LimbOf(x, 2)
                   + Weight(3) * LimbOf(x, 3)
<1> DEFINE l == Limb
           l2 == Weight(2)
           l3 == Weight(3)
           w == Pow2[Width]
           q1 == x \div l
           q2 == q1 \div l
           q3 == q2 \div l
           x0 == x % l
           x1 == q1 % l
           x2 == q2 % l
           x3 == q3 % l
<1>1. l \in Nat \ {0} /\ l2 = l * l /\ l3 = l * l2 /\ w = l * l3 /\ w = WordSize
      /\ Weight(0) = 1 /\ Weight(1) = l
  BY Weights DEF Limbs
<1>2. x \in Int /\ x \in 0 .. w - 1
  BY <1>1, WordSizeAssumption DEF Word
<1> HIDE DEF l, l2, l3, w
<1>3. q1 \in Int /\ x0 \in 0 .. l - 1 /\ x = l * q1 + x0
  BY <1>1, <1>2, DivMod
<1> HIDE DEF q1, x0
<1>4. q2 \in Int /\ x1 \in 0 .. l - 1 /\ q1 = l * q2 + x1
  BY <1>1, <1>3, DivMod
<1> HIDE DEF q2, x1
<1>5. q3 \in Int /\ x2 \in 0 .. l - 1 /\ q2 = l * q3 + x2
  BY <1>1, <1>4, DivMod
<1> HIDE DEF q3, x2
<1>6. l2 \in Nat \ {0} /\ l3 \in Nat \ {0} /\ w \in Nat \ {0}
  BY <1>1
<1>7. q2 = x \div l2
  <2>1. (x \div l) \div l = x \div (l * l)
    BY <1>1, <1>2, DivideTwice
  <2> QED
    BY <1>1, <2>1 DEF q1, q2
<1>8. q3 = x \div l3
  <2>1. (x \div l2) \div l = x \div (l2 * l)
    BY <1>1, <1>2, <1>6, DivideTwice
  <2>2. l2 * l = l * l2
    BY <1>1, <1>6
  <2> QED
    BY <1>1, <1>7, <2>1, <2>2 DEF q3
<1>9. q3 \div l = 0
  <2>1. (x \div l3) \div l = x \div (l3 * l)
    BY <1>1, <1>2, <1>6, DivideTwice
  <2>2. l3 * l = w
    BY <1>1, <1>6
  <2>3. x \div w = 0
    <3>1. (w * 0 + x) \div w = 0
      BY <1>2, <1>6, DivUnique
    <3>2. w * 0 + x = x
      BY <1>2, <1>6
    <3> QED
      BY <3>1, <3>2
  <2> QED
    BY <1>8, <2>1, <2>2, <2>3
<1>10. x3 = q3 /\ x3 \in Int
  <2>1. q3 = l * (q3 \div l) + x3 /\ x3 \in 0 .. l - 1
    BY <1>1, <1>5, DivMod
  <2>2. l * 0 = 0
    BY <1>1
  <2> QED
    BY <1>5, <1>9, <2>1, <2>2
<1> HIDE DEF x3
<1>11. x = x0 + l * x1 + l2 * x2 + l3 * x3
  <2>1. l * q1 = l * (l * q2) + l * x1 /\ l * (l * q2) = l2 * q2
    BY <1>1, <1>3, <1>4
  <2>2. l2 * q2 = l2 * (l * q3) + l2 * x2 /\ l2 * (l * q3) = l3 * q3
    BY <1>1, <1>4, <1>5, <1>6
  <2>3. l * x1 \in Int /\ l2 * x2 \in Int /\ l3 * q3 \in Int /\ l2 * q2 \in Int /\ l * q1 \in Int
    BY <1>1, <1>3, <1>4, <1>5, <1>6
  <2> QED
    BY <1>3, <1>10, <2>1, <2>2, <2>3
<1>12. LimbOf(x, 0) = x0 /\ LimbOf(x, 1) = x1 /\ LimbOf(x, 2) = x2 /\ LimbOf(x, 3) = x3
  <2>1. x \div 1 = x
    BY <1>2
  <2>2. LimbOf(x, 0) = x0
    BY <1>1, <2>1 DEF LimbOf, x0, l
  <2>3. LimbOf(x, 1) = x1
    BY <1>1 DEF LimbOf, x1, q1, l
  <2>4. LimbOf(x, 2) = x2
    BY <1>7 DEF LimbOf, x2, l, l2
  <2>5. LimbOf(x, 3) = x3
    BY <1>8 DEF LimbOf, x3, l, l3
  <2> QED
    BY <2>2, <2>3, <2>4, <2>5
<1>13. \A i \in 0 .. 3 : LimbOf(x, i) \in Int
  BY <1>3, <1>4, <1>5, <1>10, <1>12
<1> QED
  BY <1>11, <1>12, <1>13 DEF l, l2, l3

TreeSum(w, r) ==
    (((((r[1] + r[2]) % w) + ((r[3] + r[4]) % w)) % w) + ((((r[5] + r[6]) % w) + r[7]) % w)) % w

RowSum(r) == r[1] + r[2] + r[3] + r[4] + r[5] + r[6] + r[7]

LEMMA AdderTree ==
    ASSUME NEW w \in Nat \ {0}, NEW r, \A i \in 1 .. 7 : r[i] \in Int
    PROVE  TreeSum(w, r) = RowSum(r) % w
<1> DEFINE s1 == r[1] + r[2]
           s2 == r[3] + r[4]
           s3 == r[5] + r[6]
           t1 == s1 + s2
           t2 == s3 + r[7]
<1>1. s1 \in Int /\ s2 \in Int /\ s3 \in Int /\ r[7] \in Int
  OBVIOUS
<1>2. t1 + t2 = RowSum(r)
  BY DEF RowSum
<1> HIDE DEF s1, s2, s3
<1>3. t1 \in Int /\ t2 \in Int
  BY <1>1
<1>4. ((s1 % w) + (s2 % w)) % w = t1 % w /\ ((s3 % w) + r[7]) % w = t2 % w
  BY <1>1, RestOfSum
<1> HIDE DEF t1, t2
<1>5. ((t1 % w) + (t2 % w)) % w = (t1 + t2) % w
  BY <1>3, RestOfSum
<1> QED
  BY <1>2, <1>4, <1>5 DEF s1, s2, s3, TreeSum

(* The multiplier makes the low word of the product.                       *)
LEMMA MulAgrees ==
    ASSUME WordsOfWidth, NEW x \in Word, NEW y \in Word
    PROVE  RtlMul(x, y) = Wrap(x * y)
<1> DEFINE L == Limb
           L2 == Weight(2)
           L3 == Weight(3)
           W == Pow2[Width]
           f == [i \in 0 .. 3 |-> LimbOf(x, i)]
           g == [i \in 0 .. 3 |-> LimbOf(y, i)]
           r == Rows(x, y)
<1>1. Limbs(L, L2, L3, W) /\ W = WordSize /\ WordSize \in Nat \ {0} /\ Weight(1) = L
  BY Weights
<1>2. f \in [0 .. 3 -> Int] /\ x = Spread(f, L, L2, L3)
  BY SumOfLimbs DEF Spread
<1>3. g \in [0 .. 3 -> Int] /\ y = Spread(g, L, L2, L3)
  BY SumOfLimbs DEF Spread
<1>4. r = << (f[1] * g[1]) * L2 + f[0] * g[0],
             ((f[0] * g[3]) % L) * L3 + (f[0] * g[1]) * L,
             ((f[3] * g[0]) % L) * L3 + (f[1] * g[0]) * L,
             (f[0] * g[2]) * L2,
             (f[2] * g[0]) * L2,
             ((f[1] * g[2]) % L) * L3,
             ((f[2] * g[1]) % L) * L3 >>
  <2>1. /\ Product(x, y, 0, 0) = f[0] * g[0] /\ Product(x, y, 1, 1) = f[1] * g[1]
        /\ Product(x, y, 0, 1) = f[0] * g[1] /\ Product(x, y, 1, 0) = f[1] * g[0]
        /\ Product(x, y, 0, 2) = f[0] * g[2] /\ Product(x, y, 2, 0) = f[2] * g[0]
        /\ Product(x, y, 0, 3) = (f[0] * g[3]) % L /\ Product(x, y, 3, 0) = (f[3] * g[0]) % L
        /\ Product(x, y, 1, 2) = (f[1] * g[2]) % L /\ Product(x, y, 2, 1) = (f[2] * g[1]) % L
    BY DEF Product
  <2> HIDE DEF f, g
  <2> QED
    BY <1>1, <2>1 DEF Rows
<1> HIDE DEF f, g, r, L, L2, L3, W
<1>5. PICK k \in Int : x * y = LowTerms(f, g, L, L2, L3) + W * k
  <2>1. Limbs(L, L2, L3, W)
    BY <1>1
  <2> QED
    BY <1>2, <1>3, <2>1, LowWord
<1>6. L \in Nat \ {0} /\ L2 \in Int /\ L3 \in Int /\ W \in Nat \ {0}
  BY <1>1 DEF Limbs
<1>7. RowSum(r) = LowTerms(f, g, L, L2, L3) /\ \A i \in 1 .. 7 : r[i] \in Int
  <2> DEFINE p(i, j) == f[i] * g[j]
  <2>1. /\ p(0, 0) \in Int /\ p(0, 1) \in Int /\ p(1, 0) \in Int /\ p(0, 2) \in Int
        /\ p(1, 1) \in Int /\ p(2, 0) \in Int /\ p(0, 3) \in Int /\ p(1, 2) \in Int
        /\ p(2, 1) \in Int /\ p(3, 0) \in Int
    BY <1>2, <1>3
  <2>2. r = << p(1, 1) * L2 + p(0, 0), (p(0, 3) % L) * L3 + p(0, 1) * L,
               (p(3, 0) % L) * L3 + p(1, 0) * L, p(0, 2) * L2, p(2, 0) * L2,
               (p(1, 2) % L) * L3, (p(2, 1) % L) * L3 >>
    BY <1>4
  <2>3. LowTerms(f, g, L, L2, L3)
          = p(0, 0) + L * p(0, 1) + L * p(1, 0) + L2 * p(0, 2) + L2 * p(1, 1) + L2 * p(2, 0)
            + L3 * (p(0, 3) % L) + L3 * (p(1, 2) % L) + L3 * (p(2, 1) % L) + L3 * (p(3, 0) % L)
    BY DEF LowTerms
  <2> HIDE DEF p
  <2>4. /\ p(0, 3) % L \in Int /\ p(1, 2) % L \in Int /\ p(2, 1) % L \in Int
        /\ p(3, 0) % L \in Int
    BY <1>6, <2>1
  <2>5. /\ r[1] = p(1, 1) * L2 + p(0, 0) /\ r[2] = (p(0, 3) % L) * L3 + p(0, 1) * L
        /\ r[3] = (p(3, 0) % L) * L3 + p(1, 0) * L /\ r[4] = p(0, 2) * L2
        /\ r[5] = p(2, 0) * L2 /\ r[6] = (p(1, 2) % L) * L3 /\ r[7] = (p(2, 1) % L) * L3
    BY <2>2
  <2>6. \A i \in 1 .. 7 : r[i] \in Int
    <3>1. r[1] \in Int /\ r[2] \in Int /\ r[3] \in Int /\ r[4] \in Int /\ r[5] \in Int
          /\ r[6] \in Int /\ r[7] \in Int
      BY <1>6, <2>1, <2>4, <2>5
    <3> QED
      BY <3>1
  <2>7. RowSum(r) = LowTerms(f, g, L, L2, L3)
    BY <1>6, <2>1, <2>3, <2>4, <2>5 DEF RowSum
  <2> QED
    BY <2>6, <2>7
<1>8. RtlMul(x, y) = TreeSum(W, r)
  BY DEF RtlMul, TreeSum, W, r
<1>9. TreeSum(W, r) = RowSum(r) % W
  BY <1>6, <1>7, AdderTree
<1>10. (RowSum(r) + W * k) % W = RowSum(r) % W
  <2>1. RowSum(r) \in Int
    BY <1>7 DEF RowSum
  <2> QED
    BY <1>6, <2>1, SameRest
<1> QED
  BY <1>1, <1>5, <1>7, <1>8, <1>9, <1>10 DEF Wrap

(* The arithmetic shift: the core fills in the sign above what a logical   *)
(* shift leaves, the simulators divide the signed value and round down.    *)
LEMMA SarAgrees ==
    ASSUME WordsOfWidth, NEW x \in Word, NEW n \in 0 .. Width - 1
    PROVE  x \div Pow2[n] + SignBit(x) * (Pow2[Width] - Pow2[Width - n])
             = Wrap(Signed(x) \div Pow2[n])
<1> DEFINE p == Pow2[n]
           q == Pow2[Width - n]
           w == WordSize
           h == HalfWord
           d == x \div p
           r == x % p
<1>1. p \in Nat \ {0} /\ q \in Nat \ {0} /\ w = p * q /\ Pow2[Width] = w /\ w \in Nat \ {0}
  <2>1. n \in Nat /\ Width - n \in Nat /\ n + (Width - n) = Width
    BY DEF WordsOfWidth
  <2>2. Pow2[n + (Width - n)] = Pow2[n] * Pow2[Width - n]
    BY <2>1, PowerOfSum
  <2>3. Pow2[n] \in Nat \ {0} /\ Pow2[Width - n] \in Nat \ {0}
    BY <2>1, Powers
  <2> QED
    BY <2>1, <2>2, <2>3, WordSizeAssumption DEF WordsOfWidth
<1>2. w = 2 * h /\ h \in Nat \ {0} /\ x \in 0 .. w - 1
  BY <1>1, HalvesAssumption DEF HalfWord, Word
<1>3. SignBit(x) = IF 2 * x < w THEN 0 ELSE 1
  <2> HIDE DEF h, w
  <2>1. 2 * x < w => x = h * 0 + x /\ x \in 0 .. h - 1
    BY <1>2
  <2>2. ~(2 * x < w) => x = h * 1 + (x - h) /\ x - h \in 0 .. h - 1
    BY <1>2
  <2>3. \A k \in Int, t \in 0 .. h - 1 : x = h * k + t => x \div h = k
    BY <1>2, DivUnique
  <2>4. x \div h = IF 2 * x < w THEN 0 ELSE 1
    <3>1. 0 \in Int /\ 1 \in Int
      OBVIOUS
    <3> QED
      BY <2>1, <2>2, <2>3, <3>1
  <2> QED
    BY <2>4 DEF SignBit, h, w
<1>4. d \in Int /\ r \in 0 .. p - 1 /\ x = p * d + r
  <2>1. x \in Int
    BY <1>2
  <2> HIDE DEF p
  <2> QED
    BY <1>1, <2>1, DivMod
<1>5. Signed(x) = IF 2 * x < w THEN x ELSE x - w
  BY DEF Signed
<1> HIDE DEF p, q, w, h, d, r
<1>6. d \in 0 .. q - 1 /\ q <= w
  <2>1. p * d < p * q /\ p * d >= 0 - r /\ r < p
    BY <1>1, <1>2, <1>4
  <2>2. d >= q => p * d >= p * q
    BY <1>1, <1>4
  <2>3. d <= -1 => p * d <= -p
    BY <1>1, <1>4
  <2>4. p * q >= q
    BY <1>1
  <2> QED
    BY <1>1, <1>4, <2>1, <2>2, <2>3, <2>4
<1>7. CASE 2 * x < w
  <2>1. Wrap(d) = d
    BY <1>1, <1>6 DEF Wrap, w
  <2>2. Signed(x) \div p = d
    BY <1>5, <1>7 DEF d
  <2>3. SignBit(x) * (w - q) = 0
    BY <1>1, <1>3, <1>7
  <2>4. d + 0 = d
    BY <1>4
  <2> QED
    BY <1>1, <2>1, <2>2, <2>3, <2>4 DEF d, p, q
<1>8. CASE ~(2 * x < w)
  <2>1. x - w = p * (d - q) + r /\ d - q \in Int
    BY <1>1, <1>4
  <2>2. (p * (d - q) + r) \div p = d - q
    BY <1>1, <1>4, <2>1, DivUnique
  <2>3. Signed(x) \div p = d - q
    BY <1>5, <1>8, <2>1, <2>2
  <2>4. (d - q) % w = d - q + w
    <3>1. d - q = w * (-1) + (d - q + w) /\ d - q + w \in 0 .. w - 1 /\ -1 \in Int
      BY <1>1, <1>6
    <3>2. (w * (-1) + (d - q + w)) % w = d - q + w
      BY <1>1, <3>1, DivUnique
    <3> QED
      BY <3>1, <3>2
  <2>5. d + SignBit(x) * (w - q) = d - q + w
    BY <1>1, <1>3, <1>4, <1>8
  <2> QED
    BY <1>1, <2>3, <2>4, <2>5 DEF d, p, q, w, Wrap
<1> QED
  BY <1>7, <1>8

(* The ALU and the multiplier of the core give the simulators' results for *)
(* every pair of words: shift counts are cut alike, sar fills with the     *)
(* sign, and the products vea_mul leaves out never reach the low word.     *)
THEOREM ResultsAgreeAlways == ASSUME WordsOfWidth PROVE Spec => []ResultsAgree
<1>1. ASSUME NEW x \in Word, NEW y \in Word
      PROVE  /\ \A fn \in {"add", "sub", "and", "or", "xor", "shl", "shr", "sar"} :
                   RtlAlu(fn, x, y) = SimAlu(fn, x, y)
             /\ RtlMul(x, y) = SimAlu("mul", x, y)
  <2>1. Pow2[Width] = WordSize
    BY DEF WordsOfWidth
  <2>2. Shift(y) \in 0 .. Width - 1
    <3>1. Width \in Nat \ {0}
      <4>1. Pow2[0] = 1
        BY Powers
      <4> QED
        BY <2>1, <4>1, HalvesAssumption DEF WordsOfWidth
    <3>2. y \in Int
      BY WordSizeAssumption DEF Word
    <3> QED
      BY <3>1, <3>2 DEF Shift
  <2>3. RtlAlu("sar", x, y) = SimAlu("sar", x, y)
    BY <2>2, SarAgrees DEF RtlAlu, SimAlu
  <2>4. RtlAlu("add", x, y) = SimAlu("add", x, y) /\ RtlAlu("sub", x, y) = SimAlu("sub", x, y)
        /\ RtlAlu("shl", x, y) = SimAlu("shl", x, y)
    BY <2>1 DEF RtlAlu, SimAlu, Wrap
  <2>5. RtlAlu("and", x, y) = SimAlu("and", x, y) /\ RtlAlu("or", x, y) = SimAlu("or", x, y)
        /\ RtlAlu("xor", x, y) = SimAlu("xor", x, y) /\ RtlAlu("shr", x, y) = SimAlu("shr", x, y)
    BY DEF RtlAlu, SimAlu
  <2>6. RtlMul(x, y) = SimAlu("mul", x, y)
    BY MulAgrees DEF SimAlu
  <2> QED
    BY <2>3, <2>4, <2>5, <2>6
<1>2. a \in Word /\ b \in Word => ResultsAgree
  BY <1>1 DEF ResultsAgree
<1> QED
  BY <1>2, TwoWords, PTL
=============================================================================
