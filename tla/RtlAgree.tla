------------------------------ MODULE RtlAgree ------------------------------
(***************************************************************************)
(* The core's combinational logic computes what the simulators compute.  A *)
(* state is two words, which every property reads its own way: as the      *)
(* operands of the datapath, and as the opcode and the opinfo of a frame.  *)
(* In a frame the three bytes that may name a register or start an         *)
(* immediate range over SampleBytes, and the bytes behind them are all     *)
(* different.                                                              *)
(***************************************************************************)
EXTENDS VeaAlu, VeaDecode, SimDecode

CONSTANT SampleBytes   \* values of bytes 2, 3 and 4 of a frame

ASSUME SampleBytesAssumption == SampleBytes \subseteq Byte

VARIABLES a, b

Init == a \in Word /\ b = 0

Next == b' = Wrap(b + 1) /\ UNCHANGED a

Spec == Init /\ [][Next]_<<a, b>>
-----------------------------------------------------------------------------
(* CMP and CMP_S set the simulators' flags, overflow included, although    *)
(* the core keeps only the sign of the difference.                         *)
FlagsAgree ==
    \A sign \in {"signed", "unsigned"} : RtlFlags(a, b, sign) = Compare(a, b, sign)

(* A compare and a branch mean what their names say, in both signednesses: *)
(* the predicate reads the flags as the order of the operands, at the      *)
(* overflow boundary too.                                                  *)
BranchMeansOrder ==
    \A sign \in {"signed", "unsigned"} :
        LET x == IF sign = "signed" THEN Signed(a) ELSE a
            y == IF sign = "signed" THEN Signed(b) ELSE b
            f == RtlFlags(a, b, sign)
        IN /\ BranchTaken("eq", f) <=> x = y
           /\ BranchTaken("ne", f) <=> x # y
           /\ BranchTaken("lt", f) <=> x < y
           /\ BranchTaken("ge", f) <=> x >= y
           /\ BranchTaken("gt", f) <=> x > y
           /\ BranchTaken("le", f) <=> x <= y
           /\ \A p \in Predicates : BranchTaken(p, f) = Predicate(p, Compare(a, b, sign))

(* Every ALU operation with silicon gives the simulators' result.  Shift   *)
(* counts are cut alike and SAR fills with the sign; the ten limb products *)
(* vea_mul makes are enough: the six it leaves out, and the high halves it *)
(* cuts, never reach the low word (mul.sv:6-8).                            *)
ResultsAgree ==
    /\ \A fn \in {"add", "sub", "and", "or", "xor", "shl", "shr", "sar"} :
           RtlAlu(fn, a, b) = SimAlu(fn, a, b)
    /\ RtlMul(a, b) = SimAlu("mul", a, b)
-----------------------------------------------------------------------------
Frames ==
    { [k \in 0 .. MaxInsnBytes - 1 |->
         CASE k = 0 -> a [] k = 1 -> b [] k = 2 -> s[1] [] k = 3 -> s[2]
           [] k = 4 -> s[3] [] OTHER -> 19 * k] : s \in SampleBytes \X SampleBytes \X SampleBytes }

BadLen(f) == LenOf(f) < 2

(* Lengths no format has are left out: the simulator does not look at the  *)
(* length of a register form.                                              *)
SameFault(f) == LenOf(f) \in 2 .. 12 => (Illegal(f, BadLen(f)) <=> SimIllegal(f))

SameImm(f) == IsImm(f) => imm_form(f) /\ Imm(f) = SimImm(f)

SameKind(f) ==
    LET op == Opcode(f)
        d == Stage1(f, 0, BadLen(f))
    IN /\ d.wr_en <=> op \in ({1, 20, 64} \cup Binary)
       /\ d.is_load <=> op = 64
       /\ d.is_store <=> op = 65
       /\ d.is_bj <=> op \in Branch
       /\ d.is_b <=> op = 48
       /\ d.is_trap <=> op = Trap
       /\ d.is_halt <=> op = Halt
       /\ HasOperand(f) => (d.imm_form <=> IsImm(f))
       /\ d.alu_op \in {"cmp", "cmp_s"} <=> op \in {32, 33}

(* On every opcode, flag and length the decoder and the simulator read a   *)
(* frame alike.  They refuse the same frames: a group test that is true of *)
(* undefined opcodes never lets one through, and a byte no operand uses    *)
(* never raises a fault (decode.sv:148-150, 287-288).  A legal frame is    *)
(* one kind of instruction only, with the operand form the simulator runs  *)
(* it in, and the shifter leaves nothing of the bytes behind the payload   *)
(* in its immediate (decode.sv:221-224, 247-249).                          *)
DecodeAgrees ==
    {a, b} \subseteq Byte =>
    \A f \in Frames :
        /\ SameFault(f)
        /\ ~Illegal(f, BadLen(f)) => SameImm(f) /\ SameKind(f)
=============================================================================
