------------------------------ MODULE VeaFrame ------------------------------
(***************************************************************************)
(* Instruction frames byte by byte: opcode, opinfo (the length nibble over *)
(* the flags), register names and immediate payload, with whatever follows *)
(* the instruction in memory behind them.  Both decoders read these.       *)
(***************************************************************************)
EXTENDS VeaWord

CONSTANT NumRegs   \* NUM_REGS, a power of two

ASSUME NumRegsAssumption == NumRegs \in Nat \ {0}

MaxInsnBytes == 13

Byte == 0 .. 255

Frame == [0 .. MaxInsnBytes - 1 -> Byte]

Opcode(f) == f[0]
LenOf(f) == f[1] \div 16
FlagBits(f) == f[1] % 16
FlagBit(f, i) == (f[1] \div 2 ^ i) % 2 = 1

RegNums == 0 .. NumRegs - 1

AluFn == {"add", "sub", "and", "or", "not", "xor", "shl", "shr", "sar", "mul", "div"}

(* The operation in the low nibble of an ALU opcode. *)
AluOfNibble ==
    <<"add", "sub", "and", "or", "not", "xor", "shl", "shr", "sar", "mul", "div">>

(* The predicates by their encoding; the eighth is not defined. *)
PredOfBits == <<"always", "eq", "ne", "lt", "ge", "gt", "le", "undefined">>
=============================================================================
