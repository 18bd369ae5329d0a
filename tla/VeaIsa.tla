------------------------------- MODULE VeaIsa -------------------------------
(***************************************************************************)
(* The part of the VEA instruction set that every implementation in the    *)
(* repository shares: frames, operands and branch targets.                 *)
(*                                                                         *)
(* The machine is scaled down.  A register is one byte wide, so Word is at *)
(* once a byte of memory, a register value and an address; all arithmetic  *)
(* on words wraps, as u64 arithmetic does in a release build.  The opcode, *)
(* opinfo and register-name bytes of an instruction are packed into its    *)
(* first byte, which the constant table Insn decodes; the immediate        *)
(* payload follows it byte by byte, big end first, as in the real frame.   *)
(***************************************************************************)
EXTENDS VeaWord

CONSTANTS
    Align,      \* ALIGNMENT, the granule of instruction addresses
    PageSize,   \* bytes per page of simulated memory
    NumRegs,    \* NUM_REGS
    MaxBytes,   \* MAX_INSN_BYTES, the bytes Fetch pulls at once
    Insn,       \* Insn[b]: the instruction head that byte b encodes
    Alu         \* Alu[<<fn, a, b>>]: the ALU table, Undefined where it faults

Regs == 0 .. NumRegs - 1
Page == 0 .. (WordSize - 1) \div PageSize

Undefined == -1
AluFn == {"add", "sub", "and", "or", "xor", "shl", "shr", "sar", "mul", "div"}
Ops == {"nop", "halt", "mov", "not", "cmp", "alu", "branch", "jmp", "ld", "st",
        "trap", "illegal"}

(* op and fn: the opcode, and its ALU operation, predicate or signedness   *)
(* ("" where it has none, or a predicate field that names none);           *)
(* len: the length nibble; imm: the immediate flag; rd, rs, src: the three *)
(* register-name bytes, which may name no register.                        *)
Fn == AluFn \cup Predicates \cup {"signed", "unsigned", ""}
Head == [op : Ops, fn : Fn, len : Nat, imm : BOOLEAN, rd : Nat, rs : Nat, src : Nat]

ASSUME SizesAssumption ==
    /\ Align \in Nat \ {0}
    /\ PageSize \in Nat \ {0}
    /\ NumRegs \in Nat \ {0}
    /\ MaxBytes \in Nat \ {0, 1}   \* a head and an immediate byte
    /\ WordSize % Align = 0

ASSUME InsnAssumption ==
    /\ Insn \in [Word -> Head]
    /\ \A b \in Word : Insn[b].op = "alu" => Insn[b].fn \in AluFn

ASSUME AluAssumption == Alu \in [AluFn \X Word \X Word -> Word \cup {Undefined}]
-----------------------------------------------------------------------------
(* isa::align_up: both additions wrap at the word size. *)
AlignUp(v) == (Wrap(v + Align - 1) \div Align) * Align

PageOf(a) == a \div PageSize

(* The MAX_INSN_BYTES bytes at address a, wrapping at the top; a byte of a *)
(* page without storage is zero in m already.                              *)
FrameAt(m, a) == [k \in 0 .. MaxBytes - 1 |-> m[Wrap(a + k)]]

HeadOf(f) == Insn[f[0]]
-----------------------------------------------------------------------------
(* The packed head is one byte, and a register holds one immediate byte.   *)
HeadBytes == 1
MaxImm == 1

(* isa::imm_len: what the length nibble leaves after the head. *)
ImmLen(h) == IF h.len > HeadBytes THEN h.len - HeadBytes ELSE 0

HasOperand(h) == h.op \in {"mov", "not", "cmp", "alu", "ld", "st", "branch", "jmp"}
HasImm(h) == h.op = "trap" \/ (HasOperand(h) /\ h.imm)
IsBranch(h) == h.op \in {"branch", "jmp"}

(* The named registers an instruction checks with reg_at, and the register *)
(* its trailing source operand names.  A branch reads its only register    *)
(* operand from the first name byte.                                       *)
Checked(h) ==
    CASE h.op \in {"mov", "not", "cmp"}      -> {h.rd}
      [] h.op \in {"alu", "ld", "st"}        -> {h.rd, h.rs}
      [] IsBranch(h) /\ ~h.imm               -> {h.rd}
      [] OTHER                               -> {}

Trailing(h) == IF HasOperand(h) /\ ~IsBranch(h) /\ ~h.imm THEN {h.src} ELSE {}

Aligned(t) == t % Align = 0
=============================================================================
