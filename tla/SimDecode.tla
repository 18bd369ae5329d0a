----------------------------- MODULE SimDecode -----------------------------
(***************************************************************************)
(* How the simulator reads a frame: src/vea_sim/src/onestep/mod.rs, which  *)
(* walks the operands of each instruction form and stops at the first that *)
(* is wrong.                                                               *)
(***************************************************************************)
EXTENDS VeaFrame

Unary == {1, 20, 32, 33}                       \* mov, not, cmp, cmp.s
Binary == (16 .. 26) \ {20}                    \* add .. div
Mem == {64, 65}                                \* ld, st
Branch == {48, 49}                             \* b, jmp
Nop == 0
Trap == 254
Halt == 255

(* Where the last operand starts, which is also the head imm_len takes.    *)
OperandAt(f) ==
    CASE Opcode(f) \in Branch \cup {Trap} -> 2
      [] Opcode(f) \in Unary              -> 3
      [] OTHER                            -> 4

HasOperand(f) == Opcode(f) \in Unary \cup Binary \cup Mem \cup Branch

IsImm(f) ==
    CASE Opcode(f) \in Branch -> FlagBit(f, 3)
      [] Opcode(f) = Trap     -> TRUE
      [] OTHER                -> HasOperand(f) /\ FlagBit(f, 0)

(* isa::imm_len *)
ImmLen(f) == IF LenOf(f) > OperandAt(f) THEN LenOf(f) - OperandAt(f) ELSE 0

(* fetch_imm: the payload widened to eight bytes with its sign. *)
SimImm(f) ==
    LET n == ImmLen(f)
        sign == IF n > 0 /\ f[OperandAt(f)] >= 128 THEN 255 ELSE 0
    IN [i \in 1 .. 8 |-> IF i > 8 - n THEN f[OperandAt(f) + n - 9 + i] ELSE sign]

(* The bytes reg_at reads. *)
RegBytes(f) ==
    (IF Opcode(f) \in Unary \cup Binary \cup Mem THEN 2 .. OperandAt(f) - 1 ELSE {})
        \cup (IF HasOperand(f) /\ ~IsImm(f) THEN {OperandAt(f)} ELSE {})

(* A frame on which tick returns Err before it has looked at any value.    *)
SimIllegal(f) ==
    \/ Opcode(f) \notin Unary \cup Binary \cup Mem \cup Branch \cup {Nop, Trap, Halt}
    \/ \E k \in RegBytes(f) : f[k] >= NumRegs
    \/ IsImm(f) /\ ImmLen(f) > 8
    \/ Opcode(f) = 48 /\ FlagBits(f) % 8 = 7

(* The length tick advances by, before it rounds up to ALIGNMENT. *)
SimConsumed(f) ==
    IF HasOperand(f) THEN OperandAt(f) + (IF IsImm(f) THEN ImmLen(f) ELSE 1) ELSE 2

SimWords(f) == (SimConsumed(f) + 3) \div 4

(* A frame whose length nibble is the length of its own format, as the     *)
(* assembler writes them.                                                  *)
WellFormed(f) ==
    /\ LenOf(f) \in 2 .. 12
    /\ (LenOf(f) + 3) \div 4 = SimWords(f)
=============================================================================
