------------------------------ MODULE VeaFlags ------------------------------
(***************************************************************************)
(* The core's compare flags (core/alu.sv) and the predicate mux that reads *)
(* them (core/execute.sv), for words of any width.                         *)
(***************************************************************************)
EXTENDS VeaWord

ASSUME HalvesAssumption == WordSize % 2 = 0

HalfWord == WordSize \div 2

(* The top bit. *)
SignBit(x) == x \div HalfWord

(* The subtractor of CMP_S keeps only the sign of the wrapped difference. *)
DiffSign(a, b) == SignBit(Wrap(a - b))

SubOverflow_AnyBorrow(a, b) == DiffSign(a, b) # SignBit(a)

SubOverflow(a, b) == SignBit(a) # SignBit(b) /\ DiffSign(a, b) # SignBit(a)

RtlFlags(a, b, sign) ==
    [ z |-> a = b,
      n |-> IF sign = "signed" THEN DiffSign(a, b) = 1 ELSE a < b,
      c |-> a >= b,
      v |-> sign = "signed" /\ SubOverflow(a, b) ]

(* execute.sv folds neg and overflow into one less-than wire. *)
BranchTaken_NoZero(p, f) ==
    LET lt == f.n # f.v IN
    CASE p = "gt" -> ~lt [] p = "le" -> lt [] OTHER -> Predicate(p, f)

BranchTaken(p, f) ==
    LET lt == f.n # f.v IN
    CASE p = "always" -> TRUE
      [] p = "eq"     -> f.z
      [] p = "ne"     -> ~f.z
      [] p = "lt"     -> lt
      [] p = "ge"     -> ~lt
      [] p = "gt"     -> ~f.z /\ ~lt
      [] p = "le"     -> f.z \/ lt
=============================================================================
