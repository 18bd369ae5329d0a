------------------------------ MODULE VeaWord ------------------------------
(***************************************************************************)
(* Words and flags: 64-bit two's complement arithmetic scaled to WordSize  *)
(* values, the condition codes a compare sets and the predicates a branch  *)
(* reads them with.                                                        *)
(***************************************************************************)
EXTENDS Integers

CONSTANT WordSize   \* number of word values (2^64)

ASSUME WordSizeAssumption == WordSize \in Nat \ {0}

Word == 0 .. WordSize - 1

Wrap(x) == x % WordSize

(* The value of a word read as a two's complement number. *)
Signed(x) == IF 2 * x < WordSize THEN x ELSE x - WordSize

Complement(x) == WordSize - 1 - x

(* Eight bytes, big end first, as a word. *)
ValueOf(q) ==
    LET Shift8(v, b) == Wrap(v * 256 + b)
        High == Shift8(Shift8(Shift8(Shift8(0, q[1]), q[2]), q[3]), q[4])
    IN Shift8(Shift8(Shift8(Shift8(High, q[5]), q[6]), q[7]), q[8])

Flags == [z : BOOLEAN, n : BOOLEAN, c : BOOLEAN, v : BOOLEAN]

(* The flags of a - b: the borrow in n for cmp, sign and overflow for cmp.s. *)
Compare(a, b, sign) ==
    LET diff == Signed(a) - Signed(b) IN
    [ z |-> a = b,
      n |-> IF sign = "signed" THEN Signed(Wrap(diff)) < 0 ELSE a < b,
      c |-> a >= b,
      v |-> sign = "signed" /\ Signed(Wrap(diff)) # diff ]

Predicates == {"always", "eq", "ne", "lt", "ge", "gt", "le"}

Predicate(p, f) ==
    CASE p = "always" -> TRUE
      [] p = "eq"     -> f.z
      [] p = "ne"     -> ~f.z
      [] p = "lt"     -> f.n # f.v
      [] p = "ge"     -> f.n = f.v
      [] p = "gt"     -> ~f.z /\ f.n = f.v
      [] p = "le"     -> f.z \/ f.n # f.v
      [] OTHER        -> FALSE
=============================================================================
