------------------------------- MODULE VeaAlu -------------------------------
(***************************************************************************)
(* The arithmetic of the two implementations, side by side: the table both *)
(* simulators use (onestep alu, copied in nstep execute), and the core's   *)
(* datapath (core/alu.sv, core/mul.sv).                                    *)
(***************************************************************************)
EXTENDS VeaFlags, VeaPowers, FiniteSetsExt

CONSTANT Width   \* bits of a word; a multiple of four, as mul.sv splits it in limbs

WordsOfWidth == Width \in Nat /\ Width % 4 = 0 /\ WordSize = Pow2[Width]

Undefined == -1

(* Both sides use the low bits of the count; Width is a power of two here. *)
Shift(b) == b % Width

(* A word as the set of its one bits, for the bitwise operations. *)
Ones(x) == { i \in 0 .. Width - 1 : (x \div Pow2[i]) % 2 = 1 }

OfOnes(bits) == MapThenSumSet(LAMBDA i : Pow2[i], bits)

And(a, b) == OfOnes(Ones(a) \cap Ones(b))
Or(a, b)  == OfOnes(Ones(a) \cup Ones(b))
Xor(a, b) == OfOnes((Ones(a) \ Ones(b)) \cup (Ones(b) \ Ones(a)))

Abs(x) == IF x < 0 THEN -x ELSE x

(* wrapping_div truncates towards zero, and MIN / -1 wraps to MIN. *)
Quotient(a, b) ==
    LET q == Abs(Signed(a)) \div Abs(Signed(b))
    IN Wrap(IF (Signed(a) < 0) # (Signed(b) < 0) THEN -q ELSE q)

SimAlu(fn, a, b) ==
    CASE fn = "add" -> Wrap(a + b)
      [] fn = "sub" -> Wrap(a - b)
      [] fn = "and" -> And(a, b)
      [] fn = "or"  -> Or(a, b)
      [] fn = "xor" -> Xor(a, b)
      [] fn = "shl" -> Wrap(a * Pow2[Shift(b)])
      [] fn = "shr" -> a \div Pow2[Shift(b)]
      [] fn = "sar" -> Wrap(Signed(a) \div Pow2[Shift(b)])
      [] fn = "mul" -> Wrap(a * b)
      [] fn = "div" -> IF b = 0 THEN Undefined ELSE Quotient(a, b)
-----------------------------------------------------------------------------
(* core/alu.sv.  DIV has no silicon. *)
RtlAlu(fn, a, b) ==
    CASE fn = "add" -> (a + b) % Pow2[Width]
      [] fn = "sub" -> (a - b) % Pow2[Width]
      [] fn = "and" -> And(a, b)
      [] fn = "or"  -> Or(a, b)
      [] fn = "xor" -> Xor(a, b)
      [] fn = "shl" -> (a * Pow2[Shift(b)]) % Pow2[Width]
      [] fn = "shr" -> a \div Pow2[Shift(b)]
      [] fn = "sar" -> a \div Pow2[Shift(b)]
                       + SignBit(a) * (Pow2[Width] - Pow2[Width - Shift(b)])
-----------------------------------------------------------------------------
(* core/mul.sv: four limbs a side, the ten products of weight below the    *)
(* word, those of the top weight cut to one limb, packed in seven rows.    *)
Weight(i) == Pow2[i * (Width \div 4)]

Limb == Weight(1)

LimbOf(x, i) == (x \div Weight(i)) % Limb

Product(a, b, i, j) ==
    LET p == LimbOf(a, i) * LimbOf(b, j) IN IF i + j = 3 THEN p % Limb ELSE p

Rows_NoP03(a, b) ==
    LET p(i, j) == Product(a, b, i, j) IN
    << p(1, 1) * Weight(2) + p(0, 0), p(0, 1) * Weight(1), p(3, 0) * Weight(3) + p(1, 0) * Weight(1),
       p(0, 2) * Weight(2), p(2, 0) * Weight(2), p(1, 2) * Weight(3), p(2, 1) * Weight(3) >>

Rows(a, b) ==
    LET p(i, j) == Product(a, b, i, j) IN
    << p(1, 1) * Weight(2) + p(0, 0),
       p(0, 3) * Weight(3) + p(0, 1) * Weight(1),
       p(3, 0) * Weight(3) + p(1, 0) * Weight(1),
       p(0, 2) * Weight(2),
       p(2, 0) * Weight(2),
       p(1, 2) * Weight(3),
       p(2, 1) * Weight(3) >>

RtlMul(a, b) ==
    LET r == Rows(a, b)
        Add(x, y) == (x + y) % Pow2[Width]
    IN Add(Add(Add(r[1], r[2]), Add(r[3], r[4])), Add(Add(r[5], r[6]), r[7]))
=============================================================================
