------------------------------ MODULE VeaBits ------------------------------
(***************************************************************************)
(* Registers as strings of bits, most significant bit first, and what the  *)
(* shift registers of core/mem_if.sv and of the memory behind it do to     *)
(* them.                                                                   *)
(***************************************************************************)
EXTENDS Integers, Sequences, VeaPowers

Bit == {0, 1}
Zeros(w) == [i \in 1 .. w |-> 0]

(* The w-bit slice of a number, and the number a string of bits stands for. *)
Bits(n, w) == [i \in 1 .. w |-> (n \div Pow2[w - i]) % 2]
Value(b) == CHOOSE n \in 0 .. Pow2[Len(b)] - 1 : Bits(n, Len(b)) = b

(* {b, bit} without its first bit, and b << n.                             *)
ShiftIn(b, bit) == [i \in 1 .. Len(b) |-> IF i < Len(b) THEN b[i + 1] ELSE bit]
Shl(b, n) == [i \in 1 .. Len(b) |-> IF i + n <= Len(b) THEN b[i + n] ELSE 0]
=============================================================================
