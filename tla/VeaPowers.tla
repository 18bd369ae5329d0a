----------------------------- MODULE VeaPowers -----------------------------
(***************************************************************************)
(* Powers of two as a recursive function, about which one can prove what   *)
(* one cannot about x ^ y.                                                 *)
(***************************************************************************)
EXTENDS Integers

Pow2[n \in Nat] == IF n = 0 THEN 1 ELSE 2 * Pow2[n - 1]
=============================================================================
