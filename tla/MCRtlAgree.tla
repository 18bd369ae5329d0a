----------------------------- MODULE MCRtlAgree -----------------------------
(* Every pair of bytes; a register name in range, one past the last         *)
(* register, and a byte with its sign bit set.                              *)
EXTENDS RtlAgree

(* The words have the width the proofs about the ALU ask for.               *)
ASSUME WidthAssumption == WordsOfWidth

MCSampleBytes == {5, 32, 200}
=============================================================================
