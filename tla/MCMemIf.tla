------------------------------ MODULE MCMemIf ------------------------------
(* Four bytes of two bits and a register of four bytes: accesses of every   *)
(* size at every address, wrapping at the top, over four distinct bytes.    *)
EXTENDS MemIf

Bytes(a, b, c, d) == [i \in 1 .. 8 |-> (<<a, b, c, d>>[(i + 1) \div 2] \div (IF i % 2 = 1 THEN 2 ELSE 1)) % 2]

MCWData == {Bytes(2, 0, 1, 3)}

MCMemories == {[a \in 0 .. 3 |-> Bits(a, 2)]}
=============================================================================
