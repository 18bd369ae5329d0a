------------------------------- MODULE MCNstep -------------------------------
(* Every four-slot program over an alphabet of slots chosen per run.        *)
EXTENDS NstepRefines, MCMachine

(* Assembled code - arithmetic, flags, loops, far and misaligned jumps,     *)
(* loads, stores into code, data and a new page - and frames that fault in  *)
(* Decode or Execute or take Decode down.                                   *)
Broad == { <<1, 0>>, <<2, 0>>, <<3, 1>>, <<3, 6>>, <<4, 0>>, <<5, 0>>, <<6, 14>>,
           <<6, 3>>, <<7, 0>>, <<8, 0>>, <<8, 7>>, <<9, 4>>, <<10, 0>>, <<11, 0>>,
           <<13, 0>>, <<15, 0>> }
BroadImages == Programs(Broad)

(* Enough for straight code, taken and untaken loops, a halt and a fault.   *)
Short == { <<2, 0>>, <<3, 6>>, <<5, 0>>, <<6, 14>>, <<7, 0>>, <<10, 0>> }
ShortImages == Programs(Short)

(* An over-long immediate, which no assembled program contains.             *)
LongImmediate == Image(<< <<14, 1>>, <<2, 0>>, <<2, 0>>, <<2, 0>> >>)

(* A source operand that names no register.                                 *)
GarbageSource == Image(<< <<13, 0>>, <<2, 0>>, <<2, 0>>, <<2, 0>> >>)

UncheckedImages == {LongImmediate, GarbageSource}
=============================================================================
