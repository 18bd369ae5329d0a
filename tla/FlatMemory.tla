----------------------------- MODULE FlatMemory -----------------------------
(***************************************************************************)
(* What simulated memory promises (the head comment of                     *)
(* src/vea_sim/src/memory.rs): one byte at every address, zero until it is *)
(* written, and a set of pages that count as mapped.  Nothing is said of   *)
(* how the bytes are stored.                                               *)
(***************************************************************************)
EXTENDS Naturals, Sequences

CONSTANTS
    MaxAddr, PageSize,
    Blocks      \* the byte sequences ever written or loaded

VARIABLES bytes, mapped

flat == <<bytes, mapped>>

Addr == 0 .. MaxAddr

Touched(a, image) == { (a + i - 1) \div PageSize : i \in DOMAIN image }

(* The image at address a over what is there.                              *)
Over(m, a, image) ==
    [x \in Addr |-> IF x >= a /\ x < a + Len(image) THEN image[x - a + 1] ELSE m[x]]

Zero == [x \in Addr |-> 0]

Init == bytes = Zero /\ mapped = {}

(* A write or a load, all of it inside the address space. *)
Put(a, image) ==
    /\ a + Len(image) <= MaxAddr + 1
    /\ bytes' = Over(bytes, a, image)
    /\ mapped' = mapped \cup Touched(a, image)

Clear == bytes' = Zero /\ mapped' = {}

(* A fresh start: nothing but the image.                                   *)
Replace(a, image) ==
    /\ a + Len(image) <= MaxAddr + 1
    /\ bytes' = Over(Zero, a, image)
    /\ mapped' = Touched(a, image)

Next ==
    \/ \E a \in Addr, image \in Blocks : Put(a, image) \/ Replace(a, image)
    \/ Clear

Spec == Init /\ [][Next]_flat
=============================================================================
