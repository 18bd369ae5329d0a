----------------------------- MODULE MCConform -----------------------------
(* Every four-slot program over an alphabet of slots, under a limit that a  *)
(* straight-line program just meets and one that only loops exceed.         *)
EXTENDS Conform, MCMachine

Broad == { <<1, 0>>, <<2, 0>>, <<3, 1>>, <<3, 14>>, <<4, 0>>, <<5, 0>>, <<6, 14>>,
           <<6, 3>>, <<7, 0>>, <<8, 0>>, <<9, 4>>, <<10, 0>>, <<13, 0>>, <<14, 0>> }
BroadImages == Programs(Broad)
=============================================================================
