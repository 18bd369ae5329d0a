----------------------------- MODULE MCSession -----------------------------
(***************************************************************************)
(* Two pages of two bytes: the load address makes an image straddle them,  *)
(* one image does not fit, and a cycle may store across the boundary or    *)
(* off the top.                                                            *)
(***************************************************************************)
EXTENDS UiSession

MCImages == {<<1>>, <<1, 0>>, <<1, 1, 1, 1>>}
=============================================================================
