------------------------------- MODULE MCFetch -------------------------------
(* Three word addresses and every program over three lengths: a frame of    *)
(* one word, one of two that is not a whole number of words, so that the    *)
(* fetch rounds up and wraps at the top, and one of bad length.             *)
EXTENDS VeaFetch

MCLens == {1, 4, 5}
=============================================================================
