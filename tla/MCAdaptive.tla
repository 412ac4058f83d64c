----------------------------- MODULE MCAdaptive -----------------------------
(***************************************************************************)
(* AdaptiveScheduler on a small instance: the items are model values.      *)
(***************************************************************************)
EXTENDS AdaptiveScheduler

CONSTANTS i1, i2

=============================================================================
