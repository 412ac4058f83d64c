----------------------------- MODULE MCPortScan -----------------------------
(***************************************************************************)
(* PortScanScheduler and its refinement on small instances: pairs are      *)
(* model values and may be permuted.                                       *)
(***************************************************************************)
EXTENDS PortScanRefinement, TLC

CONSTANTS p1, p2, p3

Pairs == Permutations(Work)

=============================================================================
