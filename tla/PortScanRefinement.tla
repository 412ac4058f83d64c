------------------------- MODULE PortScanRefinement -------------------------
(***************************************************************************)
(* PortScanScheduler implements PortScanContract.  A pair's verdict is the *)
(* state of its first published result; the scan has ended once run() has  *)
(* returned, or the scheduler is destroyed because submit() failed.        *)
(***************************************************************************)
EXTENDS PortScanScheduler

VerdictOf(p) == IF results[p] = <<>> THEN NoState ELSE results[p][1].state

Outcome ==
  IF engine \notin {"returned", "destroyed"} THEN "none"
  ELSE IF status = "Ok" THEN "complete" ELSE "failed"

Contract == INSTANCE PortScanContract WITH
  Verdicts <- PortState, None <- NoState,
  verdict <- [p \in Work |-> VerdictOf(p)], outcome <- Outcome

(***************************************************************************)
(* Every behaviour of the scheduler keeps the contract: at most one final  *)
(* verdict per pair, none after the end, and a scan that ends with status  *)
(* Ok has a verdict on every pair.                                         *)
(***************************************************************************)
KeepsContract == Contract!Spec

=============================================================================
