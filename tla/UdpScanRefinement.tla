------------------------- MODULE UdpScanRefinement -------------------------
(***************************************************************************)
(* UdpScan implements PortScanContract, like the TCP scan.  A pair's       *)
(* verdict is the state of its first result; the scan has ended once run() *)
(* has returned, or the stage gives up because open() or submit() failed   *)
(* (UdpScanStage::start() in src/orchestrator/scan_stage.cpp).             *)
(***************************************************************************)
EXTENDS UdpScan

NoVerdict == "none"

VerdictOf(w) == IF results[w] = <<>> THEN NoVerdict ELSE results[w][1].state

(***************************************************************************)
(* A scheduler that is destroyed without any result had no transport.      *)
(***************************************************************************)
Unopened == phase = "destroyed" /\ \A w \in Work : results[w] = <<>>

Outcome ==
  IF phase \notin {"returned", "destroyed"} THEN "none"
  ELSE IF status = "Ok" /\ ~Unopened THEN "complete" ELSE "failed"

Contract == INSTANCE PortScanContract WITH
  Verdicts <- PortState, None <- NoVerdict,
  verdict <- [w \in Work |-> VerdictOf(w)], outcome <- Outcome

(***************************************************************************)
(* Every behaviour of the UDP scan keeps the contract of a port scan: at   *)
(* most one final verdict per pair, none after the end, and a scan that    *)
(* ends with status Ok has a verdict on every pair, in whatever order      *)
(* packets, deadlines, a broken capture and failures inside pump() come.   *)
(***************************************************************************)
KeepsContract == Contract!Spec

=============================================================================
