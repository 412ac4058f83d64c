----------------------- MODULE ServiceScanRefinement -----------------------
(***************************************************************************)
(* ServiceScan implements PortScanContract: the pairs are the open ports,  *)
(* and the verdict on one says whether and how its service was found.  The *)
(* scan has ended once run() has returned, or the stage gives up because   *)
(* submit() failed (ServiceDetectionStage::start() in                      *)
(* src/orchestrator/scan_stage.cpp).                                       *)
(***************************************************************************)
EXTENDS ServiceScan

NoVerdict == "none"

(***************************************************************************)
(* DetectionState without ConnectionClosed, which no code sets.            *)
(***************************************************************************)
ServiceState == {"Unknown", "Detected", "Timeout", "Error", "ResponseTooLarge", "InvalidTarget"}

VerdictOf(s) == IF results[s] = <<>> THEN NoVerdict ELSE results[s][1].state

Outcome ==
  IF phase \notin {"returned", "destroyed"} THEN "none"
  ELSE IF status = "Ok" THEN "complete" ELSE "failed"

Contract == INSTANCE PortScanContract WITH
  Work <- Services, Verdicts <- ServiceState, None <- NoVerdict,
  verdict <- [s \in Services |-> VerdictOf(s)], outcome <- Outcome

(***************************************************************************)
(* Every behaviour of service detection keeps the contract: at most one    *)
(* final verdict per port, none after the end, and a detection that ends   *)
(* with status Ok has a verdict on every port, although attempts end       *)
(* inside submit(), inside each other's callbacks and in retries.          *)
(***************************************************************************)
KeepsContract == Contract!Spec

=============================================================================
