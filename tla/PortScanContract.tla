-------------------------- MODULE PortScanContract --------------------------
(***************************************************************************)
(* What a scan of ports promises its stage (PortScanStage, UdpScanStage    *)
(* and ServiceDetectionStage in src/orchestrator/scan_stage.cpp), without  *)
(* schedulers, probes or timers: verdicts on pairs appear one after        *)
(* another and are final, and the scan ends either complete, with a        *)
(* verdict on every pair, or failed.                                       *)
(***************************************************************************)
CONSTANTS
  Work,      \* the host/port pairs
  Verdicts,  \* the states a pair may be reported with
  None       \* no verdict yet; not one of Verdicts

VARIABLES
  verdict,   \* the verdict on each pair
  outcome    \* "none" until the scan ends, then "complete" or "failed"

vars == <<verdict, outcome>>

Init == verdict = [p \in Work |-> None] /\ outcome = "none"

(***************************************************************************)
(* A pair gets its one verdict.                                            *)
(***************************************************************************)
Decide(p, v) ==
  /\ outcome = "none" /\ verdict[p] = None
  /\ verdict' = [verdict EXCEPT ![p] = v]
  /\ UNCHANGED outcome

(***************************************************************************)
(* The submission answers the pairs it cannot probe in one step.           *)
(***************************************************************************)
TurnDown(v) ==
  /\ outcome = "none" /\ \A p \in Work : verdict[p] = None
  /\ verdict' \in [Work -> {None, v}]
  /\ UNCHANGED outcome

Complete ==
  /\ outcome = "none" /\ \A p \in Work : verdict[p] # None
  /\ outcome' = "complete"
  /\ UNCHANGED verdict

Fail ==
  /\ outcome = "none"
  /\ outcome' = "failed"
  /\ UNCHANGED verdict

Next ==
  \/ \E p \in Work, v \in Verdicts : Decide(p, v)
  \/ \E v \in Verdicts : TurnDown(v)
  \/ Complete
  \/ Fail

Spec == Init /\ [][Next]_vars

=============================================================================
