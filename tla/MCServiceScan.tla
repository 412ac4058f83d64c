--------------------------- MODULE MCServiceScan ---------------------------
(***************************************************************************)
(* ServiceScan on a small instance: a TCP port with two probes, a UDP port *)
(* with one, and ports that no probe and no socket can reach.              *)
(***************************************************************************)
EXTENDS ServiceScanRefinement

CONSTANTS web, dns, bad, odd

Ports == <<web, odd, dns, bad>>
ProbeCounts == [s \in {web, dns, bad, odd} |->
                  CASE s = web -> 2 [] s = odd -> 0 [] OTHER -> 1]

=============================================================================
