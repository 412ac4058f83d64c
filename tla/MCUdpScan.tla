----------------------------- MODULE MCUdpScan -----------------------------
(***************************************************************************)
(* UdpScan on a small instance: two hosts, one of them with IPv6.          *)
(***************************************************************************)
EXTENDS UdpScanRefinement

CONSTANTS h4, h6

Pairs == <<[host |-> h4, port |-> 53], [host |-> h4, port |-> 69], [host |-> h6, port |-> 53]>>

Links == {[sources |-> {"IPv4", "IPv6"}, macs |-> {h4, h6}],
          [sources |-> {"IPv4", "IPv6"}, macs |-> {h4}],
          [sources |-> {"IPv4"}, macs |-> {h4, h6}]}

=============================================================================
