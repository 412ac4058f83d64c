---------------------------- MODULE MCDiscovery ----------------------------
(* Two hosts whose link addresses must be solicited, two probes for each,    *)
(* and room for three probes: the second host may fit or not.                *)
EXTENDS DiscoveryScheduler

CONSTANTS h1, h2

MCTarget == <<h1, h2>>
MCNeighbours == {h1, h2}
MCProbes == <<"IcmpEcho", "Tcp">>
=============================================================================
