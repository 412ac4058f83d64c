------------------------------ MODULE MCOsScan ------------------------------
(***************************************************************************)
(* OsScan on a small instance: one probe of every protocol.                *)
(***************************************************************************)
EXTENDS OsScan

Sequence == <<"Tcp", "Icmp", "Udp">>

=============================================================================
