----------------------------- MODULE MCIOEngine -----------------------------
(***************************************************************************)
(* IOEngine on small instances: the events are model values.               *)
(***************************************************************************)
EXTENDS IOEngine

CONSTANTS e1, e2

=============================================================================
