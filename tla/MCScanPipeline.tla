--------------------------- MODULE MCScanPipeline ---------------------------
(* Configurations of the pipeline for TLC: each combination of stages that   *)
(* changes the order of steps, each transport, with and without a file.      *)
EXTENDS ScanPipeline

CONSTANTS h1, h2

Cfg(enabled, transport, interface, output_file, checked) ==
  [enabled |-> enabled, transport |-> transport, interface_name |-> interface,
   output_file |-> output_file, tcp_ack |-> FALSE, checked |-> checked]

MCHosts == {h1, h2}

MCEvidence == {{"Up", "Unknown"}, {"Unreachable"}, {"Unknown"}}

MCConfigs ==
  {Cfg(Stage, "Linux", FALSE, TRUE, TRUE),
   Cfg(Stage \ {"UdpScan"}, "Offline", FALSE, FALSE, TRUE),
   Cfg({"PortScan", "ServiceDetection", "OSDetection"}, "Connect", FALSE, TRUE, TRUE),
   Cfg({"PortScan", "OSDetection"}, "Connect", FALSE, FALSE, TRUE),
   Cfg({"Discovery", "UdpScan"}, "Linux", TRUE, FALSE, TRUE),
   Cfg({"PortScan", "UdpScan"}, "Connect", FALSE, FALSE, TRUE),
   Cfg({}, "Offline", FALSE, TRUE, TRUE),
   Cfg({"PortScan"}, "Linux", FALSE, TRUE, FALSE),
   [Cfg({"PortScan", "ServiceDetection"}, "Linux", TRUE, FALSE, TRUE) EXCEPT !.tcp_ack = TRUE]}
=============================================================================
