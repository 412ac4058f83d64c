--------------------------- MODULE PortSemantics ---------------------------
(***************************************************************************)
(* The pure part of the TCP port scan: the states and reasons a port may   *)
(* be reported with, how each probe (TcpConnectProbe, TcpSynProbe,         *)
(* TcpAckProbe) assesses a transport response, which results the scheduler *)
(* confirms by a second observation, and the table by which the report     *)
(* builder accepts a result (valid_port_result_semantics).                 *)
(*                                                                         *)
(* A response is abstracted to what assess() looks at: the kind of the     *)
(* response, the errno class, the ICMP reason, and for a captured segment  *)
(* whether it parses, comes from the probed address and ports, which flags *)
(* it has and whether its numbers answer the probe's numbers.              *)
(***************************************************************************)
EXTENDS Naturals

Methods == {"TcpConnect", "TcpSyn", "TcpAck"}

PortState == {"Open", "Closed", "Filtered", "Unknown", "OpenOrFiltered",
              "Unfiltered", "Error", "Unreachable"}

ScanReason == {"ImmediateSuccess", "ConnectionRefused", "NetworkUnreachable",
               "LocalAddressUnavailable", "SynAck", "Rst", "Timeout",
               "SocketError", "InvalidTarget", "CapabilityUnavailable",
               "InternalError", "IcmpPortUnreachable",
               "IcmpAdministrativelyProhibited", "IcmpNetworkUnreachable",
               "AckRst", "AckTimeout", "ConflictingEvidence",
               "IcmpProtocolUnreachable"}

StatusCode == {"Ok", "InvalidArgument", "PermissionDenied", "NotFound",
               "ParseError", "IoError", "MemoryError", "InternalError",
               "ResourceExhausted"}

(***************************************************************************)
(* The errno classes TcpConnectProbe::assess tells apart.                  *)
(***************************************************************************)
Errors == {"ETIMEDOUT", "unreachable", "EADDRNOTAVAIL", "other"}

(***************************************************************************)
(* PortResponse, by kind.  "from_target" is the outcome of the             *)
(* source-address comparison, "ports" of the comparison of both ports.     *)
(***************************************************************************)
Response ==
  [kind : {"Connected", "ConnectionRefused"}, from_target : BOOLEAN]
    \cup [kind : {"SocketError"}, from_target : BOOLEAN, error : Errors]
    \cup [kind : {"Unreachable"}, from_target : BOOLEAN, reason : ScanReason]
    \cup [kind : {"Packet"}, from_target : BOOLEAN, parsed : BOOLEAN,
          ports : BOOLEAN, flags : SUBSET {"Syn", "Ack", "Rst", "Fin"},
          ack_matches : BOOLEAN, seq_matches : BOOLEAN]

(***************************************************************************)
(* What assess() hands back: a status, and a state and reason that are     *)
(* meaningful only when the status is Ok.                                  *)
(***************************************************************************)
Assessment(status, state, reason) ==
  [status |-> status, state |-> state, reason |-> reason]

Rejected(status) == Assessment(status, "Unknown", "InternalError")
Admitted(state, reason) == Assessment("Ok", state, reason)

AssessConnect(r) ==
  CASE ~r.from_target -> Rejected("NotFound")
    [] r.from_target /\ r.kind = "Connected" -> Admitted("Open", "ImmediateSuccess")
    [] r.from_target /\ r.kind = "ConnectionRefused" -> Admitted("Closed", "ConnectionRefused")
    [] r.from_target /\ r.kind = "SocketError" ->
         (CASE r.error = "ETIMEDOUT" -> Admitted("Filtered", "Timeout")
            [] r.error = "unreachable" -> Admitted("Unreachable", "NetworkUnreachable")
            [] r.error = "EADDRNOTAVAIL" -> Admitted("Error", "LocalAddressUnavailable")
            [] r.error = "other" -> Admitted("Error", "SocketError"))
    [] OTHER -> Rejected("ParseError")

(***************************************************************************)
(* Faulty variant, for the sensitivity of the checks: every ICMP           *)
(* unreachable quote filters the port.                                     *)
(***************************************************************************)
every_quote_filters(reason) ==
  IF reason \in {"IcmpNetworkUnreachable", "IcmpAdministrativelyProhibited",
                 "IcmpPortUnreachable", "IcmpProtocolUnreachable"}
    THEN Admitted("Filtered", reason) ELSE Rejected("NotFound")

(***************************************************************************)
(* The part TcpSynProbe and TcpAckProbe share: local socket errors and the *)
(* ICMP destination-unreachable reasons, before any segment is looked at.  *)
(***************************************************************************)
AssessUnreachable(reason) ==
  CASE reason = "IcmpNetworkUnreachable" -> Admitted("Unreachable", reason)
    [] reason \in {"IcmpAdministrativelyProhibited", "IcmpPortUnreachable",
                   "IcmpProtocolUnreachable"} -> Admitted("Filtered", reason)
    [] OTHER -> Rejected("NotFound")

AssessSynFlags(r) ==
  CASE {"Syn", "Ack"} = r.flags /\ r.ack_matches -> Admitted("Open", "SynAck")
    [] "Rst" \in r.flags /\ r.flags \cap {"Syn", "Fin"} = {}
         /\ ("Ack" \in r.flags => r.ack_matches) -> Admitted("Closed", "Rst")
    [] OTHER -> Rejected("NotFound")

AssessAckFlags(r) ==
  IF r.flags = {"Rst"} /\ r.seq_matches
    THEN Admitted("Unfiltered", "AckRst")
    ELSE Rejected("NotFound")

AssessFlags(method, r) ==
  IF method = "TcpSyn" THEN AssessSynFlags(r) ELSE AssessAckFlags(r)

AssessRaw(method, r) ==
  CASE r.kind = "SocketError" -> Admitted("Error", "SocketError")
    [] r.kind = "Unreachable" -> AssessUnreachable(r.reason)
    [] r.kind = "Packet" /\ ~r.from_target -> Rejected("NotFound")
    [] r.kind = "Packet" /\ r.from_target /\ ~r.parsed -> Rejected("ParseError")
    [] r.kind = "Packet" /\ r.from_target /\ r.parsed /\ ~r.ports -> Rejected("NotFound")
    [] r.kind = "Packet" /\ r.from_target /\ r.parsed /\ r.ports ->
         AssessFlags(method, r)
    [] OTHER -> Rejected("NotFound")

Assess(method, r) ==
  CASE method = "TcpConnect" -> AssessConnect(r)
    [] method \in {"TcpSyn", "TcpAck"} -> AssessRaw(method, r)

(***************************************************************************)
(* Every observation a transport can get admitted for a probe of a method. *)
(***************************************************************************)
Evidence(method) ==
  {[state |-> a.state, reason |-> a.reason] :
     a \in {b \in {Assess(method, r) : r \in Response} : b.status = "Ok"}}

timeout_state(method) == "Filtered"
timeout_reason(method) == IF method = "TcpAck" THEN "AckTimeout" ELSE "Timeout"

(***************************************************************************)
(* Only TCP Connect negatives (refused, timed out) are confirmed.          *)
(***************************************************************************)
should_confirm_negative(method, state, reason) ==
  /\ method = "TcpConnect"
  /\ \/ state = "Closed" /\ reason = "ConnectionRefused"
     \/ state = "Filtered" /\ reason = "Timeout"

submission_failure_reason(status) ==
  CASE status = "PermissionDenied" -> "CapabilityUnavailable"
    [] status = "InvalidArgument" -> "InvalidTarget"
    [] OTHER -> "InternalError"

(***************************************************************************)
(* The reasons valid_port_result_semantics accepts with each state, for a  *)
(* result of the method.                                                   *)
(***************************************************************************)
FilteringReasons == {"IcmpAdministrativelyProhibited", "IcmpPortUnreachable",
                     "IcmpProtocolUnreachable"}

valid_port_result_semantics(method, state, reason) ==
  \/ /\ state = "Open"
     /\ \/ method = "TcpConnect" /\ reason = "ImmediateSuccess"
        \/ method = "TcpSyn" /\ reason = "SynAck"
        \/ method = "Udp" /\ reason = "UdpResponse"
  \/ /\ state = "Closed"
     /\ \/ method = "TcpConnect" /\ reason = "ConnectionRefused"
        \/ method = "TcpSyn" /\ reason = "Rst"
        \/ method = "Udp" /\ reason = "IcmpPortUnreachable"
  \/ /\ state = "Filtered"
     /\ \/ method = "TcpConnect" /\ reason = "Timeout"
        \/ method = "TcpSyn" /\ reason \in {"Timeout"} \cup FilteringReasons
        \/ method = "TcpAck" /\ reason \in {"AckTimeout"} \cup FilteringReasons
        \/ method = "Udp" /\ reason = "IcmpAdministrativelyProhibited"
  \/ state = "OpenOrFiltered" /\ method = "Udp" /\ reason = "UdpTimeout"
  \/ state = "Unknown" /\ reason = "ConflictingEvidence"
  \/ state = "Unfiltered" /\ method = "TcpAck" /\ reason = "AckRst"
  \/ /\ state = "Error"
     /\ reason \in {"LocalAddressUnavailable", "SocketError", "InvalidTarget",
                    "CapabilityUnavailable", "InternalError"}
  \/ /\ state = "Unreachable"
     /\ reason = IF method = "TcpConnect" THEN "NetworkUnreachable"
                                          ELSE "IcmpNetworkUnreachable"

=============================================================================
