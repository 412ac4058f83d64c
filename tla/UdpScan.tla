------------------------------ MODULE UdpScan ------------------------------
(***************************************************************************)
(* The UDP scan: UDPScheduler (src/portscan/udp_scan.cpp) over             *)
(* LinuxUDPScanTransport (src/net), on the shared reactor.                 *)
(*                                                                         *)
(* UDP has no connection: an answer is recognised by its addresses and     *)
(* ports alone, so the scheduler draws a source port for every attempt from*)
(* a pool and gives it back when the attempt ends.  The network may delay, *)
(* duplicate, reorder and lose packets; a packet that answers one attempt  *)
(* may arrive when the source port already belongs to another.  Timing is  *)
(* the fixed one (config.adaptive_timing is false): the congestion window  *)
(* is the same as for the TCP scan and is modelled there.                  *)
(***************************************************************************)
EXTENDS PortSemantics, Sequences, FiniteSets, Functions

CONSTANTS
  Order,           \* the (host, port) pairs in the order of submission
  IPv6Hosts,       \* the hosts with an IPv6 address
  Limits,          \* the values of config.max_outstanding to try
  MaxRetries,      \* config.retries
  PoolSize,        \* kSourcePortSpan
  MaxResponse,     \* max_response_bytes of the probe, in units of a payload
  Codes,           \* the ICMP codes the network sends
  Interfaces,      \* what open() may find: source address families and link addresses
  SendMayFail,     \* LinuxTransport::send() may fail
  TimerMayFail,    \* engine.schedule() may return 0
  EngineMayFail    \* epoll_wait() may fail

Work == {Order[i] : i \in DOMAIN Order}
Hosts == {w.host : w \in Work}

ASSUME UdpAssumption ==
  /\ Order \in Seq(Work) /\ Order # <<>> /\ IsInjective(Order) /\ IPv6Hosts \subseteq Hosts
  /\ Limits \subseteq Nat \ {0} /\ MaxRetries \in Nat /\ PoolSize \in Nat \ {0}
  /\ MaxResponse \in Nat /\ Codes \subseteq 0..255
  /\ Interfaces \subseteq [sources : SUBSET {"IPv4", "IPv6"}, macs : SUBSET Hosts]
  /\ SendMayFail \in BOOLEAN /\ TimerMayFail \in BOOLEAN /\ EngineMayFail \in BOOLEAN

VARIABLES
  phase,             \* closed, failed or opened, refused or submitted, running, returned, destroyed
  limit,             \* config.max_outstanding
  interface,         \* source addresses and neighbours of the interface
  held,              \* what the transport has open: capture, socket, reactor event
  queue,             \* queue_
  pending,           \* pending_: the attempt of each probe id
  source_ports,      \* source_ports_, the ports in use
  next_source_port,  \* next_source_port_
  next_id,           \* next_id_
  results,           \* results_ of each pair
  status,            \* status_
  timers,            \* IOEngine::timers_, by the id on_timeout() will be called with
  stopped,           \* IOEngine::stopped_
  pumping,           \* who called pump(): "no", "submit" or a "handler"
  wire,              \* LinuxUDPScanTransport::pending_: pair and source port of each id
  draining,          \* on_capture_event() is failing every probe
  sent               \* history: the pairs and source ports of all probes transmitted

schedulerVars == <<queue, pending, source_ports, next_source_port, next_id, results, status>>
transportVars == <<wire, held, sent>>
configVars == <<limit, interface>>
vars == <<phase, configVars, schedulerVars, transportVars, timers, stopped, pumping, draining>>

-----------------------------------------------------------------------------
Item == [work : Work, retry : 0..MaxRetries]
NoCandidate == [state |-> "None", reason |-> "None"]
EmptyMap == [x \in {} |-> x]
Without(f, x) == [y \in DOMAIN f \ {x} |-> f[y]]
With(f, x, v) == [y \in DOMAIN f \cup {x} |-> IF y = x THEN v ELSE f[y]]

Family(h) == IF h \in IPv6Hosts THEN "IPv6" ELSE "IPv4"

Init ==
  /\ phase = "closed" /\ limit \in Limits
  /\ interface \in Interfaces
  /\ held = {} /\ wire = EmptyMap /\ sent = {} /\ draining = FALSE
  /\ queue = <<>> /\ pending = EmptyMap /\ source_ports = {} /\ next_source_port = 0
  /\ next_id = 1 /\ results = [w \in Work |-> <<>>] /\ status = "Ok"
  /\ timers = {} /\ stopped = FALSE /\ pumping = "no"

(***************************************************************************)
(* A result, with the evidence behind it as history.                       *)
(***************************************************************************)
append_terminal_result(item, state, reason, heard) ==
  results' = [results EXCEPT ![item.work] =
                Append(@, [state |-> state, reason |-> reason, attempts |-> item.retry + 1,
                           heard |-> heard])]

complete == phase \notin {"closed", "opened"} /\ queue = <<>> /\ pending = EmptyMap

(***************************************************************************)
(* Faulty variant, for the sensitivity of the checks: the reactor is never *)
(* stopped.                                                                *)
(***************************************************************************)
never_stop == FALSE

(***************************************************************************)
(* Faulty variant, for the sensitivity of the checks: probes that are out  *)
(* do not keep the reactor running.                                        *)
(***************************************************************************)
stop_when_all_sent == phase \notin {"closed", "opened"} /\ queue = <<>>

stop_if_idle == complete

-----------------------------------------------------------------------------
(* The transport: open(), close(), submit(), cancel().                     *)

(***************************************************************************)
(* The steps of open(), each of which may fail; all give back what was     *)
(* opened before them.                                                     *)
(***************************************************************************)
OpenSteps == {"config", "interface", "preflight", "mac", "capture", "socket", "attach"}

OpenFails(step) ==
  /\ phase = "closed"
  /\ phase' = "failed"
  /\ held' = {}
  /\ UNCHANGED <<configVars, schedulerVars, wire, sent, timers, stopped, pumping, draining>>

open ==
  /\ phase = "closed"
  /\ phase' = "opened"
  /\ held' = {"capture", "socket", "event"}
  /\ UNCHANGED <<configVars, schedulerVars, wire, sent, timers, stopped, pumping, draining>>

is_open == held = {"capture", "socket", "event"}

source_address_for(h) == Family(h) \in interface.sources
destination_mac(h) == h \in interface.macs
compose_frame(h) == source_address_for(h) /\ destination_mac(h)

(***************************************************************************)
(* What LinuxUDPScanTransport::submit() may answer for a pair.             *)
(***************************************************************************)
SubmitStatus(w) ==
  IF is_open /\ compose_frame(w.host)
    THEN {"Ok"} \cup (IF SendMayFail THEN {"PermissionDenied", "IoError"} ELSE {})
    ELSE {"PermissionDenied"}

-----------------------------------------------------------------------------
(* submit() and pump().                                                    *)

(***************************************************************************)
(* A host whose address does not parse: its pairs are answered, the other  *)
(* pairs are dropped with the error.                                       *)
(***************************************************************************)
SubmitInvalid(h) ==
  /\ phase = "opened" /\ is_open
  /\ phase' = "refused" /\ status' = "InvalidArgument"
  /\ results' = [w \in Work |->
       IF w.host = h THEN <<[state |-> "Error", reason |-> "InvalidTarget", attempts |-> 1,
                             heard |-> {}]>>
                     ELSE <<>>]
  /\ stopped' = TRUE
  /\ UNCHANGED <<configVars, queue, pending, source_ports, next_source_port, next_id,
                 transportVars, timers, pumping, draining>>

submit ==
  /\ phase = "opened" /\ is_open
  /\ phase' = "submitting" /\ pumping' = "submit"
  /\ queue' = [i \in DOMAIN Order |-> [work |-> Order[i], retry |-> 0]]
  /\ UNCHANGED <<configVars, pending, source_ports, next_source_port, next_id, results, status,
                 transportVars, timers, stopped, draining>>

PumpLoops ==
  pumping # "no" /\ status = "Ok" /\ queue # <<>> /\ Cardinality(DOMAIN pending) < limit

PumpReturns ==
  /\ pumping # "no" /\ ~PumpLoops
  /\ pumping' = "no"
  /\ phase' = IF pumping = "handler" THEN phase
              ELSE IF status = "Ok" THEN "submitted" ELSE "refused"
  /\ stopped' = (stopped \/ stop_if_idle)
  /\ UNCHANGED <<configVars, schedulerVars, transportVars, timers, draining>>

(***************************************************************************)
(* Round robin over the pool from next_source_port, the first free one.    *)
(***************************************************************************)
FreePorts == 0..(PoolSize - 1) \ source_ports
Distance(p) == (p + PoolSize - next_source_port) % PoolSize
allocate_source_port == CHOOSE p \in FreePorts : \A q \in FreePorts : Distance(p) <= Distance(q)

(***************************************************************************)
(* Every failure of pump() answers the pair, keeps the error and leaves    *)
(* the loop.                                                               *)
(***************************************************************************)
PumpFails(error, reason) ==
  /\ queue' = Tail(queue)
  /\ append_terminal_result(Head(queue), "Error", reason, {})
  /\ status' = error
  /\ UNCHANGED <<phase, configVars, pending, transportVars, timers, stopped, pumping, draining>>

PumpNoPort ==
  /\ PumpLoops /\ FreePorts = {}
  /\ PumpFails("ResourceExhausted", "InternalError")
  /\ UNCHANGED <<source_ports, next_source_port, next_id>>

(***************************************************************************)
(* No deadline can be armed: the source port goes back, its turn is over.  *)
(***************************************************************************)
PumpTimerFails ==
  /\ PumpLoops /\ FreePorts # {} /\ TimerMayFail
  /\ next_source_port' = (allocate_source_port + 1) % PoolSize
  /\ next_id' = next_id + 1
  /\ PumpFails("InternalError", "InternalError")
  /\ UNCHANGED source_ports

PumpSubmitFails(error) ==
  /\ PumpLoops /\ FreePorts # {}
  /\ error \in SubmitStatus(Head(queue).work) \ {"Ok"}
  /\ next_source_port' = (allocate_source_port + 1) % PoolSize
  /\ next_id' = next_id + 1
  /\ PumpFails(error, IF error = "PermissionDenied" THEN "CapabilityUnavailable"
                                                     ELSE "InternalError")
  /\ UNCHANGED source_ports

PumpSubmits ==
  LET port == allocate_source_port item == Head(queue) IN
  /\ PumpLoops /\ FreePorts # {} /\ "Ok" \in SubmitStatus(item.work)
  /\ queue' = Tail(queue)
  /\ source_ports' = source_ports \cup {port}
  /\ next_source_port' = (port + 1) % PoolSize
  /\ next_id' = next_id + 1
  /\ pending' = With(pending, next_id, [item |-> item, port |-> port, candidate |-> NoCandidate,
                                        heard |-> {}])
  /\ timers' = timers \cup {next_id}
  /\ wire' = With(wire, next_id, [work |-> item.work, port |-> port])
  /\ sent' = sent \cup {[work |-> item.work, port |-> port]}
  /\ UNCHANGED <<phase, configVars, results, status, held, stopped, pumping, draining>>

-----------------------------------------------------------------------------
(* The reactor and the network.                                            *)

Run ==
  /\ phase = "submitted"
  /\ phase' = "running" /\ stopped' = FALSE
  /\ UNCHANGED <<configVars, schedulerVars, transportVars, timers, pumping, draining>>

Idle == phase = "running" /\ pumping = "no" /\ ~draining

RunReturns ==
  /\ Idle /\ stopped
  /\ phase' = "returned"
  /\ UNCHANGED <<configVars, schedulerVars, transportVars, timers, stopped, pumping, draining>>

EngineFails ==
  /\ EngineMayFail /\ Idle /\ ~stopped
  /\ phase' = "returned"
  /\ status' = IF status = "Ok" THEN "IoError" ELSE status
  /\ UNCHANGED <<configVars, queue, pending, source_ports, next_source_port, next_id, results,
                 transportVars, timers, stopped, pumping, draining>>

(***************************************************************************)
(* A packet, by what it is and what it answers.  An ICMP packet carries a  *)
(* code; a datagram a size.                                                *)
(***************************************************************************)
IcmpKind(family, code) ==
  IF family = "IPv6"
    THEN CASE code = 4 -> "IcmpPortUnreachable"
           [] code = 1 -> "IcmpAdministrativelyProhibited"
           [] code \in {0, 2, 3} -> "IcmpNetworkUnreachable"
           [] OTHER -> "Malformed"
    ELSE CASE code = 3 -> "IcmpPortUnreachable"
           [] code \in {9, 10, 13} -> "IcmpAdministrativelyProhibited"
           [] code \in {0, 1} -> "IcmpNetworkUnreachable"
           [] OTHER -> "Malformed"

Packets == [icmp : {FALSE}, size : {MaxResponse, MaxResponse + 1}] \cup
           [icmp : {TRUE}, code : Codes]

UDPResponseKind(packet, family) ==
  IF packet.icmp THEN IcmpKind(family, packet.code) ELSE "Datagram"

(***************************************************************************)
(* Faulty variant, for the sensitivity of the checks: the source port      *)
(* alone identifies the probe.                                             *)
(***************************************************************************)
match_by_source_port(answered) == {id \in DOMAIN wire : wire[id].port = answered.port}

(***************************************************************************)
(* The probes of the transport that a packet can belong to, by addresses   *)
(* and ports, its own or the quoted ones; ambiguous packets are dropped.   *)
(***************************************************************************)
match(answered) == {id \in DOMAIN wire : wire[id] = answered}

(***************************************************************************)
(* What receive() makes of a response; "None" is not accepted.             *)
(***************************************************************************)
Judge(kind, packet) ==
  CASE kind = "Datagram" /\ packet.size <= MaxResponse
         -> [state |-> "Open", reason |-> "UdpResponse"]
    [] kind = "IcmpPortUnreachable"
         -> [state |-> "Closed", reason |-> "IcmpPortUnreachable"]
    [] kind = "IcmpAdministrativelyProhibited"
         -> [state |-> "Filtered", reason |-> "IcmpAdministrativelyProhibited"]
    [] kind = "IcmpNetworkUnreachable"
         -> [state |-> "Unreachable", reason |-> "IcmpNetworkUnreachable"]
    [] OTHER -> NoCandidate

(***************************************************************************)
(* Evidence waits for the deadline; a second state makes it a conflict.    *)
(***************************************************************************)
Retain(old, new) ==
  IF old = NoCandidate THEN new
  ELSE IF old.state = new.state \/ old.reason = "ConflictingEvidence" THEN old
  ELSE [state |-> "Unknown", reason |-> "ConflictingEvidence"]

receive(id, judgement, answered) ==
  /\ judgement # NoCandidate /\ id \in DOMAIN pending
  /\ pending' = [pending EXCEPT ![id].candidate = Retain(@, judgement),
                                ![id].heard = @ \cup {[work |-> answered.work,
                                                       state |-> judgement.state]}]

(***************************************************************************)
(* dispatch_observation(): a packet that answers one of the probes ever    *)
(* sent.  Packets that match nothing, or are not accepted, change nothing. *)
(***************************************************************************)
Arrives(answered, packet) ==
  /\ Idle /\ ~stopped
  /\ \E id \in DOMAIN wire :
       /\ match(answered) = {id}
       /\ receive(id, Judge(UDPResponseKind(packet, Family(answered.work.host)), packet), answered)
  /\ UNCHANGED <<phase, configVars, queue, source_ports, next_source_port, next_id, results,
                 status, transportVars, timers, stopped, pumping, draining>>

(***************************************************************************)
(* Faulty variant, for the sensitivity of the checks: the source port is   *)
(* not given back.                                                         *)
(***************************************************************************)
forget_keeps_port(id) ==
  /\ pending' = Without(pending, id)
  /\ timers' = timers \ {id}
  /\ wire' = Without(wire, id)
  /\ UNCHANGED source_ports

(***************************************************************************)
(* An attempt leaves all tables at once, and its source port is free.      *)
(***************************************************************************)
Forget(id) ==
  /\ pending' = Without(pending, id)
  /\ timers' = timers \ {id}
  /\ wire' = Without(wire, id)
  /\ source_ports' = source_ports \ {pending[id].port}

(***************************************************************************)
(* on_timeout(): the retained evidence is published; silence is retried at *)
(* once, ahead of the queue, and in the end means open or filtered.        *)
(***************************************************************************)
on_timeout(id) ==
  LET p == pending[id] IN
  /\ Idle /\ ~stopped /\ id \in timers
  /\ Forget(id)
  /\ \/ /\ p.candidate # NoCandidate
        /\ append_terminal_result(p.item, p.candidate.state, p.candidate.reason, p.heard)
        /\ UNCHANGED queue
     \/ /\ p.candidate = NoCandidate /\ p.item.retry < MaxRetries
        /\ queue' = <<[p.item EXCEPT !.retry = @ + 1]>> \o queue
        /\ UNCHANGED results
     \/ /\ p.candidate = NoCandidate /\ p.item.retry >= MaxRetries
        /\ append_terminal_result(p.item, "OpenOrFiltered", "UdpTimeout", p.heard)
        /\ UNCHANGED queue
  /\ pumping' = "handler"
  /\ UNCHANGED <<phase, configVars, next_source_port, next_id, status, held, sent, stopped,
                 draining>>

(***************************************************************************)
(* The capture fails: every probe of the transport is called back, in any  *)
(* order, with new ones that pump() sends meanwhile.                       *)
(***************************************************************************)
CaptureFails ==
  /\ Idle /\ ~stopped /\ is_open
  /\ draining' = TRUE
  /\ UNCHANGED <<phase, configVars, schedulerVars, transportVars, timers, stopped, pumping>>

Drain(id) ==
  /\ draining /\ pumping = "no" /\ id \in DOMAIN wire
  /\ Forget(id)
  /\ append_terminal_result(pending[id].item, "Error", "SocketError", pending[id].heard)
  /\ pumping' = "handler"
  /\ UNCHANGED <<phase, configVars, queue, next_source_port, next_id, status, held, sent,
                 stopped, draining>>

DrainEnds ==
  /\ draining /\ pumping = "no" /\ wire = EmptyMap
  /\ draining' = FALSE
  /\ UNCHANGED <<phase, configVars, schedulerVars, transportVars, timers, stopped, pumping>>

(***************************************************************************)
(* ~UDPScheduler() and then LinuxUDPScanTransport::close().                *)
(***************************************************************************)
Destroy ==
  /\ phase \in {"failed", "refused", "returned"}
  /\ phase' = "destroyed"
  /\ timers' = timers \ DOMAIN pending
  /\ pending' = EmptyMap /\ queue' = <<>> /\ source_ports' = {}
  /\ wire' = EmptyMap /\ held' = {}
  /\ UNCHANGED <<configVars, next_source_port, next_id, results, status, sent, stopped, pumping,
                 draining>>

-----------------------------------------------------------------------------
Setup ==
  \/ \E step \in OpenSteps : OpenFails(step)
  \/ open
  \/ \E h \in Hosts : SubmitInvalid(h)
  \/ submit

pump ==
  \/ PumpReturns \/ PumpNoPort \/ PumpTimerFails \/ PumpSubmits
  \/ \E error \in {"PermissionDenied", "IoError"} : PumpSubmitFails(error)

Deadline == \E id \in DOMAIN pending : on_timeout(id)
Draining == DrainEnds \/ \E id \in DOMAIN wire : Drain(id)
Network == \E answered \in sent : \E packet \in Packets : Arrives(answered, packet)

Terminated == phase = "destroyed" /\ UNCHANGED vars

Next ==
  \/ Setup \/ pump \/ Run \/ RunReturns \/ EngineFails
  \/ Network \/ Deadline \/ CaptureFails \/ Draining \/ Destroy \/ Terminated

Spec == Init /\ [][Next]_vars

(***************************************************************************)
(* Fairness: handlers run to their end, due deadlines are dispatched, and  *)
(* run() leaves its loop once stopped.                                     *)
(***************************************************************************)
FairSpec ==
  /\ Spec
  /\ WF_vars(pump) /\ WF_vars(Deadline) /\ WF_vars(Draining) /\ WF_vars(RunReturns)

-----------------------------------------------------------------------------
(* Properties.                                                             *)

Places(w) ==
  Cardinality({i \in DOMAIN queue : queue[i].work = w})
    + Cardinality({id \in DOMAIN pending : pending[id].item.work = w}) + Len(results[w])

(***************************************************************************)
(* Every pair is at all times in exactly one place, waiting, out or        *)
(* answered, whatever fails between the statements of pump() and in        *)
(* whatever order deadlines and a broken capture end the attempts; when    *)
(* run() returns Ok all are answered.  Source port pool, timers and the    *)
(* transport's table hold what pending_ holds: no port leaks, no two       *)
(* attempts share one, no timer outlives its probe, no answer finds the    *)
(* transport and not the scheduler.  A transport that failed to open, or   *)
(* is closed, holds nothing.                                               *)
(***************************************************************************)
WorkAccounted ==
  /\ phase \in {"submitting", "submitted", "running", "returned"} =>
       \A w \in Work : Places(w) = 1
  /\ phase = "returned" /\ status = "Ok" => \A w \in Work : results[w] # <<>>
  /\ source_ports = {pending[id].port : id \in DOMAIN pending}
  /\ \A i, j \in DOMAIN pending : pending[i].port = pending[j].port => i = j
  /\ \A id \in DOMAIN wire : wire[id] = [work |-> pending[id].item.work, port |-> pending[id].port]
  /\ timers = DOMAIN pending /\ DOMAIN wire = DOMAIN pending
  /\ phase \in {"closed", "failed", "destroyed"} => held = {} /\ timers = {}

(***************************************************************************)
(* A result says what its own pair answered, in any order of the packets:  *)
(* one kind of evidence gives its state, several give Unknown, silence on  *)
(* all attempts open or filtered.  A packet for another pair never counts, *)
(* although source ports are reused; and the writers accept the result.    *)
(***************************************************************************)
EvidenceDecides ==
  \A w \in Work : \A i \in DOMAIN results[w] :
    LET r == results[w][i] states == {h.state : h \in r.heard} IN
    /\ \A h \in r.heard : h.work = w
    /\ \/ r.state = "Error"
       \/ states = {} /\ r.state = "OpenOrFiltered" /\ r.attempts = MaxRetries + 1
       \/ states = {r.state}
       \/ Cardinality(states) > 1 /\ r.state = "Unknown"
    /\ valid_port_result_semantics("Udp", r.state, r.reason)

(***************************************************************************)
(* A run in which nothing failed ends, without any help from the network,  *)
(* although the capture event alone would keep the reactor waiting.        *)
(***************************************************************************)
RunEnds == (phase = "running" /\ status = "Ok") ~> (phase # "running" \/ status # "Ok")
=============================================================================
