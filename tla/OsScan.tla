------------------------------- MODULE OsScan -------------------------------
(***************************************************************************)
(* OS detection of one host: OSScheduler (src/osdetect/os_scheduler.cpp)   *)
(* over LinuxOSProbeTransport (src/net) or an injected transport, on the   *)
(* shared reactor.                                                         *)
(*                                                                         *)
(* A fixed sequence of TCP, ICMP and UDP probes is sent, a few at a time;  *)
(* the verdict counts what became of them.  The Linux transport recognises *)
(* answers by a correlation table, and by a scan of the probes that are    *)
(* out; it drops its entry before the scheduler judges the packet.  The    *)
(* network may delay, duplicate, reorder and lose packets.                 *)
(***************************************************************************)
EXTENDS Integers, Sequences, FiniteSets

CONSTANTS
  kProbeOrder,      \* the protocols of the probes, in the order they are sent
  Unsupported,      \* the probes that an injected transport does not support
  Transports,       \* "Linux" and "Injected", those to try
  MaxOutstanding,   \* config.max_outstanding
  MaxRetries,       \* timing_profile.max_retries
  PortSpan,         \* the source ports of the probes, 20000
  TimerMayFail,     \* engine.schedule() may return 0
  SendMayFail       \* LinuxTransport::send() may fail

Work == DOMAIN kProbeOrder
Families == {"IPv4", "IPv6"}

ASSUME OsAssumption ==
  /\ kProbeOrder \in Seq({"Tcp", "Icmp", "Udp"}) /\ kProbeOrder # <<>>
  /\ Unsupported \subseteq Work /\ Transports \subseteq {"Linux", "Injected"}
  /\ MaxOutstanding \in Nat \ {0} /\ MaxRetries \in Nat
  /\ PortSpan > Len(kProbeOrder) * (MaxRetries + 1)
  /\ TimerMayFail \in BOOLEAN /\ SendMayFail \in BOOLEAN

VARIABLES
  phase,          \* created, submitting, refused or submitted, running, returned, destroyed
  adaptive,       \* config.adaptive_timing
  transport,      \* which transport the stage built
  family,         \* the family of the host's address
  sources,        \* the families the interface has an address of
  neighbour,      \* the link address of the host is known
  queue,          \* queue_
  pending,        \* pending_, by probe id: the work and the submission
  next_id,        \* next_id_
  counts,         \* generated_count_, sent_count_, ...
  result,         \* result_
  status,         \* status_
  timers,         \* IOEngine::timers_, by probe id
  stopped,        \* IOEngine::stopped_
  pumping,        \* who called pump(): "no", "submit" or a "handler"
  wire,           \* the transport's pending_: the submission as it was sent
  correlations,   \* LinuxOSProbeTransport::correlations_
  sent,           \* history: every submission transmitted
  fate,           \* history: what became of each probe
  unheard         \* history: probes whose answer came while they were out and was dropped

configVars == <<adaptive, transport, family, sources, neighbour>>
schedulerVars == <<queue, pending, next_id, counts, result, status>>
transportVars == <<wire, correlations, sent>>
historyVars == <<fate, unheard>>
vars == <<phase, configVars, schedulerVars, timers, stopped, pumping, transportVars, historyVars>>

-----------------------------------------------------------------------------
EmptyMap == [x \in {} |-> x]
Without(f, x) == [y \in DOMAIN f \ {x} |-> f[y]]
With(f, x, v) == [y \in DOMAIN f \cup {x} |-> IF y = x THEN v ELSE f[y]]
NoResult == [state |-> "None", counts |-> <<>>]

Init ==
  /\ phase = "created" /\ adaptive \in BOOLEAN
  /\ transport \in Transports /\ family \in Families
  /\ sources \in SUBSET Families \ {{}} /\ neighbour \in BOOLEAN
  /\ queue = <<>> /\ pending = EmptyMap /\ next_id = 1
  /\ counts = [generated |-> 0, sent |-> 0, response |-> 0, timeout |-> 0, unsupported |-> 0,
               malformed |-> 0]
  /\ result = NoResult /\ status = "Ok"
  /\ timers = {} /\ stopped = FALSE /\ pumping = "no"
  /\ wire = EmptyMap /\ correlations = {} /\ sent = {}
  /\ fate = [w \in Work |-> "None"] /\ unheard = {}

(***************************************************************************)
(* Faulty variant, for the sensitivity of the checks: the end does not     *)
(* wait for the probes that are out.                                       *)
(***************************************************************************)
complete_ignores_pending == phase # "created" /\ queue = <<>>

complete == phase # "created" /\ queue = <<>> /\ pending = EmptyMap

-----------------------------------------------------------------------------
(* finish_terminal(), emit_result().                                       *)

Verdict ==
  IF status # "Ok" THEN "Failed"
  ELSE IF counts.response > 0 /\ counts.timeout = 0 /\ counts.malformed = 0 THEN "Complete"
  ELSE IF counts.response + counts.timeout + counts.malformed + counts.unsupported > 0 THEN "Partial"
  ELSE "Unavailable"

(***************************************************************************)
(* Faulty variant, for the sensitivity of the checks: the reactor is not   *)
(* stopped.                                                                *)
(***************************************************************************)
finish_without_stop ==
  /\ result' = IF complete /\ result = NoResult THEN [state |-> Verdict, counts |-> counts]
                                                 ELSE result
  /\ UNCHANGED stopped

finish_terminal ==
  IF complete /\ result = NoResult
    THEN result' = [state |-> Verdict, counts |-> counts] /\ stopped' = TRUE
    ELSE UNCHANGED <<result, stopped>>

Counted(c, which) == [c EXCEPT ![which] = @ + 1]

-----------------------------------------------------------------------------
(* The probes: OSProbe::build() and assess().                              *)

source_port_for(id) == id % PortSpan
local_source_address == IF "IPv4" \in sources THEN "IPv4" ELSE "IPv6"

(***************************************************************************)
(* build() needs a source of the host's family for IPv4; for IPv6 it takes *)
(* the unspecified address when the transport reports an IPv4 source.      *)
(***************************************************************************)
Builds == family = "IPv4" => local_source_address = "IPv4"

build(id, w) ==
  [id |-> id, work |-> w, protocol |-> kProbeOrder[w], source_port |-> source_port_for(id),
   sequence |-> id,
   identifier |-> IF kProbeOrder[w] = "Icmp" THEN id ELSE 0,
   source |-> IF family = local_source_address THEN family ELSE "unspecified"]

(***************************************************************************)
(* The packets of the network: answers to submission s, and stray segments *)
(* of the host with the ports of s that answer nothing.                    *)
(***************************************************************************)
PacketKinds(protocol) ==
  CASE protocol = "Tcp" -> {"SynAck", "RstAck", "Rst", "Stray"}
    [] protocol = "Icmp" -> {"EchoReply"}
    [] protocol = "Udp" -> {"Datagram", "PortUnreachable"}

Acknowledgment(s, kind) == IF kind \in {"SynAck", "RstAck"} THEN s.sequence + 1 ELSE 0

(***************************************************************************)
(* assess() of a packet by the probe it was attributed to.  Bytes that do  *)
(* not parse can only come from an injected transport.                     *)
(***************************************************************************)
assess(submission, s, kind) ==
  IF transport = "Linux" /\ submission.source # family THEN "Unrelated"
  ELSE IF kind = "Garbled" THEN "Malformed"
  ELSE CASE submission.protocol = "Tcp" ->
              IF \/ kind \in {"RstAck", "Rst"}
                 \/ kind = "SynAck" /\ Acknowledgment(s, kind) = submission.sequence + 1
                THEN "Matching" ELSE "Unrelated"
         [] submission.protocol = "Icmp" ->
              IF s.identifier = submission.identifier THEN "Matching" ELSE "Unrelated"
         [] submission.protocol = "Udp" -> "Matching"

-----------------------------------------------------------------------------
(* The Linux transport's correlation.                                      *)

(***************************************************************************)
(* The key that submit() stores for a probe, and the keys that match_tcp(),*)
(* match_udp() and match_icmp() look up for an IPv4 packet.                *)
(***************************************************************************)
Correlation(s) ==
  [target_ip |-> family, port |-> IF s.protocol = "Icmp" THEN 0 ELSE s.source_port,
   sequence |-> s.sequence, identity |-> s.identifier, protocol |-> s.protocol]

LookupKey(s, kind) ==
  [target_ip |-> "unset", port |-> IF s.protocol = "Icmp" THEN 0 ELSE s.source_port,
   sequence |-> IF s.protocol = "Tcp" THEN Acknowledgment(s, kind) - 1 ELSE 0,
   identity |-> s.identifier, protocol |-> s.protocol]

Looked(s, kind) == {c.id : c \in {d \in correlations : d.key = LookupKey(s, kind)}}
SamePorts(s) == {id \in DOMAIN wire : wire[id].source_port = s.source_port}
Only(ids) == IF Cardinality(ids) = 1 THEN ids ELSE {}

match_tcp(s, kind) ==
  IF family = "IPv6"
    THEN Only({id \in SamePorts(s) :
                 \/ kind = "SynAck" /\ Acknowledgment(s, kind) = wire[id].sequence + 1
                 \/ kind = "Rst"})
    ELSE IF Acknowledgment(s, kind) # 0 /\ Looked(s, kind) # {} THEN Looked(s, kind)
    ELSE Only(SamePorts(s))

match_udp(s, kind) == IF family = "IPv6" THEN SamePorts(s) ELSE Looked(s, kind)

match_icmp(s, kind) ==
  IF family = "IPv4" THEN Looked(s, kind)
  ELSE IF kind = "EchoReply" THEN {id \in DOMAIN wire : wire[id].identifier = s.identifier}
  ELSE SamePorts(s)

match(s, kind) ==
  IF transport = "Injected" THEN {s.id} \cap DOMAIN wire
  ELSE CASE kind \in {"SynAck", "RstAck", "Rst", "Stray"} -> match_tcp(s, kind)
         [] kind = "Datagram" -> match_udp(s, kind)
         [] kind \in {"EchoReply", "PortUnreachable"} -> match_icmp(s, kind)

(***************************************************************************)
(* Faulty variant, for the sensitivity of the checks: a cancelled probe    *)
(* keeps its correlation.                                                  *)
(***************************************************************************)
erase_keeps_correlation(id) == wire' = Without(wire, id) /\ UNCHANGED correlations

Erase(id) ==
  /\ wire' = Without(wire, id)
  /\ correlations' = {c \in correlations : c.id # id}

-----------------------------------------------------------------------------
(* submit(), pump(), start_or_retry().                                     *)

submit ==
  /\ phase = "created"
  /\ phase' = "submitting" /\ pumping' = "submit"
  /\ queue' = [i \in Work |-> [work |-> i, retry |-> 0]]
  /\ UNCHANGED <<configVars, pending, next_id, counts, result, status, timers, stopped,
                 transportVars, historyVars>>

(***************************************************************************)
(* The configuration is invalid, the database did not load or no host has  *)
(* an address: the result is there at once.                                *)
(***************************************************************************)
SubmitRefused(error) ==
  /\ phase = "created"
  /\ phase' = "refused" /\ status' = error
  /\ result' = [state |-> IF error = "NotFound" THEN "Unavailable" ELSE "Failed",
                counts |-> counts]
  /\ UNCHANGED <<configVars, queue, pending, next_id, counts, timers, stopped, pumping,
                 transportVars, historyVars>>

(***************************************************************************)
(* With adaptive timing the window is anywhere between one probe and       *)
(* max_outstanding.                                                        *)
(***************************************************************************)
PumpLoops ==
  /\ pumping # "no" /\ status = "Ok" /\ queue # <<>>
  /\ Cardinality(DOMAIN pending) < MaxOutstanding

PumpReturns ==
  /\ pumping # "no" /\ (~PumpLoops \/ (adaptive /\ pending # EmptyMap))
  /\ pumping' = "no"
  /\ phase' = IF pumping = "handler" THEN phase
              ELSE IF status = "Ok" THEN "submitted" ELSE "refused"
  /\ finish_terminal
  /\ UNCHANGED <<configVars, queue, pending, next_id, counts, status, timers, transportVars,
                 historyVars>>

NotSent(item, c, outcome) ==
  /\ queue' = Tail(queue) /\ counts' = c
  /\ fate' = [fate EXCEPT ![item.work] = outcome]
  /\ UNCHANGED <<phase, configVars, pending, result, timers, stopped, pumping, transportVars,
                 unheard>>

PumpUnsupported ==
  LET item == Head(queue) IN
  /\ PumpLoops /\ transport = "Injected" /\ item.work \in Unsupported
  /\ NotSent(item, Counted(counts, "unsupported"), "unsupported")
  /\ UNCHANGED <<next_id, status>>

Supported == PumpLoops /\ (transport = "Injected" => Head(queue).work \notin Unsupported)

PumpBuildFails ==
  /\ Supported /\ transport = "Linux" /\ ~Builds
  /\ next_id' = next_id + 1
  /\ NotSent(Head(queue), Counted(counts, "malformed"), "malformed")
  /\ UNCHANGED status

Building == Supported /\ (transport = "Linux" => Builds)

PumpTimerFails ==
  /\ Building /\ TimerMayFail
  /\ next_id' = next_id + 1 /\ status' = "InternalError"
  /\ NotSent(Head(queue), Counted(Counted(counts, "generated"), "malformed"), "malformed")

(***************************************************************************)
(* What the transport answers; a failure ends the loop, without a result   *)
(* while other probes wait.                                                *)
(***************************************************************************)
SubmitStatus ==
  IF transport = "Injected" THEN {"Ok"}
  ELSE IF family \in sources /\ neighbour
    THEN {"Ok"} \cup (IF SendMayFail THEN {"IoError"} ELSE {})
    ELSE {"PermissionDenied"}

PumpSubmitFails(error) ==
  /\ Building /\ error \in SubmitStatus \ {"Ok"}
  /\ next_id' = next_id + 1 /\ status' = error
  /\ NotSent(Head(queue), Counted(counts, "generated"), "unsent")

PumpSubmits ==
  LET item == Head(queue)
      submission == build(next_id, item.work)
      effective == [submission EXCEPT !.source = family]
  IN
  /\ Building /\ "Ok" \in SubmitStatus
  /\ queue' = Tail(queue) /\ next_id' = next_id + 1
  /\ counts' = Counted(Counted(counts, "generated"), "sent")
  /\ pending' = With(pending, next_id, [item |-> item, submission |-> submission])
  /\ timers' = timers \cup {next_id}
  /\ wire' = With(wire, next_id, effective)
  /\ correlations' = IF transport = "Injected" THEN correlations
                     ELSE correlations \cup {[key |-> Correlation(effective), id |-> next_id]}
  /\ sent' = sent \cup {effective}
  /\ UNCHANGED <<phase, configVars, result, status, stopped, pumping, historyVars>>

-----------------------------------------------------------------------------
(* The reactor and the network.                                            *)

Run ==
  /\ phase = "submitted"
  /\ phase' = "running" /\ stopped' = FALSE
  /\ UNCHANGED <<configVars, schedulerVars, timers, pumping, transportVars, historyVars>>

Idle == phase = "running" /\ pumping = "no"
Quiet == timers = {} /\ transport = "Injected"

RunReturns ==
  /\ Idle /\ (stopped \/ Quiet)
  /\ phase' = "returned"
  /\ finish_terminal
  /\ UNCHANGED <<configVars, queue, pending, next_id, counts, status, timers, pumping,
                 transportVars, historyVars>>

Dispatching == Idle /\ ~stopped

(***************************************************************************)
(* receive(): a packet that is not unrelated ends the probe.               *)
(***************************************************************************)
receive(id, disposition) ==
  LET outcome == IF disposition = "Malformed" THEN "malformed" ELSE "response" IN
  /\ pending' = Without(pending, id) /\ timers' = timers \ {id}
  /\ counts' = Counted(counts, outcome)
  /\ fate' = [fate EXCEPT ![pending[id].item.work] = outcome]
  /\ pumping' = "handler"

Heard(s, kind) == kind \notin {"Stray", "Garbled"} /\ s.id \in DOMAIN pending

(***************************************************************************)
(* dispatch_observation(): the transport's entry goes before the scheduler *)
(* has judged the packet; an injected transport keeps it.                  *)
(***************************************************************************)
Attributed(s, kind, id) ==
  LET disposition == assess(pending[id].submission, s, kind) IN
  /\ match(s, kind) = {id}
  /\ \/ /\ disposition = "Unrelated"
        /\ IF transport = "Linux" THEN Erase(id) ELSE UNCHANGED <<wire, correlations>>
        /\ unheard' = IF Heard(s, kind) THEN unheard \cup {s.id} ELSE unheard
        /\ UNCHANGED <<pending, timers, counts, fate, pumping>>
     \/ /\ disposition # "Unrelated"
        /\ receive(id, disposition) /\ Erase(id)
        /\ unheard' = IF Heard(s, kind) /\ s.id # id THEN unheard \cup {s.id} ELSE unheard

Unmatched(s, kind) ==
  /\ match(s, kind) = {} /\ Heard(s, kind)
  /\ unheard' = unheard \cup {s.id}
  /\ UNCHANGED <<pending, timers, counts, fate, pumping, wire, correlations>>

Arrives(s, kind) ==
  /\ Dispatching
  /\ Unmatched(s, kind) \/ \E id \in DOMAIN wire : Attributed(s, kind, id)
  /\ UNCHANGED <<phase, configVars, queue, next_id, result, status, stopped, sent>>

(***************************************************************************)
(* on_timeout(): only adaptive timing retries, at once and ahead of all.   *)
(***************************************************************************)
on_timeout(id) ==
  LET item == pending[id].item IN
  /\ Dispatching /\ id \in timers
  /\ pending' = Without(pending, id) /\ timers' = timers \ {id} /\ Erase(id)
  /\ counts' = Counted(counts, "timeout")
  /\ \/ /\ adaptive /\ item.retry < MaxRetries
        /\ queue' = <<[item EXCEPT !.retry = @ + 1]>> \o queue
        /\ UNCHANGED fate
     \/ /\ ~adaptive \/ item.retry >= MaxRetries
        /\ fate' = [fate EXCEPT ![item.work] = "timeout"]
        /\ UNCHANGED queue
  /\ pumping' = "handler"
  /\ UNCHANGED <<phase, configVars, next_id, result, status, stopped, sent, unheard>>

(***************************************************************************)
(* stop(), called by the stage's cancel() from another event.              *)
(***************************************************************************)
stop ==
  /\ Dispatching
  /\ queue' = <<>> /\ pending' = EmptyMap /\ timers' = timers \ DOMAIN pending
  /\ wire' = EmptyMap /\ correlations' = {}
  /\ result' = IF result = NoResult THEN [state |-> "Partial", counts |-> counts] ELSE result
  /\ stopped' = TRUE
  /\ fate' = [w \in Work |-> IF fate[w] = "None" THEN "cancelled" ELSE fate[w]]
  /\ UNCHANGED <<phase, configVars, next_id, counts, status, pumping, sent, unheard>>

Destroy ==
  /\ phase \in {"refused", "returned"}
  /\ phase' = "destroyed"
  /\ timers' = timers \ DOMAIN pending
  /\ pending' = EmptyMap /\ wire' = EmptyMap /\ correlations' = {}
  /\ UNCHANGED <<configVars, queue, next_id, counts, result, status, stopped, pumping, sent,
                 historyVars>>

-----------------------------------------------------------------------------
Setup == submit \/ \E error \in {"InvalidArgument", "NotFound", "ParseError"} : SubmitRefused(error)

pump ==
  \/ PumpReturns \/ PumpUnsupported \/ PumpBuildFails \/ PumpTimerFails \/ PumpSubmits
  \/ \E error \in {"IoError", "PermissionDenied"} : PumpSubmitFails(error)

Network ==
  \E s \in sent : \E kind \in PacketKinds(s.protocol) \cup
                              (IF transport = "Injected" THEN {"Garbled"} ELSE {}) : Arrives(s, kind)

Deadline == \E id \in DOMAIN pending : on_timeout(id)

(***************************************************************************)
(* The Linux capture keeps the reactor waiting although nothing is out.    *)
(***************************************************************************)
Waits == Dispatching /\ timers = {} /\ transport = "Linux" /\ UNCHANGED vars
Terminated == phase = "destroyed" /\ UNCHANGED vars

Next ==
  \/ Setup \/ pump \/ Run \/ RunReturns \/ Network \/ Deadline \/ stop \/ Destroy
  \/ Waits \/ Terminated

Spec == Init /\ [][Next]_vars

(***************************************************************************)
(* Fairness: handlers run to their end, due deadlines are dispatched, and  *)
(* run() leaves its loop.                                                  *)
(***************************************************************************)
FairSpec == Spec /\ WF_vars(pump) /\ WF_vars(Deadline) /\ WF_vars(RunReturns)

-----------------------------------------------------------------------------
(* Properties.                                                             *)

Places(w) ==
  Cardinality({i \in DOMAIN queue : queue[i].work = w})
    + Cardinality({id \in DOMAIN pending : pending[id].item.work = w})
    + (IF fate[w] = "None" THEN 0 ELSE 1)

Fated(outcome) == Cardinality({w \in Work : fate[w] = outcome})

(***************************************************************************)
(* The verdict accounts for every probe: each is in one place from         *)
(* submit() on, waiting, out or ended; the counters say how they ended;    *)
(* the result is emitted when no probe can change it any more; "Complete"  *)
(* means that every supported probe was answered and none timed out.       *)
(***************************************************************************)
ResultAccounts ==
  /\ phase \in {"submitting", "submitted", "running", "returned"} =>
       \A w \in Work : Places(w) = 1
  /\ counts.response = Fated("response") /\ counts.malformed = Fated("malformed")
  /\ counts.unsupported = Fated("unsupported")
  /\ counts.generated >= counts.sent /\ counts.timeout >= Fated("timeout")
  /\ result # NoResult => result.counts = counts
  /\ result.state = "Complete" =>
       \A w \in Work : fate[w] \in {"response", "unsupported"}
  /\ phase = "returned" /\ status = "Ok" => result # NoResult

(***************************************************************************)
(* The reactor's timers are those of the probes that are out; every entry  *)
(* of the transport, and every correlation of an entry, belongs to a probe *)
(* that is out: cancelled, expired and answered probes leave nothing that  *)
(* a late packet could reach.                                              *)
(***************************************************************************)
TablesAgree ==
  /\ timers = DOMAIN pending /\ Cardinality(timers) <= MaxOutstanding
  /\ DOMAIN wire \subseteq DOMAIN pending
  /\ {c.id : c \in correlations} = IF transport = "Linux" THEN DOMAIN wire ELSE {}

(***************************************************************************)
(* A run that starts with probes out ends, whatever the network does.      *)
(***************************************************************************)
RunEnds == (phase = "running" /\ ~complete) ~> (phase # "running" \/ status # "Ok")

(***************************************************************************)
(* An answer of an IPv4 host to a UDP probe, its datagram or its port      *)
(* unreachable message, that arrives while the probe is out counts for the *)
(* probe: "UDP correlation validates the local/remote addresses and        *)
(* reversed response ports" (ARCHITECTURE.md:640).                         *)
(***************************************************************************)
UdpAnswersCount ==
  family = "IPv4" => \A s \in sent : s.protocol = "Udp" => s.id \notin unheard
=============================================================================
