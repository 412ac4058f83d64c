------------------------- MODULE DiscoveryScheduler -------------------------
(***************************************************************************)
(* Host discovery: DiscoveryScheduler (src/discovery) over                 *)
(* LinuxDiscoveryTransport (src/net), on the shared reactor.               *)
(*                                                                         *)
(* The scheduler sends each probe type once to each host and keeps one     *)
(* result per probe.  The transport keeps its own table of probes, solicits*)
(* the neighbour's address first where it must, and drops its entry when   *)
(* it hands a response up.  The scheduler has no way to tell the transport *)
(* that a deadline has passed, so the two tables drift apart: answers can  *)
(* come late, also when the reactor already serves the next stage.         *)
(*                                                                         *)
(* Time is abstract: an armed timer may fire at any moment.  A timer is    *)
(* named by what it will call, since a probe has at most one of each kind. *)
(***************************************************************************)
EXTENDS Naturals, Sequences, FiniteSets

CONSTANTS
  Target,          \* target.resolved_hosts, a sequence without repetition
  Neighbours,      \* the hosts whose link address must be solicited (IPv6)
  Probes,          \* config.probes, a sequence of probe types
  MaxOutstanding,  \* config.max_outstanding
  CacheLimit,      \* kMaximumNeighborCacheEntries
  SubmitMayFail,   \* build() or transport.submit() may fail
  TimerMayFail,    \* engine.schedule() may return 0
  EngineMayFail    \* epoll_wait() may fail

Hosts == {Target[i] : i \in DOMAIN Target}

ASSUME DiscoveryAssumption ==
  /\ Target \in Seq(Hosts) /\ Target # <<>> /\ Neighbours \subseteq Hosts
  /\ \A i, j \in DOMAIN Target : Target[i] = Target[j] => i = j
  /\ Probes \in Seq({"IcmpEcho", "Tcp", "Arp"}) /\ Probes # <<>>
  /\ \A i, j \in DOMAIN Probes : Probes[i] = Probes[j] => i = j
  /\ MaxOutstanding \in Nat \ {0} /\ CacheLimit \in Nat \ {0}
  /\ SubmitMayFail \in BOOLEAN /\ TimerMayFail \in BOOLEAN /\ EngineMayFail \in BOOLEAN

VARIABLES
  phase,            \* submitting, submitted or refused, running, returned, destroyed
  unsubmitted,      \* the hosts submit() has not reached yet
  first_error,      \* what submit() will return
  run_status,       \* what run() returned
  work_queue,       \* work_queue_
  pumping,          \* who called pump(): "no", "submit", or a "handler"
  pending,          \* pending_: the work of each probe id
  next_probe_id,    \* next_probe_id_
  results,          \* results_ and evidence_: the states recorded for each probe
  timers,           \* IOEngine::timers_
  stopped,          \* IOEngine::stopped_
  wire,             \* LinuxDiscoveryTransport::pending_
  neighbor_timers,  \* neighbor_timers_
  neighbor_cache,   \* neighbor_cache_: for each host, is its entry fresh, and its rank by expires_at
  sent,             \* history: the work of every id handed to the transport
  answered          \* history: the probes answered while their deadline was armed

schedulerVars == <<work_queue, pumping, pending, next_probe_id, results>>
transportVars == <<wire, neighbor_timers, neighbor_cache>>
callerVars == <<phase, unsubmitted, first_error, run_status>>
vars == <<schedulerVars, transportVars, callerVars, timers, stopped, sent, answered>>

-----------------------------------------------------------------------------
ProbeTypes == {Probes[i] : i \in DOMAIN Probes}
Work == [host : Hosts, type : ProbeTypes]
HostState == {"Unknown", "Up", "Unreachable"}

EmptyMap == [x \in {} |-> x]
Without(f, x) == [y \in DOMAIN f \ {x} |-> f[y]]
With(f, x, v) == [y \in DOMAIN f \cup {x} |-> IF y = x THEN v ELSE f[y]]
Expire(id) == [handler |-> "expire", id |-> id]
NeighborExpire(id) == [handler |-> "neighbor", id |-> id]

Init ==
  /\ phase = "submitting" /\ unsubmitted = Target
  /\ first_error = "Ok" /\ run_status = "Ok"
  /\ work_queue = <<>> /\ pumping = "no" /\ pending = EmptyMap /\ next_probe_id = 1
  /\ results = [h \in Hosts |-> [t \in ProbeTypes |-> <<>>]]
  /\ timers = {} /\ stopped = FALSE
  /\ wire = {} /\ neighbor_timers = {} /\ neighbor_cache = EmptyMap
  /\ sent = EmptyMap /\ answered = {}

(***************************************************************************)
(* The state of a result; reasons and round-trip times are left out.       *)
(***************************************************************************)
append_result(work, state) ==
  results' = [results EXCEPT ![work.host][work.type] = Append(@, state)]

complete == DOMAIN pending = {} /\ work_queue = <<>>

-----------------------------------------------------------------------------
(* submit(): host by host, each with its own pump().                       *)

Remember(error) == first_error' = IF first_error = "Ok" THEN error ELSE first_error

Submitting(h) ==
  /\ phase = "submitting" /\ pumping = "no" /\ unsubmitted # <<>> /\ h = Head(unsubmitted)
  /\ unsubmitted' = Tail(unsubmitted)
  /\ UNCHANGED <<phase, run_status, pending, next_probe_id, timers, stopped,
                 transportVars, sent, answered>>

SubmitInvalidHost(h) ==
  /\ Submitting(h)
  /\ append_result([host |-> h, type |-> Probes[1]], "Unknown")
  /\ Remember("InvalidArgument")
  /\ UNCHANGED <<work_queue, pumping>>

Fits == Cardinality(DOMAIN pending) + Len(work_queue) + Len(Probes) <= MaxOutstanding

(***************************************************************************)
(* A host that does not fit is refused without a result; the hosts before  *)
(* it stay submitted.                                                      *)
(***************************************************************************)
SubmitTooMany(h) ==
  /\ ~Fits
  /\ Submitting(h)
  /\ Remember("IoError")
  /\ UNCHANGED <<work_queue, pumping, results>>

submit_host(h) ==
  /\ Fits
  /\ Submitting(h)
  /\ work_queue' = work_queue \o [i \in DOMAIN Probes |-> [host |-> h, type |-> Probes[i]]]
  /\ pumping' = "submit"
  /\ UNCHANGED <<first_error, results>>

SubmitReturns ==
  /\ phase = "submitting" /\ pumping = "no" /\ unsubmitted = <<>>
  /\ phase' = IF first_error = "Ok" THEN "submitted" ELSE "refused"
  /\ UNCHANGED <<unsubmitted, first_error, run_status, schedulerVars, timers, stopped,
                 transportVars, sent, answered>>

-----------------------------------------------------------------------------
(* pump() and submit_one().                                                *)

PumpLoops == pumping # "no" /\ work_queue # <<>> /\ Cardinality(DOMAIN pending) < MaxOutstanding

(***************************************************************************)
(* Faulty variant, for the sensitivity of the checks: no handler stops the *)
(* reactor.                                                                *)
(***************************************************************************)
returns_without_stop ==
  /\ pumping # "no" /\ ~PumpLoops
  /\ pumping' = "no"
  /\ UNCHANGED <<callerVars, work_queue, pending, next_probe_id, results, timers, stopped,
                 transportVars, sent, answered>>

(***************************************************************************)
(* A handler stops the reactor once nothing is left; submit() does not.    *)
(***************************************************************************)
PumpReturns ==
  /\ pumping # "no" /\ ~PumpLoops
  /\ pumping' = "no"
  /\ stopped' = (stopped \/ (pumping = "handler" /\ complete))
  /\ UNCHANGED <<callerVars, work_queue, pending, next_probe_id, results, timers,
                 transportVars, sent, answered>>

Cached(h) == h \in DOMAIN neighbor_cache /\ neighbor_cache[h].fresh

(***************************************************************************)
(* destination_mac() drops a stale entry when it meets one.                *)
(***************************************************************************)
LookedUp(h) ==
  IF h \in DOMAIN neighbor_cache /\ ~Cached(h) THEN Without(neighbor_cache, h)
                                                ELSE neighbor_cache

(***************************************************************************)
(* build() fails, or the transport refuses the probe, before or after it   *)
(* has looked for the link address.                                        *)
(***************************************************************************)
PumpRefused ==
  /\ SubmitMayFail /\ PumpLoops
  /\ work_queue' = Tail(work_queue) /\ next_probe_id' = next_probe_id + 1
  /\ append_result(Head(work_queue), "Unknown")
  /\ neighbor_cache' \in {neighbor_cache, LookedUp(Head(work_queue).host)}
  /\ UNCHANGED <<callerVars, pumping, pending, timers, stopped, wire, neighbor_timers,
                 sent, answered>>

Solicits(h) == h \in Neighbours /\ ~Cached(h)

(***************************************************************************)
(* transport.submit() accepts the probe: it is on the wire, or waits there *)
(* for the neighbour's address.                                            *)
(***************************************************************************)
Transmit(work, id) ==
  /\ wire' = wire \cup {id}
  /\ neighbor_cache' = LookedUp(work.host)
  /\ neighbor_timers' = IF Solicits(work.host) THEN neighbor_timers \cup {id} ELSE neighbor_timers
  /\ sent' = With(sent, id, work)

(***************************************************************************)
(* The timers the transport may have armed: it does not look at the id     *)
(* schedule() returns, so a probe can wait for its neighbour without one.  *)
(***************************************************************************)
NeighborTimer(work, id) ==
  IF Solicits(work.host) THEN {{NeighborExpire(id)}} \cup (IF TimerMayFail THEN {{}} ELSE {})
                         ELSE {{}}

PumpSubmits ==
  LET work == Head(work_queue) id == next_probe_id IN
  /\ PumpLoops
  /\ work_queue' = Tail(work_queue) /\ next_probe_id' = id + 1
  /\ Transmit(work, id)
  /\ pending' = With(pending, id, work)
  /\ \E t \in NeighborTimer(work, id) : timers' = timers \cup t \cup {Expire(id)}
  /\ UNCHANGED <<callerVars, pumping, results, stopped, answered>>

(***************************************************************************)
(* The probe is out but its deadline cannot be armed: the scheduler gives  *)
(* it up, the transport is not told.                                       *)
(***************************************************************************)
PumpTimerFails ==
  LET work == Head(work_queue) id == next_probe_id IN
  /\ TimerMayFail /\ PumpLoops
  /\ work_queue' = Tail(work_queue) /\ next_probe_id' = id + 1
  /\ Transmit(work, id)
  /\ \E t \in NeighborTimer(work, id) : timers' = timers \cup t
  /\ append_result(work, "Unknown")
  /\ UNCHANGED <<callerVars, pumping, pending, stopped, answered>>

-----------------------------------------------------------------------------
(* The reactor.  After run() has returned Ok it serves the next stages,    *)
(* with this transport's capture and timers still registered.              *)

Run ==
  /\ phase = "submitted"
  /\ phase' = "running" /\ stopped' = FALSE
  /\ UNCHANGED <<unsubmitted, first_error, run_status, schedulerVars, timers,
                 transportVars, sent, answered>>

RunReturns ==
  /\ phase = "running" /\ pumping = "no" /\ stopped
  /\ phase' = "returned"
  /\ UNCHANGED <<unsubmitted, first_error, run_status, schedulerVars, timers, stopped,
                 transportVars, sent, answered>>

EngineFails ==
  /\ EngineMayFail /\ phase = "running" /\ pumping = "no" /\ ~stopped
  /\ phase' = "returned" /\ run_status' = "IoError"
  /\ UNCHANGED <<unsubmitted, first_error, schedulerVars, timers, stopped,
                 transportVars, sent, answered>>

Dispatching ==
  /\ pumping = "no"
  /\ \/ phase = "running" /\ ~stopped
     \/ phase = "returned" /\ run_status = "Ok"

(***************************************************************************)
(* The end of a pending probe: its result, its timer, its entry, and then  *)
(* pump().                                                                 *)
(***************************************************************************)
Finish(id, state) ==
  /\ append_result(pending[id], state)
  /\ timers' = timers \ {Expire(id)}
  /\ pending' = Without(pending, id)
  /\ pumping' = "handler"

(***************************************************************************)
(* Faulty variant, for the sensitivity of the checks: an answer counts     *)
(* whenever it comes.                                                      *)
(***************************************************************************)
receive_late(id, kind) ==
  \/ /\ kind = "Matching"
     /\ append_result(sent[id], "Up")
     /\ pending' = Without(pending, id) /\ timers' = timers \ {Expire(id)}
     /\ pumping' = "handler"
  \/ /\ kind # "Matching"
     /\ UNCHANGED <<pending, pumping, results, timers>>

(***************************************************************************)
(* receive(): a response for an id that is not pending is late or a        *)
(* duplicate and only counted; an unrelated one is ignored.                *)
(***************************************************************************)
receive(id, kind) ==
  \/ /\ id \notin DOMAIN pending \/ kind = "Unrelated"
     /\ UNCHANGED <<pending, pumping, results, timers>>
  \/ /\ id \in DOMAIN pending /\ kind = "Matching"
     /\ Finish(id, "Up")
  \/ /\ id \in DOMAIN pending /\ kind = "Unreachable"
     /\ Finish(id, "Unreachable")
  \/ /\ id \in DOMAIN pending /\ kind = "Malformed"
     /\ Finish(id, "Unknown")

(***************************************************************************)
(* dispatch_observation(): the transport matches a packet with one of its  *)
(* probes, forgets the probe, and only then asks the scheduler, which may  *)
(* find the packet unrelated.  A probe that still waits for its neighbour  *)
(* is matched too.  The packet is in time while the deadline is armed.     *)
(***************************************************************************)
Respond(id, kind) ==
  /\ Dispatching /\ id \in wire
  /\ wire' = wire \ {id}
  /\ receive(id, kind)
  /\ answered' = IF kind = "Matching" /\ Expire(id) \in timers THEN answered \cup {id} ELSE answered
  /\ UNCHANGED <<callerVars, work_queue, next_probe_id, stopped, neighbor_timers,
                 neighbor_cache, sent>>

(***************************************************************************)
(* The cache after an advertisement: stale entries go, the oldest one too  *)
(* if there is no room, and the neighbour is the youngest.  The entries    *)
(* are ranked anew, from 0 for the one that expires first.                 *)
(***************************************************************************)
Oldest(hosts) ==
  CHOOSE h \in hosts : \A x \in hosts : neighbor_cache[h].rank <= neighbor_cache[x].rank

Kept(h) ==
  LET fresh == {x \in DOMAIN neighbor_cache : Cached(x)} IN
  IF h \notin fresh /\ Cardinality(fresh) >= CacheLimit THEN fresh \ {Oldest(fresh)}
                                                        ELSE fresh \ {h}

Rank(h, hosts) == Cardinality({x \in hosts : neighbor_cache[x].rank < neighbor_cache[h].rank})

RememberNeighbor(h) ==
  [x \in Kept(h) \cup {h} |->
    [fresh |-> TRUE, rank |-> IF x = h THEN Cardinality(Kept(h)) ELSE Rank(x, Kept(h))]]

(***************************************************************************)
(* A neighbour advertisement for a waiting probe: the probe is sent now.   *)
(* If that fails the transport forgets it and the deadline will decide.    *)
(***************************************************************************)
NeighborAnswers(id, ok) ==
  /\ Dispatching /\ id \in neighbor_timers /\ id \in wire
  /\ neighbor_cache' = RememberNeighbor(sent[id].host)
  /\ timers' = timers \ {NeighborExpire(id)}
  /\ neighbor_timers' = neighbor_timers \ {id}
  /\ wire' = IF ok THEN wire ELSE wire \ {id}
  /\ UNCHANGED <<callerVars, schedulerVars, stopped, sent, answered>>

NeighborTimesOut(id) ==
  /\ Dispatching /\ NeighborExpire(id) \in timers
  /\ timers' = timers \ {NeighborExpire(id)}
  /\ neighbor_timers' = neighbor_timers \ {id}
  /\ wire' = wire \ {id}
  /\ UNCHANGED <<callerVars, schedulerVars, stopped, neighbor_cache, sent, answered>>

(***************************************************************************)
(* Thirty seconds after an advertisement its entry is stale.               *)
(***************************************************************************)
NeighborAges ==
  \E h \in DOMAIN neighbor_cache :
    /\ Cached(h)
    /\ \A x \in DOMAIN neighbor_cache : neighbor_cache[x].rank < neighbor_cache[h].rank => ~Cached(x)
    /\ neighbor_cache' = [neighbor_cache EXCEPT ![h].fresh = FALSE]
    /\ UNCHANGED <<callerVars, schedulerVars, timers, stopped, wire, neighbor_timers,
                   sent, answered>>

(***************************************************************************)
(* expire(): the engine has already erased the timer.                      *)
(***************************************************************************)
expire(id) ==
  /\ Dispatching /\ Expire(id) \in timers /\ id \in DOMAIN pending
  /\ Finish(id, "Unknown")
  /\ UNCHANGED <<callerVars, work_queue, next_probe_id, stopped, transportVars, sent,
                 answered>>

(***************************************************************************)
(* Faulty variant, for the sensitivity of the checks: the transport leaves *)
(* its solicitation timers armed.                                          *)
(***************************************************************************)
destroy_keeps_neighbor_timers ==
  /\ phase \in {"returned", "refused"}
  /\ phase' = "destroyed"
  /\ timers' = timers \ {Expire(id) : id \in DOMAIN pending}
  /\ pending' = EmptyMap /\ work_queue' = <<>>
  /\ wire' = {} /\ neighbor_timers' = {} /\ neighbor_cache' = EmptyMap
  /\ UNCHANGED <<unsubmitted, first_error, run_status, pumping, next_probe_id, results,
                 stopped, sent, answered>>

(***************************************************************************)
(* ~DiscoveryScheduler() and then LinuxDiscoveryTransport::close().        *)
(***************************************************************************)
Destroy ==
  /\ phase \in {"returned", "refused"}
  /\ phase' = "destroyed"
  /\ timers' = timers \ ({Expire(id) : id \in DOMAIN pending}
                           \cup {NeighborExpire(id) : id \in neighbor_timers})
  /\ pending' = EmptyMap /\ work_queue' = <<>>
  /\ wire' = {} /\ neighbor_timers' = {} /\ neighbor_cache' = EmptyMap
  /\ UNCHANGED <<unsubmitted, first_error, run_status, pumping, next_probe_id, results,
                 stopped, sent, answered>>

-----------------------------------------------------------------------------
Submit ==
  \/ \E h \in Hosts : SubmitInvalidHost(h) \/ SubmitTooMany(h) \/ submit_host(h)
  \/ SubmitReturns

Pump ==
  PumpReturns \/ PumpSubmits \/ PumpRefused \/ PumpTimerFails

Deadline == \E id \in DOMAIN pending : expire(id)

Network ==
  \/ \E id \in wire : \E k \in {"Matching", "Unreachable", "Malformed", "Unrelated"} :
       Respond(id, k)
  \/ \E id \in neighbor_timers : \E ok \in BOOLEAN : NeighborAnswers(id, ok)
  \/ \E id \in neighbor_timers : NeighborTimesOut(id)
  \/ NeighborAges

Terminated == phase = "destroyed" /\ UNCHANGED vars

Next ==
  \/ Submit \/ Pump \/ Run \/ RunReturns \/ EngineFails
  \/ Deadline \/ Network \/ Destroy \/ Terminated

Spec == Init /\ [][Next]_vars

(***************************************************************************)
(* Fairness.  A handler runs to its end, due deadlines are dispatched, and *)
(* run() leaves its loop once stopped.  Nothing is assumed of the network  *)
(* or of the caller.                                                       *)
(***************************************************************************)
FairSpec == Spec /\ WF_vars(Pump) /\ WF_vars(Deadline) /\ WF_vars(RunReturns)

-----------------------------------------------------------------------------
(* Properties.                                                             *)

(***************************************************************************)
(* Every variable keeps its shape.                                         *)
(***************************************************************************)
TypeOK ==
  /\ phase \in {"submitting", "submitted", "refused", "running", "returned", "destroyed"}
  /\ unsubmitted \in Seq(Hosts)
  /\ first_error \in {"Ok", "InvalidArgument", "IoError"} /\ run_status \in {"Ok", "IoError"}
  /\ work_queue \in Seq(Work) /\ pumping \in {"no", "submit", "handler"}
  /\ pending \in [DOMAIN pending -> Work] /\ DOMAIN pending \subseteq 1..(next_probe_id - 1)
  /\ next_probe_id \in Nat \ {0}
  /\ results \in [Hosts -> [ProbeTypes -> Seq(HostState)]]
  /\ stopped \in BOOLEAN
  /\ wire \subseteq DOMAIN sent /\ neighbor_timers \subseteq DOMAIN sent
  /\ DOMAIN neighbor_cache \subseteq Neighbours
  /\ neighbor_cache \in [DOMAIN neighbor_cache -> [fresh : BOOLEAN, rank : Nat]]

Queued(h, t) == \E i \in DOMAIN work_queue : work_queue[i] = [host |-> h, type |-> t]
Out(h, t) == \E id \in DOMAIN pending : pending[id] = [host |-> h, type |-> t]

(***************************************************************************)
(* Each probe gets one verdict, and the right one: never two results, none *)
(* while it is queued or out, and one when run() returns Ok, also for the  *)
(* probes that could not be built, sent or timed.  It is "Up" exactly when *)
(* the probe was answered in time: not by an answer to another probe, not  *)
(* after the deadline, and not by packets that reach the transport while   *)
(* the reactor runs later stages.                                          *)
(***************************************************************************)
OneVerdict ==
  /\ TypeOK
  /\ \A h \in Hosts : \A t \in ProbeTypes :
       /\ Len(results[h][t]) <= 1
       /\ Queued(h, t) \/ Out(h, t) => results[h][t] = <<>>
       /\ phase = "returned" /\ run_status = "Ok" => results[h][t] # <<>>
       /\ (\E i \in DOMAIN results[h][t] : results[h][t][i] = "Up")
            <=> \E id \in answered : sent[id] = [host |-> h, type |-> t]

(***************************************************************************)
(* Scheduler, reactor and transport agree.  Every pending probe has its    *)
(* deadline armed, and an armed timer belongs to a pending probe or to a   *)
(* solicitation of the transport, so after the destructors none can call a *)
(* destroyed object.  The admission test bounds queue and pending          *)
(* together, so pump() always empties the queue and no probe waits for a   *)
(* slot that nothing frees.  The neighbour cache keeps within its limit.   *)
(***************************************************************************)
TablesAgree ==
  /\ {Expire(id) : id \in DOMAIN pending} \subseteq timers
  /\ timers \subseteq {Expire(id) : id \in DOMAIN pending}
                        \cup {NeighborExpire(id) : id \in neighbor_timers}
  /\ Cardinality(DOMAIN pending) + Len(work_queue) <= MaxOutstanding
  /\ pumping = "no" => work_queue = <<>>
  /\ Cardinality(DOMAIN neighbor_cache) <= CacheLimit

(***************************************************************************)
(* A run with a probe out comes to an end, without any help from the       *)
(* network.                                                                *)
(***************************************************************************)
RunEnds == (phase = "running" /\ DOMAIN pending # {}) ~> (phase # "running")

(***************************************************************************)
(* Every run comes to an end, also one whose probes all failed to be sent: *)
(* a transport error ends the stage with an error (ARCHITECTURE.md,        *)
(* failure semantics).                                                     *)
(***************************************************************************)
EveryRunEnds == (phase = "running") ~> (phase # "running")
=============================================================================
