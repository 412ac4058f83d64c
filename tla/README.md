# Skan: a TLA+ model of the scanner's core

Skan is a network scanner. One thread runs a reactor (`IOEngine`), and the stages of a scan (host
discovery, TCP port scan, UDP scan, service detection, OS detection) run on it one after the other, each
with a scheduler that sends probes through a transport and waits for answers or deadlines. There are no
locks and hardly any threads; what makes the code hard is that handlers re-enter each other, that answers,
deadlines, retries and cancellations meet in every order, and that any call of the system can fail half-way.

This directory models that control. Packets, text and tables are abstracted to what the properties tell
apart. TLC checks small instances; TLAPS proves the safety of every machine among them (the five schedulers of
the stages, the adaptive scheduler, the pipeline, the reactor and the raw transport) for every instance.

## Inventory

| Component (source) | State | Operations | What is hard | What makes it correct | Here |
|---|---|---|---|---|---|
| TCP port scan scheduler (`portscan/port_scheduler`) | queue, pending attempts, deferred retries, results, ids, congestion window | `submit`, `pump`, `receive`, `on_timeout`, `on_retry_ready`, `run`, destructor | `transport.submit()` may complete a probe at once and re-enter `pump()`; deadline against answer; a failure in mid-batch | one final verdict per pair, none lost, callbacks match work, the run ends | `PortScanScheduler` |
| Port state semantics (`portscan/tcp_*.cpp`, `port_types.cpp`) | none | `assess`, timeout verdicts, `valid_port_result_semantics` | three methods, many kinds of evidence | what is published is what the report accepts | `PortSemantics` |
| Timing and congestion (`scanengine/congestion`, `scan_engine`) | window, streaks | `on_response`, `on_timeout` | truncation, clamping | the window stays within the profile | `Congestion` |
| IO engine (`io/io_engine`) | registrations, tokens, timer heap and map, `stopped_` | `add`, `remove`, `schedule`, `cancel`, `run`, `run_once`, `stop`, `shutdown` | callbacks change what the loop walks over | no stale dispatch, no lost timer, stop obeyed | `IOEngine` |
| Adaptive scheduler and scan group (`scanengine/adaptive_scheduler`, `scan_group`) | items with a lifecycle, queue, pending | `enqueue`, `pump`, `on_response`, `on_timeout`, `fail`, `cancel`, `run`, `shutdown` | two records of one item's state | they agree, terminal is terminal | `AdaptiveScheduler` |
| Host discovery (`discovery/`, `net/linux_discovery_transport`) | queue, pending probes; the transport's own table, neighbour timers and cache | `submit`, `pump`, `receive`, `expire`, `run`; `submit`, packet dispatch, `close` | two tables that drift apart; the transport outlives its stage's run | one verdict per probe, only from answers in time | `DiscoveryScheduler` |
| Session, pipeline, stages, report (`orchestrator/`) | state, cancel flag, stages, results, report, output file | `run`, `cancel`, events | the observer may cancel inside any event; power loss while writing | ordered events, resources released, partial report complete, file whole | `ScanPipeline` |
| UDP scan (`portscan/udp_scan`, `net/udp_network_scan_transport`) | queue, pending attempts, source port pool; the transport's table | `open`, `submit`, `pump`, `receive`, `on_timeout`, capture events, destructor | ports are reused while old packets travel; steps of one send fail one by one | one place per pair, no leaked port, evidence of the right pair only | `UdpScan` |
| Service detection (`detect/`) | work with several probes, pending, deferred retries; connections, routes | `submit`, `pump`, `receive`, timeouts; connect, read, write, close, `cancel` | callbacks inside `submit()` and inside callbacks; matches withdrawn by later chunks | one answer per open port, resting on what was heard last | `ServiceScan`, `Matching` |
| OS detection (`osdetect/`, `net/linux_os_probe_transport`) | probe queue, pending, counters, result; entries and correlations | `submit`, `pump`, `receive`, `on_timeout`; packet dispatch | incomplete evidence, two tables, keys built in several places | the verdict accounts for every probe | `OsScan`, `Matching` |
| Raw transport, capture, correlation (`net/network_scan_transport`, `packet_receiver`, `capture`) | session counters, pending probes, correlation table, descriptors | `open`, `submit`, capture event, `cancel`, `expire`, `close` | callbacks re-enter while the map is walked; keys repeat; damaged frames | each answer reaches its probe, each probe is counted once | `RawScanTransport`, `Routing` |
| Target engine (`target/`) and port lists | none | parsing, expansion, exclusion, limits | boundaries of ranges, wrap-around | exactly the addresses the text denotes, within the limit | `TargetEngine` |
| Databases (`db/`, `detect/service_db`) | tables | load, look up, order probes | fallbacks | a port's probes are of its protocol, each once | `Matching`; text parsing is not modelled |
| Command line (`main.cpp`, `net/interface.cpp`), C API | none | options, validation, choice of the interface, profiles | options override each other in order | what is accepted is what runs | `CommandLine` |
| Packet codecs (`packet/`) | none | serialize, parse, checksum | bytes | - | only the walk over a received frame, in `RawScanTransport` |
| Output writers, terminal (`output/`) | none | write a finished report | formatting | - | not modelled; a writer can fail in `ScanPipeline` |
| Corpus and comparison tools (`tools/`) | files | Python data tools | - | - | not modelled: not part of the scanner |

How they interact: `ScanPipeline::run()` builds one stage after the other on the session's single `IOEngine`.
A stage opens its transport (a raw one registers its capture descriptor with the engine), submits the work to
its scheduler and calls `run()`. The engine calls back the scheduler's deadlines and the transport's
descriptor events; the transport hands answers to the scheduler; the scheduler calls `stop()` when it has
nothing left. Results are copied into the pipeline, told to the observer, and built into the report. Stages
are kept until the pipeline is destroyed or cancelled, so the capture of an earlier stage stays registered
during later ones.

## Modules

- `PortSemantics`: `assess()` of the three TCP probes, timeout verdicts, the confirmation rule, and the table
  of results the report accepts. Pure operators.
- `Congestion`: the congestion window as a record and its two updates. Pure operators.
- `PortScanScheduler` (extends both): the scheduler on the reactor's timers and a transport. A pair is queued,
  pending, deferred, or published. `frames` is the stack of active `pump()` calls, each with the limit it
  computed on entry; the reactor acts only when it is empty. The transport refuses a probe, answers at once,
  answers later, stays silent, or (raw) fails all its probes after a capture error.
- `PortScanContract`: what a stage relies on, whichever scan of ports it runs: final verdicts, one per pair, and
  an end that is either complete or failed. `PortScanRefinement`, `UdpScanRefinement` and `ServiceScanRefinement`
  map the TCP scan, the UDP scan and service detection (whose pairs are the open ports) to it; `KeepsContract` is
  `Contract!Spec` in each. A UDP transport that fails to open ends the contract's scan before a scheduler has
  said anything (`Unopened`).
- `IOEngine`: the reactor by itself, with callbacks that call it back in every way. Time is a counter.
- `AdaptiveScheduler` (extends `Congestion`): the generic scheduler with its scan group.
- `DiscoveryScheduler`: scheduler and Linux transport together, each with its own table. The neighbour cache
  maps a host to its freshness and to its rank by time of expiry.
- `ScanPipeline`: session, stages, report and output file.
- `UdpScan` (extends `PortSemantics`): UDP scheduler and Linux transport together, from opening the transport
  to its destruction. A packet carries the pair that sent it, so that evidence can be traced.
- `ServiceScan`: scheduler, router and both socket transports. A match is a strength; `kept` and `now` in the
  work item are history, what was heard before and in the last parse of an HTTP response.
- `OsScan`: scheduler with either transport; `fate` is history, what became of each probe.
- `RawScanTransport`: the raw transport of the port scan as a machine of its own. The scheduler is any caller
  that submits, cancels, expires and closes, also from inside its callbacks; the network loses, delays,
  duplicates, reorders and damages. A frame is the list of layers that the parser meets.
- `TargetEngine`, `CommandLine` (extends it), `Matching`, `Routing`: pure operators. `ScanInputs` extends all
  four and states what each must compute, against reference definitions over sets.
- `PortSemantics` also has the UDP rows of the table of results.
- `MC*`: the instances for TLC. `*Proofs`: lemmas and theorems.

Definitions keep the names of the functions they translate; variables are commented with the member they
stand for; `PROJECT.json` maps each definition to its lines. Definitions marked "Faulty variant" are the
plausible mistakes that each property is shown to detect; no specification uses them.

## Runs

| Run | Instance | Distinct states | Shows |
|---|---|---|---|
| `portscan_connect` | 3 pairs (symmetric), 2 outstanding, 2 retries, window 1..3, all failures | 147 080 | no pair lost or reported twice, callbacks match work, counters survive retries, no probe beyond the window, the contract holds |
| `portscan_syn` | 2 pairs, 2 outstanding, 1 retry, capture errors | 84 974 | the verdict does not depend on the order of evidence; the run ends |
| `io_engine` | 2 events, 3 registrations, 2 timers, 2 instants | 259 424 | no stale readiness, no lost, early or starved timer, stop and shutdown from callbacks obeyed |
| `adaptive` | 2 items, 1 retry, window 1..2, all failures | 13 658 | group, scheduler, transport and reactor agree; the run ends |
| `pipeline` | 2 hosts, 9 configurations, 2 calls of `run()` | 60 470 | order of events, release on cancel, complete reports and honest answers, atomic output |
| `discovery` | 2 hosts x 2 probes, 3 outstanding, neighbour cache of 1, all failures | 638 509 | one verdict per probe from answers in time, tables agree, the run ends |
| `discovery_unsent` | the same | violation | finding 1 |
| `udp` | 3 pairs on an IPv4 and an IPv6 host, 2 source ports, limits 2 and 3, 1 retry, all failures | 602 175 | one place per pair, no leaked port, evidence never crosses pairs, the run ends, the contract holds |
| `service` | 4 ports (TCP with two probes, UDP, no probe, no address), limits 1 and 2, 1 retry, 2 chunks | 401 029 | one place per port, sockets and timers match, no withdrawn match published, the run ends, the contract holds |
| `os` | one probe of each protocol, both transports and families, 2 outstanding, 1 retry | 145 517 | the verdict accounts for every probe, tables agree, the run ends |
| `os_answers` | the same, no retry, no failure | violation | finding 2 |
| `foundations` | 3 probes of which two share all ports, and every small input of the algorithms | 585 880 | see below |

`foundations` checks two independent parts in one run. The raw transport: `SessionAccounts` (every probe is
counted once however callbacks re-enter, and a failed `open()` keeps no resource) and `AnswerReachesItsProbe`
(an observation is given to the one probe it answers, never to one of several it fits). The algorithms, one
initial state per input: `SelectionExact` (targets and ports against sets), `CommandHonoured` (what an accepted
command runs, and exactly which accepted ones a stage refuses), `FrameFindsNextHop` (longest prefix over
unordered tables), `RankingSound` (scores, categories at their exact thresholds and order of OS matches; the choice of
a service), `ProbesOrdered` (probes and fallbacks of a port).

`TypeOK` is checked by itself for the port scan; elsewhere it is a conjunct of the first invariant
(`LifecycleConsistent`, `EventsInOrder`, `OneVerdict`). `NoDanglingCallback` and `OkMeansComplete` are in no run of
their own: the first is proved (`NothingDangles`), the second is proved (`OkIsWhole`) and part of the contract
that the run checks.

Why the bounds are enough. Three pairs with room for two make a queue behind a full window and let one
completion nest a second `pump()` inside a third. Two retries are needed for a conflict of closed, silent,
closed. In the raw run two pairs suffice, since attempts interact only through the window and the capture
error, and a retry lets a late answer meet a second attempt. The reactor needs two events for one callback to
remove the other's registration within a batch, a third registration to reuse an event, and two timers for
order in the heap. Discovery has room for three of four probes, so the second host fits or does not depending
on what has already failed or finished; a cache of one entry with two neighbours forces evictions. The
pipeline's configurations take every combination of stages that changes the order of steps, each transport,
with and without a file, and ones that do not validate; the second `run()` shows repeated calls.
UDP has two source ports for three pairs, so that the pool runs dry and every port is drawn again while old
packets travel; ICMP code 3 and another one tell the two readings of a quote apart. Service detection needs a
port with two probes for a fallback, two chunks for a withdrawn match, and a limit of one to make the second
port wait. OS detection has one probe per protocol, because keys are built per protocol. The raw transport has
two probes with the same target and ports, which in the code takes 20000 others in between (`PORT_SPAN`), and
an IPv6 one; one frame in the capture at a time suffices, since frames interact only through the tables.
Addresses have 3 bits (IPv6 two halves of 3), with every prefix length from 0 to the full width and, in a range
by itself, every pair of bounds of either family; masks, counts and wrap-around are computed at that width,
which the definitions take as a parameter.
Ids and counters are unbounded in the code and grow only with the work, so they need no artificial cap; the
reactor's registrations, timers and clock are capped by `MaxToken`, `MaxTimer`, `MaxTime`, the pipeline's
calls of `run()` by `MaxRuns`, those of `open()` by `MaxOpens`, captured frames by `MaxWire`, chunks by
`MaxResponse`.

Deadlock checking is on in every passing run; a finished run ends in an explicit stuttering action. The
liveness violations switch it off, because there the stuck reactor is the point.

### Fairness

- Schedulers: weak fairness of the steps of an active `pump()`, of failing all probes after a capture error,
  of armed timers, and of `run()` leaving its loop (`PortScanScheduler`, `AdaptiveScheduler`,
  `DiscoveryScheduler`, `UdpScan`, `ServiceScan`, `OsScan`). One thread runs a handler to its end, and the reactor
  dispatches every due timer on each turn. Nothing is assumed of the network or of the caller.
- Reactor: weak fairness of its own steps and of the clock. Callbacks return.
- The pipeline's and the raw transport's properties are safety properties and need none.

## Findings

1. **Discovery can hang when no probe can be sent** (`discovery_scheduler.cpp:189`, run `discovery_unsent`).
   `pump()` drops the status of `submit_one()`, `submit()` returns `Ok`, nothing is pending that could stop the
   reactor, and the capture descriptor keeps it waiting. `ARCHITECTURE.md:500` promises a typed error and a
   session in `Failed`.
2. **Over IPv4, answers to the UDP probes of OS detection are never matched** (`linux_os_probe_transport.cpp:540`
   for a datagram, 604 for a quoted one, run `os_answers`). `submit()` stores keys with `target_ip` and the
   sequence number; the lookups leave both empty, and the comparison includes them. `ARCHITECTURE.md:640`
   describes the UDP correlation as working. `UdpAnswersCount` is about these answers only; the lookup of an
   ICMP echo reply (586) fails in the same way, while TCP answers are found by a second search.

Further divergences, met while modelling, that no run is about:

Reactor and schedulers
- A raw port scan hangs after a refused probe (`port_scheduler.cpp:322`): `pump()` leaves its loop with the
  queue unsent, the reactor is stopped only when the queue is empty, and when the last attempt has ended the
  capture descriptor keeps `run()` waiting (`ARCHITECTURE.md:500`). `os_scheduler.cpp:323` and
  `udp_scan.cpp:673` have the same shape. `RunEnds` of the raw runs speaks of scans without such a failure.
- `stop()` before `run()` is forgotten (`io_engine.cpp:197`), although `io_engine.hpp:50` says "the current or
  next run loop". So when all work of a stage ends inside `submit()`, `run()` waits while any capture
  descriptor is registered, also one of an earlier stage (`port_scheduler.cpp:156`, `service_scheduler.cpp:792`,
  `os_scheduler.cpp:409`).
- A timeout reported by the transport leaves the attempt's timer armed in the adaptive scheduler;
  `LifecycleConsistent` speaks of timers until the transport reports one.
- `ARCHITECTURE.md:269` says a timed-out item without retries becomes terminal; `scan_group.cpp:123` still
  lets it be cancelled.
- Discovery refuses a target whose probes do not all fit into `max_outstanding`, instead of queueing them.

Verdicts
- `ARCHITECTURE.md:7` lists unreachable answers to an ACK probe as filtered; `tcp_ack.cpp:108` has cases that
  say unreachable. `ARCHITECTURE.md:175` says other socket errors are UNKNOWN; `tcp_connect.cpp:95-108`
  distinguishes more.
- `ARCHITECTURE.md:247` and 642 say confidence uses available evidence only, and 247 that matches are sorted by
  confidence, then name; `os_matcher.cpp:281-285` keeps missing evidence in the denominator on purpose, and strong
  matches are sorted by specificity first. `docs/OS_EVIDENCE_CONFIDENCE.md` and `test_os_matcher` agree with the
  code, and so does `RankingSound`.
- `ARCHITECTURE.md:603` says a network or host unreachable message makes a UDP port FILTERED; `udp_scan.cpp:501-504`
  publishes UNREACHABLE, as `docs/PORT_STATE_SEMANTICS.md` says.
- A first chunk of a service response shorter than "HTTP/" is matched before the snapshot is taken, and its
  match is never withdrawn (`service_scheduler.cpp:362`).

Transports
- `ARCHITECTURE.md:386` and 640 say unrelated packets leave an operation untouched; the schedulers do, but the
  Linux discovery and OS transports have dropped their entry by then (`linux_discovery_transport.cpp:625`,
  `linux_os_probe_transport.cpp:683`), so the genuine answer is no longer matched.
- OS probes over IPv6 accept a reset only with acknowledgment number 0 (`linux_os_probe_transport.cpp:479`; a
  host's answer to a SYN carries another one), and
  take "::" as source on an interface with both families (`os_probe.cpp:99`), so that every answer is rejected.
- `neighbor_mac_for` takes an incomplete neighbour entry, whose address is zero; route metrics are ignored.
- Interface selection accepts the loopback interface for a raw scan; the transport's preflight refuses it.

Command line
- `skan -sn host`, which `README.md:149` and `docs/NMAP_COMPATIBILITY.md:29` show, is refused: `-sn` selects the
  Linux transport (`main.cpp:876`), which `main.cpp:1249` refuses without UDP or a raw method.
- `-T4 --max-outstanding 4` is accepted and validated, but the stage lowers only the maximum of the profile
  (`scan_stage.cpp:184`), so the scheduler refuses it; `ARCHITECTURE.md:479` says the stages pass the validated
  profile. `--max-parallelism 4 -T4` depends on the order in the same way. `CommandHonoured` says exactly which
  accepted commands are refused late.
- `-sn -Pn` with an explicit method scans nothing and succeeds; the order of `-sT` and `-sn` changes the default
  transport.
- A host name with two dashes is refused as a range (`target_engine.cpp:174`), although it is a valid name.

Session
- `ARCHITECTURE.md:468` says events after a terminal state are ignored; `emit()` lets `ScanFailed` through
  after `ScanCancelled`, when the report of a cancelled scan cannot be written. `EventsInOrder` allows it.
- A scan cancelled before `run()` whose interface cannot be selected returns an error, not `Ok`.

## Proofs

Each theorem holds for every value of the constants that satisfies the named assumption of its module:
`SchedulerAssumption` and `CongestionAssumption` (finite work, positive limits, a backoff factor between 0 and
1, which `validate_config()` and the timing profiles guarantee), `UdpAssumption` and `DiscoveryAssumption` (the
pairs, hosts and probe types are lists without repetition, which the stages build; positive limits, pool and
cache sizes), `OsAssumption` (at least one probe, a positive limit), `ServiceAssumption` (ports without
repetition, which `submit()` ensures with its set of seen ones; positive limits), `AdaptiveAssumption` and
`PipelineAssumption` (finite items and hosts; "Ok" is not a failure), `EngineAssumption` (finitely many event
objects), `RawScanAssumption` (positive spans and limits) and `NumbersAssumption`. The last says of the numbers
in a raw probe what `network_scan_transport.cpp` and the probes rely on without saying it: the span of source
ports, 20000, and 2^32 are even; the odd factors of the sequence numbers have an inverse modulo 2^32; a scan
makes fewer than 2^32 attempts, all by one method.
Nothing is assumed of the network, of the order of deadlines, or of which calls fail. The theorems are about
`Spec`, without fairness, so they hold for the runs' fair specifications too.

The inductive invariants were checked with TLC on the instances of the runs before they were proved.

- The lemmas about `Congestion` (clamping, backoff and growth keep the window within the profile; the truncated
  backoff is bounded below by the clamp, so the window never reaches zero) begin `PortScanSchedulerProofs`, and
  those that `AdaptiveSchedulerProofs` needs begin that module.
- `PortScanSchedulerProofs`: `AssessReportable`, `TypeCorrect`, `PublishedReportable`, `TimersExact`,
  `TransportExact`, `NothingDangles`, `WindowRespected`. Whatever response a probe assesses, what it admits is a
  result the report accepts for that method; likewise timeouts and the scheduler's own verdicts. `TypeOK` is inductive because it
  says more than types: ids in the maps have been handed out, retry counts are bounded, the window is in range.
  `TypeSplit` divides it into the part that `finish_attempt()` can disturb and the rest, so that each handler
  is treated once. `ResultsReportable` needs in addition that a retained candidate of a raw attempt is itself
  reportable, since it is published only at the deadline. The other three rest on `CallbackInv`: the one-to-one
  `Match` of armed timers with pending attempts and deferred retries, the same for transport entries, and that
  a destroyed scheduler is empty. `Match` takes the three maps as parameters because handlers retire one entry
  and arm another in one step: lemmas `Retire...` and `Arm...` speak of the values in between. Without the
  direction from timers to work the destructor, which cancels what the maps name, could not be shown to leave
  nothing behind. `WindowRespected` is the action property `SendsWithinWindow`: a `pump()` reads its limit once
  and sends against it after callbacks have moved the window, so `WindowInv` says that no active `pump()` has a
  limit above the one it would compute now; while one is active only responses move the window, and they widen it.
  The second part of the module: `WorkIsAccounted` (`WorkAccounted`, that is `NeverTwice` and `NothingLost`),
  `EvidenceGoverns` (`EvidenceDecides`), `OkIsWhole` (`OkMeansComplete`) and `ContractKept` (`KeepsContract`). A pair is in
  exactly one of queue, `pending_`, `deferred_retries_` and the results, except that a handler holds one pair
  in its hands: `Placed(..., gap)` says so with that pair in `gap`, lemmas `Take...` open the gap and `Put...`
  close it. `NothingLost` alone is not inductive: it needs distinctness (taking a pair away must not take
  another), and that a scheduler before its submission, or with no id handed out, has nothing anywhere.
  `EvidenceInv` says of every pair, wherever it is, that its retained candidate, its confirmation count and its
  result are explained by what was observed of it; it is needed for work that is queued or waits for a retry
  too, since a conflict is carried through a retry. `RunInv` adds what makes the end of a run trustworthy: every
  active `pump()` has a limit of at least one, so when none is active and the status is Ok, a pair left in the
  queue implies an attempt out, whose timer keeps the reactor in its loop; and a stopped reactor means there is
  nothing left. With it each step of the scheduler maps to one verdict, a batch turned down by the submission,
  the end of the contract's scan, or a stutter.
- `UdpScanProofs`: `UdpWorkAccounted` (`WorkAccounted`), `UdpEvidenceDecides` (`EvidenceDecides`) and
  `UdpContractKept` (`KeepsContract`). `UdpInv` joins five parts. `Tables`: the pool, the timers and the
  transport's table are images of `pending_`, and no two attempts share a port; this is what makes a packet that
  arrives on a reused port recognisable. `Placement` is `Placed` as above. `Control` ties `pump()` to the phase
  and says that a stopped reactor has nothing left. `Evidential` says of an attempt that its candidate is the
  summary of what it heard, all of it about its own pair; the property itself speaks of results only, which is
  not inductive because a result is copied from a candidate at the deadline. The refinement needs two more facts
  than its steps show: `Placement` puts a pair that gets a result in no other place, so the result is its first;
  and `Control` says that a run returns with status Ok only when queue and `pending_` are empty, and that a
  refused submission has another status, so that "complete" is never claimed for a scan that is not.
- `AdaptiveSchedulerProofs`: `AdaptiveLifecycle` (`LifecycleConsistent`). `QueueExact` is the strengthening: a
  cancelled id stays in the queue until `next_queued()` meets it, so what is in the queue is queued or
  cancelled, once, and every queued item is there. `TimersExact` stops at the first timeout that the transport
  reports, because the code leaves that attempt's timer armed (see the divergences).
- `ScanPipelineProofs`: `OutputReplacedWhole` (`OutputAtomic`), `CancelledHoldsNothing`
  (`CancelReleasesStages`), `ReportTellsAll` (`ReportComplete`), `StoryInOrder` (`EventsInOrder`). `FileInv`
  follows `replace_output_file()` step by step: the temporary file is whole before `fsync()` and on the disk
  before it is renamed. `SessionInv` keeps the cancel flag and the state together. `StateInv` is the heart of
  the rest: at each place of `run()` the session is in the state that `run()` left, or cancelled, so every
  transition it asks for without looking at the answer is granted. `ResultsInv` relates what is kept to what
  the stages found, with the UDP ports merged exactly from the end of their stage; `ReportInv` says that the
  report is built from it before any step that needs it. `StoryInv` describes the events heard so far by how
  they may continue: nothing final while the session lives, a completion last between stages (`Rested`), and
  in a stage only its own events since it was opened (`OpenStage`).
- `DiscoverySchedulerProofs`: `DiscoveryTablesAgree` (`TablesAgree`) and `DiscoveryOneVerdict` (`OneVerdict`).
  `PlaceInv` gives each probe one place, where a host that `submit()` has not reached counts as one; it is
  total only while no host was refused, since a refused host has no results. `VerdictInv` has at most one
  verdict, "Up" exactly on an answer in time; it needs `TimersInv`, by which a deadline is armed just for what
  is pending, so that late and repeated answers change nothing. `CourseInv` says the reactor is stopped only
  when nothing is left and that this stays so while later stages use it. `RoomInv` carries the admission test
  to every later state. `CacheInv` bounds the neighbour cache; eviction needs that a non-empty set of entries
  has one of least rank (`OldestExists`).
- `OsScanProofs`: `OsTablesAgree` (`TablesAgree`) and `OsResultAccounts` (`ResultAccounts`). `OsPlaces` puts
  each probe in one place, `OsCounts` ties the counters to how the probes ended (each count is the size of a
  set of probes, and a probe without a fate moves one of them by one), `OsTables` ties timers, entries and
  correlations to `pending_`. `OsResult` is the strengthening that makes the verdict final: once a result is
  there nothing waits and nothing is out, so no counter can move any more; the reactor is stopped only with a
  result; and a `pump()` that returns never leaves probes waiting with none out, so a run that ends quietly
  has one. "Complete" then follows by exclusion: no counter and no status admits another fate.
- `ServiceScanProofs`: `ServiceWorkAccounted` (`WorkAccounted`), `ServiceEvidenceDecides` (`EvidenceDecides`)
  and `ServiceContractKept` (`KeepsContract`). An attempt ends in many code paths, and all of them put the port
  in the queue, in `deferred_retries_` or among the results, or drop it with an error; `Lands(s, q, T)` names
  that once, lemmas `AnsweredLands` to `VerdictLands` show it of every path, and `FromHead` and `FromOut` say
  where the port came from (the head of the queue, when the attempt ends inside `submit()`, or `pending_`), so
  each part of the invariant is shown for these two steps and not for every path. `Shapes` carries the evidence:
  work that waits has as best match the one that stands, and an attempt that reads HTTP has the larger of that
  and of the last parse, with what the next parse competes with kept aside; a result is sound when it is
  written. `Tables` allows one disagreement, an open connection without a probe whose callback is still running
  and will close it (`cancel_requested`), and only while a `pump()` is active; without that exception it is not
  inductive, and without the bound on it `OpenConnections` could outlive their probes. `Placement` is `Placed`
  as above, with the retries put off as a fourth place; `Course` ends the run as in `OsResult`. The refinement
  follows the same two steps: where an attempt lands decides whether the port gets its verdict in that step or
  keeps waiting.
- `ReactorTransportProofs`, about the two machines all stages stand on. The reactor: `StaleRecordsDropped`
  (`NoStaleDispatch`) and `TimersInOrder` (`TimersFireInOrder`). `TokensUnique` says tokens are handed out once
  and in order, so a record of a batch that was fetched for an earlier registration carries a token nobody has
  any more. `RecordsTrue` says of each record which registration it was fetched for; the action property compares
  tokens only, and is not inductive without it. `HeapCovers` says that every live timer has its entry on the
  heap and that the entry left of a cancelled one never equals a live one's: only then is the earliest live
  entry the earliest timer. `LoopObeys` ties the place in the loop to `stopped_`.
  The raw transport: `TransportAccounts` (`SessionAccounts`) and `AnswersReachTheirProbe`
  (`AnswerReachesItsProbe`). `CountersTyped` has what is out among what was submitted, since an id is never
  submitted twice; `OpenResources` treats the failures of `open()`; a callback has been counted before it runs, so
  whatever it calls finds the sum intact. The second theorem is about arithmetic: the key of a probe is ports and
  sequence number, a reset or an acknowledgment may carry that number or the next one, and zero is replaced by
  one. `SequencesIdentify` and the lemmas before it show that two probes on one source port have ids of the same
  parity, hence sequence numbers of the same parity, which an odd factor keeps apart: one's number is neither the
  other's nor its successor, and the replacement of zero meets nothing. With an odd span of ports, or an even
  factor, an answer could reach the wrong attempt. `DispatchFindsProbe` then follows the lookups, by key and by
  search, and `EvidenceStep` says of each step what happens to the frame a callback was given. `WireVisible`
  limits the frames to those about probes that were sent, whatever the network did to them.

Only model-checked: liveness (the prover does not handle fairness), that is every `RunEnds` and `TimersServed`
of the reactor; the two properties that runs refute; and the pure algorithms of `ScanInputs`, which are
recursive over their input, so that what they compute for every input would take induction over data, which is
out of the prover's reach.

## What the models leave out

- Port scan: `run_once()`, which tests use and which takes the same steps; metrics, RTT estimates and result
  order; allocation failures; duplicate pairs, which `submit()` removes first.
- Reactor: `modify()` and event masks, the wait in milliseconds.
- Discovery: packet bytes and matching rules (a packet is matched with any probe of the transport's table and
  is then matching, unreachable, malformed or unrelated), reasons and round-trip times, the offline transport.
- Pipeline: what happens inside a stage; a cancellation comes from the caller between calls or from the
  observer, as `ARCHITECTURE.md:492` says; hooks for tests; counters and wording.
- UDP, service and OS detection: adaptive timing, which works as in the port scan; payload bytes, regular
  expressions, protocol parsers, TLS metadata and the fields read from OS answers. A response is a strength of
  match, a packet the fact of what it answers. The injected transports of tests are modelled only for OS detection.
- Raw transport: bytes and checksums (a checksum is right or the frame is damaged); the socket and ring calls,
  which succeed or fail; the parsing of `/proc` tables, which are read as lines with fields.
- Target engine and command line: characters; DNS answers are inputs; interface enumeration
  (`interface.cpp:371-545`) and IPv6 scopes (`main.cpp:150-179`) are inputs or left out; `-oA`, which writes its
  files one after the other without a temporary file; help and messages; options that only store a text.
- Databases: the text of the files. Output writers: formatting of a finished report. C API: names of status codes.
- Time is abstract in all schedulers: an armed timer may fire at any moment. That includes every order of
  deadlines, also ones the durations exclude.

## Plan

What is left, in order:

1. Composition of `PortScanScheduler` with `RawScanTransport` in place of the abstract transport.
2. A contract for OS detection, whose verdict is one for the whole host, and the refinement.
