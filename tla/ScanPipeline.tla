---------------------------- MODULE ScanPipeline ----------------------------
(***************************************************************************)
(* ScanPipeline and its ScanSession (src/orchestrator): the stages of a    *)
(* scan, run one after the other on one thread, the events told to the     *)
(* observer, cancellation, and the report.                                 *)
(*                                                                         *)
(* The observer (the event sink) is called synchronously and may call      *)
(* cancel() from inside any event, so every emission is a point where the  *)
(* session can change under the pipeline's feet; the caller may also       *)
(* cancel before or after run().  A stage is seen from outside: start()    *)
(* returns with results or with a failure status.                          *)
(*                                                                         *)
(* The machine may lose power while the report replaces the output file.   *)
(***************************************************************************)
EXTENDS Naturals, Sequences, FiniteSets

CONSTANTS
  Hosts,          \* the hosts of the aggregated target, without repetition
  Configs,        \* the configurations explored
  Evidence,       \* the sets of states discovery can collect about one host
  StageFailures,  \* the statuses a stage can fail with
  MaxRuns         \* bound: how often the caller calls run()

ScanTransport == {"Offline", "Linux", "Connect"}
HostState == {"Unknown", "Up", "Down", "Unreachable"}
StageOrder == <<"Discovery", "PortScan", "UdpScan", "ServiceDetection", "OSDetection">>
Stage == {StageOrder[k] : k \in DOMAIN StageOrder}
StageKind == Stage \cup {"Output"}

(***************************************************************************)
(* What of ScanConfig steers the pipeline.  checked stands for the tests   *)
(* of validate() on single values (timeouts, limits, ports, addresses).    *)
(***************************************************************************)
ScanConfig == [enabled : SUBSET Stage, transport : ScanTransport,
               interface_name : BOOLEAN, output_file : BOOLEAN,
               tcp_ack : BOOLEAN, checked : BOOLEAN]

ASSUME PipelineAssumption ==
  /\ IsFiniteSet(Hosts) /\ Hosts # {}
  /\ Configs \subseteq ScanConfig
  /\ Evidence \subseteq SUBSET HostState
  /\ "Ok" \notin StageFailures
  /\ MaxRuns \in Nat

VARIABLES
  config,        \* config_
  session,       \* ScanSession: state_, cancel_requested_, and what the sink heard
  pc, current,   \* where run() is, and the number of its stage
  todo,          \* items left to announce, or hosts left, in this stage
  after,         \* what run() does once the report is serialised
  stages,        \* discovery_stage_ ... os_stage_
  collected,     \* discovery_results_ ... os_results_
  report,        \* session_.report_
  final_status,  \* final_status_
  returned,      \* what run() last returned
  runs,          \* how often run() was called
  crashed,       \* the machine has lost power
  file,          \* the output file and the temporary beside it
  found          \* history: what the stages that succeeded have found

vars == <<config, session, pc, current, todo, after, stages, collected, report,
          final_status, returned, runs, crashed, file, found>>

-----------------------------------------------------------------------------
(* ScanSession.                                                            *)

Terminal == {"Completed", "Cancelled", "Failed"}
Running == <<"Created", "Initializing", "Discovering", "PortScanning",
             "DetectingServices", "DetectingOS", "Serializing", "Completed">>
PipelineState == {Running[i] : i \in DOMAIN Running} \cup Terminal
FinalEvents == {"ScanCompleted", "ScanCancelled", "ScanFailed"}

terminal(s) == s.state \in Terminal
cancelled(s) == s.cancel_requested \/ s.state = "Cancelled"

(***************************************************************************)
(* The transition table: forward, skipping stages, but Created leads only  *)
(* to Initializing; cancelling and failing are allowed everywhere.         *)
(***************************************************************************)
Allowed(from, to) ==
  \/ to \in {"Cancelled", "Failed"}
  \/ from = "Created" /\ to = "Initializing"
  \/ from # "Created" /\
       \E i, j \in DOMAIN Running : i < j /\ Running[i] = from /\ Running[j] = to

transition(s, next) ==
  IF ~terminal(s) /\ Allowed(s.state, next) THEN [s EXCEPT !.state = next] ELSE s

(***************************************************************************)
(* Faulty variant, for the sensitivity of the checks: only the events of   *)
(* stages are held back once the session is over.                          *)
(***************************************************************************)
suppressed_when_terminal(s, type) == terminal(s) /\ type \notin FinalEvents

Suppressed(s, type) ==
  \/ terminal(s) /\ type \notin FinalEvents
  \/ cancelled(s) /\ type \notin {"ScanCancelled", "ScanFailed"}

Tell(s, type, stage) ==
  IF Suppressed(s, type) THEN s
  ELSE [s EXCEPT !.heard = Append(@, [type |-> type, stage |-> stage])]

(***************************************************************************)
(* cancel(): idempotent.  The observer may call it again from inside       *)
(* ScanCancelled, which then does nothing.                                 *)
(***************************************************************************)
cancel(s) ==
  IF s.cancel_requested \/ terminal(s) THEN s
  ELSE Tell(transition([s EXCEPT !.cancel_requested = TRUE], "Cancelled"),
            "ScanCancelled", "none")

(***************************************************************************)
(* emit(): by is TRUE when the observer answers this event with cancel().  *)
(***************************************************************************)
emit(s, type, stage, by) ==
  IF by /\ ~Suppressed(s, type) THEN cancel(Tell(s, type, stage))
                                ELSE Tell(s, type, stage)

-----------------------------------------------------------------------------
NoResults == [discovery |-> [h \in Hosts |-> {}], ports |-> {}, udp |-> {},
              services |-> {}, os |-> {}]

Init ==
  /\ config \in Configs
  /\ session = [state |-> "Created", cancel_requested |-> FALSE, heard |-> <<>>]
  /\ pc = "idle" /\ current = 0 /\ todo = 0 /\ after = "none"
  /\ stages = [k \in Stage |-> "absent"]
  /\ collected = NoResults /\ found = NoResults
  /\ report = <<>>
  /\ final_status = "Ok" /\ returned = "none"
  /\ runs = 0 /\ crashed = FALSE
  /\ file = [path |-> "old", temp |-> "none", synced |-> FALSE]

(***************************************************************************)
(* cancel_active(): a cancellation during the step reaches every stage     *)
(* that exists, the one just built included, and drops its scheduler and   *)
(* its transport.                                                          *)
(***************************************************************************)
cancel_active(built) ==
  stages' = [k \in Stage |->
    IF session'.cancel_requested /\ ~session.cancel_requested /\ built[k] # "absent"
      THEN "cancelled" ELSE built[k]]

(***************************************************************************)
(* fail(): the error is kept and told, but a session already cancelled     *)
(* stays cancelled.                                                        *)
(***************************************************************************)
fail(status) ==
  /\ final_status' = status
  /\ session' = Tell(transition(session, "Failed"), "ScanFailed", "none")

Return(status) ==
  /\ pc' = "idle" /\ current' = 0 /\ todo' = 0 /\ after' = "none"
  /\ returned' = status

(***************************************************************************)
(* What run() returns when the report cannot be written: a cancelled run   *)
(* ignores it.                                                             *)
(***************************************************************************)
SerializeFails(status) ==
  /\ fail(status)
  /\ Return(IF after = "cancelled" THEN "Ok" ELSE final_status')
  /\ UNCHANGED <<config, stages, collected, runs, crashed, found>>

-----------------------------------------------------------------------------
(* The caller.                                                             *)

Cancel ==
  /\ pc = "idle" /\ ~crashed
  /\ session' = cancel(session)
  /\ cancel_active(stages)
  /\ UNCHANGED <<config, pc, current, todo, after, collected, report,
                 final_status, returned, runs, crashed, file, found>>

(***************************************************************************)
(* run() on a finished session only repeats the verdict; on a cancelled    *)
(* one it writes the report again.                                         *)
(***************************************************************************)
RunAgain ==
  /\ pc = "idle" /\ runs < MaxRuns /\ ~crashed
  /\ terminal(session) /\ ~cancelled(session)
  /\ returned' = IF final_status = "Ok" THEN "InvalidArgument" ELSE final_status
  /\ runs' = runs + 1
  /\ UNCHANGED <<config, session, pc, current, todo, after, stages, collected,
                 report, final_status, crashed, file, found>>

Run ==
  /\ pc = "idle" /\ runs < MaxRuns /\ ~crashed
  /\ ~terminal(session) \/ cancelled(session)
  /\ pc' = "select" /\ runs' = runs + 1
  /\ UNCHANGED <<config, session, current, todo, after, stages, collected, report,
                 final_status, returned, crashed, file, found>>

-----------------------------------------------------------------------------
(* run(), up to the first stage.                                           *)

NeedsInterface == config.transport = "Linux" /\ ~config.interface_name

InterfaceSelected ==
  /\ pc = "select"
  /\ config' = IF NeedsInterface THEN [config EXCEPT !.interface_name = TRUE] ELSE config
  /\ pc' = "validate"
  /\ UNCHANGED <<session, current, todo, after, stages, collected, report,
                 final_status, returned, runs, crashed, file, found>>

(***************************************************************************)
(* No interface leads to the target: the report is written all the same.   *)
(***************************************************************************)
SelectionFails(status) ==
  /\ pc = "select" /\ NeedsInterface
  /\ fail(status)
  /\ pc' = "serialize" /\ after' = "failed"
  /\ UNCHANGED <<config, current, todo, stages, collected, report, returned, runs,
                 crashed, file, found>>

validate ==
  /\ config.checked
  /\ config.transport = "Connect" => config.enabled \cap {"Discovery", "UdpScan"} = {}
  /\ config.interface_name => config.transport = "Linux"
  /\ config.tcp_ack => config.enabled \cap {"ServiceDetection", "OSDetection"} = {}

StopForCancel ==
  /\ pc' = "serialize" /\ after' = "cancelled"
  /\ UNCHANGED <<config, session, current, todo, stages, collected, report,
                 final_status, returned, runs, crashed, file, found>>

RunCancelled == pc = "validate" /\ cancelled(session) /\ StopForCancel

(***************************************************************************)
(* The configuration does not validate, or the shared reactor could not be *)
(* initialised.                                                            *)
(***************************************************************************)
RunRefused(status) ==
  /\ pc = "validate" /\ ~cancelled(session)
  /\ status = "InvalidArgument" <=> ~validate
  /\ fail(status)
  /\ Return(final_status')
  /\ UNCHANGED <<config, stages, collected, report, runs, crashed, file, found>>

ScanStarts(by) ==
  /\ pc = "validate" /\ ~cancelled(session) /\ validate
  /\ session' = emit(transition(session, "Initializing"), "ScanStarted", "none", by)
  /\ cancel_active(stages)
  /\ pc' = "stage" /\ current' = 1
  /\ UNCHANGED <<config, todo, after, collected, report, final_status, returned,
                 runs, crashed, file, found>>

-----------------------------------------------------------------------------
(* The stages.                                                             *)

Kind == StageOrder[current]
AtStage == pc = "stage" /\ current \in DOMAIN StageOrder

StateOf(kind) ==
  CASE kind = "Discovery" -> "Discovering"
    [] kind \in {"PortScan", "UdpScan"} -> "PortScanning"
    [] kind = "ServiceDetection" -> "DetectingServices"
    [] kind = "OSDetection" -> "DetectingOS"
    [] kind = "Output" -> "Serializing"

(***************************************************************************)
(* host_state() and discovery_state_for(): the verdict on one host from    *)
(* all the evidence about it.                                              *)
(***************************************************************************)
HostVerdict(evidence) ==
  CASE "Up" \in evidence -> "Up"
    [] "Up" \notin evidence /\ "Down" \in evidence -> "Down"
    [] evidence \cap {"Up", "Down"} = {} /\ "Unreachable" \in evidence -> "Unreachable"
    [] OTHER -> "Unknown"

only_up_hosts(hosts) == {h \in hosts : HostVerdict(collected.discovery[h]) = "Up"}

PortTarget == IF "Discovery" \in config.enabled THEN only_up_hosts(Hosts) ELSE Hosts

OpenPorts == {p \in collected.ports : p.state = "Open"}

(***************************************************************************)
(* A port or service stage without input is passed over silently.          *)
(***************************************************************************)
HasInput ==
  CASE Kind \in {"PortScan", "UdpScan"} -> PortTarget # {}
    [] Kind = "ServiceDetection" -> OpenPorts # {}
    [] OTHER -> TRUE

(***************************************************************************)
(* Faulty variant, for the sensitivity of the checks: the UDP results wait *)
(* for a scan that is not cancelled.                                       *)
(***************************************************************************)
merged_unless_cancelled(c) ==
  IF Kind = "UdpScan" /\ ~cancelled(session') THEN [c EXCEPT !.ports = @ \cup c.udp] ELSE c

(***************************************************************************)
(* Behind the UDP stage its results join the TCP ones, enabled or not.     *)
(***************************************************************************)
Merged(c) == IF Kind = "UdpScan" THEN [c EXCEPT !.ports = @ \cup c.udp] ELSE c

SkipStage ==
  /\ AtStage
  /\ Kind \notin config.enabled \/ (~cancelled(session) /\ ~HasInput)
  /\ UNCHANGED session
  /\ collected' = Merged(collected)
  /\ current' = current + 1
  /\ UNCHANGED <<config, pc, todo, after, stages, report, final_status, returned,
                 runs, crashed, file, found>>

StageCancelled ==
  \/ AtStage /\ Kind \in config.enabled /\ cancelled(session) /\ StopForCancel
  \/ pc = "start" /\ cancelled(session) /\ (Kind = "OSDetection" => todo > 0) /\ StopForCancel

BeginStage(by) ==
  /\ AtStage /\ Kind \in config.enabled /\ ~cancelled(session) /\ HasInput
  /\ session' = emit(transition(session, StateOf(Kind)), "StageStarted", Kind, by)
  /\ cancel_active(stages)
  /\ pc' = "start"
  /\ todo' = IF Kind = "OSDetection" THEN Cardinality(Hosts) ELSE 0
  /\ UNCHANGED <<config, current, after, collected, report, final_status, returned,
                 runs, crashed, file, found>>

Port(host, protocol, state) == [host |-> host, protocol |-> protocol, state |-> state]

Scanned(protocol, open) ==
  {Port(h, protocol, IF h \in open THEN "Open" ELSE "Filtered") : h \in PortTarget}

(***************************************************************************)
(* What a stage can bring home, as the field it fills and the value.       *)
(***************************************************************************)
Outcomes ==
  CASE Kind = "Discovery" -> {[collected EXCEPT !.discovery = e] : e \in [Hosts -> Evidence]}
    [] Kind = "PortScan" -> {[collected EXCEPT !.ports = Scanned("Tcp", o)] : o \in SUBSET PortTarget}
    [] Kind = "UdpScan" -> {[collected EXCEPT !.udp = Scanned("Udp", o)] : o \in SUBSET PortTarget}
    [] Kind = "ServiceDetection" -> {[collected EXCEPT !.services = OpenPorts]}
    [] OTHER -> {}

Announced(c) ==
  CASE Kind = "Discovery" -> Cardinality(Hosts)
    [] Kind = "PortScan" -> Cardinality(c.ports)
    [] Kind = "UdpScan" -> Cardinality(c.udp)
    [] OTHER -> Cardinality(c.services)

(***************************************************************************)
(* Faulty variant, for the sensitivity of the checks: the stage does not   *)
(* look for a cancellation by the observer of its own start.               *)
(***************************************************************************)
starts_although_cancelled(outcome) ==
  /\ pc = "start" /\ Kind # "OSDetection"
  /\ stages' = [stages EXCEPT ![Kind] = "live"]
  /\ collected' = outcome /\ found' = outcome
  /\ pc' = "announce" /\ todo' = Announced(outcome)
  /\ UNCHANGED <<config, session, current, after, report, final_status, returned,
                 runs, crashed, file>>

(***************************************************************************)
(* The stage object is built and its start() succeeds.  The object stays:  *)
(* its scheduler and transport live until the pipeline is destroyed or     *)
(* cancelled.                                                              *)
(***************************************************************************)
StageSucceeds(outcome) ==
  /\ pc = "start" /\ ~cancelled(session) /\ Kind # "OSDetection"
  /\ stages' = [stages EXCEPT ![Kind] = "live"]
  /\ collected' = outcome /\ found' = outcome
  /\ pc' = "announce" /\ todo' = Announced(outcome)
  /\ UNCHANGED <<config, session, current, after, report, final_status, returned,
                 runs, crashed, file>>

StageFails(status) ==
  /\ pc = "start" /\ ~cancelled(session) /\ (Kind = "OSDetection" => todo > 0)
  /\ fail(status)
  /\ stages' = [stages EXCEPT ![Kind] = "live"]
  /\ Return(final_status')
  /\ UNCHANGED <<config, collected, report, runs, crashed, file, found>>

ItemEvent ==
  CASE Kind = "Discovery" -> "HostDiscovered"
    [] Kind \in {"PortScan", "UdpScan"} -> "PortCompleted"
    [] Kind = "ServiceDetection" -> "ServiceDetected"
    [] Kind = "OSDetection" -> "OSDetectionCompleted"

AnnounceItem(by) ==
  /\ pc = "announce" /\ todo > 0
  /\ session' = emit(session, ItemEvent, Kind, by)
  /\ cancel_active(stages)
  /\ todo' = todo - 1
  /\ UNCHANGED <<config, pc, current, after, collected, report, final_status,
                 returned, runs, crashed, file, found>>

(***************************************************************************)
(* OS detection: one stage object per host, each replacing the last.       *)
(***************************************************************************)
OSHostDone(host, by) ==
  /\ pc = "start" /\ Kind = "OSDetection" /\ todo > 0 /\ ~cancelled(session)
  /\ host \in Hosts \ collected.os
  /\ collected' = [collected EXCEPT !.os = @ \cup {host}]
  /\ found' = [found EXCEPT !.os = @ \cup {host}]
  /\ session' = emit(session, ItemEvent, Kind, by)
  /\ cancel_active([stages EXCEPT ![Kind] = "live"])
  /\ todo' = todo - 1
  /\ UNCHANGED <<config, pc, current, after, report, final_status, returned, runs,
                 crashed, file>>

EndStage(by) ==
  /\ todo = 0
  /\ pc = "announce" \/ (pc = "start" /\ Kind = "OSDetection")
  /\ session' = emit(session, "StageCompleted", Kind, by)
  /\ cancel_active(stages)
  /\ collected' = Merged(collected)
  /\ pc' = "stage" /\ current' = current + 1
  /\ UNCHANGED <<config, todo, after, report, final_status, returned, runs, crashed,
                 file, found>>

-----------------------------------------------------------------------------
(* The report and the output file.                                         *)

OutputCancelled ==
  pc = "stage" /\ current > Len(StageOrder) /\ cancelled(session) /\ StopForCancel

BeginOutput(by) ==
  /\ pc = "stage" /\ current > Len(StageOrder) /\ ~cancelled(session)
  /\ session' = emit(transition(session, "Serializing"), "StageStarted", "Output", by)
  /\ cancel_active(stages)
  /\ pc' = "serialize" /\ after' = "finish"
  /\ UNCHANGED <<config, current, todo, collected, report, final_status, returned,
                 runs, crashed, file, found>>

(***************************************************************************)
(* ScanReportBuilder::build(): the results under their hosts.  A port that *)
(* answered proves its host up, whatever discovery said.  Without          *)
(* discovery the state is Unknown: nothing sets Host::is_up.               *)
(***************************************************************************)
Build ==
  [h \in Hosts |->
    LET ports == {p \in collected.ports : p.host = h} IN
    [state |-> IF \E p \in ports : p.state \in {"Open", "Closed", "Unfiltered"} THEN "Up"
               ELSE IF "Discovery" \in config.enabled
                 THEN HostVerdict(collected.discovery[h]) ELSE "Unknown",
     ports |-> ports,
     services |-> {s \in collected.services : s.host = h},
     os |-> h \in collected.os]]

(***************************************************************************)
(* serialize_report(): the report is stored before it is written.          *)
(***************************************************************************)
Serialize ==
  /\ pc = "serialize"
  /\ report' = Build
  /\ pc' = IF config.output_file THEN "mkstemp" ELSE "written"
  /\ UNCHANGED <<config, session, current, todo, after, stages, collected,
                 final_status, returned, runs, crashed, file, found>>

(***************************************************************************)
(* The writer of the format fails, on its own or on the output stream.     *)
(***************************************************************************)
WriterFails(status) ==
  /\ pc = "serialize"
  /\ report' = Build
  /\ UNCHANGED file
  /\ SerializeFails(status)

(***************************************************************************)
(* replace_output_file(): a temporary file beside the target, written,     *)
(* synchronised, closed, and only then renamed over it.                    *)
(***************************************************************************)
FileStep(here, there, next) ==
  /\ pc = here /\ pc' = there
  /\ file' = next
  /\ UNCHANGED <<config, session, current, todo, after, stages, collected, report,
                 final_status, returned, runs, crashed, found>>

MakeTemp == FileStep("mkstemp", "write", [file EXCEPT !.temp = "partial", !.synced = FALSE])
WriteTemp == FileStep("write", "fsync", [file EXCEPT !.temp = "full"])

(***************************************************************************)
(* Faulty variant, for the sensitivity of the checks: no fsync().          *)
(***************************************************************************)
no_sync == FileStep("fsync", "close", file)

SyncTemp == FileStep("fsync", "close", [file EXCEPT !.synced = TRUE])
CloseTemp == FileStep("close", "rename", file)

RenameTemp ==
  FileStep("rename", "written",
           [file EXCEPT !.path = CASE file.temp # "full" -> "partial"
                                   [] file.temp = "full" /\ ~file.synced -> "volatile"
                                   [] file.temp = "full" /\ file.synced -> "new",
                        !.temp = "none"])

FileFails ==
  /\ pc \in {"mkstemp", "write", "fsync", "close", "rename"}
  /\ file' = [file EXCEPT !.temp = "none"]
  /\ UNCHANGED report
  /\ SerializeFails("IoError")

(***************************************************************************)
(* The report is out.  The observer of "serialization completed" can still *)
(* cancel; the transition to Completed is then refused, and run() returns  *)
(* Ok.                                                                     *)
(***************************************************************************)
Written(by) ==
  /\ pc = "written"
  /\ IF after = "finish"
       THEN /\ session' = Tell(transition(emit(session, "StageCompleted", "Output", by),
                                          "Completed"),
                               "ScanCompleted", "none")
            /\ final_status' = "Ok"
       ELSE UNCHANGED <<session, final_status>>
  /\ cancel_active(stages)
  /\ Return(IF after = "cancelled" THEN "Ok" ELSE final_status')
  /\ UNCHANGED <<config, collected, report, runs, crashed, file, found>>

(***************************************************************************)
(* Power loss: what was not synchronised may be cut short, and a rename    *)
(* may or may not have reached the disk.  The process is gone.             *)
(***************************************************************************)
PowerLoss(path) ==
  /\ pc # "idle"
  /\ path \in {"old", file.path} \cup (IF file.path = "volatile" THEN {"partial"} ELSE {})
  /\ file' = [file EXCEPT !.path = path]
  /\ crashed' = TRUE
  /\ pc' = "idle"
  /\ UNCHANGED <<config, session, current, todo, after, stages, collected, report,
                 final_status, returned, runs, found>>

-----------------------------------------------------------------------------
Output ==
  \/ OutputCancelled \/ (\E by \in BOOLEAN : BeginOutput(by))
  \/ Serialize \/ (\E s \in {"IoError", "InternalError"} : WriterFails(s))
  \/ MakeTemp \/ WriteTemp \/ SyncTemp \/ CloseTemp \/ RenameTemp \/ FileFails
  \/ \E by \in BOOLEAN : Written(by)

Stages ==
  \/ SkipStage \/ StageCancelled
  \/ \E by \in BOOLEAN : BeginStage(by) \/ AnnounceItem(by) \/ EndStage(by)
  \/ pc = "start" /\ \E o \in Outcomes : StageSucceeds(o)
  \/ pc = "start" /\ \E s \in StageFailures : StageFails(s)
  \/ \E h \in Hosts : \E by \in BOOLEAN : OSHostDone(h, by)

Prologue ==
  \/ InterfaceSelected
  \/ \E s \in {"PermissionDenied", "NotFound"} : SelectionFails(s)
  \/ RunCancelled
  \/ \E s \in {"InvalidArgument", "IoError"} : RunRefused(s)
  \/ \E by \in BOOLEAN : ScanStarts(by)

Caller == Cancel \/ RunAgain \/ Run

(***************************************************************************)
(* Without power nothing happens any more.                                 *)
(***************************************************************************)
Off == crashed /\ UNCHANGED vars

Next ==
  \/ Caller \/ Prologue \/ Stages \/ Output \/ Off
  \/ \E path \in {"old", "partial", "new"} : PowerLoss(path)

Spec == Init /\ [][Next]_vars

-----------------------------------------------------------------------------
(* Properties.                                                             *)

(***************************************************************************)
(* Every variable keeps its shape.                                         *)
(***************************************************************************)
TypeOK ==
  /\ config \in ScanConfig
  /\ session.state \in PipelineState /\ session.cancel_requested \in BOOLEAN
  /\ \A i \in DOMAIN session.heard : session.heard[i].stage \in StageKind \cup {"none"}
  /\ pc \in {"idle", "select", "validate", "stage", "start", "announce", "serialize",
             "mkstemp", "write", "fsync", "close", "rename", "written"}
  /\ current \in 0..(Len(StageOrder) + 1) /\ todo \in Nat
  /\ after \in {"none", "cancelled", "failed", "finish"}
  /\ stages \in [Stage -> {"absent", "live", "cancelled"}]
  /\ collected.discovery \in [Hosts -> Evidence \cup {{}}] /\ collected.os \subseteq Hosts
  /\ runs \in 0..MaxRuns /\ crashed \in BOOLEAN
  /\ file.temp \in {"none", "partial", "full"} /\ file.synced \in BOOLEAN

(***************************************************************************)
(* What the observer hears is a story in order, wherever it cancels: a     *)
(* stage is announced only when the one before has been completed, its     *)
(* completion follows its own items, and after the scan was reported       *)
(* completed, cancelled or failed nothing but a failure is heard, so never *)
(* both a cancellation and a completion.  While a stage runs the session   *)
(* is in that stage's state, although the result of transition() is never  *)
(* looked at.                                                              *)
(***************************************************************************)
EventsInOrder ==
  LET h == session.heard IN
  /\ TypeOK
  /\ \A j \in DOMAIN h :
       /\ h[j].type # "ScanFailed" => \A i \in 1..(j - 1) : h[i].type \notin FinalEvents
       /\ h[j].type = "StageStarted" => h[j - 1].type \in {"ScanStarted", "StageCompleted"}
       /\ h[j].type = "StageCompleted" =>
            \E i \in 1..(j - 1) :
              /\ h[i].type = "StageStarted"
              /\ \A k \in i..j : h[k].stage = h[j].stage
              /\ \A k \in (i + 1)..(j - 1) : h[k].type # "StageStarted"
  /\ ~terminal(session) =>
       /\ pc \in {"start", "announce"} => session.state = StateOf(Kind)
       /\ pc # "idle" /\ after = "finish" => session.state = "Serializing"

(***************************************************************************)
(* Once the scan is cancelled no stage holds a scheduler or a transport,   *)
(* and none is built later, also when the observer cancels from inside the *)
(* event that announces the stage.                                         *)
(***************************************************************************)
CancelReleasesStages == cancelled(session) => \A k \in Stage : stages[k] # "live"

(***************************************************************************)
(* The answer of run(), the session, the report and the disk agree: Ok     *)
(* means a completed or cancelled scan whose report has everything that    *)
(* the stages which succeeded have found and nothing else; a failed scan   *)
(* never answers Ok; a completed one has its file in place.  Ports are     *)
(* only reported of hosts the report calls up, although the hosts to scan  *)
(* and the states in the report are computed in two places.                *)
(***************************************************************************)
ReportComplete ==
  pc = "idle" /\ ~crashed /\ returned # "none" =>
    /\ returned = "Ok" =>
         /\ session.state \in {"Completed", "Cancelled"}
         /\ \A h \in Hosts :
              /\ report[h].ports = {p \in found.ports \cup found.udp : p.host = h}
              /\ report[h].services = {p \in found.services : p.host = h}
              /\ report[h].os = (h \in found.os)
              /\ "Up" \in found.discovery[h] => report[h].state = "Up"
              /\ "Discovery" \in config.enabled /\ report[h].ports # {} =>
                   report[h].state = "Up"
    /\ session.state = "Completed" /\ config.output_file => file.path = "new"
    /\ session.state = "Failed" => returned # "Ok"

(***************************************************************************)
(* The output file is the old one or a whole new one at every moment, also *)
(* after a power loss, and no temporary file is left when run() returns.   *)
(***************************************************************************)
OutputAtomic ==
  /\ file.path # "partial"
  /\ pc = "idle" /\ ~crashed => file.temp = "none"
=============================================================================
