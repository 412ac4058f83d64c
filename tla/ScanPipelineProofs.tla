------------------------- MODULE ScanPipelineProofs -------------------------
(***************************************************************************)
(* Invariance proofs for ScanPipeline, for every set of hosts, every set   *)
(* of configurations and every number of runs.                             *)
(***************************************************************************)
EXTENDS ScanPipeline, FiniteSetTheorems, SequenceTheorems, TLAPS

-----------------------------------------------------------------------------
(* The session.                                                            *)

EventType == {"ScanStarted", "StageStarted", "HostDiscovered", "PortCompleted",
              "ServiceDetected", "OSDetectionCompleted", "StageCompleted",
              "ScanCompleted", "ScanCancelled", "ScanFailed"}

Event == [type : EventType, stage : StageKind \cup {"none"}]

Session == [state : PipelineState, cancel_requested : BOOLEAN, heard : Seq(Event)]

(***************************************************************************)
(* The request and the state agree: cancel() sets both or neither.         *)
(***************************************************************************)
Coherent(s) == s.cancel_requested <=> s.state = "Cancelled"

LEMMA Names ==
  /\ PipelineState = {"Created", "Initializing", "Discovering", "PortScanning",
                      "DetectingServices", "DetectingOS", "Serializing", "Completed",
                      "Cancelled", "Failed"}
  /\ Stage = {"Discovery", "PortScan", "UdpScan", "ServiceDetection", "OSDetection"}
  /\ DOMAIN StageOrder = 1..5 /\ Len(StageOrder) = 5
  /\ StageOrder[1] = "Discovery" /\ StageOrder[2] = "PortScan" /\ StageOrder[3] = "UdpScan"
  /\ StageOrder[4] = "ServiceDetection" /\ StageOrder[5] = "OSDetection"
<1>1. PipelineState = {"Created", "Initializing", "Discovering", "PortScanning",
                       "DetectingServices", "DetectingOS", "Serializing", "Completed",
                       "Cancelled", "Failed"}
  <2>1. DOMAIN Running = 1..8
    BY DEF Running
  <2>2. 1..8 = {1, 2, 3, 4, 5, 6, 7, 8}
    OBVIOUS
  <2>3. {Running[i] : i \in DOMAIN Running} =
          {Running[1], Running[2], Running[3], Running[4], Running[5], Running[6],
           Running[7], Running[8]}
    BY <2>1, <2>2
  <2> QED
    BY <2>3 DEF PipelineState, Running, Terminal
<1>2. DOMAIN StageOrder = 1..5 /\ Len(StageOrder) = 5
  BY DEF StageOrder
<1>3. /\ StageOrder[1] = "Discovery" /\ StageOrder[2] = "PortScan" /\ StageOrder[3] = "UdpScan"
      /\ StageOrder[4] = "ServiceDetection" /\ StageOrder[5] = "OSDetection"
  BY DEF StageOrder
<1>4. Stage = {"Discovery", "PortScan", "UdpScan", "ServiceDetection", "OSDetection"}
  <2>1. 1..5 = {1, 2, 3, 4, 5}
    OBVIOUS
  <2>2. Stage = {StageOrder[1], StageOrder[2], StageOrder[3], StageOrder[4], StageOrder[5]}
    BY <1>2, <2>1 DEF Stage
  <2> QED
    BY <1>3, <2>2
<1> QED
  BY <1>1, <1>2, <1>3, <1>4

(***************************************************************************)
(* transition() takes an allowed step or none; a session that is over      *)
(* stays as it is.                                                         *)
(***************************************************************************)
LEMMA TransitionOutcome ==
  ASSUME NEW s \in Session, NEW next \in PipelineState
  PROVE  /\ transition(s, next) \in Session
         /\ transition(s, next).cancel_requested = s.cancel_requested
         /\ transition(s, next).heard = s.heard
         /\ transition(s, next).state \in {s.state, next}
         /\ terminal(s) => transition(s, next) = s
         /\ ~terminal(s) /\ Allowed(s.state, next) => transition(s, next).state = next
<1>1. CASE ~terminal(s) /\ Allowed(s.state, next)
  BY <1>1 DEF transition, Session
<1>2. CASE terminal(s) \/ ~Allowed(s.state, next)
  BY <1>2 DEF transition
<1> QED
  BY <1>1, <1>2

(***************************************************************************)
(* An event that is not held back is heard last.                           *)
(***************************************************************************)
LEMMA TellOutcome ==
  ASSUME NEW s \in Session, NEW type \in EventType, NEW stage \in StageKind \cup {"none"}
  PROVE  /\ Tell(s, type, stage) \in Session
         /\ Tell(s, type, stage).cancel_requested = s.cancel_requested
         /\ Tell(s, type, stage).state = s.state
         /\ Suppressed(s, type) => Tell(s, type, stage).heard = s.heard
         /\ ~Suppressed(s, type) =>
              Tell(s, type, stage).heard = Append(s.heard, [type |-> type, stage |-> stage])
<1> DEFINE e == [type |-> type, stage |-> stage]
<1>1. e \in Event
  BY DEF Event
<1> HIDE DEF e
<1>2. s.heard \in Seq(Event) /\ Append(s.heard, e) \in Seq(Event)
  BY <1>1 DEF Session
<1>3. CASE Suppressed(s, type)
  BY <1>3 DEF Tell
<1>4. CASE ~Suppressed(s, type)
  <2>1. Tell(s, type, stage) = [s EXCEPT !.heard = Append(@, e)]
    BY <1>4 DEF Tell, e
  <2> QED
    BY <1>2, <1>4, <2>1 DEF Session, e
<1> QED
  BY <1>3, <1>4

CancelEvent == [type |-> "ScanCancelled", stage |-> "none"]

(***************************************************************************)
(* cancel() ends a session that is not over, and says so.                  *)
(***************************************************************************)
LEMMA CancelOutcome ==
  ASSUME NEW s \in Session, Coherent(s)
  PROVE  /\ cancel(s) \in Session /\ Coherent(cancel(s))
         /\ terminal(s) => cancel(s) = s
         /\ ~terminal(s) => /\ cancel(s).state = "Cancelled"
                            /\ cancel(s).heard = Append(s.heard, CancelEvent)
<1>1. CASE terminal(s)
  BY <1>1 DEF cancel
<1>2. CASE ~terminal(s)
  <2> DEFINE a == [s EXCEPT !.cancel_requested = TRUE]
             b == transition(a, "Cancelled")
  <2>1. ~s.cancel_requested
    BY <1>2 DEF Coherent, terminal, Terminal
  <2>2. a \in Session /\ a.state = s.state /\ a.heard = s.heard /\ a.cancel_requested
    BY DEF Session
  <2>3. cancel(s) = Tell(b, "ScanCancelled", "none")
    BY <1>2, <2>1 DEF cancel
  <2> HIDE DEF a
  <2>4. /\ b \in Session /\ b.state = "Cancelled" /\ b.heard = s.heard /\ b.cancel_requested
    <3>1. ~terminal(a) /\ Allowed(a.state, "Cancelled")
      BY <1>2, <2>2 DEF terminal, Allowed
    <3>2. "Cancelled" \in PipelineState
      BY Names
    <3> QED
      BY <2>2, <3>1, <3>2, TransitionOutcome
  <2> HIDE DEF b
  <2>5. ~Suppressed(b, "ScanCancelled")
    BY DEF Suppressed, FinalEvents
  <2>6. "ScanCancelled" \in EventType /\ "none" \in StageKind \cup {"none"}
    BY DEF EventType
  <2>7. /\ Tell(b, "ScanCancelled", "none") \in Session
        /\ Tell(b, "ScanCancelled", "none").cancel_requested = b.cancel_requested
        /\ Tell(b, "ScanCancelled", "none").state = b.state
        /\ Tell(b, "ScanCancelled", "none").heard = Append(b.heard, CancelEvent)
    BY <2>4, <2>5, <2>6, TellOutcome DEF CancelEvent
  <2> QED
    BY <1>2, <2>3, <2>4, <2>7 DEF Coherent
<1> QED
  BY <1>1, <1>2

(***************************************************************************)
(* emit() of an event that does not end the session: nothing once it is    *)
(* over; otherwise the event, and behind it what the observer does.        *)
(***************************************************************************)
LEMMA EmitOutcome ==
  ASSUME NEW s \in Session, Coherent(s), NEW type \in EventType \ FinalEvents,
         NEW stage \in StageKind \cup {"none"}, NEW by \in BOOLEAN
  PROVE  /\ emit(s, type, stage, by) \in Session /\ Coherent(emit(s, type, stage, by))
         /\ terminal(s) => emit(s, type, stage, by) = s
         /\ ~terminal(s) /\ ~by =>
              /\ emit(s, type, stage, by).state = s.state
              /\ emit(s, type, stage, by).heard = Append(s.heard, [type |-> type, stage |-> stage])
         /\ ~terminal(s) /\ by =>
              /\ emit(s, type, stage, by).state = "Cancelled"
              /\ emit(s, type, stage, by).heard =
                   Append(Append(s.heard, [type |-> type, stage |-> stage]), CancelEvent)
<1> DEFINE a == Tell(s, type, stage)
<1>1. /\ a \in Session /\ a.cancel_requested = s.cancel_requested /\ a.state = s.state
      /\ ~Suppressed(s, type) => a.heard = Append(s.heard, [type |-> type, stage |-> stage])
  BY TellOutcome
<1>2. Coherent(a) /\ (terminal(a) <=> terminal(s))
  BY <1>1 DEF Coherent, terminal
<1>3. CASE terminal(s)
  <2>1. Suppressed(s, type)
    BY <1>3 DEF Suppressed
  <2> QED
    BY <1>3, <2>1 DEF emit, Tell
<1>4. CASE ~terminal(s)
  <2>1. ~Suppressed(s, type)
    BY <1>4 DEF Suppressed, cancelled, Coherent, terminal, Terminal
  <2>2. CASE by
    <3>1. emit(s, type, stage, by) = cancel(a)
      BY <2>1, <2>2 DEF emit
    <3> HIDE DEF a
    <3> QED
      BY <1>1, <1>2, <1>4, <2>1, <2>2, <3>1, CancelOutcome
  <2>3. CASE ~by
    <3>1. emit(s, type, stage, by) = a
      BY <2>3 DEF emit
    <3> HIDE DEF a
    <3> QED
      BY <1>1, <1>2, <1>4, <2>1, <2>3, <3>1
  <2> QED
    BY <2>2, <2>3
<1> QED
  BY <1>3, <1>4

FailEvent == [type |-> "ScanFailed", stage |-> "none"]

(***************************************************************************)
(* fail() is always heard, and ends a session that is not over.            *)
(***************************************************************************)
LEMMA FailOutcome ==
  ASSUME session \in Session, Coherent(session), NEW status, fail(status)
  PROVE  /\ session' \in Session /\ Coherent(session') /\ final_status' = status
         /\ session'.heard = Append(session.heard, FailEvent)
         /\ session'.cancel_requested = session.cancel_requested
         /\ session'.state = IF terminal(session) THEN session.state ELSE "Failed"
<1> DEFINE b == transition(session, "Failed")
<1>1. /\ b \in Session /\ b.heard = session.heard
      /\ b.cancel_requested = session.cancel_requested
      /\ b.state = IF terminal(session) THEN session.state ELSE "Failed"
  <2>1. "Failed" \in PipelineState /\ Allowed(session.state, "Failed")
    BY Names DEF Allowed
  <2> QED
    BY <2>1, TransitionOutcome
<1>2. session' = Tell(b, "ScanFailed", "none") /\ final_status' = status
  BY DEF fail
<1> HIDE DEF b
<1>3. ~Suppressed(b, "ScanFailed")
  BY DEF Suppressed, FinalEvents
<1>4. "ScanFailed" \in EventType /\ "none" \in StageKind \cup {"none"}
  BY DEF EventType
<1>5. /\ session' \in Session /\ session'.cancel_requested = b.cancel_requested
      /\ session'.state = b.state /\ session'.heard = Append(b.heard, FailEvent)
  BY <1>1, <1>2, <1>3, <1>4, TellOutcome DEF FailEvent
<1> QED
  BY <1>1, <1>2, <1>5 DEF Coherent, terminal, Terminal

-----------------------------------------------------------------------------
(* The results.                                                            *)

Ports == [host : Hosts, protocol : {"Tcp", "Udp"}, state : {"Open", "Filtered"}]

Results == [discovery : [Hosts -> Evidence \cup {{}}], ports : SUBSET Ports,
            udp : SUBSET Ports, services : SUBSET Ports, os : SUBSET Hosts]

LEMMA PortsFinite ==
  ASSUME NEW S \in SUBSET Ports
  PROVE  IsFiniteSet(S) /\ Cardinality(S) \in Nat
<1> DEFINE All(protocol, state) == {Port(h, protocol, state) : h \in Hosts}
<1>1. IsFiniteSet(Hosts)
  BY PipelineAssumption
<1>2. ASSUME NEW protocol, NEW state PROVE IsFiniteSet(All(protocol, state))
  <2> DEFINE g == [h \in Hosts |-> Port(h, protocol, state)]
  <2>1. g \in Surjection(Hosts, All(protocol, state))
    BY DEF Surjection
  <2> QED
    BY <1>1, <2>1, FS_Surjection
<1>3. Ports \subseteq All("Tcp", "Open") \cup All("Tcp", "Filtered")
                       \cup All("Udp", "Open") \cup All("Udp", "Filtered")
  BY DEF Ports, Port
<1> HIDE DEF All
<1>4. IsFiniteSet(All("Tcp", "Open") \cup All("Tcp", "Filtered")
                    \cup All("Udp", "Open") \cup All("Udp", "Filtered"))
  BY <1>2, FS_Union
<1>5. IsFiniteSet(S)
  BY <1>3, <1>4, FS_Subset
<1> QED
  BY <1>5, FS_CardinalityType

(***************************************************************************)
(* A stage that succeeds fills its own field, port stages with ports of    *)
(* the hosts they were given.                                              *)
(***************************************************************************)
LEMMA OutcomeFields ==
  ASSUME collected \in Results, current \in 1..5, NEW o \in Outcomes
  PROVE  /\ o \in Results /\ Announced(o) \in Nat /\ Kind # "OSDetection"
         /\ Kind # "Discovery" => o.discovery = collected.discovery
         /\ Kind # "PortScan" => o.ports = collected.ports
         /\ Kind # "UdpScan" => o.udp = collected.udp
         /\ Kind # "ServiceDetection" => o.services = collected.services
         /\ o.os = collected.os
         /\ Kind = "PortScan" => \A p \in o.ports : p.host \in PortTarget
         /\ Kind = "UdpScan" => \A p \in o.udp : p.host \in PortTarget
<1>1. Kind \in {"Discovery", "PortScan", "UdpScan", "ServiceDetection", "OSDetection"}
  BY Names DEF Kind
<1>2. PortTarget \subseteq Hosts
  BY DEF PortTarget, only_up_hosts
<1>3. ASSUME NEW protocol \in {"Tcp", "Udp"}, NEW open
      PROVE  /\ Scanned(protocol, open) \in SUBSET Ports
             /\ \A p \in Scanned(protocol, open) : p.host \in PortTarget
  BY <1>2 DEF Scanned, Port, Ports
<1>4. OpenPorts \in SUBSET Ports
  BY DEF OpenPorts, Results
<1>5. o \in Results => Announced(o) \in Nat
  <2> SUFFICES ASSUME o \in Results PROVE Announced(o) \in Nat
    OBVIOUS
  <2>1. /\ Cardinality(Hosts) \in Nat /\ Cardinality(o.ports) \in Nat
        /\ Cardinality(o.udp) \in Nat /\ Cardinality(o.services) \in Nat
    <3>1. o.ports \in SUBSET Ports /\ o.udp \in SUBSET Ports /\ o.services \in SUBSET Ports
      BY DEF Results
    <3> QED
      BY <3>1, PortsFinite, PipelineAssumption, FS_CardinalityType
  <2> QED
    BY <2>1 DEF Announced
<1>6. CASE Kind = "Discovery"
  <2>1. PICK e \in [Hosts -> Evidence] : o = [collected EXCEPT !.discovery = e]
    BY <1>6 DEF Outcomes
  <2>2. e \in [Hosts -> Evidence \cup {{}}]
    OBVIOUS
  <2>3. o \in Results /\ o.ports = collected.ports /\ o.udp = collected.udp
        /\ o.services = collected.services /\ o.os = collected.os
    BY <2>1, <2>2 DEF Results
  <2> QED
    BY <1>5, <1>6, <2>3
<1>7. CASE Kind = "PortScan"
  <2>1. PICK x : o = [collected EXCEPT !.ports = Scanned("Tcp", x)]
    BY <1>7 DEF Outcomes
  <2>2. /\ Scanned("Tcp", x) \in SUBSET Ports
        /\ \A p \in Scanned("Tcp", x) : p.host \in PortTarget
    BY <1>3
  <2>3. o \in Results /\ o.ports = Scanned("Tcp", x) /\ o.discovery = collected.discovery
        /\ o.udp = collected.udp /\ o.services = collected.services /\ o.os = collected.os
    BY <2>1, <2>2 DEF Results
  <2> QED
    BY <1>5, <1>7, <2>2, <2>3
<1>8. CASE Kind = "UdpScan"
  <2>1. PICK x : o = [collected EXCEPT !.udp = Scanned("Udp", x)]
    BY <1>8 DEF Outcomes
  <2>2. /\ Scanned("Udp", x) \in SUBSET Ports
        /\ \A p \in Scanned("Udp", x) : p.host \in PortTarget
    BY <1>3
  <2>3. o \in Results /\ o.udp = Scanned("Udp", x) /\ o.discovery = collected.discovery
        /\ o.ports = collected.ports /\ o.services = collected.services /\ o.os = collected.os
    BY <2>1, <2>2 DEF Results
  <2> QED
    BY <1>5, <1>8, <2>2, <2>3
<1>9. CASE Kind = "ServiceDetection"
  <2>1. o = [collected EXCEPT !.services = OpenPorts]
    BY <1>9 DEF Outcomes
  <2>2. o \in Results /\ o.discovery = collected.discovery
        /\ o.ports = collected.ports /\ o.udp = collected.udp /\ o.os = collected.os
    BY <1>4, <2>1 DEF Results
  <2> QED
    BY <1>5, <1>9, <2>2
<1>10. CASE Kind = "OSDetection"
  <2>1. Outcomes = {}
    BY <1>10 DEF Outcomes
  <2> QED
    BY <2>1
<1> QED
  BY <1>1, <1>6, <1>7, <1>8, <1>9, <1>10

LEMMA MergedFields ==
  ASSUME NEW c \in Results
  PROVE  /\ Merged(c) \in Results
         /\ Merged(c).discovery = c.discovery /\ Merged(c).udp = c.udp
         /\ Merged(c).services = c.services /\ Merged(c).os = c.os
         /\ Merged(c).ports = IF Kind = "UdpScan" THEN c.ports \cup c.udp ELSE c.ports
<1>1. CASE Kind = "UdpScan"
  <2>1. Merged(c) = [c EXCEPT !.ports = c.ports \cup c.udp]
    BY <1>1 DEF Merged, Results
  <2>2. c.ports \cup c.udp \in SUBSET Ports
    BY DEF Results
  <2> QED
    BY <1>1, <2>1, <2>2 DEF Results
<1>2. CASE Kind # "UdpScan"
  BY <1>2 DEF Merged
<1> QED
  BY <1>1, <1>2

-----------------------------------------------------------------------------
(* The output file.                                                        *)

FileSteps == {"write", "fsync", "close", "rename"}

(***************************************************************************)
(* What replace_output_file() has done by each of its steps: the temporary *)
(* file is whole before fsync() and on the disk before it is renamed.      *)
(***************************************************************************)
FileInv ==
  /\ file \in [path : {"old", "new"}, temp : {"none", "partial", "full"}, synced : BOOLEAN]
  /\ pc = "fsync" => file.temp = "full"
  /\ pc \in {"close", "rename"} => file.temp = "full" /\ file.synced
  /\ crashed => pc = "idle"
  /\ ~crashed /\ pc \notin FileSteps => file.temp = "none"

LEMMA NextFile == FileInv /\ [Next]_vars => FileInv'
<1> SUFFICES ASSUME FileInv, [Next]_vars PROVE FileInv'
  OBVIOUS
<1> USE DEF FileInv, FileSteps
<1>1. ASSUME UNCHANGED <<file, crashed>>, pc \notin FileSteps, pc' \notin FileSteps,
             pc = "idle" => ~crashed \/ pc' = "idle"
      PROVE  FileInv'
  BY <1>1
<1>2. CASE Caller
  BY <1>1, <1>2 DEF Caller, Cancel, RunAgain, Run
<1>3. CASE Prologue
  BY <1>1, <1>3 DEF Prologue, InterfaceSelected, SelectionFails, RunCancelled, StopForCancel,
     RunRefused, Return, ScanStarts
<1>4. CASE Stages
  BY <1>1, <1>4 DEF Stages, SkipStage, StageCancelled, StopForCancel, BeginStage, AnnounceItem,
     EndStage, StageSucceeds, StageFails, OSHostDone, Return, AtStage
<1>5. CASE Output
  <2>1. CASE OutputCancelled \/ (\E by \in BOOLEAN : BeginOutput(by))
    BY <1>1, <2>1 DEF OutputCancelled, StopForCancel, BeginOutput
  <2>2. CASE Serialize
    BY <1>1, <2>2 DEF Serialize
  <2>3. ASSUME NEW status, WriterFails(status) PROVE FileInv'
    BY <1>1, <2>3 DEF WriterFails, SerializeFails, Return
  <2>4. CASE MakeTemp
    BY <2>4 DEF MakeTemp, FileStep
  <2>5. CASE WriteTemp
    BY <2>5 DEF WriteTemp, FileStep
  <2>6. CASE SyncTemp
    BY <2>6 DEF SyncTemp, FileStep
  <2>7. CASE CloseTemp
    BY <2>7 DEF CloseTemp, FileStep
  <2>8. CASE RenameTemp
    BY <2>8 DEF RenameTemp, FileStep
  <2>9. CASE FileFails
    BY <2>9 DEF FileFails, SerializeFails, Return
  <2>10. ASSUME NEW by, Written(by) PROVE FileInv'
    BY <1>1, <2>10 DEF Written, Return
  <2> QED
    BY <1>5, <2>1, <2>2, <2>3, <2>4, <2>5, <2>6, <2>7, <2>8, <2>9, <2>10 DEF Output
<1>6. CASE Off \/ UNCHANGED vars
  BY <1>6 DEF Off, vars
<1>7. ASSUME NEW path, PowerLoss(path) PROVE FileInv'
  BY <1>7 DEF PowerLoss
<1> QED
  BY <1>2, <1>3, <1>4, <1>5, <1>6, <1>7 DEF Next

LEMMA FileSafe == Spec => []FileInv
<1>1. Init => FileInv
  BY DEF Init, FileInv, FileSteps
<1> QED
  BY <1>1, NextFile, PTL DEF Spec

(***************************************************************************)
(* The output file is the old one or a whole new one at every moment,      *)
(* whatever step of replace_output_file() fails and wherever the power     *)
(* goes, and no temporary file is left behind by a run that returns.       *)
(***************************************************************************)
THEOREM OutputReplacedWhole == Spec => []OutputAtomic
<1>1. FileInv => OutputAtomic
  BY DEF FileInv, FileSteps, OutputAtomic
<1> QED
  BY <1>1, FileSafe, PTL

-----------------------------------------------------------------------------
(* Control.                                                                *)

Places == {"idle", "select", "validate", "stage", "start", "announce", "serialize",
           "mkstemp", "write", "fsync", "close", "rename", "written"}

ControlInv ==
  /\ config \in ScanConfig
  /\ pc \in Places /\ current \in 0..6 /\ todo \in Nat
  /\ after \in {"none", "cancelled", "failed", "finish"}
  /\ pc \in {"start", "announce"} => current \in 1..5
  /\ pc = "stage" => current \in 1..6
  /\ runs \in 0..MaxRuns /\ crashed \in BOOLEAN
  /\ collected \in Results /\ found \in Results

LEMMA NextControl == ControlInv /\ [Next]_vars => ControlInv'
<1> SUFFICES ASSUME ControlInv, [Next]_vars PROVE ControlInv'
  OBVIOUS
<1>1. MaxRuns \in Nat
  BY PipelineAssumption
<1>2. CASE Caller
  BY <1>1, <1>2 DEF Caller, Cancel, RunAgain, Run, ControlInv, Places
<1>3. CASE Prologue
  <2>1. CASE InterfaceSelected
    <3>1. config' \in ScanConfig
      BY <2>1 DEF InterfaceSelected, ControlInv, ScanConfig
    <3> QED
      BY <2>1, <3>1 DEF InterfaceSelected, ControlInv, Places
  <2>2. ASSUME NEW s, SelectionFails(s) PROVE ControlInv'
    BY <2>2 DEF SelectionFails, ControlInv, Places
  <2>3. CASE RunCancelled
    BY <2>3 DEF RunCancelled, StopForCancel, ControlInv, Places
  <2>4. ASSUME NEW s, RunRefused(s) PROVE ControlInv'
    BY <2>4 DEF RunRefused, Return, ControlInv, Places
  <2>5. ASSUME NEW by, ScanStarts(by) PROVE ControlInv'
    BY <2>5 DEF ScanStarts, ControlInv, Places
  <2> QED
    BY <1>3, <2>1, <2>2, <2>3, <2>4, <2>5 DEF Prologue
<1>4. CASE Stages
  <2>1. CASE SkipStage
    <3>1. collected' \in Results
      BY <2>1, MergedFields DEF SkipStage, ControlInv
    <3>2. current \in 1..5
      BY <2>1, Names DEF SkipStage, AtStage
    <3> QED
      BY <2>1, <3>1, <3>2 DEF SkipStage, AtStage, ControlInv, Places
  <2>2. CASE StageCancelled
    BY <2>2 DEF StageCancelled, StopForCancel, ControlInv, Places
  <2>3. ASSUME NEW by, BeginStage(by) PROVE ControlInv'
    <3>1. Cardinality(Hosts) \in Nat
      BY PipelineAssumption, FS_CardinalityType
    <3>2. current \in 1..5
      BY <2>3, Names DEF BeginStage, AtStage
    <3> QED
      BY <2>3, <3>1, <3>2 DEF BeginStage, ControlInv, Places
  <2>4. ASSUME NEW by, AnnounceItem(by) PROVE ControlInv'
    BY <2>4 DEF AnnounceItem, ControlInv, Places
  <2>5. ASSUME NEW by, EndStage(by) PROVE ControlInv'
    <3>1. collected' \in Results
      BY <2>5, MergedFields DEF EndStage, ControlInv
    <3> QED
      BY <2>5, <3>1 DEF EndStage, ControlInv, Places
  <2>6. ASSUME NEW o \in Outcomes, StageSucceeds(o) PROVE ControlInv'
    <3>1. current \in 1..5
      BY <2>6 DEF StageSucceeds, ControlInv
    <3>2. o \in Results /\ Announced(o) \in Nat
      BY <3>1, OutcomeFields DEF ControlInv
    <3> QED
      BY <2>6, <3>1, <3>2 DEF StageSucceeds, ControlInv, Places
  <2>7. ASSUME NEW s, StageFails(s) PROVE ControlInv'
    BY <2>7 DEF StageFails, Return, ControlInv, Places
  <2>8. ASSUME NEW h \in Hosts, NEW by, OSHostDone(h, by) PROVE ControlInv'
    <3>1. collected' \in Results /\ found' \in Results
      BY <2>8 DEF OSHostDone, ControlInv, Results
    <3> QED
      BY <2>8, <3>1 DEF OSHostDone, ControlInv, Places
  <2> QED
    BY <1>4, <2>1, <2>2, <2>3, <2>4, <2>5, <2>6, <2>7, <2>8 DEF Stages
<1>5. CASE Output
  <2>1. CASE OutputCancelled \/ (\E by \in BOOLEAN : BeginOutput(by))
    BY <2>1 DEF OutputCancelled, StopForCancel, BeginOutput, ControlInv, Places
  <2>2. CASE Serialize
    BY <2>2 DEF Serialize, ControlInv, Places
  <2>3. ASSUME NEW status, WriterFails(status) PROVE ControlInv'
    BY <2>3 DEF WriterFails, SerializeFails, Return, ControlInv, Places
  <2>4. CASE MakeTemp \/ WriteTemp \/ SyncTemp \/ CloseTemp \/ RenameTemp
    BY <2>4 DEF MakeTemp, WriteTemp, SyncTemp, CloseTemp, RenameTemp, FileStep, ControlInv, Places
  <2>5. CASE FileFails
    BY <2>5 DEF FileFails, SerializeFails, Return, ControlInv, Places
  <2>6. ASSUME NEW by, Written(by) PROVE ControlInv'
    BY <2>6 DEF Written, Return, ControlInv, Places
  <2> QED
    BY <1>5, <2>1, <2>2, <2>3, <2>4, <2>5, <2>6 DEF Output
<1>6. CASE Off \/ UNCHANGED vars
  BY <1>6 DEF Off, vars, ControlInv
<1>7. ASSUME NEW path, PowerLoss(path) PROVE ControlInv'
  BY <1>7 DEF PowerLoss, ControlInv, Places
<1> QED
  BY <1>2, <1>3, <1>4, <1>5, <1>6, <1>7 DEF Next

LEMMA ControlHolds == Spec => []ControlInv
<1>1. ASSUME Init PROVE ControlInv
  <2>1. NoResults \in Results
    BY DEF NoResults, Results
  <2>2. MaxRuns \in Nat /\ Configs \subseteq ScanConfig
    BY PipelineAssumption
  <2>3. config \in ScanConfig /\ collected \in Results /\ found \in Results
    BY <1>1, <2>1, <2>2 DEF Init
  <2>4. runs \in 0..MaxRuns /\ crashed \in BOOLEAN
    <3>1. runs = 0 /\ MaxRuns \in Nat
      BY <1>1, <2>2 DEF Init
    <3>2. runs \in 0..MaxRuns
      BY <3>1
    <3>3. crashed \in BOOLEAN
      BY <1>1 DEF Init
    <3> QED
      BY <3>2, <3>3
  <2>5. pc = "idle" /\ current = 0 /\ todo = 0 /\ after = "none"
    BY <1>1 DEF Init
  <2> QED
    BY <2>3, <2>4, <2>5 DEF ControlInv, Places
<1> QED
  BY <1>1, NextControl, PTL DEF Spec

-----------------------------------------------------------------------------
(* The session and the stages.                                             *)

StageObject == {"absent", "live", "cancelled"}

SessionInv ==
  /\ session \in Session /\ Coherent(session)
  /\ stages \in [Stage -> StageObject]
  /\ CancelReleasesStages

LEMMA CancelledMeans ==
  ASSUME NEW s, Coherent(s)
  PROVE  /\ cancelled(s) <=> s.cancel_requested
         /\ cancelled(s) <=> s.state = "Cancelled"
BY DEF Coherent, cancelled

(***************************************************************************)
(* cancel_active() leaves no live stage behind a cancellation.             *)
(***************************************************************************)
LEMMA CancelActive ==
  ASSUME session \in Session, Coherent(session), session' \in Session, Coherent(session'),
         NEW built \in [Stage -> StageObject],
         cancelled(session) => \A k \in Stage : built[k] # "live",
         cancel_active(built)
  PROVE  SessionInv'
<1>1. stages' \in [Stage -> StageObject]
  BY DEF cancel_active, StageObject
<1>2. ASSUME cancelled(session'), NEW k \in Stage PROVE stages'[k] # "live"
  <2>1. session'.cancel_requested
    BY <1>2, CancelledMeans
  <2>2. CASE session.cancel_requested
    BY <1>2, <2>2, CancelledMeans DEF cancel_active
  <2>3. CASE ~session.cancel_requested
    BY <1>2, <2>1, <2>3 DEF cancel_active, StageObject
  <2> QED
    BY <2>2, <2>3
<1> QED
  BY <1>1, <1>2 DEF SessionInv, CancelReleasesStages

(***************************************************************************)
(* A failure leaves the stages alone, or one live when the scan was not    *)
(* cancelled.                                                              *)
(***************************************************************************)
LEMMA FailKeeps ==
  ASSUME SessionInv, NEW status, fail(status), stages' \in [Stage -> StageObject],
         stages' = stages \/ ~cancelled(session)
  PROVE  SessionInv'
<1>1. /\ session' \in Session /\ Coherent(session')
      /\ session'.cancel_requested = session.cancel_requested
  BY FailOutcome DEF SessionInv
<1>2. cancelled(session') <=> cancelled(session)
  BY <1>1, CancelledMeans DEF SessionInv
<1> QED
  BY <1>1, <1>2 DEF SessionInv, CancelReleasesStages

LEMMA StageNames ==
  /\ \A k \in Stage : k \in StageKind \cup {"none"} /\ StateOf(k) \in PipelineState
  /\ StateOf("Output") \in PipelineState /\ "Output" \in StageKind
  /\ {"Initializing", "Serializing", "Completed"} \subseteq PipelineState
  /\ {"ScanStarted", "StageStarted", "StageCompleted"} \subseteq EventType \ FinalEvents
  /\ "ScanCompleted" \in EventType
BY Names DEF StageKind, StateOf, EventType, FinalEvents

LEMMA ItemNames ==
  ASSUME current \in 1..5
  PROVE  ItemEvent \in EventType \ (FinalEvents \cup {"StageStarted", "StageCompleted", "ScanStarted"})
         /\ Kind \in Stage
<1>1. Kind \in {"Discovery", "PortScan", "UdpScan", "ServiceDetection", "OSDetection"}
  BY Names DEF Kind
<1> QED
  BY <1>1, Names DEF ItemEvent, EventType, FinalEvents

(***************************************************************************)
(* Moving to a state and telling of it: no state but Cancelled is meant.   *)
(***************************************************************************)
LEMMA MoveAndEmit ==
  ASSUME NEW s \in Session, Coherent(s), NEW next \in PipelineState \ {"Cancelled"},
         NEW type \in EventType \ FinalEvents, NEW stage \in StageKind \cup {"none"},
         NEW by \in BOOLEAN
  PROVE  /\ emit(transition(s, next), type, stage, by) \in Session
         /\ Coherent(emit(transition(s, next), type, stage, by))
<1> DEFINE b == transition(s, next)
<1>1. /\ b \in Session /\ b.cancel_requested = s.cancel_requested
      /\ b.state \in {s.state, next} /\ (terminal(s) => b = s)
  BY TransitionOutcome
<1> HIDE DEF b
<1>2. Coherent(b)
  <2>1. CASE terminal(s)
    BY <1>1, <2>1
  <2>2. CASE ~terminal(s)
    BY <1>1, <2>2 DEF Coherent, terminal, Terminal
  <2> QED
    BY <2>1, <2>2
<1> QED
  BY <1>1, <1>2, EmitOutcome DEF b

LEMMA WrittenOutcome ==
  ASSUME session \in Session, Coherent(session), NEW by \in BOOLEAN, Written(by)
  PROVE  session' \in Session /\ Coherent(session')
<1>1. CASE after # "finish"
  BY <1>1 DEF Written
<1>2. CASE after = "finish"
  <2> DEFINE a == emit(session, "StageCompleted", "Output", by)
             b == transition(a, "Completed")
  <2>1. session' = Tell(b, "ScanCompleted", "none")
    BY <1>2 DEF Written
  <2>2. a \in Session /\ Coherent(a)
    BY StageNames, EmitOutcome
  <2> HIDE DEF a
  <2>3. /\ b \in Session /\ b.cancel_requested = a.cancel_requested
        /\ b.state \in {a.state, "Completed"} /\ (terminal(a) => b = a)
    BY <2>2, StageNames, TransitionOutcome
  <2> HIDE DEF b
  <2>4. Coherent(b)
    <3>1. CASE terminal(a)
      BY <2>2, <2>3, <3>1
    <3>2. CASE ~terminal(a)
      BY <2>2, <2>3, <3>2 DEF Coherent, terminal, Terminal
    <3> QED
      BY <3>1, <3>2
  <2>5. /\ session' \in Session /\ session'.cancel_requested = b.cancel_requested
        /\ session'.state = b.state
    <3>1. "ScanCompleted" \in EventType /\ "none" \in StageKind \cup {"none"}
      BY DEF EventType
    <3> QED
      BY <2>1, <2>3, <3>1, TellOutcome
  <2> QED
    BY <2>4, <2>5 DEF Coherent
<1> QED
  BY <1>1, <1>2

LEMMA NextSession == ControlInv /\ SessionInv /\ [Next]_vars => SessionInv'
<1> SUFFICES ASSUME ControlInv, SessionInv, [Next]_vars PROVE SessionInv'
  OBVIOUS
<1>1. ASSUME UNCHANGED <<session, stages>> PROVE SessionInv'
  BY <1>1 DEF SessionInv, CancelReleasesStages
<1>2. ASSUME session' \in Session, Coherent(session'), cancel_active(stages) PROVE SessionInv'
  BY <1>2, CancelActive DEF SessionInv, CancelReleasesStages
<1>3. ASSUME NEW status, fail(status), UNCHANGED stages PROVE SessionInv'
  BY <1>3, FailKeeps DEF SessionInv
<1>4. session \in Session /\ Coherent(session) /\ stages \in [Stage -> StageObject]
  BY DEF SessionInv
<1>5. CASE Caller
  <2>1. CASE Cancel
    BY <1>2, <1>4, <2>1, CancelOutcome DEF Cancel
  <2>2. CASE RunAgain \/ Run
    BY <1>1, <2>2 DEF RunAgain, Run
  <2> QED
    BY <1>5, <2>1, <2>2 DEF Caller
<1>6. CASE Prologue
  <2>1. CASE InterfaceSelected \/ RunCancelled
    BY <1>1, <2>1 DEF InterfaceSelected, RunCancelled, StopForCancel
  <2>2. ASSUME NEW s, SelectionFails(s) \/ RunRefused(s) PROVE SessionInv'
    BY <1>3, <2>2 DEF SelectionFails, RunRefused
  <2>3. ASSUME NEW by \in BOOLEAN, ScanStarts(by) PROVE SessionInv'
    <3>1. session' = emit(transition(session, "Initializing"), "ScanStarted", "none", by)
          /\ cancel_active(stages)
      BY <2>3 DEF ScanStarts
    <3>2. session' \in Session /\ Coherent(session')
      BY <1>4, <3>1, StageNames, MoveAndEmit
    <3> QED
      BY <1>2, <3>1, <3>2
  <2> QED
    BY <1>6, <2>1, <2>2, <2>3 DEF Prologue
<1>7. CASE Stages
  <2>1. CASE SkipStage \/ StageCancelled
    BY <1>1, <2>1 DEF SkipStage, StageCancelled, StopForCancel
  <2>2. ASSUME NEW by \in BOOLEAN, BeginStage(by) PROVE SessionInv'
    <3>1. session' = emit(transition(session, StateOf(Kind)), "StageStarted", Kind, by)
          /\ cancel_active(stages)
      BY <2>2 DEF BeginStage
    <3>2. current \in 1..5 /\ Kind \in Stage
      BY <2>2, Names, ItemNames DEF BeginStage, AtStage
    <3>3. StateOf(Kind) \in PipelineState \ {"Cancelled"}
      BY <3>2, Names DEF StateOf
    <3>4. session' \in Session /\ Coherent(session')
      BY <1>4, <3>1, <3>2, <3>3, StageNames, MoveAndEmit
    <3> QED
      BY <1>2, <3>1, <3>4
  <2>3. ASSUME NEW by \in BOOLEAN, AnnounceItem(by) PROVE SessionInv'
    <3>1. session' = emit(session, ItemEvent, Kind, by) /\ cancel_active(stages)
      BY <2>3 DEF AnnounceItem
    <3>2. Kind \in Stage /\ ItemEvent \in EventType \ FinalEvents
      BY <2>3, ItemNames DEF AnnounceItem, ControlInv
    <3>3. session' \in Session /\ Coherent(session')
      BY <1>4, <3>1, <3>2, StageNames, EmitOutcome
    <3> QED
      BY <1>2, <3>1, <3>3
  <2>4. ASSUME NEW by \in BOOLEAN, EndStage(by) PROVE SessionInv'
    <3>1. session' = emit(session, "StageCompleted", Kind, by) /\ cancel_active(stages)
      BY <2>4 DEF EndStage
    <3>2. Kind \in Stage
      BY <2>4, ItemNames DEF EndStage, ControlInv
    <3>3. session' \in Session /\ Coherent(session')
      BY <1>4, <3>1, <3>2, StageNames, EmitOutcome
    <3> QED
      BY <1>2, <3>1, <3>3
  <2>5. ASSUME NEW o, StageSucceeds(o) PROVE SessionInv'
    BY <2>5 DEF StageSucceeds, SessionInv, CancelReleasesStages, StageObject
  <2>6. ASSUME NEW s, StageFails(s) PROVE SessionInv'
    <3>1. fail(s) /\ ~cancelled(session) /\ stages' \in [Stage -> StageObject]
      BY <1>4, <2>6 DEF StageFails, StageObject
    <3> QED
      BY <3>1, FailKeeps
  <2>7. ASSUME NEW h, NEW by \in BOOLEAN, OSHostDone(h, by) PROVE SessionInv'
    <3> DEFINE built == [stages EXCEPT ![Kind] = "live"]
    <3>1. session' = emit(session, ItemEvent, Kind, by) /\ cancel_active(built)
          /\ ~cancelled(session)
      BY <2>7 DEF OSHostDone
    <3>2. Kind \in Stage /\ ItemEvent \in EventType \ FinalEvents
      BY <2>7, ItemNames DEF OSHostDone, ControlInv
    <3>3. session' \in Session /\ Coherent(session')
      BY <1>4, <3>1, <3>2, StageNames, EmitOutcome
    <3>4. built \in [Stage -> StageObject]
      BY <1>4 DEF StageObject
    <3> HIDE DEF built
    <3> QED
      BY <1>4, <3>1, <3>3, <3>4, CancelActive
  <2> QED
    BY <1>7, <2>1, <2>2, <2>3, <2>4, <2>5, <2>6, <2>7 DEF Stages
<1>8. CASE Output
  <2>1. CASE OutputCancelled \/ Serialize
    BY <1>1, <2>1 DEF OutputCancelled, StopForCancel, Serialize
  <2>2. ASSUME NEW by \in BOOLEAN, BeginOutput(by) PROVE SessionInv'
    <3>1. session' = emit(transition(session, "Serializing"), "StageStarted", "Output", by)
          /\ cancel_active(stages)
      BY <2>2 DEF BeginOutput
    <3>2. session' \in Session /\ Coherent(session')
      BY <1>4, <3>1, StageNames, MoveAndEmit
    <3> QED
      BY <1>2, <3>1, <3>2
  <2>3. ASSUME NEW status, WriterFails(status) PROVE SessionInv'
    BY <1>3, <2>3 DEF WriterFails, SerializeFails
  <2>4. CASE MakeTemp \/ WriteTemp \/ SyncTemp \/ CloseTemp \/ RenameTemp
    BY <1>1, <2>4 DEF MakeTemp, WriteTemp, SyncTemp, CloseTemp, RenameTemp, FileStep
  <2>5. CASE FileFails
    BY <1>3, <2>5 DEF FileFails, SerializeFails
  <2>6. ASSUME NEW by \in BOOLEAN, Written(by) PROVE SessionInv'
    BY <1>2, <1>4, <2>6, WrittenOutcome DEF Written
  <2> QED
    BY <1>8, <2>1, <2>2, <2>3, <2>4, <2>5, <2>6 DEF Output
<1>9. CASE Off \/ UNCHANGED vars
  BY <1>1, <1>9 DEF Off, vars
<1>10. ASSUME NEW path, PowerLoss(path) PROVE SessionInv'
  BY <1>1, <1>10 DEF PowerLoss
<1> QED
  BY <1>5, <1>6, <1>7, <1>8, <1>9, <1>10 DEF Next

LEMMA SessionHolds == Spec => []SessionInv
<1>1. ASSUME Init PROVE SessionInv
  <2>1. /\ session.state = "Created" /\ session.cancel_requested = FALSE /\ session.heard = <<>>
        /\ session = [state |-> "Created", cancel_requested |-> FALSE, heard |-> <<>>]
        /\ stages = [k \in Stage |-> "absent"]
    BY <1>1 DEF Init
  <2>2. session \in Session
    BY <2>1, Names, EmptySeq DEF Session
  <2>3. stages \in [Stage -> StageObject] /\ \A k \in Stage : stages[k] # "live"
    BY <2>1 DEF StageObject
  <2> QED
    BY <2>1, <2>2, <2>3 DEF SessionInv, Coherent, CancelReleasesStages
<1> QED
  BY <1>1, ControlHolds, NextSession, PTL DEF Spec

(***************************************************************************)
(* A cancelled scan holds no scheduler and no transport, for every         *)
(* configuration and wherever the observer cancels: cancel_active()        *)
(* reaches every stage built before, and no stage is built after.          *)
(***************************************************************************)
THEOREM CancelledHoldsNothing == Spec => []CancelReleasesStages
<1>1. SessionInv => CancelReleasesStages
  BY DEF SessionInv
<1> QED
  BY <1>1, SessionHolds, PTL

-----------------------------------------------------------------------------
(* Where the session is while run() is where it is.                        *)

Closing == {"serialize", "mkstemp", "write", "fsync", "close", "rename", "written"}

(***************************************************************************)
(* The states the session can be in when run() comes to stage number k:    *)
(* that of any stage before, since stages are skipped.                     *)
(***************************************************************************)
Before(k) == {"Initializing"} \cup {StateOf(StageOrder[i]) : i \in 1..(k - 1)}

(***************************************************************************)
(* run() never finds the session in another state than it left it in, but  *)
(* for a cancellation: so every transition it asks for is granted,         *)
(* although it does not look.  A run that returns leaves the session over. *)
(***************************************************************************)
StateInv ==
  ~crashed =>
    /\ pc = "idle" => session.state \in {"Created"} \cup Terminal
    /\ pc \in {"select", "validate"} => session.state \in {"Created", "Cancelled"}
    /\ pc = "stage" => session.state \in Before(current) \cup {"Cancelled"}
    /\ pc \in {"start", "announce"} => session.state \in {StateOf(Kind), "Cancelled"}
    /\ pc \notin Closing => after = "none"
    /\ pc \in Closing =>
         \/ after = "finish" /\ session.state \in {"Serializing", "Cancelled"}
         \/ after = "cancelled" /\ session.state = "Cancelled"
         \/ after = "failed" /\ session.state \in {"Failed", "Cancelled"} /\ final_status # "Ok"

(***************************************************************************)
(* The table of transition() grants what run() asks for at its place.      *)
(***************************************************************************)
LEMMA BeforeStates ==
  /\ Before(1) = {"Initializing"}
  /\ Before(2) = {"Initializing", "Discovering"}
  /\ Before(3) = {"Initializing", "Discovering", "PortScanning"}
  /\ Before(4) = {"Initializing", "Discovering", "PortScanning"}
  /\ Before(5) = {"Initializing", "Discovering", "PortScanning", "DetectingServices"}
  /\ Before(6) = {"Initializing", "Discovering", "PortScanning", "DetectingServices",
                  "DetectingOS"}
<1>1. /\ StateOf(StageOrder[1]) = "Discovering" /\ StateOf(StageOrder[2]) = "PortScanning"
      /\ StateOf(StageOrder[3]) = "PortScanning" /\ StateOf(StageOrder[4]) = "DetectingServices"
      /\ StateOf(StageOrder[5]) = "DetectingOS"
  BY Names DEF StateOf
<1> DEFINE S(i) == StateOf(StageOrder[i])
<1>2. \A k : Before(k) = {"Initializing"} \cup {S(i) : i \in 1..(k - 1)}
  BY DEF Before
<1>3. S(1) = "Discovering" /\ S(2) = "PortScanning" /\ S(3) = "PortScanning"
      /\ S(4) = "DetectingServices" /\ S(5) = "DetectingOS"
  BY <1>1
<1> HIDE DEF S
<1>4. /\ 1..(1 - 1) = {} /\ 1..(2 - 1) = {1} /\ 1..(3 - 1) = {1, 2} /\ 1..(4 - 1) = {1, 2, 3}
      /\ 1..(5 - 1) = {1, 2, 3, 4} /\ 1..(6 - 1) = {1, 2, 3, 4, 5}
  OBVIOUS
<1>5. /\ {S(i) : i \in {}} = {} /\ {S(i) : i \in {1}} = {S(1)}
      /\ {S(i) : i \in {1, 2}} = {S(1), S(2)} /\ {S(i) : i \in {1, 2, 3}} = {S(1), S(2), S(3)}
      /\ {S(i) : i \in {1, 2, 3, 4}} = {S(1), S(2), S(3), S(4)}
      /\ {S(i) : i \in {1, 2, 3, 4, 5}} = {S(1), S(2), S(3), S(4), S(5)}
  OBVIOUS
<1>6. /\ Before(1) = {"Initializing"} \cup {} /\ Before(2) = {"Initializing"} \cup {S(1)}
      /\ Before(3) = {"Initializing"} \cup {S(1), S(2)}
      /\ Before(4) = {"Initializing"} \cup {S(1), S(2), S(3)}
      /\ Before(5) = {"Initializing"} \cup {S(1), S(2), S(3), S(4)}
      /\ Before(6) = {"Initializing"} \cup {S(1), S(2), S(3), S(4), S(5)}
  BY <1>2, <1>4, <1>5
<1> QED
  BY <1>3, <1>6

LEMMA Granted ==
  /\ Allowed("Created", "Initializing") /\ Allowed("Serializing", "Completed")
  /\ \A k \in 1..5 : \A st \in Before(k) :
       st = StateOf(StageOrder[k]) \/ Allowed(st, StateOf(StageOrder[k]))
  /\ \A st \in Before(6) : Allowed(st, "Serializing")
  /\ \A k \in 1..6 : \A st \in Before(k) : st \notin {"Created"} \cup Terminal
  /\ \A k \in 1..5 : Before(k) \subseteq Before(k + 1) /\ StateOf(StageOrder[k]) \in Before(k + 1)
<1>1. /\ DOMAIN Running = 1..8 /\ Running[2] = "Initializing" /\ Running[3] = "Discovering"
      /\ Running[4] = "PortScanning" /\ Running[5] = "DetectingServices"
      /\ Running[6] = "DetectingOS" /\ Running[7] = "Serializing" /\ Running[8] = "Completed"
  BY DEF Running
<1>2. ASSUME NEW i \in 2..8, NEW j \in 2..8, i < j PROVE Allowed(Running[i], Running[j])
  <2>1. Running[i] # "Created" /\ i \in DOMAIN Running /\ j \in DOMAIN Running
    BY <1>1, <1>2
  <2> QED
    BY <1>2, <2>1 DEF Allowed
<1>3. /\ Allowed("Initializing", "Discovering") /\ Allowed("Initializing", "PortScanning")
      /\ Allowed("Initializing", "DetectingServices") /\ Allowed("Initializing", "DetectingOS")
      /\ Allowed("Initializing", "Serializing")
  BY <1>1, <1>2
<1>4. /\ Allowed("Discovering", "PortScanning") /\ Allowed("Discovering", "DetectingServices")
      /\ Allowed("Discovering", "DetectingOS") /\ Allowed("Discovering", "Serializing")
  BY <1>1, <1>2
<1>5. /\ Allowed("PortScanning", "DetectingServices") /\ Allowed("PortScanning", "DetectingOS")
      /\ Allowed("PortScanning", "Serializing")
  BY <1>1, <1>2
<1>6. /\ Allowed("DetectingServices", "DetectingOS") /\ Allowed("DetectingServices", "Serializing")
      /\ Allowed("DetectingOS", "Serializing") /\ Allowed("Serializing", "Completed")
  BY <1>1, <1>2
<1>7. Allowed("Created", "Initializing")
  BY DEF Allowed
<1>8. /\ StateOf(StageOrder[1]) = "Discovering" /\ StateOf(StageOrder[2]) = "PortScanning"
      /\ StateOf(StageOrder[3]) = "PortScanning" /\ StateOf(StageOrder[4]) = "DetectingServices"
      /\ StateOf(StageOrder[5]) = "DetectingOS"
  BY Names DEF StateOf
<1>9. \A k \in 1..5 : \A st \in Before(k) :
       st = StateOf(StageOrder[k]) \/ Allowed(st, StateOf(StageOrder[k]))
  BY <1>3, <1>4, <1>5, <1>6, <1>8, BeforeStates
<1>10. \A st \in Before(6) : Allowed(st, "Serializing")
  BY <1>3, <1>4, <1>5, <1>6, BeforeStates
<1>11. \A k \in 1..6 : \A st \in Before(k) : st \notin {"Created"} \cup Terminal
  BY BeforeStates DEF Terminal
<1>12. \A k \in 1..5 : Before(k) \subseteq Before(k + 1) /\ StateOf(StageOrder[k]) \in Before(k + 1)
  BY <1>8, BeforeStates
<1> QED
  BY <1>6, <1>7, <1>9, <1>10, <1>11, <1>12

(***************************************************************************)
(* A transition that is granted, and the event behind it.                  *)
(***************************************************************************)
LEMMA MoveGranted ==
  ASSUME NEW s \in Session, Coherent(s), ~terminal(s), NEW next \in PipelineState \ Terminal,
         s.state = next \/ Allowed(s.state, next),
         NEW type \in EventType \ FinalEvents, NEW stage \in StageKind \cup {"none"},
         NEW by \in BOOLEAN
  PROVE  /\ emit(transition(s, next), type, stage, by).state \in {next, "Cancelled"}
         /\ ~by =>
              /\ emit(transition(s, next), type, stage, by).state = next
              /\ emit(transition(s, next), type, stage, by).heard =
                   Append(s.heard, [type |-> type, stage |-> stage])
         /\ by =>
              /\ emit(transition(s, next), type, stage, by).state = "Cancelled"
              /\ emit(transition(s, next), type, stage, by).heard =
                   Append(Append(s.heard, [type |-> type, stage |-> stage]), CancelEvent)
<1> DEFINE b == transition(s, next)
<1>1. /\ b \in Session /\ b.cancel_requested = s.cancel_requested /\ b.heard = s.heard
      /\ b.state = next
  BY TransitionOutcome
<1> HIDE DEF b
<1>2. Coherent(b) /\ ~terminal(b)
  BY <1>1 DEF Coherent, terminal, Terminal
<1>3. /\ ~by => /\ emit(b, type, stage, by).state = b.state
                /\ emit(b, type, stage, by).heard =
                     Append(b.heard, [type |-> type, stage |-> stage])
      /\ by => /\ emit(b, type, stage, by).state = "Cancelled"
               /\ emit(b, type, stage, by).heard =
                    Append(Append(b.heard, [type |-> type, stage |-> stage]), CancelEvent)
  BY <1>1, <1>2, EmitOutcome
<1>4. emit(b, type, stage, by).state \in {next, "Cancelled"}
  <2> DEFINE t == emit(b, type, stage, by)
  <2>1. (~by => t.state = next) /\ (by => t.state = "Cancelled")
    BY <1>1, <1>3
  <2> HIDE DEF t
  <2>2. t.state \in {next, "Cancelled"}
    BY <2>1
  <2> QED
    BY <2>2 DEF t
<1> QED
  BY <1>1, <1>3, <1>4 DEF b

LEMMA SameOrCancel ==
  ASSUME NEW s \in Session, Coherent(s), NEW type \in EventType \ FinalEvents,
         NEW stage \in StageKind \cup {"none"}, NEW by \in BOOLEAN
  PROVE  emit(s, type, stage, by).state \in {s.state, "Cancelled"}
<1> DEFINE t == emit(s, type, stage, by)
<1>1. /\ terminal(s) => t = s
      /\ ~terminal(s) /\ ~by => t.state = s.state
      /\ ~terminal(s) /\ by => t.state = "Cancelled"
  BY EmitOutcome
<1> HIDE DEF t
<1>2. t.state \in {s.state, "Cancelled"}
  BY <1>1
<1> QED
  BY <1>2 DEF t

OutputDone == [type |-> "StageCompleted", stage |-> "Output"]
ScanDone == [type |-> "ScanCompleted", stage |-> "none"]

(***************************************************************************)
(* The end of a run that was not stopped: completed, or cancelled by the   *)
(* observer of its last stage.                                             *)
(***************************************************************************)
LEMMA FinishOutcome ==
  ASSUME session \in Session, Coherent(session), NEW by \in BOOLEAN, Written(by),
         after = "finish", session.state \in {"Serializing", "Cancelled"}
  PROVE  /\ session.state = "Cancelled" => session'.state = "Cancelled" /\ session'.heard = session.heard
         /\ session.state = "Serializing" /\ by =>
              /\ session'.state = "Cancelled"
              /\ session'.heard = Append(Append(session.heard, OutputDone), CancelEvent)
         /\ session.state = "Serializing" /\ ~by =>
              /\ session'.state = "Completed"
              /\ session'.heard = Append(Append(session.heard, OutputDone), ScanDone)
<1> DEFINE a == emit(session, "StageCompleted", "Output", by)
           b == transition(a, "Completed")
<1>1. session' = Tell(b, "ScanCompleted", "none")
  BY DEF Written
<1>2. /\ "StageCompleted" \in EventType \ FinalEvents /\ "Output" \in StageKind \cup {"none"}
      /\ "ScanCompleted" \in EventType /\ "none" \in StageKind \cup {"none"}
      /\ "Completed" \in PipelineState
  BY StageNames
<1>3. terminal(session) <=> session.state = "Cancelled"
  BY DEF terminal, Terminal
<1>4. /\ a \in Session /\ Coherent(a)
      /\ terminal(session) => a = session
      /\ ~terminal(session) /\ ~by => /\ a.state = session.state
                                     /\ a.heard = Append(session.heard, OutputDone)
      /\ ~terminal(session) /\ by => /\ a.state = "Cancelled"
                                    /\ a.heard = Append(Append(session.heard, OutputDone), CancelEvent)
  BY <1>2, EmitOutcome DEF OutputDone
<1> HIDE DEF a
<1>5. /\ b \in Session /\ b.heard = a.heard /\ b.cancel_requested = a.cancel_requested
      /\ terminal(a) => b = a
      /\ ~terminal(a) /\ Allowed(a.state, "Completed") => b.state = "Completed"
  BY <1>2, <1>4, TransitionOutcome
<1> HIDE DEF b
<1>6. /\ session'.state = b.state
      /\ Suppressed(b, "ScanCompleted") => session'.heard = b.heard
      /\ ~Suppressed(b, "ScanCompleted") => session'.heard = Append(b.heard, ScanDone)
  BY <1>1, <1>2, <1>5, TellOutcome DEF ScanDone
<1>7. CASE session.state = "Serializing" /\ ~by
  <2>1. a.state = "Serializing" /\ ~terminal(a) /\ ~a.cancel_requested
    BY <1>3, <1>4, <1>7 DEF terminal, Terminal, Coherent
  <2>2. b.state = "Completed" /\ ~b.cancel_requested
    BY <1>5, <2>1, Granted
  <2>3. ~Suppressed(b, "ScanCompleted")
    BY <2>2 DEF Suppressed, cancelled, FinalEvents
  <2> QED
    BY <1>3, <1>4, <1>5, <1>6, <1>7, <2>2, <2>3
<1>8. CASE session.state = "Cancelled" \/ (session.state = "Serializing" /\ by)
  <2>1. a.state = "Cancelled" /\ terminal(a)
    BY <1>3, <1>4, <1>8 DEF terminal, Terminal
  <2>2. b = a /\ Suppressed(b, "ScanCompleted")
    BY <1>5, <2>1 DEF Suppressed, cancelled
  <2> QED
    BY <1>3, <1>4, <1>6, <1>8, <2>1, <2>2
<1> QED
  BY <1>7, <1>8

LEMMA NextState ==
  ControlInv /\ FileInv /\ SessionInv /\ StateInv /\ [Next]_vars => StateInv'
<1> SUFFICES ASSUME ControlInv, FileInv, SessionInv, StateInv, [Next]_vars PROVE StateInv'
  OBVIOUS
<1>1. /\ session \in Session /\ Coherent(session)
      /\ cancelled(session) <=> session.state = "Cancelled"
      /\ crashed => pc = "idle"
  BY CancelledMeans DEF SessionInv, FileInv
<1>2. ASSUME NEW status, fail(status), ~crashed
      PROVE  /\ session.state = "Cancelled" => session'.state = "Cancelled"
             /\ session'.state \in Terminal /\ final_status' = status
             /\ session.state \notin {"Completed"} => session'.state \in {"Failed", "Cancelled"}
  BY <1>1, <1>2, FailOutcome DEF terminal, Terminal
<1>3. CASE Caller
  <2>1. CASE Cancel
    <3>1. session' = cancel(session) /\ pc = "idle" /\ ~crashed
      BY <2>1 DEF Cancel
    <3>2. session'.state \in Terminal
      BY <1>1, <3>1, CancelOutcome DEF terminal, Terminal
    <3> QED
      BY <2>1, <3>2 DEF Cancel, StateInv, Closing
  <2>2. CASE RunAgain
    BY <2>2 DEF RunAgain, StateInv
  <2>3. CASE Run
    BY <1>1, <2>3 DEF Run, StateInv, terminal, Terminal, Closing
  <2> QED
    BY <1>3, <2>1, <2>2, <2>3 DEF Caller
<1>4. CASE Prologue
  <2>1. CASE InterfaceSelected
    BY <1>1, <2>1 DEF InterfaceSelected, StateInv, Closing
  <2>2. ASSUME NEW s \in {"PermissionDenied", "NotFound"}, SelectionFails(s) PROVE StateInv'
    <3>1. session'.state \in {"Failed", "Cancelled"} /\ final_status' = s
      BY <1>1, <1>2, <2>2 DEF SelectionFails, StateInv
    <3> QED
      BY <2>2, <3>1 DEF SelectionFails, StateInv, Closing
  <2>3. CASE RunCancelled
    BY <1>1, <2>3 DEF RunCancelled, StopForCancel, StateInv, Closing
  <2>4. ASSUME NEW s, RunRefused(s) PROVE StateInv'
    BY <1>1, <1>2, <2>4 DEF RunRefused, Return, StateInv, Closing
  <2>5. ASSUME NEW by \in BOOLEAN, ScanStarts(by) PROVE StateInv'
    <3>1. session.state = "Created" /\ ~terminal(session) /\ ~crashed
      BY <1>1, <2>5 DEF ScanStarts, StateInv, terminal, Terminal
    <3>2. session' = emit(transition(session, "Initializing"), "ScanStarted", "none", by)
      BY <2>5 DEF ScanStarts
    <3>3. "Initializing" \in PipelineState \ Terminal
      BY Names DEF Terminal
    <3>4. /\ Allowed(session.state, "Initializing")
          /\ "ScanStarted" \in EventType \ FinalEvents /\ "none" \in StageKind \cup {"none"}
      BY <3>1, Granted, StageNames
    <3>5. session'.state \in {"Initializing", "Cancelled"}
      BY <1>1, <3>1, <3>2, <3>3, <3>4, MoveGranted
    <3> QED
      BY <2>5, <3>5, BeforeStates DEF ScanStarts, StateInv, Closing
  <2> QED
    BY <1>4, <2>1, <2>2, <2>3, <2>4, <2>5 DEF Prologue
<1>5. CASE Stages
  <2>1. CASE SkipStage
    <3>1. current \in 1..5 /\ Before(current) \subseteq Before(current + 1)
      BY <2>1, Names, Granted DEF SkipStage, AtStage
    <3> QED
      BY <2>1, <3>1 DEF SkipStage, AtStage, StateInv, Closing
  <2>2. CASE StageCancelled
    BY <1>1, <2>2 DEF StageCancelled, AtStage, StopForCancel, StateInv, Closing
  <2>3. ASSUME NEW by \in BOOLEAN, BeginStage(by) PROVE StateInv'
    <3>1. current \in 1..5 /\ Kind \in Stage /\ Kind = StageOrder[current]
      BY <2>3, Names, ItemNames DEF BeginStage, AtStage, Kind
    <3>2. session.state \in Before(current) /\ ~terminal(session) /\ ~crashed
      BY <1>1, <2>3, <3>1, Granted DEF BeginStage, AtStage, StateInv, terminal, Terminal
    <3>3. session.state = StateOf(Kind) \/ Allowed(session.state, StateOf(Kind))
      BY <3>1, <3>2, Granted
    <3>4. StateOf(Kind) \in PipelineState \ Terminal
      BY <3>1, Names DEF StateOf, Terminal
    <3>5. session' = emit(transition(session, StateOf(Kind)), "StageStarted", Kind, by)
      BY <2>3 DEF BeginStage
    <3>6. session'.state \in {StateOf(Kind), "Cancelled"}
      BY <1>1, <3>1, <3>2, <3>3, <3>4, <3>5, StageNames, MoveGranted
    <3>7. Kind' = Kind
      BY <2>3 DEF BeginStage, Kind
    <3> QED
      BY <2>3, <3>6, <3>7 DEF BeginStage, AtStage, StateInv, Closing
  <2>4. ASSUME NEW by \in BOOLEAN, NEW type \in EventType \ FinalEvents, NEW kind \in Stage,
               session' = emit(session, type, kind, by)
        PROVE  session'.state \in {session.state, "Cancelled"}
    BY <1>1, <2>4, StageNames, SameOrCancel
  <2>5. ASSUME NEW by \in BOOLEAN, AnnounceItem(by) PROVE StateInv'
    <3>1. session'.state \in {session.state, "Cancelled"}
      BY <2>4, <2>5, ItemNames DEF AnnounceItem, ControlInv
    <3>2. Kind' = Kind
      BY <2>5 DEF AnnounceItem, Kind
    <3> QED
      BY <2>5, <3>1, <3>2 DEF AnnounceItem, StateInv, Closing
  <2>6. ASSUME NEW by \in BOOLEAN, EndStage(by) PROVE StateInv'
    <3>1. session'.state \in {session.state, "Cancelled"}
      BY <2>4, <2>6, ItemNames, StageNames DEF EndStage, ControlInv
    <3>2. current \in 1..5 /\ StateOf(Kind) \in Before(current + 1)
      BY <2>6, Granted DEF EndStage, ControlInv, Kind
    <3> QED
      BY <1>1, <2>6, <3>1, <3>2 DEF EndStage, StateInv, Closing
  <2>7. ASSUME NEW o, StageSucceeds(o) PROVE StateInv'
    <3>1. Kind' = Kind
      BY <2>7 DEF StageSucceeds, Kind
    <3> QED
      BY <2>7, <3>1 DEF StageSucceeds, StateInv, Closing
  <2>8. ASSUME NEW s, StageFails(s) PROVE StateInv'
    BY <1>1, <1>2, <2>8 DEF StageFails, Return, StateInv, Closing
  <2>9. ASSUME NEW h, NEW by \in BOOLEAN, OSHostDone(h, by) PROVE StateInv'
    <3>1. session'.state \in {session.state, "Cancelled"}
      BY <2>4, <2>9, ItemNames DEF OSHostDone, ControlInv
    <3>2. Kind' = Kind
      BY <2>9 DEF OSHostDone, Kind
    <3> QED
      BY <2>9, <3>1, <3>2 DEF OSHostDone, StateInv, Closing
  <2> QED
    BY <1>5, <2>1, <2>2, <2>3, <2>5, <2>6, <2>7, <2>8, <2>9 DEF Stages
<1>6. CASE Output
  <2>1. CASE OutputCancelled
    BY <1>1, <2>1 DEF OutputCancelled, StopForCancel, StateInv, Closing
  <2>2. ASSUME NEW by \in BOOLEAN, BeginOutput(by) PROVE StateInv'
    <3>1. current = 6 /\ ~crashed
      BY <1>1, <2>2, Names DEF BeginOutput, ControlInv
    <3>2. session.state \in Before(6) /\ ~terminal(session)
      BY <1>1, <2>2, <3>1, Granted DEF BeginOutput, StateInv, terminal
    <3>3. session' = emit(transition(session, "Serializing"), "StageStarted", "Output", by)
      BY <2>2 DEF BeginOutput
    <3>4. "Serializing" \in PipelineState \ Terminal
      BY Names DEF Terminal
    <3>5. session'.state \in {"Serializing", "Cancelled"}
      BY <1>1, <3>2, <3>3, <3>4, Granted, StageNames, MoveGranted
    <3> QED
      BY <2>2, <3>5 DEF BeginOutput, StateInv, Closing
  <2>3. CASE Serialize
    BY <1>1, <2>3 DEF Serialize, StateInv, Closing
  <2>4. ASSUME NEW status, SerializeFails(status), pc \in Closing PROVE StateInv'
    BY <1>1, <1>2, <2>4 DEF SerializeFails, Return, StateInv, Closing
  <2>5. ASSUME NEW status, WriterFails(status) PROVE StateInv'
    BY <2>4, <2>5 DEF WriterFails, Closing
  <2>6. CASE FileFails
    BY <2>4, <2>6 DEF FileFails, Closing
  <2>7. CASE MakeTemp \/ WriteTemp \/ SyncTemp \/ CloseTemp \/ RenameTemp
    BY <1>1, <2>7 DEF MakeTemp, WriteTemp, SyncTemp, CloseTemp, RenameTemp, FileStep, StateInv,
       Closing
  <2>8. ASSUME NEW by \in BOOLEAN, Written(by) PROVE StateInv'
    <3>1. pc = "written" /\ ~crashed /\ pc' = "idle" /\ after' = "none"
      BY <1>1, <2>8 DEF Written, Return
    <3>2. CASE after = "finish"
      <4>1. session.state \in {"Serializing", "Cancelled"}
        BY <3>1, <3>2 DEF StateInv, Closing
      <4>2. session'.state \in Terminal
        BY <1>1, <2>8, <3>2, <4>1, FinishOutcome DEF Terminal
      <4> QED
        BY <3>1, <4>2 DEF StateInv, Closing
    <3>3. CASE after # "finish"
      <4>1. session.state \in Terminal
        BY <3>1, <3>3 DEF StateInv, Closing, Terminal
      <4>2. session' = session
        BY <2>8, <3>3 DEF Written
      <4> QED
        BY <3>1, <4>1, <4>2 DEF StateInv, Closing
    <3> QED
      BY <3>2, <3>3
  <2> QED
    BY <1>6, <2>1, <2>2, <2>3, <2>5, <2>6, <2>7, <2>8 DEF Output
<1>7. CASE Off \/ UNCHANGED vars
  BY <1>7 DEF Off, vars, StateInv, Kind
<1>8. ASSUME NEW path, PowerLoss(path) PROVE StateInv'
  BY <1>8 DEF PowerLoss, StateInv
<1> QED
  BY <1>3, <1>4, <1>5, <1>6, <1>7, <1>8 DEF Next

LEMMA StateHolds == Spec => []StateInv
<1>1. ASSUME Init PROVE StateInv
  BY <1>1 DEF Init, StateInv, Closing
<1> QED
  BY <1>1, ControlHolds, FileSafe, SessionHolds, NextState, PTL DEF Spec

-----------------------------------------------------------------------------
(* The report.                                                             *)

(***************************************************************************)
(* Until its own stage, and the merge behind the UDP stage, nothing is in  *)
(* the lists of ports.                                                     *)
(***************************************************************************)
NoPortsYet ==
  \/ pc \in {"idle", "select", "validate"} /\ ~terminal(session)
  \/ pc \in {"stage", "start"} /\ current \in 1..2
  \/ pc = "announce" /\ current = 1

NoUdpYet ==
  \/ NoPortsYet
  \/ pc \in {"stage", "start"} /\ current = 3
  \/ pc = "announce" /\ current = 2

(***************************************************************************)
(* What the pipeline keeps is what the stages found, with the UDP ports    *)
(* merged as soon as their stage is over, and only hosts found up have     *)
(* been scanned.                                                           *)
(***************************************************************************)
ResultsInv ==
  ~crashed =>
    /\ found.discovery = collected.discovery /\ found.udp = collected.udp
    /\ found.services = collected.services /\ found.os = collected.os
    /\ collected.ports = IF pc = "announce" /\ current = 3
                            THEN found.ports ELSE found.ports \cup found.udp
    /\ NoPortsYet => collected.ports = {}
    /\ NoUdpYet => collected.udp = {}
    /\ pc \in {"start", "announce"} => Kind \in config.enabled
    /\ "Discovery" \notin config.enabled => \A h \in Hosts : collected.discovery[h] = {}
    /\ "Discovery" \in config.enabled =>
         \A p \in collected.ports \cup collected.udp :
           HostVerdict(collected.discovery[p.host]) = "Up"

(***************************************************************************)
(* Results that stay as they are stay in order.                            *)
(***************************************************************************)
LEMMA ResultsKept ==
  ASSUME ResultsInv, UNCHANGED <<collected, found, crashed>>, config'.enabled = config.enabled,
         NoPortsYet' => NoPortsYet, NoUdpYet' => NoUdpYet,
         (pc' = "announce" /\ current' = 3) <=> (pc = "announce" /\ current = 3),
         pc' \in {"start", "announce"} => Kind' \in config.enabled
  PROVE  ResultsInv'
BY DEF ResultsInv

(***************************************************************************)
(* A stage that returns leaves its place behind.                           *)
(***************************************************************************)
LEMMA Closed ==
  ASSUME pc' \in Closing \/ (pc' = "idle" /\ terminal(session'))
  PROVE  ~NoPortsYet' /\ ~NoUdpYet' /\ pc' # "announce" /\ pc' # "start"
BY DEF NoPortsYet, NoUdpYet, Closing

LEMMA NextResults ==
  ControlInv /\ FileInv /\ SessionInv /\ StateInv /\ ResultsInv /\ [Next]_vars => ResultsInv'
<1> SUFFICES ASSUME ControlInv, FileInv, SessionInv, StateInv, ResultsInv, [Next]_vars
             PROVE  ResultsInv'
  OBVIOUS
<1>1. /\ session \in Session /\ Coherent(session)
      /\ cancelled(session) <=> session.state = "Cancelled"
      /\ crashed => pc = "idle"
  BY CancelledMeans DEF SessionInv, FileInv
<1>2. ASSUME NEW status, fail(status) PROVE terminal(session')
  BY <1>1, <1>2, FailOutcome DEF terminal, Terminal
<1>3. ASSUME pc # "announce", UNCHANGED <<collected, found, crashed, config>>,
             pc' \in Closing \/ (pc' = "idle" /\ terminal(session'))
      PROVE  ResultsInv'
  BY <1>3, Closed, ResultsKept
<1>4. ASSUME UNCHANGED <<collected, found, crashed, config, pc, current>>,
             terminal(session) => terminal(session')
      PROVE  ResultsInv'
  <2>1. (NoPortsYet' => NoPortsYet) /\ (NoUdpYet' => NoUdpYet)
    BY <1>4 DEF NoPortsYet, NoUdpYet
  <2>2. CASE crashed
    BY <1>4, <2>2 DEF ResultsInv
  <2>3. CASE ~crashed
    <3>1. pc' \in {"start", "announce"} => Kind' \in config.enabled
      BY <1>4, <2>3 DEF Kind, ResultsInv
    <3> QED
      BY <1>4, <2>1, <3>1, ResultsKept
  <2> QED
    BY <2>2, <2>3
<1>5. CASE Caller
  <2>1. CASE Cancel
    <3>1. session' = cancel(session)
      BY <2>1 DEF Cancel
    <3>2. terminal(session) => terminal(session')
      BY <1>1, <3>1, CancelOutcome
    <3> QED
      BY <1>4, <2>1, <3>2 DEF Cancel
  <2>2. CASE RunAgain
    BY <1>4, <2>2 DEF RunAgain
  <2>3. CASE Run
    <3>1. (NoPortsYet' => NoPortsYet) /\ (NoUdpYet' => NoUdpYet)
      BY <2>3 DEF Run, NoPortsYet, NoUdpYet
    <3> QED
      BY <2>3, <3>1, ResultsKept DEF Run
  <2> QED
    BY <1>5, <2>1, <2>2, <2>3 DEF Caller
<1>6. CASE Prologue
  <2>1. CASE InterfaceSelected
    <3>1. (NoPortsYet' => NoPortsYet) /\ (NoUdpYet' => NoUdpYet)
      BY <2>1 DEF InterfaceSelected, NoPortsYet, NoUdpYet
    <3>2. config'.enabled = config.enabled
      BY <2>1 DEF InterfaceSelected, ControlInv, ScanConfig
    <3> QED
      BY <2>1, <3>1, <3>2, ResultsKept DEF InterfaceSelected
  <2>2. ASSUME NEW s, SelectionFails(s) PROVE ResultsInv'
    BY <1>3, <2>2 DEF SelectionFails, Closing
  <2>3. CASE RunCancelled
    BY <1>3, <2>3 DEF RunCancelled, StopForCancel, Closing
  <2>4. ASSUME NEW s, RunRefused(s) PROVE ResultsInv'
    BY <1>2, <1>3, <2>4 DEF RunRefused, Return
  <2>5. ASSUME NEW by \in BOOLEAN, ScanStarts(by) PROVE ResultsInv'
    <3>1. ~terminal(session)
      BY <1>1, <2>5 DEF ScanStarts, StateInv, terminal, Terminal
    <3>2. NoPortsYet /\ NoUdpYet
      BY <2>5, <3>1 DEF ScanStarts, NoPortsYet, NoUdpYet
    <3> QED
      BY <2>5, <3>2, ResultsKept DEF ScanStarts
  <2> QED
    BY <1>6, <2>1, <2>2, <2>3, <2>4, <2>5 DEF Prologue
<1>7. CASE Stages
  <2>0. /\ current = 1 => Kind = "Discovery"
        /\ current = 2 => Kind = "PortScan"
        /\ current = 3 => Kind = "UdpScan"
        /\ current = 4 => Kind = "ServiceDetection"
        /\ current = 5 => Kind = "OSDetection"
    BY Names DEF Kind
  <2>1. CASE SkipStage
    <3>1. current \in 1..5 /\ pc = "stage" /\ pc' = "stage" /\ current' = current + 1
      BY <2>1, Names DEF SkipStage, AtStage
    <3>2. (NoPortsYet' => NoPortsYet) /\ (NoUdpYet' => NoPortsYet)
      BY <3>1 DEF NoPortsYet, NoUdpYet
    <3>3. current = 3 => NoUdpYet
      BY <3>1 DEF NoUdpYet
    <3>4. collected' = Merged(collected) /\ UNCHANGED <<found, config, crashed>>
      BY <2>1 DEF SkipStage
    <3>5. CASE crashed
      BY <3>4, <3>5 DEF ResultsInv
    <3>6. CASE ~crashed
      <4>1. collected'.ports = collected.ports /\ collected'.discovery = collected.discovery
            /\ collected'.udp = collected.udp /\ collected'.services = collected.services
            /\ collected'.os = collected.os
        <5>1. CASE Kind = "UdpScan"
          <6>1. current = 3
            BY <2>0, <3>1, <5>1
          <6>2. collected.udp = {}
            BY <3>3, <3>6, <6>1 DEF ResultsInv
          <6> QED
            BY <3>4, <5>1, <6>2, MergedFields DEF ControlInv
        <5>2. CASE Kind # "UdpScan"
          BY <3>4, <5>2, MergedFields DEF ControlInv
        <5> QED
          BY <5>1, <5>2
      <4>2. /\ NoUdpYet' => collected.udp = {}
            /\ NoPortsYet' => collected.ports = {}
        BY <3>2, <3>6 DEF ResultsInv, NoUdpYet
      <4> QED
        BY <3>1, <3>2, <3>4, <3>6, <4>1, <4>2 DEF ResultsInv, NoUdpYet
    <3> QED
      BY <3>5, <3>6
  <2>2. CASE StageCancelled
    BY <1>3, <2>2 DEF StageCancelled, AtStage, StopForCancel, Closing
  <2>3. ASSUME NEW by \in BOOLEAN, BeginStage(by) PROVE ResultsInv'
    <3>1. /\ pc = "stage" /\ pc' = "start" /\ Kind' = Kind /\ Kind \in config.enabled
          /\ UNCHANGED <<collected, found, crashed, config, current>>
      BY <2>3 DEF BeginStage, AtStage, Kind
    <3>2. (NoPortsYet' => NoPortsYet) /\ (NoUdpYet' => NoUdpYet)
      BY <3>1 DEF NoPortsYet, NoUdpYet
    <3> QED
      BY <3>1, <3>2, ResultsKept
  <2>4. ASSUME NEW by \in BOOLEAN, AnnounceItem(by) PROVE ResultsInv'
    <3>1. session' = emit(session, ItemEvent, Kind, by) /\ current \in 1..5
      BY <2>4 DEF AnnounceItem, ControlInv
    <3>2. Kind \in StageKind \cup {"none"} /\ ItemEvent \in EventType \ FinalEvents
      BY <3>1, ItemNames, StageNames
    <3>3. terminal(session) => session' = session
      BY <1>1, <3>1, <3>2, EmitOutcome
    <3> QED
      BY <1>4, <2>4, <3>3 DEF AnnounceItem
  <2>5. ASSUME NEW by \in BOOLEAN, EndStage(by) PROVE ResultsInv'
    <3>1. /\ current \in 1..5 /\ pc' = "stage" /\ current' = current + 1
          /\ collected' = Merged(collected) /\ UNCHANGED <<found, config, crashed>>
          /\ pc = "announce" \/ (pc = "start" /\ Kind = "OSDetection")
      BY <2>5 DEF EndStage, ControlInv
    <3>2. pc = "announce" \/ current = 5
      BY <2>0, <3>1
    <3>3. (NoPortsYet' => NoPortsYet) /\ (NoUdpYet' => NoUdpYet)
      BY <3>1, <3>2 DEF NoPortsYet, NoUdpYet
    <3>4. ~crashed
      BY <1>1, <3>1
    <3>5. collected'.discovery = collected.discovery
          /\ collected'.udp = collected.udp /\ collected'.services = collected.services
          /\ collected'.os = collected.os
      BY <3>1, MergedFields DEF ControlInv
    <3>6. CASE Kind = "UdpScan"
      <4>1. current = 3 /\ pc = "announce"
        BY <2>0, <3>1, <3>6
      <4>2. collected'.ports = collected.ports \cup collected.udp
        BY <3>1, <3>6, MergedFields DEF ControlInv
      <4>3. ~NoPortsYet'
        BY <3>1, <4>1 DEF NoPortsYet
      <4>4. collected'.ports = found.ports \cup found.udp
        BY <3>4, <4>1, <4>2 DEF ResultsInv
      <4> QED
        BY <3>1, <3>3, <3>4, <3>5, <4>2, <4>3, <4>4 DEF ResultsInv
    <3>7. CASE Kind # "UdpScan"
      <4>1. collected'.ports = collected.ports /\ current # 3
        BY <2>0, <3>1, <3>7, MergedFields DEF ControlInv
      <4> QED
        BY <3>1, <3>3, <3>4, <3>5, <4>1 DEF ResultsInv
    <3> QED
      BY <3>6, <3>7
  <2>6. ASSUME NEW o \in Outcomes, StageSucceeds(o) PROVE ResultsInv'
    <3>1. /\ pc = "start" /\ pc' = "announce" /\ current \in 1..5 /\ Kind # "OSDetection"
          /\ collected' = o /\ found' = o /\ UNCHANGED <<config, crashed, current>>
      BY <2>6 DEF StageSucceeds, ControlInv
    <3>2. ~crashed /\ Kind \in config.enabled /\ Kind' = Kind
      BY <1>1, <3>1 DEF ResultsInv, Kind
    <3>3. /\ Kind # "Discovery" => o.discovery = collected.discovery
          /\ Kind # "PortScan" => o.ports = collected.ports
          /\ Kind # "UdpScan" => o.udp = collected.udp
          /\ Kind = "PortScan" => \A p \in o.ports : p.host \in PortTarget
          /\ Kind = "UdpScan" => \A p \in o.udp : p.host \in PortTarget
      BY <3>1, OutcomeFields DEF ControlInv
    <3>4. "Discovery" \in config.enabled =>
            \A x \in PortTarget : HostVerdict(collected.discovery[x]) = "Up"
      BY DEF PortTarget, only_up_hosts
    <3>5. CASE current = 1
      <4>1. NoPortsYet /\ NoUdpYet
        BY <3>1, <3>5 DEF NoPortsYet, NoUdpYet
      <4>2. o.ports = {} /\ o.udp = {} /\ Kind = "Discovery"
        BY <2>0, <3>2, <3>3, <3>5, <4>1 DEF ResultsInv
      <4> QED
        BY <3>1, <3>2, <3>5, <4>2 DEF ResultsInv
    <3>6. CASE current = 2
      <4>1. NoUdpYet /\ ~NoPortsYet'
        BY <3>1, <3>6 DEF NoPortsYet, NoUdpYet
      <4>2. o.udp = {} /\ Kind = "PortScan" /\ o.discovery = collected.discovery
        BY <2>0, <3>2, <3>3, <3>6, <4>1 DEF ResultsInv
      <4> QED
        BY <3>1, <3>2, <3>3, <3>4, <3>6, <4>1, <4>2 DEF ResultsInv
    <3>7. CASE current = 3
      <4>1. ~NoUdpYet' /\ ~NoPortsYet'
        BY <3>1, <3>7 DEF NoPortsYet, NoUdpYet
      <4>2. o.ports = collected.ports /\ Kind = "UdpScan" /\ o.discovery = collected.discovery
        BY <2>0, <3>3, <3>7
      <4> QED
        BY <3>1, <3>2, <3>3, <3>4, <3>7, <4>1, <4>2 DEF ResultsInv
    <3>8. CASE current = 4
      <4>1. ~NoUdpYet' /\ ~NoPortsYet'
        BY <3>1, <3>8 DEF NoPortsYet, NoUdpYet
      <4>2. o.ports = collected.ports /\ o.udp = collected.udp /\ o.discovery = collected.discovery
        BY <2>0, <3>3, <3>8
      <4>3. o.ports = o.ports \cup o.udp
        BY <3>2, <3>8, <4>2 DEF ResultsInv
      <4> QED
        BY <3>1, <3>2, <3>8, <4>1, <4>2, <4>3 DEF ResultsInv
    <3> QED
      BY <2>0, <3>1, <3>5, <3>6, <3>7, <3>8
  <2>7. ASSUME NEW s, StageFails(s) PROVE ResultsInv'
    BY <1>2, <1>3, <2>7 DEF StageFails, Return
  <2>8. ASSUME NEW h, NEW by \in BOOLEAN, OSHostDone(h, by) PROVE ResultsInv'
    <3>1. /\ pc = "start" /\ Kind = "OSDetection" /\ Kind' = Kind /\ current \in 1..5
          /\ UNCHANGED <<pc, current, config, crashed>>
          /\ collected' = [collected EXCEPT !.os = @ \cup {h}]
          /\ found' = [found EXCEPT !.os = @ \cup {h}]
      BY <2>8 DEF OSHostDone, Kind, ControlInv
    <3>2. current = 5 /\ ~crashed
      BY <1>1, <2>0, <3>1
    <3>3. ~NoPortsYet' /\ ~NoUdpYet'
      BY <3>1, <3>2 DEF NoPortsYet, NoUdpYet
    <3>4. /\ collected'.discovery = collected.discovery /\ collected'.ports = collected.ports
          /\ collected'.udp = collected.udp /\ collected'.services = collected.services
          /\ collected'.os = collected.os \cup {h}
          /\ found'.discovery = found.discovery /\ found'.ports = found.ports
          /\ found'.udp = found.udp /\ found'.services = found.services
          /\ found'.os = found.os \cup {h}
      BY <3>1 DEF ControlInv, Results
    <3> QED
      BY <3>1, <3>2, <3>3, <3>4 DEF ResultsInv
  <2> QED
    BY <1>7, <2>1, <2>2, <2>3, <2>4, <2>5, <2>6, <2>7, <2>8 DEF Stages
<1>8. CASE Output
  <2>1. CASE OutputCancelled
    BY <1>3, <2>1 DEF OutputCancelled, StopForCancel, Closing
  <2>2. ASSUME NEW by \in BOOLEAN, BeginOutput(by) PROVE ResultsInv'
    BY <1>3, <2>2 DEF BeginOutput, Closing
  <2>3. CASE Serialize
    BY <1>3, <2>3 DEF Serialize, Closing
  <2>4. ASSUME NEW status, WriterFails(status) PROVE ResultsInv'
    BY <1>2, <1>3, <2>4 DEF WriterFails, SerializeFails, Return
  <2>5. CASE FileFails
    BY <1>2, <1>3, <2>5 DEF FileFails, SerializeFails, Return
  <2>6. CASE MakeTemp \/ WriteTemp \/ SyncTemp \/ CloseTemp \/ RenameTemp
    BY <1>3, <2>6 DEF MakeTemp, WriteTemp, SyncTemp, CloseTemp, RenameTemp, FileStep, Closing
  <2>7. ASSUME NEW by \in BOOLEAN, Written(by) PROVE ResultsInv'
    <3>1. pc = "written" /\ ~crashed
      BY <1>1, <2>7 DEF Written
    <3>2. terminal(session')
      <4>1. CASE after = "finish"
        <5>1. session.state \in {"Serializing", "Cancelled"}
          BY <3>1, <4>1 DEF StateInv, Closing
        <5> QED
          BY <1>1, <2>7, <4>1, <5>1, FinishOutcome DEF terminal, Terminal
      <4>2. CASE after # "finish"
        BY <2>7, <3>1, <4>2 DEF Written, StateInv, Closing, terminal, Terminal
      <4> QED
        BY <4>1, <4>2
    <3> QED
      BY <1>3, <2>7, <3>2 DEF Written, Return
  <2> QED
    BY <1>8, <2>1, <2>2, <2>3, <2>4, <2>5, <2>6, <2>7 DEF Output
<1>9. CASE Off \/ UNCHANGED vars
  BY <1>4, <1>9 DEF Off, vars
<1>10. ASSUME NEW path, PowerLoss(path) PROVE ResultsInv'
  BY <1>10 DEF PowerLoss, ResultsInv
<1> QED
  BY <1>5, <1>6, <1>7, <1>8, <1>9, <1>10 DEF Next

LEMMA ResultsHold == Spec => []ResultsInv
<1>1. ASSUME Init PROVE ResultsInv
  <2>1. /\ collected = NoResults /\ found = NoResults /\ pc = "idle" /\ session.state = "Created"
        /\ NoResults.ports = {} /\ NoResults.udp = {}
        /\ \A h \in Hosts : NoResults.discovery[h] = {}
    BY <1>1 DEF Init, NoResults
  <2> QED
    BY <2>1 DEF ResultsInv
<1> QED
  BY <1>1, ControlHolds, FileSafe, SessionHolds, StateHolds, NextResults, PTL DEF Spec

(***************************************************************************)
(* What run() answers is what it has built and stored.                     *)
(***************************************************************************)
ReportInv ==
  ~crashed =>
    /\ pc \in Closing \ {"serialize"} => report = Build
    /\ pc = "written" /\ config.output_file => file.path = "new"
    /\ pc = "idle" /\ returned = "Ok" =>
         report = Build /\ session.state \in {"Completed", "Cancelled"}
    /\ session.state = "Completed" => pc = "idle" /\ (config.output_file => file.path = "new")

LEMMA NextReport ==
  /\ ControlInv /\ FileInv /\ SessionInv /\ StateInv /\ ReportInv /\ [Next]_vars
  /\ StateInv' /\ FileInv'
  => ReportInv'
<1> SUFFICES ASSUME ControlInv, FileInv, SessionInv, StateInv, ReportInv, [Next]_vars,
                    StateInv', FileInv'
             PROVE  ReportInv'
  OBVIOUS
<1>1. /\ session \in Session /\ Coherent(session)
      /\ cancelled(session) <=> session.state = "Cancelled"
      /\ crashed => pc = "idle"
  BY CancelledMeans DEF SessionInv, FileInv
<1>2. ASSUME UNCHANGED <<collected, config>> PROVE Build' = Build
  BY <1>2 DEF Build
<1>3. ASSUME NEW status, fail(status), pc # "idle", ~crashed
      PROVE  /\ session'.state # "Completed" /\ final_status' = status
             /\ session.state = "Cancelled" => session'.state = "Cancelled"
  <2>1. session.state # "Completed"
    BY <1>3 DEF ReportInv
  <2> QED
    BY <1>1, <1>3, <2>1, FailOutcome DEF terminal, Terminal
<1>4. ASSUME pc' \notin Closing \ {"serialize"}, pc' # "idle" PROVE ReportInv'
  <2>1. ~crashed' => session'.state # "Completed"
    <3>1. SUFFICES ASSUME ~crashed', session'.state = "Completed" PROVE FALSE
      OBVIOUS
    <3>2. pc' \in Places /\ current' \in 0..6 /\ (pc' \in {"start", "announce"} => current' \in 1..5)
          /\ (pc' = "stage" => current' \in 1..6)
      BY NextControl DEF ControlInv
    <3>3. pc' # "stage"
      BY <3>1, <3>2, Granted DEF StateInv, Terminal
    <3>4. pc' \notin {"start", "announce"}
      <4>1. pc' \in {"start", "announce"} => StateOf(StageOrder[current']) # "Completed"
        BY <3>2, Granted DEF Terminal
      <4>2. Kind' = StageOrder[current']
        BY DEF Kind
      <4> QED
        BY <3>1, <4>1, <4>2 DEF StateInv
    <3> QED
      BY <1>4, <3>1, <3>2, <3>3, <3>4 DEF StateInv, Places, Closing
  <2> QED
    BY <1>4, <2>1 DEF ReportInv, Closing
<1>5. CASE Caller
  <2>1. CASE Cancel
    <3>1. session' = cancel(session) /\ pc = "idle" /\ ~crashed
      BY <2>1 DEF Cancel
    <3>2. session'.state \in {session.state, "Cancelled"}
          /\ (terminal(session) => session' = session)
      BY <1>1, <3>1, CancelOutcome
    <3>3. Build' = Build
      BY <1>2, <2>1 DEF Cancel
    <3> QED
      BY <2>1, <3>1, <3>2, <3>3 DEF Cancel, ReportInv, Closing
  <2>2. CASE RunAgain
    BY <1>2, <2>2 DEF RunAgain, ReportInv, Closing
  <2>3. CASE Run
    BY <1>4, <2>3 DEF Run, Closing
  <2> QED
    BY <1>5, <2>1, <2>2, <2>3 DEF Caller
<1>6. CASE Prologue
  <2>1. CASE InterfaceSelected
    BY <1>4, <2>1 DEF InterfaceSelected, Closing
  <2>2. ASSUME NEW s, SelectionFails(s) PROVE ReportInv'
    BY <1>4, <2>2 DEF SelectionFails, Closing
  <2>3. CASE RunCancelled
    BY <1>4, <2>3 DEF RunCancelled, StopForCancel, Closing
  <2>4. ASSUME NEW s \in {"InvalidArgument", "IoError"}, RunRefused(s) PROVE ReportInv'
    <3>1. session'.state # "Completed" /\ returned' = s /\ pc' = "idle"
      BY <1>1, <1>3, <2>4 DEF RunRefused, Return
    <3> QED
      BY <3>1 DEF ReportInv, Closing
  <2>5. ASSUME NEW by, ScanStarts(by) PROVE ReportInv'
    BY <1>4, <2>5 DEF ScanStarts, Closing
  <2> QED
    BY <1>6, <2>1, <2>2, <2>3, <2>4, <2>5 DEF Prologue
<1>7. CASE Stages
  <2>1. CASE SkipStage
    BY <1>4, <2>1 DEF SkipStage, AtStage, Closing
  <2>2. CASE StageCancelled
    BY <1>4, <2>2 DEF StageCancelled, StopForCancel, Closing
  <2>3. ASSUME NEW by, BeginStage(by) \/ AnnounceItem(by) \/ EndStage(by) PROVE ReportInv'
    BY <1>4, <2>3 DEF BeginStage, AnnounceItem, EndStage, Closing
  <2>4. ASSUME NEW o, StageSucceeds(o) PROVE ReportInv'
    BY <1>4, <2>4 DEF StageSucceeds, Closing
  <2>5. ASSUME NEW s \in StageFailures, StageFails(s) PROVE ReportInv'
    <3>1. session'.state # "Completed" /\ returned' = s /\ pc' = "idle"
      BY <1>1, <1>3, <2>5 DEF StageFails, Return
    <3>2. s # "Ok"
      BY PipelineAssumption
    <3> QED
      BY <3>1, <3>2 DEF ReportInv, Closing
  <2>6. ASSUME NEW h, NEW by, OSHostDone(h, by) PROVE ReportInv'
    BY <1>4, <2>6 DEF OSHostDone, Closing
  <2> QED
    BY <1>7, <2>1, <2>2, <2>3, <2>4, <2>5, <2>6 DEF Stages
<1>8. CASE Output
  <2>1. CASE OutputCancelled
    BY <1>4, <2>1 DEF OutputCancelled, StopForCancel, Closing
  <2>2. ASSUME NEW by, BeginOutput(by) PROVE ReportInv'
    BY <1>4, <2>2 DEF BeginOutput, Closing
  <2>3. CASE Serialize
    <3>1. Build' = Build /\ report' = Build /\ pc = "serialize" /\ ~crashed /\ pc' # "idle"
      BY <1>1, <1>2, <2>3 DEF Serialize
    <3> QED
      BY <2>3, <3>1 DEF Serialize, ReportInv
  <2>4. ASSUME NEW status, status # "Ok", SerializeFails(status), report' = Build, pc \in Closing,
               ~crashed
        PROVE  ReportInv'
    <3>1. Build' = Build
      BY <1>2, <2>4 DEF SerializeFails
    <3>2. session'.state # "Completed" /\ final_status' = status
          /\ (session.state = "Cancelled" => session'.state = "Cancelled")
      BY <1>3, <2>4 DEF SerializeFails, Closing
    <3>3. returned' = "Ok" => session'.state = "Cancelled"
      BY <2>4, <3>2 DEF SerializeFails, Return, StateInv
    <3>4. pc' = "idle"
      BY <2>4 DEF SerializeFails, Return
    <3> QED
      BY <2>4, <3>1, <3>2, <3>3, <3>4 DEF ReportInv, Closing
  <2>5. ASSUME NEW status \in {"IoError", "InternalError"}, WriterFails(status) PROVE ReportInv'
    BY <1>1, <2>4, <2>5 DEF WriterFails, Closing
  <2>6. CASE FileFails
    <3>1. pc \in Closing \ {"serialize"} /\ ~crashed /\ UNCHANGED report
          /\ SerializeFails("IoError")
      BY <1>1, <2>6 DEF FileFails, Closing
    <3>2. report' = Build
      BY <3>1 DEF ReportInv
    <3> QED
      BY <2>4, <3>1, <3>2
  <2>7. CASE MakeTemp \/ WriteTemp \/ SyncTemp \/ CloseTemp \/ RenameTemp
    <3>1. /\ pc \in Closing \ {"serialize"} /\ pc' # "idle" /\ ~crashed
          /\ UNCHANGED <<report, collected, config, session>>
      BY <1>1, <2>7 DEF MakeTemp, WriteTemp, SyncTemp, CloseTemp, RenameTemp, FileStep, Closing
    <3>2. Build' = Build /\ report' = Build
      BY <1>2, <3>1 DEF ReportInv
    <3>3. session'.state # "Completed"
      BY <3>1 DEF ReportInv, Closing
    <3>4. pc' = "written" => file'.path = "new"
      BY <2>7 DEF MakeTemp, WriteTemp, SyncTemp, CloseTemp, RenameTemp, FileStep, FileInv
    <3> QED
      BY <3>1, <3>2, <3>3, <3>4 DEF ReportInv
  <2>8. ASSUME NEW by \in BOOLEAN, Written(by) PROVE ReportInv'
    <3>1. /\ pc = "written" /\ ~crashed /\ pc' = "idle" /\ report' = report
          /\ UNCHANGED <<collected, config, file>>
          /\ returned' = IF after = "cancelled" THEN "Ok" ELSE final_status'
      BY <1>1, <2>8 DEF Written, Return
    <3>2. Build' = Build /\ report' = Build /\ (config.output_file => file.path = "new")
      BY <1>2, <3>1 DEF ReportInv, Closing
    <3>3. returned' = "Ok" => session'.state \in {"Completed", "Cancelled"}
      <4>1. CASE after = "finish"
        <5>1. session.state \in {"Serializing", "Cancelled"}
          BY <3>1, <4>1 DEF StateInv, Closing
        <5> QED
          BY <1>1, <2>8, <4>1, <5>1, FinishOutcome
      <4>2. CASE after # "finish"
        BY <2>8, <3>1, <4>2 DEF Written, StateInv, Closing
      <4> QED
        BY <4>1, <4>2
    <3> QED
      BY <3>1, <3>2, <3>3 DEF ReportInv, Closing
  <2> QED
    BY <1>8, <2>1, <2>2, <2>3, <2>5, <2>6, <2>7, <2>8 DEF Output
<1>9. CASE Off \/ UNCHANGED vars
  BY <1>2, <1>9 DEF Off, vars, ReportInv
<1>10. ASSUME NEW path, PowerLoss(path) PROVE ReportInv'
  BY <1>10 DEF PowerLoss, ReportInv
<1> QED
  BY <1>5, <1>6, <1>7, <1>8, <1>9, <1>10 DEF Next

LEMMA ReportHolds == Spec => []ReportInv
<1>1. ASSUME Init PROVE ReportInv
  BY <1>1 DEF Init, ReportInv, Closing
<1> QED
  BY <1>1, ControlHolds, FileSafe, SessionHolds, StateHolds, NextReport, PTL DEF Spec

(***************************************************************************)
(* A host with evidence of being up, and one with a port in the report     *)
(* when discovery ran, is reported up.                                     *)
(***************************************************************************)
LEMMA ReportedUp ==
  ASSUME ResultsInv, ~crashed, NEW h \in Hosts
  PROVE  /\ "Up" \in found.discovery[h] => Build[h].state = "Up"
         /\ "Discovery" \in config.enabled /\ Build[h].ports # {} => Build[h].state = "Up"
<1> DEFINE ports == {p \in collected.ports : p.host = h}
<1>1. /\ Build[h].ports = ports
      /\ "Discovery" \in config.enabled /\ HostVerdict(collected.discovery[h]) = "Up" =>
           Build[h].state = "Up"
  BY DEF Build
<1>2. "Up" \in found.discovery[h] =>
        "Discovery" \in config.enabled /\ HostVerdict(collected.discovery[h]) = "Up"
  BY DEF ResultsInv, HostVerdict
<1>3. "Discovery" \in config.enabled /\ ports # {} => HostVerdict(collected.discovery[h]) = "Up"
  BY DEF ResultsInv
<1> QED
  BY <1>1, <1>2, <1>3

(***************************************************************************)
(* What run() answers, the state of the session, the report and the file   *)
(* on the disk agree, for every set of hosts, every configuration, every   *)
(* outcome of the stages and any number of runs and cancellations: Ok is   *)
(* never answered by a failed scan or without the whole of what was found. *)
(***************************************************************************)
THEOREM ReportTellsAll == Spec => []ReportComplete
<1>1. ASSUME ResultsInv, ReportInv PROVE ReportComplete
  <2> SUFFICES ASSUME pc = "idle", ~crashed, returned # "none"
               PROVE  /\ returned = "Ok" =>
                           /\ session.state \in {"Completed", "Cancelled"}
                           /\ \A h \in Hosts :
                                /\ report[h].ports = {p \in found.ports \cup found.udp : p.host = h}
                                /\ report[h].services = {p \in found.services : p.host = h}
                                /\ report[h].os = (h \in found.os)
                                /\ "Up" \in found.discovery[h] => report[h].state = "Up"
                                /\ "Discovery" \in config.enabled /\ report[h].ports # {} =>
                                     report[h].state = "Up"
                      /\ session.state = "Completed" /\ config.output_file => file.path = "new"
                      /\ session.state = "Failed" => returned # "Ok"
    BY DEF ReportComplete
  <2>1. returned = "Ok" => report = Build /\ session.state \in {"Completed", "Cancelled"}
    BY <1>1 DEF ReportInv
  <2>2. session.state = "Completed" /\ config.output_file => file.path = "new"
    BY <1>1 DEF ReportInv
  <2>3. ASSUME NEW h \in Hosts
        PROVE  /\ Build[h].ports = {p \in found.ports \cup found.udp : p.host = h}
               /\ Build[h].services = {p \in found.services : p.host = h}
               /\ Build[h].os = (h \in found.os)
    <3>1. collected.ports = found.ports \cup found.udp /\ collected.services = found.services
          /\ collected.os = found.os
      BY <1>1 DEF ResultsInv
    <3> QED
      BY <3>1 DEF Build
  <2> QED
    BY <1>1, <2>1, <2>2, <2>3, ReportedUp
<1> QED
  BY <1>1, ResultsHold, ReportHolds, PTL

-----------------------------------------------------------------------------
(* The story the observer hears.                                           *)

Ordered(h) ==
  \A j \in DOMAIN h :
    /\ h[j].type # "ScanFailed" => \A i \in 1..(j - 1) : h[i].type \notin FinalEvents
    /\ h[j].type = "StageStarted" => j > 1 /\ h[j - 1].type \in {"ScanStarted", "StageCompleted"}
    /\ h[j].type = "StageCompleted" =>
         \E i \in 1..(j - 1) :
           /\ h[i].type = "StageStarted"
           /\ \A k \in i..j : h[k].stage = h[j].stage
           /\ \A k \in (i + 1)..(j - 1) : h[k].type # "StageStarted"

Quiet(h) == \A i \in DOMAIN h : h[i].type \notin FinalEvents

Rested(h) == Len(h) > 0 /\ h[Len(h)].type \in {"ScanStarted", "StageCompleted"}

OpenStage(h, kind) ==
  \E i \in 1..Len(h) :
    /\ h[i].type = "StageStarted"
    /\ \A k \in i..Len(h) : h[k].stage = kind
    /\ \A k \in (i + 1)..Len(h) : h[k].type # "StageStarted"

(***************************************************************************)
(* While the scan is on, nothing final was heard; between stages the last  *)
(* event is a completion, and in a stage all since its announcement is     *)
(* about it.                                                               *)
(***************************************************************************)
StoryInv ==
  /\ Ordered(session.heard)
  /\ ~terminal(session) =>
       /\ Quiet(session.heard)
       /\ ~crashed =>
            /\ pc = "stage" => Rested(session.heard)
            /\ pc \in {"start", "announce"} => OpenStage(session.heard, Kind)
            /\ pc \in Closing => OpenStage(session.heard, "Output")

(***************************************************************************)
(* One more event at the end of the story.                                 *)
(***************************************************************************)
LEMMA Appended ==
  ASSUME NEW h \in Seq(Event), NEW e \in Event
  PROVE  /\ Append(h, e) \in Seq(Event) /\ Len(Append(h, e)) = Len(h) + 1 /\ Len(h) \in Nat
         /\ DOMAIN h = 1..Len(h) /\ DOMAIN Append(h, e) = 1..(Len(h) + 1)
         /\ Append(h, e)[Len(h) + 1] = e
         /\ \A i \in 1..Len(h) : Append(h, e)[i] = h[i]
OBVIOUS

(***************************************************************************)
(* What was in order stays so; the new event has to be in order too.       *)
(***************************************************************************)
LEMMA OrderedAppend ==
  ASSUME NEW h \in Seq(Event), Ordered(h), NEW e \in Event,
         e.type # "ScanFailed" => Quiet(h),
         e.type = "StageStarted" => Rested(h),
         e.type = "StageCompleted" => OpenStage(h, e.stage)
  PROVE  Ordered(Append(h, e))
<1> DEFINE g == Append(h, e)
           n == Len(h)
<1>1. /\ n \in Nat /\ DOMAIN h = 1..n /\ DOMAIN g = 1..(n + 1) /\ g[n + 1] = e
      /\ \A i \in 1..n : g[i] = h[i]
  BY Appended
<1> HIDE DEF g, n
<1> SUFFICES ASSUME NEW j \in 1..(n + 1)
             PROVE  /\ g[j].type # "ScanFailed" => \A i \in 1..(j - 1) : g[i].type \notin FinalEvents
                    /\ g[j].type = "StageStarted" => j > 1 /\ g[j - 1].type \in {"ScanStarted", "StageCompleted"}
                    /\ g[j].type = "StageCompleted" =>
                         \E i \in 1..(j - 1) :
                           /\ g[i].type = "StageStarted"
                           /\ \A k \in i..j : g[k].stage = g[j].stage
                           /\ \A k \in (i + 1)..(j - 1) : g[k].type # "StageStarted"
  BY <1>1 DEF Ordered, g
<1>2. CASE j = n + 1
  <2>1. g[j] = e /\ \A i \in 1..(j - 1) : g[i] = h[i]
    BY <1>1, <1>2
  <2>2. g[j].type # "ScanFailed" => \A i \in 1..(j - 1) : g[i].type \notin FinalEvents
    BY <1>1, <1>2, <2>1 DEF Quiet
  <2>3. g[j].type = "StageStarted" => j > 1 /\ g[j - 1].type \in {"ScanStarted", "StageCompleted"}
    <3> SUFFICES ASSUME g[j].type = "StageStarted"
                 PROVE  j > 1 /\ g[j - 1].type \in {"ScanStarted", "StageCompleted"}
      OBVIOUS
    <3>1. n > 0 /\ h[n].type \in {"ScanStarted", "StageCompleted"}
      BY <2>1 DEF Rested, n
    <3>2. n \in 1..n /\ j - 1 = n /\ j > 1
      BY <1>1, <1>2, <3>1
    <3> QED
      BY <1>1, <3>1, <3>2
  <2>4. g[j].type = "StageCompleted" =>
          \E i \in 1..(j - 1) :
            /\ g[i].type = "StageStarted"
            /\ \A k \in i..j : g[k].stage = g[j].stage
            /\ \A k \in (i + 1)..(j - 1) : g[k].type # "StageStarted"
    <3> SUFFICES ASSUME g[j].type = "StageCompleted"
                 PROVE  \E i \in 1..(j - 1) :
                          /\ g[i].type = "StageStarted"
                          /\ \A k \in i..j : g[k].stage = g[j].stage
                          /\ \A k \in (i + 1)..(j - 1) : g[k].type # "StageStarted"
      OBVIOUS
    <3>1. PICK i \in 1..n :
            /\ h[i].type = "StageStarted"
            /\ \A k \in i..n : h[k].stage = e.stage
            /\ \A k \in (i + 1)..n : h[k].type # "StageStarted"
      BY <2>1 DEF OpenStage, n
    <3>2. i \in 1..(j - 1) /\ g[i].type = "StageStarted"
      BY <1>1, <1>2, <2>1, <3>1
    <3>3. \A k \in i..j : g[k].stage = g[j].stage
      <4> SUFFICES ASSUME NEW k \in i..j PROVE g[k].stage = e.stage
        BY <2>1
      <4>1. CASE k = j
        BY <2>1, <4>1
      <4>2. CASE k # j
        <5>1. k \in i..n /\ k \in 1..n
          BY <1>1, <1>2, <4>2
        <5> QED
          BY <1>1, <3>1, <5>1
      <4> QED
        BY <4>1, <4>2
    <3>4. \A k \in (i + 1)..(j - 1) : g[k].type # "StageStarted"
      <4> SUFFICES ASSUME NEW k \in (i + 1)..(j - 1) PROVE g[k].type # "StageStarted"
        OBVIOUS
      <4>1. k \in (i + 1)..n /\ k \in 1..n
        BY <1>1, <1>2
      <4> QED
        BY <1>1, <3>1, <4>1
    <3> QED
      BY <3>2, <3>3, <3>4
  <2> QED
    BY <2>2, <2>3, <2>4
<1>3. CASE j \in 1..n
  <2>1. /\ h[j].type # "ScanFailed" => \A i \in 1..(j - 1) : h[i].type \notin FinalEvents
        /\ h[j].type = "StageStarted" => j > 1 /\ h[j - 1].type \in {"ScanStarted", "StageCompleted"}
        /\ h[j].type = "StageCompleted" =>
             \E i \in 1..(j - 1) :
               /\ h[i].type = "StageStarted"
               /\ \A k \in i..j : h[k].stage = h[j].stage
               /\ \A k \in (i + 1)..(j - 1) : h[k].type # "StageStarted"
    BY <1>1, <1>3 DEF Ordered
  <2>2. g[j] = h[j] /\ \A i \in 1..j : g[i] = h[i]
    BY <1>1, <1>3
  <2>3. g[j].type # "ScanFailed" => \A i \in 1..(j - 1) : g[i].type \notin FinalEvents
    BY <1>1, <2>1, <2>2
  <2>4. g[j].type = "StageStarted" => j > 1 /\ g[j - 1].type \in {"ScanStarted", "StageCompleted"}
    <3>1. j > 1 => j - 1 \in 1..j
      BY <1>1
    <3> QED
      BY <2>1, <2>2, <3>1
  <2>5. g[j].type = "StageCompleted" =>
          \E i \in 1..(j - 1) :
            /\ g[i].type = "StageStarted"
            /\ \A k \in i..j : g[k].stage = g[j].stage
            /\ \A k \in (i + 1)..(j - 1) : g[k].type # "StageStarted"
    <3> SUFFICES ASSUME g[j].type = "StageCompleted"
                 PROVE  \E i \in 1..(j - 1) :
                          /\ g[i].type = "StageStarted"
                          /\ \A k \in i..j : g[k].stage = g[j].stage
                          /\ \A k \in (i + 1)..(j - 1) : g[k].type # "StageStarted"
      OBVIOUS
    <3>1. PICK i \in 1..(j - 1) :
            /\ h[i].type = "StageStarted"
            /\ \A k \in i..j : h[k].stage = h[j].stage
            /\ \A k \in (i + 1)..(j - 1) : h[k].type # "StageStarted"
      BY <2>1, <2>2
    <3>2. i \in 1..j /\ i..j \subseteq 1..j /\ (i + 1)..(j - 1) \subseteq 1..j
      BY <1>1
    <3> QED
      BY <2>2, <3>1, <3>2
  <2> QED
    BY <2>3, <2>4, <2>5
<1> QED
  BY <1>1, <1>2, <1>3

LEMMA QuietAppend ==
  ASSUME NEW h \in Seq(Event), Quiet(h), NEW e \in Event, e.type \notin FinalEvents
  PROVE  Quiet(Append(h, e))
<1>1. /\ DOMAIN Append(h, e) = 1..(Len(h) + 1) /\ Append(h, e)[Len(h) + 1] = e
      /\ \A i \in 1..Len(h) : Append(h, e)[i] = h[i]
      /\ DOMAIN h = 1..Len(h) /\ Len(h) \in Nat
  BY Appended
<1> QED
  BY <1>1 DEF Quiet

LEMMA RestedAppend ==
  ASSUME NEW h \in Seq(Event), NEW e \in Event, e.type \in {"ScanStarted", "StageCompleted"}
  PROVE  Rested(Append(h, e))
<1>1. Len(Append(h, e)) = Len(h) + 1 /\ Len(h) \in Nat /\ Append(h, e)[Len(h) + 1] = e
  BY Appended
<1> QED
  BY <1>1 DEF Rested

LEMMA OpenAppend ==
  ASSUME NEW h \in Seq(Event), NEW e \in Event
  PROVE  /\ e.type = "StageStarted" => OpenStage(Append(h, e), e.stage)
         /\ OpenStage(h, e.stage) /\ e.type # "StageStarted" => OpenStage(Append(h, e), e.stage)
<1> DEFINE g == Append(h, e)
           n == Len(h)
<1>1. /\ n \in Nat /\ Len(g) = n + 1 /\ g[n + 1] = e /\ \A i \in 1..n : g[i] = h[i]
  BY Appended
<1> HIDE DEF g, n
<1>2. ASSUME e.type = "StageStarted" PROVE OpenStage(g, e.stage)
  <2>1. n + 1 \in 1..Len(g) /\ g[n + 1].type = "StageStarted"
    BY <1>1, <1>2
  <2>2. \A k \in (n + 1)..Len(g) : k = n + 1
    BY <1>1
  <2>3. \A k \in ((n + 1) + 1)..Len(g) : g[k].type # "StageStarted"
    BY <1>1
  <2> QED
    BY <1>1, <2>1, <2>2, <2>3 DEF OpenStage
<1>3. ASSUME OpenStage(h, e.stage), e.type # "StageStarted" PROVE OpenStage(g, e.stage)
  <2>1. PICK i \in 1..n :
          /\ h[i].type = "StageStarted"
          /\ \A k \in i..n : h[k].stage = e.stage
          /\ \A k \in (i + 1)..n : h[k].type # "StageStarted"
    BY <1>3 DEF OpenStage, n
  <2>2. i \in 1..Len(g) /\ g[i].type = "StageStarted"
    BY <1>1, <2>1
  <2>3. \A k \in i..Len(g) : k = n + 1 \/ (k \in i..n /\ k \in 1..n)
    BY <1>1
  <2>4. \A k \in (i + 1)..Len(g) : k = n + 1 \/ (k \in (i + 1)..n /\ k \in 1..n)
    BY <1>1
  <2>5. \A k \in i..Len(g) : g[k].stage = e.stage
    BY <1>1, <2>1, <2>3
  <2>6. \A k \in (i + 1)..Len(g) : g[k].type # "StageStarted"
    BY <1>1, <1>3, <2>1, <2>4
  <2> QED
    BY <2>2, <2>5, <2>6 DEF OpenStage
<1> QED
  BY <1>2, <1>3 DEF g

(***************************************************************************)
(* An event of a scan that is on, and the observer's cancellation of it.   *)
(***************************************************************************)
LEMMA EventHeard ==
  ASSUME NEW h \in Seq(Event), Ordered(h), Quiet(h), NEW e \in Event,
         e.type \notin FinalEvents,
         e.type = "StageStarted" => Rested(h),
         e.type = "StageCompleted" => OpenStage(h, e.stage)
  PROVE  /\ Append(h, e) \in Seq(Event) /\ Ordered(Append(h, e)) /\ Quiet(Append(h, e))
         /\ Ordered(Append(Append(h, e), CancelEvent))
         /\ Ordered(Append(Append(h, e), ScanDone))
<1>1. Append(h, e) \in Seq(Event)
  BY Appended
<1>2. Ordered(Append(h, e)) /\ Quiet(Append(h, e))
  BY OrderedAppend, QuietAppend
<1>3. /\ CancelEvent \in Event /\ CancelEvent.type = "ScanCancelled"
      /\ ScanDone \in Event /\ ScanDone.type = "ScanCompleted"
  BY DEF CancelEvent, ScanDone, Event, EventType
<1> QED
  BY <1>1, <1>2, <1>3, OrderedAppend

LEMMA StoryStep ==
  ASSUME NEW h \in Seq(Event), Ordered(h), Quiet(h), NEW e \in Event,
         e.type \notin FinalEvents,
         e.type = "StageStarted" => Rested(h),
         e.type = "StageCompleted" => OpenStage(h, e.stage),
         NEW s, NEW by \in BOOLEAN,
         ~by => s.heard = Append(h, e),
         by => s.state = "Cancelled" /\ s.heard = Append(Append(h, e), CancelEvent)
  PROVE  /\ Ordered(s.heard)
         /\ ~terminal(s) => s.heard = Append(h, e) /\ Quiet(s.heard)
<1>1. CASE by
  <2>1. terminal(s)
    BY <1>1 DEF terminal, Terminal
  <2> QED
    BY <1>1, <2>1, EventHeard
<1>2. CASE ~by
  BY <1>2, EventHeard
<1> QED
  BY <1>1, <1>2

LEMMA NextStory ==
  ControlInv /\ FileInv /\ SessionInv /\ StateInv /\ StoryInv /\ [Next]_vars => StoryInv'
<1> SUFFICES ASSUME ControlInv, FileInv, SessionInv, StateInv, StoryInv, [Next]_vars
             PROVE  StoryInv'
  OBVIOUS
<1> DEFINE h == session.heard
<1>1. /\ session \in Session /\ Coherent(session) /\ h \in Seq(Event) /\ Ordered(h)
      /\ ~terminal(session) => Quiet(h)
      /\ cancelled(session) <=> session.state = "Cancelled"
      /\ crashed => pc = "idle"
  BY CancelledMeans DEF SessionInv, FileInv, StoryInv, Session
<1>2. ASSUME Ordered(session'.heard), terminal(session') PROVE StoryInv'
  BY <1>2 DEF StoryInv
<1>3. ASSUME UNCHANGED session, terminal(session) PROVE StoryInv'
  BY <1>1, <1>2, <1>3 DEF terminal
<1>4. ASSUME UNCHANGED session, pc' \notin {"stage", "start", "announce"} \cup Closing PROVE StoryInv'
  BY <1>4 DEF StoryInv, terminal
<1>5. ASSUME NEW status, fail(status) PROVE StoryInv'
  <2>1. session'.heard = Append(h, FailEvent) /\ terminal(session')
    BY <1>1, <1>5, FailOutcome DEF terminal, Terminal
  <2>2. FailEvent \in Event /\ FailEvent.type = "ScanFailed"
    BY DEF FailEvent, Event, EventType
  <2>3. Ordered(Append(h, FailEvent))
    BY <1>1, <2>2, OrderedAppend
  <2> QED
    BY <1>2, <2>1, <2>3
<1>6. CASE Caller
  <2>1. CASE Cancel
    <3>1. session' = cancel(session) /\ pc' = "idle"
      BY <2>1 DEF Cancel
    <3>2. CASE terminal(session)
      BY <1>1, <1>3, <3>1, <3>2, CancelOutcome
    <3>3. CASE ~terminal(session)
      <4>1. session'.heard = Append(h, CancelEvent) /\ session'.state = "Cancelled"
        BY <1>1, <3>1, <3>3, CancelOutcome
      <4>2. CancelEvent \in Event /\ CancelEvent.type = "ScanCancelled"
        BY DEF CancelEvent, Event, EventType
      <4>3. Ordered(Append(h, CancelEvent))
        BY <1>1, <3>3, <4>2, OrderedAppend
      <4> QED
        BY <1>2, <4>1, <4>3 DEF terminal, Terminal
    <3> QED
      BY <3>2, <3>3
  <2>2. CASE RunAgain
    BY <1>3, <2>2 DEF RunAgain
  <2>3. CASE Run
    BY <1>4, <2>3 DEF Run, Closing
  <2> QED
    BY <1>6, <2>1, <2>2, <2>3 DEF Caller
<1>7. CASE Prologue
  <2>1. CASE InterfaceSelected
    BY <1>4, <2>1 DEF InterfaceSelected, Closing
  <2>2. ASSUME NEW s, SelectionFails(s) \/ RunRefused(s) PROVE StoryInv'
    BY <1>5, <2>2 DEF SelectionFails, RunRefused
  <2>3. CASE RunCancelled
    BY <1>1, <1>3, <2>3 DEF RunCancelled, StopForCancel, terminal, Terminal
  <2>4. ASSUME NEW by \in BOOLEAN, ScanStarts(by) PROVE StoryInv'
    <3> DEFINE e == [type |-> "ScanStarted", stage |-> "none"]
    <3>1. session.state = "Created" /\ ~terminal(session) /\ ~crashed
      BY <1>1, <2>4 DEF ScanStarts, StateInv, terminal, Terminal
    <3>2. session' = emit(transition(session, "Initializing"), "ScanStarted", "none", by)
          /\ pc' = "stage"
      BY <2>4 DEF ScanStarts
    <3>3. "Initializing" \in PipelineState \ Terminal
      BY Names DEF Terminal
    <3>4. /\ Allowed(session.state, "Initializing")
          /\ "ScanStarted" \in EventType \ FinalEvents /\ "none" \in StageKind \cup {"none"}
      BY <3>1, Granted, StageNames
    <3>5. /\ ~by => session'.heard = Append(h, e)
          /\ by => session'.state = "Cancelled" /\ session'.heard = Append(Append(h, e), CancelEvent)
      BY <1>1, <3>1, <3>2, <3>3, <3>4, MoveGranted
    <3>6. e \in Event /\ e.type = "ScanStarted" /\ e.type \notin FinalEvents
      BY <3>4 DEF Event
    <3> HIDE DEF e
    <3>7. Ordered(session'.heard) /\ (~terminal(session') => session'.heard = Append(h, e) /\ Quiet(session'.heard))
      BY <1>1, <3>1, <3>5, <3>6, StoryStep
    <3>8. Rested(Append(h, e))
      BY <1>1, <3>6, RestedAppend
    <3> QED
      BY <3>2, <3>7, <3>8 DEF StoryInv, Closing
  <2> QED
    BY <1>7, <2>1, <2>2, <2>3, <2>4 DEF Prologue
<1>8. CASE Stages
  <2>1. CASE SkipStage
    BY <2>1 DEF SkipStage, AtStage, StoryInv, terminal, Closing
  <2>2. CASE StageCancelled
    BY <1>1, <1>3, <2>2 DEF StageCancelled, StopForCancel, terminal, Terminal
  <2>3. ASSUME NEW by \in BOOLEAN, BeginStage(by) PROVE StoryInv'
    <3> DEFINE e == [type |-> "StageStarted", stage |-> Kind]
    <3>1. current \in 1..5 /\ Kind \in Stage /\ Kind = StageOrder[current]
      BY <2>3, Names, ItemNames DEF BeginStage, AtStage, Kind
    <3>2. session.state \in Before(current) /\ ~terminal(session) /\ ~crashed /\ pc = "stage"
      BY <1>1, <2>3, <3>1, Granted DEF BeginStage, AtStage, StateInv, terminal, Terminal
    <3>3. session.state = StateOf(Kind) \/ Allowed(session.state, StateOf(Kind))
      BY <3>1, <3>2, Granted
    <3>4. StateOf(Kind) \in PipelineState \ Terminal
      BY <3>1, Names DEF StateOf, Terminal
    <3>5. session' = emit(transition(session, StateOf(Kind)), "StageStarted", Kind, by)
          /\ pc' = "start" /\ Kind' = Kind
      BY <2>3 DEF BeginStage, Kind
    <3>6. "StageStarted" \in EventType \ FinalEvents /\ Kind \in StageKind \cup {"none"}
      BY <3>1, StageNames
    <3>7. /\ ~by => session'.heard = Append(h, e)
          /\ by => session'.state = "Cancelled" /\ session'.heard = Append(Append(h, e), CancelEvent)
      BY <1>1, <3>2, <3>3, <3>4, <3>5, <3>6, MoveGranted
    <3>8. e \in Event /\ e.type = "StageStarted" /\ e.stage = Kind /\ e.type \notin FinalEvents
      BY <3>6 DEF Event
    <3> HIDE DEF e
    <3>9. Rested(h)
      BY <3>2 DEF StoryInv
    <3>10. Ordered(session'.heard) /\ (~terminal(session') => session'.heard = Append(h, e) /\ Quiet(session'.heard))
      BY <1>1, <3>2, <3>7, <3>8, <3>9, StoryStep
    <3>11. OpenStage(Append(h, e), Kind)
      BY <1>1, <3>8, OpenAppend
    <3> QED
      BY <3>5, <3>10, <3>11 DEF StoryInv, Closing
  <2>4. ASSUME NEW by \in BOOLEAN, NEW type \in EventType \ (FinalEvents \cup {"StageStarted"}),
               session' = emit(session, type, Kind, by),
               pc \in {"start", "announce"}, current \in 1..5, UNCHANGED <<crashed>>,
               ~terminal(session)
        PROVE  /\ Ordered(session'.heard)
               /\ ~terminal(session') =>
                    /\ Quiet(session'.heard) /\ OpenStage(session'.heard, Kind)
                    /\ type = "StageCompleted" => Rested(session'.heard)
    <3> DEFINE e == [type |-> type, stage |-> Kind]
    <3>1. Kind \in StageKind \cup {"none"}
      BY <2>4, ItemNames, StageNames
    <3>2. /\ ~by => session'.heard = Append(h, e)
          /\ by => session'.state = "Cancelled" /\ session'.heard = Append(Append(h, e), CancelEvent)
      BY <1>1, <2>4, <3>1, EmitOutcome
    <3>3. /\ e \in Event /\ e.stage = Kind /\ e.type = type /\ e.type \notin FinalEvents
          /\ e.type # "StageStarted"
      BY <2>4, <3>1 DEF Event
    <3> HIDE DEF e
    <3>4. OpenStage(h, Kind)
      BY <1>1, <2>4 DEF StoryInv
    <3>5. Ordered(session'.heard) /\ (~terminal(session') => session'.heard = Append(h, e) /\ Quiet(session'.heard))
      BY <1>1, <2>4, <3>2, <3>3, <3>4, StoryStep
    <3>6. OpenStage(Append(h, e), Kind) /\ (type = "StageCompleted" => Rested(Append(h, e)))
      BY <1>1, <3>3, <3>4, OpenAppend, RestedAppend
    <3> QED
      BY <3>5, <3>6
  <2>5. ASSUME NEW by \in BOOLEAN, NEW type \in EventType \ FinalEvents,
               session' = emit(session, type, Kind, by), current \in 1..5, terminal(session)
        PROVE  StoryInv'
    <3>1. Kind \in StageKind \cup {"none"}
      BY <2>5, ItemNames, StageNames
    <3>2. session' = session
      BY <1>1, <2>5, <3>1, EmitOutcome
    <3> QED
      BY <1>3, <2>5, <3>2
  <2>6. ASSUME NEW by \in BOOLEAN, session' = emit(session, ItemEvent, Kind, by),
               pc \in {"start", "announce"}, UNCHANGED <<pc, current, crashed>>
        PROVE  StoryInv'
    <3>1. current \in 1..5 /\ Kind' = Kind
      BY <2>6 DEF ControlInv, Kind
    <3>2. ItemEvent \in EventType \ (FinalEvents \cup {"StageStarted"})
      BY <3>1, ItemNames
    <3>3. CASE terminal(session)
      BY <2>5, <2>6, <3>1, <3>2, <3>3
    <3>4. CASE ~terminal(session)
      <4>1. /\ Ordered(session'.heard)
            /\ ~terminal(session') => Quiet(session'.heard) /\ OpenStage(session'.heard, Kind)
        BY <2>4, <2>6, <3>1, <3>2, <3>4
      <4> QED
        BY <2>6, <3>1, <4>1 DEF StoryInv, Closing
    <3> QED
      BY <3>3, <3>4
  <2>7. ASSUME NEW by \in BOOLEAN, AnnounceItem(by) PROVE StoryInv'
    BY <2>6, <2>7 DEF AnnounceItem
  <2>8. ASSUME NEW host, NEW by \in BOOLEAN, OSHostDone(host, by) PROVE StoryInv'
    BY <2>6, <2>8 DEF OSHostDone
  <2>9. ASSUME NEW by \in BOOLEAN, EndStage(by) PROVE StoryInv'
    <3>1. /\ session' = emit(session, "StageCompleted", Kind, by) /\ pc' = "stage"
          /\ pc \in {"start", "announce"} /\ current \in 1..5 /\ UNCHANGED crashed
      BY <2>9 DEF EndStage, ControlInv
    <3>2. "StageCompleted" \in EventType \ (FinalEvents \cup {"StageStarted"})
      BY DEF EventType, FinalEvents
    <3>3. CASE terminal(session)
      BY <2>5, <3>1, <3>2, <3>3
    <3>4. CASE ~terminal(session)
      <4>1. /\ Ordered(session'.heard)
            /\ ~terminal(session') => Quiet(session'.heard) /\ Rested(session'.heard)
        BY <2>4, <3>1, <3>2, <3>4
      <4> QED
        BY <3>1, <4>1 DEF StoryInv, Closing
    <3> QED
      BY <3>3, <3>4
  <2>10. ASSUME NEW o, StageSucceeds(o) PROVE StoryInv'
    <3>1. Kind' = Kind
      BY <2>10 DEF StageSucceeds, Kind
    <3> QED
      BY <2>10, <3>1 DEF StageSucceeds, StoryInv, terminal, Closing
  <2>11. ASSUME NEW s, StageFails(s) PROVE StoryInv'
    BY <1>5, <2>11 DEF StageFails
  <2> QED
    BY <1>8, <2>1, <2>2, <2>3, <2>7, <2>8, <2>9, <2>10, <2>11 DEF Stages
<1>9. CASE Output
  <2>1. CASE OutputCancelled
    BY <1>1, <1>3, <2>1 DEF OutputCancelled, StopForCancel, terminal, Terminal
  <2>2. ASSUME NEW by \in BOOLEAN, BeginOutput(by) PROVE StoryInv'
    <3> DEFINE e == [type |-> "StageStarted", stage |-> "Output"]
    <3>1. current = 6 /\ ~crashed /\ pc = "stage" /\ pc' = "serialize"
      BY <1>1, <2>2, Names DEF BeginOutput, ControlInv
    <3>2. session.state \in Before(6) /\ ~terminal(session)
      BY <1>1, <2>2, <3>1, Granted DEF BeginOutput, StateInv, terminal
    <3>3. session' = emit(transition(session, "Serializing"), "StageStarted", "Output", by)
      BY <2>2 DEF BeginOutput
    <3>4. "Serializing" \in PipelineState \ Terminal /\ Allowed(session.state, "Serializing")
      BY <3>2, Granted, Names DEF Terminal
    <3>5. "StageStarted" \in EventType \ FinalEvents /\ "Output" \in StageKind \cup {"none"}
      BY StageNames
    <3>6. /\ ~by => session'.heard = Append(h, e)
          /\ by => session'.state = "Cancelled" /\ session'.heard = Append(Append(h, e), CancelEvent)
      BY <1>1, <3>2, <3>3, <3>4, <3>5, MoveGranted
    <3>7. e \in Event /\ e.type = "StageStarted" /\ e.stage = "Output" /\ e.type \notin FinalEvents
      BY <3>5 DEF Event
    <3> HIDE DEF e
    <3>8. Rested(h)
      BY <3>1, <3>2 DEF StoryInv
    <3>9. Ordered(session'.heard) /\ (~terminal(session') => session'.heard = Append(h, e) /\ Quiet(session'.heard))
      BY <1>1, <3>2, <3>6, <3>7, <3>8, StoryStep
    <3>10. OpenStage(Append(h, e), "Output")
      BY <1>1, <3>7, OpenAppend
    <3> QED
      BY <3>1, <3>9, <3>10 DEF StoryInv, Closing
  <2>3. CASE Serialize
    BY <2>3 DEF Serialize, StoryInv, terminal, Closing
  <2>4. ASSUME NEW status, WriterFails(status) PROVE StoryInv'
    BY <1>5, <2>4 DEF WriterFails, SerializeFails
  <2>5. CASE FileFails
    BY <1>5, <2>5 DEF FileFails, SerializeFails
  <2>6. CASE MakeTemp \/ WriteTemp \/ SyncTemp \/ CloseTemp \/ RenameTemp
    BY <2>6 DEF MakeTemp, WriteTemp, SyncTemp, CloseTemp, RenameTemp, FileStep, StoryInv,
       terminal, Closing
  <2>7. ASSUME NEW by \in BOOLEAN, Written(by) PROVE StoryInv'
    <3>1. pc = "written" /\ ~crashed
      BY <1>1, <2>7 DEF Written
    <3>2. CASE after # "finish"
      BY <1>3, <2>7, <3>1, <3>2 DEF Written, StateInv, Closing, terminal, Terminal
    <3>3. CASE after = "finish" /\ session.state = "Cancelled"
      BY <1>1, <1>2, <2>7, <3>3, FinishOutcome DEF terminal, Terminal
    <3>4. CASE after = "finish" /\ session.state = "Serializing"
      <4>1. /\ by => session'.state = "Cancelled"
                       /\ session'.heard = Append(Append(h, OutputDone), CancelEvent)
            /\ ~by => session'.state = "Completed"
                        /\ session'.heard = Append(Append(h, OutputDone), ScanDone)
        BY <1>1, <2>7, <3>4, FinishOutcome
      <4>2. ~terminal(session) /\ OpenStage(h, "Output")
        BY <3>1, <3>4 DEF StoryInv, terminal, Terminal, Closing
      <4>3. /\ OutputDone \in Event /\ OutputDone.type = "StageCompleted"
            /\ OutputDone.stage = "Output" /\ OutputDone.type \notin FinalEvents
        BY DEF OutputDone, Event, EventType, FinalEvents, StageKind
      <4>4. /\ Ordered(Append(Append(h, OutputDone), CancelEvent))
            /\ Ordered(Append(Append(h, OutputDone), ScanDone))
        BY <1>1, <4>2, <4>3, EventHeard
      <4>5. terminal(session') /\ Ordered(session'.heard)
        <5>1. CASE by
          BY <4>1, <4>4, <5>1 DEF terminal, Terminal
        <5>2. CASE ~by
          BY <4>1, <4>4, <5>2 DEF terminal, Terminal
        <5> QED
          BY <5>1, <5>2
      <4> QED
        BY <1>2, <4>5
    <3> QED
      BY <3>1, <3>2, <3>3, <3>4 DEF StateInv, Closing
  <2> QED
    BY <1>9, <2>1, <2>2, <2>3, <2>4, <2>5, <2>6, <2>7 DEF Output
<1>10. CASE Off \/ UNCHANGED vars
  BY <1>10 DEF Off, vars, StoryInv, Kind, terminal
<1>11. ASSUME NEW path, PowerLoss(path) PROVE StoryInv'
  BY <1>4, <1>11 DEF PowerLoss, Closing
<1> QED
  BY <1>6, <1>7, <1>8, <1>9, <1>10, <1>11 DEF Next

LEMMA StoryHolds == Spec => []StoryInv
<1>1. ASSUME Init PROVE StoryInv
  <2>1. session.heard = <<>> /\ pc = "idle"
    BY <1>1 DEF Init
  <2>2. DOMAIN session.heard = {}
    BY <2>1
  <2> QED
    BY <2>1, <2>2 DEF StoryInv, Ordered, Quiet, Closing
<1> QED
  BY <1>1, ControlHolds, FileSafe, SessionHolds, StateHolds, NextStory, PTL DEF Spec

(***************************************************************************)
(* The observer hears a story in order wherever it cancels, and the        *)
(* session is in the state of the stage that runs, for every               *)
(* configuration and any number of hosts and runs.                         *)
(***************************************************************************)
THEOREM StoryInOrder == Spec => []EventsInOrder
<1>1. ASSUME ControlInv, FileInv, SessionInv, StateInv, StoryInv PROVE EventsInOrder
  <2>1. TypeOK
    <3>1. \A i \in DOMAIN session.heard : session.heard[i].stage \in StageKind \cup {"none"}
      <4>1. session.heard \in Seq(Event)
        BY <1>1 DEF SessionInv, Session
      <4>2. \A i \in DOMAIN session.heard : session.heard[i] \in Event
        BY <4>1
      <4> QED
        BY <4>2 DEF Event
    <3>2. session.state \in PipelineState /\ session.cancel_requested \in BOOLEAN
      BY <1>1 DEF SessionInv, Session
    <3>3. stages \in [Stage -> {"absent", "live", "cancelled"}]
      BY <1>1 DEF SessionInv, StageObject
    <3>4. collected.discovery \in [Hosts -> Evidence \cup {{}}] /\ collected.os \subseteq Hosts
      BY <1>1 DEF ControlInv, Results
    <3>5. file.temp \in {"none", "partial", "full"} /\ file.synced \in BOOLEAN
      BY <1>1 DEF FileInv
    <3>6. Len(StageOrder) + 1 = 6
      BY Names
    <3> QED
      BY <1>1, <3>1, <3>2, <3>3, <3>4, <3>5, <3>6 DEF TypeOK, ControlInv, Places
  <2>2. crashed => pc = "idle"
    BY <1>1 DEF FileInv
  <2>3. ~terminal(session) =>
          /\ pc \in {"start", "announce"} => session.state = StateOf(Kind)
          /\ pc # "idle" /\ after = "finish" => session.state = "Serializing"
    BY <1>1, <2>2 DEF StateInv, terminal, Terminal
  <2> QED
    BY <1>1, <2>1, <2>3 DEF EventsInOrder, StoryInv, Ordered
<1> QED
  BY <1>1, ControlHolds, FileSafe, SessionHolds, StateHolds, StoryHolds, PTL

=============================================================================
