---------------------- MODULE PortScanSchedulerProofs ----------------------
(***************************************************************************)
(* Proofs for PortScanScheduler, for every set of pairs, every method and  *)
(* every configuration the scheduler accepts: first its tables and what it *)
(* may publish, then what it promises to its stage.  No pair is worked on  *)
(* or published twice, and none is lost; a pair is published with what the *)
(* evidence says; a run that returns Ok has published every pair; and      *)
(* together they keep PortScanContract.                                    *)
(***************************************************************************)
EXTENDS PortScanRefinement, FiniteSetTheorems, SequenceTheorems, TLAPS

-----------------------------------------------------------------------------
(* The congestion controller never leaves its configured range.            *)

(***************************************************************************)
(* clamp_parallelism() brings every integer into the configured range.     *)
(***************************************************************************)
LEMMA ClampInRange ==
  ASSUME NEW n \in Int
  PROVE  clamp_parallelism(n) \in MinParallelism..MaxParallelism
BY CongestionAssumption DEF clamp_parallelism

(***************************************************************************)
(* The truncated product with the backoff factor is an integer, at least 1.*)
(***************************************************************************)
LEMMA ScaledIsPositive ==
  ASSUME NEW n \in Nat
  PROVE  Scaled(n) \in Nat \ {0}
<1>1. n * BackoffNum \in Nat
  BY CongestionAssumption
<1>2. BackoffDen \in Nat \ {0}
  BY CongestionAssumption
<1>3. (n * BackoffNum) \div BackoffDen \in Int
  BY <1>1, <1>2
<1> QED
  BY <1>3 DEF Scaled

(***************************************************************************)
(* The controller is constructed in its range.                             *)
(***************************************************************************)
LEMMA InitialCongestionType == InitialCongestion \in CongestionState
<1>1. clamp_parallelism(InitialParallelism) \in MinParallelism..MaxParallelism
  BY ClampInRange, CongestionAssumption
<1> QED
  BY <1>1, CongestionAssumption DEF InitialCongestion, CongestionState

(***************************************************************************)
(* A response keeps the window and both streaks in range: the window never *)
(* grows past max_parallelism, and a streak that reaches its threshold is  *)
(* restarted.                                                              *)
(***************************************************************************)
LEMMA ResponseKeepsRange ==
  ASSUME NEW c \in CongestionState
  PROVE  on_response(c) \in CongestionState
<1> DEFINE recovered == c.consecutive_successes + 1 >= RecoveryThreshold
           widened == IF recovered /\ c.current_parallelism < MaxParallelism
                        THEN c.current_parallelism + 1 ELSE c.current_parallelism
<1>1. widened \in Int
  BY CongestionAssumption DEF CongestionState
<1>2. clamp_parallelism(widened) \in MinParallelism..MaxParallelism
  BY <1>1, ClampInRange
<1>3. (IF recovered THEN 0 ELSE c.consecutive_successes + 1) \in 0..(RecoveryThreshold - 1)
  BY CongestionAssumption DEF CongestionState
<1>4. 0 \in 0..(TimeoutThreshold - 1)
  BY CongestionAssumption
<1> HIDE DEF recovered, widened
<1> QED
  BY <1>2, <1>3, <1>4 DEF on_response, CongestionState, recovered, widened

(***************************************************************************)
(* A timeout keeps the window and both streaks in range: backing off never *)
(* leaves a window of zero, in which no probe could ever be sent again.    *)
(***************************************************************************)
LEMMA TimeoutKeepsRange ==
  ASSUME NEW c \in CongestionState
  PROVE  on_timeout(c) \in CongestionState
<1> DEFINE exhausted == c.consecutive_timeouts + 1 >= TimeoutThreshold
           next == Scaled(c.current_parallelism)
           narrowed == IF exhausted
                         THEN IF next < MinParallelism THEN MinParallelism ELSE next
                         ELSE c.current_parallelism
<1>1. c.current_parallelism \in Nat
  BY CongestionAssumption DEF CongestionState
<1>2. next \in Nat \ {0}
  BY <1>1, ScaledIsPositive
<1> HIDE DEF next
<1>3. narrowed \in Int
  BY <1>1, <1>2, CongestionAssumption
<1>4. clamp_parallelism(narrowed) \in MinParallelism..MaxParallelism
  BY <1>3, ClampInRange
<1>5. (IF exhausted THEN 0 ELSE c.consecutive_timeouts + 1) \in 0..(TimeoutThreshold - 1)
  BY CongestionAssumption DEF CongestionState
<1>6. 0 \in 0..(RecoveryThreshold - 1)
  BY CongestionAssumption
<1> HIDE DEF exhausted, narrowed
<1> QED
  BY <1>4, <1>5, <1>6 DEF on_timeout, CongestionState, exhausted, narrowed, next

(***************************************************************************)
(* A response never narrows the window.                                    *)
(***************************************************************************)
LEMMA ResponseWidens ==
  ASSUME NEW c \in CongestionState
  PROVE  on_response(c).current_parallelism >= c.current_parallelism
<1> DEFINE recovered == c.consecutive_successes + 1 >= RecoveryThreshold
           widened == IF recovered /\ c.current_parallelism < MaxParallelism
                        THEN c.current_parallelism + 1 ELSE c.current_parallelism
<1>1. c.current_parallelism \in MinParallelism..MaxParallelism
  BY DEF CongestionState
<1>2. on_response(c).current_parallelism = clamp_parallelism(widened)
  BY DEF on_response
<1>3. widened \in MinParallelism..MaxParallelism /\ widened >= c.current_parallelism
  BY <1>1, CongestionAssumption
<1> HIDE DEF widened
<1>4. clamp_parallelism(widened) = widened
  BY <1>3, CongestionAssumption DEF clamp_parallelism
<1> QED
  BY <1>2, <1>3, <1>4

-----------------------------------------------------------------------------
(* Every verdict of a probe is one the report builder accepts.             *)

(***************************************************************************)
(* The verdicts on destination-unreachable quotes, for both raw methods.   *)
(***************************************************************************)
LEMMA UnreachableReportable ==
  ASSUME NEW method \in {"TcpSyn", "TcpAck"}, NEW reason \in ScanReason,
         AssessUnreachable(reason).status = "Ok"
  PROVE  /\ AssessUnreachable(reason).state \in PortState
         /\ AssessUnreachable(reason).reason \in ScanReason
         /\ valid_port_result_semantics(method, AssessUnreachable(reason).state,
                                        AssessUnreachable(reason).reason)
BY DEF AssessUnreachable, Admitted, Rejected, Assessment, PortState, ScanReason,
       valid_port_result_semantics, FilteringReasons

(***************************************************************************)
(* An admitted verdict of any probe on any response is a state and reason  *)
(* that valid_port_result_semantics accepts for the method.                *)
(***************************************************************************)
THEOREM AssessReportable ==
  ASSUME NEW method \in Methods, NEW r \in Response,
         Assess(method, r).status = "Ok"
  PROVE  /\ Assess(method, r).state \in PortState
         /\ Assess(method, r).reason \in ScanReason
         /\ valid_port_result_semantics(method, Assess(method, r).state,
                                        Assess(method, r).reason)
<1> DEFINE a == Assess(method, r)
<1>1. CASE method = "TcpConnect"
  <2>1. a = AssessConnect(r)
    BY <1>1 DEF Assess
  <2> QED
    BY <1>1, <2>1 DEF AssessConnect, Admitted, Rejected, Assessment, Response, Errors,
         PortState, ScanReason, valid_port_result_semantics
<1>2. CASE method = "TcpSyn"
  <2>1. a = AssessRaw(method, r)
    BY <1>2 DEF Assess
  <2>2. CASE r.kind = "Unreachable"
    <3>1. a = AssessUnreachable(r.reason) /\ r.reason \in ScanReason
      BY <2>1, <2>2 DEF AssessRaw, Response
    <3> QED
      BY <1>2, <3>1, UnreachableReportable
  <2>3. CASE r.kind # "Unreachable"
    BY <1>2, <2>1, <2>3 DEF AssessRaw, AssessFlags, AssessSynFlags, Admitted,
         Rejected, Assessment, PortState, ScanReason, valid_port_result_semantics
  <2> QED
    BY <2>2, <2>3
<1>3. CASE method = "TcpAck"
  <2>1. a = AssessRaw(method, r)
    BY <1>3 DEF Assess
  <2>2. CASE r.kind = "Unreachable"
    <3>1. a = AssessUnreachable(r.reason) /\ r.reason \in ScanReason
      BY <2>1, <2>2 DEF AssessRaw, Response
    <3> QED
      BY <1>3, <3>1, UnreachableReportable
  <2>3. CASE r.kind # "Unreachable"
    BY <1>3, <2>1, <2>3 DEF AssessRaw, AssessFlags, AssessAckFlags, Admitted,
         Rejected, Assessment, PortState, ScanReason, valid_port_result_semantics
  <2> QED
    BY <2>2, <2>3
<1> QED
  BY <1>1, <1>2, <1>3 DEF Methods

(***************************************************************************)
(* So everything a transport can get admitted is reportable.               *)
(***************************************************************************)
LEMMA EvidenceReportable ==
  ASSUME NEW method \in Methods, NEW e \in Evidence(method)
  PROVE  /\ e.state \in PortState /\ e.reason \in ScanReason
         /\ valid_port_result_semantics(method, e.state, e.reason)
<1>1. PICK r \in Response :
        /\ Assess(method, r).status = "Ok"
        /\ e = [state |-> Assess(method, r).state, reason |-> Assess(method, r).reason]
  BY DEF Evidence
<1>2. e.state = Assess(method, r).state /\ e.reason = Assess(method, r).reason
  BY <1>1
<1> QED
  BY <1>1, <1>2, AssessReportable

(***************************************************************************)
(* Silence is reportable.                                                  *)
(***************************************************************************)
LEMMA TimeoutReportable ==
  ASSUME NEW method \in Methods
  PROVE  /\ timeout_state(method) \in PortState /\ timeout_reason(method) \in ScanReason
         /\ valid_port_result_semantics(method, timeout_state(method), timeout_reason(method))
BY DEF timeout_state, timeout_reason, PortState, ScanReason, Methods,
       valid_port_result_semantics

(***************************************************************************)
(* So are a conflict and every error the scheduler itself publishes.       *)
(***************************************************************************)
LEMMA OwnVerdictsReportable ==
  ASSUME NEW method \in Methods, NEW s
  PROVE  /\ valid_port_result_semantics(method, "Unknown", "ConflictingEvidence")
         /\ valid_port_result_semantics(method, "Error", "InternalError")
         /\ valid_port_result_semantics(method, "Error", "InvalidTarget")
         /\ valid_port_result_semantics(method, "Error", submission_failure_reason(s))
         /\ submission_failure_reason(s) \in ScanReason
BY DEF valid_port_result_semantics, submission_failure_reason, ScanReason

-----------------------------------------------------------------------------
(* The maps.                                                               *)

(***************************************************************************)
(* Inserting into a map keeps its range and extends its domain.            *)
(***************************************************************************)
LEMMA WithMap ==
  ASSUME NEW S, NEW f, f \in [DOMAIN f -> S], NEW x, NEW v \in S
  PROVE  /\ With(f, x, v) \in [DOMAIN With(f, x, v) -> S]
         /\ DOMAIN With(f, x, v) = DOMAIN f \cup {x}
         /\ With(f, x, v)[x] = v
         /\ \A y \in DOMAIN f \ {x} : With(f, x, v)[y] = f[y]
BY DEF With

(***************************************************************************)
(* Erasing from a map keeps its range and shrinks its domain.              *)
(***************************************************************************)
LEMMA WithoutMap ==
  ASSUME NEW S, NEW f, f \in [DOMAIN f -> S], NEW x
  PROVE  /\ Without(f, x) \in [DOMAIN Without(f, x) -> S]
         /\ DOMAIN Without(f, x) = DOMAIN f \ {x}
         /\ \A y \in DOMAIN f \ {x} : Without(f, x)[y] = f[y]
BY DEF Without

(***************************************************************************)
(* A function on 1..n is a sequence.                                       *)
(***************************************************************************)
LEMMA FunctionIsSeq ==
  ASSUME NEW S, NEW n \in Nat, NEW f \in [1..n -> S]
  PROVE  f \in Seq(S)
<1>1. [1..n -> S] \in {[1..m -> S] : m \in Nat}
  OBVIOUS
<1>2. f \in UNION {[1..m -> S] : m \in Nat}
  BY <1>1
<1>3. Seq(S) = UNION {[1..m -> S] : m \in Nat}
  BY SeqDef
<1> QED
  BY <1>2, <1>3, Zenon

-----------------------------------------------------------------------------
(* Types of the handlers' helpers.                                         *)

(***************************************************************************)
(* The limit pump() computes is at least one and at most max_outstanding.  *)
(***************************************************************************)
LEMMA PumpLimitType ==
  ASSUME NEW t \in CongestionState
  PROVE  PumpLimit(t) \in 1..MaxOutstanding
BY CongestionAssumption, SchedulerAssumption DEF PumpLimit, CongestionState

(***************************************************************************)
(* Counting a negative observation yields a work item for the same pair    *)
(* and the same number of retries.                                         *)
(***************************************************************************)
LEMMA CountNegativeType ==
  ASSUME NEW work \in WorkItem, NEW state, NEW reason
  PROVE  /\ CountNegative(work, state, reason) \in WorkItem
         /\ CountNegative(work, state, reason).pair = work.pair
         /\ CountNegative(work, state, reason).retry_count = work.retry_count
<1>1. CASE ~should_confirm_negative(Method, state, reason)
  BY <1>1 DEF CountNegative
<1>2. CASE should_confirm_negative(Method, state, reason) /\ state = "Closed"
  BY <1>2 DEF CountNegative, WorkItem
<1>3. CASE should_confirm_negative(Method, state, reason) /\ state = "Filtered"
  BY <1>3 DEF CountNegative, WorkItem
<1> QED
  BY <1>1, <1>2, <1>3 DEF should_confirm_negative

(***************************************************************************)
(* Publishing appends a result to one pair's list.                         *)
(***************************************************************************)
LEMMA AppendResultType ==
  ASSUME results \in [Work -> Seq(Result)], NEW work \in WorkItem,
         NEW state \in PortState, NEW reason \in ScanReason,
         append_terminal_result(work, state, reason)
  PROVE  results' \in [Work -> Seq(Result)]
<1> DEFINE entry == [state |-> state, reason |-> reason, retry_count |-> work.retry_count]
<1>1. entry \in Result /\ work.pair \in Work
  BY DEF Result, WorkItem
<1>2. results' = [results EXCEPT ![work.pair] = Append(results[work.pair], entry)]
  BY DEF append_terminal_result
<1>3. Append(results[work.pair], entry) \in Seq(Result)
  BY <1>1
<1> HIDE DEF entry
<1> QED
  BY <1>1, <1>2, <1>3

(***************************************************************************)
(* The variables finish_attempt() may change, typed.                       *)
(***************************************************************************)
FinishTypes ==
  /\ status \in StatusCode
  /\ deferred \in [DOMAIN deferred -> Deferred]
  /\ DOMAIN deferred \subseteq 1..(next_retry_id - 1)
  /\ results \in [Work -> Seq(Result)]
  /\ next_retry_id \in Nat \ {0}
  /\ timing \in CongestionState
  /\ frames \in Seq(Nat)
  /\ timers \in [DOMAIN timers -> Callback] /\ DOMAIN timers \subseteq 1..(next_timer_id - 1)
  /\ next_timer_id \in Nat \ {0}

(***************************************************************************)
(* finish_attempt() keeps their types, in each of its branches.            *)
(***************************************************************************)
LEMMA FinishAttemptType ==
  ASSUME FinishTypes, NEW attempt \in WorkItem, NEW state \in PortState,
         NEW reason \in ScanReason, NEW armed, NEW timer \in Nat \ {0},
         armed \in [DOMAIN armed -> Callback], DOMAIN armed \subseteq 1..(timer - 1),
         NEW t \in CongestionState,
         finish_attempt(attempt, state, reason, armed, timer, t)
  PROVE  FinishTypes'
<1> DEFINE work == CountNegative(attempt, state, reason)
<1>1. work \in WorkItem
  BY CountNegativeType
<1> HIDE DEF work
<1>2. timing' \in CongestionState /\ frames' \in Seq(Nat)
  <2>1. timing' = t /\ frames' = <<PumpLimit(t)>> \o frames
    BY DEF finish_attempt
  <2>2. PumpLimit(t) \in Nat
    BY PumpLimitType, SchedulerAssumption
  <2> QED
    BY <2>1, <2>2 DEF FinishTypes
<1>3. ASSUME NEW s \in PortState, NEW r \in ScanReason, publish(work, s, r, armed, timer)
      PROVE  FinishTypes'
  <2>1. results' \in [Work -> Seq(Result)]
    BY <1>1, <1>3, AppendResultType DEF publish, FinishTypes
  <2> QED
    BY <1>2, <1>3, <2>1 DEF publish, FinishTypes
<1>4. CASE defer_retry(work, armed, timer)
  <2> DEFINE item == [work |-> [work EXCEPT !.retry_count = @ + 1], timer_id |-> timer]
             call == [handler |-> "on_retry_ready", id |-> next_retry_id]
  <2>1. item \in Deferred
    BY <1>1 DEF Deferred, WorkItem
  <2>2. call \in Callback
    BY DEF Callback, FinishTypes
  <2> HIDE DEF item, call
  <2>3. /\ deferred' = With(deferred, next_retry_id, item)
        /\ timers' = With(armed, timer, call)
        /\ next_retry_id' = next_retry_id + 1 /\ next_timer_id' = timer + 1
        /\ UNCHANGED <<status, results>>
    BY <1>4 DEF defer_retry, item, call
  <2>4. /\ deferred' \in [DOMAIN deferred' -> Deferred]
        /\ DOMAIN deferred' = DOMAIN deferred \cup {next_retry_id}
    BY <2>1, <2>3 DEF With, FinishTypes
  <2>5. timers' \in [DOMAIN timers' -> Callback] /\ DOMAIN timers' = DOMAIN armed \cup {timer}
    BY <2>2, <2>3 DEF With
  <2>6. DOMAIN deferred' \subseteq 1..(next_retry_id' - 1)
    BY <2>3, <2>4 DEF FinishTypes
  <2>7. DOMAIN timers' \subseteq 1..(next_timer_id' - 1)
    BY <2>3, <2>5
  <2> QED
    BY <1>2, <2>3, <2>4, <2>5, <2>6, <2>7 DEF FinishTypes
<1>5. CASE defer_retry_fails(work, armed, timer)
  <2>1. results' \in [Work -> Seq(Result)]
    BY <1>1, <1>5, AppendResultType DEF defer_retry_fails, FinishTypes, PortState, ScanReason
  <2>2. DOMAIN deferred \subseteq 1..(next_retry_id + 1 - 1)
    BY DEF FinishTypes
  <2> QED
    BY <1>2, <1>5, <2>1, <2>2 DEF defer_retry_fails, FinishTypes, StatusCode
<1> QED
  BY <1>3, <1>4, <1>5 DEF finish_attempt, work, PortState, ScanReason

-----------------------------------------------------------------------------
(* Type correctness.                                                       *)

(***************************************************************************)
(* The variables finish_attempt() leaves alone, typed.                     *)
(***************************************************************************)
RestTypes ==
  /\ submitted \in BOOLEAN
  /\ queue \in Seq(WorkItem)
  /\ pending \in [DOMAIN pending -> Pending] /\ DOMAIN pending \subseteq 1..(next_id - 1)
  /\ next_id \in Nat \ {0}
  /\ engine \in {"idle", "running", "returned", "destroyed"} /\ stopped \in BOOLEAN
  /\ inflight \subseteq 1..(next_id - 1) /\ draining \in BOOLEAN
  /\ observed \in [Work -> SUBSET PortState]

(***************************************************************************)
(* The type invariant is the two parts together.                           *)
(***************************************************************************)
LEMMA TypeSplit == TypeOK <=> FinishTypes /\ RestTypes
BY DEF TypeOK, FinishTypes, RestTypes

(***************************************************************************)
(* The window after a response or a timeout is a window.                   *)
(***************************************************************************)
LEMMA WindowType ==
  ASSUME timing \in CongestionState
  PROVE  Responded \in CongestionState /\ TimedOut \in CongestionState
BY ResponseKeepsRange, TimeoutKeepsRange DEF Responded, TimedOut

(***************************************************************************)
(* Recording an admitted state keeps the history typed.                    *)
(***************************************************************************)
LEMMA ObserveType ==
  ASSUME observed \in [Work -> SUBSET PortState], NEW p \in Work, NEW s \in PortState,
         Observe(p, s)
  PROVE  observed' \in [Work -> SUBSET PortState]
BY DEF Observe

(***************************************************************************)
(* The pair at the head of a non-empty queue, and the rest of the queue.   *)
(***************************************************************************)
LEMMA QueueTypes ==
  ASSUME queue \in Seq(WorkItem), queue # <<>>
  PROVE  Head(queue) \in WorkItem /\ Tail(queue) \in Seq(WorkItem)
OBVIOUS

(***************************************************************************)
(* submit() keeps the types.                                               *)
(***************************************************************************)
LEMMA SubmitType ==
  ASSUME TypeOK, NEW invalid \in SUBSET Work, NEW order \in Orders(Work \ invalid),
         Submit(invalid, order)
  PROVE  TypeOK'
<1>1. Cardinality(Work \ invalid) \in Nat
  BY SchedulerAssumption, FS_Subset, FS_CardinalityType
<1>2. order \in [1..Cardinality(Work \ invalid) -> Work]
  BY DEF Orders
<1> DEFINE q == [i \in DOMAIN order |-> NewWork(order[i])]
<1>3. q \in Seq(WorkItem)
  <2>1. q \in [1..Cardinality(Work \ invalid) -> WorkItem]
    BY <1>2 DEF NewWork, WorkItem
  <2> HIDE DEF q
  <2> QED
    BY <1>1, <2>1, FunctionIsSeq
<1>4. queue' \in Seq(WorkItem)
  <2>1. queue' = q \/ queue' = <<>>
    BY DEF Submit
  <2> HIDE DEF q
  <2> QED
    BY <1>3, <2>1, EmptySeq
<1>5. results' \in [Work -> Seq(Result)]
  <2> DEFINE entry == [state |-> "Error", reason |-> "InvalidTarget", retry_count |-> 0]
  <2>1. entry \in Result
    BY DEF Result, PortState, ScanReason
  <2>2. results' = [p \in Work |->
          IF p \in invalid THEN Append(results[p], entry) ELSE results[p]]
    BY DEF Submit
  <2> HIDE DEF entry
  <2> QED
    BY <2>1, <2>2 DEF TypeOK
<1>6. frames' \in Seq(Nat)
  <2>1. PumpLimit(timing) \in Nat
    BY PumpLimitType, SchedulerAssumption DEF TypeOK
  <2>2. frames' = <<PumpLimit(timing)>> \/ frames' = frames
    BY DEF Submit
  <2>3. frames \in Seq(Nat) /\ <<PumpLimit(timing)>> \in Seq(Nat)
    BY <2>1 DEF TypeOK
  <2> QED
    BY <2>2, <2>3
<1> QED
  BY <1>4, <1>5, <1>6 DEF Submit, TypeOK, StatusCode

(***************************************************************************)
(* The destructor keeps the types.                                         *)
(***************************************************************************)
LEMMA DestroyType == TypeOK /\ Destroy => TypeOK'
<1> SUFFICES ASSUME TypeOK, Destroy PROVE TypeOK'
  OBVIOUS
<1>1. timers' \in [DOMAIN timers' -> Callback] /\ DOMAIN timers' \subseteq DOMAIN timers
  BY DEF Destroy, TypeOK
<1>2. /\ pending' \in [DOMAIN pending' -> Pending] /\ DOMAIN pending' = {}
      /\ deferred' \in [DOMAIN deferred' -> Deferred] /\ DOMAIN deferred' = {}
  BY DEF Destroy, EmptyMap
<1>3. queue' \in Seq(WorkItem)
  BY DEF Destroy
<1>4. inflight' \subseteq inflight
  BY DEF Destroy
<1> QED
  BY <1>1, <1>2, <1>3, <1>4 DEF Destroy, TypeOK

(***************************************************************************)
(* Every iteration of pump() keeps the types.                              *)
(***************************************************************************)
LEMMA PumpType == TypeOK /\ Pump => TypeOK'
<1> SUFFICES ASSUME TypeOK, Pump PROVE TypeOK'
  OBVIOUS
<1>a. frames # <<>> => Tail(frames) \in Seq(Nat)
  BY DEF TypeOK
<1>b. queue # <<>> => Head(queue) \in WorkItem /\ Tail(queue) \in Seq(WorkItem)
  BY QueueTypes DEF TypeOK
<1>c. complete' \in BOOLEAN
  BY DEF complete
<1>d. DOMAIN pending \subseteq 1..(next_id + 1 - 1) /\ inflight \subseteq 1..(next_id + 1 - 1)
  BY DEF TypeOK
<1>1. CASE PumpReturns
  BY <1>1, <1>a, <1>c DEF PumpReturns, stop_if_idle, TypeOK
<1>2. ASSUME NEW s \in BuildFailures, PumpBuildFails(s) PROVE TypeOK'
  <2>1. results' \in [Work -> Seq(Result)]
    BY <1>2, <1>b, AppendResultType
       DEF PumpBuildFails, PumpLoops, TypeOK, PortState, ScanReason
  <2> QED
    BY <1>2, <1>b, <1>d, <2>1 DEF PumpBuildFails, PumpLoops, TypeOK
<1>3. CASE PumpTimerFails
  <2>1. results' \in [Work -> Seq(Result)]
    BY <1>3, <1>b, AppendResultType
       DEF PumpTimerFails, PumpLoops, TypeOK, PortState, ScanReason
  <2>2. stopped' \in BOOLEAN
    BY <1>3, <1>c DEF PumpTimerFails, stop_if_idle, TypeOK
  <2>3. /\ frames' \in Seq(Nat) /\ queue' \in Seq(WorkItem) /\ next_id' = next_id + 1
        /\ status' \in StatusCode
    BY <1>3, <1>a, <1>b DEF PumpTimerFails, PumpLoops, StatusCode
  <2>4. UNCHANGED <<submitted, pending, deferred, next_retry_id, timing, timers,
                    next_timer_id, engine, inflight, draining, observed>>
    BY <1>3 DEF PumpTimerFails
  <2> QED
    BY <1>d, <2>1, <2>2, <2>3, <2>4 DEF TypeOK
<1>4. ASSUME NEW s \in SubmitFailures, PumpSubmitFails(s) PROVE TypeOK'
  <2>1. results' \in [Work -> Seq(Result)]
    BY <1>4, <1>b, AppendResultType, OwnVerdictsReportable, SchedulerAssumption
       DEF PumpSubmitFails, PumpLoops, TypeOK, PortState
  <2>2. s \in StatusCode
    BY SchedulerAssumption
  <2>3. DOMAIN timers \subseteq 1..(next_timer_id + 1 - 1)
    BY DEF TypeOK
  <2>4. stopped' \in BOOLEAN
    BY <1>4, <1>c DEF PumpSubmitFails, stop_if_idle, TypeOK
  <2>5. /\ frames' \in Seq(Nat) /\ queue' \in Seq(WorkItem) /\ next_id' = next_id + 1
        /\ status' \in StatusCode /\ next_timer_id' = next_timer_id + 1
    BY <1>4, <1>a, <1>b, <2>2 DEF PumpSubmitFails, PumpLoops
  <2>6. UNCHANGED <<submitted, pending, deferred, next_retry_id, timing, timers,
                    engine, inflight, draining, observed>>
    BY <1>4 DEF PumpSubmitFails
  <2> QED
    BY <1>d, <2>1, <2>3, <2>4, <2>5, <2>6 DEF TypeOK
<1>5. CASE PumpSubmits
  <2> DEFINE entry == NewPending(Head(queue))
             call == [handler |-> "on_timeout", id |-> next_id]
  <2>1. entry \in Pending /\ call \in Callback
    BY <1>5, <1>b DEF NewPending, Pending, Callback, NoState, ScanReason, TypeOK,
         PumpSubmits, PumpLoops
  <2> HIDE DEF entry, call
  <2>2. pending' = With(pending, next_id, entry) /\ timers' = With(timers, next_timer_id, call)
    BY <1>5 DEF PumpSubmits, entry, call
  <2>3. /\ pending' \in [DOMAIN pending' -> Pending]
        /\ DOMAIN pending' = DOMAIN pending \cup {next_id}
    BY <2>1, <2>2 DEF With, TypeOK
  <2>4. /\ timers' \in [DOMAIN timers' -> Callback]
        /\ DOMAIN timers' = DOMAIN timers \cup {next_timer_id}
    BY <2>1, <2>2 DEF With, TypeOK
  <2>5. /\ next_id' = next_id + 1 /\ next_timer_id' = next_timer_id + 1
        /\ inflight' = inflight \cup {next_id} /\ queue' = Tail(queue) /\ queue # <<>>
        /\ UNCHANGED <<status, submitted, deferred, results, next_retry_id, timing,
                       frames, engine, stopped, draining, observed>>
    BY <1>5 DEF PumpSubmits, PumpLoops
  <2>6. /\ DOMAIN pending' \subseteq 1..(next_id' - 1)
        /\ inflight' \subseteq 1..(next_id' - 1)
        /\ DOMAIN timers' \subseteq 1..(next_timer_id' - 1)
    BY <2>3, <2>4, <2>5 DEF TypeOK
  <2> QED
    BY <1>b, <2>3, <2>4, <2>5, <2>6 DEF TypeOK
<1>6. ASSUME NEW e \in Evidence(Method), PumpCompletesAtOnce(e) PROVE TypeOK'
  <2>1. e.state \in PortState /\ e.reason \in ScanReason
    BY EvidenceReportable, SchedulerAssumption
  <2>2. Head(queue) \in WorkItem /\ Tail(queue) \in Seq(WorkItem) /\ Head(queue).pair \in Work
    BY <1>6, <1>b DEF PumpCompletesAtOnce, PumpLoops, WorkItem
  <2>3. Responded \in CongestionState
    BY WindowType DEF TypeOK
  <2>4. FinishTypes
    BY TypeSplit
  <2> DEFINE timer == next_timer_id + 1
  <2>5. finish_attempt(Head(queue), e.state, e.reason, timers, timer, Responded)
    BY <1>6 DEF PumpCompletesAtOnce
  <2>6. /\ timer \in Nat \ {0} /\ timers \in [DOMAIN timers -> Callback]
        /\ DOMAIN timers \subseteq 1..(timer - 1)
    BY DEF TypeOK
  <2> HIDE DEF timer
  <2>7. FinishTypes'
    BY <2>1, <2>2, <2>3, <2>4, <2>5, <2>6, FinishAttemptType
  <2>8. observed' \in [Work -> SUBSET PortState]
    BY <1>6, <2>1, <2>2, ObserveType DEF PumpCompletesAtOnce, TypeOK
  <2>9. RestTypes'
    BY <1>6, <1>d, <2>2, <2>8 DEF PumpCompletesAtOnce, RestTypes, TypeOK
  <2> QED
    BY <2>7, <2>9, TypeSplit, PTL
<1> QED
  BY <1>1, <1>2, <1>3, <1>4, <1>5, <1>6 DEF Pump, Observations

(***************************************************************************)
(* Erasing a pending attempt and finishing it keeps the types: the common  *)
(* tail of complete_pending() and on_timeout().                            *)
(***************************************************************************)
LEMMA RetireType ==
  ASSUME TypeOK, NEW id \in DOMAIN pending, NEW x, NEW state \in PortState,
         NEW reason \in ScanReason, NEW t \in CongestionState,
         pending' = Without(pending, id), inflight' = inflight \ {id},
         finish_attempt(pending[id].work, state, reason, Without(timers, x),
                        next_timer_id, t),
         observed' \in [Work -> SUBSET PortState],
         UNCHANGED <<submitted, queue, next_id, engine, stopped, draining>>
  PROVE  TypeOK'
<1> DEFINE armed == Without(timers, x)
<1>1. /\ armed \in [DOMAIN armed -> Callback]
      /\ DOMAIN armed \subseteq 1..(next_timer_id - 1)
  BY DEF Without, TypeOK
<1>2. pending[id].work \in WorkItem
  BY DEF TypeOK, Pending
<1>3. FinishTypes /\ next_timer_id \in Nat \ {0}
  BY TypeSplit DEF TypeOK
<1> HIDE DEF armed
<1>4. finish_attempt(pending[id].work, state, reason, armed, next_timer_id, t)
  BY DEF armed
<1>5. FinishTypes'
  BY <1>1, <1>2, <1>3, <1>4, FinishAttemptType
<1>6. pending' \in [DOMAIN pending' -> Pending] /\ DOMAIN pending' \subseteq DOMAIN pending
  BY DEF Without, TypeOK
<1>7. RestTypes'
  BY <1>6 DEF RestTypes, TypeOK
<1> QED
  BY <1>5, <1>7, TypeSplit, PTL

(***************************************************************************)
(* What receive() retains of a raw response is a pending attempt.          *)
(***************************************************************************)
LEMMA RetainType ==
  ASSUME NEW entry \in Pending, NEW e, e.state \in PortState, e.reason \in ScanReason
  PROVE  Retain(entry, e) \in Pending
<1>1. CASE entry.candidate_state = NoState
  BY <1>1 DEF Retain, Pending
<1>2. CASE entry.candidate_state # NoState /\ ~entry.conflict
           /\ entry.candidate_state # e.state
  BY <1>2 DEF Retain, Pending, PortState, ScanReason
<1>3. CASE ~(entry.candidate_state = NoState)
           /\ ~(entry.candidate_state # NoState /\ ~entry.conflict
                /\ entry.candidate_state # e.state)
  BY <1>3 DEF Retain
<1> QED
  BY <1>1, <1>2, <1>3

(***************************************************************************)
(* receive() keeps the types.                                              *)
(***************************************************************************)
LEMMA ReceiveType ==
  ASSUME TypeOK, NEW id, NEW e, e.state \in PortState, e.reason \in ScanReason,
         receive(id, e), UNCHANGED <<engine, stopped, draining>>
  PROVE  TypeOK'
<1>1. id \in DOMAIN pending /\ pending[id] \in Pending /\ pending[id].work.pair \in Work
  BY DEF receive, TypeOK, Pending, WorkItem
<1>2. observed' \in [Work -> SUBSET PortState]
  BY <1>1, ObserveType DEF receive, TypeOK
<1>3. CASE complete_pending(id, e)
  BY <1>1, <1>2, <1>3, RetireType, WindowType DEF complete_pending, TypeOK
<1>4. CASE retain_candidate(id, e)
  <2>1. Retain(pending[id], e) \in Pending
    BY <1>1, RetainType
  <2>2. /\ pending' \in [DOMAIN pending' -> Pending]
        /\ DOMAIN pending' = DOMAIN pending
    BY <1>4, <2>1 DEF retain_candidate, TypeOK
  <2> QED
    BY <1>2, <1>4, <2>2 DEF retain_candidate, TypeOK
<1> QED
  BY <1>3, <1>4 DEF receive

(***************************************************************************)
(* Both timer callbacks keep the types.                                    *)
(***************************************************************************)
LEMMA TimerType == TypeOK /\ TimerFires => TypeOK'
<1> SUFFICES ASSUME TypeOK, NEW x \in DOMAIN timers,
                    on_timeout_fires(x) \/ on_retry_ready_fires(x)
             PROVE  TypeOK'
  BY DEF TimerFires
<1> DEFINE id == timers[x].id
<1>1. CASE on_timeout_fires(x)
  <2> DEFINE entry == pending[id]
             silent == entry.candidate_state = NoState
             state == IF silent THEN timeout_state(Method) ELSE entry.candidate_state
             reason == IF silent THEN timeout_reason(Method) ELSE entry.candidate_reason
             t == IF silent THEN TimedOut ELSE Responded
  <2>1. id \in DOMAIN pending /\ entry \in Pending /\ entry.work.pair \in Work
    BY <1>1 DEF on_timeout_fires, TypeOK, Pending, WorkItem
  <2>2. state \in PortState /\ reason \in ScanReason
    BY <2>1, TimeoutReportable, SchedulerAssumption DEF Pending
  <2>3. t \in CongestionState
    BY WindowType DEF TypeOK
  <2>4. /\ pending' = Without(pending, id) /\ inflight' = inflight \ {id}
        /\ finish_attempt(entry.work, state, reason, Without(timers, x), next_timer_id, t)
        /\ UNCHANGED <<submitted, queue, next_id, engine, stopped, draining>>
        /\ Observe(entry.work.pair, state) \/ UNCHANGED observed
    BY <1>1 DEF on_timeout_fires
  <2> HIDE DEF state, reason, t, id
  <2>5. observed' \in [Work -> SUBSET PortState]
    BY <2>1, <2>2, <2>4, ObserveType DEF TypeOK
  <2> QED
    BY <2>1, <2>2, <2>3, <2>4, <2>5, RetireType
<1>2. CASE on_retry_ready_fires(x)
  <2>1. id \in DOMAIN deferred /\ deferred[id].work \in WorkItem
    BY <1>2 DEF on_retry_ready_fires, TypeOK, Deferred
  <2>2. PumpLimit(timing) \in Nat
    BY PumpLimitType, SchedulerAssumption DEF TypeOK
  <2>3. /\ timers' = Without(timers, x) /\ deferred' = Without(deferred, id)
        /\ queue' = <<deferred[id].work>> \o queue
        /\ frames' = <<PumpLimit(timing)>> \o frames
        /\ UNCHANGED <<status, submitted, pending, results, next_id, next_retry_id,
                       timing, next_timer_id, engine, stopped, inflight, draining,
                       observed>>
    BY <1>2 DEF on_retry_ready_fires
  <2> HIDE DEF id
  <2>4. queue' \in Seq(WorkItem) /\ frames' \in Seq(Nat)
    BY <2>1, <2>2, <2>3 DEF TypeOK
  <2>5. timers' \in [DOMAIN timers' -> Callback] /\ DOMAIN timers' \subseteq DOMAIN timers
    BY <2>3 DEF Without, TypeOK
  <2>6. /\ deferred' \in [DOMAIN deferred' -> Deferred]
        /\ DOMAIN deferred' \subseteq DOMAIN deferred
    BY <2>3 DEF Without, TypeOK
  <2> QED
    BY <2>3, <2>4, <2>5, <2>6 DEF TypeOK
<1> QED
  BY <1>1, <1>2

(***************************************************************************)
(* Every step keeps the types.                                             *)
(***************************************************************************)
LEMMA NextType == TypeOK /\ [Next]_vars => TypeOK'
<1> SUFFICES ASSUME TypeOK, [Next]_vars PROVE TypeOK'
  OBVIOUS
<1>1. CASE Caller
  <2>1. ASSUME NEW s \in {"InvalidArgument", "PermissionDenied"}, SubmitRefused(s)
        PROVE  TypeOK'
    BY <2>1 DEF SubmitRefused, TypeOK, StatusCode
  <2>2. CASE Run
    BY <2>2 DEF Run, TypeOK, schedulerVars
  <2> QED
    BY <1>1, <2>1, <2>2, SubmitType, DestroyType DEF Caller
<1>2. CASE Drain
  <2>1. ASSUME NEW id \in inflight, DrainOne(id) PROVE TypeOK'
    <3> DEFINE e == [state |-> "Error", reason |-> "SocketError"]
    <3>1. e.state \in PortState /\ e.reason \in ScanReason
      BY DEF PortState, ScanReason
    <3>2. receive(id, e) /\ UNCHANGED <<engine, stopped, draining>>
      BY <2>1 DEF DrainOne
    <3> HIDE DEF e
    <3> QED
      BY <3>1, <3>2, ReceiveType
  <2>2. CASE DrainEnds
    BY <2>2 DEF DrainEnds, TypeOK, schedulerVars
  <2> QED
    BY <1>2, <2>1, <2>2 DEF Drain
<1>3. CASE Transport
  <2>1. ASSUME NEW id \in inflight, NEW e \in Evidence(Method), Deliver(id, e)
        PROVE  TypeOK'
    <3>1. e.state \in PortState /\ e.reason \in ScanReason
      BY EvidenceReportable, SchedulerAssumption
    <3> QED
      BY <2>1, <3>1, ReceiveType DEF Deliver
  <2>2. CASE CaptureFails
    BY <2>2 DEF CaptureFails, TypeOK, schedulerVars
  <2> QED
    BY <1>3, <2>1, <2>2 DEF Transport, Observations
<1>4. CASE RunReturns
  BY <1>4 DEF RunReturns, TypeOK, schedulerVars
<1>5. CASE EngineFails
  BY <1>5 DEF EngineFails, TypeOK, StatusCode
<1>6. CASE Terminated
  BY <1>6 DEF Terminated, TypeOK, vars, schedulerVars
<1>7. CASE UNCHANGED vars
  BY <1>7 DEF TypeOK, vars, schedulerVars
<1> QED
  BY <1>1, <1>2, <1>3, <1>4, <1>5, <1>6, <1>7, PumpType, TimerType DEF Next

(***************************************************************************)
(* Type correctness: every variable of the scheduler keeps its shape, the  *)
(* ids in its maps have been handed out, and the congestion window stays   *)
(* within the profile, for every configuration submit() accepts.           *)
(***************************************************************************)
THEOREM TypeCorrect == Spec => []TypeOK
<1>1. Init => TypeOK
  <2>1. ASSUME Init PROVE TypeOK
    <3>1. timing \in CongestionState
      BY <2>1, InitialCongestionType DEF Init
    <3>2. /\ queue \in Seq(WorkItem) /\ frames \in Seq(Nat)
          /\ results \in [Work -> Seq(Result)]
      BY <2>1, EmptySeq DEF Init
    <3>3. /\ pending \in [DOMAIN pending -> Pending] /\ DOMAIN pending = {}
          /\ deferred \in [DOMAIN deferred -> Deferred] /\ DOMAIN deferred = {}
          /\ timers \in [DOMAIN timers -> Callback] /\ DOMAIN timers = {}
      BY <2>1 DEF Init, EmptyMap
    <3>4. observed \in [Work -> SUBSET PortState]
      BY <2>1 DEF Init
    <3>5. /\ status \in StatusCode /\ submitted \in BOOLEAN /\ next_id = 1
          /\ next_retry_id = 1 /\ next_timer_id = 1 /\ engine = "idle"
          /\ stopped \in BOOLEAN /\ inflight = {} /\ draining \in BOOLEAN
      BY <2>1 DEF Init, StatusCode
    <3> QED
      BY <3>1, <3>2, <3>3, <3>4, <3>5 DEF TypeOK
  <2> QED
    BY <2>1
<1> QED
  BY <1>1, NextType, PTL DEF Spec

-----------------------------------------------------------------------------
(* Every published result is reportable.                                   *)

(***************************************************************************)
(* The strengthening: what is retained as the candidate of a pending       *)
(* attempt is reportable too, since on_timeout() publishes it later        *)
(* without looking at it again.                                            *)
(***************************************************************************)
CandidatesReportable ==
  \A id \in DOMAIN pending :
    \/ pending[id].candidate_state = NoState
    \/ valid_port_result_semantics(Method, pending[id].candidate_state,
                                   pending[id].candidate_reason)

(***************************************************************************)
(* Publishing a reportable verdict keeps all results reportable.           *)
(***************************************************************************)
LEMMA AppendReportable ==
  ASSUME ResultsReportable, results \in [Work -> Seq(Result)], NEW work \in WorkItem,
         NEW state \in PortState, NEW reason \in ScanReason,
         valid_port_result_semantics(Method, state, reason),
         append_terminal_result(work, state, reason)
  PROVE  ResultsReportable'
<1> DEFINE entry == [state |-> state, reason |-> reason, retry_count |-> work.retry_count]
<1>1. entry \in Result /\ work.pair \in Work /\ entry.state = state /\ entry.reason = reason
  BY DEF Result, WorkItem
<1>2. results' = [results EXCEPT ![work.pair] = Append(results[work.pair], entry)]
  BY DEF append_terminal_result
<1> HIDE DEF entry
<1> SUFFICES ASSUME NEW p \in Work, NEW i \in DOMAIN results'[p]
             PROVE  valid_port_result_semantics(Method, results'[p][i].state,
                                                results'[p][i].reason)
  BY DEF ResultsReportable
<1>3. CASE p # work.pair
  BY <1>2, <1>3 DEF ResultsReportable
<1>4. CASE p = work.pair
  <2>1. results'[p] = Append(results[p], entry) /\ results[p] \in Seq(Result)
    BY <1>1, <1>2, <1>4
  <2>2. (i \in DOMAIN results[p] /\ results'[p][i] = results[p][i]) \/ results'[p][i] = entry
    BY <2>1
  <2> QED
    BY <1>1, <2>2 DEF ResultsReportable
<1> QED
  BY <1>3, <1>4

(***************************************************************************)
(* finish_attempt() publishes nothing but reportable verdicts.             *)
(***************************************************************************)
LEMMA FinishReportable ==
  ASSUME ResultsReportable, results \in [Work -> Seq(Result)], NEW attempt \in WorkItem,
         NEW state \in PortState, NEW reason \in ScanReason,
         valid_port_result_semantics(Method, state, reason),
         NEW armed, NEW timer, NEW t,
         finish_attempt(attempt, state, reason, armed, timer, t)
  PROVE  ResultsReportable'
<1> DEFINE work == CountNegative(attempt, state, reason)
<1>1. work \in WorkItem
  BY CountNegativeType
<1> HIDE DEF work
<1>2. /\ "Unknown" \in PortState /\ "Error" \in PortState
      /\ "ConflictingEvidence" \in ScanReason /\ "InternalError" \in ScanReason
  BY DEF PortState, ScanReason
<1>3. /\ valid_port_result_semantics(Method, "Unknown", "ConflictingEvidence")
      /\ valid_port_result_semantics(Method, "Error", "InternalError")
  BY OwnVerdictsReportable, SchedulerAssumption
<1>4. CASE publish(work, "Unknown", "ConflictingEvidence", armed, timer)
  BY <1>1, <1>2, <1>3, <1>4, AppendReportable DEF publish
<1>5. CASE publish(work, state, reason, armed, timer)
  BY <1>1, <1>5, AppendReportable DEF publish
<1>6. CASE defer_retry(work, armed, timer)
  BY <1>6 DEF defer_retry, ResultsReportable
<1>7. CASE defer_retry_fails(work, armed, timer)
  BY <1>1, <1>2, <1>3, <1>7, AppendReportable DEF defer_retry_fails
<1> QED
  BY <1>4, <1>5, <1>6, <1>7 DEF finish_attempt, work

(***************************************************************************)
(* receive() keeps results and candidates reportable.                      *)
(***************************************************************************)
LEMMA ReceiveReportable ==
  ASSUME TypeOK, ResultsReportable, CandidatesReportable, NEW id, NEW e,
         e.state \in PortState, e.reason \in ScanReason,
         valid_port_result_semantics(Method, e.state, e.reason), receive(id, e)
  PROVE  ResultsReportable' /\ CandidatesReportable'
<1>1. /\ id \in DOMAIN pending /\ pending[id] \in Pending
      /\ pending[id].work \in WorkItem
  BY DEF receive, TypeOK, Pending
<1>2. CASE complete_pending(id, e)
  <2>1. ResultsReportable'
    <3> DEFINE armed == Without(timers, pending[id].timer_id)
    <3>1. finish_attempt(pending[id].work, e.state, e.reason, armed, next_timer_id, Responded)
      BY <1>2 DEF complete_pending
    <3> HIDE DEF armed
    <3> QED
      BY <1>1, <3>1, FinishReportable DEF TypeOK
  <2>2. CandidatesReportable'
    BY <1>2 DEF complete_pending, CandidatesReportable, Without
  <2> QED
    BY <2>1, <2>2
<1>3. CASE retain_candidate(id, e)
  <2>1. ResultsReportable'
    BY <1>3 DEF retain_candidate, ResultsReportable
  <2> DEFINE entry == Retain(pending[id], e)
  <2>2. valid_port_result_semantics(Method, "Unknown", "ConflictingEvidence")
    BY OwnVerdictsReportable, SchedulerAssumption
  <2>3. \/ entry.candidate_state = NoState
        \/ valid_port_result_semantics(Method, entry.candidate_state, entry.candidate_reason)
    <3>1. CASE pending[id].candidate_state = NoState
      BY <1>1, <3>1 DEF Retain, Pending
    <3>2. CASE pending[id].candidate_state # NoState /\ ~pending[id].conflict
               /\ pending[id].candidate_state # e.state
      BY <1>1, <2>2, <3>2 DEF Retain, Pending
    <3>3. CASE ~(pending[id].candidate_state = NoState)
               /\ ~(pending[id].candidate_state # NoState /\ ~pending[id].conflict
                    /\ pending[id].candidate_state # e.state)
      BY <1>1, <3>3 DEF Retain, CandidatesReportable
    <3> QED
      BY <3>1, <3>2, <3>3
  <2>4. pending' = [pending EXCEPT ![id] = entry]
    BY <1>3 DEF retain_candidate
  <2> HIDE DEF entry
  <2>5. CandidatesReportable'
    BY <2>3, <2>4 DEF CandidatesReportable, TypeOK
  <2> QED
    BY <2>1, <2>5
<1> QED
  BY <1>2, <1>3 DEF receive

(***************************************************************************)
(* Every step keeps results and candidates reportable.                     *)
(***************************************************************************)
LEMMA NextReportable ==
  TypeOK /\ ResultsReportable /\ CandidatesReportable /\ [Next]_vars
    => ResultsReportable' /\ CandidatesReportable'
<1> SUFFICES ASSUME TypeOK, ResultsReportable, CandidatesReportable, [Next]_vars
             PROVE  ResultsReportable' /\ CandidatesReportable'
  OBVIOUS
<1>a. /\ Method \in Methods
      /\ \A s : /\ valid_port_result_semantics(Method, "Error", "InternalError")
                /\ valid_port_result_semantics(Method, "Error", "InvalidTarget")
                /\ valid_port_result_semantics(Method, "Error", submission_failure_reason(s))
                /\ submission_failure_reason(s) \in ScanReason
  BY OwnVerdictsReportable, SchedulerAssumption
<1>b. /\ "Error" \in PortState /\ "InternalError" \in ScanReason
      /\ "InvalidTarget" \in ScanReason
  BY DEF PortState, ScanReason
<1>c. results \in [Work -> Seq(Result)]
  BY DEF TypeOK
<1>d. queue # <<>> => Head(queue) \in WorkItem
  BY QueueTypes DEF TypeOK
<1>1. ASSUME UNCHANGED <<results, pending>> PROVE ResultsReportable' /\ CandidatesReportable'
  BY <1>1 DEF ResultsReportable, CandidatesReportable
<1>2. ASSUME NEW invalid \in SUBSET Work, NEW order \in Orders(Work \ invalid),
             Submit(invalid, order)
      PROVE  ResultsReportable' /\ CandidatesReportable'
  <2> DEFINE entry == [state |-> "Error", reason |-> "InvalidTarget", retry_count |-> 0]
  <2>1. results' = [p \in Work |->
          IF p \in invalid THEN Append(results[p], entry) ELSE results[p]]
    BY <1>2 DEF Submit
  <2>2. entry \in Result /\ entry.state = "Error" /\ entry.reason = "InvalidTarget"
    BY DEF Result, PortState, ScanReason
  <2> HIDE DEF entry
  <2>3. ASSUME NEW p \in Work, NEW i \in DOMAIN results'[p]
        PROVE  \/ i \in DOMAIN results[p] /\ results'[p][i] = results[p][i]
               \/ results'[p][i] = entry
    <3>1. results[p] \in Seq(Result)
      BY <1>c
    <3>2. results'[p] = Append(results[p], entry) \/ results'[p] = results[p]
      BY <2>1
    <3> QED
      BY <2>2, <3>1, <3>2
  <2>4. ResultsReportable'
    BY <1>a, <2>2, <2>3 DEF ResultsReportable
  <2>5. UNCHANGED pending
    BY <1>2 DEF Submit
  <2> QED
    BY <2>4, <2>5 DEF CandidatesReportable
<1>3. CASE Destroy
  BY <1>3 DEF Destroy, EmptyMap, ResultsReportable, CandidatesReportable
<1>4. ASSUME NEW s \in BuildFailures, PumpBuildFails(s)
      PROVE  ResultsReportable' /\ CandidatesReportable'
  <2>1. /\ append_terminal_result(Head(queue), "Error", "InvalidTarget")
           \/ append_terminal_result(Head(queue), "Error", "InternalError")
        /\ queue # <<>> /\ UNCHANGED pending
    BY <1>4 DEF PumpBuildFails, PumpLoops
  <2>2. ResultsReportable'
    BY <1>a, <1>b, <1>c, <1>d, <2>1, AppendReportable
  <2> QED
    BY <2>1, <2>2 DEF CandidatesReportable
<1>5. CASE PumpTimerFails
  <2>1. /\ append_terminal_result(Head(queue), "Error", "InternalError")
        /\ queue # <<>> /\ UNCHANGED pending
    BY <1>5 DEF PumpTimerFails, PumpLoops
  <2>2. ResultsReportable'
    BY <1>a, <1>b, <1>c, <1>d, <2>1, AppendReportable
  <2> QED
    BY <2>1, <2>2 DEF CandidatesReportable
<1>6. ASSUME NEW s \in SubmitFailures, PumpSubmitFails(s)
      PROVE  ResultsReportable' /\ CandidatesReportable'
  <2>1. /\ append_terminal_result(Head(queue), "Error", submission_failure_reason(s))
        /\ queue # <<>> /\ UNCHANGED pending
    BY <1>6 DEF PumpSubmitFails, PumpLoops
  <2>2. ResultsReportable'
    BY <1>a, <1>b, <1>c, <1>d, <2>1, AppendReportable
  <2> QED
    BY <2>1, <2>2 DEF CandidatesReportable
<1>7. CASE PumpSubmits
  <2> DEFINE entry == NewPending(Head(queue))
  <2>1. entry.candidate_state = NoState
    BY DEF NewPending
  <2>2. pending' = With(pending, next_id, entry) /\ UNCHANGED results
    BY <1>7 DEF PumpSubmits
  <2> HIDE DEF entry
  <2> QED
    BY <2>1, <2>2 DEF With, ResultsReportable, CandidatesReportable
<1>8. ASSUME NEW e \in Evidence(Method), PumpCompletesAtOnce(e)
      PROVE  ResultsReportable' /\ CandidatesReportable'
  <2> DEFINE timer == next_timer_id + 1
  <2>1. /\ finish_attempt(Head(queue), e.state, e.reason, timers, timer, Responded)
        /\ queue # <<>> /\ UNCHANGED pending
    BY <1>8 DEF PumpCompletesAtOnce, PumpLoops
  <2> HIDE DEF timer
  <2>2. /\ e.state \in PortState /\ e.reason \in ScanReason
        /\ valid_port_result_semantics(Method, e.state, e.reason)
    BY <1>a, EvidenceReportable
  <2>3. ResultsReportable'
    BY <1>c, <1>d, <2>1, <2>2, FinishReportable
  <2> QED
    BY <2>1, <2>3 DEF CandidatesReportable
<1>9. ASSUME NEW id, DrainOne(id) PROVE ResultsReportable' /\ CandidatesReportable'
  <2> DEFINE e == [state |-> "Error", reason |-> "SocketError"]
  <2>1. /\ e.state \in PortState /\ e.reason \in ScanReason
        /\ valid_port_result_semantics(Method, e.state, e.reason)
    BY DEF PortState, ScanReason, valid_port_result_semantics
  <2>2. receive(id, e)
    BY <1>9 DEF DrainOne
  <2> HIDE DEF e
  <2> QED
    BY <2>1, <2>2, ReceiveReportable
<1>10. ASSUME NEW id, NEW e \in Evidence(Method), Deliver(id, e)
       PROVE  ResultsReportable' /\ CandidatesReportable'
  <2>1. /\ e.state \in PortState /\ e.reason \in ScanReason
        /\ valid_port_result_semantics(Method, e.state, e.reason)
    BY <1>a, EvidenceReportable
  <2> QED
    BY <1>10, <2>1, ReceiveReportable DEF Deliver
<1>11. ASSUME NEW x \in DOMAIN timers, on_timeout_fires(x)
       PROVE  ResultsReportable' /\ CandidatesReportable'
  <2> DEFINE id == timers[x].id
             entry == pending[id]
             silent == entry.candidate_state = NoState
             state == IF silent THEN timeout_state(Method) ELSE entry.candidate_state
             reason == IF silent THEN timeout_reason(Method) ELSE entry.candidate_reason
             t == IF silent THEN TimedOut ELSE Responded
             armed == Without(timers, x)
  <2>1. id \in DOMAIN pending /\ entry \in Pending /\ entry.work \in WorkItem
    BY <1>11 DEF on_timeout_fires, TypeOK, Pending
  <2>2. /\ state \in PortState /\ reason \in ScanReason
        /\ valid_port_result_semantics(Method, state, reason)
    BY <1>a, <2>1, TimeoutReportable DEF Pending, CandidatesReportable
  <2>3. /\ pending' = Without(pending, id)
        /\ finish_attempt(entry.work, state, reason, armed, next_timer_id, t)
    BY <1>11 DEF on_timeout_fires
  <2> HIDE DEF state, reason, t, armed, id
  <2>4. ResultsReportable'
    BY <1>c, <2>1, <2>2, <2>3, FinishReportable
  <2>5. CandidatesReportable'
    BY <2>3 DEF Without, CandidatesReportable
  <2> QED
    BY <2>4, <2>5
<1>12. ASSUME NEW s, SubmitRefused(s) PROVE UNCHANGED <<results, pending>>
  BY <1>12 DEF SubmitRefused
<1>13. CASE Run \/ DrainEnds \/ CaptureFails \/ RunReturns \/ EngineFails \/ PumpReturns
  BY <1>1, <1>13 DEF Run, DrainEnds, CaptureFails, RunReturns, EngineFails, PumpReturns,
       schedulerVars
<1>14. ASSUME NEW x, on_retry_ready_fires(x) PROVE UNCHANGED <<results, pending>>
  BY <1>14 DEF on_retry_ready_fires
<1>15. CASE Terminated \/ UNCHANGED vars
  BY <1>1, <1>15 DEF Terminated, vars, schedulerVars
<1> QED
  BY <1>1, <1>2, <1>3, <1>4, <1>5, <1>6, <1>7, <1>8, <1>9, <1>10, <1>11, <1>12, <1>13,
     <1>14, <1>15 DEF Next, Caller, Pump, Observations, Drain, TimerFires,
     Transport

(***************************************************************************)
(* Whatever is answered, retained, retried, refused or timed out, every    *)
(* result the scheduler publishes passes the report builder's              *)
(* valid_port_result_semantics.                                            *)
(***************************************************************************)
THEOREM PublishedReportable == Spec => []ResultsReportable
<1>1. Init => ResultsReportable /\ CandidatesReportable
  BY DEF Init, EmptyMap, ResultsReportable, CandidatesReportable
<1>2. Spec => []TypeOK
  BY TypeCorrect
<1> QED
  BY <1>1, <1>2, NextReportable, PTL DEF Spec

-----------------------------------------------------------------------------
(* The scheduler's callbacks: timers and transport entries correspond one  *)
(* to one to the attempts out and the retries waiting, so that none is     *)
(* left to call a scheduler that is gone.                                  *)

(***************************************************************************)
(* TimersMatchWork for any timers, pending attempts and waiting retries,   *)
(* so that it can be stated of the values in the middle of a handler.      *)
(***************************************************************************)
Match(tm, out, waiting) ==
  /\ \A id \in DOMAIN out :
       /\ out[id].timer_id \in DOMAIN tm
       /\ tm[out[id].timer_id] = [handler |-> "on_timeout", id |-> id]
  /\ \A r \in DOMAIN waiting :
       /\ waiting[r].timer_id \in DOMAIN tm
       /\ tm[waiting[r].timer_id] = [handler |-> "on_retry_ready", id |-> r]
  /\ \A t \in DOMAIN tm :
       \/ /\ tm[t].handler = "on_timeout" /\ tm[t].id \in DOMAIN out
          /\ out[tm[t].id].timer_id = t
       \/ /\ tm[t].handler = "on_retry_ready" /\ tm[t].id \in DOMAIN waiting
          /\ waiting[tm[t].id].timer_id = t

(***************************************************************************)
(* A destroyed scheduler holds no work, so none of its loops runs again.   *)
(***************************************************************************)
DestroyedIsEmpty ==
  engine = "destroyed" =>
    queue = <<>> /\ DOMAIN pending = {} /\ DOMAIN deferred = {}

CallbackInv ==
  Match(timers, pending, deferred) /\ TransportMatchesPending /\ DestroyedIsEmpty

-----------------------------------------------------------------------------
(* Arming and cancelling.                                                  *)

(***************************************************************************)
(* Arming a deadline for a new attempt.                                    *)
(***************************************************************************)
LEMMA ArmAttempt ==
  ASSUME NEW tm, NEW out, NEW waiting, Match(tm, out, waiting),
         NEW t, t \notin DOMAIN tm, NEW id, id \notin DOMAIN out,
         NEW entry, entry.timer_id = t
  PROVE  Match(With(tm, t, [handler |-> "on_timeout", id |-> id]),
               With(out, id, entry), waiting)
<1> DEFINE call == [handler |-> "on_timeout", id |-> id]
<1>1. call.handler = "on_timeout" /\ call.id = id
  OBVIOUS
<1> HIDE DEF call
<1> SUFFICES Match(With(tm, t, call), With(out, id, entry), waiting)
  BY DEF call
<1>2. call = [handler |-> "on_timeout", id |-> id]
  BY DEF call
<1> QED
  BY <1>1, <1>2 DEF Match, With

(***************************************************************************)
(* Arming the delay of a retry.                                            *)
(***************************************************************************)
LEMMA ArmRetry ==
  ASSUME NEW tm, NEW out, NEW waiting, Match(tm, out, waiting),
         NEW t, t \notin DOMAIN tm, NEW r, r \notin DOMAIN waiting,
         NEW entry, entry.timer_id = t
  PROVE  Match(With(tm, t, [handler |-> "on_retry_ready", id |-> r]), out,
               With(waiting, r, entry))
<1> DEFINE call == [handler |-> "on_retry_ready", id |-> r]
<1>1. call.handler = "on_retry_ready" /\ call.id = r
  OBVIOUS
<1> HIDE DEF call
<1> SUFFICES Match(With(tm, t, call), out, With(waiting, r, entry))
  BY DEF call
<1>2. call = [handler |-> "on_retry_ready", id |-> r]
  BY DEF call
<1> QED
  BY <1>1, <1>2 DEF Match, With

(***************************************************************************)
(* Retiring an attempt together with its timer.                            *)
(***************************************************************************)
LEMMA RetireAttempt ==
  ASSUME NEW tm, NEW out, NEW waiting, Match(tm, out, waiting),
         NEW id \in DOMAIN out
  PROVE  Match(Without(tm, out[id].timer_id), Without(out, id), waiting)
<1>1. \A i \in DOMAIN out : i # id => out[i].timer_id # out[id].timer_id
  <2> SUFFICES ASSUME NEW i \in DOMAIN out, out[i].timer_id = out[id].timer_id
               PROVE  i = id
    OBVIOUS
  <2>1. [handler |-> "on_timeout", id |-> i] = [handler |-> "on_timeout", id |-> id]
    BY DEF Match
  <2> QED
    BY <2>1
<1>2. \A r \in DOMAIN waiting : waiting[r].timer_id # out[id].timer_id
  <2> SUFFICES ASSUME NEW r \in DOMAIN waiting, waiting[r].timer_id = out[id].timer_id
               PROVE  FALSE
    OBVIOUS
  <2>1. [handler |-> "on_timeout", id |-> id] = [handler |-> "on_retry_ready", id |-> r]
    BY DEF Match
  <2> QED
    BY <2>1
<1>3. \A t \in DOMAIN tm : t # out[id].timer_id /\ tm[t].handler = "on_timeout"
                             => tm[t].id # id
  BY DEF Match
<1> QED
  BY <1>1, <1>2, <1>3 DEF Match, Without

(***************************************************************************)
(* Retiring a waiting retry together with its timer.                       *)
(***************************************************************************)
LEMMA RetireRetry ==
  ASSUME NEW tm, NEW out, NEW waiting, Match(tm, out, waiting),
         NEW r \in DOMAIN waiting
  PROVE  Match(Without(tm, waiting[r].timer_id), out, Without(waiting, r))
<1>1. \A i \in DOMAIN waiting : i # r => waiting[i].timer_id # waiting[r].timer_id
  <2> SUFFICES ASSUME NEW i \in DOMAIN waiting, waiting[i].timer_id = waiting[r].timer_id
               PROVE  i = r
    OBVIOUS
  <2>1. [handler |-> "on_retry_ready", id |-> i] = [handler |-> "on_retry_ready", id |-> r]
    BY DEF Match
  <2> QED
    BY <2>1
<1>2. \A id \in DOMAIN out : out[id].timer_id # waiting[r].timer_id
  <2> SUFFICES ASSUME NEW id \in DOMAIN out, out[id].timer_id = waiting[r].timer_id
               PROVE  FALSE
    OBVIOUS
  <2>1. [handler |-> "on_timeout", id |-> id] = [handler |-> "on_retry_ready", id |-> r]
    BY DEF Match
  <2> QED
    BY <2>1
<1>3. \A t \in DOMAIN tm : t # waiting[r].timer_id /\ tm[t].handler = "on_retry_ready"
                             => tm[t].id # r
  BY DEF Match
<1> QED
  BY <1>1, <1>2, <1>3 DEF Match, Without

(***************************************************************************)
(* finish_attempt() keeps the correspondence.                              *)
(***************************************************************************)
LEMMA FinishMatches ==
  ASSUME NEW attempt, NEW state, NEW reason, NEW armed, NEW timer \in Nat \ {0}, NEW t,
         NEW out, Match(armed, out, deferred),
         DOMAIN armed \subseteq 1..(timer - 1),
         next_retry_id \in Nat \ {0}, DOMAIN deferred \subseteq 1..(next_retry_id - 1),
         finish_attempt(attempt, state, reason, armed, timer, t)
  PROVE  Match(timers', out, deferred')
<1> DEFINE work == CountNegative(attempt, state, reason)
<1> HIDE DEF work
<1>1. CASE timers' = armed /\ UNCHANGED deferred
  BY <1>1
<1>2. CASE defer_retry(work, armed, timer)
  <2> DEFINE entry == [work |-> [work EXCEPT !.retry_count = @ + 1], timer_id |-> timer]
  <2>1. /\ timers' = With(armed, timer, [handler |-> "on_retry_ready", id |-> next_retry_id])
        /\ deferred' = With(deferred, next_retry_id, entry)
    BY <1>2 DEF defer_retry
  <2>2. entry.timer_id = timer
    OBVIOUS
  <2> HIDE DEF entry
  <2>3. timer \notin DOMAIN armed /\ next_retry_id \notin DOMAIN deferred
    OBVIOUS
  <2> QED
    BY <2>1, <2>2, <2>3, ArmRetry
<1> QED
  BY <1>1, <1>2 DEF finish_attempt, work, publish, defer_retry_fails

-----------------------------------------------------------------------------
(* The steps.                                                              *)

(***************************************************************************)
(* receive(), called by the reactor while the scheduler is alive.          *)
(***************************************************************************)
LEMMA ReceiveCallbacks ==
  ASSUME TypeOK, CallbackInv, NEW id, NEW e, receive(id, e), UNCHANGED engine
  PROVE  CallbackInv'
<1>1. id \in DOMAIN pending
  BY DEF receive
<1>2. engine # "destroyed"
  BY <1>1 DEF CallbackInv, DestroyedIsEmpty
<1>3. DestroyedIsEmpty'
  BY <1>2 DEF DestroyedIsEmpty
<1>4. CASE complete_pending(id, e)
  <2> DEFINE armed == Without(timers, pending[id].timer_id)
             out == Without(pending, id)
  <2>1. Match(armed, out, deferred)
    BY <1>1, RetireAttempt DEF CallbackInv
  <2>2. DOMAIN armed \subseteq 1..(next_timer_id - 1)
    BY DEF Without, TypeOK
  <2>3. /\ pending' = out /\ inflight' = inflight \ {id}
        /\ finish_attempt(pending[id].work, e.state, e.reason, armed, next_timer_id, Responded)
    BY <1>4 DEF complete_pending
  <2>4. TransportMatchesPending'
    BY <2>3 DEF Without, TransportMatchesPending, CallbackInv
  <2> HIDE DEF armed, out
  <2>5. Match(timers', out, deferred')
    BY <2>1, <2>2, <2>3, FinishMatches DEF TypeOK
  <2> QED
    BY <1>3, <2>3, <2>4, <2>5 DEF CallbackInv
<1>5. CASE retain_candidate(id, e)
  <2> DEFINE entry == Retain(pending[id], e)
  <2>1. entry.timer_id = pending[id].timer_id
    <3>1. pending[id] \in Pending
      BY <1>1 DEF TypeOK
    <3> QED
      BY <3>1 DEF Retain, Pending
  <2>2. /\ pending' = [pending EXCEPT ![id] = entry]
        /\ UNCHANGED <<timers, deferred, inflight>>
    BY <1>5 DEF retain_candidate
  <2> HIDE DEF entry
  <2>3. /\ DOMAIN pending' = DOMAIN pending
        /\ \A i \in DOMAIN pending : pending'[i].timer_id = pending[i].timer_id
    BY <2>1, <2>2 DEF TypeOK
  <2> QED
    BY <1>3, <2>2, <2>3 DEF CallbackInv, Match, TransportMatchesPending
<1> QED
  BY <1>4, <1>5 DEF receive

(***************************************************************************)
(* The timers' callbacks.                                                  *)
(***************************************************************************)
LEMMA TimerCallbacks == TypeOK /\ CallbackInv /\ TimerFires => CallbackInv'
<1> SUFFICES ASSUME TypeOK, CallbackInv, NEW x \in DOMAIN timers,
                    on_timeout_fires(x) \/ on_retry_ready_fires(x)
             PROVE  CallbackInv'
  BY DEF TimerFires
<1> DEFINE id == timers[x].id
<1>1. DestroyedIsEmpty'
  BY DEF on_timeout_fires, on_retry_ready_fires, Dispatching, DestroyedIsEmpty
<1>2. CASE on_timeout_fires(x)
  <2>1. /\ id \in DOMAIN pending /\ timers[x].handler = "on_timeout"
        /\ pending' = Without(pending, id) /\ inflight' = inflight \ {id}
    BY <1>2 DEF on_timeout_fires
  <2>2. pending[id].timer_id = x
    BY <2>1 DEF CallbackInv, Match
  <2> DEFINE armed == Without(timers, x)
             out == Without(pending, id)
  <2>3. Match(armed, out, deferred)
    BY <2>1, <2>2, RetireAttempt DEF CallbackInv
  <2>4. DOMAIN armed \subseteq 1..(next_timer_id - 1)
    BY DEF Without, TypeOK
  <2>5. PICK work, state, reason, t :
          finish_attempt(work, state, reason, armed, next_timer_id, t)
    BY <1>2 DEF on_timeout_fires
  <2>6. TransportMatchesPending'
    BY <2>1 DEF Without, TransportMatchesPending, CallbackInv
  <2> HIDE DEF armed
  <2>7. Match(timers', out, deferred')
    BY <2>3, <2>4, <2>5, FinishMatches DEF TypeOK
  <2> QED
    BY <1>1, <2>1, <2>6, <2>7 DEF CallbackInv
<1>3. CASE on_retry_ready_fires(x)
  <2>1. /\ id \in DOMAIN deferred /\ timers[x].handler = "on_retry_ready"
        /\ timers' = Without(timers, x) /\ deferred' = Without(deferred, id)
        /\ UNCHANGED <<pending, inflight>>
    BY <1>3 DEF on_retry_ready_fires
  <2>2. deferred[id].timer_id = x
    BY <2>1 DEF CallbackInv, Match
  <2>3. Match(timers', pending, deferred')
    BY <2>1, <2>2, RetireRetry DEF CallbackInv
  <2> QED
    BY <1>1, <2>1, <2>3 DEF CallbackInv, TransportMatchesPending
<1> QED
  BY <1>2, <1>3

(***************************************************************************)
(* The iterations of pump().                                               *)
(***************************************************************************)
LEMMA PumpCallbacks == TypeOK /\ CallbackInv /\ Pump => CallbackInv'
<1> SUFFICES ASSUME TypeOK, CallbackInv, Pump PROVE CallbackInv'
  OBVIOUS
<1>1. ASSUME UNCHANGED <<timers, pending, deferred, inflight, engine>>,
             queue' = queue \/ PumpLoops
      PROVE  CallbackInv'
  BY <1>1 DEF CallbackInv, Match, TransportMatchesPending, DestroyedIsEmpty, PumpLoops
<1>2. CASE PumpReturns
  BY <1>1, <1>2 DEF PumpReturns
<1>3. ASSUME NEW s, PumpBuildFails(s) \/ PumpSubmitFails(s) \/ PumpTimerFails
      PROVE  CallbackInv'
  BY <1>1, <1>3 DEF PumpBuildFails, PumpSubmitFails, PumpTimerFails
<1>4. CASE PumpSubmits
  <2> DEFINE entry == NewPending(Head(queue))
  <2>1. entry.timer_id = next_timer_id
    BY DEF NewPending
  <2>2. /\ pending' = With(pending, next_id, entry)
        /\ timers' = With(timers, next_timer_id, [handler |-> "on_timeout", id |-> next_id])
        /\ inflight' = inflight \cup {next_id}
        /\ queue # <<>> /\ UNCHANGED <<deferred, engine>>
    BY <1>4 DEF PumpSubmits, PumpLoops
  <2> HIDE DEF entry
  <2>3. next_timer_id \notin DOMAIN timers /\ next_id \notin DOMAIN pending
    BY DEF TypeOK
  <2>4. Match(timers', pending', deferred')
    BY <2>1, <2>2, <2>3, ArmAttempt DEF CallbackInv
  <2>5. TransportMatchesPending'
    BY <2>2 DEF With, TransportMatchesPending, CallbackInv
  <2> QED
    BY <2>2, <2>4, <2>5 DEF CallbackInv, DestroyedIsEmpty
<1>5. ASSUME NEW e, PumpCompletesAtOnce(e) PROVE CallbackInv'
  <2> DEFINE timer == next_timer_id + 1
  <2>1. /\ finish_attempt(Head(queue), e.state, e.reason, timers, timer, Responded)
        /\ queue # <<>> /\ UNCHANGED <<pending, inflight, engine>>
    BY <1>5 DEF PumpCompletesAtOnce, PumpLoops
  <2>2. timer \in Nat \ {0} /\ DOMAIN timers \subseteq 1..(timer - 1)
    BY DEF TypeOK
  <2> HIDE DEF timer
  <2>3. Match(timers', pending, deferred')
    BY <2>1, <2>2, FinishMatches DEF CallbackInv, TypeOK
  <2> QED
    BY <2>1, <2>3 DEF CallbackInv, TransportMatchesPending, DestroyedIsEmpty
<1> QED
  BY <1>2, <1>3, <1>4, <1>5 DEF Pump, Observations

(***************************************************************************)
(* The destructor: what it cancels is all there is.                        *)
(***************************************************************************)
LEMMA DestroyCallbacks == CallbackInv /\ Destroy => CallbackInv'
<1> SUFFICES ASSUME CallbackInv, Destroy PROVE CallbackInv'
  OBVIOUS
<1>1. DOMAIN timers \subseteq OwnedTimers
  BY DEF CallbackInv, Match, OwnedTimers
<1>2. DOMAIN timers' = {}
  BY <1>1 DEF Destroy
<1>3. DOMAIN pending' = {} /\ DOMAIN deferred' = {} /\ queue' = <<>>
  BY DEF Destroy, EmptyMap
<1>4. inflight' = {}
  BY DEF Destroy, CallbackInv, TransportMatchesPending
<1> QED
  BY <1>2, <1>3, <1>4 DEF CallbackInv, Match, TransportMatchesPending, DestroyedIsEmpty

(***************************************************************************)
(* Every step.                                                             *)
(***************************************************************************)
LEMMA NextCallbacks == TypeOK /\ CallbackInv /\ [Next]_vars => CallbackInv'
<1> SUFFICES ASSUME TypeOK, CallbackInv, [Next]_vars PROVE CallbackInv'
  OBVIOUS
<1>1. ASSUME UNCHANGED <<timers, pending, deferred, inflight, queue>>,
             engine' = engine \/ engine' # "destroyed"
      PROVE  CallbackInv'
  BY <1>1 DEF CallbackInv, Match, TransportMatchesPending, DestroyedIsEmpty
<1>2. CASE Caller
  <2>1. ASSUME NEW s, SubmitRefused(s) PROVE CallbackInv'
    BY <1>1, <2>1 DEF SubmitRefused
  <2>2. ASSUME NEW invalid, NEW order, Submit(invalid, order) PROVE CallbackInv'
    BY <2>2 DEF Submit, CallbackInv, Match, TransportMatchesPending, DestroyedIsEmpty
  <2>3. CASE Run
    BY <1>1, <2>3 DEF Run, schedulerVars
  <2> QED
    BY <1>2, <2>1, <2>2, <2>3, DestroyCallbacks DEF Caller
<1>3. CASE Drain
  <2>1. ASSUME NEW id, DrainOne(id) PROVE CallbackInv'
    BY <2>1, ReceiveCallbacks DEF DrainOne
  <2>2. CASE DrainEnds
    BY <1>1, <2>2 DEF DrainEnds, schedulerVars
  <2> QED
    BY <1>3, <2>1, <2>2 DEF Drain
<1>4. CASE Transport
  <2>1. ASSUME NEW id, NEW e, Deliver(id, e) PROVE CallbackInv'
    BY <2>1, ReceiveCallbacks DEF Deliver
  <2>2. CASE CaptureFails
    BY <1>1, <2>2 DEF CaptureFails, schedulerVars
  <2> QED
    BY <1>4, <2>1, <2>2 DEF Transport, Observations
<1>5. CASE RunReturns \/ EngineFails
  BY <1>1, <1>5 DEF RunReturns, EngineFails, schedulerVars
<1>6. CASE Terminated \/ UNCHANGED vars
  BY <1>1, <1>6 DEF Terminated, vars, schedulerVars
<1> QED
  BY <1>2, <1>3, <1>4, <1>5, <1>6, PumpCallbacks, TimerCallbacks DEF Next

(***************************************************************************)
(* The inductive invariant holds of every reachable state.                 *)
(***************************************************************************)
LEMMA CallbacksConsistent == Spec => []CallbackInv
<1>1. Init => CallbackInv
  BY DEF Init, EmptyMap, CallbackInv, Match, TransportMatchesPending, DestroyedIsEmpty
<1>2. Spec => []TypeOK
  BY TypeCorrect
<1> QED
  BY <1>1, <1>2, NextCallbacks, PTL DEF Spec

(***************************************************************************)
(* Each attempt out has its armed deadline, each waiting retry its armed   *)
(* delay, and there is no other timer: no attempt can wait for ever, and   *)
(* no deadline can expire an attempt it was not armed for.                 *)
(***************************************************************************)
THEOREM TimersExact == Spec => []TimersMatchWork
<1>1. CallbackInv => TimersMatchWork
  BY DEF CallbackInv, Match, TimersMatchWork
<1> QED
  BY <1>1, CallbacksConsistent, PTL

(***************************************************************************)
(* The transport holds a callback for exactly the attempts that are out.   *)
(***************************************************************************)
THEOREM TransportExact == Spec => []TransportMatchesPending
<1>1. CallbackInv => TransportMatchesPending
  BY DEF CallbackInv
<1> QED
  BY <1>1, CallbacksConsistent, PTL

(***************************************************************************)
(* After ~PortScanScheduler() neither a timer nor a transport entry can    *)
(* call the scheduler, wherever run() was interrupted: the reactor and the *)
(* transport outlive it and serve the next stage.                          *)
(***************************************************************************)
THEOREM NothingDangles == Spec => []NoDanglingCallback
<1>1. CallbackInv => NoDanglingCallback
  BY DEF CallbackInv, Match, TransportMatchesPending, DestroyedIsEmpty, NoDanglingCallback
<1> QED
  BY <1>1, CallbacksConsistent, PTL

-----------------------------------------------------------------------------
(* The window.                                                             *)

(***************************************************************************)
(* No active pump() has a limit above the one it would compute now.  While *)
(* one is active only responses move the window, and they widen it; a      *)
(* timeout, which may narrow it, comes when no pump() is active.           *)
(***************************************************************************)
WindowInv == \A i \in DOMAIN frames : frames[i] <= PumpLimit(timing)

(***************************************************************************)
(* A nested pump() may be entered with a wider window, or the first one    *)
(* with any.                                                               *)
(***************************************************************************)
LEMMA FrameEntered ==
  ASSUME TypeOK, WindowInv, NEW t \in CongestionState, timing' = t,
         frames' = <<PumpLimit(t)>> \o frames,
         frames = <<>> \/ PumpLimit(timing) <= PumpLimit(t)
  PROVE  WindowInv'
<1> DEFINE n == PumpLimit(t)
           m == PumpLimit(timing)
           k == Len(frames)
<1>1. n \in Nat /\ m \in Nat
  BY PumpLimitType, SchedulerAssumption DEF TypeOK
<1>2. frames \in Seq(Nat) /\ k \in Nat /\ DOMAIN frames = 1..k
  BY DEF TypeOK
<1>3. \A i \in 1..k : frames[i] \in Nat /\ frames[i] <= m
  <2>1. \A i \in 1..k : frames[i] \in Nat
    BY <1>2
  <2>2. \A i \in DOMAIN frames : frames[i] <= m
    BY DEF WindowInv
  <2> QED
    BY <1>2, <2>1, <2>2
<1>4. frames = <<>> => k = 0
  OBVIOUS
<1> HIDE DEF n, m
<1>5. /\ DOMAIN (<<n>> \o frames) = 1..(k + 1) /\ (<<n>> \o frames)[1] = n
      /\ \A i \in 1..(k + 1) : i # 1 => (<<n>> \o frames)[i] = frames[i - 1]
  BY <1>1, <1>2
<1> HIDE DEF k
<1>6. ASSUME NEW i \in 1..(k + 1) PROVE (<<n>> \o frames)[i] <= n
  <2>1. CASE i = 1
    BY <1>1, <1>5, <2>1
  <2>2. CASE i # 1
    <3>1. i - 1 \in 1..k /\ k # 0
      BY <1>2, <2>2
    <3>2. m <= n
      BY <1>4, <3>1 DEF n, m
    <3>3. frames[i - 1] \in Nat /\ frames[i - 1] <= m
      BY <1>3, <3>1
    <3>4. (<<n>> \o frames)[i] = frames[i - 1]
      BY <1>5, <2>2
    <3>5. \A v \in Nat : v <= m => v <= n
      BY <1>1, <3>2
    <3> QED
      BY <3>3, <3>4, <3>5, Zenon
  <2> QED
    BY <2>1, <2>2
<1> QED
  BY <1>5, <1>6 DEF WindowInv, n

LEMMA FrameLeft ==
  ASSUME TypeOK, WindowInv, frames # <<>>, frames' = Tail(frames), timing' = timing
  PROVE  WindowInv'
<1>1. frames \in Seq(Nat) /\ DOMAIN frames = 1..Len(frames) /\ Len(frames) \in Nat \ {0}
  BY EmptySeq DEF TypeOK
<1>2. DOMAIN Tail(frames) = 1..(Len(frames) - 1)
  BY <1>1
<1>3. \A i \in 1..(Len(frames) - 1) : Tail(frames)[i] = frames[i + 1] /\ i + 1 \in 1..Len(frames)
  BY <1>1
<1> QED
  BY <1>1, <1>2, <1>3 DEF WindowInv

LEMMA RespondedWidens == timing \in CongestionState => PumpLimit(timing) <= PumpLimit(Responded)
<1> SUFFICES ASSUME timing \in CongestionState PROVE PumpLimit(timing) <= PumpLimit(Responded)
  OBVIOUS
<1>1. Responded \in CongestionState
  BY WindowType
<1>2. Responded.current_parallelism >= timing.current_parallelism
  <2>1. timing.current_parallelism \in Int
    BY CongestionAssumption DEF CongestionState
  <2> QED
    BY <2>1, ResponseWidens DEF Responded
<1>3. timing.current_parallelism \in Int /\ Responded.current_parallelism \in Int
  BY <1>1, CongestionAssumption DEF CongestionState
<1> QED
  BY <1>2, <1>3, SchedulerAssumption DEF PumpLimit

LEMMA NextWindow == TypeOK /\ WindowInv /\ [Next]_vars => WindowInv'
<1> SUFFICES ASSUME TypeOK, WindowInv, [Next]_vars PROVE WindowInv'
  OBVIOUS
<1>1. ASSUME UNCHANGED <<frames, timing>> PROVE WindowInv'
  BY <1>1 DEF WindowInv
<1>2. timing \in CongestionState /\ Responded \in CongestionState /\ TimedOut \in CongestionState
  BY WindowType DEF TypeOK
<1>3. ASSUME NEW id, NEW e, receive(id, e), frames = <<>> PROVE WindowInv'
  <2>1. CASE complete_pending(id, e)
    <3>1. timing' = Responded /\ frames' = <<PumpLimit(Responded)>> \o frames
      BY <2>1 DEF complete_pending, finish_attempt
    <3>2. PICK t \in CongestionState : t = Responded
      BY <1>2
    <3> QED
      BY <1>3, <3>1, <3>2, FrameEntered
  <2>2. CASE retain_candidate(id, e)
    BY <1>1, <2>2 DEF retain_candidate
  <2> QED
    BY <1>3, <2>1, <2>2 DEF receive
<1>4. CASE Caller
  <2>1. ASSUME NEW s, SubmitRefused(s) PROVE WindowInv'
    BY <1>1, <2>1 DEF SubmitRefused
  <2>2. ASSUME NEW invalid, NEW order, Submit(invalid, order) PROVE WindowInv'
    <3>1. timing' = timing /\ (frames' = frames \/ frames' = <<PumpLimit(timing)>>)
      BY <2>2 DEF Submit
    <3>2. CASE frames' = <<PumpLimit(timing)>>
      <4>1. PumpLimit(timing) \in Nat
        BY <1>2, PumpLimitType, SchedulerAssumption
      <4>2. PumpLimit(timing') = PumpLimit(timing)
        BY <3>1
      <4>3. \A i \in DOMAIN frames' : frames'[i] = PumpLimit(timing)
        BY <3>2
      <4> QED
        BY <4>1, <4>2, <4>3 DEF WindowInv
    <3> QED
      BY <1>1, <3>1, <3>2
  <2>3. CASE Run \/ Destroy
    BY <1>1, <2>3 DEF Run, Destroy, schedulerVars
  <2> QED
    BY <1>4, <2>1, <2>2, <2>3 DEF Caller
<1>5. CASE Pump
  <2>1. ASSUME NEW s, PumpReturns \/ PumpTimerFails \/ PumpSubmitFails(s) PROVE WindowInv'
    BY <2>1, FrameLeft DEF PumpReturns, PumpTimerFails, PumpSubmitFails, PumpLoops
  <2>2. ASSUME NEW s, PumpBuildFails(s) \/ PumpSubmits PROVE WindowInv'
    BY <1>1, <2>2 DEF PumpBuildFails, PumpSubmits
  <2>3. ASSUME NEW e, PumpCompletesAtOnce(e) PROVE WindowInv'
    <3>1. timing' = Responded /\ frames' = <<PumpLimit(Responded)>> \o frames
      BY <2>3 DEF PumpCompletesAtOnce, finish_attempt
    <3>2. PumpLimit(timing) <= PumpLimit(Responded)
      BY <1>2, RespondedWidens
    <3>3. PICK t \in CongestionState : t = Responded
      BY <1>2
    <3> QED
      BY <3>1, <3>2, <3>3, FrameEntered
  <2> QED
    BY <1>5, <2>1, <2>2, <2>3 DEF Pump
<1>6. CASE TimerFires
  <2>1. ASSUME NEW x, on_timeout_fires(x) PROVE WindowInv'
    <3>1. frames = <<>> /\ \E t \in {TimedOut, Responded} :
            timing' = t /\ frames' = <<PumpLimit(t)>> \o frames
      BY <2>1 DEF on_timeout_fires, finish_attempt, Dispatching
    <3>2. PICK t \in CongestionState : timing' = t /\ frames' = <<PumpLimit(t)>> \o frames
      BY <1>2, <3>1
    <3> QED
      BY <3>1, <3>2, FrameEntered
  <2>2. ASSUME NEW x, on_retry_ready_fires(x) PROVE WindowInv'
    <3>1. frames = <<>> /\ timing' = timing /\ frames' = <<PumpLimit(timing)>> \o frames
      BY <2>2 DEF on_retry_ready_fires, Dispatching
    <3>2. PICK t \in CongestionState : t = timing
      BY <1>2
    <3> QED
      BY <3>1, <3>2, FrameEntered
  <2> QED
    BY <1>6, <2>1, <2>2 DEF TimerFires
<1>7. CASE Drain
  BY <1>1, <1>3, <1>7 DEF Drain, DrainOne, DrainEnds, schedulerVars
<1>8. CASE Transport
  BY <1>1, <1>3, <1>8 DEF Transport, Deliver, CaptureFails, Dispatching, schedulerVars
<1>9. CASE RunReturns \/ EngineFails
  BY <1>1, <1>9 DEF RunReturns, EngineFails, schedulerVars
<1>10. CASE Terminated \/ UNCHANGED vars
  BY <1>1, <1>10 DEF Terminated, vars, schedulerVars
<1> QED
  BY <1>4, <1>5, <1>6, <1>7, <1>8, <1>9, <1>10 DEF Next

(***************************************************************************)
(* Only transport.submit() in pump() adds an attempt.                      *)
(***************************************************************************)
LEMMA OnlyPumpSends == [Next]_vars /\ ~PumpSubmits => DOMAIN pending' \subseteq DOMAIN pending
<1> SUFFICES ASSUME [Next]_vars, ~PumpSubmits PROVE DOMAIN pending' \subseteq DOMAIN pending
  OBVIOUS
<1>1. \A id : DOMAIN Without(pending, id) \subseteq DOMAIN pending
  BY DEF Without
<1>2. ASSUME NEW id, NEW e, receive(id, e) PROVE DOMAIN pending' \subseteq DOMAIN pending
  BY <1>1, <1>2 DEF receive, complete_pending, retain_candidate
<1>3. CASE Caller
  BY <1>3 DEF Caller, SubmitRefused, Submit, Run, Destroy, schedulerVars, EmptyMap
<1>4. CASE Pump
  BY <1>4 DEF Pump, PumpReturns, PumpBuildFails, PumpTimerFails, PumpSubmitFails,
     PumpCompletesAtOnce
<1>5. CASE Drain
  BY <1>2, <1>5 DEF Drain, DrainOne, DrainEnds, schedulerVars
<1>6. CASE TimerFires
  BY <1>1, <1>6 DEF TimerFires, on_timeout_fires, on_retry_ready_fires
<1>7. CASE Transport
  BY <1>2, <1>7 DEF Transport, Deliver, CaptureFails, schedulerVars
<1>8. CASE RunReturns \/ EngineFails
  BY <1>8 DEF RunReturns, EngineFails, schedulerVars
<1>9. CASE Terminated \/ UNCHANGED vars
  BY <1>9 DEF Terminated, vars, schedulerVars
<1> QED
  BY <1>3, <1>4, <1>5, <1>6, <1>7, <1>8, <1>9 DEF Next

(***************************************************************************)
(* pump() never sends beyond max_outstanding, nor beyond the congestion    *)
(* window as it is when the probe goes out, although the limit of an outer *)
(* pump() dates from before the completions nested in it.                  *)
(***************************************************************************)
THEOREM WindowRespected == Spec => SendsWithinWindow
<1> DEFINE Within == ~(DOMAIN pending' \subseteq DOMAIN pending) =>
             /\ Cardinality(DOMAIN pending') <= MaxOutstanding
             /\ Adaptive => Cardinality(DOMAIN pending') <= timing'.current_parallelism
<1>1. Init => WindowInv
  BY DEF Init, WindowInv
<1>2. Spec => []TypeOK
  BY TypeCorrect
<1>3. Spec => []WindowInv
  BY <1>1, <1>2, NextWindow, PTL DEF Spec
<1>4. ASSUME TypeOK, WindowInv, [Next]_vars PROVE Within
  <2>1. CASE PumpSubmits
    <3> DEFINE c == Cardinality(DOMAIN pending)
               n == PumpLimit(timing)
    <3>1. /\ frames # <<>> /\ c < Head(frames) /\ timing' = timing
          /\ DOMAIN pending' = DOMAIN pending \cup {next_id}
      BY <2>1 DEF PumpSubmits, PumpLoops, With
    <3>2. Head(frames) \in Nat /\ Head(frames) <= n
      <4>1. frames \in Seq(Nat) /\ 1 \in DOMAIN frames /\ Head(frames) = frames[1]
        BY <1>4, <3>1 DEF TypeOK
      <4>2. frames[1] <= n
        BY <1>4, <4>1 DEF WindowInv
      <4> QED
        BY <4>1, <4>2
    <3>3. n \in Nat /\ n <= MaxOutstanding /\ (Adaptive => n <= timing.current_parallelism)
      <4>1. timing \in CongestionState
        BY <1>4 DEF TypeOK
      <4>2. timing.current_parallelism \in Nat
        BY <4>1, CongestionAssumption DEF CongestionState
      <4> QED
        BY <4>2, SchedulerAssumption DEF PumpLimit
    <3>4. IsFiniteSet(DOMAIN pending)
      <4>1. DOMAIN pending \subseteq 1..(next_id - 1) /\ next_id \in Nat \ {0}
        BY <1>4 DEF TypeOK
      <4>2. IsFiniteSet(1..(next_id - 1))
        BY <4>1, FS_Interval
      <4> QED
        BY <4>1, <4>2, FS_Subset
    <3>5. c \in Nat /\ Cardinality(DOMAIN pending') \in Nat /\ Cardinality(DOMAIN pending') <= c + 1
      <4>1. c \in Nat
        BY <3>4, FS_CardinalityType
      <4>2. IsFiniteSet(DOMAIN pending \cup {next_id})
            /\ (Cardinality(DOMAIN pending \cup {next_id}) = c
                \/ Cardinality(DOMAIN pending \cup {next_id}) = c + 1)
        BY <3>4, FS_AddElement
      <4> HIDE DEF c
      <4> QED
        BY <3>1, <4>1, <4>2
    <3> HIDE DEF c, n
    <3>6. Cardinality(DOMAIN pending') <= n
      BY <3>1, <3>2, <3>3, <3>5
    <3>7. Cardinality(DOMAIN pending') <= MaxOutstanding
      BY <3>3, <3>5, <3>6, SchedulerAssumption
    <3>8. ASSUME Adaptive PROVE Cardinality(DOMAIN pending') <= timing.current_parallelism
      <4>1. timing.current_parallelism \in Nat
        BY <1>4, CongestionAssumption DEF TypeOK, CongestionState
      <4> QED
        BY <3>3, <3>5, <3>6, <3>8, <4>1
    <3> QED
      BY <3>1, <3>7, <3>8
  <2>2. CASE ~PumpSubmits
    BY <1>4, <2>2, OnlyPumpSends
  <2> QED
    BY <2>1, <2>2
<1>5. TypeOK /\ WindowInv /\ [Next]_vars => [Within]_vars
  BY <1>4
<1> QED
  BY <1>2, <1>3, <1>5, PTL DEF Spec, SendsWithinWindow

-----------------------------------------------------------------------------
(* Places, of any queue, maps and results.                                 *)

InSeq(q, p) == \E i \in DOMAIN q : q[i].pair = p
InMap(m, p) == \E id \in DOMAIN m : m[id].work.pair = p

DistinctSeq(q) == \A i, j \in DOMAIN q : q[i].pair = q[j].pair => i = j
DistinctMap(m) == \A i, j \in DOMAIN m : m[i].work.pair = m[j].work.pair => i = j

(***************************************************************************)
(* Every pair is in at most one place.                                     *)
(***************************************************************************)
AtMostOnce(q, out, waiting, res) ==
  /\ DistinctSeq(q) /\ DistinctMap(out) /\ DistinctMap(waiting)
  /\ \A p \in Work : /\ InSeq(q, p) => ~InMap(out, p) /\ ~InMap(waiting, p) /\ res[p] = <<>>
                     /\ InMap(out, p) => ~InMap(waiting, p) /\ res[p] = <<>>
                     /\ InMap(waiting, p) => res[p] = <<>>
                     /\ Len(res[p]) <= 1

Nowhere(q, out, waiting, res, p) ==
  ~InSeq(q, p) /\ ~InMap(out, p) /\ ~InMap(waiting, p) /\ res[p] = <<>>

(***************************************************************************)
(* Every pair outside gap is in some place.                                *)
(***************************************************************************)
Covered(q, out, waiting, res, gap) ==
  \A p \in Work \ gap : InSeq(q, p) \/ InMap(out, p) \/ InMap(waiting, p) \/ res[p] # <<>>

(***************************************************************************)
(* Every pair is in exactly one place, except that a handler holds the one *)
(* in gap in its hands.                                                    *)
(***************************************************************************)
Placed(q, out, waiting, res, gap) ==
  /\ AtMostOnce(q, out, waiting, res)
  /\ Covered(q, out, waiting, res, gap)
  /\ \A p \in gap : Nowhere(q, out, waiting, res, p)

(***************************************************************************)
(* Taking the head off a queue.                                            *)
(***************************************************************************)
LEMMA TailPlaces ==
  ASSUME NEW q \in Seq(WorkItem), q # <<>>, DistinctSeq(q)
  PROVE  /\ DistinctSeq(Tail(q)) /\ ~InSeq(Tail(q), Head(q).pair) /\ InSeq(q, Head(q).pair)
         /\ \A p : InSeq(q, p) <=> p = Head(q).pair \/ InSeq(Tail(q), p)
<1>1. /\ Len(q) \in Nat \ {0} /\ DOMAIN q = 1..Len(q) /\ Head(q) = q[1]
      /\ DOMAIN Tail(q) = 1..(Len(q) - 1)
      /\ \A i \in 1..(Len(q) - 1) : Tail(q)[i] = q[i + 1]
  <2>1. Len(q) \in Nat \ {0} /\ DOMAIN q = 1..Len(q)
    BY EmptySeq
  <2>2. Head(q) = q[1]
    BY HeadTailProperties, SMT
  <2>3. Tail(q) \in Seq(WorkItem) /\ Len(Tail(q)) = Len(q) - 1
    BY HeadTailProperties
  <2>4. \A i \in 1..(Len(q) - 1) : Tail(q)[i] = q[i + 1]
    BY <2>1, SMT
  <2> QED
    BY <2>1, <2>2, <2>3, <2>4
<1> DEFINE n == Len(q)
           r == Tail(q)
<1>2. \A i \in 1..(n - 1) : i + 1 \in 1..n /\ i + 1 # 1
  BY <1>1
<1>3. \A i \in 1..n : i = 1 \/ (i - 1 \in 1..(n - 1) /\ (i - 1) + 1 = i)
  BY <1>1
<1> HIDE DEF n, r
<1>4. /\ n \in Nat \ {0} /\ DOMAIN q = 1..n /\ Head(q) = q[1] /\ DOMAIN r = 1..(n - 1)
      /\ \A i \in 1..(n - 1) : r[i] = q[i + 1]
  BY <1>1 DEF n, r
<1>5. DistinctSeq(r)
  <2> SUFFICES ASSUME NEW i \in 1..(n - 1), NEW j \in 1..(n - 1), r[i].pair = r[j].pair
               PROVE  i = j
    BY <1>4 DEF DistinctSeq
  <2>1. q[i + 1].pair = q[j + 1].pair
    BY <1>4
  <2>2. i + 1 = j + 1
    BY <1>2, <1>4, <2>1 DEF DistinctSeq
  <2> QED
    BY <1>4, <2>2
<1>6. ~InSeq(r, Head(q).pair)
  BY <1>2, <1>4 DEF DistinctSeq, InSeq
<1>7. InSeq(q, Head(q).pair)
  BY <1>4 DEF InSeq
<1>8. ASSUME NEW p PROVE InSeq(q, p) <=> p = Head(q).pair \/ InSeq(r, p)
  <2>1. ASSUME NEW i \in 1..n, q[i].pair = p PROVE p = Head(q).pair \/ InSeq(r, p)
    <3>1. CASE i = 1
      BY <1>4, <2>1, <3>1
    <3>2. CASE i # 1
      <4>1. i - 1 \in DOMAIN r /\ r[i - 1] = q[i]
        BY <1>3, <1>4, <3>2
      <4> QED
        BY <2>1, <4>1 DEF InSeq
    <3> QED
      BY <3>1, <3>2
  <2>2. ASSUME NEW i \in 1..(n - 1), r[i].pair = p PROVE InSeq(q, p)
    BY <1>2, <1>4, <2>2 DEF InSeq
  <2> QED
    BY <1>4, <1>7, <2>1, <2>2 DEF InSeq
<1> QED
  BY <1>5, <1>6, <1>7, <1>8 DEF r

(***************************************************************************)
(* Putting a work item in front of a queue.                                *)
(***************************************************************************)
LEMMA ConsPlaces ==
  ASSUME NEW q \in Seq(WorkItem), NEW w \in WorkItem, DistinctSeq(q), ~InSeq(q, w.pair)
  PROVE  /\ DistinctSeq(<<w>> \o q)
         /\ \A p : InSeq(<<w>> \o q, p) <=> p = w.pair \/ InSeq(q, p)
<1> DEFINE r == <<w>> \o q
           n == Len(q)
<1>1. /\ n \in Nat /\ DOMAIN q = 1..n /\ DOMAIN r = 1..(n + 1)
      /\ r[1] = w /\ \A i \in 1..n : r[i + 1] = q[i]
  OBVIOUS
<1>2. \A i \in 1..n : i + 1 \in 1..(n + 1)
  BY <1>1
<1>3. \A i \in 1..(n + 1) : i = 1 \/ (i - 1 \in 1..n /\ (i - 1) + 1 = i)
  BY <1>1
<1> HIDE DEF n, r
<1>4. \A i \in DOMAIN r : \/ i = 1 /\ r[i] = w
                          \/ i - 1 \in DOMAIN q /\ r[i] = q[i - 1]
  BY <1>1, <1>3
<1>5. DistinctSeq(r)
  <2> SUFFICES ASSUME NEW i \in DOMAIN r, NEW j \in DOMAIN r, r[i].pair = r[j].pair
               PROVE  i = j
    BY DEF DistinctSeq
  <2>1. CASE i = 1 \/ j = 1
    BY <1>4, <2>1 DEF InSeq
  <2>2. CASE i # 1 /\ j # 1
    <3>1. i - 1 = j - 1
      BY <1>4, <2>2 DEF DistinctSeq
    <3> QED
      BY <1>1, <3>1
  <2> QED
    BY <2>1, <2>2
<1>6. ASSUME NEW p PROVE InSeq(r, p) <=> p = w.pair \/ InSeq(q, p)
  <2>1. InSeq(r, p) => p = w.pair \/ InSeq(q, p)
    BY <1>4 DEF InSeq
  <2>2. p = w.pair => InSeq(r, p)
    BY <1>1 DEF InSeq
  <2>3. InSeq(q, p) => InSeq(r, p)
    BY <1>1, <1>2 DEF InSeq
  <2> QED
    BY <2>1, <2>2, <2>3
<1> QED
  BY <1>5, <1>6 DEF r

(***************************************************************************)
(* Erasing an entry of a map.                                              *)
(***************************************************************************)
LEMMA WithoutPlaces ==
  ASSUME NEW m, NEW id \in DOMAIN m, DistinctMap(m)
  PROVE  /\ DistinctMap(Without(m, id)) /\ ~InMap(Without(m, id), m[id].work.pair)
         /\ \A p : InMap(m, p) <=> p = m[id].work.pair \/ InMap(Without(m, id), p)
BY DEF DistinctMap, InMap, Without

(***************************************************************************)
(* Inserting an entry into a map.                                          *)
(***************************************************************************)
LEMMA WithPlaces ==
  ASSUME NEW m, NEW id, id \notin DOMAIN m, NEW v, DistinctMap(m), ~InMap(m, v.work.pair)
  PROVE  /\ DistinctMap(With(m, id, v))
         /\ \A p : InMap(With(m, id, v), p) <=> p = v.work.pair \/ InMap(m, p)
BY DEF DistinctMap, InMap, With

-----------------------------------------------------------------------------
(* A handler takes a pair from its place, and puts it into another.        *)

(***************************************************************************)
(* pump() takes the pair at the head of the queue.                         *)
(***************************************************************************)
LEMMA TakeHead ==
  ASSUME NEW q \in Seq(WorkItem), q # <<>>, NEW out, NEW waiting, NEW res,
         Placed(q, out, waiting, res, {})
  PROVE  Placed(Tail(q), out, waiting, res, {Head(q).pair})
<1> DEFINE r == Tail(q)
           w == Head(q)
<1>1. w.pair \in Work
  <2>1. w \in WorkItem
    BY HeadTailProperties
  <2> QED
    BY <2>1 DEF WorkItem
<1>2. /\ DistinctSeq(r) /\ ~InSeq(r, w.pair) /\ InSeq(q, w.pair)
      /\ \A p : InSeq(q, p) <=> p = w.pair \/ InSeq(r, p)
  BY TailPlaces DEF Placed, AtMostOnce
<1> HIDE DEF r, w
<1>3. AtMostOnce(r, out, waiting, res)
  BY <1>2 DEF Placed, AtMostOnce
<1>4. Covered(r, out, waiting, res, {w.pair})
  BY <1>2 DEF Placed, Covered
<1>5. Nowhere(r, out, waiting, res, w.pair)
  BY <1>1, <1>2 DEF Placed, AtMostOnce, Nowhere
<1> QED
  BY <1>3, <1>4, <1>5 DEF Placed, r, w

(***************************************************************************)
(* A pair whose attempt is over is taken out of pending_.                  *)
(***************************************************************************)
LEMMA TakeOut ==
  ASSUME NEW q, NEW out, NEW waiting, NEW res, NEW id \in DOMAIN out,
         out[id].work.pair \in Work, Placed(q, out, waiting, res, {})
  PROVE  Placed(q, Without(out, id), waiting, res, {out[id].work.pair})
<1> DEFINE r == Without(out, id)
           x == out[id].work.pair
<1>1. /\ DistinctMap(r) /\ ~InMap(r, x) /\ \A p : InMap(out, p) <=> p = x \/ InMap(r, p)
  BY WithoutPlaces DEF Placed, AtMostOnce
<1>2. x \in Work
  OBVIOUS
<1> HIDE DEF r, x
<1>3. AtMostOnce(q, r, waiting, res)
  BY <1>1 DEF Placed, AtMostOnce
<1>4. Covered(q, r, waiting, res, {x})
  BY <1>1 DEF Placed, Covered
<1>5. Nowhere(q, r, waiting, res, x)
  BY <1>1, <1>2 DEF Placed, AtMostOnce, Nowhere
<1> QED
  BY <1>3, <1>4, <1>5 DEF Placed, r, x

(***************************************************************************)
(* on_retry_ready() takes a pair out of deferred_retries_.                 *)
(***************************************************************************)
LEMMA TakeWaiting ==
  ASSUME NEW q, NEW out, NEW waiting, NEW res, NEW id \in DOMAIN waiting,
         waiting[id].work.pair \in Work, Placed(q, out, waiting, res, {})
  PROVE  Placed(q, out, Without(waiting, id), res, {waiting[id].work.pair})
<1> DEFINE r == Without(waiting, id)
           x == waiting[id].work.pair
<1>1. /\ DistinctMap(r) /\ ~InMap(r, x) /\ \A p : InMap(waiting, p) <=> p = x \/ InMap(r, p)
  BY WithoutPlaces DEF Placed, AtMostOnce
<1>2. x \in Work
  OBVIOUS
<1> HIDE DEF r, x
<1>3. AtMostOnce(q, out, r, res)
  BY <1>1 DEF Placed, AtMostOnce
<1>4. Covered(q, out, r, res, {x})
  BY <1>1 DEF Placed, Covered
<1>5. Nowhere(q, out, r, res, x)
  BY <1>1, <1>2 DEF Placed, AtMostOnce, Nowhere
<1> QED
  BY <1>3, <1>4, <1>5 DEF Placed, r, x

(***************************************************************************)
(* A pair goes to the front of the queue.                                  *)
(***************************************************************************)
LEMMA PutFront ==
  ASSUME NEW q \in Seq(WorkItem), NEW w \in WorkItem, NEW out, NEW waiting, NEW res,
         Placed(q, out, waiting, res, {w.pair})
  PROVE  Placed(<<w>> \o q, out, waiting, res, {})
<1> DEFINE r == <<w>> \o q
<1>1. Nowhere(q, out, waiting, res, w.pair)
  BY DEF Placed
<1>2. DistinctSeq(r) /\ \A p : InSeq(r, p) <=> p = w.pair \/ InSeq(q, p)
  BY <1>1, ConsPlaces DEF Placed, AtMostOnce, Nowhere
<1> HIDE DEF r
<1>3. AtMostOnce(r, out, waiting, res)
  BY <1>1, <1>2 DEF Placed, AtMostOnce, Nowhere
<1>4. Covered(r, out, waiting, res, {})
  BY <1>2 DEF Placed, Covered
<1> QED
  BY <1>3, <1>4 DEF Placed, r

(***************************************************************************)
(* A pair goes out.                                                        *)
(***************************************************************************)
LEMMA PutOut ==
  ASSUME NEW q, NEW out, NEW waiting, NEW res, NEW id, id \notin DOMAIN out, NEW v,
         Placed(q, out, waiting, res, {v.work.pair})
  PROVE  Placed(q, With(out, id, v), waiting, res, {})
<1> DEFINE r == With(out, id, v)
<1>1. Nowhere(q, out, waiting, res, v.work.pair)
  BY DEF Placed
<1>2. DistinctMap(r) /\ \A p : InMap(r, p) <=> p = v.work.pair \/ InMap(out, p)
  BY <1>1, WithPlaces DEF Placed, AtMostOnce, Nowhere
<1> HIDE DEF r
<1>3. AtMostOnce(q, r, waiting, res)
  BY <1>1, <1>2 DEF Placed, AtMostOnce, Nowhere
<1>4. Covered(q, r, waiting, res, {})
  BY <1>2 DEF Placed, Covered
<1> QED
  BY <1>3, <1>4 DEF Placed, r

(***************************************************************************)
(* A pair waits for a retry.                                               *)
(***************************************************************************)
LEMMA PutWaiting ==
  ASSUME NEW q, NEW out, NEW waiting, NEW res, NEW id, id \notin DOMAIN waiting, NEW v,
         Placed(q, out, waiting, res, {v.work.pair})
  PROVE  Placed(q, out, With(waiting, id, v), res, {})
<1> DEFINE r == With(waiting, id, v)
<1>1. Nowhere(q, out, waiting, res, v.work.pair)
  BY DEF Placed
<1>2. DistinctMap(r) /\ \A p : InMap(r, p) <=> p = v.work.pair \/ InMap(waiting, p)
  BY <1>1, WithPlaces DEF Placed, AtMostOnce, Nowhere
<1> HIDE DEF r
<1>3. AtMostOnce(q, out, r, res)
  BY <1>1, <1>2 DEF Placed, AtMostOnce, Nowhere
<1>4. Covered(q, out, r, res, {})
  BY <1>2 DEF Placed, Covered
<1> QED
  BY <1>3, <1>4 DEF Placed, r

(***************************************************************************)
(* append_terminal_result(): a pair gets its first and only result.        *)
(***************************************************************************)
LEMMA PutResult ==
  ASSUME results \in [Work -> Seq(Result)], NEW work, work.pair \in Work,
         NEW state \in PortState, NEW reason \in ScanReason,
         work.retry_count \in Nat, append_terminal_result(work, state, reason),
         NEW q, NEW out, NEW waiting,
         Placed(q, out, waiting, results, {work.pair})
  PROVE  /\ Placed(q, out, waiting, results', {})
         /\ results[work.pair] = <<>> /\ results'[work.pair] # <<>>
         /\ results'[work.pair][1].state = state
         /\ \A p \in Work : p # work.pair => results'[p] = results[p]
<1> DEFINE x == work.pair
           e == [state |-> state, reason |-> reason, retry_count |-> work.retry_count]
<1>1. Nowhere(q, out, waiting, results, x)
  BY DEF Placed
<1>2. e \in Result /\ e.state = state /\ x \in Work
  BY DEF Result
<1>3. results' = [results EXCEPT ![x] = Append(@, e)]
  BY DEF append_terminal_result
<1> HIDE DEF e
<1>4. results[x] = <<>>
  BY <1>1 DEF Nowhere
<1>5. Append(<<>>, e) # <<>> /\ Len(Append(<<>>, e)) = 1 /\ Append(<<>>, e)[1] = e
  OBVIOUS
<1>6. /\ results'[x] # <<>> /\ Len(results'[x]) <= 1 /\ results'[x][1].state = state
      /\ \A p \in Work : p # x => results'[p] = results[p]
  BY <1>2, <1>3, <1>4, <1>5
<1> HIDE DEF x
<1>7. AtMostOnce(q, out, waiting, results')
  BY <1>1, <1>2, <1>6 DEF Placed, AtMostOnce, Nowhere, x
<1>8. Covered(q, out, waiting, results', {})
  BY <1>6 DEF Placed, Covered, x
<1> QED
  BY <1>4, <1>6, <1>7, <1>8 DEF Placed, x

-----------------------------------------------------------------------------
(* The steps.                                                              *)

(***************************************************************************)
(* One pair without a result gets its first one.                           *)
(***************************************************************************)
Decides ==
  \E p \in Work : /\ results[p] = <<>> /\ results'[p] # <<>>
                  /\ results'[p][1].state \in PortState
                  /\ \A o \in Work \ {p} : results'[o] = results[o]

(***************************************************************************)
(* Places, what has been handed out, and what a scheduler looks like       *)
(* before its submission.                                                  *)
(***************************************************************************)
PlacementInv ==
  /\ AtMostOnce(queue, pending, deferred, results)
  /\ Accepted /\ engine # "destroyed" => Covered(queue, pending, deferred, results, {})
  /\ next_id = 1 => DOMAIN deferred = {}
  /\ ~submitted => queue = <<>> /\ next_id = 1 /\ \A p \in Work : results[p] = <<>>

Active == queue # <<>> \/ DOMAIN pending # {} \/ DOMAIN deferred # {}

(***************************************************************************)
(* While there is work, every pair is in exactly one place.                *)
(***************************************************************************)
LEMMA ActivePlaced ==
  ASSUME TypeOK, CallbackInv, PlacementInv, Active
  PROVE  /\ Placed(queue, pending, deferred, results, {})
         /\ submitted /\ engine # "destroyed" /\ (queue = <<>> => next_id > 1)
<1>1. engine # "destroyed"
  BY DEF Active, CallbackInv, DestroyedIsEmpty
<1>2. queue # <<>> \/ next_id > 1
  BY DEF Active, TypeOK, PlacementInv
<1>3. submitted
  BY <1>2 DEF PlacementInv
<1> QED
  BY <1>1, <1>2, <1>3 DEF PlacementInv, Accepted, Placed

(***************************************************************************)
(* A handler that leaves every pair in one place keeps the invariant.      *)
(***************************************************************************)
LEMMA Settled ==
  ASSUME Placed(queue', pending', deferred', results', {}), submitted', next_id' > 1
  PROVE  PlacementInv'
BY DEF Placed, PlacementInv

(***************************************************************************)
(* finish_attempt() publishes the pair in its hands or lets it wait.       *)
(***************************************************************************)
LEMMA FinishPlaces ==
  ASSUME results \in [Work -> Seq(Result)],
         next_retry_id \in Nat \ {0}, DOMAIN deferred \subseteq 1..(next_retry_id - 1),
         NEW attempt \in WorkItem, NEW state \in PortState, NEW reason \in ScanReason,
         NEW armed, NEW timer, NEW t, NEW q, NEW out,
         Placed(q, out, deferred, results, {attempt.pair}),
         finish_attempt(attempt, state, reason, armed, timer, t)
  PROVE  /\ Placed(q, out, deferred', results', {})
         /\ results' = results \/ Decides
<1> DEFINE work == CountNegative(attempt, state, reason)
<1>1. /\ work \in WorkItem /\ work.pair = attempt.pair
      /\ work.pair \in Work /\ work.retry_count \in Nat
  <2>1. work \in WorkItem /\ work.pair = attempt.pair
    BY CountNegativeType
  <2> HIDE DEF work
  <2> QED
    BY <2>1 DEF WorkItem
<1> HIDE DEF work
<1>2. ASSUME NEW s \in PortState, NEW r \in ScanReason, append_terminal_result(work, s, r),
             UNCHANGED deferred
      PROVE  Placed(q, out, deferred', results', {}) /\ Decides
  <2>1. Placed(q, out, deferred, results, {work.pair})
    BY <1>1
  <2>2. /\ Placed(q, out, deferred, results', {})
        /\ results[work.pair] = <<>> /\ results'[work.pair] # <<>>
        /\ results'[work.pair][1].state = s
        /\ \A p \in Work : p # work.pair => results'[p] = results[p]
    BY <1>1, <1>2, <2>1, PutResult
  <2>3. Decides
    BY <1>1, <2>2 DEF Decides
  <2> QED
    BY <1>2, <2>2, <2>3
<1>3. ASSUME defer_retry(work, armed, timer)
      PROVE  Placed(q, out, deferred', results', {}) /\ results' = results
  <2> DEFINE retry == [work EXCEPT !.retry_count = @ + 1]
             v == [work |-> retry, timer_id |-> timer]
  <2>1. v.work.pair = attempt.pair
    BY <1>1 DEF WorkItem
  <2>2. deferred' = With(deferred, next_retry_id, v) /\ results' = results
    BY <1>3 DEF defer_retry
  <2>3. next_retry_id \notin DOMAIN deferred
    OBVIOUS
  <2> HIDE DEF v
  <2>4. Placed(q, out, deferred, results, {v.work.pair})
    BY <2>1
  <2>5. Placed(q, out, With(deferred, next_retry_id, v), results, {})
    BY <2>3, <2>4, PutWaiting
  <2> QED
    BY <2>2, <2>5
<1>4. {"Unknown", "Error"} \subseteq PortState
      /\ {"ConflictingEvidence", "InternalError"} \subseteq ScanReason
  BY DEF PortState, ScanReason
<1>5. ASSUME NEW s \in PortState, NEW r \in ScanReason, publish(work, s, r, armed, timer)
      PROVE  Placed(q, out, deferred', results', {}) /\ Decides
  BY <1>2, <1>5 DEF publish
<1>6. ASSUME defer_retry_fails(work, armed, timer)
      PROVE  Placed(q, out, deferred', results', {}) /\ Decides
  BY <1>2, <1>4, <1>6 DEF defer_retry_fails
<1> QED
  BY <1>3, <1>4, <1>5, <1>6 DEF finish_attempt, work

(***************************************************************************)
(* An attempt that is out is over.                                         *)
(***************************************************************************)
LEMMA RetirePlaces ==
  ASSUME TypeOK, CallbackInv, PlacementInv, NEW id \in DOMAIN pending,
         NEW state \in PortState, NEW reason \in ScanReason,
         NEW armed, NEW timer, NEW t,
         pending' = Without(pending, id), UNCHANGED <<queue, submitted, next_id>>,
         finish_attempt(pending[id].work, state, reason, armed, timer, t)
  PROVE  PlacementInv' /\ (results' = results \/ Decides)
<1> DEFINE w == pending[id].work
           out == Without(pending, id)
<1>1. w \in WorkItem /\ w.pair \in Work
  <2>1. w \in WorkItem
    BY DEF TypeOK, Pending
  <2> QED
    BY <2>1 DEF WorkItem
<1>2. Placed(queue, pending, deferred, results, {}) /\ submitted
  BY ActivePlaced DEF Active
<1>3. Placed(queue, out, deferred, results, {w.pair})
  BY <1>1, <1>2, TakeOut
<1>4. next_id' > 1
  BY DEF TypeOK
<1> HIDE DEF w, out
<1>5. finish_attempt(w, state, reason, armed, timer, t)
  BY DEF w
<1>6. Placed(queue, out, deferred', results', {}) /\ (results' = results \/ Decides)
  BY <1>1, <1>3, <1>5, FinishPlaces DEF TypeOK
<1>7. Placed(queue', pending', deferred', results', {})
  BY <1>6 DEF out
<1> QED
  BY <1>2, <1>4, <1>6, <1>7, Settled

(***************************************************************************)
(* receive().                                                              *)
(***************************************************************************)
LEMMA ReceivePlaces ==
  ASSUME TypeOK, CallbackInv, PlacementInv, NEW id, NEW e,
         e.state \in PortState, e.reason \in ScanReason, receive(id, e), UNCHANGED engine
  PROVE  PlacementInv' /\ (results' = results \/ Decides)
<1>1. id \in DOMAIN pending
  BY DEF receive
<1>2. CASE complete_pending(id, e)
  BY <1>1, <1>2, RetirePlaces DEF complete_pending
<1>3. CASE retain_candidate(id, e)
  <2> DEFINE entry == Retain(pending[id], e)
  <2>1. entry.work = pending[id].work
    <3>1. pending[id] \in Pending
      BY <1>1 DEF TypeOK
    <3> QED
      BY <3>1 DEF Retain, Pending
  <2>2. /\ pending' = [pending EXCEPT ![id] = entry]
        /\ UNCHANGED <<queue, deferred, results, submitted, next_id>>
    BY <1>3 DEF retain_candidate
  <2> HIDE DEF entry
  <2>3. /\ DOMAIN pending' = DOMAIN pending
        /\ \A i \in DOMAIN pending : pending'[i].work = pending[i].work
    BY <2>1, <2>2 DEF TypeOK
  <2>4. DistinctMap(pending') <=> DistinctMap(pending)
    BY <2>3 DEF DistinctMap
  <2>5. \A p : InMap(pending', p) <=> InMap(pending, p)
    BY <2>3 DEF InMap
  <2>6. Placed(queue, pending, deferred, results, {}) /\ submitted
    BY <1>1, ActivePlaced DEF Active
  <2>7. Placed(queue', pending', deferred', results', {})
    BY <2>2, <2>4, <2>5, <2>6 DEF Placed, AtMostOnce, Covered
  <2>8. next_id' > 1
    BY <1>1, <2>2 DEF TypeOK
  <2> QED
    BY <2>2, <2>6, <2>7, <2>8, Settled
<1> QED
  BY <1>2, <1>3 DEF receive

(***************************************************************************)
(* The timers' callbacks.                                                  *)
(***************************************************************************)
LEMMA TimerPlaces ==
  ASSUME TypeOK, CallbackInv, PlacementInv, TimerFires
  PROVE  PlacementInv' /\ (results' = results \/ Decides)
<1> SUFFICES ASSUME NEW x \in DOMAIN timers,
                    on_timeout_fires(x) \/ on_retry_ready_fires(x)
             PROVE  PlacementInv' /\ (results' = results \/ Decides)
  BY DEF TimerFires
<1> DEFINE id == timers[x].id
<1>1. CASE on_timeout_fires(x)
  <2> DEFINE entry == pending[id]
             silent == entry.candidate_state = NoState
             state == IF silent THEN timeout_state(Method) ELSE entry.candidate_state
             reason == IF silent THEN timeout_reason(Method) ELSE entry.candidate_reason
             t == IF silent THEN TimedOut ELSE Responded
  <2>1. id \in DOMAIN pending /\ entry \in Pending
    BY <1>1 DEF on_timeout_fires, TypeOK
  <2>2. state \in PortState /\ reason \in ScanReason
    BY <2>1, TimeoutReportable, SchedulerAssumption DEF Pending
  <2>3. /\ pending' = Without(pending, id) /\ UNCHANGED <<queue, submitted, next_id>>
        /\ finish_attempt(entry.work, state, reason, Without(timers, x), next_timer_id, t)
    BY <1>1 DEF on_timeout_fires
  <2> HIDE DEF state, reason, t, id
  <2> QED
    BY <2>1, <2>2, <2>3, RetirePlaces
<1>2. CASE on_retry_ready_fires(x)
  <2> DEFINE w == deferred[id].work
             rest == Without(deferred, id)
  <2>1. id \in DOMAIN deferred /\ w \in WorkItem
    BY <1>2 DEF on_retry_ready_fires, TypeOK, Deferred
  <2>2. /\ deferred' = rest /\ queue' = <<w>> \o queue
        /\ UNCHANGED <<submitted, pending, results, next_id>>
    BY <1>2 DEF on_retry_ready_fires
  <2>3. w.pair \in Work
    BY <2>1 DEF WorkItem
  <2> HIDE DEF id
  <2>4. Placed(queue, pending, deferred, results, {}) /\ submitted
    BY <2>1, ActivePlaced DEF Active
  <2>5. Placed(queue, pending, rest, results, {w.pair})
    BY <2>1, <2>3, <2>4, TakeWaiting
  <2>6. next_id' > 1
    BY <2>1, <2>2 DEF PlacementInv, TypeOK
  <2> HIDE DEF w, rest
  <2>7. Placed(<<w>> \o queue, pending, rest, results, {})
    BY <2>1, <2>5, PutFront DEF TypeOK
  <2> QED
    BY <2>2, <2>4, <2>6, <2>7, Settled
<1> QED
  BY <1>1, <1>2

(***************************************************************************)
(* The iterations of pump().                                               *)
(***************************************************************************)
LEMMA PumpPlaces ==
  ASSUME TypeOK, CallbackInv, PlacementInv, Pump
  PROVE  PlacementInv' /\ (results' = results \/ Decides)
<1> DEFINE w == Head(queue)
           rest == Tail(queue)
<1>1. ASSUME PumpLoops, next_id' = next_id + 1
      PROVE  /\ Placed(rest, pending, deferred, results, {w.pair}) /\ w \in WorkItem
             /\ w.pair \in Work /\ w.retry_count \in Nat
             /\ submitted /\ next_id' > 1
  <2>1. queue # <<>> /\ queue \in Seq(WorkItem)
    BY <1>1 DEF PumpLoops, TypeOK
  <2>2. Placed(queue, pending, deferred, results, {}) /\ submitted
    BY <2>1, ActivePlaced DEF Active
  <2>3. w \in WorkItem
    BY <2>1, QueueTypes
  <2>4. w.pair \in Work /\ w.retry_count \in Nat
    BY <2>3 DEF WorkItem
  <2>5. next_id' > 1
    BY <1>1 DEF TypeOK
  <2> QED
    BY <2>1, <2>2, <2>3, <2>4, <2>5, TakeHead
<1> HIDE DEF w, rest
<1>2. ASSUME NEW r \in ScanReason, PumpLoops, next_id' = next_id + 1,
             queue' = rest, append_terminal_result(w, "Error", r),
             UNCHANGED <<pending, deferred, submitted>>
      PROVE  PlacementInv' /\ Decides
  <2>1. "Error" \in PortState
    BY DEF PortState
  <2>2. /\ Placed(rest, pending, deferred, results', {})
        /\ results[w.pair] = <<>> /\ results'[w.pair] # <<>>
        /\ results'[w.pair][1].state = "Error"
        /\ \A p \in Work : p # w.pair => results'[p] = results[p]
    BY <1>1, <1>2, <2>1, PutResult DEF TypeOK
  <2>3. Decides
    BY <1>1, <1>2, <2>1, <2>2 DEF Decides
  <2>4. submitted' /\ next_id' > 1
    BY <1>1, <1>2
  <2> QED
    BY <1>2, <2>2, <2>3, <2>4, Settled
<1>3. CASE PumpReturns
  BY <1>3 DEF PumpReturns, PlacementInv, Accepted
<1>4. ASSUME NEW s, PumpBuildFails(s) PROVE PlacementInv' /\ Decides
  <2> DEFINE r == IF s = "InvalidArgument" THEN "InvalidTarget" ELSE "InternalError"
  <2>1. r \in ScanReason
    BY DEF ScanReason
  <2>2. /\ PumpLoops /\ next_id' = next_id + 1 /\ queue' = rest
        /\ append_terminal_result(w, "Error", r) /\ UNCHANGED <<pending, deferred, submitted>>
    BY <1>4 DEF PumpBuildFails, w, rest
  <2> HIDE DEF r
  <2> QED
    BY <1>2, <2>1, <2>2
<1>5. CASE PumpTimerFails
  BY <1>2, <1>5 DEF PumpTimerFails, ScanReason, w, rest
<1>6. ASSUME NEW s, PumpSubmitFails(s) PROVE PlacementInv' /\ Decides
  <2>1. submission_failure_reason(s) \in ScanReason
    BY DEF submission_failure_reason, ScanReason
  <2>2. /\ PumpLoops /\ next_id' = next_id + 1 /\ queue' = rest
        /\ append_terminal_result(w, "Error", submission_failure_reason(s))
        /\ UNCHANGED <<pending, deferred, submitted>>
    BY <1>6 DEF PumpSubmitFails, w, rest
  <2> QED
    BY <1>2, <2>1, <2>2
<1>7. CASE PumpSubmits
  <2> DEFINE v == NewPending(w)
  <2>1. v.work.pair = w.pair
    BY DEF NewPending
  <2>2. /\ PumpLoops /\ next_id' = next_id + 1 /\ queue' = rest
        /\ pending' = With(pending, next_id, v) /\ UNCHANGED <<deferred, results, submitted>>
    BY <1>7 DEF PumpSubmits, w, rest
  <2> HIDE DEF v
  <2>3. next_id \notin DOMAIN pending
    BY DEF TypeOK
  <2>4. Placed(rest, pending, deferred, results, {v.work.pair})
    BY <1>1, <2>1, <2>2
  <2>5. Placed(rest, With(pending, next_id, v), deferred, results, {})
    BY <2>3, <2>4, PutOut
  <2>6. submitted' /\ next_id' > 1
    BY <1>1, <2>2
  <2> QED
    BY <2>2, <2>5, <2>6, Settled
<1>8. ASSUME NEW e \in Observations, PumpCompletesAtOnce(e)
      PROVE  PlacementInv' /\ (results' = results \/ Decides)
  <2>1. e.state \in PortState /\ e.reason \in ScanReason
    BY EvidenceReportable, SchedulerAssumption DEF Observations
  <2>2. /\ PumpLoops /\ next_id' = next_id + 1 /\ queue' = rest
        /\ finish_attempt(w, e.state, e.reason, timers, next_timer_id + 1, Responded)
        /\ UNCHANGED <<pending, submitted>>
    BY <1>8 DEF PumpCompletesAtOnce, w, rest
  <2>3. /\ Placed(rest, pending, deferred', results', {})
        /\ results' = results \/ Decides
    BY <1>1, <2>1, <2>2, FinishPlaces DEF TypeOK
  <2>4. submitted' /\ next_id' > 1
    BY <1>1, <2>2
  <2>5. Placed(queue', pending', deferred', results', {})
    BY <2>2, <2>3
  <2> QED
    BY <2>3, <2>4, <2>5, Settled
<1> QED
  BY <1>3, <1>4, <1>5, <1>6, <1>7, <1>8 DEF Pump, PumpReturns

(***************************************************************************)
(* The pairs in S are turned down, all at once and before any other has a  *)
(* result.                                                                 *)
(***************************************************************************)
TurnsDown(S) ==
  \A p \in Work : /\ results[p] = <<>>
                  /\ p \in S => results'[p] # <<>> /\ results'[p][1].state = "Error"
                  /\ p \notin S => results'[p] = <<>>

(***************************************************************************)
(* submit().                                                               *)
(***************************************************************************)
LEMMA SubmitPlaces ==
  ASSUME TypeOK, PlacementInv, NEW invalid \in SUBSET Work,
         NEW order \in Orders(Work \ invalid), Submit(invalid, order)
  PROVE  PlacementInv' /\ TurnsDown(invalid)
<1>1. /\ queue = <<>> /\ next_id = 1 /\ DOMAIN pending = {} /\ DOMAIN deferred = {}
      /\ \A p \in Work : results[p] = <<>>
  <2>1. ~submitted
    BY DEF Submit
  <2>2. queue = <<>> /\ next_id = 1 /\ \A p \in Work : results[p] = <<>>
    BY <2>1 DEF PlacementInv
  <2>3. DOMAIN deferred = {}
    BY <2>2 DEF PlacementInv
  <2>4. DOMAIN pending = {}
    <3>1. DOMAIN pending \subseteq 1..(next_id - 1) /\ next_id = 1
      BY <2>2 DEF TypeOK
    <3>2. 1..(1 - 1) = {}
      OBVIOUS
    <3> QED
      BY <3>1, <3>2
  <2> QED
    BY <2>2, <2>3, <2>4
<1>2. /\ submitted' /\ next_id' = 1 /\ DOMAIN pending' = {} /\ DOMAIN deferred' = {}
  BY <1>1 DEF Submit
<1>3. \A p : ~InMap(pending', p) /\ ~InMap(deferred', p)
  BY <1>2 DEF InMap
<1>4. DistinctMap(pending') /\ DistinctMap(deferred')
  BY <1>2 DEF DistinctMap
<1>5. TurnsDown(invalid) /\ \A p \in Work : Len(results'[p]) <= 1
  <2> DEFINE e == [state |-> "Error", reason |-> "InvalidTarget", retry_count |-> 0]
  <2>1. e.state = "Error"
    OBVIOUS
  <2>2. results' = [p \in Work |->
          IF p \in invalid THEN Append(results[p], e) ELSE results[p]]
    BY DEF Submit
  <2> HIDE DEF e
  <2>3. Append(<<>>, e) # <<>> /\ Append(<<>>, e)[1] = e /\ Len(Append(<<>>, e)) <= 1
    OBVIOUS
  <2>4. \A p \in Work : results'[p] = IF p \in invalid THEN Append(<<>>, e) ELSE <<>>
    BY <1>1, <2>2
  <2>5. ASSUME NEW p \in Work PROVE Len(results'[p]) <= 1
    <3>1. results'[p] = Append(<<>>, e) \/ results'[p] = <<>>
      BY <2>4
    <3>2. Len(<<>>) <= 1
      OBVIOUS
    <3> QED
      BY <2>3, <3>1, <3>2
  <2> QED
    BY <1>1, <2>1, <2>3, <2>4, <2>5 DEF TurnsDown
<1>6. CASE queue' = <<>>
  <2>1. DistinctSeq(queue') /\ \A p : ~InSeq(queue', p)
    BY <1>6 DEF DistinctSeq, InSeq
  <2>2. AtMostOnce(queue', pending', deferred', results')
    BY <1>3, <1>4, <1>5, <2>1 DEF AtMostOnce
  <2> QED
    BY <1>2, <1>5, <1>6, <2>2 DEF PlacementInv, Accepted
<1>7. CASE queue' # <<>>
  <2>1. invalid = {} /\ queue' = [i \in DOMAIN order |-> NewWork(order[i])]
    BY <1>7 DEF Submit
  <2>2. /\ DOMAIN queue' = DOMAIN order
        /\ \A i \in DOMAIN order : queue'[i].pair = order[i]
    BY <2>1 DEF NewWork
  <2>3. /\ \A i \in DOMAIN order : order[i] \in Work
        /\ \A p \in Work : \E i \in DOMAIN order : \A j \in DOMAIN order : order[j] = p <=> j = i
    BY <2>1 DEF Orders
  <2>4. DistinctSeq(queue')
    BY <2>2, <2>3 DEF DistinctSeq
  <2>5. \A p \in Work : InSeq(queue', p)
    BY <2>2, <2>3 DEF InSeq
  <2>6. \A p \in Work : results'[p] = <<>>
    BY <1>5, <2>1 DEF TurnsDown
  <2>7. AtMostOnce(queue', pending', deferred', results')
    BY <1>3, <1>4, <1>5, <2>4, <2>6 DEF AtMostOnce
  <2>8. Covered(queue', pending', deferred', results', {})
    BY <2>5 DEF Covered
  <2> QED
    BY <1>2, <1>5, <2>7, <2>8 DEF PlacementInv
<1> QED
  BY <1>6, <1>7

(***************************************************************************)
(* Every step: the pairs stay in their places, and results only grow by    *)
(* the first verdict of a pair, or by those the submission turns down.     *)
(***************************************************************************)
LEMMA NextPlaces ==
  ASSUME TypeOK, CallbackInv, PlacementInv, [Next]_vars
  PROVE  /\ PlacementInv'
         /\ results' = results \/ Decides \/ \E S \in SUBSET Work : TurnsDown(S)
<1>1. ASSUME UNCHANGED <<queue, pending, deferred, results, next_id, submitted>>,
             engine' = engine \/ engine # "destroyed"
      PROVE  PlacementInv' /\ results' = results
  BY <1>1 DEF PlacementInv, Accepted
<1>2. CASE Caller
  <2>1. ASSUME NEW s, SubmitRefused(s) PROVE PlacementInv' /\ results' = results
    BY <1>1, <2>1 DEF SubmitRefused
  <2>2. CASE Run
    BY <1>1, <2>2 DEF Run, schedulerVars
  <2>3. CASE Destroy
    <3>1. /\ DOMAIN pending' = {} /\ DOMAIN deferred' = {} /\ queue' = <<>>
          /\ engine' = "destroyed" /\ UNCHANGED <<results, submitted, next_id>>
      BY <2>3 DEF Destroy, EmptyMap
    <3>2. AtMostOnce(queue', pending', deferred', results')
      BY <3>1 DEF PlacementInv, AtMostOnce, DistinctSeq, DistinctMap, InSeq, InMap
    <3> QED
      BY <3>1, <3>2 DEF PlacementInv
  <2> QED
    BY <1>2, <2>1, <2>2, <2>3, SubmitPlaces DEF Caller
<1>3. CASE Drain
  <2>1. ASSUME NEW id, DrainOne(id) PROVE PlacementInv' /\ (results' = results \/ Decides)
    <3> DEFINE e == [state |-> "Error", reason |-> "SocketError"]
    <3>1. e.state \in PortState /\ e.reason \in ScanReason
      BY DEF PortState, ScanReason
    <3>2. receive(id, e) /\ UNCHANGED engine
      BY <2>1 DEF DrainOne
    <3> HIDE DEF e
    <3> QED
      BY <3>1, <3>2, ReceivePlaces
  <2>2. CASE DrainEnds
    BY <1>1, <2>2 DEF DrainEnds, schedulerVars
  <2> QED
    BY <1>3, <2>1, <2>2 DEF Drain
<1>4. CASE Transport
  <2>1. ASSUME NEW id, NEW e \in Evidence(Method), Deliver(id, e)
        PROVE  PlacementInv' /\ (results' = results \/ Decides)
    <3>1. e.state \in PortState /\ e.reason \in ScanReason
      BY EvidenceReportable, SchedulerAssumption
    <3> QED
      BY <2>1, <3>1, ReceivePlaces DEF Deliver
  <2>2. CASE CaptureFails
    BY <1>1, <2>2 DEF CaptureFails, schedulerVars
  <2> QED
    BY <1>4, <2>1, <2>2 DEF Transport, Observations
<1>5. CASE RunReturns \/ EngineFails
  BY <1>1, <1>5 DEF RunReturns, EngineFails, Dispatching, schedulerVars
<1>6. CASE Terminated \/ UNCHANGED vars
  BY <1>1, <1>6 DEF Terminated, vars, schedulerVars
<1> QED
  BY <1>2, <1>3, <1>4, <1>5, <1>6, PumpPlaces, TimerPlaces DEF Next

(***************************************************************************)
(* The places are right in every reachable state.                          *)
(***************************************************************************)
LEMMA PlacesRight == Spec => []PlacementInv
<1>1. ASSUME Init PROVE PlacementInv
  <2>1. /\ queue = <<>> /\ DOMAIN pending = {} /\ DOMAIN deferred = {} /\ next_id = 1
        /\ \A p \in Work : results[p] = <<>> /\ Len(results[p]) <= 1
    BY <1>1 DEF Init, EmptyMap
  <2>2. AtMostOnce(queue, pending, deferred, results)
    BY <2>1 DEF AtMostOnce, DistinctSeq, DistinctMap, InSeq, InMap
  <2> QED
    BY <2>1, <2>2 DEF PlacementInv, Accepted
<1>2. TypeOK /\ CallbackInv /\ PlacementInv /\ [Next]_vars => PlacementInv'
  BY NextPlaces
<1> QED
  BY <1>1, <1>2, TypeCorrect, CallbacksConsistent, PTL DEF Spec

(***************************************************************************)
(* A pair is never worked on twice at the same time, never again once it   *)
(* has a result, and never reported twice; and once submit() has accepted  *)
(* the pairs none is ever lost: whichever step of pump(), receive() or a   *)
(* timer fails, the pair it held is still queued, out, waiting or          *)
(* published.  This holds for every number of pairs, retries and           *)
(* outstanding probes.                                                     *)
(***************************************************************************)
THEOREM WorkIsAccounted == Spec => []WorkAccounted
<1>1. PlacementInv => NeverTwice
  BY DEF PlacementInv, AtMostOnce, DistinctSeq, DistinctMap, InSeq, InMap, NeverTwice,
         Queued, Out, Waiting, Published
<1>2. PlacementInv => NothingLost
  BY DEF PlacementInv, Covered, InSeq, InMap, NothingLost, Queued, Out, Waiting, Published
<1>3. PlacementInv => WorkAccounted
  BY <1>1, <1>2 DEF WorkAccounted
<1> QED
  BY <1>3, PlacesRight, PTL

-----------------------------------------------------------------------------
(* What is published is what the evidence says.                            *)

Negatives == {"Closed", "Filtered"}

(***************************************************************************)
(* A work item without an answer yet.  TCP Connect has counted exactly the *)
(* negatives it saw and saw nothing else; a raw pair is only tried again   *)
(* after silence.                                                          *)
(***************************************************************************)
Founded(w, seen) ==
  IF Method = "TcpConnect"
    THEN /\ seen \subseteq Negatives
         /\ w.closed_observations > 0 <=> "Closed" \in seen
         /\ w.filtered_observations > 0 <=> "Filtered" \in seen
    ELSE seen = {}

(***************************************************************************)
(* Two different states were seen.                                         *)
(***************************************************************************)
Contradicts(seen) == \E s, t \in seen : s # t

(***************************************************************************)
(* An attempt that is out.  A raw candidate is the one state seen, or the  *)
(* conflict of several, and never a timeout.                               *)
(***************************************************************************)
Grounded(entry, seen) ==
  \/ entry.candidate_state = NoState /\ ~entry.conflict /\ Founded(entry.work, seen)
  \/ /\ Method # "TcpConnect" /\ entry.candidate_state # NoState
     /\ entry.candidate_reason \notin {"Timeout", "AckTimeout"}
     /\ \/ /\ ~entry.conflict /\ seen = {entry.candidate_state}
           /\ entry.candidate_state \notin {"Unknown", "Error"}
        \/ entry.conflict /\ entry.candidate_state = "Unknown" /\ Contradicts(seen)

(***************************************************************************)
(* A state that may be published when seen was observed.                   *)
(***************************************************************************)
Justified(s, seen) ==
  \/ s = "Error"
  \/ /\ Method # "TcpConnect"
     /\ \/ seen = {} /\ s = timeout_state(Method)
        \/ seen = {s} /\ s # "Unknown"
        \/ Contradicts(seen) /\ s = "Unknown"
  \/ /\ Method = "TcpConnect"
     /\ \/ s \in Negatives /\ seen = {s}
        \/ s = "Unknown" /\ seen = Negatives
        \/ s \in {"Open", "Unreachable"} /\ s \in seen

(***************************************************************************)
(* Every pair is explained by what was seen of it, wherever it is.         *)
(***************************************************************************)
Explained(q, out, waiting, res, seen) ==
  /\ \A i \in DOMAIN q : Founded(q[i], seen[q[i].pair])
  /\ \A id \in DOMAIN out : Grounded(out[id], seen[out[id].work.pair])
  /\ \A r \in DOMAIN waiting : Founded(waiting[r].work, seen[waiting[r].work.pair])
  /\ \A p \in Work : res[p] # <<>> => Justified(res[p][1].state, seen[p])

EvidenceInv ==
  /\ Explained(queue, pending, deferred, results, observed)
  /\ ~submitted => \A p \in Work : observed[p] = {}

-----------------------------------------------------------------------------
(* Judging one attempt.                                                    *)

Timeouts == {"Timeout", "AckTimeout"}

(***************************************************************************)
(* What assess() can get admitted: a conflict never comes from one         *)
(* response, a raw response is never a timeout, and a TCP Connect response *)
(* is final unless it is a negative that wants confirmation.               *)
(***************************************************************************)
Admissible(method, e) ==
  /\ e.state # "Unknown"
  /\ \/ should_confirm_negative(method, e.state, e.reason)
     \/ /\ e.reason \notin Timeouts
        /\ method = "TcpConnect" => e.state \in {"Open", "Unreachable", "Error"}

LEMMA EvidenceAdmissible ==
  ASSUME NEW method \in Methods, NEW e \in Evidence(method)
  PROVE  Admissible(method, e)
<1>1. PICK r \in Response :
        /\ Assess(method, r).status = "Ok"
        /\ e = [state |-> Assess(method, r).state, reason |-> Assess(method, r).reason]
  BY DEF Evidence
<1> DEFINE a == Assess(method, r)
<1> USE DEF Admissible
<1>2. CASE method = "TcpConnect"
  <2>1. a = AssessConnect(r)
    BY <1>2 DEF Assess
  <2> QED
    BY <1>1, <1>2, <2>1 DEF AssessConnect, Admitted, Rejected, Assessment, Response, Errors,
       Timeouts, should_confirm_negative
<1>3. CASE method \in {"TcpSyn", "TcpAck"}
  <2>1. a = AssessRaw(method, r)
    BY <1>3 DEF Assess
  <2>2. CASE r.kind = "SocketError"
    BY <1>1, <1>3, <2>1, <2>2 DEF AssessRaw, Admitted, Assessment, Timeouts
  <2>3. CASE r.kind = "Unreachable"
    BY <1>1, <1>3, <2>1, <2>3 DEF AssessRaw, AssessUnreachable, Admitted, Rejected,
       Assessment, Timeouts
  <2>4. CASE r.kind = "Packet" /\ r.from_target /\ r.parsed /\ r.ports
    <3>1. a = AssessFlags(method, r)
      BY <2>1, <2>4 DEF AssessRaw
    <3> QED
      BY <1>1, <1>3, <3>1 DEF AssessFlags, AssessSynFlags, AssessAckFlags, Admitted,
         Rejected, Assessment, Timeouts
  <2>5. CASE ~(r.kind \in {"SocketError", "Unreachable"})
             /\ ~(r.kind = "Packet" /\ r.from_target /\ r.parsed /\ r.ports)
    <3>1. a.status # "Ok"
      BY <2>1, <2>5 DEF AssessRaw, Rejected, Assessment
    <3> QED
      BY <1>1, <3>1
  <2> QED
    BY <2>2, <2>3, <2>4, <2>5
<1> QED
  BY <1>2, <1>3 DEF Methods

(***************************************************************************)
(* The answer to an attempt, when seen includes it.                        *)
(***************************************************************************)
Judged(attempt, state, reason, seen) ==
  \/ state = "Error" /\ reason \notin Timeouts
  \/ /\ Method # "TcpConnect" /\ Justified(state, seen)
     /\ reason \in Timeouts => seen = {}
  \/ /\ should_confirm_negative(Method, state, reason) /\ state \in seen
     /\ Founded(CountNegative(attempt, state, reason), seen)
  \/ /\ Method = "TcpConnect" /\ reason \notin Timeouts
     /\ state \in {"Open", "Unreachable"} /\ state \in seen

(***************************************************************************)
(* A negative of TCP Connect is counted when it is seen.                   *)
(***************************************************************************)
LEMMA NegativeCounted ==
  ASSUME NEW w \in WorkItem, NEW seen, Founded(w, seen), NEW state, NEW reason,
         should_confirm_negative(Method, state, reason)
  PROVE  Founded(CountNegative(w, state, reason), seen \cup {state})
<1>1. Method = "TcpConnect" /\ state \in Negatives
  BY DEF should_confirm_negative, Negatives
<1>2. w.closed_observations \in Nat /\ w.filtered_observations \in Nat
  BY DEF WorkItem
<1>3. CASE state = "Closed"
  <2> DEFINE c == CountNegative(w, state, reason)
  <2>1. c = [w EXCEPT !.closed_observations = @ + 1]
    BY <1>3 DEF CountNegative
  <2>2. /\ c.closed_observations = w.closed_observations + 1
        /\ c.filtered_observations = w.filtered_observations
    BY <2>1 DEF WorkItem
  <2> HIDE DEF c
  <2>3. c.closed_observations > 0
    BY <1>2, <2>2
  <2> QED
    BY <1>1, <1>3, <2>2, <2>3 DEF Founded, Negatives, c
<1>4. CASE state = "Filtered"
  <2> DEFINE c == CountNegative(w, state, reason)
  <2>1. c = [w EXCEPT !.filtered_observations = @ + 1]
    BY <1>4 DEF CountNegative
  <2>2. /\ c.filtered_observations = w.filtered_observations + 1
        /\ c.closed_observations = w.closed_observations
    BY <2>1 DEF WorkItem
  <2> HIDE DEF c
  <2>3. c.filtered_observations > 0
    BY <1>2, <2>2
  <2> QED
    BY <1>1, <1>4, <2>2, <2>3 DEF Founded, Negatives, c
<1> QED
  BY <1>1, <1>3, <1>4 DEF Negatives

-----------------------------------------------------------------------------
(* Taking a pair in hand and putting it down again.                        *)

(***************************************************************************)
(* The pairs of the queue and the maps are pairs of the scan.              *)
(***************************************************************************)
PairsKnown(q, out, waiting) ==
  /\ \A i \in DOMAIN q : q[i].pair \in Work
  /\ \A id \in DOMAIN out : out[id].work.pair \in Work
  /\ \A r \in DOMAIN waiting : waiting[r].work.pair \in Work

(***************************************************************************)
(* What is seen of a pair that is nowhere disturbs no other pair.          *)
(***************************************************************************)
LEMMA OthersExplained ==
  ASSUME NEW q, NEW out, NEW waiting, NEW res, NEW seen, NEW x,
         PairsKnown(q, out, waiting), Nowhere(q, out, waiting, res, x),
         Explained(q, out, waiting, res, seen),
         NEW later, \A p \in Work : p # x => later[p] = seen[p]
  PROVE  Explained(q, out, waiting, res, later)
<1>1. \A i \in DOMAIN q : Founded(q[i], later[q[i].pair])
  <2> SUFFICES ASSUME NEW i \in DOMAIN q PROVE later[q[i].pair] = seen[q[i].pair]
    BY DEF Explained
  <2> QED
    BY DEF PairsKnown, Nowhere, InSeq
<1>2. \A id \in DOMAIN out : Grounded(out[id], later[out[id].work.pair])
  <2> SUFFICES ASSUME NEW id \in DOMAIN out
               PROVE  later[out[id].work.pair] = seen[out[id].work.pair]
    BY DEF Explained
  <2> QED
    BY DEF PairsKnown, Nowhere, InMap
<1>3. \A r \in DOMAIN waiting : Founded(waiting[r].work, later[waiting[r].work.pair])
  <2> SUFFICES ASSUME NEW r \in DOMAIN waiting
               PROVE  later[waiting[r].work.pair] = seen[waiting[r].work.pair]
    BY DEF Explained
  <2> QED
    BY DEF PairsKnown, Nowhere, InMap
<1>4. \A p \in Work : res[p] # <<>> => Justified(res[p][1].state, later[p])
  <2> SUFFICES ASSUME NEW p \in Work, res[p] # <<>> PROVE later[p] = seen[p]
    BY DEF Explained
  <2> QED
    BY DEF Nowhere
<1> QED
  BY <1>1, <1>2, <1>3, <1>4 DEF Explained

(***************************************************************************)
(* finish_attempt() publishes what the evidence says, or lets the pair     *)
(* wait with its counters.                                                 *)
(***************************************************************************)
LEMMA FinishExplains ==
  ASSUME TypeOK, NEW attempt \in WorkItem, NEW state \in PortState, NEW reason \in ScanReason,
         NEW armed, NEW timer, NEW t, NEW q, NEW out,
         Placed(q, out, deferred, results, {attempt.pair}),
         Explained(q, out, deferred, results, observed'),
         Judged(attempt, state, reason, observed'[attempt.pair]),
         finish_attempt(attempt, state, reason, armed, timer, t)
  PROVE  Explained(q, out, deferred', results', observed')
<1> DEFINE work == CountNegative(attempt, state, reason)
           x == attempt.pair
           seen == observed'[x]
<1>1. /\ work \in WorkItem /\ work.pair = x /\ x \in Work /\ work.retry_count \in Nat
      /\ work.closed_observations \in Nat /\ work.filtered_observations \in Nat
  <2>1. work \in WorkItem /\ work.pair = attempt.pair
    BY CountNegativeType
  <2> HIDE DEF work
  <2> QED
    BY <2>1 DEF WorkItem
<1>2. Judged(attempt, state, reason, seen)
  OBVIOUS
<1>3. should_confirm_negative(Method, state, reason) =>
        /\ Method = "TcpConnect" /\ state \in Negatives
        /\ state \in seen /\ Founded(work, seen)
  BY <1>2 DEF Judged, should_confirm_negative, Negatives, Justified
<1> HIDE DEF work, seen, x
<1>4. ASSUME NEW s \in PortState, NEW r \in ScanReason, append_terminal_result(work, s, r),
             UNCHANGED deferred, Justified(s, seen)
      PROVE  Explained(q, out, deferred', results', observed')
  <2>1. /\ results[x] = <<>> /\ results'[x] # <<>>
        /\ results'[x][1].state = s
        /\ \A p \in Work : p # x => results'[p] = results[p]
    <3>1. Placed(q, out, deferred, results, {work.pair})
      BY <1>1 DEF x
    <3>2. /\ results[work.pair] = <<>> /\ results'[work.pair] # <<>>
          /\ results'[work.pair][1].state = s
          /\ \A p \in Work : p # work.pair => results'[p] = results[p]
      BY <1>1, <1>4, <3>1, PutResult DEF TypeOK
    <3> QED
      BY <1>1, <3>2
  <2>2. \A p \in Work : results'[p] # <<>> => Justified(results'[p][1].state, observed'[p])
    <3> SUFFICES ASSUME NEW p \in Work, results'[p] # <<>>
                 PROVE  Justified(results'[p][1].state, observed'[p])
      OBVIOUS
    <3>1. CASE p = x
      BY <1>4, <2>1, <3>1 DEF seen
    <3>2. CASE p # x
      BY <2>1, <3>2 DEF Explained
    <3> QED
      BY <3>1, <3>2
  <2> QED
    BY <1>4, <2>2 DEF Explained
<1>5. ASSUME WantsRetry(work, state, reason), defer_retry(work, armed, timer)
      PROVE  Explained(q, out, deferred', results', observed')
  <2> DEFINE retry == [work EXCEPT !.retry_count = @ + 1]
             v == [work |-> retry, timer_id |-> timer]
  <2>1. /\ v.work.pair = x
        /\ v.work.closed_observations = work.closed_observations
        /\ v.work.filtered_observations = work.filtered_observations
    BY <1>1 DEF WorkItem
  <2>2. deferred' = With(deferred, next_retry_id, v) /\ results' = results
    BY <1>5 DEF defer_retry
  <2> HIDE DEF v
  <2>3. Founded(work, seen)
    BY <1>2, <1>3, <1>5 DEF WantsRetry, Judged, Timeouts, Founded
  <2>4. Founded(v.work, seen)
    BY <2>1, <2>3 DEF Founded
  <2>5. \A r \in DOMAIN deferred' : Founded(deferred'[r].work, observed'[deferred'[r].work.pair])
    <3> SUFFICES ASSUME NEW r \in DOMAIN deferred'
                 PROVE  Founded(deferred'[r].work, observed'[deferred'[r].work.pair])
      OBVIOUS
    <3>1. CASE r = next_retry_id
      <4>1. deferred'[r] = v
        BY <2>2, <3>1 DEF With
      <4> QED
        BY <2>1, <2>4, <4>1 DEF seen
    <3>2. CASE r # next_retry_id
      <4>1. r \in DOMAIN deferred /\ deferred'[r] = deferred[r]
        BY <2>2, <3>2 DEF With
      <4> QED
        BY <4>1 DEF Explained
    <3> QED
      BY <3>1, <3>2
  <2> QED
    BY <2>2, <2>5 DEF Explained
<1>6. {"Unknown", "Error"} \subseteq PortState
      /\ {"ConflictingEvidence", "InternalError"} \subseteq ScanReason
  BY DEF PortState, ScanReason
<1>7. ASSUME Contradictory(work, state, reason) PROVE Justified("Unknown", seen)
  BY <1>3, <1>7 DEF Contradictory, Founded, Justified, Negatives
<1>8. ASSUME ~Contradictory(work, state, reason), ~WantsRetry(work, state, reason)
      PROVE  Justified(state, seen)
  <2>1. CASE should_confirm_negative(Method, state, reason)
    <3>1. ~(work.closed_observations > 0 /\ work.filtered_observations > 0)
      BY <1>8, <2>1 DEF Contradictory
    <3>2. seen = {state}
      BY <1>3, <2>1, <3>1 DEF Founded, Negatives
    <3> QED
      BY <1>3, <2>1, <3>2 DEF Justified
  <2>2. CASE ~should_confirm_negative(Method, state, reason)
    BY <1>2, <2>2 DEF Judged, Justified
  <2> QED
    BY <2>1, <2>2
<1>9. Justified("Error", seen)
  BY DEF Justified
<1> QED
  BY <1>4, <1>5, <1>6, <1>7, <1>8, <1>9
     DEF finish_attempt, publish, defer_retry_fails, work

-----------------------------------------------------------------------------
(* The steps.                                                              *)

(***************************************************************************)
(* A handler looks only at the pair x.                                     *)
(***************************************************************************)
OnlySees(x) == \A p \in Work : p # x => observed'[p] = observed[p]

LEMMA ObserveOnly ==
  ASSUME observed \in [Work -> SUBSET PortState], NEW x \in Work, NEW s, Observe(x, s)
  PROVE  /\ OnlySees(x)
         /\ observed'[x] = IF s = "Error" THEN observed[x] ELSE observed[x] \cup {s}
BY DEF Observe, OnlySees

LEMMA WorkKnown ==
  ASSUME TypeOK
  PROVE  PairsKnown(queue, pending, deferred)
<1>1. ASSUME NEW i \in DOMAIN queue PROVE queue[i].pair \in Work
  <2>1. queue[i] \in WorkItem
    BY ElementOfSeq DEF TypeOK
  <2> QED
    BY <2>1 DEF WorkItem
<1>2. \A id \in DOMAIN pending : pending[id].work.pair \in Work
  BY DEF TypeOK, Pending, WorkItem
<1>3. \A r \in DOMAIN deferred : deferred[r].work.pair \in Work
  BY DEF TypeOK, Deferred, WorkItem
<1> QED
  BY <1>1, <1>2, <1>3 DEF PairsKnown

(***************************************************************************)
(* An attempt that is out is over.                                         *)
(***************************************************************************)
LEMMA RetireExplains ==
  ASSUME TypeOK, CallbackInv, PlacementInv, EvidenceInv, NEW id \in DOMAIN pending,
         NEW state \in PortState, NEW reason \in ScanReason,
         NEW armed, NEW timer, NEW t,
         pending' = Without(pending, id), UNCHANGED <<queue, submitted>>,
         finish_attempt(pending[id].work, state, reason, armed, timer, t),
         OnlySees(pending[id].work.pair),
         Judged(pending[id].work, state, reason, observed'[pending[id].work.pair])
  PROVE  EvidenceInv'
<1> DEFINE w == pending[id].work
           out == Without(pending, id)
<1>1. PairsKnown(queue, pending, deferred) /\ w \in WorkItem
  BY WorkKnown DEF TypeOK, Pending
<1>2. Placed(queue, pending, deferred, results, {}) /\ submitted
  BY ActivePlaced DEF Active
<1>3. Placed(queue, out, deferred, results, {w.pair})
  BY <1>1, <1>2, TakeOut DEF PairsKnown
<1>4. PairsKnown(queue, out, deferred) /\ Explained(queue, out, deferred, results, observed)
  BY <1>1 DEF PairsKnown, Without, EvidenceInv, Explained
<1> HIDE DEF w, out
<1>5. Explained(queue, out, deferred, results, observed')
  <2>1. Nowhere(queue, out, deferred, results, w.pair)
    BY <1>3 DEF Placed
  <2> QED
    BY <1>4, <2>1, OthersExplained DEF OnlySees, w
<1>6. Explained(queue, out, deferred', results', observed')
  BY <1>1, <1>3, <1>5, FinishExplains DEF w
<1> QED
  BY <1>2, <1>6 DEF EvidenceInv, out

(***************************************************************************)
(* receive() for raw evidence keeps the candidate true to what was seen.   *)
(***************************************************************************)
LEMMA RetainGrounded ==
  ASSUME NEW entry \in Pending, NEW seen, Grounded(entry, seen),
         Method # "TcpConnect", NEW e, Admissible(Method, e), e.state \in PortState \ {"Error"}
  PROVE  Grounded(Retain(entry, e), seen \cup {e.state})
<1> DEFINE kept == Retain(entry, e)
<1>1. e.reason \notin Timeouts /\ e.state \notin {"Unknown", "Error", NoState}
  BY DEF Admissible, should_confirm_negative, PortState, NoState
<1>2. CASE entry.candidate_state = NoState
  <2>1. kept = [entry EXCEPT !.candidate_state = e.state, !.candidate_reason = e.reason]
    BY <1>2 DEF Retain
  <2>2. /\ kept.candidate_state = e.state /\ kept.candidate_reason = e.reason
        /\ kept.conflict = entry.conflict
    BY <2>1 DEF Pending
  <2>3. seen = {}
    BY <1>2 DEF Grounded, Founded
  <2>4. ~entry.conflict
    BY <1>2 DEF Grounded
  <2> QED
    BY <1>1, <2>2, <2>3, <2>4 DEF Grounded, Timeouts
<1>3. CASE entry.candidate_state # NoState /\ ~entry.conflict /\ entry.candidate_state # e.state
  <2>1. kept = [entry EXCEPT !.candidate_state = "Unknown",
                             !.candidate_reason = "ConflictingEvidence", !.conflict = TRUE]
    BY <1>3 DEF Retain
  <2>2. /\ kept.candidate_state = "Unknown" /\ kept.candidate_reason = "ConflictingEvidence"
        /\ kept.conflict
    BY <2>1 DEF Pending
  <2>3. seen = {entry.candidate_state}
    BY <1>3 DEF Grounded
  <2>4. Contradicts(seen \cup {e.state})
    BY <1>3, <2>3 DEF Contradicts
  <2> QED
    BY <2>2, <2>4 DEF Grounded, NoState
<1>4. CASE entry.candidate_state # NoState /\ (entry.conflict \/ entry.candidate_state = e.state)
  <2>1. kept = entry
    BY <1>4 DEF Retain
  <2>2. Contradicts(seen) => Contradicts(seen \cup {e.state})
    BY DEF Contradicts
  <2> QED
    BY <1>4, <2>1, <2>2 DEF Grounded
<1> QED
  BY <1>2, <1>3, <1>4

(***************************************************************************)
(* receive().                                                              *)
(***************************************************************************)
LEMMA ReceiveExplains ==
  ASSUME TypeOK, CallbackInv, PlacementInv, EvidenceInv, NEW id, NEW e,
         e.state \in PortState, e.reason \in ScanReason, Admissible(Method, e),
         receive(id, e)
  PROVE  EvidenceInv'
<1> DEFINE w == pending[id].work
           x == w.pair
<1>1. id \in DOMAIN pending /\ pending[id] \in Pending /\ w \in WorkItem /\ x \in Work
  BY DEF receive, TypeOK, Pending, WorkItem
<1>2. /\ OnlySees(x)
      /\ observed'[x] = IF e.state = "Error" THEN observed[x] ELSE observed[x] \cup {e.state}
  <2>1. Observe(x, e.state)
    BY DEF receive
  <2> QED
    BY <1>1, <2>1, ObserveOnly DEF TypeOK
<1>3. Grounded(pending[id], observed[x])
  BY <1>1 DEF EvidenceInv, Explained
<1>4. CASE e.state = "Error" \/ Method = "TcpConnect"
  <2>1. Judged(w, e.state, e.reason, observed'[x])
    <3>1. CASE e.state = "Error"
      BY <3>1 DEF Admissible, Judged, should_confirm_negative
    <3>2. CASE e.state # "Error" /\ should_confirm_negative(Method, e.state, e.reason)
      <4>1. Founded(w, observed[x])
        BY <1>3, <3>2 DEF Grounded, should_confirm_negative
      <4>2. Founded(CountNegative(w, e.state, e.reason), observed[x] \cup {e.state})
        BY <1>1, <3>2, <4>1, NegativeCounted
      <4> QED
        BY <1>2, <3>2, <4>2 DEF Judged
    <3>3. CASE e.state # "Error" /\ ~should_confirm_negative(Method, e.state, e.reason)
      <4>1. Method = "TcpConnect"
        BY <1>4, <3>3
      <4> QED
        BY <1>2, <3>3, <4>1 DEF Judged, Admissible
    <3> QED
      BY <3>1, <3>2, <3>3
  <2>2. /\ pending' = Without(pending, id) /\ UNCHANGED <<queue, submitted>>
        /\ finish_attempt(w, e.state, e.reason, Without(timers, pending[id].timer_id),
                          next_timer_id, Responded)
    BY <1>4 DEF receive, complete_pending
  <2> QED
    BY <1>1, <1>2, <2>1, <2>2, RetireExplains
<1>5. CASE e.state # "Error" /\ Method # "TcpConnect"
  <2> DEFINE entry == Retain(pending[id], e)
  <2>1. entry.work = w
    BY <1>1 DEF Retain, Pending
  <2>2. Grounded(entry, observed'[x])
    BY <1>1, <1>2, <1>3, <1>5, RetainGrounded
  <2>3. /\ pending' = [pending EXCEPT ![id] = entry]
        /\ UNCHANGED <<queue, deferred, results, submitted>>
    BY <1>5 DEF receive, retain_candidate
  <2> HIDE DEF entry
  <2>4. /\ DOMAIN pending' = DOMAIN pending /\ pending'[id] = entry
        /\ \A i \in DOMAIN pending : i # id => pending'[i] = pending[i]
    BY <1>1, <2>3 DEF TypeOK
  <2>5. Placed(queue, pending, deferred, results, {}) /\ submitted
    BY <1>1, ActivePlaced DEF Active
  <2> DEFINE out == Without(pending, id)
  <2>6. Nowhere(queue, out, deferred, results, x)
    BY <1>1, <2>5, TakeOut DEF Placed
  <2>7. PairsKnown(queue, pending, deferred)
    BY WorkKnown
  <2>8. PairsKnown(queue, out, deferred) /\ Explained(queue, out, deferred, results, observed)
    BY <2>7 DEF PairsKnown, Without, EvidenceInv, Explained
  <2> HIDE DEF w, x
  <2>9. Explained(queue, out, deferred, results, observed')
    BY <1>2, <2>6, <2>8, OthersExplained DEF OnlySees
  <2>10. \A i \in DOMAIN pending' : Grounded(pending'[i], observed'[pending'[i].work.pair])
    <3> SUFFICES ASSUME NEW i \in DOMAIN pending'
                 PROVE  Grounded(pending'[i], observed'[pending'[i].work.pair])
      OBVIOUS
    <3>1. CASE i = id
      BY <2>1, <2>2, <2>4, <3>1 DEF x
    <3>2. CASE i # id
      <4>1. i \in DOMAIN out /\ out[i] = pending'[i]
        BY <2>4, <3>2 DEF Without
      <4> QED
        BY <2>9, <4>1 DEF Explained
    <3> QED
      BY <3>1, <3>2
  <2> QED
    BY <2>3, <2>5, <2>9, <2>10 DEF EvidenceInv, Explained
<1> QED
  BY <1>4, <1>5

(***************************************************************************)
(* The timers' callbacks.                                                  *)
(***************************************************************************)
LEMMA TimerExplains ==
  ASSUME TypeOK, CallbackInv, PlacementInv, EvidenceInv, TimerFires
  PROVE  EvidenceInv'
<1> SUFFICES ASSUME NEW y \in DOMAIN timers,
                    on_timeout_fires(y) \/ on_retry_ready_fires(y)
             PROVE  EvidenceInv'
  BY DEF TimerFires
<1> DEFINE id == timers[y].id
<1>1. CASE on_timeout_fires(y)
  <2> DEFINE entry == pending[id]
             w == entry.work
             x == w.pair
             silent == entry.candidate_state = NoState
             state == IF silent THEN timeout_state(Method) ELSE entry.candidate_state
             reason == IF silent THEN timeout_reason(Method) ELSE entry.candidate_reason
             t == IF silent THEN TimedOut ELSE Responded
  <2>1. id \in DOMAIN pending /\ entry \in Pending /\ w \in WorkItem /\ x \in Work
    BY <1>1 DEF on_timeout_fires, TypeOK, Pending, WorkItem
  <2>2. state \in PortState /\ reason \in ScanReason
    BY <2>1, TimeoutReportable, SchedulerAssumption DEF Pending
  <2>3. /\ pending' = Without(pending, id) /\ UNCHANGED <<queue, submitted>>
        /\ finish_attempt(w, state, reason, Without(timers, y), next_timer_id, t)
        /\ IF silent /\ Method = "TcpConnect"
             THEN Observe(x, state) ELSE UNCHANGED observed
    BY <1>1 DEF on_timeout_fires
  <2>4. Grounded(entry, observed[x])
    BY <2>1 DEF EvidenceInv, Explained
  <2>5. OnlySees(x) /\ Judged(w, state, reason, observed'[x])
    <3>1. CASE silent /\ Method = "TcpConnect"
      <4>1. state = "Filtered" /\ reason = "Timeout"
        BY <3>1 DEF timeout_state, timeout_reason
      <4>2. OnlySees(x) /\ observed'[x] = observed[x] \cup {"Filtered"}
        <5>1. Observe(x, "Filtered")
          BY <2>3, <3>1, <4>1
        <5> QED
          BY <2>1, <5>1, ObserveOnly DEF TypeOK
      <4>3. should_confirm_negative(Method, "Filtered", "Timeout")
        BY <3>1 DEF should_confirm_negative
      <4>4. Founded(w, observed[x])
        BY <2>4, <3>1 DEF Grounded
      <4>5. Founded(CountNegative(w, "Filtered", "Timeout"), observed'[x])
        BY <2>1, <4>2, <4>3, <4>4, NegativeCounted
      <4>6. Judged(w, "Filtered", "Timeout", observed'[x])
        BY <4>2, <4>3, <4>5 DEF Judged
      <4> QED
        BY <4>1, <4>2, <4>6
    <3>2. CASE silent /\ Method # "TcpConnect"
      <4>1. state = timeout_state(Method) /\ observed' = observed
        BY <2>3, <3>2
      <4>2. observed[x] = {}
        BY <2>4, <3>2 DEF Grounded, Founded
      <4> HIDE DEF state, reason
      <4> QED
        BY <3>2, <4>1, <4>2 DEF Judged, Justified, OnlySees
    <3>3. CASE ~silent
      <4>1. state = entry.candidate_state /\ reason = entry.candidate_reason /\ observed' = observed
        BY <2>3, <3>3
      <4> HIDE DEF state, reason
      <4> QED
        BY <2>4, <3>3, <4>1 DEF Grounded, Judged, Justified, Timeouts, OnlySees
    <3> QED
      BY <3>1, <3>2, <3>3
  <2> HIDE DEF state, reason, t, id
  <2> QED
    BY <2>1, <2>2, <2>3, <2>5, RetireExplains
<1>2. CASE on_retry_ready_fires(y)
  <2> DEFINE w == deferred[id].work
             rest == Without(deferred, id)
             r == <<w>> \o queue
  <2>1. id \in DOMAIN deferred /\ w \in WorkItem
    BY <1>2 DEF on_retry_ready_fires, TypeOK, Deferred
  <2>2. /\ deferred' = rest /\ queue' = r
        /\ UNCHANGED <<submitted, pending, results, observed>>
    BY <1>2 DEF on_retry_ready_fires
  <2> HIDE DEF id
  <2>3. submitted
    BY <2>1, ActivePlaced DEF Active
  <2>4. Founded(w, observed[w.pair])
    BY <2>1 DEF EvidenceInv, Explained
  <2>5. \A i \in DOMAIN r : r[i] = w \/ \E j \in DOMAIN queue : r[i] = queue[j]
    <3>1. queue \in Seq(WorkItem)
      BY DEF TypeOK
    <3> HIDE DEF w
    <3>2. /\ Len(queue) \in Nat /\ DOMAIN queue = 1..Len(queue) /\ DOMAIN r = 1..(Len(queue) + 1)
          /\ r[1] = w /\ \A i \in 1..Len(queue) : r[i + 1] = queue[i]
      BY <2>1, <3>1
    <3>3. \A i \in 1..(Len(queue) + 1) : i = 1 \/ (i - 1 \in 1..Len(queue) /\ (i - 1) + 1 = i)
      BY <3>2
    <3> HIDE DEF r
    <3> SUFFICES ASSUME NEW i \in DOMAIN r, i # 1
                 PROVE  \E j \in DOMAIN queue : r[i] = queue[j]
      BY <3>2
    <3>4. i - 1 \in DOMAIN queue /\ (i - 1) + 1 = i
      BY <3>2, <3>3
    <3>5. r[(i - 1) + 1] = queue[i - 1]
      BY <3>2, <3>4
    <3>6. r[i] = queue[i - 1]
      BY <3>4, <3>5
    <3> QED
      BY <3>4, <3>6
  <2>6. \A i \in DOMAIN r : Founded(r[i], observed[r[i].pair])
    <3> HIDE DEF r, w
    <3> QED
      BY <2>4, <2>5 DEF EvidenceInv, Explained
  <2>7. \A d \in DOMAIN rest : Founded(rest[d].work, observed[rest[d].work.pair])
    BY DEF EvidenceInv, Explained, Without
  <2> HIDE DEF r, rest
  <2> QED
    BY <2>2, <2>3, <2>6, <2>7 DEF EvidenceInv, Explained
<1> QED
  BY <1>1, <1>2

(***************************************************************************)
(* The iterations of pump().                                               *)
(***************************************************************************)
LEMMA PumpExplains ==
  ASSUME TypeOK, CallbackInv, PlacementInv, EvidenceInv, Pump
  PROVE  EvidenceInv'
<1> DEFINE w == Head(queue)
           rest == Tail(queue)
<1>1. ASSUME PumpLoops
      PROVE  /\ Placed(rest, pending, deferred, results, {w.pair}) /\ w \in WorkItem
             /\ w.pair \in Work /\ w.retry_count \in Nat
             /\ submitted /\ Founded(w, observed[w.pair])
             /\ PairsKnown(rest, pending, deferred)
             /\ Explained(rest, pending, deferred, results, observed)
  <2>1. queue # <<>> /\ queue \in Seq(WorkItem)
    BY <1>1 DEF PumpLoops, TypeOK
  <2>2. Placed(queue, pending, deferred, results, {}) /\ submitted
    BY <2>1, ActivePlaced DEF Active
  <2>3. w \in WorkItem
    BY <2>1, QueueTypes
  <2>4. w.pair \in Work /\ w.retry_count \in Nat
    BY <2>3 DEF WorkItem
  <2>5. /\ 1 \in DOMAIN queue /\ w = queue[1]
        /\ \A i \in DOMAIN rest : i + 1 \in DOMAIN queue /\ rest[i] = queue[i + 1]
    <3>1. Len(queue) \in Nat \ {0} /\ DOMAIN queue = 1..Len(queue)
      BY <2>1, EmptySeq
    <3>2. w = queue[1]
      BY <2>1, HeadTailProperties, SMT
    <3>3. rest \in Seq(WorkItem) /\ Len(rest) = Len(queue) - 1
      BY <2>1, HeadTailProperties
    <3>4. \A i \in 1..(Len(queue) - 1) : rest[i] = queue[i + 1]
      BY <2>1, <3>1, SMT
    <3>5. \A i \in 1..(Len(queue) - 1) : i + 1 \in 1..Len(queue)
      BY <3>1
    <3>6. DOMAIN rest = 1..(Len(queue) - 1)
      BY <3>3
    <3> HIDE DEF rest, w
    <3> QED
      BY <3>1, <3>2, <3>4, <3>5, <3>6
  <2>6. Placed(rest, pending, deferred, results, {w.pair})
    BY <2>1, <2>2, TakeHead
  <2> HIDE DEF w, rest
  <2>7. Founded(w, observed[w.pair]) /\ Explained(rest, pending, deferred, results, observed)
    BY <2>5 DEF EvidenceInv, Explained
  <2>8. PairsKnown(rest, pending, deferred)
    BY <2>5, WorkKnown DEF PairsKnown
  <2> QED
    BY <2>2, <2>3, <2>4, <2>6, <2>7, <2>8
<1> HIDE DEF w, rest
<1>2. ASSUME NEW r \in ScanReason, PumpLoops,
             queue' = rest, append_terminal_result(w, "Error", r),
             UNCHANGED <<pending, deferred, submitted, observed>>
      PROVE  EvidenceInv'
  <2>1. "Error" \in PortState
    BY DEF PortState
  <2>2. /\ results'[w.pair][1].state = "Error"
        /\ \A p \in Work : p # w.pair => results'[p] = results[p]
    BY <1>1, <1>2, <2>1, PutResult DEF TypeOK
  <2>3. ASSUME NEW p \in Work, results'[p] # <<>>
        PROVE  Justified(results'[p][1].state, observed[p])
    <3>1. CASE p = w.pair
      BY <2>2, <3>1 DEF Justified
    <3>2. CASE p # w.pair
      <4>1. results'[p] = results[p]
        BY <2>2, <3>2
      <4> QED
        BY <2>3, <4>1 DEF EvidenceInv, Explained
    <3> QED
      BY <3>1, <3>2
  <2> QED
    BY <1>1, <1>2, <2>3 DEF EvidenceInv, Explained
<1>3. CASE PumpReturns
  BY <1>3 DEF PumpReturns, EvidenceInv
<1>4. ASSUME NEW s, PumpBuildFails(s) PROVE EvidenceInv'
  <2> DEFINE r == IF s = "InvalidArgument" THEN "InvalidTarget" ELSE "InternalError"
  <2>1. r \in ScanReason
    BY DEF ScanReason
  <2>2. /\ PumpLoops /\ queue' = rest /\ append_terminal_result(w, "Error", r)
        /\ UNCHANGED <<pending, deferred, submitted, observed>>
    BY <1>4 DEF PumpBuildFails, w, rest
  <2> HIDE DEF r
  <2> QED
    BY <1>2, <2>1, <2>2
<1>5. CASE PumpTimerFails
  BY <1>2, <1>5 DEF PumpTimerFails, ScanReason, w, rest
<1>6. ASSUME NEW s, PumpSubmitFails(s) PROVE EvidenceInv'
  <2>1. submission_failure_reason(s) \in ScanReason
    BY DEF submission_failure_reason, ScanReason
  <2>2. /\ PumpLoops /\ queue' = rest
        /\ append_terminal_result(w, "Error", submission_failure_reason(s))
        /\ UNCHANGED <<pending, deferred, submitted, observed>>
    BY <1>6 DEF PumpSubmitFails, w, rest
  <2> QED
    BY <1>2, <2>1, <2>2
<1>7. CASE PumpSubmits
  <2> DEFINE v == NewPending(w)
  <2>1. v.work = w /\ v.candidate_state = NoState /\ v.conflict = FALSE
    BY DEF NewPending
  <2>2. /\ PumpLoops /\ queue' = rest /\ pending' = With(pending, next_id, v)
        /\ UNCHANGED <<deferred, results, submitted, observed>>
    BY <1>7 DEF PumpSubmits, w, rest
  <2> HIDE DEF v
  <2>3. Grounded(v, observed[v.work.pair])
    BY <1>1, <2>1, <2>2 DEF Grounded
  <2>4. \A id \in DOMAIN pending' : Grounded(pending'[id], observed[pending'[id].work.pair])
    BY <2>2, <2>3 DEF With, EvidenceInv, Explained
  <2> QED
    BY <1>1, <2>2, <2>4 DEF EvidenceInv, Explained
<1>8. ASSUME NEW e \in Observations, PumpCompletesAtOnce(e) PROVE EvidenceInv'
  <2>1. e.state \in PortState /\ e.reason \in ScanReason /\ Admissible(Method, e)
    BY EvidenceReportable, EvidenceAdmissible, SchedulerAssumption DEF Observations
  <2>2. /\ Method = "TcpConnect" /\ PumpLoops /\ queue' = rest /\ Observe(w.pair, e.state)
        /\ finish_attempt(w, e.state, e.reason, timers, next_timer_id + 1, Responded)
        /\ UNCHANGED <<pending, submitted>>
    BY <1>8 DEF PumpCompletesAtOnce, w, rest
  <2>3. /\ OnlySees(w.pair)
        /\ observed'[w.pair] = IF e.state = "Error" THEN observed[w.pair]
                                                    ELSE observed[w.pair] \cup {e.state}
    BY <1>1, <2>2, ObserveOnly DEF TypeOK
  <2>4. Judged(w, e.state, e.reason, observed'[w.pair])
    <3>1. CASE e.state = "Error"
      BY <2>1, <3>1 DEF Admissible, Judged, should_confirm_negative
    <3>2. CASE e.state # "Error" /\ should_confirm_negative(Method, e.state, e.reason)
      <4>1. Founded(CountNegative(w, e.state, e.reason), observed[w.pair] \cup {e.state})
        BY <1>1, <2>2, <3>2, NegativeCounted
      <4> QED
        BY <2>3, <3>2, <4>1 DEF Judged
    <3>3. CASE e.state # "Error" /\ ~should_confirm_negative(Method, e.state, e.reason)
      BY <2>1, <2>2, <2>3, <3>3 DEF Judged, Admissible
    <3> QED
      BY <3>1, <3>2, <3>3
  <2>5. Explained(rest, pending, deferred, results, observed')
    <3>1. Nowhere(rest, pending, deferred, results, w.pair)
      BY <1>1, <2>2 DEF Placed
    <3> QED
      BY <1>1, <2>2, <2>3, <3>1, OthersExplained DEF OnlySees
  <2>6. Explained(rest, pending, deferred', results', observed')
    BY <1>1, <2>1, <2>2, <2>4, <2>5, FinishExplains
  <2> QED
    BY <1>1, <2>2, <2>6 DEF EvidenceInv
<1> QED
  BY <1>3, <1>4, <1>5, <1>6, <1>7, <1>8 DEF Pump, PumpReturns

(***************************************************************************)
(* submit().                                                               *)
(***************************************************************************)
LEMMA SubmitExplains ==
  ASSUME TypeOK, PlacementInv, EvidenceInv, NEW invalid \in SUBSET Work,
         NEW order \in Orders(Work \ invalid), Submit(invalid, order)
  PROVE  EvidenceInv'
<1>1. /\ ~submitted /\ submitted' /\ TurnsDown(invalid)
      /\ UNCHANGED <<pending, deferred, observed>>
  BY SubmitPlaces DEF Submit
<1>2. \A p \in Work : observed[p] = {}
  BY <1>1 DEF EvidenceInv
<1>3. \A p \in Work : results'[p] # <<>> => Justified(results'[p][1].state, observed[p])
  BY <1>1 DEF TurnsDown, Justified
<1>4. \A i \in DOMAIN queue' : Founded(queue'[i], observed[queue'[i].pair])
  <2>1. CASE queue' = <<>>
    BY <2>1
  <2>2. CASE queue' # <<>>
    <3>1. queue' = [i \in DOMAIN order |-> NewWork(order[i])]
      BY <2>2 DEF Submit
    <3>2. \A i \in DOMAIN order : order[i] \in Work
      BY DEF Orders
    <3>3. ASSUME NEW p \in Work PROVE Founded(NewWork(p), observed[NewWork(p).pair])
      <4>1. observed[NewWork(p).pair] = {}
        BY <1>2 DEF NewWork
      <4> QED
        BY <4>1 DEF NewWork, Founded
    <3> QED
      BY <3>1, <3>2, <3>3
  <2> QED
    BY <2>1, <2>2
<1> QED
  BY <1>1, <1>3, <1>4 DEF EvidenceInv, Explained

(***************************************************************************)
(* Every step.                                                             *)
(***************************************************************************)
LEMMA NextExplains ==
  ASSUME TypeOK, CallbackInv, PlacementInv, EvidenceInv, [Next]_vars
  PROVE  EvidenceInv'
<1>1. ASSUME UNCHANGED <<queue, pending, deferred, results, observed, submitted>>
      PROVE  EvidenceInv'
  BY <1>1 DEF EvidenceInv
<1>2. CASE Caller
  <2>1. ASSUME NEW s, SubmitRefused(s) PROVE EvidenceInv'
    BY <1>1, <2>1 DEF SubmitRefused
  <2>2. CASE Run
    BY <1>1, <2>2 DEF Run, schedulerVars
  <2>3. CASE Destroy
    BY <2>3 DEF Destroy, EmptyMap, EvidenceInv, Explained
  <2> QED
    BY <1>2, <2>1, <2>2, <2>3, SubmitExplains DEF Caller
<1>3. CASE Drain
  <2>1. ASSUME NEW id, DrainOne(id) PROVE EvidenceInv'
    <3> DEFINE e == [state |-> "Error", reason |-> "SocketError"]
    <3>1. e.state \in PortState /\ e.reason \in ScanReason /\ Admissible(Method, e)
      BY DEF PortState, ScanReason, Admissible, Timeouts
    <3>2. receive(id, e)
      BY <2>1 DEF DrainOne
    <3> HIDE DEF e
    <3> QED
      BY <3>1, <3>2, ReceiveExplains
  <2>2. CASE DrainEnds
    BY <1>1, <2>2 DEF DrainEnds, schedulerVars
  <2> QED
    BY <1>3, <2>1, <2>2 DEF Drain
<1>4. CASE Transport
  <2>1. ASSUME NEW id, NEW e \in Evidence(Method), Deliver(id, e) PROVE EvidenceInv'
    <3>1. e.state \in PortState /\ e.reason \in ScanReason /\ Admissible(Method, e)
      BY EvidenceReportable, EvidenceAdmissible, SchedulerAssumption
    <3> QED
      BY <2>1, <3>1, ReceiveExplains DEF Deliver
  <2>2. CASE CaptureFails
    BY <1>1, <2>2 DEF CaptureFails, schedulerVars
  <2> QED
    BY <1>4, <2>1, <2>2 DEF Transport, Observations
<1>5. CASE RunReturns \/ EngineFails
  BY <1>1, <1>5 DEF RunReturns, EngineFails, schedulerVars
<1>6. CASE Terminated \/ UNCHANGED vars
  BY <1>1, <1>6 DEF Terminated, vars, schedulerVars
<1> QED
  BY <1>2, <1>3, <1>4, <1>5, <1>6, PumpExplains, TimerExplains DEF Next

LEMMA EvidenceSound == Spec => []EvidenceInv
<1>1. ASSUME Init PROVE EvidenceInv
  <2>1. /\ queue = <<>> /\ DOMAIN pending = {} /\ DOMAIN deferred = {}
        /\ \A p \in Work : results[p] = <<>> /\ observed[p] = {}
    BY <1>1 DEF Init, EmptyMap
  <2> QED
    BY <2>1 DEF EvidenceInv, Explained
<1>2. TypeOK /\ CallbackInv /\ PlacementInv /\ EvidenceInv /\ [Next]_vars => EvidenceInv'
  BY NextExplains
<1> QED
  BY <1>1, <1>2, TypeCorrect, CallbacksConsistent, PlacesRight, PTL DEF Spec

(***************************************************************************)
(* Two different elements make a finite set larger than a singleton.       *)
(***************************************************************************)
LEMMA ContradictionCounts ==
  ASSUME NEW seen \in SUBSET PortState, Contradicts(seen)
  PROVE  Cardinality(seen) > 1
<1>1. PICK g \in seen, h \in seen : g # h
  BY DEF Contradicts
<1> DEFINE pair == {g, h}
<1>2. IsFiniteSet(PortState)
  <2>1. PortState = {"Open"} \cup {"Closed"} \cup {"Filtered"} \cup {"Unknown"}
          \cup {"OpenOrFiltered"} \cup {"Unfiltered"} \cup {"Error"} \cup {"Unreachable"}
    BY DEF PortState
  <2>2. IsFiniteSet({"Open"} \cup {"Closed"} \cup {"Filtered"} \cup {"Unknown"}
          \cup {"OpenOrFiltered"} \cup {"Unfiltered"} \cup {"Error"} \cup {"Unreachable"})
    BY FS_Singleton, FS_Union
  <2> QED
    BY <2>1, <2>2
<1>3. IsFiniteSet(seen)
  BY <1>2, FS_Subset
<1>4. Cardinality(pair) = 2
  <2>1. IsFiniteSet({h}) /\ Cardinality({h}) = 1
    BY FS_Singleton
  <2>2. Cardinality({h} \cup {g}) = Cardinality({h}) + 1
    BY <1>1, <2>1, FS_AddElement
  <2>3. {h} \cup {g} = pair
    OBVIOUS
  <2> QED
    BY <2>1, <2>2, <2>3
<1>5. pair \subseteq seen
  OBVIOUS
<1> HIDE DEF pair
<1>6. Cardinality(pair) <= Cardinality(seen) /\ Cardinality(seen) \in Nat
  BY <1>3, <1>5, FS_Subset, FS_CardinalityType
<1> QED
  BY <1>4, <1>6

(***************************************************************************)
(* The published state of a pair is what the admitted evidence says, for   *)
(* every number of pairs and retries and every order of responses,         *)
(* deadlines and failures: receive() and finish_attempt() never report a   *)
(* single raw state that another one contradicts, nor a TCP Connect        *)
(* negative when the other negative was seen as well.                      *)
(***************************************************************************)
THEOREM EvidenceGoverns == Spec => []EvidenceDecides
<1>1. ASSUME TypeOK, EvidenceInv PROVE EvidenceDecides
  <2> SUFFICES ASSUME NEW p \in Work, results[p] # <<>>
               PROVE  LET s == results[p][1].state IN
                      \/ s = "Error"
                      \/ /\ Method # "TcpConnect"
                         /\ \/ observed[p] = {} /\ s = timeout_state(Method)
                            \/ observed[p] = {s} /\ s # "Unknown"
                            \/ Cardinality(observed[p]) > 1 /\ s = "Unknown"
                      \/ /\ Method = "TcpConnect"
                         /\ \/ s \in {"Closed", "Filtered"} /\ observed[p] = {s}
                            \/ s = "Unknown" /\ observed[p] = {"Closed", "Filtered"}
                            \/ s \in {"Open", "Unreachable"} /\ s \in observed[p]
    BY DEF EvidenceDecides, Published
  <2>1. Justified(results[p][1].state, observed[p])
    BY <1>1 DEF EvidenceInv, Explained
  <2>2. observed[p] \in SUBSET PortState
    BY <1>1 DEF TypeOK
  <2> QED
    BY <2>1, <2>2, ContradictionCounts DEF Justified, Negatives
<1> QED
  BY <1>1, EvidenceSound, TypeCorrect, PTL

-----------------------------------------------------------------------------
(* What holds of a run in progress.                                        *)

(***************************************************************************)
(* An accepted submission has its pairs in the queue, or has sent some.    *)
(***************************************************************************)
Launched ==
  /\ submitted /\ status = "Ok" /\ engine # "destroyed" => Accepted
  /\ engine \in {"running", "returned"} => submitted

(***************************************************************************)
(* When no pump() is active and all is well, a pair is left in the queue   *)
(* only if an attempt is out, whose end will call pump() again.  It rests  *)
(* on every pump() having a limit of at least one.                         *)
(***************************************************************************)
NotStuck ==
  /\ frames \in Seq(Nat \ {0})
  /\ status = "Ok" /\ frames = <<>> /\ queue # <<>> => DOMAIN pending # {}

(***************************************************************************)
(* The reactor is stopped, and run() returns Ok, only when nothing is left *)
(* to do; after run() nothing of the scheduler is active.                  *)
(***************************************************************************)
StoppedIsDone ==
  /\ engine \in {"running", "returned"} /\ stopped => complete
  /\ engine = "returned" /\ status = "Ok" => complete
  /\ engine \in {"returned", "destroyed"} => frames = <<>>
  /\ draining => engine = "running"

RunInv == Launched /\ NotStuck /\ StoppedIsDone

Alive == engine \in {"idle", "running"}

(***************************************************************************)
(* A new frame of pump() has a positive limit.                             *)
(***************************************************************************)
LEMMA PushFrame ==
  ASSUME NEW f \in Seq(Nat \ {0}), NEW t \in CongestionState
  PROVE  <<PumpLimit(t)>> \o f \in Seq(Nat \ {0}) /\ <<PumpLimit(t)>> \o f # <<>>
<1> DEFINE n == PumpLimit(t)
<1>1. n \in Nat \ {0}
  BY PumpLimitType, SchedulerAssumption
<1> HIDE DEF n
<1>2. <<n>> \o f \in Seq(Nat \ {0}) /\ Len(<<n>> \o f) = Len(f) + 1
  BY <1>1
<1>3. Len(f) + 1 # 0
  OBVIOUS
<1>4. Len(<<>>) = 0
  OBVIOUS
<1> QED
  BY <1>2, <1>3, <1>4 DEF n

(***************************************************************************)
(* A handler that took a pair, on a scheduler that is alive: it need only  *)
(* be shown to leave its frame or an attempt behind.                       *)
(***************************************************************************)
LEMMA HandlerRun ==
  ASSUME TypeOK, RunInv, Alive, Active, UNCHANGED <<engine, submitted, draining>>,
         submitted, next_id' > 1 \/ queue' # <<>>,
         frames' \in Seq(Nat \ {0}),
         status' # "Ok" \/ frames' # <<>> \/ DOMAIN pending' # {},
         stopped' = stopped \/ (stopped' => complete')
  PROVE  RunInv'
<1>1. ~complete
  BY DEF complete, Active
<1>2. engine = "running" => ~stopped
  BY <1>1 DEF RunInv, StoppedIsDone
<1>3. Launched'
  BY DEF Launched, Accepted
<1>4. NotStuck'
  BY DEF NotStuck
<1>5. StoppedIsDone'
  BY <1>2 DEF Alive, RunInv, StoppedIsDone
<1> QED
  BY <1>3, <1>4, <1>5 DEF RunInv

(***************************************************************************)
(* finish_attempt() starts a pump().                                       *)
(***************************************************************************)
LEMMA FinishPushes ==
  ASSUME NotStuck, NEW attempt, NEW state, NEW reason, NEW armed, NEW timer,
         NEW t \in CongestionState,
         finish_attempt(attempt, state, reason, armed, timer, t)
  PROVE  frames' \in Seq(Nat \ {0}) /\ frames' # <<>>
<1>1. frames' = <<PumpLimit(t)>> \o frames
  BY DEF finish_attempt
<1> QED
  BY <1>1, PushFrame DEF NotStuck

-----------------------------------------------------------------------------
(* The steps.                                                              *)

(***************************************************************************)
(* receive().                                                              *)
(***************************************************************************)
LEMMA ReceiveRun ==
  ASSUME TypeOK, CallbackInv, PlacementInv, RunInv, Alive, NEW id, NEW e, receive(id, e),
         UNCHANGED <<engine, stopped, draining>>
  PROVE  RunInv'
<1>1. id \in DOMAIN pending /\ Active /\ next_id > 1
  BY DEF receive, Active, TypeOK
<1>2. submitted
  BY <1>1, ActivePlaced
<1>3. CASE complete_pending(id, e)
  <2>1. Responded \in CongestionState
    BY WindowType DEF TypeOK
  <2>2. /\ finish_attempt(pending[id].work, e.state, e.reason,
                          Without(timers, pending[id].timer_id), next_timer_id, Responded)
        /\ UNCHANGED <<submitted, queue, next_id>>
    BY <1>3 DEF complete_pending
  <2>3. frames' \in Seq(Nat \ {0}) /\ frames' # <<>>
    BY <2>1, <2>2, FinishPushes DEF RunInv
  <2> QED
    BY <1>1, <1>2, <2>2, <2>3, HandlerRun
<1>4. CASE retain_candidate(id, e)
  <2>1. DOMAIN pending' # {} /\ UNCHANGED <<frames, submitted, next_id>>
    BY <1>1, <1>4 DEF retain_candidate
  <2>2. frames' \in Seq(Nat \ {0})
    BY <2>1 DEF RunInv, NotStuck
  <2> QED
    BY <1>1, <1>2, <2>1, <2>2, HandlerRun
<1> QED
  BY <1>3, <1>4 DEF receive

(***************************************************************************)
(* The timers' callbacks.                                                  *)
(***************************************************************************)
LEMMA TimerRun ==
  ASSUME TypeOK, CallbackInv, PlacementInv, RunInv, TimerFires
  PROVE  RunInv' /\ Alive /\ UNCHANGED engine
<1> SUFFICES ASSUME NEW x \in DOMAIN timers,
                    on_timeout_fires(x) \/ on_retry_ready_fires(x)
             PROVE  RunInv' /\ Alive /\ UNCHANGED engine
  BY DEF TimerFires
<1>1. Alive /\ UNCHANGED <<engine, submitted, stopped, draining>>
  BY DEF on_timeout_fires, on_retry_ready_fires, Dispatching, Alive
<1>2. Active /\ (DOMAIN pending # {} => next_id > 1)
  BY DEF on_timeout_fires, on_retry_ready_fires, Active, TypeOK
<1>3. submitted
  BY <1>2, ActivePlaced
<1>4. CASE on_timeout_fires(x)
  <2> DEFINE silent == pending[timers[x].id].candidate_state = NoState
             t == IF silent THEN TimedOut ELSE Responded
  <2>1. PICK work, state, reason :
          finish_attempt(work, state, reason, Without(timers, x), next_timer_id, t)
    BY <1>4 DEF on_timeout_fires
  <2>2. t \in CongestionState
    BY WindowType DEF TypeOK
  <2> HIDE DEF t
  <2>3. frames' \in Seq(Nat \ {0}) /\ frames' # <<>>
    BY <2>1, <2>2, FinishPushes DEF RunInv
  <2>4. next_id' > 1
    BY <1>2, <1>4 DEF on_timeout_fires
  <2> QED
    BY <1>1, <1>2, <1>3, <2>3, <2>4, HandlerRun
<1>5. CASE on_retry_ready_fires(x)
  <2>1. /\ frames' = <<PumpLimit(timing)>> \o frames
        /\ queue' = <<deferred[timers[x].id].work>> \o queue
    BY <1>5 DEF on_retry_ready_fires
  <2>2. frames' \in Seq(Nat \ {0}) /\ frames' # <<>>
    BY <2>1, PushFrame DEF RunInv, NotStuck, TypeOK
  <2>3. queue' # <<>>
    <3>1. deferred[timers[x].id].work \in WorkItem /\ queue \in Seq(WorkItem)
      BY <1>5 DEF on_retry_ready_fires, TypeOK, Deferred
    <3> QED
      BY <2>1, <3>1
  <2> QED
    BY <1>1, <1>2, <1>3, <2>2, <2>3, HandlerRun
<1> QED
  BY <1>1, <1>4, <1>5

(***************************************************************************)
(* The iterations of pump().                                               *)
(***************************************************************************)
LEMMA PumpRun ==
  ASSUME TypeOK, CallbackInv, PlacementInv, RunInv, Pump
  PROVE  RunInv' /\ Alive /\ UNCHANGED engine
<1>1. frames # <<>> /\ frames \in Seq(Nat \ {0})
  BY DEF Pump, PumpReturns, PumpBuildFails, PumpTimerFails, PumpSubmitFails, PumpSubmits,
         PumpCompletesAtOnce, PumpLoops, RunInv, NotStuck
<1>2. Alive
  BY <1>1 DEF RunInv, StoppedIsDone, Alive, TypeOK
<1>3. Head(frames) \in Nat \ {0} /\ Tail(frames) \in Seq(Nat \ {0})
  BY <1>1, HeadTailProperties
<1>4. CASE PumpReturns
  <2>1. /\ frames' = Tail(frames) /\ ~PumpLoops /\ stopped' = (stopped \/ complete')
        /\ UNCHANGED <<status, submitted, queue, pending, deferred, next_id, engine, draining>>
    BY <1>4 DEF PumpReturns, stop_if_idle
  <2>2. complete' <=> complete
    BY <2>1 DEF complete
  <2>3. status = "Ok" /\ queue # <<>> => DOMAIN pending # {}
    <3>1. ASSUME status = "Ok", queue # <<>>, DOMAIN pending = {} PROVE FALSE
      <4>1. Cardinality(DOMAIN pending) = 0
        BY <3>1, FS_EmptySet
      <4>2. Cardinality(DOMAIN pending) < Head(frames)
        BY <1>3, <4>1
      <4> QED
        BY <1>1, <2>1, <3>1, <4>2 DEF PumpLoops
    <3> QED
      BY <3>1
  <2>4. NotStuck'
    BY <1>3, <2>1, <2>3 DEF NotStuck
  <2>5. Launched'
    BY <2>1 DEF RunInv, Launched, Accepted
  <2>6. StoppedIsDone'
    BY <1>2, <2>1, <2>2 DEF RunInv, StoppedIsDone, Alive
  <2> QED
    BY <1>2, <2>1, <2>4, <2>5, <2>6 DEF RunInv
<1>5. ASSUME PumpLoops, next_id' = next_id + 1
      PROVE  Active /\ submitted /\ next_id' > 1
  <2>1. Active /\ next_id' > 1
    BY <1>5 DEF PumpLoops, Active, TypeOK
  <2> QED
    BY <2>1, ActivePlaced
<1>6. ASSUME NEW s, PumpBuildFails(s) PROVE RunInv'
  <2>1. /\ PumpLoops /\ next_id' = next_id + 1
        /\ UNCHANGED <<frames, stopped, engine, submitted, draining>>
    BY <1>6 DEF PumpBuildFails
  <2> QED
    BY <1>1, <1>2, <1>5, <2>1, HandlerRun
<1>7. ASSUME NEW s \in SubmitFailures, PumpSubmitFails(s) PROVE RunInv'
  <2>1. /\ PumpLoops /\ next_id' = next_id + 1 /\ frames' = Tail(frames)
        /\ stopped' = (stopped \/ complete')
        /\ UNCHANGED <<engine, submitted, draining>>
    BY <1>7 DEF PumpSubmitFails, stop_if_idle
  <2>2. status' # "Ok"
    BY <1>7, SchedulerAssumption DEF PumpSubmitFails
  <2>3. stopped' = stopped \/ (stopped' => complete')
    BY <2>1 DEF TypeOK
  <2> QED
    BY <1>2, <1>3, <1>5, <2>1, <2>2, <2>3, HandlerRun
<1>8. CASE PumpTimerFails
  <2>1. /\ PumpLoops /\ next_id' = next_id + 1 /\ frames' = Tail(frames)
        /\ stopped' = (stopped \/ complete') /\ status' # "Ok"
        /\ UNCHANGED <<engine, submitted, draining>>
    BY <1>8 DEF PumpTimerFails, stop_if_idle
  <2>2. stopped' = stopped \/ (stopped' => complete')
    BY <2>1 DEF TypeOK
  <2> QED
    BY <1>2, <1>3, <1>5, <2>1, <2>2, HandlerRun
<1>9. CASE PumpSubmits
  <2>1. /\ PumpLoops /\ next_id' = next_id + 1
        /\ UNCHANGED <<frames, stopped, engine, submitted, draining>>
    BY <1>9 DEF PumpSubmits
  <2> QED
    BY <1>1, <1>2, <1>5, <2>1, HandlerRun
<1>10. ASSUME NEW e, PumpCompletesAtOnce(e) PROVE RunInv'
  <2>1. /\ PumpLoops /\ next_id' = next_id + 1
        /\ finish_attempt(Head(queue), e.state, e.reason, timers, next_timer_id + 1, Responded)
        /\ UNCHANGED <<stopped, engine, submitted, draining>>
    BY <1>10 DEF PumpCompletesAtOnce
  <2>2. Responded \in CongestionState
    BY WindowType DEF TypeOK
  <2>3. frames' \in Seq(Nat \ {0}) /\ frames' # <<>>
    BY <2>1, <2>2, FinishPushes DEF RunInv
  <2> QED
    BY <1>2, <1>5, <2>1, <2>3, HandlerRun
<1>11. UNCHANGED engine
  BY DEF Pump, PumpReturns, PumpBuildFails, PumpTimerFails, PumpSubmitFails, PumpSubmits,
         PumpCompletesAtOnce
<1> QED
  BY <1>2, <1>4, <1>6, <1>7, <1>8, <1>9, <1>10, <1>11 DEF Pump

(***************************************************************************)
(* submit().                                                               *)
(***************************************************************************)
LEMMA SubmitRun ==
  ASSUME TypeOK, RunInv, NEW invalid \in SUBSET Work,
         NEW order \in Orders(Work \ invalid), Submit(invalid, order)
  PROVE  RunInv' /\ Alive /\ UNCHANGED engine
<1>1. Alive /\ engine = "idle" /\ UNCHANGED <<engine, draining>> /\ submitted'
  BY DEF Submit, Alive
<1>2. CASE status' = "Ok"
  <2>1. /\ invalid = {} /\ queue' = [i \in DOMAIN order |-> NewWork(order[i])]
        /\ frames' = <<PumpLimit(timing)>>
    BY <1>2 DEF Submit
  <2>2. PICK p \in Work : TRUE
    BY SchedulerAssumption
  <2>3. DOMAIN order # {}
    BY <2>1, <2>2 DEF Orders
  <2>4. DOMAIN queue' # {}
    BY <2>1, <2>3
  <2>5. queue' # <<>>
    BY <2>4
  <2>6. PumpLimit(timing) \in Nat \ {0}
    BY PumpLimitType, SchedulerAssumption DEF TypeOK
  <2>7. frames' \in Seq(Nat \ {0}) /\ frames' # <<>>
    BY <2>1, <2>6
  <2>8. Launched' /\ NotStuck'
    BY <1>1, <2>5, <2>7 DEF Launched, NotStuck, Accepted
  <2>9. StoppedIsDone'
    BY <1>1 DEF RunInv, StoppedIsDone
  <2> QED
    BY <1>1, <2>8, <2>9 DEF RunInv
<1>3. CASE status' # "Ok"
  <2>1. UNCHANGED frames
    BY <1>3 DEF Submit
  <2>2. Launched' /\ NotStuck'
    BY <1>1, <1>3, <2>1 DEF RunInv, Launched, NotStuck
  <2>3. StoppedIsDone'
    BY <1>1 DEF RunInv, StoppedIsDone
  <2> QED
    BY <1>1, <2>2, <2>3 DEF RunInv
<1> QED
  BY <1>2, <1>3

(***************************************************************************)
(* run() returns: what has stopped it, or left it without events, is the   *)
(* end of the work, or the status tells.                                   *)
(***************************************************************************)
LEMMA ReturnRun ==
  ASSUME TypeOK, CallbackInv, RunInv, RunReturns
  PROVE  RunInv'
<1>1. /\ engine = "running" /\ engine' = "returned" /\ frames = <<>> /\ ~draining
      /\ stopped \/ DOMAIN timers = {}
      /\ UNCHANGED <<status, submitted, queue, pending, deferred, next_id, frames,
                     stopped, draining>>
  BY DEF RunReturns, schedulerVars
<1>2. complete' <=> complete
  BY <1>1 DEF complete
<1>3. (stopped \/ status = "Ok") => complete
  <2>1. CASE stopped
    BY <1>1, <2>1 DEF RunInv, StoppedIsDone
  <2>2. CASE DOMAIN timers = {} /\ status = "Ok"
    <3>1. DOMAIN pending = {} /\ DOMAIN deferred = {}
      BY <2>2 DEF CallbackInv, Match
    <3>2. queue = <<>>
      BY <1>1, <2>2, <3>1 DEF RunInv, NotStuck
    <3> QED
      BY <1>1, <3>1, <3>2 DEF RunInv, Launched, complete
  <2> QED
    BY <1>1, <2>1, <2>2
<1>4. Launched' /\ NotStuck'
  BY <1>1 DEF RunInv, Launched, NotStuck, Accepted
<1>5. StoppedIsDone'
  BY <1>1, <1>2, <1>3 DEF StoppedIsDone
<1> QED
  BY <1>4, <1>5 DEF RunInv

(***************************************************************************)
(* Every step; and what the stage can see of it: the scan is alive before  *)
(* and after, or it ends, or nothing changes any more.                     *)
(***************************************************************************)
Ends == /\ UNCHANGED results
        /\ \/ engine = "running" /\ engine' = "returned"
           \/ engine = "idle" /\ engine' = "destroyed" /\ status' # "Ok"

Over == /\ UNCHANGED <<results, status>>
        /\ engine \in {"returned", "destroyed"} /\ engine' \in {"returned", "destroyed"}

LEMMA NextRun ==
  ASSUME TypeOK, CallbackInv, PlacementInv, RunInv, [Next]_vars
  PROVE  RunInv' /\ ((Alive /\ Alive') \/ Ends \/ Over)
<1>1. ASSUME UNCHANGED <<status, submitted, queue, pending, deferred, results, next_id,
                         frames, engine, stopped>>, draining' => engine = "running"
      PROVE  RunInv' /\ ((Alive /\ Alive') \/ Over)
  <2>1. complete' <=> complete
    BY <1>1 DEF complete
  <2>2. Launched' /\ NotStuck' /\ StoppedIsDone'
    BY <1>1, <2>1 DEF RunInv, Launched, NotStuck, StoppedIsDone, Accepted
  <2>3. (Alive /\ Alive') \/ Over
    BY <1>1 DEF TypeOK, Alive, Over
  <2> QED
    BY <2>2, <2>3 DEF RunInv
<1>2. ASSUME NEW s \in {"InvalidArgument", "PermissionDenied"}, SubmitRefused(s)
      PROVE  RunInv' /\ Alive /\ Alive'
  <2>1. /\ engine = "idle" /\ status' # "Ok"
        /\ UNCHANGED <<engine, frames, draining, submitted>>
    BY <1>2 DEF SubmitRefused
  <2> QED
    BY <2>1 DEF RunInv, Launched, NotStuck, StoppedIsDone, Alive
<1>3. ASSUME NEW invalid \in SUBSET Work, NEW order \in Orders(Work \ invalid),
             Submit(invalid, order)
      PROVE  RunInv' /\ Alive /\ Alive'
  BY <1>3, SubmitRun DEF Alive
<1>4. CASE Run
  <2>1. /\ engine = "idle" /\ engine' = "running" /\ stopped' = FALSE /\ submitted
        /\ UNCHANGED <<status, submitted, queue, pending, next_id, frames, draining>>
    BY <1>4 DEF Run, schedulerVars
  <2>2. Launched' /\ NotStuck'
    BY <2>1 DEF RunInv, Launched, NotStuck, Accepted
  <2>3. StoppedIsDone' /\ Alive /\ Alive'
    BY <2>1 DEF RunInv, StoppedIsDone, Alive
  <2> QED
    BY <2>2, <2>3 DEF RunInv
<1>5. CASE Destroy
  <2>1. /\ engine' = "destroyed" /\ queue' = <<>>
        /\ \/ engine = "returned"
           \/ engine = "idle" /\ frames = <<>> /\ status # "Ok"
        /\ UNCHANGED <<status, results, frames, draining>>
    BY <1>5 DEF Destroy
  <2>2. frames = <<>> /\ ~draining
    BY <2>1 DEF RunInv, StoppedIsDone
  <2>3. Launched' /\ NotStuck' /\ StoppedIsDone'
    BY <2>1, <2>2 DEF RunInv, Launched, NotStuck, StoppedIsDone
  <2>4. Ends \/ Over
    BY <2>1 DEF Ends, Over
  <2> QED
    BY <2>3, <2>4 DEF RunInv
<1>6. CASE Drain
  <2>1. ASSUME NEW id, DrainOne(id) PROVE RunInv' /\ Alive /\ Alive'
    <3>1. engine = "running" /\ UNCHANGED engine
      BY <2>1 DEF DrainOne, RunInv, StoppedIsDone
    <3> QED
      BY <2>1, <3>1, ReceiveRun DEF DrainOne, Alive
  <2>2. CASE DrainEnds
    BY <1>1, <2>2 DEF DrainEnds, schedulerVars
  <2> QED
    BY <1>6, <2>1, <2>2 DEF Drain
<1>7. CASE Transport
  <2>1. ASSUME NEW id, NEW e, Deliver(id, e) PROVE RunInv' /\ Alive /\ Alive'
    BY <2>1, ReceiveRun DEF Deliver, Dispatching, Alive
  <2>2. CASE CaptureFails
    BY <1>1, <2>2 DEF CaptureFails, Dispatching, schedulerVars
  <2> QED
    BY <1>7, <2>1, <2>2 DEF Transport, Observations
<1>8. CASE RunReturns
  BY <1>8, ReturnRun DEF RunReturns, schedulerVars, Ends
<1>9. CASE EngineFails
  <2>1. /\ engine = "running" /\ engine' = "returned" /\ frames = <<>> /\ ~draining
        /\ ~stopped /\ status' # "Ok"
        /\ UNCHANGED <<results, submitted, queue, pending, frames, stopped, draining>>
    BY <1>9 DEF EngineFails, Dispatching
  <2> QED
    BY <2>1 DEF RunInv, Launched, NotStuck, StoppedIsDone, Ends
<1>10. CASE Terminated \/ UNCHANGED vars
  <2>1. UNCHANGED vars
    BY <1>10 DEF Terminated
  <2> QED
    BY <1>1, <2>1 DEF vars, schedulerVars, RunInv, StoppedIsDone
<1>11. CASE Pump \/ TimerFires
  BY <1>11, PumpRun, TimerRun DEF Alive
<1>12. CASE Caller
  BY <1>2, <1>3, <1>4, <1>5, <1>12 DEF Caller
<1> QED
  BY <1>6, <1>7, <1>8, <1>9, <1>10, <1>11, <1>12 DEF Next

(***************************************************************************)
(* The invariant holds of every reachable state.                           *)
(***************************************************************************)
LEMMA RunsRight == Spec => []RunInv
<1>1. ASSUME Init PROVE RunInv
  <2>1. /\ frames = <<>> /\ queue = <<>> /\ engine = "idle" /\ draining = FALSE
        /\ submitted = FALSE
    BY <1>1 DEF Init
  <2>2. <<>> \in Seq(Nat \ {0})
    OBVIOUS
  <2> QED
    BY <2>1, <2>2 DEF RunInv, Launched, NotStuck, StoppedIsDone
<1>2. TypeOK /\ CallbackInv /\ PlacementInv /\ RunInv /\ [Next]_vars => RunInv'
  BY NextRun
<1> QED
  BY <1>1, <1>2, TypeCorrect, CallbacksConsistent, PlacesRight, PTL DEF Spec

(***************************************************************************)
(* When nothing is left to do, every pair of an accepted submission has    *)
(* its result.                                                             *)
(***************************************************************************)
LEMMA OkIsComplete ==
  ASSUME TypeOK, PlacementInv, RunInv
  PROVE  OkMeansComplete
<1> SUFFICES ASSUME engine = "returned", status = "Ok", NEW p \in Work
             PROVE  Len(results[p]) = 1
  BY DEF OkMeansComplete
<1>1. /\ queue = <<>> /\ DOMAIN pending = {} /\ DOMAIN deferred = {} /\ Accepted
  BY DEF RunInv, StoppedIsDone, Launched, complete
<1>2. Covered(queue, pending, deferred, results, {})
  BY <1>1 DEF PlacementInv
<1>3. results[p] # <<>>
  BY <1>1, <1>2 DEF Covered, InSeq, InMap
<1>4. Len(results[p]) <= 1
  BY DEF PlacementInv, AtMostOnce
<1>5. results[p] \in Seq(Result)
  BY DEF TypeOK
<1>6. Len(results[p]) \in Nat /\ Len(results[p]) # 0
  BY <1>3, <1>5, EmptySeq
<1> DEFINE n == Len(results[p])
<1>7. n \in Nat /\ n # 0 /\ n <= 1
  BY <1>4, <1>6
<1> HIDE DEF n
<1>8. n = 1
  BY <1>7
<1> QED
  BY <1>8 DEF n

(***************************************************************************)
(* A run that returns Ok has exactly one result for every pair: run()      *)
(* cannot be stopped, or run out of events, with a pair unanswered.        *)
(***************************************************************************)
THEOREM OkIsWhole == Spec => []OkMeansComplete
<1> QED
  BY OkIsComplete, TypeCorrect, PlacesRight, RunsRight, PTL

-----------------------------------------------------------------------------
(* The refinement.                                                         *)

(***************************************************************************)
(* The verdict the stage sees, as a function of the pairs.                 *)
(***************************************************************************)
Verdict == [p \in Work |-> VerdictOf(p)]

(***************************************************************************)
(* A pair has a verdict if and only if it has a result.                    *)
(***************************************************************************)
LEMMA VerdictIsResult ==
  ASSUME TypeOK, NEW p \in Work
  PROVE  (results[p] # <<>>) <=> (VerdictOf(p) # NoState)
<1>1. CASE results[p] # <<>>
  <2>1. results[p] \in Seq(Result)
    BY DEF TypeOK
  <2>2. results[p][1] \in Result
    <3>1. Len(results[p]) \in Nat /\ Len(results[p]) # 0
      BY <1>1, <2>1, EmptySeq
    <3>2. 1 \in 1..Len(results[p])
      BY <3>1
    <3> QED
      BY <2>1, <3>2
  <2>3. results[p][1].state # NoState
    BY <2>2 DEF Result, PortState, NoState
  <2> QED
    BY <1>1, <2>3 DEF VerdictOf
<1>2. CASE results[p] = <<>>
  BY <1>2 DEF VerdictOf
<1> QED
  BY <1>1, <1>2

(***************************************************************************)
(* A step of a scan that is alive is a verdict, a batch of pairs turned    *)
(* down, or nothing to the stage.                                          *)
(***************************************************************************)
LEMMA AliveStep ==
  ASSUME Alive, Alive',
         results' = results \/ Decides \/ \E S \in SUBSET Work : TurnsDown(S)
  PROVE  [Contract!Next]_(Contract!vars)
<1>1. Outcome = "none" /\ Outcome' = "none"
  BY DEF Alive, Outcome
<1>2. CASE results' = results
  <2>1. Verdict' = Verdict
    BY <1>2 DEF Verdict, VerdictOf
  <2> QED
    BY <1>1, <2>1 DEF Contract!vars, Verdict
<1>3. CASE Decides
  <2>1. PICK p \in Work : /\ results[p] = <<>> /\ results'[p] # <<>>
                          /\ results'[p][1].state \in PortState
                          /\ \A o \in Work \ {p} : results'[o] = results[o]
    BY <1>3 DEF Decides
  <2> DEFINE v == results'[p][1].state
  <2>2. Verdict[p] = NoState
    BY <2>1 DEF Verdict, VerdictOf
  <2>3. Verdict' = [Verdict EXCEPT ![p] = v]
    BY <2>1 DEF Verdict, VerdictOf
  <2>4. v \in PortState
    BY <2>1
  <2> HIDE DEF v
  <2>5. Contract!Decide(p, v)
    BY <1>1, <2>2, <2>3 DEF Contract!Decide, Verdict
  <2> QED
    BY <2>4, <2>5 DEF Contract!Next
<1>4. ASSUME NEW S \in SUBSET Work, TurnsDown(S) PROVE Contract!Next
  <2>1. \A p \in Work : Verdict[p] = NoState
    BY <1>4 DEF TurnsDown, Verdict, VerdictOf
  <2>2. Verdict' \in [Work -> {NoState, "Error"}]
    BY <1>4 DEF TurnsDown, Verdict, VerdictOf
  <2>3. Contract!TurnDown("Error")
    BY <1>1, <2>1, <2>2 DEF Contract!TurnDown, Verdict
  <2>4. "Error" \in PortState
    BY DEF PortState
  <2> QED
    BY <2>3, <2>4 DEF Contract!Next
<1> QED
  BY <1>2, <1>3, <1>4

(***************************************************************************)
(* A scan that ends is complete, with a verdict on every pair, or failed.  *)
(***************************************************************************)
LEMMA EndStep ==
  ASSUME TypeOK, OkMeansComplete', Ends
  PROVE  Contract!Next
<1>1. Outcome = "none" /\ UNCHANGED results
  BY DEF Ends, Outcome
<1>2. Verdict' = Verdict
  BY <1>1 DEF Verdict, VerdictOf
<1>3. CASE status' = "Ok"
  <2>1. engine' = "returned" /\ Outcome' = "complete"
    BY <1>3 DEF Ends, Outcome
  <2>2. ASSUME NEW p \in Work PROVE Verdict[p] # NoState
    <3>1. Len(results'[p]) = 1
      BY <1>3, <2>1 DEF OkMeansComplete
    <3>2. results[p] # <<>>
      BY <1>1, <3>1
    <3>3. VerdictOf(p) # NoState
      BY <3>2, VerdictIsResult
    <3> QED
      BY <3>3 DEF Verdict
  <2>3. Contract!Complete
    BY <1>1, <1>2, <2>1, <2>2 DEF Contract!Complete, Verdict
  <2> QED
    BY <2>3 DEF Contract!Next
<1>4. CASE status' # "Ok"
  <2>1. Outcome' = "failed"
    BY <1>4 DEF Ends, Outcome
  <2>2. Contract!Fail
    BY <1>1, <1>2, <2>1 DEF Contract!Fail, Verdict
  <2> QED
    BY <2>2 DEF Contract!Next
<1> QED
  BY <1>3, <1>4

(***************************************************************************)
(* After the end the stage sees nothing change.                            *)
(***************************************************************************)
LEMMA OverStep ==
  ASSUME Over
  PROVE  UNCHANGED Contract!vars
<1>1. Outcome' = Outcome
  BY DEF Over, Outcome
<1>2. Verdict' = Verdict
  BY DEF Over, Verdict, VerdictOf
<1> QED
  BY <1>1, <1>2 DEF Contract!vars, Verdict

(***************************************************************************)
(* The scheduler implements its contract: verdicts appear one by one (or,  *)
(* for pairs submit() cannot address, together), are final, stop with the  *)
(* end of run(), and a run that ends with Ok has one for every pair,       *)
(* whatever the sizes, the retries, the timing and the failures.           *)
(***************************************************************************)
THEOREM ContractKept == Spec => KeepsContract
<1>1. Init => Contract!Init
  <2>1. ASSUME Init PROVE Verdict = [p \in Work |-> NoState] /\ Outcome = "none"
    BY <2>1 DEF Init, Verdict, VerdictOf, Outcome
  <2> QED
    BY <2>1 DEF Contract!Init, Verdict
<1>2. TypeOK /\ CallbackInv /\ PlacementInv /\ RunInv /\ OkMeansComplete'
        /\ [Next]_vars => [Contract!Next]_(Contract!vars)
  <2> SUFFICES ASSUME TypeOK, CallbackInv, PlacementInv, RunInv, OkMeansComplete',
                      [Next]_vars
               PROVE  [Contract!Next]_(Contract!vars)
    OBVIOUS
  <2>1. results' = results \/ Decides \/ \E S \in SUBSET Work : TurnsDown(S)
    BY NextPlaces
  <2>2. (Alive /\ Alive') \/ Ends \/ Over
    BY NextRun
  <2> QED
    BY <2>1, <2>2, AliveStep, EndStep, OverStep
<1>3. Spec => [](TypeOK /\ CallbackInv /\ PlacementInv /\ RunInv /\ OkMeansComplete)
  BY TypeCorrect, CallbacksConsistent, PlacesRight, RunsRight, OkIsWhole, PTL
<1> QED
  BY <1>1, <1>2, <1>3, PTL DEF Spec, KeepsContract, Contract!Spec

=============================================================================
