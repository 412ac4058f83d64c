------------------------- MODULE PortScanScheduler -------------------------
(***************************************************************************)
(* PortScanScheduler (src/portscan/port_scheduler.cpp) on top of the       *)
(* reactor's timers (IOEngine) and a PortScanTransport.                    *)
(*                                                                         *)
(* The scheduler turns each host/port pair of Work into probe attempts.    *)
(* A pair waits in queue, is pending while an attempt is out, is deferred  *)
(* while a retry delay runs, and ends with one published result.           *)
(*                                                                         *)
(* Everything runs on one thread, but the handlers re-enter each other:    *)
(* pump() calls transport.submit(), which may complete the probe before it *)
(* returns and so run receive(), finish_attempt() and a second pump().     *)
(* The variable frames is that call stack: the limit each active pump()    *)
(* computed when it was entered.  The reactor dispatches a timer or a      *)
(* response only when the stack is empty.                                  *)
(*                                                                         *)
(* Time is abstract: an armed timer may fire at any moment, which includes *)
(* every order of deadlines.  The responses the code ignores (an unknown   *)
(* or retired id, evidence that assess() rejects, evidence dated before    *)
(* the submission) change nothing and are stuttering steps.                *)
(***************************************************************************)
EXTENDS PortSemantics, Congestion, Sequences, FiniteSets

CONSTANTS
  Work,             \* the host/port pairs of the scan, without repetition
  Method,           \* config.method
  MaxOutstanding,   \* config.max_outstanding
  MaxRetries,       \* config.retries, or profile.max_retries when adaptive
  Adaptive,         \* config.adaptive_timing
  RawCapture,       \* the transport keeps a capture event registered
  SubmitFailures,   \* the statuses transport.submit() may fail with
  BuildFailures,    \* the statuses probe.build() may fail with
  TimerMayFail,     \* engine.schedule() may return 0
  EngineMayFail     \* epoll_wait() may fail

ASSUME SchedulerAssumption ==
  /\ IsFiniteSet(Work) /\ Work # {}
  /\ Method \in Methods
  /\ MaxOutstanding \in Nat \ {0}
  /\ MaxRetries \in Nat
  /\ Adaptive \in BOOLEAN /\ RawCapture \in BOOLEAN
  /\ TimerMayFail \in BOOLEAN /\ EngineMayFail \in BOOLEAN
  /\ SubmitFailures \subseteq StatusCode \ {"Ok"}
  /\ BuildFailures \subseteq {"InvalidArgument", "MemoryError"}

VARIABLES
  status, submitted,      \* status_, submitted_
  queue,                  \* queue_
  pending,                \* pending_, by probe id
  deferred,               \* deferred_retries_, by retry id
  results,                \* results_, per pair: results() sorts them anyway
  next_id, next_retry_id,
  timing,                 \* the congestion window of timing_
  frames,                 \* the limits of the active pump() calls, innermost first
  timers, next_timer_id,  \* IOEngine::timers_: what each armed timer will call
  engine, stopped,        \* where IOEngine::run() is, and stopped_
  inflight,               \* the ids the transport still has a callback for
  draining,               \* the raw transport is failing all its probes
  observed                \* history: the states admitted for each pair

schedulerVars == <<status, submitted, queue, pending, deferred, results,
                   next_id, next_retry_id, timing, frames>>
vars == <<schedulerVars, timers, next_timer_id, engine, stopped, inflight,
          draining, observed>>

-----------------------------------------------------------------------------
WorkItem == [pair : Work, retry_count : Nat,
             closed_observations : Nat, filtered_observations : Nat]

NoState == "none"

Pending == [work : WorkItem, timer_id : Nat,
            candidate_state : PortState \cup {NoState},
            candidate_reason : ScanReason, conflict : BOOLEAN]

Deferred == [work : WorkItem, timer_id : Nat]

Result == [state : PortState, reason : ScanReason, retry_count : Nat]

Callback == [handler : {"on_timeout", "on_retry_ready"}, id : Nat]

EmptyMap == [x \in {} |-> x]
Without(f, x) == [y \in DOMAIN f \ {x} |-> f[y]]
With(f, x, v) == [y \in DOMAIN f \cup {x} |-> IF y = x THEN v ELSE f[y]]

(***************************************************************************)
(* The orders a caller can list a set of pairs in, each pair once.         *)
(***************************************************************************)
Orders(S) ==
  {o \in [1..Cardinality(S) -> S] :
     \A p \in S : \E i \in DOMAIN o : \A j \in DOMAIN o : o[j] = p <=> j = i}

NewWork(p) ==
  [pair |-> p, retry_count |-> 0,
   closed_observations |-> 0, filtered_observations |-> 0]

Init ==
  /\ status = "Ok" /\ submitted = FALSE
  /\ queue = <<>> /\ pending = EmptyMap /\ deferred = EmptyMap
  /\ results = [p \in Work |-> <<>>]
  /\ next_id = 1 /\ next_retry_id = 1
  /\ timing = InitialCongestion
  /\ frames = <<>>
  /\ timers = EmptyMap /\ next_timer_id = 1
  /\ engine = "idle" /\ stopped = FALSE
  /\ inflight = {} /\ draining = FALSE
  /\ observed = [p \in Work |-> {}]

-----------------------------------------------------------------------------
(* Helpers of the handlers.                                                *)

(***************************************************************************)
(* Faulty variant, for the sensitivity of the checks: the congestion       *)
(* window is ignored.                                                      *)
(***************************************************************************)
limit_without_window(t) == MaxOutstanding

(***************************************************************************)
(* The limit pump() computes once, when it is entered.                     *)
(***************************************************************************)
PumpLimit(t) ==
  IF ~Adaptive \/ MaxOutstanding < t.current_parallelism
    THEN MaxOutstanding ELSE t.current_parallelism

(***************************************************************************)
(* Faulty variant, for the sensitivity of the checks: waiting retries are  *)
(* forgotten.                                                              *)
(***************************************************************************)
complete_without_deferred == submitted /\ queue = <<>> /\ DOMAIN pending = {}

complete == submitted /\ queue = <<>> /\ DOMAIN pending = {} /\ DOMAIN deferred = {}

(***************************************************************************)
(* Faulty variant, for the sensitivity of the checks: the engine is never  *)
(* stopped.                                                                *)
(***************************************************************************)
never_stop == stopped' = stopped

(***************************************************************************)
(* stop_if_idle(), on the values after the step.                           *)
(***************************************************************************)
stop_if_idle == stopped' = (stopped \/ complete')

append_terminal_result(work, state, reason) ==
  results' = [results EXCEPT ![work.pair] =
    Append(@, [state |-> state, reason |-> reason, retry_count |-> work.retry_count])]

(***************************************************************************)
(* Faulty variant, for the sensitivity of the checks: one kind of negative *)
(* resets the count of the other.                                          *)
(***************************************************************************)
count_resets_other(work, state, reason) ==
  IF ~should_confirm_negative(Method, state, reason) THEN work
  ELSE IF state = "Closed"
    THEN [work EXCEPT !.closed_observations = @ + 1, !.filtered_observations = 0]
    ELSE [work EXCEPT !.filtered_observations = @ + 1, !.closed_observations = 0]

(***************************************************************************)
(* The observation counters finish_attempt() bumps for a negative that     *)
(* wants confirmation.                                                     *)
(***************************************************************************)
CountNegative(work, state, reason) ==
  CASE ~should_confirm_negative(Method, state, reason) -> work
    [] should_confirm_negative(Method, state, reason) /\ state = "Closed" ->
         [work EXCEPT !.closed_observations = @ + 1]
    [] should_confirm_negative(Method, state, reason) /\ state = "Filtered" ->
         [work EXCEPT !.filtered_observations = @ + 1]

Contradictory(work, state, reason) ==
  /\ should_confirm_negative(Method, state, reason)
  /\ work.closed_observations > 0
  /\ work.filtered_observations > 0

WantsRetry(work, state, reason) ==
  /\ work.retry_count < MaxRetries
  /\ IF should_confirm_negative(Method, state, reason)
       THEN (IF state = "Closed" THEN work.closed_observations
                                 ELSE work.filtered_observations) < 2
       ELSE reason \in {"Timeout", "AckTimeout"}

(***************************************************************************)
(* defer_retry(): arm the retry delay.  When the engine gives no timer the *)
(* retry id is spent and the status becomes InternalError.                 *)
(***************************************************************************)
defer_retry(work, armed, timer) ==
  /\ next_retry_id' = next_retry_id + 1
  /\ timers' = With(armed, timer, [handler |-> "on_retry_ready", id |-> next_retry_id])
  /\ next_timer_id' = timer + 1
  /\ deferred' = With(deferred, next_retry_id,
                      [work |-> [work EXCEPT !.retry_count = @ + 1], timer_id |-> timer])
  /\ UNCHANGED <<status, results>>

defer_retry_fails(work, armed, timer) ==
  /\ TimerMayFail
  /\ next_retry_id' = next_retry_id + 1
  /\ status' = "InternalError"
  /\ append_terminal_result(work, "Error", "InternalError")
  /\ timers' = armed /\ next_timer_id' = timer
  /\ UNCHANGED deferred

publish(work, state, reason, armed, timer) ==
  /\ append_terminal_result(work, state, reason)
  /\ timers' = armed /\ next_timer_id' = timer
  /\ UNCHANGED <<status, deferred, next_retry_id>>

(***************************************************************************)
(* finish_attempt(): the attempt has an answer.  armed and timer are the   *)
(* engine's timers and next timer id at this point of the handler, t the   *)
(* congestion state.  It always ends in a call of pump().                  *)
(***************************************************************************)
finish_attempt(attempt, state, reason, armed, timer, t) ==
  LET work == CountNegative(attempt, state, reason) IN
  /\ timing' = t
  /\ frames' = <<PumpLimit(t)>> \o frames
  /\ \/ /\ Contradictory(work, state, reason)
        /\ publish(work, "Unknown", "ConflictingEvidence", armed, timer)
     \/ /\ ~Contradictory(work, state, reason)
        /\ WantsRetry(work, state, reason)
        /\ \/ defer_retry(work, armed, timer)
           \/ defer_retry_fails(work, armed, timer)
     \/ /\ ~Contradictory(work, state, reason)
        /\ ~WantsRetry(work, state, reason)
        /\ publish(work, state, reason, armed, timer)

Responded == IF Adaptive THEN on_response(timing) ELSE timing
TimedOut == IF Adaptive THEN on_timeout(timing) ELSE timing

(***************************************************************************)
(* History only: what has been admitted about a pair.                      *)
(***************************************************************************)
Observe(pair, state) ==
  observed' = [observed EXCEPT ![pair] =
    IF state = "Error" THEN @ ELSE @ \cup {state}]

-----------------------------------------------------------------------------
(* The caller: submit(), run(), and the destructor.                        *)

(***************************************************************************)
(* A submission refused before any work is accepted: a configuration,      *)
(* target or port list that does not validate.  The status sticks.         *)
(***************************************************************************)
SubmitRefused(s) ==
  /\ engine = "idle" /\ ~submitted
  /\ status' = s
  /\ UNCHANGED <<submitted, queue, pending, deferred, results, next_id,
                 next_retry_id, timing, frames, timers, next_timer_id, engine,
                 stopped, inflight, draining, observed>>

(***************************************************************************)
(* submit(): the pairs in invalid have a host whose address does not       *)
(* parse.  They are published at once and poison the status, and then the  *)
(* queue of the others is dropped.                                         *)
(***************************************************************************)
Submit(invalid, order) ==
  /\ engine = "idle" /\ ~submitted
  /\ submitted' = TRUE
  /\ status' = IF invalid = {} THEN status ELSE "InvalidArgument"
  /\ results' = [p \in Work |->
       IF p \in invalid
         THEN Append(results[p], [state |-> "Error", reason |-> "InvalidTarget",
                                  retry_count |-> 0])
         ELSE results[p]]
  /\ IF status' = "Ok"
       THEN /\ queue' = [i \in DOMAIN order |-> NewWork(order[i])]
            /\ frames' = <<PumpLimit(timing)>>
            /\ UNCHANGED stopped
       ELSE /\ queue' = <<>>
            /\ stopped' = TRUE
            /\ UNCHANGED frames
  /\ UNCHANGED <<pending, deferred, next_id, next_retry_id, timing, timers,
                 next_timer_id, engine, inflight, draining, observed>>

(***************************************************************************)
(* run(): PortScanStage calls it when submit() returned Ok.  IOEngine::run *)
(* clears stopped_, so a stop() requested during submit() is forgotten.    *)
(***************************************************************************)
Run ==
  /\ engine = "idle" /\ submitted /\ status = "Ok" /\ frames = <<>>
  /\ engine' = "running"
  /\ stopped' = FALSE
  /\ UNCHANGED <<schedulerVars, timers, next_timer_id, inflight, draining, observed>>

(***************************************************************************)
(* Events the transport has registered with the reactor: one per socket    *)
(* for TCP Connect, the capture descriptor for a raw transport.            *)
(***************************************************************************)
EventsRegistered == IF Method = "TcpConnect" THEN inflight # {} ELSE RawCapture

Dispatching == engine = "running" /\ frames = <<>> /\ ~draining /\ ~stopped

RunReturns ==
  /\ engine = "running" /\ frames = <<>> /\ ~draining
  /\ stopped \/ (DOMAIN timers = {} /\ ~EventsRegistered)
  /\ engine' = "returned"
  /\ UNCHANGED <<schedulerVars, timers, next_timer_id, stopped, inflight,
                 draining, observed>>

(***************************************************************************)
(* Faulty variant, for the sensitivity of the checks: the reactor's        *)
(* failure does not reach the status.                                      *)
(***************************************************************************)
engine_failure_ignored ==
  /\ EngineMayFail /\ Dispatching
  /\ DOMAIN timers # {} \/ EventsRegistered
  /\ engine' = "returned"
  /\ UNCHANGED <<schedulerVars, timers, next_timer_id, stopped, inflight,
                 draining, observed>>

EngineFails ==
  /\ EngineMayFail /\ Dispatching
  /\ DOMAIN timers # {} \/ EventsRegistered
  /\ engine' = "returned"
  /\ status' = IF status = "Ok" THEN "IoError" ELSE status
  /\ UNCHANGED <<submitted, queue, pending, deferred, results, next_id,
                 next_retry_id, timing, frames, timers, next_timer_id, stopped,
                 inflight, draining, observed>>

OwnedTimers ==
  {pending[id].timer_id : id \in DOMAIN pending}
    \cup {deferred[r].timer_id : r \in DOMAIN deferred}

(***************************************************************************)
(* ~PortScanScheduler(): every timer and transport entry of the scheduler  *)
(* is cancelled; the reactor lives on and serves the next stage.  It runs  *)
(* when run() has returned, or at once when submit() failed.               *)
(***************************************************************************)
Destroy ==
  /\ \/ engine = "returned"
     \/ engine = "idle" /\ frames = <<>> /\ status # "Ok"
  /\ timers' = [t \in DOMAIN timers \ OwnedTimers |-> timers[t]]
  /\ inflight' = inflight \ DOMAIN pending
  /\ pending' = EmptyMap /\ deferred' = EmptyMap /\ queue' = <<>>
  /\ engine' = "destroyed"
  /\ UNCHANGED <<status, submitted, results, next_id, next_retry_id, timing,
                 frames, next_timer_id, stopped, draining, observed>>

-----------------------------------------------------------------------------
(* pump(): one action for each way an iteration of its loop can go.        *)

PumpLoops ==
  /\ frames # <<>>
  /\ status = "Ok" /\ queue # <<>>
  /\ Cardinality(DOMAIN pending) < Head(frames)

(***************************************************************************)
(* The loop is over: stop the engine if nothing is left, and return.       *)
(***************************************************************************)
PumpReturns ==
  /\ frames # <<>> /\ ~PumpLoops
  /\ frames' = Tail(frames)
  /\ UNCHANGED <<status, submitted, queue, pending, deferred, results, next_id,
                 next_retry_id, timing, timers, next_timer_id, engine, inflight,
                 draining, observed>>
  /\ stop_if_idle

(***************************************************************************)
(* probe.build() fails: the pair is published and the loop goes on.        *)
(***************************************************************************)
PumpBuildFails(s) ==
  /\ PumpLoops
  /\ queue' = Tail(queue) /\ next_id' = next_id + 1
  /\ append_terminal_result(Head(queue), "Error",
       IF s = "InvalidArgument" THEN "InvalidTarget" ELSE "InternalError")
  /\ UNCHANGED <<status, submitted, pending, deferred, next_retry_id, timing,
                 frames, timers, next_timer_id, engine, stopped, inflight,
                 draining, observed>>

(***************************************************************************)
(* engine.schedule() gives no timer: publish, spoil the status, break.     *)
(***************************************************************************)
PumpTimerFails ==
  /\ TimerMayFail /\ PumpLoops
  /\ queue' = Tail(queue) /\ next_id' = next_id + 1
  /\ append_terminal_result(Head(queue), "Error", "InternalError")
  /\ status' = "InternalError"
  /\ frames' = Tail(frames)
  /\ UNCHANGED <<submitted, pending, deferred, next_retry_id, timing, timers,
                 next_timer_id, engine, inflight, draining, observed>>
  /\ stop_if_idle

(***************************************************************************)
(* Faulty variant, for the sensitivity of the checks: a refused pair is    *)
(* dropped without a result.                                               *)
(***************************************************************************)
refused_pair_dropped(s) ==
  /\ PumpLoops
  /\ queue' = Tail(queue) /\ next_id' = next_id + 1
  /\ next_timer_id' = next_timer_id + 1
  /\ status' = s
  /\ frames' = Tail(frames)
  /\ UNCHANGED <<submitted, pending, deferred, results, next_retry_id, timing,
                 timers, engine, inflight, draining, observed>>
  /\ stop_if_idle

(***************************************************************************)
(* transport.submit() fails: the timer just armed is cancelled again, the  *)
(* pending entry erased, the pair published, and the loop breaks.          *)
(***************************************************************************)
PumpSubmitFails(s) ==
  /\ PumpLoops
  /\ queue' = Tail(queue) /\ next_id' = next_id + 1
  /\ append_terminal_result(Head(queue), "Error", submission_failure_reason(s))
  /\ next_timer_id' = next_timer_id + 1
  /\ status' = s
  /\ frames' = Tail(frames)
  /\ UNCHANGED <<submitted, pending, deferred, next_retry_id, timing, timers,
                 engine, inflight, draining, observed>>
  /\ stop_if_idle

NewPending(work) ==
  [work |-> work, timer_id |-> next_timer_id, candidate_state |-> NoState,
   candidate_reason |-> "InternalError", conflict |-> FALSE]

(***************************************************************************)
(* The probe is out and the loop goes on.                                  *)
(***************************************************************************)
PumpSubmits ==
  /\ PumpLoops
  /\ queue' = Tail(queue) /\ next_id' = next_id + 1
  /\ pending' = With(pending, next_id, NewPending(Head(queue)))
  /\ timers' = With(timers, next_timer_id, [handler |-> "on_timeout", id |-> next_id])
  /\ next_timer_id' = next_timer_id + 1
  /\ inflight' = inflight \cup {next_id}
  /\ UNCHANGED <<status, submitted, deferred, results, next_retry_id, timing,
                 frames, engine, stopped, draining, observed>>

(***************************************************************************)
(* TcpConnectTransport::submit() knows the answer before it returns        *)
(* (connect() succeeded or failed at once) and calls back: receive() finds *)
(* the entry, complete_pending() cancels its timer and erases it, and      *)
(* finish_attempt() starts a nested pump().  The outer loop then goes on   *)
(* with the limit it computed before.                                      *)
(***************************************************************************)
PumpCompletesAtOnce(e) ==
  /\ Method = "TcpConnect" /\ PumpLoops
  /\ queue' = Tail(queue) /\ next_id' = next_id + 1
  /\ Observe(Head(queue).pair, e.state)
  /\ finish_attempt(Head(queue), e.state, e.reason, timers, next_timer_id + 1, Responded)
  /\ UNCHANGED <<submitted, pending, engine, stopped, inflight, draining>>

-----------------------------------------------------------------------------
(* The reactor's callbacks: responses and timers.                          *)

(***************************************************************************)
(* Faulty variant, for the sensitivity of the checks: the timer, or the    *)
(* transport entry, is not cancelled.                                      *)
(***************************************************************************)
complete_keeps_timer(id, e) ==
  /\ pending' = Without(pending, id)
  /\ inflight' = inflight \ {id}
  /\ finish_attempt(pending[id].work, e.state, e.reason, timers, next_timer_id, Responded)
  /\ UNCHANGED <<submitted, queue, next_id>>

complete_keeps_transport(id, e) ==
  /\ pending' = Without(pending, id)
  /\ finish_attempt(pending[id].work, e.state, e.reason,
                    Without(timers, pending[id].timer_id), next_timer_id, Responded)
  /\ UNCHANGED <<submitted, queue, next_id, inflight>>

(***************************************************************************)
(* complete_pending(): the timer is cancelled, the transport entry too.    *)
(***************************************************************************)
complete_pending(id, e) ==
  /\ pending' = Without(pending, id)
  /\ inflight' = inflight \ {id}
  /\ finish_attempt(pending[id].work, e.state, e.reason,
                    Without(timers, pending[id].timer_id), next_timer_id, Responded)
  /\ UNCHANGED <<submitted, queue, next_id>>

(***************************************************************************)
(* Faulty variant, for the sensitivity of the checks: the latest evidence  *)
(* wins.                                                                   *)
(***************************************************************************)
latest_evidence_wins(entry, e) ==
  [entry EXCEPT !.candidate_state = e.state, !.candidate_reason = e.reason]

(***************************************************************************)
(* receive() for raw evidence: the first state is kept as the candidate, a *)
(* different one turns it into a conflict for good.                        *)
(***************************************************************************)
Retain(entry, e) ==
  CASE entry.candidate_state = NoState ->
         [entry EXCEPT !.candidate_state = e.state, !.candidate_reason = e.reason]
    [] entry.candidate_state # NoState /\ ~entry.conflict
         /\ entry.candidate_state # e.state ->
         [entry EXCEPT !.candidate_state = "Unknown",
                       !.candidate_reason = "ConflictingEvidence", !.conflict = TRUE]
    [] OTHER -> entry

retain_candidate(id, e) ==
  /\ pending' = [pending EXCEPT ![id] = Retain(@, e)]
  /\ UNCHANGED <<status, submitted, queue, deferred, results, next_id,
                 next_retry_id, timing, frames, timers, next_timer_id, inflight>>

receive(id, e) ==
  /\ id \in DOMAIN pending
  /\ Observe(pending[id].work.pair, e.state)
  /\ IF e.state = "Error" \/ Method = "TcpConnect"
       THEN complete_pending(id, e)
       ELSE retain_candidate(id, e)

(***************************************************************************)
(* An event of the reactor makes the transport call back.                  *)
(***************************************************************************)
Deliver(id, e) ==
  /\ Dispatching /\ id \in inflight
  /\ receive(id, e)
  /\ UNCHANGED <<engine, stopped, draining>>

(***************************************************************************)
(* on_capture_event() of the raw transport meets a fatal capture error: it *)
(* fails its probes one by one until none is left, and each failure runs   *)
(* the scheduler, which may submit new probes into the same loop.          *)
(***************************************************************************)
CaptureFails ==
  /\ Dispatching /\ Method # "TcpConnect" /\ RawCapture /\ inflight # {}
  /\ draining' = TRUE
  /\ UNCHANGED <<schedulerVars, timers, next_timer_id, engine, stopped,
                 inflight, observed>>

DrainOne(id) ==
  /\ draining /\ frames = <<>> /\ id \in inflight
  /\ receive(id, [state |-> "Error", reason |-> "SocketError"])
  /\ UNCHANGED <<engine, stopped, draining>>

DrainEnds ==
  /\ draining /\ frames = <<>> /\ inflight = {}
  /\ draining' = FALSE
  /\ UNCHANGED <<schedulerVars, timers, next_timer_id, engine, stopped,
                 inflight, observed>>

(***************************************************************************)
(* The deadline of an attempt.  The engine has already erased the timer.   *)
(* A retained candidate is the answer; silence is the method's own state.  *)
(***************************************************************************)
on_timeout_fires(t) ==
  LET id == timers[t].id
      entry == pending[id]
      silent == entry.candidate_state = NoState
      state == IF silent THEN timeout_state(Method) ELSE entry.candidate_state
      reason == IF silent THEN timeout_reason(Method) ELSE entry.candidate_reason
  IN  /\ Dispatching /\ t \in DOMAIN timers
      /\ timers[t].handler = "on_timeout" /\ id \in DOMAIN pending
      /\ pending' = Without(pending, id)
      /\ inflight' = inflight \ {id}
      /\ finish_attempt(entry.work, state, reason, Without(timers, t), next_timer_id,
                        IF silent THEN TimedOut ELSE Responded)
      /\ IF silent /\ Method = "TcpConnect"
           THEN Observe(entry.work.pair, state) ELSE UNCHANGED observed
      /\ UNCHANGED <<submitted, queue, next_id, engine, stopped, draining>>

(***************************************************************************)
(* Faulty variant, for the sensitivity of the checks: the waiting entry is *)
(* not erased.                                                             *)
(***************************************************************************)
retry_keeps_entry(t) ==
  /\ Dispatching /\ t \in DOMAIN timers
  /\ timers[t].handler = "on_retry_ready" /\ timers[t].id \in DOMAIN deferred
  /\ timers' = Without(timers, t)
  /\ queue' = <<deferred[timers[t].id].work>> \o queue
  /\ frames' = <<PumpLimit(timing)>> \o frames
  /\ UNCHANGED <<status, submitted, pending, deferred, results, next_id,
                 next_retry_id, timing, next_timer_id, engine, stopped, inflight,
                 draining, observed>>

(***************************************************************************)
(* The retry delay is over: the pair goes to the front of the queue.       *)
(***************************************************************************)
on_retry_ready_fires(t) ==
  LET id == timers[t].id
  IN  /\ Dispatching /\ t \in DOMAIN timers
      /\ timers[t].handler = "on_retry_ready" /\ id \in DOMAIN deferred
      /\ timers' = Without(timers, t)
      /\ queue' = <<deferred[id].work>> \o queue
      /\ deferred' = Without(deferred, id)
      /\ frames' = <<PumpLimit(timing)>> \o frames
      /\ UNCHANGED <<status, submitted, pending, results, next_id, next_retry_id,
                     timing, next_timer_id, engine, stopped, inflight, draining,
                     observed>>

-----------------------------------------------------------------------------
(***************************************************************************)
(* What a response can get admitted in this scan.                          *)
(***************************************************************************)
Observations == Evidence(Method)

Pump ==
  \/ PumpReturns
  \/ \E s \in BuildFailures : PumpBuildFails(s)
  \/ PumpTimerFails
  \/ \E s \in SubmitFailures : PumpSubmitFails(s)
  \/ PumpSubmits
  \/ \E e \in Observations : PumpCompletesAtOnce(e)

Drain == DrainEnds \/ \E id \in inflight : DrainOne(id)

TimerFires == \E t \in DOMAIN timers : on_timeout_fires(t) \/ on_retry_ready_fires(t)

Caller ==
  \/ \E s \in {"InvalidArgument", "PermissionDenied"} : SubmitRefused(s)
  \/ \E invalid \in SUBSET Work : \E order \in Orders(Work \ invalid) :
       Submit(invalid, order)
  \/ Run
  \/ Destroy

Transport ==
  \/ \E id \in inflight : \E e \in Observations : Deliver(id, e)
  \/ CaptureFails

(***************************************************************************)
(* The end of the scheduler's life, so that any other state without a      *)
(* successor is a deadlock.                                                *)
(***************************************************************************)
Terminated == engine = "destroyed" /\ UNCHANGED vars

Next ==
  \/ Caller \/ Pump \/ Drain \/ TimerFires \/ Transport
  \/ RunReturns \/ EngineFails \/ Terminated

Spec == Init /\ [][Next]_vars

(***************************************************************************)
(* Fairness.  A handler that has been entered runs to its end; while the   *)
(* reactor runs, due timers are dispatched (dispatch_timers() follows      *)
(* every epoll_wait()) and run() leaves its loop when it may.  Nothing is  *)
(* assumed of the network or of the caller.                                *)
(***************************************************************************)
Fairness ==
  /\ WF_vars(Pump) /\ WF_vars(Drain)
  /\ WF_vars(TimerFires) /\ WF_vars(RunReturns)

FairSpec == Spec /\ Fairness

-----------------------------------------------------------------------------
(* Properties.                                                             *)

(***************************************************************************)
(* Every variable keeps its shape; ids in the maps have been handed out.   *)
(***************************************************************************)
TypeOK ==
  /\ status \in StatusCode /\ submitted \in BOOLEAN
  /\ queue \in Seq(WorkItem)
  /\ pending \in [DOMAIN pending -> Pending] /\ DOMAIN pending \subseteq 1..(next_id - 1)
  /\ deferred \in [DOMAIN deferred -> Deferred]
  /\ DOMAIN deferred \subseteq 1..(next_retry_id - 1)
  /\ results \in [Work -> Seq(Result)]
  /\ next_id \in Nat \ {0} /\ next_retry_id \in Nat \ {0}
  /\ timing \in CongestionState
  /\ frames \in Seq(Nat)
  /\ timers \in [DOMAIN timers -> Callback] /\ DOMAIN timers \subseteq 1..(next_timer_id - 1)
  /\ next_timer_id \in Nat \ {0}
  /\ engine \in {"idle", "running", "returned", "destroyed"} /\ stopped \in BOOLEAN
  /\ inflight \subseteq 1..(next_id - 1) /\ draining \in BOOLEAN
  /\ observed \in [Work -> SUBSET PortState]

(***************************************************************************)
(* Where a pair is.                                                        *)
(***************************************************************************)
Queued(p) == \E i \in DOMAIN queue : queue[i].pair = p
Out(p) == \E id \in DOMAIN pending : pending[id].work.pair = p
Waiting(p) == \E r \in DOMAIN deferred : deferred[r].work.pair = p
Published(p) == results[p] # <<>>

(***************************************************************************)
(* A pair is never in two places: not twice in the queue, not queued for a *)
(* retry while an attempt is out, not worked on once it is published, and  *)
(* not published twice, however responses, deadlines, retries and nested   *)
(* pump() calls interleave.                                                *)
(***************************************************************************)
NeverTwice ==
  /\ \A i, j \in DOMAIN queue : queue[i].pair = queue[j].pair => i = j
  /\ \A i, j \in DOMAIN pending : pending[i].work.pair = pending[j].work.pair => i = j
  /\ \A i, j \in DOMAIN deferred : deferred[i].work.pair = deferred[j].work.pair => i = j
  /\ \A p \in Work : /\ Queued(p) => ~Out(p) /\ ~Waiting(p) /\ ~Published(p)
                     /\ Out(p) => ~Waiting(p) /\ ~Published(p)
                     /\ Waiting(p) => ~Published(p)
                     /\ Len(results[p]) <= 1

(***************************************************************************)
(* The submission put the pairs in the queue (status_ was Ok).             *)
(***************************************************************************)
Accepted == submitted /\ (next_id > 1 \/ queue # <<>>)

(***************************************************************************)
(* An accepted pair is never lost: until the scheduler is destroyed it is  *)
(* queued, out, waiting for a retry, or published, whatever step of the    *)
(* handlers fails.                                                         *)
(***************************************************************************)
NothingLost ==
  Accepted /\ engine # "destroyed" =>
    \A p \in Work : Queued(p) \/ Out(p) \/ Waiting(p) \/ Published(p)

(***************************************************************************)
(* Every accepted pair is in exactly one place, as in the UDP scan and in  *)
(* service detection.                                                      *)
(***************************************************************************)
WorkAccounted == NeverTwice /\ NothingLost

(***************************************************************************)
(* When run() returns Ok, every pair has exactly one result: a returned    *)
(* scan has no silent gap, whether run() was stopped or ran out of events. *)
(***************************************************************************)
OkMeansComplete ==
  engine = "returned" /\ status = "Ok" => \A p \in Work : Len(results[p]) = 1

(***************************************************************************)
(* Timers and work correspond one to one: each attempt out and each        *)
(* waiting retry has its armed timer, and no armed timer belongs to        *)
(* anything else.  A timer left over would call a destroyed scheduler.     *)
(***************************************************************************)
TimersMatchWork ==
  /\ \A id \in DOMAIN pending :
       /\ pending[id].timer_id \in DOMAIN timers
       /\ timers[pending[id].timer_id] = [handler |-> "on_timeout", id |-> id]
  /\ \A r \in DOMAIN deferred :
       /\ deferred[r].timer_id \in DOMAIN timers
       /\ timers[deferred[r].timer_id] = [handler |-> "on_retry_ready", id |-> r]
  /\ \A t \in DOMAIN timers :
       \/ /\ timers[t].handler = "on_timeout" /\ timers[t].id \in DOMAIN pending
          /\ pending[timers[t].id].timer_id = t
       \/ /\ timers[t].handler = "on_retry_ready" /\ timers[t].id \in DOMAIN deferred
          /\ deferred[timers[t].id].timer_id = t

(***************************************************************************)
(* The transport keeps a callback exactly for the attempts that are out,   *)
(* so no socket or correlation entry outlives its attempt.                 *)
(***************************************************************************)
TransportMatchesPending == inflight = DOMAIN pending

(***************************************************************************)
(* Once the scheduler is destroyed nothing in the reactor or the transport *)
(* can call it.                                                            *)
(***************************************************************************)
NoDanglingCallback == engine = "destroyed" => DOMAIN timers = {} /\ inflight = {}

(***************************************************************************)
(* Every published result is one the report builder accepts.               *)
(***************************************************************************)
ResultsReportable ==
  \A p \in Work : \A i \in DOMAIN results[p] :
    valid_port_result_semantics(Method, results[p][i].state, results[p][i].reason)

(***************************************************************************)
(* The published state is what the admitted evidence says.  Raw methods:   *)
(* one state seen is reported, two are a conflict, silence is the timeout  *)
(* state.  Connect: a negative is reported only if nothing else was seen,  *)
(* a conflict only if both negatives were.  Local errors prove nothing.    *)
(***************************************************************************)
EvidenceDecides ==
  \A p \in Work : Published(p) =>
    LET s == results[p][1].state IN
    \/ s = "Error"
    \/ /\ Method # "TcpConnect"
       /\ \/ observed[p] = {} /\ s = timeout_state(Method)
          \/ observed[p] = {s} /\ s # "Unknown"
          \/ Cardinality(observed[p]) > 1 /\ s = "Unknown"
    \/ /\ Method = "TcpConnect"
       /\ \/ s \in {"Closed", "Filtered"} /\ observed[p] = {s}
          \/ s = "Unknown" /\ observed[p] = {"Closed", "Filtered"}
          \/ s \in {"Open", "Unreachable"} /\ s \in observed[p]

(***************************************************************************)
(* A probe is never sent beyond max_outstanding, nor beyond the congestion *)
(* window of that moment, even by an outer pump() whose limit was computed *)
(* before a nested completion moved the window.                            *)
(***************************************************************************)
SendsWithinWindow ==
  [][~(DOMAIN pending' \subseteq DOMAIN pending) =>
       /\ Cardinality(DOMAIN pending') <= MaxOutstanding
       /\ Adaptive => Cardinality(DOMAIN pending') <= timing'.current_parallelism]_vars

(***************************************************************************)
(* A running scan comes to an end.                                         *)
(***************************************************************************)
RunEnds == (engine = "running") ~> (engine # "running")

=============================================================================
