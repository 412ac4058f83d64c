------------------------- MODULE AdaptiveScheduler -------------------------
(***************************************************************************)
(* AdaptiveScheduler and the ScanGroup it drives                           *)
(* (src/scanengine/adaptive_scheduler.cpp, scan_group.cpp): a generic work *)
(* queue whose window is the congestion controller's.  Unlike the port     *)
(* scheduler it retries an item at once and under the same id, and it      *)
(* keeps every item's lifecycle state.                                     *)
(*                                                                         *)
(* The transport is an interface (its only implementation in the           *)
(* repository records and replays): a completion is any of the kinds       *)
(* receive() handles, for an item the transport has a callback for.        *)
(* The completion kinds Duplicate and LateResponse, and completions for    *)
(* unknown ids, only count metrics and are stuttering steps.               *)
(***************************************************************************)
EXTENDS Congestion, Sequences, FiniteSets

CONSTANTS
  Items,            \* the work items
  MaxRetries,       \* profile.max_retries
  SubmitFailures,   \* the statuses transport.submit() may fail with
  TimerMayFail,     \* engine.schedule() may return 0
  EngineMayFail,    \* epoll_wait() may fail
  ReportsTimeouts,  \* the transport may complete an item with Timeout
  LateEnqueue       \* items may be enqueued after start()

ASSUME AdaptiveAssumption ==
  /\ IsFiniteSet(Items) /\ MaxRetries \in Nat
  /\ TimerMayFail \in BOOLEAN /\ EngineMayFail \in BOOLEAN
  /\ ReportsTimeouts \in BOOLEAN /\ LateEnqueue \in BOOLEAN
  /\ "Ok" \notin SubmitFailures

VARIABLES
  state, retry_count,     \* ScanGroup::items_
  queue,                  \* ScanGroup::queue_, cancelled ids included
  congestion,             \* ScanGroup::congestion_
  pending,                \* pending_: the timer of each submitted item
  completed, expired,     \* completed_ids_, expired_ids_
  status, started, stopped,
  pumping,                \* pump() is running
  timers, next_timer_id,  \* IOEngine::timers_: the item each timer will expire
  engine, engine_stopped, \* where IOEngine::run() is, and its stopped_
  callbacks,              \* the items the transport has a callback for
  timeout_reported        \* history: the transport has completed an item with Timeout

group == <<state, retry_count, queue>>
timerVars == <<timers, next_timer_id>>
vars == <<group, congestion, pending, completed, expired, status, started,
          stopped, pumping, timerVars, engine, engine_stopped, callbacks,
          timeout_reported>>

WorkState == {"Absent", "Queued", "Submitted", "Completed", "TimedOut",
              "Cancelled", "Failed"}

EmptyMap == [x \in {} |-> x]
Without(f, x) == [y \in DOMAIN f \ {x} |-> f[y]]
With(f, x, v) == [y \in DOMAIN f \cup {x} |-> IF y = x THEN v ELSE f[y]]

Init ==
  /\ state = [i \in Items |-> "Absent"] /\ retry_count = [i \in Items |-> 0]
  /\ queue = <<>> /\ congestion = InitialCongestion
  /\ pending = EmptyMap /\ completed = {} /\ expired = {}
  /\ status = "Ok" /\ started = FALSE /\ stopped = FALSE /\ pumping = FALSE
  /\ timers = EmptyMap /\ next_timer_id = 1
  /\ engine = "idle" /\ engine_stopped = FALSE
  /\ callbacks = {} /\ timeout_reported = FALSE

-----------------------------------------------------------------------------
(* The caller.                                                             *)

enqueue(i) ==
  /\ ~pumping /\ state[i] = "Absent" /\ (started => LateEnqueue)
  /\ state' = [state EXCEPT ![i] = "Queued"]
  /\ queue' = Append(queue, i)
  /\ UNCHANGED <<retry_count, congestion, pending, completed, expired, status,
                 started, stopped, pumping, timerVars, engine, engine_stopped,
                 callbacks, timeout_reported>>

start ==
  /\ ~started /\ ~pumping
  /\ started' = TRUE /\ pumping' = TRUE
  /\ UNCHANGED <<group, congestion, pending, completed, expired, status, stopped,
                 timerVars, engine, engine_stopped, callbacks,
                 timeout_reported>>

(***************************************************************************)
(* run(), called after start(): skipped when the start already failed or   *)
(* the scheduler was shut down.  The engine forgets an earlier stop().     *)
(***************************************************************************)
run ==
  /\ started /\ ~pumping /\ engine = "idle" /\ status = "Ok" /\ ~stopped
  /\ engine' = "running" /\ engine_stopped' = FALSE
  /\ UNCHANGED <<group, congestion, pending, completed, expired, status, started,
                 stopped, pumping, timerVars, callbacks, timeout_reported>>

(***************************************************************************)
(* Faulty variant, for the sensitivity of the checks: an engine with       *)
(* nothing to wait for is not left.                                        *)
(***************************************************************************)
returns_only_when_stopped ==
  /\ engine = "running" /\ ~pumping /\ engine_stopped
  /\ engine' = "idle"
  /\ UNCHANGED <<group, congestion, pending, completed, expired, status, started,
                 stopped, pumping, timerVars, engine_stopped, callbacks,
                 timeout_reported>>

run_returns ==
  /\ engine = "running" /\ ~pumping
  /\ engine_stopped \/ DOMAIN timers = {}
  /\ engine' = "idle"
  /\ UNCHANGED <<group, congestion, pending, completed, expired, status, started,
                 stopped, pumping, timerVars, engine_stopped, callbacks,
                 timeout_reported>>

(***************************************************************************)
(* Faulty variant, for the sensitivity of the checks: only the group hears *)
(* of the cancellation.                                                    *)
(***************************************************************************)
cancel_group_only(i) ==
  /\ started /\ ~stopped /\ ~pumping
  /\ state[i] \in {"Queued", "Submitted", "TimedOut"}
  /\ state' = [state EXCEPT ![i] = "Cancelled"]
  /\ pumping' = TRUE
  /\ UNCHANGED <<retry_count, queue, congestion, pending, completed, expired,
                 status, started, stopped, timerVars, engine, engine_stopped,
                 callbacks, timeout_reported>>

(***************************************************************************)
(* ScanGroup::cancel() takes any item that is not completed, cancelled or  *)
(* failed.  A queued id stays in the queue and is skipped later.           *)
(***************************************************************************)
cancel(i) ==
  /\ started /\ ~stopped /\ ~pumping
  /\ state[i] \in {"Queued", "Submitted", "TimedOut"}
  /\ state' = [state EXCEPT ![i] = "Cancelled"]
  /\ IF i \in DOMAIN pending
       THEN /\ timers' = Without(timers, pending[i])
            /\ callbacks' = callbacks \ {i}
            /\ pending' = Without(pending, i)
            /\ expired' = expired \cup {i}
       ELSE UNCHANGED <<timers, callbacks, pending, expired>>
  /\ pumping' = TRUE
  /\ UNCHANGED <<retry_count, queue, congestion, completed, status, started,
                 stopped, next_timer_id, engine, engine_stopped,
                 timeout_reported>>

shutdown ==
  /\ ~stopped /\ ~pumping
  /\ stopped' = TRUE
  /\ timers' = [t \in DOMAIN timers \ {pending[i] : i \in DOMAIN pending} |-> timers[t]]
  /\ callbacks' = callbacks \ DOMAIN pending
  /\ expired' = expired \cup DOMAIN pending
  /\ pending' = EmptyMap
  /\ state' = [i \in Items |->
       IF state[i] \in {"Queued", "Submitted"} THEN "Cancelled" ELSE state[i]]
  /\ queue' = <<>>
  /\ engine_stopped' = TRUE
  /\ UNCHANGED <<retry_count, congestion, completed, status, started, pumping,
                 next_timer_id, engine, timeout_reported>>

-----------------------------------------------------------------------------
(* pump().                                                                 *)

finish_if_idle ==
  engine_stopped' = (engine_stopped \/
    (started' /\ ~stopped' /\ queue' = <<>> /\ DOMAIN pending' = {}))

PumpLoops ==
  /\ pumping /\ status = "Ok" /\ ~stopped /\ queue # <<>>
  /\ Cardinality(DOMAIN pending) < congestion.current_parallelism

(***************************************************************************)
(* next_queued(): the first id of the queue whose item is still queued,    *)
(* the ids before it being thrown away.                                    *)
(***************************************************************************)
QueuedAt(n) ==
  /\ n \in DOMAIN queue /\ state[queue[n]] = "Queued"
  /\ \A m \in 1..(n - 1) : state[queue[m]] # "Queued"

PumpReturns ==
  /\ pumping
  /\ \/ ~PumpLoops /\ UNCHANGED queue
     \/ PumpLoops /\ (\A n \in DOMAIN queue : ~QueuedAt(n)) /\ queue' = <<>>
  /\ pumping' = FALSE
  /\ UNCHANGED <<state, retry_count, congestion, pending, completed, expired,
                 status, started, stopped, timerVars, engine, callbacks,
                 timeout_reported>>
  /\ finish_if_idle

PumpSubmits(n) ==
  /\ PumpLoops /\ QueuedAt(n)
  /\ queue' = SubSeq(queue, n + 1, Len(queue))
  /\ state' = [state EXCEPT ![queue[n]] = "Submitted"]
  /\ pending' = With(pending, queue[n], next_timer_id)
  /\ timers' = With(timers, next_timer_id, queue[n])
  /\ next_timer_id' = next_timer_id + 1
  /\ callbacks' = callbacks \cup {queue[n]}
  /\ UNCHANGED <<retry_count, congestion, completed, expired, status, started,
                 stopped, pumping, engine, engine_stopped, timeout_reported>>

(***************************************************************************)
(* No timer, or the transport refuses the item: it fails, the status is    *)
(* spoiled and the loop breaks.                                            *)
(***************************************************************************)
PumpFails(n, s, armed) ==
  /\ PumpLoops /\ QueuedAt(n)
  /\ queue' = SubSeq(queue, n + 1, Len(queue))
  /\ state' = [state EXCEPT ![queue[n]] = "Failed"]
  /\ next_timer_id' = IF armed THEN next_timer_id + 1 ELSE next_timer_id
  /\ status' = s
  /\ pumping' = FALSE
  /\ UNCHANGED <<retry_count, congestion, pending, completed, expired, started,
                 stopped, timers, engine, callbacks, timeout_reported>>
  /\ finish_if_idle

-----------------------------------------------------------------------------
(* Completions and timers.                                                 *)

Dispatching == engine = "running" /\ ~pumping /\ ~engine_stopped

MayRetry(i) == retry_count[i] < MaxRetries

(***************************************************************************)
(* The reactor fails and run() returns with the failure as its status.     *)
(***************************************************************************)
run_fails ==
  /\ EngineMayFail /\ Dispatching /\ DOMAIN timers # {}
  /\ engine' = "idle"
  /\ status' = IF status = "Ok" THEN "IoError" ELSE status
  /\ UNCHANGED <<group, congestion, pending, completed, expired, started,
                 stopped, pumping, timerVars, engine_stopped, callbacks,
                 timeout_reported>>

(***************************************************************************)
(* AdaptiveScheduler::on_timeout() past its early return (on_timeout here  *)
(* is the congestion controller's): the attempt expired, and the item is   *)
(* queued again while it has retries left.                                 *)
(***************************************************************************)
expire(i) ==
  /\ callbacks' = callbacks \ {i}
  /\ pending' = Without(pending, i)
  /\ expired' = expired \cup {i}
  /\ congestion' = on_timeout(congestion)
  /\ IF MayRetry(i)
       THEN /\ state' = [state EXCEPT ![i] = "Queued"]
            /\ retry_count' = [retry_count EXCEPT ![i] = @ + 1]
            /\ queue' = Append(queue, i)
       ELSE /\ state' = [state EXCEPT ![i] = "TimedOut"]
            /\ UNCHANGED <<retry_count, queue>>
  /\ pumping' = TRUE
  /\ UNCHANGED <<completed, status, started, stopped, next_timer_id, engine,
                 engine_stopped>>

complete_pending(i) ==
  /\ timers' = Without(timers, pending[i])
  /\ callbacks' = callbacks \ {i}
  /\ pending' = Without(pending, i)
  /\ state' = [state EXCEPT ![i] = "Completed"]
  /\ congestion' = on_response(congestion)
  /\ completed' = completed \cup {i}
  /\ pumping' = TRUE
  /\ UNCHANGED <<retry_count, queue, expired, status, started, stopped,
                 next_timer_id, engine, engine_stopped, timeout_reported>>

fail_pending(i) ==
  /\ timers' = Without(timers, pending[i])
  /\ callbacks' = callbacks \ {i}
  /\ pending' = Without(pending, i)
  /\ state' = [state EXCEPT ![i] = "Failed"]
  /\ completed' = completed \cup {i}
  /\ pumping' = TRUE
  /\ UNCHANGED <<retry_count, queue, congestion, expired, status, started, stopped,
                 next_timer_id, engine, engine_stopped, timeout_reported>>

(***************************************************************************)
(* receive() for a pending item.  A Timeout reported by the transport runs *)
(* on_timeout() too, and leaves the attempt's own timer armed.             *)
(***************************************************************************)
receive(i, completion) ==
  /\ Dispatching /\ ~stopped /\ i \in callbacks /\ i \in DOMAIN pending
  /\ \/ completion = "ValidResponse" /\ complete_pending(i)
     \/ /\ completion = "Timeout" /\ ReportsTimeouts
        /\ expire(i)
        /\ timeout_reported' = TRUE
        /\ UNCHANGED timers
     \/ completion \in {"MalformedResponse", "Failed"} /\ fail_pending(i)

(***************************************************************************)
(* A timer fires: the engine erases it, and on_timeout() looks its item up *)
(* among the pending ones.                                                 *)
(***************************************************************************)
timer_fires(t) ==
  /\ Dispatching /\ t \in DOMAIN timers
  /\ timers' = Without(timers, t)
  /\ IF timers[t] \in DOMAIN pending /\ ~stopped
       THEN expire(timers[t])
       ELSE UNCHANGED <<group, congestion, pending, completed, expired, status,
                        started, stopped, pumping, next_timer_id, engine,
                        engine_stopped, callbacks>>
  /\ UNCHANGED timeout_reported

-----------------------------------------------------------------------------
Pump ==
  \/ PumpReturns
  \/ \E n \in DOMAIN queue :
       \/ PumpSubmits(n)
       \/ TimerMayFail /\ PumpFails(n, "InternalError", FALSE)
       \/ \E s \in SubmitFailures : PumpFails(n, s, TRUE)

TimerFires == \E t \in DOMAIN timers : timer_fires(t)

Completions ==
  \E i \in callbacks :
    \E c \in {"ValidResponse", "Timeout", "MalformedResponse", "Failed"} : receive(i, c)

Caller ==
  \/ \E i \in Items : enqueue(i) \/ cancel(i)
  \/ start \/ run \/ shutdown

(***************************************************************************)
(* Nothing is left to do once the scheduler is shut down and run() is over.*)
(***************************************************************************)
Finished == stopped /\ engine = "idle" /\ ~pumping /\ UNCHANGED vars

Next ==
  \/ Caller \/ Pump \/ TimerFires \/ Completions
  \/ run_returns \/ run_fails \/ Finished

Spec == Init /\ [][Next]_vars

(***************************************************************************)
(* pump() runs to its end and a running engine dispatches its timers.      *)
(***************************************************************************)
FairSpec == Spec /\ WF_vars(Pump) /\ WF_vars(TimerFires) /\ WF_vars(run_returns)

-----------------------------------------------------------------------------
(* Properties.                                                             *)

(***************************************************************************)
(* Every variable keeps its shape; the window stays within the profile.    *)
(***************************************************************************)
TypeOK ==
  /\ state \in [Items -> WorkState] /\ retry_count \in [Items -> 0..MaxRetries]
  /\ queue \in Seq(Items) /\ congestion \in CongestionState
  /\ pending \in [DOMAIN pending -> 1..(next_timer_id - 1)] /\ DOMAIN pending \subseteq Items
  /\ completed \subseteq Items /\ expired \subseteq Items
  /\ started \in BOOLEAN /\ stopped \in BOOLEAN /\ pumping \in BOOLEAN
  /\ timers \in [DOMAIN timers -> Items] /\ DOMAIN timers \subseteq 1..(next_timer_id - 1)
  /\ next_timer_id \in Nat \ {0}
  /\ engine \in {"idle", "running"} /\ engine_stopped \in BOOLEAN
  /\ callbacks \subseteq Items /\ timeout_reported \in BOOLEAN

(***************************************************************************)
(* The group's view and the scheduler's view of an item agree, through     *)
(* retries, cancellation and shutdown: submitted means pending, with a     *)
(* callback at the transport, and queued means exactly once in the queue.  *)
(* An answered or failed item is never worked on again.  Every armed timer *)
(* is that of the attempt pending now, as long as the transport has not    *)
(* reported a timeout itself: a timer of an earlier attempt would expire   *)
(* the retry early, or call a destroyed scheduler.  The window stays in    *)
(* the profile, and no item has more attempts than allowed.                *)
(***************************************************************************)
LifecycleConsistent ==
  /\ TypeOK
  /\ \A i \in Items :
       /\ state[i] = "Submitted" <=> i \in DOMAIN pending
       /\ i \in callbacks <=> i \in DOMAIN pending
       /\ state[i] = "Queued" => Cardinality({n \in DOMAIN queue : queue[n] = i}) = 1
       /\ i \in completed => state[i] \in {"Completed", "Failed"}
  /\ ~timeout_reported =>
       /\ \A t \in DOMAIN timers : timers[t] \in DOMAIN pending /\ pending[timers[t]] = t
       /\ \A i \in DOMAIN pending : pending[i] \in DOMAIN timers

(***************************************************************************)
(* A run of the engine ends.                                               *)
(***************************************************************************)
RunEnds == (engine = "running") ~> (engine = "idle")

=============================================================================
