------------------------------ MODULE IOEngine ------------------------------
(***************************************************************************)
(* IOEngine (src/io/io_engine.cpp): the single-threaded epoll reactor that *)
(* every scheduler and transport shares.                                   *)
(*                                                                         *)
(* One pass of the loop waits, dispatches the batch of readiness records   *)
(* epoll_wait() returned, then dispatches the timers that are due.  While  *)
(* a callback runs it may call the engine again: register and unregister   *)
(* events, schedule and cancel timers, stop or shut down the engine.  The  *)
(* rest of the batch and the heap of deadlines were computed before that.  *)
(*                                                                         *)
(* Readiness is decided by the kernel: a batch is any sequence of events   *)
(* registered at the time of the wait.  Masks, and modify() which changes  *)
(* only a mask, are left out.  An empty batch stands for a wait that timed *)
(* out or was interrupted (EINTR).                                         *)
(***************************************************************************)
EXTENDS Integers, Sequences, FiniteSets

CONSTANTS
  Events,        \* the caller's Event objects
  Delays,        \* the delays timers are scheduled with
  MaxToken,      \* bound: registrations
  MaxTimer,      \* bound: timers
  MaxTime,       \* bound: clock, and so deadlines
  WaitMayFail    \* epoll_wait() may fail

ASSUME EngineAssumption ==
  /\ IsFiniteSet(Events) /\ Delays \subseteq Nat
  /\ MaxToken \in Nat /\ MaxTimer \in Nat /\ MaxTime \in Nat
  /\ WaitMayFail \in BOOLEAN

VARIABLES
  token,             \* registration_token_ of each event, 0 when unregistered
  next_event_token,
  timers,            \* timers_: the deadline of each live timer
  timer_queue,       \* timer_queue_: a heap of [deadline, id], stale entries included
  next_timer_id,
  now,               \* TimerClock::now()
  closed,            \* epoll_fd_ < 0 after shutdown()
  running, stopped,
  pc,                \* where the loop is
  once,              \* the loop is run_once(), not run()
  batch,             \* the readiness records not yet dispatched
  current,           \* what the running callback was dispatched for
  retired,           \* history: tokens of registrations that ended
  gone,              \* history: timers that fired or were cancelled
  stop_requested     \* history: a callback has called stop() in this loop

registry == <<token, next_event_token, retired>>
clock == <<timers, timer_queue, next_timer_id, gone>>
loop == <<running, stopped, pc, once, batch, current, stop_requested>>
vars == <<registry, clock, now, closed, loop>>

Init ==
  /\ token = [e \in Events |-> 0] /\ next_event_token = 1
  /\ timers = [t \in {} |-> 0] /\ timer_queue = {} /\ next_timer_id = 1
  /\ now = 0 /\ closed = FALSE
  /\ running = FALSE /\ stopped = FALSE /\ pc = "outside" /\ once = FALSE
  /\ batch = <<>> /\ current = [token |-> 0, event |-> "none", timer |-> 0]
  /\ retired = {} /\ gone = {} /\ stop_requested = FALSE

Registered == {e \in Events : token[e] # 0}
Idle == Registered = {} /\ DOMAIN timers = {}
Live(entry) == entry.id \in DOMAIN timers

(***************************************************************************)
(* Faulty variant, for the sensitivity of the checks: the heap is ordered  *)
(* the wrong way.                                                          *)
(***************************************************************************)
latest_first(entry) == \A other \in timer_queue : entry.deadline >= other.deadline

Top(entry) == \A other \in timer_queue : entry.deadline <= other.deadline

-----------------------------------------------------------------------------
(* The interface, called by the owner or from inside a callback.           *)

InCallback == pc \in {"event_callback", "timer_callback"}
MayCall == pc = "outside" \/ InCallback

Add(e) ==
  /\ MayCall /\ ~closed /\ token[e] = 0 /\ next_event_token <= MaxToken
  /\ token' = [token EXCEPT ![e] = next_event_token]
  /\ next_event_token' = next_event_token + 1
  /\ UNCHANGED <<retired, clock, now, closed, loop>>

(***************************************************************************)
(* epoll_ctl(ADD) fails after the token has been taken.                    *)
(***************************************************************************)
AddFails(e) ==
  /\ MayCall /\ ~closed /\ token[e] = 0 /\ next_event_token <= MaxToken
  /\ next_event_token' = next_event_token + 1
  /\ UNCHANGED <<token, retired, clock, now, closed, loop>>

RemoveEvent(e) ==
  /\ MayCall /\ ~closed /\ token[e] # 0
  /\ token' = [token EXCEPT ![e] = 0]
  /\ retired' = retired \cup {token[e]}
  /\ UNCHANGED <<next_event_token, clock, now, closed, loop>>

Schedule(delay) ==
  /\ MayCall /\ ~closed /\ next_timer_id <= MaxTimer
  /\ now + delay <= MaxTime
  /\ timers' = [t \in DOMAIN timers \cup {next_timer_id} |->
                  IF t = next_timer_id THEN now + delay ELSE timers[t]]
  /\ timer_queue' = timer_queue \cup {[deadline |-> now + delay, id |-> next_timer_id]}
  /\ next_timer_id' = next_timer_id + 1
  /\ UNCHANGED <<gone, registry, now, closed, loop>>

(***************************************************************************)
(* cancel() erases the timer and leaves its heap entry behind.             *)
(***************************************************************************)
Cancel(t) ==
  /\ MayCall /\ t \in DOMAIN timers
  /\ timers' = [u \in DOMAIN timers \ {t} |-> timers[u]]
  /\ gone' = gone \cup {t}
  /\ UNCHANGED <<timer_queue, next_timer_id, registry, now, closed, loop>>

Stop ==
  /\ MayCall
  /\ stopped' = TRUE
  /\ stop_requested' = (stop_requested \/ InCallback)
  /\ UNCHANGED <<registry, clock, now, closed, running, pc, once, batch, current>>

Shutdown ==
  /\ MayCall /\ ~closed
  /\ token' = [e \in Events |-> 0]
  /\ retired' = retired \cup {token[e] : e \in Registered}
  /\ timers' = [t \in {} |-> 0] /\ timer_queue' = {}
  /\ gone' = gone \cup DOMAIN timers
  /\ closed' = TRUE /\ running' = FALSE /\ stopped' = TRUE
  /\ UNCHANGED <<next_event_token, next_timer_id, now, pc, once, batch, current,
                 stop_requested>>

-----------------------------------------------------------------------------
(* run() and run_once().                                                   *)

(***************************************************************************)
(* Both refuse a closed engine and a nested call, and both clear stopped_. *)
(***************************************************************************)
Enter(single) ==
  /\ pc = "outside" /\ ~closed /\ ~running
  /\ stopped' = FALSE /\ running' = TRUE
  /\ once' = single /\ pc' = "wait"
  /\ UNCHANGED <<registry, clock, now, closed, batch, current, stop_requested>>

(***************************************************************************)
(* The loop ends; run_once() also forgets a stop() that was requested.     *)
(***************************************************************************)
Leave ==
  /\ pc' = "outside" /\ running' = FALSE
  /\ stopped' = IF once THEN FALSE ELSE stopped
  /\ stop_requested' = FALSE
  /\ batch' = <<>>
  /\ UNCHANGED <<registry, clock, now, closed, once, current>>

RunEnds == pc = "wait" /\ ((~once /\ stopped) \/ Idle) /\ Leave

(***************************************************************************)
(* Faulty variant, for the sensitivity of the checks: entries that are due *)
(* are dropped as if they were stale.                                      *)
(***************************************************************************)
purge_due == {x \in timer_queue : x.deadline > now}

(***************************************************************************)
(* Heap entries of dead timers above the earliest live one are dropped     *)
(* before the wait.                                                        *)
(***************************************************************************)
Purged ==
  {x \in timer_queue : \E y \in timer_queue : Live(y) /\ y.deadline <= x.deadline}

Batches ==
  UNION {{s \in [1..n -> Registered] : \A i, j \in 1..n : s[i] = s[j] => i = j} :
           n \in 0..Cardinality(Registered)}

MayWait == pc = "wait" /\ (once \/ ~stopped) /\ ~Idle

Wait ==
  /\ MayWait
  /\ timer_queue' = Purged
  /\ \E b \in Batches :
       batch' = [i \in DOMAIN b |-> [token |-> token[b[i]], event |-> b[i]]]
  /\ pc' = "events"
  /\ UNCHANGED <<registry, timers, next_timer_id, gone, now, closed, running,
                 stopped, once, current, stop_requested>>

WaitFails == WaitMayFail /\ MayWait /\ Leave

(***************************************************************************)
(* Faulty variant, for the sensitivity of the checks: the record carries   *)
(* the event itself.                                                       *)
(***************************************************************************)
lookup_by_pointer(record) == {record.event}

(***************************************************************************)
(* The event a readiness record is delivered to: the one that still owns   *)
(* the record's token, if any.                                             *)
(***************************************************************************)
Lookup(record) == {e \in Events : token[e] = record.token}

DispatchEvent ==
  /\ pc = "events" /\ batch # <<>>
  /\ batch' = Tail(batch)
  /\ \/ /\ Lookup(Head(batch)) = {}
        /\ UNCHANGED <<pc, current>>
     \/ /\ \E e \in Lookup(Head(batch)) :
             current' = [token |-> Head(batch).token, event |-> e, timer |-> 0]
        /\ pc' = "event_callback"
  /\ UNCHANGED <<registry, clock, now, closed, running, stopped, once, stop_requested>>

EventsDone ==
  /\ pc = "events" /\ batch = <<>>
  /\ pc' = "timers"
  /\ UNCHANGED <<registry, clock, now, closed, running, stopped, once, batch,
                 current, stop_requested>>

(***************************************************************************)
(* After an event callback a stop breaks out of the batch.                 *)
(***************************************************************************)
EventCallbackReturns ==
  /\ pc = "event_callback"
  /\ IF stopped THEN pc' = "timers" /\ batch' = <<>>
                ELSE pc' = "events" /\ UNCHANGED batch
  /\ UNCHANGED <<registry, clock, now, closed, running, stopped, once, current,
                 stop_requested>>

(***************************************************************************)
(* dispatch_timers(): pop the top of the heap while it is due; a live      *)
(* timer is erased before its callback runs.                               *)
(***************************************************************************)
DispatchTimer ==
  /\ pc = "timers" /\ ~stopped
  /\ \E entry \in timer_queue :
       /\ Top(entry) /\ entry.deadline <= now
       /\ timer_queue' = timer_queue \ {entry}
       /\ \/ /\ ~Live(entry)
             /\ UNCHANGED <<timers, gone, pc, current>>
          \/ /\ Live(entry)
             /\ timers' = [t \in DOMAIN timers \ {entry.id} |-> timers[t]]
             /\ gone' = gone \cup {entry.id}
             /\ current' = [token |-> 0, event |-> "none", timer |-> entry.id]
             /\ pc' = "timer_callback"
  /\ UNCHANGED <<next_timer_id, registry, now, closed, running, stopped, once,
                 batch, stop_requested>>

TimerCallbackReturns ==
  /\ pc = "timer_callback"
  /\ pc' = "timers"
  /\ UNCHANGED <<registry, clock, now, closed, running, stopped, once, batch,
                 current, stop_requested>>

TimersDone ==
  /\ pc = "timers"
  /\ stopped \/ \A entry \in timer_queue : entry.deadline > now
  /\ IF once THEN Leave
     ELSE /\ pc' = "wait"
          /\ UNCHANGED <<registry, clock, now, closed, running, stopped, once,
                         batch, current, stop_requested>>

Tick ==
  /\ now < MaxTime /\ now' = now + 1
  /\ UNCHANGED <<registry, clock, closed, loop>>

-----------------------------------------------------------------------------
Interface ==
  \/ \E e \in Events : Add(e) \/ AddFails(e) \/ RemoveEvent(e)
  \/ \E d \in Delays : Schedule(d)
  \/ \E t \in DOMAIN timers : Cancel(t)
  \/ Stop
  \/ Shutdown

Step ==
  \/ RunEnds \/ Wait \/ WaitFails \/ DispatchEvent \/ EventsDone
  \/ EventCallbackReturns \/ DispatchTimer \/ TimerCallbackReturns \/ TimersDone

Next == Interface \/ (\E single \in BOOLEAN : Enter(single)) \/ Step \/ Tick

Spec == Init /\ [][Next]_vars

(***************************************************************************)
(* The loop keeps running once entered, callbacks return, the steady clock *)
(* advances.                                                               *)
(***************************************************************************)
FairSpec == Spec /\ WF_vars(Step) /\ WF_vars(Tick)

-----------------------------------------------------------------------------
(* Properties.                                                             *)

(***************************************************************************)
(* A readiness record only reaches the registration it was reported for:   *)
(* an event removed, or removed and added again, by an earlier callback of *)
(* the same batch is not called for the stale record, and after shutdown() *)
(* none is called.  After a stop() from a callback run() does not wait for *)
(* another batch.                                                          *)
(***************************************************************************)
NoStaleDispatch ==
  [][/\ pc = "events" /\ pc' = "event_callback" =>
          /\ ~closed
          /\ current'.token = token[current'.event]
          /\ current'.token \notin retired
          /\ current'.event = Head(batch).event
     /\ pc = "wait" /\ pc' = "events" => once \/ ~stop_requested]_vars

(***************************************************************************)
(* A timer fires at most once, never after it was cancelled or the engine  *)
(* was shut down, never before its deadline, and never ahead of a live     *)
(* timer with an earlier deadline.                                         *)
(***************************************************************************)
TimersFireInOrder ==
  [][pc = "timers" /\ pc' = "timer_callback" =>
       LET t == current'.timer IN
       /\ ~closed
       /\ t \in DOMAIN timers /\ t \notin gone
       /\ timers[t] <= now
       /\ \A u \in DOMAIN timers : timers[t] <= timers[u]]_vars

(***************************************************************************)
(* While a loop runs, a live timer is not left behind, by lazy             *)
(* cancellation, by purging or by a stream of ready events: it fires, is   *)
(* cancelled, or the loop ends.                                            *)
(***************************************************************************)
TimersServed ==
  \A t \in 1..MaxTimer :
    (t \in DOMAIN timers /\ pc # "outside") ~> (t \notin DOMAIN timers \/ pc = "outside")

=============================================================================
