---------------------------- MODULE ServiceScan ----------------------------
(***************************************************************************)
(* Service detection: ServiceScheduler over ServiceTransportRouter and its *)
(* TCP and UDP transports (src/detect), on the shared reactor.             *)
(*                                                                         *)
(* An open port is tried with one probe after the other.  A TCP answer     *)
(* comes in chunks and every chunk is matched again, so evidence can get   *)
(* better, and for HTTP also be withdrawn.  Callbacks run inside submit()  *)
(* and inside other callbacks; cancelling a connection in its own callback *)
(* is put off until the callback returns.  Timing is the fixed one         *)
(* (config.adaptive_timing is false).                                      *)
(***************************************************************************)
EXTENDS Integers, Sequences, FiniteSets, FiniteSetsExt

CONSTANTS
  Order,          \* the open ports in the order of submission
  Tcp,            \* the TCP ones
  Probes,         \* how many probes the database orders for each
  Unparsable,     \* the ports of hosts whose address does not parse
  Limits,         \* the values of config.max_outstanding to try
  MaxRetries,     \* config.retries
  MaxResponse,    \* config.max_response_bytes, in chunks
  TimerMayFail,   \* engine.schedule() may return 0
  SocketErrors    \* what transport.submit() may return

Services == {Order[i] : i \in DOMAIN Order}

ASSUME ServiceAssumption ==
  /\ Order \in Seq(Services) /\ IsInjective(Order) /\ Tcp \subseteq Services /\ Unparsable \subseteq Services
  /\ Probes \in [Services -> Nat] /\ Limits \subseteq Nat \ {0}
  /\ MaxRetries \in Nat /\ MaxResponse \in Nat \ {0} /\ TimerMayFail \in BOOLEAN

VARIABLES
  phase,        \* created, submitting, refused or submitted, running, returned, destroyed
  limit,        \* config.max_outstanding
  shared,       \* other stages left events registered on the reactor
  queue,        \* queue_
  pending,      \* pending_, by probe id
  deferred,     \* deferred_retries_, by retry id
  next_id,      \* next_id_
  next_retry,   \* next_retry_id_
  results,      \* results_ of each service
  status,       \* status_
  timers,       \* IOEngine::timers_, by what they call
  stopped,      \* IOEngine::stopped_
  pumping,      \* who called pump(): "no", "submit" or a "handler"
  connections,  \* ServiceTcpTransport::connections_
  datagrams,    \* ServiceUdpTransport::datagrams_
  routes        \* ServiceTransportRouter::routes_

schedulerVars == <<queue, pending, deferred, next_id, next_retry, results, status>>
transportVars == <<connections, datagrams, routes>>
configVars == <<limit, shared>>
vars == <<phase, configVars, schedulerVars, timers, stopped, pumping, transportVars>>

-----------------------------------------------------------------------------
EmptyMap == [x \in {} |-> x]
Without(f, x) == [y \in DOMAIN f \ {x} |-> f[y]]
With(f, x, v) == [y \in DOMAIN f \cup {x} |-> IF y = x THEN v ELSE f[y]]

(***************************************************************************)
(* A match is its place in the order of service_match_is_better(): none, a *)
(* soft one below the published confidence, a soft one, a hard one.        *)
(***************************************************************************)
Unmatched == 0
Hard == 3
service_match_is_publishable(match) == match >= 2
service_match_is_better(match, incumbent) == match > incumbent

(***************************************************************************)
(* Work carries, as history, the best match that stands (kept) and that of *)
(* the last parse of an HTTP response that is still arriving (now).        *)
(***************************************************************************)
NewWork(s) == [svc |-> s, next_probe |-> 1, retry |-> 0, best_match |-> Unmatched,
               kept |-> Unmatched, now |-> Unmatched]
Ended(work) == [work EXCEPT !.kept = Max({@, work.now}), !.now = Unmatched]

Init ==
  /\ phase = "created" /\ limit \in Limits /\ shared \in BOOLEAN
  /\ queue = <<>> /\ pending = EmptyMap /\ deferred = EmptyMap
  /\ next_id = 1 /\ next_retry = 1 /\ results = [s \in Services |-> <<>>] /\ status = "Ok"
  /\ timers = {} /\ stopped = FALSE /\ pumping = "no"
  /\ connections = EmptyMap /\ datagrams = {} /\ routes = {}

complete ==
  phase # "created" /\ queue = <<>> /\ pending = EmptyMap /\ deferred = EmptyMap

(***************************************************************************)
(* Faulty variant, for the sensitivity of the checks: retries that wait    *)
(* are forgotten, and nothing stops the reactor once the queue was empty.  *)
(***************************************************************************)
stop_ignores_deferred == phase = "submitting" /\ queue = <<>> /\ pending = EmptyMap

stop_if_idle == complete

-----------------------------------------------------------------------------
(* Where work goes when its attempt is over; T are the timers left.        *)

Keep == UNCHANGED <<deferred, next_retry>>

append_result(work, state, match) ==
  results' = [results EXCEPT ![work.svc] =
    Append(@, [state |-> state, match |-> match, heard |-> Ended(work).kept])]

Answered(work, state, match, q, T) ==
  /\ append_result(work, state, match)
  /\ queue' = q /\ timers' = T
  /\ UNCHANGED status /\ Keep

NextProbe(work, q, T) ==
  /\ queue' = <<work>> \o q /\ timers' = T
  /\ UNCHANGED <<results, status>> /\ Keep

HasNextProbe(work) == work.next_probe < Probes[work.svc]
Advanced(work) == [Ended(work) EXCEPT !.next_probe = @ + 1]

(***************************************************************************)
(* defer_retry(): the timer may be refused, the retry id is used up then.  *)
(***************************************************************************)
defer_retry(work, q, T) ==
  /\ deferred' = With(deferred, next_retry, [Ended(work) EXCEPT !.retry = @ + 1])
  /\ next_retry' = next_retry + 1
  /\ timers' = T \cup {<<"retry", next_retry>>}
  /\ queue' = q /\ UNCHANGED <<results, status>>

(***************************************************************************)
(* Faulty variant, for the sensitivity of the checks: a refused timer is   *)
(* not an error.                                                           *)
(***************************************************************************)
retry_refused_quietly(q, T) ==
  /\ TimerMayFail
  /\ next_retry' = next_retry + 1 /\ UNCHANGED status
  /\ queue' = q /\ timers' = T /\ UNCHANGED deferred

RetryRefused(q, T) ==
  /\ TimerMayFail
  /\ next_retry' = next_retry + 1 /\ status' = "InternalError"
  /\ queue' = q /\ timers' = T /\ UNCHANGED deferred

(***************************************************************************)
(* receive() of a SocketError.  A transient one of a TCP probe is retried, *)
(* then the next probe has its turn; work whose retry cannot be scheduled  *)
(* is dropped with the error.                                              *)
(***************************************************************************)
SocketError(work, transient, q, T) ==
  LET retried == transient /\ work.svc \in Tcp IN
  \/ /\ retried /\ work.retry < MaxRetries
     /\ \/ defer_retry(work, q, T)
        \/ RetryRefused(q, T) /\ UNCHANGED results
  \/ /\ retried /\ work.retry >= MaxRetries /\ HasNextProbe(work)
     /\ NextProbe([Advanced(work) EXCEPT !.retry = 0], q, T)
  \/ /\ retried /\ work.retry >= MaxRetries /\ ~HasNextProbe(work)
     /\ service_match_is_publishable(work.best_match)
     /\ Answered(work, "Detected", work.best_match, q, T)
  \/ /\ \/ ~retried
        \/ /\ work.retry >= MaxRetries /\ ~HasNextProbe(work)
           /\ ~service_match_is_publishable(work.best_match)
     /\ Answered(work, "Error", Unmatched, q, T)

-----------------------------------------------------------------------------
(* submit() and pump().                                                    *)

(***************************************************************************)
(* A port without host or number: it is answered, all others are dropped.  *)
(***************************************************************************)
SubmitInvalid(s) ==
  /\ phase = "created"
  /\ phase' = "refused" /\ status' = "InvalidArgument"
  /\ append_result(NewWork(s), "InvalidTarget", Unmatched)
  /\ stopped' = TRUE
  /\ UNCHANGED <<configVars, queue, pending, deferred, next_id, next_retry, timers, pumping,
                 transportVars>>

(***************************************************************************)
(* The ports that have probes are queued in their order.                   *)
(***************************************************************************)
Served == {i \in DOMAIN Order : Probes[Order[i]] > 0}

submit ==
  /\ phase = "created"
  /\ phase' = "submitting" /\ pumping' = "submit"
  /\ \E at \in [1..Cardinality(Served) -> Served] :
       /\ \A i, j \in DOMAIN at : i < j => at[i] < at[j]
       /\ queue' = [i \in DOMAIN at |-> NewWork(Order[at[i]])]
  /\ results' = [s \in Services |->
       IF Probes[s] = 0 THEN <<[state |-> "Unknown", match |-> Unmatched, heard |-> Unmatched]>>
                        ELSE <<>>]
  /\ UNCHANGED <<configVars, pending, deferred, next_id, next_retry, status, timers, stopped,
                 transportVars>>

PumpLoops ==
  pumping # "no" /\ status = "Ok" /\ queue # <<>> /\ Cardinality(DOMAIN pending) < limit

(***************************************************************************)
(* The end of emit(), when the callbacks return: a connection that was     *)
(* cancelled in its callback is closed now.                                *)
(***************************************************************************)
Unwound ==
  [id \in DOMAIN connections |->
     [completed |-> connections[id].completed \/ connections[id].cancel_requested,
      callback_in_progress |-> FALSE, cancel_requested |-> FALSE]]

PumpReturns ==
  /\ pumping # "no" /\ ~PumpLoops
  /\ pumping' = "no"
  /\ phase' = IF pumping = "handler" THEN phase
              ELSE IF status = "Ok" THEN "submitted" ELSE "refused"
  /\ stopped' = (stopped \/ stop_if_idle)
  /\ connections' = Unwound
  /\ UNCHANGED <<configVars, schedulerVars, timers, datagrams, routes>>

PumpBuildFails ==
  /\ PumpLoops /\ Head(queue).svc \in Unparsable
  /\ next_id' = next_id + 1
  /\ Answered(Head(queue), "Error", Unmatched, Tail(queue), timers)
  /\ UNCHANGED <<phase, configVars, pending, stopped, pumping, transportVars>>

Building == PumpLoops /\ Head(queue).svc \notin Unparsable

(***************************************************************************)
(* No deadline, or no socket: the port is answered and the error ends the  *)
(* loop.  Only a TCP submit() has reaped the completed connections.        *)
(***************************************************************************)
PumpFails(error) ==
  /\ Building
  /\ next_id' = next_id + 1 /\ status' = error
  /\ queue' = Tail(queue) /\ append_result(Head(queue), "Error", Unmatched)
  /\ UNCHANGED <<phase, configVars, pending, timers, stopped, pumping, datagrams, routes>>
  /\ Keep

reap_completed ==
  [id \in {i \in DOMAIN connections : connections[i].completed =>
                                        connections[i].callback_in_progress} |-> connections[id]]

PumpTimerFails == TimerMayFail /\ PumpFails("InternalError") /\ UNCHANGED connections

PumpSubmitFails(error) ==
  /\ PumpFails(error)
  /\ connections' = IF Head(queue).svc \in Tcp THEN reap_completed ELSE connections

PumpSubmits ==
  LET work == Head(queue) IN
  /\ Building
  /\ queue' = Tail(queue) /\ next_id' = next_id + 1
  /\ pending' = With(pending, next_id, [work |-> work, response |-> 0, http_snapshot |-> FALSE,
                                        previous_best_match |-> Unmatched])
  /\ timers' = timers \cup {<<"probe", next_id>>}
  /\ routes' = routes \cup {next_id}
  /\ \/ /\ work.svc \in Tcp
        /\ connections' = With(reap_completed, next_id,
             [completed |-> FALSE, callback_in_progress |-> FALSE, cancel_requested |-> FALSE])
        /\ UNCHANGED datagrams
     \/ /\ work.svc \notin Tcp
        /\ datagrams' = datagrams \cup {next_id}
        /\ UNCHANGED connections
  /\ UNCHANGED <<phase, configVars, deferred, next_retry, results, status, stopped, pumping>>

(***************************************************************************)
(* connect() or the first send() fails at once: the callback runs inside   *)
(* submit(), receive() takes the probe back and its pump() goes on with    *)
(* the same loop.  A connection whose send() failed stays, completed, in   *)
(* its callback.                                                           *)
(***************************************************************************)
PumpFailsInside(transient, established) ==
  LET work == Head(queue) IN
  /\ Building
  /\ next_id' = next_id + 1
  /\ SocketError(work, transient, Tail(queue), timers)
  /\ connections' =
       IF work.svc \notin Tcp THEN connections
       ELSE IF ~established THEN reap_completed
       ELSE With(reap_completed, next_id, [completed |-> TRUE, callback_in_progress |-> TRUE,
                                           cancel_requested |-> FALSE])
  /\ UNCHANGED <<phase, configVars, pending, stopped, pumping, datagrams, routes>>

-----------------------------------------------------------------------------
(* The reactor.                                                            *)

Run ==
  /\ phase = "submitted"
  /\ phase' = "running" /\ stopped' = FALSE
  /\ UNCHANGED <<configVars, schedulerVars, timers, pumping, transportVars>>

Idle == phase = "running" /\ pumping = "no"
OpenConnections == {id \in DOMAIN connections : ~connections[id].completed}
Quiet == ~shared /\ timers = {} /\ OpenConnections = {} /\ datagrams = {}

RunReturns ==
  /\ Idle /\ (stopped \/ Quiet)
  /\ phase' = "returned"
  /\ UNCHANGED <<configVars, schedulerVars, timers, stopped, pumping, transportVars>>

Dispatching == Idle /\ ~stopped

(***************************************************************************)
(* An attempt leaves the tables, called from a timer or from its socket's  *)
(* callback (where emit() has ended a datagram and completed a connection  *)
(* whose response is terminal).                                            *)
(***************************************************************************)
Ends(id) == pending' = Without(pending, id) /\ routes' = routes \ {id}

cancel(id) ==
  /\ connections' = IF id \in OpenConnections THEN Without(connections, id) ELSE connections
  /\ datagrams' = datagrams \ {id}

(***************************************************************************)
(* Faulty variant, for the sensitivity of the checks: a cancel in the      *)
(* callback is lost.                                                       *)
(***************************************************************************)
emit_loses_cancel(id, terminal) ==
  /\ connections' =
       IF id \in DOMAIN connections
         THEN [connections EXCEPT ![id] = [completed |-> terminal, callback_in_progress |-> TRUE,
                                           cancel_requested |-> FALSE]]
         ELSE connections
  /\ datagrams' = datagrams \ {id}

emit(id, terminal) ==
  /\ connections' =
       IF id \in DOMAIN connections
         THEN [connections EXCEPT ![id] = [completed |-> terminal, callback_in_progress |-> TRUE,
                                           cancel_requested |-> ~terminal]]
         ELSE connections
  /\ datagrams' = datagrams \ {id}

RemainingTimers(id) == timers \ {<<"probe", id>>}

(***************************************************************************)
(* Every event below is one of a socket that is registered.                *)
(***************************************************************************)
Live(id) == Dispatching /\ id \in OpenConnections \cup datagrams
Handled == pumping' = "handler" /\ UNCHANGED <<phase, configVars, next_id, stopped>>

SocketFails(id, transient) ==
  /\ Live(id)
  /\ SocketError(pending[id].work, transient, queue, RemainingTimers(id))
  /\ Ends(id) /\ emit(id, TRUE) /\ Handled

TooLarge(id) ==
  /\ Live(id) /\ (id \in DOMAIN connections => pending[id].response = MaxResponse)
  /\ Answered(pending[id].work, "ResponseTooLarge", Unmatched, queue, RemainingTimers(id))
  /\ Ends(id) /\ emit(id, TRUE) /\ Handled

(***************************************************************************)
(* Faulty variant, for the sensitivity of the checks: the next parse of an *)
(* HTTP response competes with the one before.                             *)
(***************************************************************************)
parse_keeps_obsolete(p, http, match) ==
  LET best == p.work.best_match IN
  [p EXCEPT !.http_snapshot = http,
            !.work.best_match = IF service_match_is_better(match, best) THEN match ELSE best,
            !.work.kept = IF http THEN @ ELSE Max({@, match}),
            !.work.now = IF http THEN match ELSE @]

(***************************************************************************)
(* A response is parsed again.  If it looks like HTTP, what it gave before *)
(* is withdrawn: the match competes with those of earlier attempts only.   *)
(***************************************************************************)
Parsed(p, http, match) ==
  LET previous == IF p.http_snapshot THEN p.previous_best_match ELSE p.work.best_match
      best == IF http THEN previous ELSE p.work.best_match
  IN  [p EXCEPT !.http_snapshot = http,
                !.previous_best_match = IF http THEN previous ELSE @,
                !.work.best_match = IF service_match_is_better(match, best) THEN match ELSE best,
                !.work.kept = IF http THEN @ ELSE Max({@, match}),
                !.work.now = IF http THEN match ELSE @]

(***************************************************************************)
(* A chunk arrives.  A hard match is published at once, unless the line or *)
(* header it was found in is still incomplete (whole).                     *)
(***************************************************************************)
DataDetects(id, http, match) ==
  /\ Live(id) /\ pending[id].response < MaxResponse /\ (pending[id].http_snapshot => http)
  /\ match = Hard
  /\ LET p == Parsed(pending[id], http, match)
     IN  Answered(p.work, "Detected", match, queue, RemainingTimers(id))
  /\ Ends(id) /\ emit(id, FALSE) /\ Handled

DataWaits(id, http, match, whole) ==
  /\ Live(id) /\ pending[id].response < MaxResponse /\ (pending[id].http_snapshot => http)
  /\ ~(match = Hard /\ whole)
  /\ LET p == Parsed(pending[id], http, match)
     IN  pending' = [pending EXCEPT ![id] = [p EXCEPT !.response = @ + 1]]
  /\ datagrams' = datagrams \ {id}
  /\ UNCHANGED <<phase, configVars, queue, deferred, next_id, next_retry, results, status, timers,
                 stopped, pumping, connections, routes>>

(***************************************************************************)
(* The peer closes: a last parse, then the verdict or the next probe,      *)
(* which keeps the count of retries.                                       *)
(***************************************************************************)
Closed(id, match) ==
  LET p == IF pending[id].response = 0 THEN pending[id]
           ELSE Parsed(pending[id], pending[id].http_snapshot, match)
      best == p.work.best_match
      T == RemainingTimers(id)
  IN
  /\ Live(id) /\ (pending[id].response = 0 => match = Unmatched)
  /\ \/ best = Hard /\ Answered(p.work, "Detected", best, queue, T)
     \/ best # Hard /\ HasNextProbe(p.work) /\ NextProbe(Advanced(p.work), queue, T)
     \/ /\ best # Hard /\ ~HasNextProbe(p.work) /\ service_match_is_publishable(best)
        /\ Answered(p.work, "Detected", best, queue, T)
     \/ /\ ~HasNextProbe(p.work) /\ ~service_match_is_publishable(best)
        /\ Answered(p.work, "Unknown", Unmatched, queue, T)
  /\ Ends(id) /\ emit(id, TRUE) /\ Handled

-----------------------------------------------------------------------------
(* The timers.                                                             *)

(***************************************************************************)
(* on_timeout(): a retry first, whatever was found; then a hard match, the *)
(* next probe, any match that can be published, and in the end "Timeout".  *)
(* If the retry cannot be scheduled the same order holds, with the error.  *)
(***************************************************************************)
TimeoutVerdict(work) ==
  \/ work.best_match = Hard /\ append_result(work, "Detected", work.best_match) /\ queue' = queue
  \/ /\ work.best_match # Hard /\ HasNextProbe(work)
     /\ queue' = <<[Advanced(work) EXCEPT !.retry = 0]>> \o queue /\ UNCHANGED results
  \/ /\ work.best_match # Hard /\ ~HasNextProbe(work) /\ queue' = queue
     /\ \/ /\ service_match_is_publishable(work.best_match)
           /\ append_result(work, "Detected", work.best_match)
        \/ /\ ~service_match_is_publishable(work.best_match)
           /\ append_result(work, "Timeout", Unmatched)

on_timeout(id) ==
  LET work == pending[id].work T == RemainingTimers(id) IN
  /\ Dispatching /\ <<"probe", id>> \in timers
  /\ \/ work.retry < MaxRetries /\ defer_retry(work, queue, T)
     \/ /\ work.retry < MaxRetries /\ TimerMayFail
        /\ next_retry' = next_retry + 1 /\ status' = "InternalError"
        /\ timers' = T /\ UNCHANGED deferred /\ TimeoutVerdict(work)
     \/ /\ work.retry >= MaxRetries
        /\ timers' = T /\ UNCHANGED status /\ Keep /\ TimeoutVerdict(work)
  /\ Ends(id) /\ cancel(id) /\ Handled

on_retry_ready(retry) ==
  /\ Dispatching /\ <<"retry", retry>> \in timers
  /\ timers' = timers \ {<<"retry", retry>>}
  /\ queue' = <<deferred[retry]>> \o queue
  /\ deferred' = Without(deferred, retry)
  /\ UNCHANGED <<pending, next_retry, results, status, transportVars>>
  /\ Handled

(***************************************************************************)
(* ~ServiceScheduler() and then the transports' destructors.               *)
(***************************************************************************)
Destroy ==
  /\ phase \in {"refused", "returned"}
  /\ phase' = "destroyed"
  /\ timers' = timers \ ({<<"probe", id>> : id \in DOMAIN pending} \cup
                         {<<"retry", r>> : r \in DOMAIN deferred})
  /\ pending' = EmptyMap /\ deferred' = EmptyMap /\ queue' = <<>>
  /\ connections' = EmptyMap /\ datagrams' = {} /\ routes' = {}
  /\ UNCHANGED <<configVars, next_id, next_retry, results, status, stopped, pumping>>

-----------------------------------------------------------------------------
Setup == submit \/ \E s \in Services : SubmitInvalid(s)

pump ==
  \/ PumpReturns \/ PumpBuildFails \/ PumpTimerFails \/ PumpSubmits
  \/ \E error \in SocketErrors : PumpSubmitFails(error)
  \/ \E transient, established \in BOOLEAN : PumpFailsInside(transient, established)

SocketEvent ==
  \E id \in OpenConnections \cup datagrams :
    \/ \E transient \in BOOLEAN : SocketFails(id, transient)
    \/ TooLarge(id)
    \/ \E http \in BOOLEAN, match \in Unmatched..Hard :
         \/ DataDetects(id, http, match)
         \/ \E whole \in BOOLEAN : DataWaits(id, http, match, whole)
    \/ \E match \in Unmatched..Hard : Closed(id, match)

Timer ==
  \/ \E id \in DOMAIN pending : on_timeout(id)
  \/ \E retry \in DOMAIN deferred : on_retry_ready(retry)

(***************************************************************************)
(* The reactor keeps waiting on the events that other stages left.         *)
(***************************************************************************)
Waits == Idle /\ ~stopped /\ shared /\ timers = {} /\ UNCHANGED vars
Terminated == phase = "destroyed" /\ UNCHANGED vars

Next ==
  \/ Setup \/ pump \/ Run \/ RunReturns \/ SocketEvent \/ Timer \/ Destroy
  \/ Waits \/ Terminated

Spec == Init /\ [][Next]_vars

(***************************************************************************)
(* Fairness: handlers run to their end, due timers are dispatched, and     *)
(* run() leaves its loop.  Nothing is assumed of the peers.                *)
(***************************************************************************)
FairSpec == Spec /\ WF_vars(pump) /\ WF_vars(Timer) /\ WF_vars(RunReturns)

-----------------------------------------------------------------------------
(* Properties.                                                             *)

Places(s) ==
  Cardinality({i \in DOMAIN queue : queue[i].svc = s})
    + Cardinality({id \in DOMAIN pending : pending[id].work.svc = s})
    + Cardinality({r \in DOMAIN deferred : deferred[r].svc = s}) + Len(results[s])

(***************************************************************************)
(* An open port is never in two places, waiting, out, put off or answered, *)
(* and while nothing failed never in none, although retries, next probes   *)
(* and callbacks inside submit() move it between them; when run() returns  *)
(* Ok every port has its answer.  Between handlers the timers are those of *)
(* the probes that are out and of the retries put off, the router has a    *)
(* route for each probe, and every open socket belongs to one: a cancel    *)
(* inside a callback is not lost, and a probe that ended inside submit()   *)
(* leaves nothing behind.  After the stage is gone the reactor holds       *)
(* nothing of it.                                                          *)
(***************************************************************************)
WorkAccounted ==
  /\ \A s \in Services : Places(s) <= 1
  /\ status = "Ok" /\ phase \notin {"created", "destroyed"} =>
       \A s \in Services : Places(s) = 1
  /\ phase = "returned" /\ status = "Ok" => complete
  /\ pumping = "no" =>
       /\ timers = {<<"probe", id>> : id \in DOMAIN pending} \cup
                   {<<"retry", r>> : r \in DOMAIN deferred}
       /\ routes = DOMAIN pending
       /\ OpenConnections \cup datagrams \subseteq DOMAIN pending
       /\ \A id \in DOMAIN connections : ~connections[id].callback_in_progress
  /\ Cardinality(DOMAIN pending) <= limit
  /\ phase = "destroyed" => timers = {}

(***************************************************************************)
(* A verdict rests on what was heard, in all attempts and all chunks: a    *)
(* detected service is the best match that was not withdrawn, and a port   *)
(* answered "Unknown" or "Timeout" gave no match that could be published.  *)
(* In an HTTP response only the last parse counts.                         *)
(***************************************************************************)
EvidenceDecides ==
  \A s \in Services : \A i \in DOMAIN results[s] :
    LET r == results[s][i] IN
    /\ r.state = "Detected" =>
         service_match_is_publishable(r.match) /\ r.match = r.heard
    /\ r.state \in {"Unknown", "Timeout"} => ~service_match_is_publishable(r.heard)

(***************************************************************************)
(* A run that starts with work to do ends, without any help from the peers *)
(* and although events of other stages keep the reactor waiting, unless an *)
(* error stops the loop.                                                   *)
(***************************************************************************)
RunEnds == (phase = "running" /\ ~complete) ~> (phase # "running" \/ status # "Ok")
=============================================================================
