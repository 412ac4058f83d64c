-------------------------- MODULE ServiceScanProofs --------------------------
(***************************************************************************)
(* Invariance proofs for ServiceScan, for every list of open ports, every  *)
(* number of probes, every limit, every failure of sockets and timers and  *)
(* whatever the peers send.                                                *)
(***************************************************************************)
EXTENDS ServiceScanRefinement, FiniteSetTheorems, SequenceTheorems, TLAPS

-----------------------------------------------------------------------------
(* The invariants.                                                         *)

Matches == Unmatched..Hard
Larger(a, b) == IF a >= b THEN a ELSE b

(***************************************************************************)
(* Work that waits: its best match is the one that stands.  An attempt     *)
(* that is out: the best is the larger of what stands and of the last      *)
(* parse of an HTTP response; what the next parse will compete with is     *)
(* what stands.  A result: what EvidenceDecides says of it.                *)
(***************************************************************************)
AnyWork == [svc : Services, next_probe : Nat, retry : Nat, best_match : Matches, kept : Matches,
            now : Matches]
Weighed == {w \in AnyWork : w.best_match = Larger(w.kept, w.now)}
Waiting == {w \in AnyWork : w.best_match = w.kept /\ w.now = Unmatched}

Attempt ==
  {p \in [work : Weighed, response : Nat, http_snapshot : BOOLEAN, previous_best_match : Matches] :
     IF p.http_snapshot THEN p.previous_best_match = p.work.kept ELSE p.work \in Waiting}

Sound(r) ==
  /\ r.state = "Detected" => service_match_is_publishable(r.match) /\ r.match = r.heard
  /\ r.state \in {"Unknown", "Timeout"} => ~service_match_is_publishable(r.heard)

Result ==
  {r \in [state : ServiceState, match : Matches, heard : Matches] : Sound(r)}

(***************************************************************************)
(* The shape of the scheduler's state with the evidence it carries.        *)
(***************************************************************************)
Shapes ==
  /\ queue \in Seq(Waiting)
  /\ next_id \in Nat \ {0} /\ next_retry \in Nat \ {0}
  /\ DOMAIN pending \subseteq 1..(next_id - 1) /\ DOMAIN deferred \subseteq 1..(next_retry - 1)
  /\ \A id \in DOMAIN pending : pending[id] \in Attempt
  /\ \A r \in DOMAIN deferred : deferred[r] \in Waiting
  /\ results \in [Services -> Seq(Result)]

(***************************************************************************)
(* The phases of the stage and of pump().                                  *)
(***************************************************************************)
Phases ==
  /\ phase \in {"created", "submitting", "refused", "submitted", "running", "returned", "destroyed"}
  /\ pumping \in {"no", "submit", "handler"} /\ limit \in Nat \ {0}
  /\ pumping = "submit" <=> phase = "submitting"
  /\ pumping = "handler" => phase = "running"

(***************************************************************************)
(* Timers, routes and sockets are those of the probes that are out and of  *)
(* the retries put off; a socket that is open without a probe is being     *)
(* cancelled by its own callback, which a pump() runs in.                  *)
(***************************************************************************)
TimersOf(out, off) ==
  {<<"probe", id>> : id \in DOMAIN out} \cup {<<"retry", r>> : r \in DOMAIN off}

Connection ==
  [completed : BOOLEAN, callback_in_progress : BOOLEAN, cancel_requested : BOOLEAN]

Tables ==
  /\ timers = TimersOf(pending, deferred) /\ routes = DOMAIN pending
  /\ Cardinality(DOMAIN pending) <= limit
  /\ datagrams \subseteq DOMAIN pending
  /\ \A id \in DOMAIN connections :
       /\ connections[id] \in Connection
       /\ connections[id].completed \/ connections[id].cancel_requested \/ id \in DOMAIN pending
       /\ connections[id].callback_in_progress \/ connections[id].cancel_requested => pumping # "no"

(***************************************************************************)
(* Every port is in at most one place, and in one while all is well.       *)
(***************************************************************************)
Queued(q, s) == \E i \in DOMAIN q : q[i].svc = s
Out(m, s) == \E id \in DOMAIN m : m[id].work.svc = s
Off(d, s) == \E r \in DOMAIN d : d[r].svc = s
Answer(res, s) == res[s] # <<>>

DistinctQueue(q) == \A i, j \in DOMAIN q : q[i].svc = q[j].svc => i = j
DistinctOut(m) == \A i, j \in DOMAIN m : m[i].work.svc = m[j].work.svc => i = j
DistinctOff(d) == \A i, j \in DOMAIN d : d[i].svc = d[j].svc => i = j

Placed(q, m, d, res) ==
  /\ DistinctQueue(q) /\ DistinctOut(m) /\ DistinctOff(d)
  /\ \A s \in Services : /\ Len(res[s]) <= 1
                         /\ Queued(q, s) => ~Out(m, s) /\ ~Off(d, s) /\ ~Answer(res, s)
                         /\ Out(m, s) => ~Off(d, s) /\ ~Answer(res, s)
                         /\ Off(d, s) => ~Answer(res, s)

Somewhere(q, m, d, res, s) == Queued(q, s) \/ Out(m, s) \/ Off(d, s) \/ Answer(res, s)

Placement ==
  /\ Placed(queue, pending, deferred, results)
  /\ status = "Ok" /\ phase \notin {"created", "destroyed"} =>
       \A s \in Services : Somewhere(queue, pending, deferred, results, s)
  /\ phase = "created" => /\ queue = <<>> /\ DOMAIN pending = {} /\ DOMAIN deferred = {}
                          /\ \A s \in Services : results[s] = <<>>

(***************************************************************************)
(* The reactor is stopped only when nothing is left; pump() never leaves   *)
(* work in the queue with none out; run() returns Ok only at the end.      *)
(***************************************************************************)
Idles == queue = <<>> /\ DOMAIN pending = {} /\ DOMAIN deferred = {}

Course ==
  /\ phase = "running" /\ stopped => Idles
  /\ phase \in {"submitted", "running"} /\ pumping = "no" /\ status = "Ok" /\ queue # <<>> =>
       DOMAIN pending # {}
  /\ phase = "returned" /\ status = "Ok" => Idles
  /\ phase = "destroyed" => DOMAIN pending = {} /\ DOMAIN deferred = {}
  /\ phase = "refused" => status # "Ok"

(***************************************************************************)
(* The tables are functions, so one without entries is the empty one.      *)
(***************************************************************************)
IsMap(f) == f = [x \in DOMAIN f |-> f[x]]
Maps == IsMap(pending) /\ IsMap(deferred)

ServiceInv == Shapes /\ Phases /\ Tables /\ Placement /\ Course /\ Maps

-----------------------------------------------------------------------------
(* Sequences, maps and matches.                                            *)

LEMMA TailFacts ==
  ASSUME NEW S, NEW q \in Seq(S), q # <<>>
  PROVE  /\ Head(q) \in S /\ Tail(q) \in Seq(S)
         /\ Len(q) \in Nat \ {0} /\ DOMAIN q = 1..Len(q) /\ Head(q) = q[1]
         /\ DOMAIN Tail(q) = 1..(Len(q) - 1)
         /\ \A i \in 1..(Len(q) - 1) : Tail(q)[i] = q[i + 1]
<1>1. Len(q) \in Nat \ {0} /\ DOMAIN q = 1..Len(q)
  BY EmptySeq
<1>2. Head(q) \in S /\ Tail(q) \in Seq(S) /\ Len(Tail(q)) = Len(q) - 1
  BY HeadTailProperties
<1>3. Head(q) = q[1]
  BY HeadTailProperties, SMT
<1>4. \A i \in 1..(Len(q) - 1) : Tail(q)[i] = q[i + 1]
  BY <1>1, SMT
<1> QED
  BY <1>1, <1>2, <1>3, <1>4

LEMMA EmptyMapFacts ==
  /\ DOMAIN EmptyMap = {} /\ EmptyMap = [x \in DOMAIN EmptyMap |-> EmptyMap[x]]
  /\ \A f : f = [x \in DOMAIN f |-> f[x]] /\ DOMAIN f = {} => f = EmptyMap
BY DEF EmptyMap

LEMMA PendingFinite ==
  ASSUME Shapes
  PROVE  IsFiniteSet(DOMAIN pending) /\ Cardinality(DOMAIN pending) \in Nat
<1>1. DOMAIN pending \subseteq 1..(next_id - 1) /\ next_id \in Nat \ {0}
  BY DEF Shapes
<1>2. IsFiniteSet(1..(next_id - 1))
  BY <1>1, FS_Interval
<1>3. IsFiniteSet(DOMAIN pending)
  BY <1>1, <1>2, FS_Subset
<1> QED
  BY <1>3, FS_CardinalityType

LEMMA MaxPair ==
  ASSUME NEW a \in Int, NEW b \in Int
  PROVE  Max({a, b}) = Larger(a, b)
<1> DEFINE m == Larger(a, b)
<1>1. m \in {a, b} /\ \A y \in {a, b} : m >= y
  BY DEF Larger
<1>2. \A x \in {a, b} : (\A y \in {a, b} : x >= y) => x = m
  BY <1>1 DEF Larger
<1> HIDE DEF m
<1>3. Max({a, b}) = m
  BY <1>1, <1>2 DEF Max
<1> QED
  BY <1>3 DEF m

LEMMA WaitingWeighed == Waiting \subseteq Weighed
BY DEF Waiting, Weighed, AnyWork, Larger, Matches, Unmatched, Hard

(***************************************************************************)
(* The end of an attempt: what was found stands.                           *)
(***************************************************************************)
LEMMA EndedFacts ==
  ASSUME NEW w \in Weighed
  PROVE  /\ w.svc \in Services /\ w.best_match \in Matches
         /\ Ended(w) \in Waiting /\ Ended(w).svc = w.svc /\ Ended(w).kept = w.best_match
         /\ [Ended(w) EXCEPT !.retry = @ + 1] \in Waiting
         /\ [Ended(w) EXCEPT !.retry = @ + 1].svc = w.svc
         /\ Advanced(w) \in Waiting /\ Advanced(w).svc = w.svc
         /\ [Advanced(w) EXCEPT !.retry = 0] \in Waiting
         /\ [Advanced(w) EXCEPT !.retry = 0].svc = w.svc
<1>1. /\ w \in AnyWork /\ w.best_match = Larger(w.kept, w.now)
      /\ w.kept \in Int /\ w.now \in Int /\ w.best_match \in Matches /\ Unmatched \in Matches
  BY DEF Weighed, AnyWork, Matches, Unmatched, Hard
<1>2. Max({w.kept, w.now}) = w.best_match
  BY <1>1, MaxPair
<1>3. Ended(w) = [w EXCEPT !.kept = w.best_match, !.now = Unmatched]
  BY <1>2 DEF Ended
<1>4. /\ Ended(w) \in AnyWork /\ Ended(w).svc = w.svc /\ Ended(w).kept = w.best_match
      /\ Ended(w).best_match = w.best_match /\ Ended(w).now = Unmatched
  BY <1>1, <1>3 DEF AnyWork
<1>5. PICK e : e = Ended(w)
  OBVIOUS
<1>6. /\ e \in AnyWork /\ e.svc = w.svc /\ e.best_match = e.kept /\ e.now = Unmatched
  BY <1>4, <1>5
<1>7. [e EXCEPT !.retry = @ + 1] \in Waiting /\ [e EXCEPT !.retry = @ + 1].svc = w.svc
  BY <1>6 DEF AnyWork, Waiting
<1>8. PICK a : a = [e EXCEPT !.next_probe = @ + 1]
  OBVIOUS
<1>9. a \in AnyWork /\ a.svc = w.svc /\ a.best_match = a.kept /\ a.now = Unmatched
  BY <1>6, <1>8 DEF AnyWork
<1>10. [a EXCEPT !.retry = 0] \in Waiting /\ [a EXCEPT !.retry = 0].svc = w.svc
  BY <1>9 DEF AnyWork, Waiting
<1>11. Advanced(w) = a
  BY <1>5, <1>8 DEF Advanced
<1>12. w.svc \in Services /\ w.best_match \in Matches
  BY <1>1 DEF AnyWork
<1> QED
  BY <1>4, <1>5, <1>6, <1>7, <1>9, <1>10, <1>11, <1>12 DEF Waiting

(***************************************************************************)
(* A response parsed again keeps an attempt in order.                      *)
(***************************************************************************)
LEMMA ParsedFacts ==
  ASSUME NEW p \in Attempt, NEW http \in BOOLEAN, NEW match \in Matches, p.http_snapshot => http
  PROVE  /\ Parsed(p, http, match) \in Attempt /\ Parsed(p, http, match).work \in Weighed
         /\ Parsed(p, http, match).work.svc = p.work.svc
         /\ Parsed(p, http, match).response = p.response
         /\ match = Hard => Parsed(p, http, match).work.best_match = Hard
<1> DEFINE w == p.work
           previous == IF p.http_snapshot THEN p.previous_best_match ELSE w.best_match
           best == IF http THEN previous ELSE w.best_match
           top == IF match > best THEN match ELSE best
           kept == IF http THEN w.kept ELSE Larger(w.kept, match)
           now == IF http THEN match ELSE w.now
           v == [w EXCEPT !.best_match = top, !.kept = kept, !.now = now]
           r == [p EXCEPT !.work = v, !.http_snapshot = http,
                          !.previous_best_match = IF http THEN previous ELSE @]
<1>1. /\ p \in [work : Weighed, response : Nat, http_snapshot : BOOLEAN, previous_best_match : Matches]
      /\ p.http_snapshot => p.previous_best_match = w.kept
      /\ ~p.http_snapshot => w.best_match = w.kept /\ w.now = Unmatched
  BY DEF Attempt, Waiting
<1>2. /\ w \in AnyWork /\ w.best_match = Larger(w.kept, w.now)
      /\ w.kept \in Matches /\ w.now \in Matches /\ w.best_match \in Matches
      /\ p.previous_best_match \in Matches /\ p.http_snapshot \in BOOLEAN /\ p.response \in Nat
  BY <1>1 DEF Weighed, AnyWork
<1>3. Matches = 0..3 /\ Hard = 3 /\ Unmatched = 0
  BY DEF Matches, Hard, Unmatched
<1>4. Max({w.kept, match}) = Larger(w.kept, match)
  <2>1. w.kept \in Int /\ match \in Int
    BY <1>2, <1>3
  <2> QED
    BY <2>1, MaxPair
<1>5. Parsed(p, http, match) = r
  BY <1>1, <1>2, <1>4 DEF Parsed, service_match_is_better, AnyWork
<1>6. previous = w.kept
  BY <1>1
<1>7. /\ top \in Matches /\ kept \in Matches /\ now \in Matches /\ previous \in Matches
      /\ top = Larger(kept, now) /\ (match = Hard => top = Hard)
      /\ ~http => top = kept /\ now = Unmatched
  <2>1. CASE http
    BY <1>2, <1>3, <1>6, <2>1 DEF Larger
  <2>2. CASE ~http
    <3>1. ~p.http_snapshot
      BY <2>2
    <3>2. w.best_match = w.kept /\ w.now = 0
      BY <1>1, <1>3, <3>1
    <3> QED
      BY <1>2, <1>3, <1>6, <2>2, <3>2 DEF Larger
  <2> QED
    BY <2>1, <2>2
<1> HIDE DEF top, kept, now, previous
<1>8. /\ v \in AnyWork /\ v.best_match = top /\ v.kept = kept /\ v.now = now /\ v.svc = w.svc
  BY <1>2, <1>7 DEF AnyWork
<1>9. v \in Weighed /\ (~http => v \in Waiting)
  BY <1>7, <1>8 DEF Weighed, Waiting
<1> HIDE DEF v
<1>10. /\ r \in [work : Weighed, response : Nat, http_snapshot : BOOLEAN, previous_best_match : Matches]
       /\ r.work = v /\ r.http_snapshot = http /\ r.response = p.response
       /\ http => r.previous_best_match = previous
  BY <1>1, <1>2, <1>7, <1>9
<1> HIDE DEF r
<1>11. http => previous = v.kept
  BY <1>6, <1>8 DEF kept
<1>12. r \in Attempt
  BY <1>9, <1>10, <1>11 DEF Attempt
<1> QED
  BY <1>5, <1>7, <1>8, <1>9, <1>10, <1>12

-----------------------------------------------------------------------------
(* Where work goes when its attempt is over.                               *)

(***************************************************************************)
(* The port is answered, its work is put at the head of q, or put off; or  *)
(* it is dropped, with an error.                                           *)
(***************************************************************************)
Lands(s, q, T) ==
  /\ next_retry' \in {next_retry, next_retry + 1} /\ (status' = "Ok" => status = "Ok")
  /\ \/ \E r \in Result : /\ results' = [results EXCEPT ![s] = Append(@, r)]
                          /\ queue' = q /\ timers' = T /\ deferred' = deferred
     \/ \E x \in Waiting : /\ x.svc = s /\ queue' = <<x>> \o q /\ timers' = T
                           /\ UNCHANGED <<results, deferred>>
     \/ \E x \in Waiting : /\ x.svc = s /\ deferred' = With(deferred, next_retry, x)
                           /\ next_retry' = next_retry + 1
                           /\ timers' = T \cup {<<"retry", next_retry>>}
                           /\ queue' = q /\ UNCHANGED results
     \/ status' # "Ok" /\ queue' = q /\ timers' = T /\ UNCHANGED <<results, deferred>>

(***************************************************************************)
(* A verdict that rests on the best match of the work.                     *)
(***************************************************************************)
Founded(w, state, match) ==
  /\ state \in ServiceState /\ match \in Matches
  /\ state = "Detected" => service_match_is_publishable(match) /\ match = w.best_match
  /\ state \in {"Unknown", "Timeout"} => ~service_match_is_publishable(w.best_match)

LEMMA ResultSound ==
  ASSUME NEW w \in Weighed, NEW state, NEW match, Founded(w, state, match),
         append_result(w, state, match)
  PROVE  \E r \in Result : results' = [results EXCEPT ![w.svc] = Append(@, r)]
<1> DEFINE r == [state |-> state, match |-> match, heard |-> Ended(w).kept]
<1>1. results' = [results EXCEPT ![w.svc] = Append(@, r)]
  BY DEF append_result
<1>2. Ended(w).kept = w.best_match /\ w.best_match \in Matches
  BY EndedFacts
<1>3. r \in Result
  BY <1>2 DEF Founded, Result, Sound, ServiceState
<1> HIDE DEF r
<1> QED
  BY <1>1, <1>3

LEMMA AnsweredLands ==
  ASSUME NEW w \in Weighed, NEW state, NEW match, NEW q, NEW T, Founded(w, state, match),
         Answered(w, state, match, q, T)
  PROVE  Lands(w.svc, q, T)
<1>1. \E r \in Result : results' = [results EXCEPT ![w.svc] = Append(@, r)]
  BY ResultSound DEF Answered
<1> QED
  BY <1>1 DEF Answered, Keep, Lands

LEMMA NextProbeLands ==
  ASSUME NEW s, NEW x \in Waiting, x.svc = s, NEW q, NEW T, NextProbe(x, q, T)
  PROVE  Lands(s, q, T)
BY DEF NextProbe, Keep, Lands

LEMMA DeferLands ==
  ASSUME NEW w \in Weighed, NEW q, NEW T, defer_retry(w, q, T)
  PROVE  Lands(w.svc, q, T)
<1>1. PICK x \in Waiting : x = [Ended(w) EXCEPT !.retry = @ + 1] /\ x.svc = w.svc
  BY EndedFacts
<1> QED
  BY <1>1 DEF defer_retry, Lands

LEMMA SocketErrorLands ==
  ASSUME NEW w \in Weighed, NEW transient, NEW q, NEW T, SocketError(w, transient, q, T)
  PROVE  Lands(w.svc, q, T)
<1>1. CASE defer_retry(w, q, T)
  BY <1>1, DeferLands
<1>2. CASE RetryRefused(q, T) /\ UNCHANGED results
  BY <1>2 DEF RetryRefused, Lands
<1>3. CASE NextProbe([Advanced(w) EXCEPT !.retry = 0], q, T)
  <2>1. PICK x \in Waiting : x = [Advanced(w) EXCEPT !.retry = 0] /\ x.svc = w.svc
    BY EndedFacts
  <2> QED
    BY <1>3, <2>1, NextProbeLands
<1>4. CASE service_match_is_publishable(w.best_match) /\ Answered(w, "Detected", w.best_match, q, T)
  <2>1. Founded(w, "Detected", w.best_match)
    BY <1>4, EndedFacts DEF Founded, ServiceState
  <2> QED
    BY <1>4, <2>1, AnsweredLands
<1>5. CASE Answered(w, "Error", Unmatched, q, T)
  <2>1. Founded(w, "Error", Unmatched)
    BY DEF Founded, ServiceState, Matches, Unmatched, Hard
  <2> QED
    BY <1>5, <2>1, AnsweredLands
<1> QED
  BY <1>1, <1>2, <1>3, <1>4, <1>5 DEF SocketError

LEMMA HardPublishable == service_match_is_publishable(Hard) /\ Hard \in Matches /\ Unmatched \in Matches
BY DEF service_match_is_publishable, Hard, Matches, Unmatched

(***************************************************************************)
(* on_timeout()'s verdict, whatever became of the retry.                   *)
(***************************************************************************)
LEMMA VerdictLands ==
  ASSUME NEW w \in Weighed, NEW T, TimeoutVerdict(w), timers' = T, UNCHANGED deferred,
         next_retry' \in {next_retry, next_retry + 1}, status' = "Ok" => status = "Ok"
  PROVE  Lands(w.svc, queue, T)
<1>1. ASSUME NEW state, NEW match, Founded(w, state, match), append_result(w, state, match),
             queue' = queue
      PROVE  Lands(w.svc, queue, T)
  <2>1. \E r \in Result : results' = [results EXCEPT ![w.svc] = Append(@, r)]
    BY <1>1, ResultSound
  <2> QED
    BY <1>1, <2>1 DEF Lands
<1>2. CASE w.best_match = Hard /\ append_result(w, "Detected", w.best_match) /\ queue' = queue
  <2>1. Founded(w, "Detected", w.best_match)
    BY <1>2, HardPublishable DEF Founded, ServiceState
  <2> QED
    BY <1>1, <1>2, <2>1
<1>3. CASE queue' = <<[Advanced(w) EXCEPT !.retry = 0]>> \o queue /\ UNCHANGED results
  <2>1. PICK x \in Waiting : x = [Advanced(w) EXCEPT !.retry = 0] /\ x.svc = w.svc
    BY EndedFacts
  <2> QED
    BY <1>3, <2>1 DEF Lands
<1>4. CASE /\ service_match_is_publishable(w.best_match)
           /\ append_result(w, "Detected", w.best_match) /\ queue' = queue
  <2>1. Founded(w, "Detected", w.best_match)
    BY <1>4, EndedFacts DEF Founded, ServiceState
  <2> QED
    BY <1>1, <1>4, <2>1
<1>5. CASE /\ ~service_match_is_publishable(w.best_match)
           /\ append_result(w, "Timeout", Unmatched) /\ queue' = queue
  <2>1. Founded(w, "Timeout", Unmatched)
    BY <1>5, HardPublishable DEF Founded, ServiceState
  <2> QED
    BY <1>1, <1>5, <2>1
<1> QED
  BY <1>2, <1>3, <1>4, <1>5 DEF TimeoutVerdict

-----------------------------------------------------------------------------
(* The steps.                                                              *)

(***************************************************************************)
(* pump() takes the head of the queue and its attempt ends inside submit().*)
(***************************************************************************)
Reaped(id) ==
  \/ UNCHANGED connections
  \/ connections' = reap_completed
  \/ connections' = With(reap_completed, id, [completed |-> TRUE, callback_in_progress |-> TRUE,
                                              cancel_requested |-> FALSE])

FromHead ==
  /\ PumpLoops /\ next_id' = next_id + 1
  /\ Lands(Head(queue).svc, Tail(queue), timers)
  /\ UNCHANGED <<phase, limit, pending, stopped, pumping, datagrams, routes>>
  /\ Reaped(next_id)

LEMMA HeadSteps ==
  ASSUME Shapes, \/ PumpBuildFails \/ PumpTimerFails
                 \/ \E error \in SocketErrors : PumpSubmitFails(error)
                 \/ \E transient, established \in BOOLEAN : PumpFailsInside(transient, established)
  PROVE  FromHead
<1> DEFINE w == Head(queue)
<1>1. ASSUME PumpLoops PROVE w \in Weighed
  <2>1. queue \in Seq(Waiting) /\ queue # <<>>
    BY <1>1 DEF PumpLoops, Shapes
  <2> QED
    BY <2>1, TailFacts, WaitingWeighed
<1>2. Founded(w, "Error", Unmatched)
  BY HardPublishable DEF Founded, ServiceState
<1>3. CASE PumpBuildFails
  <2>1. /\ PumpLoops /\ next_id' = next_id + 1
        /\ Answered(w, "Error", Unmatched, Tail(queue), timers)
        /\ UNCHANGED <<phase, limit, pending, stopped, pumping, datagrams, routes, connections>>
    BY <1>3 DEF PumpBuildFails, configVars, transportVars
  <2>2. Lands(w.svc, Tail(queue), timers)
    BY <1>1, <1>2, <2>1, AnsweredLands
  <2> QED
    BY <2>1, <2>2 DEF FromHead, Reaped
<1>4. ASSUME NEW error, PumpFails(error)
      PROVE  /\ PumpLoops /\ next_id' = next_id + 1 /\ Lands(w.svc, Tail(queue), timers)
             /\ UNCHANGED <<phase, limit, pending, stopped, pumping, datagrams, routes>>
  <2>1. /\ PumpLoops /\ next_id' = next_id + 1 /\ append_result(w, "Error", Unmatched)
        /\ queue' = Tail(queue) /\ status = "Ok"
        /\ UNCHANGED <<phase, limit, pending, stopped, pumping, datagrams, routes, timers, deferred,
                       next_retry>>
    BY <1>4 DEF PumpFails, Building, PumpLoops, Keep, configVars
  <2>2. \E r \in Result : results' = [results EXCEPT ![w.svc] = Append(@, r)]
    BY <1>1, <1>2, <2>1, ResultSound
  <2>3. Lands(w.svc, Tail(queue), timers)
    BY <2>1, <2>2 DEF Lands
  <2> QED
    BY <2>1, <2>3
<1>5. CASE PumpTimerFails
  BY <1>4, <1>5 DEF PumpTimerFails, FromHead, Reaped
<1>6. ASSUME NEW error, PumpSubmitFails(error) PROVE FromHead
  BY <1>4, <1>6 DEF PumpSubmitFails, FromHead, Reaped
<1>7. ASSUME NEW transient, NEW established, PumpFailsInside(transient, established) PROVE FromHead
  <2>1. /\ PumpLoops /\ next_id' = next_id + 1
        /\ SocketError(w, transient, Tail(queue), timers)
        /\ UNCHANGED <<phase, limit, pending, stopped, pumping, datagrams, routes>>
        /\ Reaped(next_id)
    BY <1>7 DEF PumpFailsInside, Building, configVars, Reaped
  <2>2. Lands(w.svc, Tail(queue), timers)
    BY <1>1, <2>1, SocketErrorLands
  <2> QED
    BY <2>1, <2>2 DEF FromHead
<1> QED
  BY <1>3, <1>5, <1>6, <1>7

(***************************************************************************)
(* An attempt that is out ends, by its socket or by its deadline.          *)
(***************************************************************************)
FromOut(id) ==
  /\ Dispatching /\ id \in DOMAIN pending
  /\ Lands(pending[id].work.svc, queue, RemainingTimers(id))
  /\ Ends(id) /\ Handled
  /\ cancel(id) \/ emit(id, TRUE) \/ emit(id, FALSE)

LEMMA LiveIsOut ==
  ASSUME Tables, NEW id, Live(id)
  PROVE  Dispatching /\ pumping = "no" /\ id \in DOMAIN pending
<1>1. Dispatching /\ pumping = "no" /\ id \in OpenConnections \cup datagrams
  BY DEF Live, Dispatching, Idle
<1>2. CASE id \in datagrams
  BY <1>1, <1>2 DEF Tables
<1>3. CASE id \in OpenConnections
  BY <1>1, <1>3 DEF Tables, OpenConnections
<1> QED
  BY <1>1, <1>2, <1>3

LEMMA OutSteps ==
  ASSUME Shapes, Tables, NEW id,
         \/ \E transient \in BOOLEAN : SocketFails(id, transient)
         \/ TooLarge(id)
         \/ \E http \in BOOLEAN, match \in Unmatched..Hard : DataDetects(id, http, match)
         \/ \E match \in Unmatched..Hard : Closed(id, match)
         \/ id \in DOMAIN pending /\ on_timeout(id)
  PROVE  FromOut(id)
<1> DEFINE p == pending[id]
           T == RemainingTimers(id)
<1>1. ASSUME id \in DOMAIN pending PROVE p \in Attempt /\ p.work \in Weighed
  BY <1>1 DEF Shapes, Attempt
<1>2. ASSUME NEW transient, SocketFails(id, transient) PROVE FromOut(id)
  <2>1. id \in DOMAIN pending /\ Dispatching
    BY <1>2, LiveIsOut DEF SocketFails
  <2>2. Lands(p.work.svc, queue, T)
    BY <1>1, <1>2, <2>1, SocketErrorLands DEF SocketFails
  <2> QED
    BY <1>2, <2>1, <2>2 DEF SocketFails, FromOut
<1>3. CASE TooLarge(id)
  <2>1. id \in DOMAIN pending /\ Dispatching
    BY <1>3, LiveIsOut DEF TooLarge
  <2>2. Founded(p.work, "ResponseTooLarge", Unmatched)
    BY HardPublishable DEF Founded, ServiceState
  <2>3. Lands(p.work.svc, queue, T)
    BY <1>1, <1>3, <2>1, <2>2, AnsweredLands DEF TooLarge
  <2> QED
    BY <1>3, <2>1, <2>3 DEF TooLarge, FromOut
<1>4. ASSUME NEW http \in BOOLEAN, NEW match \in Unmatched..Hard, DataDetects(id, http, match)
      PROVE  FromOut(id)
  <2>1. id \in DOMAIN pending /\ Dispatching
    BY <1>4, LiveIsOut DEF DataDetects
  <2>2. PICK n : n = Parsed(p, http, match)
    OBVIOUS
  <2>3. match = Hard /\ match \in Matches /\ (p.http_snapshot => http)
    BY <1>4 DEF DataDetects, Matches
  <2>4. n.work \in Weighed /\ n.work.svc = p.work.svc /\ n.work.best_match = Hard
    BY <1>1, <2>1, <2>2, <2>3, ParsedFacts
  <2>5. Founded(n.work, "Detected", match)
    BY <2>3, <2>4, HardPublishable DEF Founded, ServiceState
  <2>6. Answered(n.work, "Detected", match, queue, T)
    BY <1>4, <2>2 DEF DataDetects
  <2>7. Lands(p.work.svc, queue, T)
    BY <2>4, <2>5, <2>6, AnsweredLands
  <2> QED
    BY <1>4, <2>1, <2>7 DEF DataDetects, FromOut
<1>5. ASSUME NEW match \in Unmatched..Hard, Closed(id, match) PROVE FromOut(id)
  <2>1. id \in DOMAIN pending /\ Dispatching
    BY <1>5, LiveIsOut DEF Closed
  <2>2. PICK n : n = IF p.response = 0 THEN p ELSE Parsed(p, p.http_snapshot, match)
    OBVIOUS
  <2>3. n.work \in Weighed /\ n.work.svc = p.work.svc
    <3>1. p.http_snapshot \in BOOLEAN /\ match \in Matches
      BY <1>1, <2>1 DEF Attempt, Matches
    <3>2. /\ Parsed(p, p.http_snapshot, match).work \in Weighed
          /\ Parsed(p, p.http_snapshot, match).work.svc = p.work.svc
      BY <1>1, <2>1, <3>1, ParsedFacts
    <3> QED
      BY <1>1, <2>1, <2>2, <3>2
  <2>4. PICK w \in Weighed : w = n.work /\ w.svc = p.work.svc
    BY <2>3
  <2>5. /\ \/ w.best_match = Hard /\ Answered(w, "Detected", w.best_match, queue, T)
           \/ NextProbe(Advanced(w), queue, T)
           \/ /\ service_match_is_publishable(w.best_match)
              /\ Answered(w, "Detected", w.best_match, queue, T)
           \/ /\ ~service_match_is_publishable(w.best_match)
              /\ Answered(w, "Unknown", Unmatched, queue, T)
        /\ Ends(id) /\ emit(id, TRUE) /\ Handled
    BY <1>5, <2>2, <2>4 DEF Closed
  <2>6. ASSUME service_match_is_publishable(w.best_match),
               Answered(w, "Detected", w.best_match, queue, T)
        PROVE  Lands(w.svc, queue, T)
    <3>1. Founded(w, "Detected", w.best_match)
      BY <2>6, EndedFacts DEF Founded, ServiceState
    <3> QED
      BY <2>6, <3>1, AnsweredLands
  <2>7. CASE NextProbe(Advanced(w), queue, T)
    <3>1. PICK x \in Waiting : x = Advanced(w) /\ x.svc = w.svc
      BY EndedFacts
    <3>2. Lands(w.svc, queue, T)
      BY <2>7, <3>1, NextProbeLands
    <3> QED
      BY <2>1, <2>4, <2>5, <3>2 DEF FromOut
  <2>8. CASE /\ ~service_match_is_publishable(w.best_match)
             /\ Answered(w, "Unknown", Unmatched, queue, T)
    <3>1. Founded(w, "Unknown", Unmatched)
      BY <2>8, HardPublishable DEF Founded, ServiceState
    <3>2. Lands(w.svc, queue, T)
      BY <2>8, <3>1, AnsweredLands
    <3> QED
      BY <2>1, <2>4, <2>5, <3>2 DEF FromOut
  <2> QED
    BY <2>1, <2>4, <2>5, <2>6, <2>7, <2>8, HardPublishable DEF FromOut
<1>6. ASSUME id \in DOMAIN pending, on_timeout(id) PROVE FromOut(id)
  <2>1. PICK w \in Weighed : w = p.work
    BY <1>1, <1>6
  <2>2. /\ Dispatching /\ Ends(id) /\ cancel(id) /\ Handled
        /\ \/ defer_retry(w, queue, T)
           \/ /\ TimeoutVerdict(w) /\ timers' = T /\ UNCHANGED deferred
              /\ next_retry' \in {next_retry, next_retry + 1} /\ (status' = "Ok" => status = "Ok")
    BY <1>6, <2>1 DEF on_timeout, Keep
  <2>3. Lands(w.svc, queue, T)
    BY <2>2, DeferLands, VerdictLands
  <2> QED
    BY <1>6, <2>1, <2>2, <2>3 DEF FromOut
<1> QED
  BY <1>2, <1>3, <1>4, <1>5, <1>6

-----------------------------------------------------------------------------
(* Shapes.                                                                 *)

LEMMA LandsShapes ==
  ASSUME Shapes, NEW s \in Services, NEW q \in Seq(Waiting), NEW T, Lands(s, q, T)
  PROVE  /\ queue' \in Seq(Waiting) /\ results' \in [Services -> Seq(Result)]
         /\ next_retry' \in Nat \ {0} /\ DOMAIN deferred' \subseteq 1..(next_retry' - 1)
         /\ \A r \in DOMAIN deferred' : deferred'[r] \in Waiting
<1>1. /\ next_retry \in Nat \ {0} /\ next_retry' \in {next_retry, next_retry + 1}
      /\ DOMAIN deferred \subseteq 1..(next_retry - 1) /\ results \in [Services -> Seq(Result)]
      /\ \A r \in DOMAIN deferred : deferred[r] \in Waiting
  BY DEF Shapes, Lands
<1>2. next_retry' \in Nat \ {0} /\ DOMAIN deferred \subseteq 1..(next_retry' - 1)
  BY <1>1
<1>3. ASSUME NEW r \in Result, results' = [results EXCEPT ![s] = Append(@, r)], queue' = q,
             deferred' = deferred
      PROVE  /\ queue' \in Seq(Waiting) /\ results' \in [Services -> Seq(Result)]
             /\ deferred' = deferred
  <2>1. results[s] \in Seq(Result)
    BY <1>1
  <2>2. Append(results[s], r) \in Seq(Result)
    BY <2>1
  <2> QED
    BY <1>1, <1>3, <2>2
<1>4. ASSUME NEW x \in Waiting, queue' = <<x>> \o q PROVE queue' \in Seq(Waiting)
  BY <1>4
<1>5. ASSUME NEW x \in Waiting, deferred' = With(deferred, next_retry, x),
             next_retry' = next_retry + 1
      PROVE  /\ DOMAIN deferred' \subseteq 1..(next_retry' - 1)
             /\ \A r \in DOMAIN deferred' : deferred'[r] \in Waiting
  <2>1. /\ DOMAIN deferred' = DOMAIN deferred \cup {next_retry}
        /\ \A r \in DOMAIN deferred' :
             deferred'[r] = IF r = next_retry THEN x ELSE deferred[r]
    BY <1>5 DEF With
  <2>2. DOMAIN deferred' \subseteq 1..(next_retry' - 1)
    BY <1>1, <1>5, <2>1
  <2>3. \A r \in DOMAIN deferred' : deferred'[r] \in Waiting
    BY <1>1, <2>1
  <2> QED
    BY <2>2, <2>3
<1> QED
  BY <1>1, <1>2, <1>3, <1>4, <1>5 DEF Lands

LEMMA NewWorkWaits == \A s \in Services : NewWork(s) \in Waiting /\ NewWork(s).svc = s
BY HardPublishable DEF NewWork, Waiting, AnyWork

(***************************************************************************)
(* submit() queues each port that has probes, once, and answers the rest.  *)
(***************************************************************************)
LEMMA Submitted ==
  ASSUME submit
  PROVE  /\ queue' \in Seq(Waiting) /\ results' \in [Services -> Seq(Result)]
         /\ \A i, j \in DOMAIN queue' : queue'[i].svc = queue'[j].svc => i = j
         /\ \A s \in Services :
              /\ (\E i \in DOMAIN queue' : queue'[i].svc = s) <=> Probes[s] > 0
              /\ results'[s] = <<>> <=> Probes[s] > 0
              /\ Len(results'[s]) <= 1
<1>1. PICK at \in [1..Cardinality(Served) -> Served] :
         /\ \A i, j \in DOMAIN at : i < j => at[i] < at[j]
         /\ queue' = [i \in DOMAIN at |-> NewWork(Order[at[i]])]
  BY DEF submit
<1>2. /\ Order \in Seq(Services) /\ \A i, j \in DOMAIN Order : Order[i] = Order[j] => i = j
      /\ Probes \in [Services -> Nat]
  BY ServiceAssumption DEF IsInjective
<1>3. /\ IsFiniteSet(Served) /\ Cardinality(Served) \in Nat /\ Served \subseteq Nat
      /\ Served \subseteq DOMAIN Order
  <2>1. Len(Order) \in Nat /\ DOMAIN Order = 1..Len(Order)
    BY <1>2
  <2>2. IsFiniteSet(1..Len(Order))
    BY <2>1, FS_Interval
  <2>3. Served \subseteq 1..Len(Order)
    BY <2>1 DEF Served
  <2>4. IsFiniteSet(Served)
    BY <2>2, <2>3, FS_Subset
  <2> QED
    BY <2>1, <2>3, <2>4, FS_CardinalityType
<1> DEFINE n == Cardinality(Served)
<1>4. \A i, j \in 1..n : at[i] = at[j] => i = j
  <2>1. \A i \in 1..n : at[i] \in Nat
    BY <1>3
  <2>2. \A i, j \in 1..n : i < j => at[i] < at[j]
    BY <1>1
  <2> QED
    BY <1>3, <2>1, <2>2
<1>5. \A k \in Served : \E i \in 1..n : at[i] = k
  <2>1. at \in Injection(1..n, Served)
    BY <1>4 DEF Injection, IsInjective
  <2>2. Cardinality(1..n) = Cardinality(Served)
    BY <1>3, FS_Interval
  <2>3. at \in Surjection(1..n, Served)
    BY <1>3, <2>1, <2>2, FS_Injection
  <2> QED
    BY <2>3 DEF Surjection
<1>6. \A i \in 1..n : at[i] \in DOMAIN Order /\ Order[at[i]] \in Services /\ Probes[Order[at[i]]] > 0
  BY <1>2, <1>3 DEF Served
<1>7. \A s \in Services : NewWork(s) \in Waiting /\ NewWork(s).svc = s
  BY NewWorkWaits
<1>8. DOMAIN queue' = 1..n /\ \A i \in 1..n : queue'[i] = NewWork(Order[at[i]])
  BY <1>1
<1>9. queue' \in Seq(Waiting)
  <2>1. queue' = [i \in 1..n |-> NewWork(Order[at[i]])]
    BY <1>1
  <2>2. \A i \in 1..n : NewWork(Order[at[i]]) \in Waiting
    BY <1>6, <1>7
  <2> QED
    BY <1>3, <2>1, <2>2
<1>10. \A i \in 1..n : queue'[i].svc = Order[at[i]]
  BY <1>6, <1>7, <1>8
<1>11. \A i, j \in DOMAIN queue' : queue'[i].svc = queue'[j].svc => i = j
  BY <1>2, <1>4, <1>6, <1>8, <1>10
<1>12. ASSUME NEW s \in Services
       PROVE  (\E i \in DOMAIN queue' : queue'[i].svc = s) <=> Probes[s] > 0
  <2>1. PICK k \in DOMAIN Order : Order[k] = s
    BY DEF Services
  <2>2. Probes[s] > 0 => k \in Served
    BY <2>1 DEF Served
  <2> QED
    BY <1>5, <1>6, <1>8, <1>10, <2>1, <2>2
<1>13. PICK u \in Result : u = [state |-> "Unknown", match |-> Unmatched, heard |-> Unmatched]
  <2> DEFINE v == [state |-> "Unknown", match |-> Unmatched, heard |-> Unmatched]
  <2>1. ~service_match_is_publishable(Unmatched) /\ Unmatched \in Matches
    BY DEF service_match_is_publishable, Unmatched, Matches, Hard
  <2>2. v \in Result
    BY <2>1 DEF Result, ServiceState, Sound
  <2> QED
    BY <2>2
<1>14. /\ results' = [s \in Services |-> IF Probes[s] = 0 THEN <<u>> ELSE <<>>]
       /\ <<u>> \in Seq(Result) /\ <<>> \in Seq(Result) /\ <<u>> # <<>>
       /\ Len(<<u>>) = 1 /\ Len(<<>>) = 0
  BY <1>13 DEF submit
<1>15. results' \in [Services -> Seq(Result)]
  BY <1>14
<1>16. ASSUME NEW s \in Services
       PROVE  (results'[s] = <<>> <=> Probes[s] > 0) /\ Len(results'[s]) <= 1
  <2>1. Probes[s] \in Nat /\ results'[s] = IF Probes[s] = 0 THEN <<u>> ELSE <<>>
    BY <1>2, <1>14
  <2>2. CASE Probes[s] = 0
    BY <1>14, <2>1, <2>2
  <2>3. CASE Probes[s] # 0
    BY <1>14, <2>1, <2>3
  <2> QED
    BY <2>2, <2>3
<1> QED
  BY <1>9, <1>11, <1>12, <1>15, <1>16

LEMMA NextShapes == Shapes /\ Tables /\ [Next]_vars => Shapes'
<1> SUFFICES ASSUME Shapes, Tables, [Next]_vars PROVE Shapes'
  OBVIOUS
<1>1. ASSUME UNCHANGED <<queue, next_id, next_retry, pending, deferred, results>> PROVE Shapes'
  BY <1>1 DEF Shapes
<1>2. CASE submit
  <2>1. UNCHANGED <<pending, deferred, next_id, next_retry>>
    BY <1>2 DEF submit
  <2>2. queue' \in Seq(Waiting) /\ results' \in [Services -> Seq(Result)]
    BY <1>2, Submitted
  <2> QED
    BY <2>1, <2>2 DEF Shapes
<1>3. ASSUME NEW s \in Services, SubmitInvalid(s) PROVE Shapes'
  <2>1. UNCHANGED <<queue, pending, deferred, next_id, next_retry>>
        /\ append_result(NewWork(s), "InvalidTarget", Unmatched)
    BY <1>3 DEF SubmitInvalid
  <2>2. PICK w \in Weighed : w = NewWork(s) /\ w.svc = s
    BY NewWorkWaits, WaitingWeighed
  <2>3. Founded(w, "InvalidTarget", Unmatched)
    BY HardPublishable DEF Founded, ServiceState
  <2>4. PICK r \in Result : results' = [results EXCEPT ![s] = Append(@, r)]
    BY <2>1, <2>2, <2>3, ResultSound
  <2>5. results' \in [Services -> Seq(Result)]
    <3>1. results \in [Services -> Seq(Result)]
      BY DEF Shapes
    <3>2. Append(results[s], r) \in Seq(Result)
      BY <3>1
    <3> QED
      BY <2>4, <3>1, <3>2
  <2> QED
    BY <2>1, <2>5 DEF Shapes
<1>4. CASE PumpReturns \/ Run \/ RunReturns \/ Waits \/ Terminated \/ UNCHANGED vars
  BY <1>1, <1>4 DEF PumpReturns, Run, RunReturns, Waits, Terminated, vars, schedulerVars
<1>5. ASSUME PumpLoops
      PROVE  /\ Head(queue) \in Waiting /\ Head(queue).svc \in Services /\ Tail(queue) \in Seq(Waiting)
  <2>1. queue \in Seq(Waiting) /\ queue # <<>>
    BY <1>5 DEF PumpLoops, Shapes
  <2>2. Head(queue) \in Waiting /\ Tail(queue) \in Seq(Waiting)
    BY <2>1, TailFacts
  <2> QED
    BY <2>2 DEF Waiting, AnyWork
<1>6. CASE FromHead
  <2>1. /\ PumpLoops /\ next_id' = next_id + 1 /\ pending' = pending
        /\ Lands(Head(queue).svc, Tail(queue), timers)
    BY <1>6 DEF FromHead
  <2>2. /\ queue' \in Seq(Waiting) /\ results' \in [Services -> Seq(Result)]
        /\ next_retry' \in Nat \ {0} /\ DOMAIN deferred' \subseteq 1..(next_retry' - 1)
        /\ \A r \in DOMAIN deferred' : deferred'[r] \in Waiting
    BY <1>5, <2>1, LandsShapes
  <2>3. next_id' \in Nat \ {0} /\ DOMAIN pending' \subseteq 1..(next_id' - 1)
    BY <2>1 DEF Shapes
  <2> QED
    BY <2>1, <2>2, <2>3 DEF Shapes
<1>7. CASE PumpSubmits
  <2>1. PICK e : /\ e = [work |-> Head(queue), response |-> 0, http_snapshot |-> FALSE,
                         previous_best_match |-> Unmatched]
                 /\ PumpLoops /\ pending' = With(pending, next_id, e) /\ next_id' = next_id + 1
                 /\ queue' = Tail(queue) /\ UNCHANGED <<deferred, next_retry, results>>
    BY <1>7 DEF PumpSubmits, Building
  <2>2. e \in Attempt
    BY <1>5, <2>1, WaitingWeighed, HardPublishable DEF Attempt
  <2>3. /\ DOMAIN pending' = DOMAIN pending \cup {next_id}
        /\ \A id \in DOMAIN pending' : pending'[id] = IF id = next_id THEN e ELSE pending[id]
    BY <2>1 DEF With
  <2>4. next_id' \in Nat \ {0} /\ DOMAIN pending' \subseteq 1..(next_id' - 1)
    BY <2>1, <2>3 DEF Shapes
  <2>5. \A id \in DOMAIN pending' : pending'[id] \in Attempt
    BY <2>2, <2>3 DEF Shapes
  <2> QED
    BY <1>5, <2>1, <2>4, <2>5 DEF Shapes
<1>8. ASSUME NEW id, FromOut(id) PROVE Shapes'
  <2>1. /\ id \in DOMAIN pending /\ pending' = Without(pending, id) /\ next_id' = next_id
        /\ Lands(pending[id].work.svc, queue, RemainingTimers(id))
    BY <1>8 DEF FromOut, Ends, Handled
  <2>2. pending[id].work.svc \in Services
    BY <2>1 DEF Shapes, Attempt, Weighed, AnyWork
  <2>3. queue \in Seq(Waiting)
    BY DEF Shapes
  <2>4. /\ queue' \in Seq(Waiting) /\ results' \in [Services -> Seq(Result)]
        /\ next_retry' \in Nat \ {0} /\ DOMAIN deferred' \subseteq 1..(next_retry' - 1)
        /\ \A r \in DOMAIN deferred' : deferred'[r] \in Waiting
    BY <2>1, <2>2, <2>3, LandsShapes
  <2>5. /\ DOMAIN pending' \subseteq DOMAIN pending
        /\ \A i \in DOMAIN pending' : pending'[i] = pending[i]
    BY <2>1 DEF Without
  <2> QED
    BY <2>1, <2>4, <2>5 DEF Shapes
<1>9. ASSUME NEW id, NEW http \in BOOLEAN, NEW match \in Unmatched..Hard, NEW whole,
             DataWaits(id, http, match, whole)
      PROVE  Shapes'
  <2>1. /\ id \in DOMAIN pending /\ (pending[id].http_snapshot => http) /\ match \in Matches
        /\ UNCHANGED <<queue, deferred, next_id, next_retry, results>>
    BY <1>9, LiveIsOut DEF DataWaits, Matches
  <2>2. PICK n \in Attempt : n = Parsed(pending[id], http, match)
    BY <2>1, ParsedFacts DEF Shapes
  <2>3. PICK m : m = [n EXCEPT !.response = @ + 1]
    OBVIOUS
  <2>4. m \in Attempt
    <3>1. /\ n \in [work : Weighed, response : Nat, http_snapshot : BOOLEAN,
                    previous_best_match : Matches]
          /\ IF n.http_snapshot THEN n.previous_best_match = n.work.kept ELSE n.work \in Waiting
      BY <2>2 DEF Attempt
    <3>2. /\ m \in [work : Weighed, response : Nat, http_snapshot : BOOLEAN,
                    previous_best_match : Matches]
          /\ m.work = n.work /\ m.http_snapshot = n.http_snapshot
          /\ m.previous_best_match = n.previous_best_match
      BY <2>3, <3>1
    <3> QED
      BY <3>1, <3>2 DEF Attempt
  <2>5. /\ DOMAIN pending' = DOMAIN pending
        /\ \A i \in DOMAIN pending : pending'[i] = IF i = id THEN m ELSE pending[i]
    <3>1. pending' = [pending EXCEPT ![id] = [Parsed(pending[id], http, match) EXCEPT !.response = @ + 1]]
      BY <1>9 DEF DataWaits
    <3>2. [Parsed(pending[id], http, match) EXCEPT !.response = @ + 1] = m
      BY <2>2, <2>3
    <3>3. pending' = [pending EXCEPT ![id] = m]
      BY <3>1, <3>2
    <3> QED
      BY <3>3
  <2> QED
    BY <2>1, <2>4, <2>5 DEF Shapes
<1>10. ASSUME NEW r \in DOMAIN deferred, on_retry_ready(r) PROVE Shapes'
  <2>1. /\ queue' = <<deferred[r]>> \o queue /\ deferred' = Without(deferred, r)
        /\ UNCHANGED <<pending, next_id, next_retry, results>>
    BY <1>10 DEF on_retry_ready, Handled
  <2>2. PICK x \in Waiting : x = deferred[r]
    BY DEF Shapes
  <2>3. queue' \in Seq(Waiting)
    <3>1. queue \in Seq(Waiting)
      BY DEF Shapes
    <3>2. <<x>> \o queue \in Seq(Waiting)
      BY <3>1
    <3> QED
      BY <2>1, <2>2, <3>2
  <2>4. /\ DOMAIN deferred' \subseteq DOMAIN deferred
        /\ \A i \in DOMAIN deferred' : deferred'[i] = deferred[i]
    BY <2>1 DEF Without
  <2> QED
    BY <2>1, <2>3, <2>4 DEF Shapes
<1>11. CASE Destroy
  <2>1. /\ pending' = EmptyMap /\ deferred' = EmptyMap /\ queue' = <<>>
        /\ UNCHANGED <<next_id, next_retry, results>>
    BY <1>11 DEF Destroy
  <2> QED
    BY <2>1, EmptyMapFacts DEF Shapes
<1> QED
  BY <1>2, <1>3, <1>4, <1>6, <1>7, <1>8, <1>9, <1>10, <1>11, HeadSteps, OutSteps
     DEF Next, Setup, pump, SocketEvent, Timer

-----------------------------------------------------------------------------
(* Phases.                                                                 *)

LEMMA NextPhases == Shapes /\ Phases /\ Tables /\ [Next]_vars => Phases'
<1> SUFFICES ASSUME Shapes, Phases, Tables, [Next]_vars PROVE Phases'
  OBVIOUS
<1>1. ASSUME UNCHANGED <<phase, pumping, limit>> PROVE Phases'
  BY <1>1 DEF Phases
<1>2. CASE submit
  BY <1>2 DEF submit, configVars, Phases
<1>3. ASSUME NEW s, SubmitInvalid(s) PROVE Phases'
  BY <1>3 DEF SubmitInvalid, configVars, Phases
<1>4. CASE PumpReturns
  BY <1>4 DEF PumpReturns, configVars, Phases
<1>5. CASE FromHead \/ PumpSubmits
  BY <1>1, <1>5 DEF FromHead, PumpSubmits, configVars
<1>6. CASE Run \/ RunReturns
  BY <1>6 DEF Run, RunReturns, Idle, configVars, Phases
<1>7. ASSUME Dispatching, Handled PROVE Phases'
  BY <1>7 DEF Dispatching, Idle, Handled, configVars, Phases
<1>8. ASSUME NEW id, FromOut(id) PROVE Phases'
  BY <1>7, <1>8 DEF FromOut
<1>9. ASSUME NEW id, NEW http, NEW match, NEW whole, DataWaits(id, http, match, whole)
      PROVE  Phases'
  BY <1>1, <1>9 DEF DataWaits, configVars
<1>10. ASSUME NEW r, on_retry_ready(r) PROVE Phases'
  BY <1>7, <1>10 DEF on_retry_ready
<1>11. CASE Destroy
  BY <1>11 DEF Destroy, configVars, Phases
<1>12. CASE Waits \/ Terminated \/ UNCHANGED vars
  BY <1>1, <1>12 DEF Waits, Terminated, vars, configVars
<1> QED
  BY <1>2, <1>3, <1>4, <1>5, <1>6, <1>8, <1>9, <1>10, <1>11, <1>12, HeadSteps, OutSteps
     DEF Next, Setup, pump, SocketEvent, Timer

-----------------------------------------------------------------------------
(* The tables.                                                             *)

(***************************************************************************)
(* Timers, by the work they belong to.                                     *)
(***************************************************************************)
LEMMA TimersTaken ==
  ASSUME NEW out, NEW off, NEW id
  PROVE  /\ TimersOf(Without(out, id), off) = TimersOf(out, off) \ {<<"probe", id>>}
         /\ TimersOf(out, Without(off, id)) = TimersOf(out, off) \ {<<"retry", id>>}
<1>1. /\ \A a, b : <<"probe", a>> # <<"retry", b>>
      /\ \A a, b : <<"probe", a>> = <<"probe", b>> => a = b
      /\ \A a, b : <<"retry", a>> = <<"retry", b>> => a = b
  OBVIOUS
<1>2. \A m, d, t : t \in TimersOf(m, d) <=> \/ \E i \in DOMAIN m : t = <<"probe", i>>
                                            \/ \E r \in DOMAIN d : t = <<"retry", r>>
  BY DEF TimersOf
<1>3. TimersOf(Without(out, id), off) = TimersOf(out, off) \ {<<"probe", id>>}
  <2>1. PICK g : g = Without(out, id)
    OBVIOUS
  <2>2. DOMAIN g = DOMAIN out \ {id}
    BY <2>1 DEF Without
  <2>3. \A t : t \in TimersOf(g, off) <=> t \in TimersOf(out, off) /\ t # <<"probe", id>>
    BY <1>1, <1>2, <2>2
  <2> QED
    BY <2>1, <2>3
<1>4. TimersOf(out, Without(off, id)) = TimersOf(out, off) \ {<<"retry", id>>}
  <2>1. PICK g : g = Without(off, id)
    OBVIOUS
  <2>2. DOMAIN g = DOMAIN off \ {id}
    BY <2>1 DEF Without
  <2>3. \A t : t \in TimersOf(out, g) <=> t \in TimersOf(out, off) /\ t # <<"retry", id>>
    BY <1>1, <1>2, <2>2
  <2> QED
    BY <2>1, <2>3
<1> QED
  BY <1>3, <1>4

LEMMA TimersAdded ==
  ASSUME NEW out, NEW off, NEW id, NEW x
  PROVE  /\ TimersOf(With(out, id, x), off) = TimersOf(out, off) \cup {<<"probe", id>>}
         /\ TimersOf(out, With(off, id, x)) = TimersOf(out, off) \cup {<<"retry", id>>}
<1>1. /\ \A a, b : <<"probe", a>> # <<"retry", b>>
      /\ \A a, b : <<"probe", a>> = <<"probe", b>> => a = b
      /\ \A a, b : <<"retry", a>> = <<"retry", b>> => a = b
  OBVIOUS
<1>2. \A m, d, t : t \in TimersOf(m, d) <=> \/ \E i \in DOMAIN m : t = <<"probe", i>>
                                            \/ \E r \in DOMAIN d : t = <<"retry", r>>
  BY DEF TimersOf
<1>3. TimersOf(With(out, id, x), off) = TimersOf(out, off) \cup {<<"probe", id>>}
  <2>1. PICK g : g = With(out, id, x)
    OBVIOUS
  <2>2. DOMAIN g = DOMAIN out \cup {id}
    BY <2>1 DEF With
  <2>3. \A t : t \in TimersOf(g, off) <=> t \in TimersOf(out, off) \/ t = <<"probe", id>>
    BY <1>2, <2>2
  <2> QED
    BY <2>1, <2>3
<1>4. TimersOf(out, With(off, id, x)) = TimersOf(out, off) \cup {<<"retry", id>>}
  <2>1. PICK g : g = With(off, id, x)
    OBVIOUS
  <2>2. DOMAIN g = DOMAIN off \cup {id}
    BY <2>1 DEF With
  <2>3. \A t : t \in TimersOf(out, g) <=> t \in TimersOf(out, off) \/ t = <<"retry", id>>
    BY <1>2, <2>2
  <2> QED
    BY <2>1, <2>3
<1> QED
  BY <1>3, <1>4

LEMMA LandsTimers ==
  ASSUME NEW s, NEW q, NEW out, Lands(s, q, TimersOf(out, deferred))
  PROVE  \E d : deferred' = d /\ timers' = TimersOf(out, d)
<1>1. ASSUME NEW x, deferred' = With(deferred, next_retry, x),
             timers' = TimersOf(out, deferred) \cup {<<"retry", next_retry>>}
      PROVE  timers' = TimersOf(out, With(deferred, next_retry, x))
  BY <1>1, TimersAdded
<1> QED
  BY <1>1 DEF Lands

(***************************************************************************)
(* The sockets: what Tables says of one, given who is out and whether a    *)
(* pump() is active.                                                       *)
(***************************************************************************)
Kept(conns, out, active) ==
  \A id \in DOMAIN conns :
    /\ conns[id] \in Connection
    /\ conns[id].completed \/ conns[id].cancel_requested \/ id \in out
    /\ conns[id].callback_in_progress \/ conns[id].cancel_requested => active

LEMMA KeptTables ==
  ASSUME NEW P, NEW d, pending' = P, deferred' = d, timers' = TimersOf(P, d),
         routes' = DOMAIN P, limit' \in Nat, Cardinality(DOMAIN P) <= limit',
         datagrams' \subseteq DOMAIN P,
         NEW c, connections' = c, Kept(c, DOMAIN P, pumping' # "no")
  PROVE  Tables'
BY DEF Tables, Kept, TimersOf

LEMMA ReapedKept ==
  ASSUME NEW out, Kept(connections, out, TRUE)
  PROVE  /\ Kept(reap_completed, out, TRUE)
         /\ \A id, c : c \in Connection /\ c.completed => Kept(With(reap_completed, id, c), out, TRUE)
         /\ \A id, c : c \in Connection => Kept(With(reap_completed, id, c), out \cup {id}, TRUE)
<1>1. PICK r : r = reap_completed
  OBVIOUS
<1>2. DOMAIN r \subseteq DOMAIN connections /\ \A i \in DOMAIN r : r[i] = connections[i]
  BY <1>1 DEF reap_completed
<1>3. Kept(r, out, TRUE)
  BY <1>2 DEF Kept
<1>4. ASSUME NEW id, NEW c
      PROVE  \E w : /\ w = With(r, id, c) /\ DOMAIN w = DOMAIN r \cup {id}
                    /\ w[id] = c /\ \A i \in DOMAIN r : i # id => w[i] = r[i]
  <2>1. PICK w : w = With(r, id, c)
    OBVIOUS
  <2>2. DOMAIN w = DOMAIN r \cup {id} /\ w[id] = c /\ \A i \in DOMAIN r : i # id => w[i] = r[i]
    BY <2>1 DEF With
  <2> QED
    BY <2>1, <2>2
<1>5. ASSUME NEW id, NEW c \in Connection, c.completed PROVE Kept(With(r, id, c), out, TRUE)
  <2>1. PICK w : /\ w = With(r, id, c) /\ DOMAIN w = DOMAIN r \cup {id}
                 /\ w[id] = c /\ \A i \in DOMAIN r : i # id => w[i] = r[i]
    BY <1>4
  <2>2. Kept(w, out, TRUE)
    BY <1>3, <1>5, <2>1 DEF Kept
  <2> QED
    BY <2>1, <2>2
<1>6. ASSUME NEW id, NEW c \in Connection PROVE Kept(With(r, id, c), out \cup {id}, TRUE)
  <2>1. PICK w : /\ w = With(r, id, c) /\ DOMAIN w = DOMAIN r \cup {id}
                 /\ w[id] = c /\ \A i \in DOMAIN r : i # id => w[i] = r[i]
    BY <1>4
  <2>2. Kept(w, out \cup {id}, TRUE)
    BY <1>3, <1>6, <2>1 DEF Kept
  <2> QED
    BY <2>1, <2>2
<1> QED
  BY <1>1, <1>3, <1>5, <1>6

LEMMA EmittedKept ==
  ASSUME NEW out, Kept(connections, out, FALSE), NEW id,
         cancel(id) \/ emit(id, TRUE) \/ emit(id, FALSE)
  PROVE  \E c : connections' = c /\ Kept(c, out \ {id}, TRUE)
<1>1. CASE cancel(id)
  <2>1. connections' = IF id \in OpenConnections THEN Without(connections, id) ELSE connections
    BY <1>1 DEF cancel
  <2>2. CASE id \in OpenConnections
    <3>1. PICK c : c = Without(connections, id)
      OBVIOUS
    <3>2. DOMAIN c = DOMAIN connections \ {id} /\ \A i \in DOMAIN c : c[i] = connections[i]
      BY <3>1 DEF Without
    <3>3. Kept(c, out \ {id}, TRUE)
      BY <3>2 DEF Kept
    <3> QED
      BY <2>1, <2>2, <3>1, <3>3
  <2>3. CASE id \notin OpenConnections
    <3>1. Kept(connections, out \ {id}, TRUE)
      BY <2>3 DEF Kept, OpenConnections
    <3> QED
      BY <2>1, <2>3, <3>1
  <2> QED
    BY <2>2, <2>3
<1>2. ASSUME NEW terminal \in BOOLEAN, emit(id, terminal)
      PROVE  \E c : connections' = c /\ Kept(c, out \ {id}, TRUE)
  <2>1. CASE id \in DOMAIN connections
    <3>1. PICK e : e = [completed |-> terminal, callback_in_progress |-> TRUE,
                        cancel_requested |-> ~terminal]
      OBVIOUS
    <3>2. e \in Connection /\ (e.completed \/ e.cancel_requested)
      BY <3>1 DEF Connection
    <3>3. PICK c : c = [connections EXCEPT ![id] = e]
      OBVIOUS
    <3>4. /\ DOMAIN c = DOMAIN connections
          /\ \A i \in DOMAIN c : c[i] = IF i = id THEN e ELSE connections[i]
      BY <3>3
    <3>5. Kept(c, out \ {id}, TRUE)
      BY <3>2, <3>4 DEF Kept
    <3>6. connections' = c
      BY <1>2, <2>1, <3>1, <3>3 DEF emit
    <3> QED
      BY <3>5, <3>6
  <2>2. CASE id \notin DOMAIN connections
    <3>1. connections' = connections
      BY <1>2, <2>2 DEF emit
    <3>2. Kept(connections, out \ {id}, TRUE)
      BY <2>2 DEF Kept
    <3> QED
      BY <3>1, <3>2
  <2> QED
    BY <2>1, <2>2
<1> QED
  BY <1>1, <1>2

LEMMA NextTables == Shapes /\ Phases /\ Tables /\ [Next]_vars => Tables'
<1> SUFFICES ASSUME Shapes, Phases, Tables, [Next]_vars PROVE Tables'
  OBVIOUS
<1>1. ASSUME UNCHANGED <<timers, pending, deferred, routes, limit, datagrams, connections>>,
             pumping' = "no" => pumping = "no"
      PROVE  Tables'
  BY <1>1 DEF Tables, TimersOf
<1>2. /\ timers = TimersOf(pending, deferred) /\ routes = DOMAIN pending /\ limit \in Nat
      /\ Cardinality(DOMAIN pending) <= limit /\ datagrams \subseteq DOMAIN pending
      /\ Kept(connections, DOMAIN pending, pumping # "no")
      /\ Kept(connections, DOMAIN pending, TRUE)
  BY DEF Tables, Kept, Phases
<1>3. CASE Setup \/ Run \/ RunReturns \/ Waits \/ Terminated \/ UNCHANGED vars
  BY <1>1, <1>3 DEF Setup, submit, SubmitInvalid, Run, RunReturns, Waits, Terminated, vars,
     configVars, schedulerVars, transportVars
<1>4. CASE PumpReturns
  <2>1. /\ pumping' = "no" /\ connections' = Unwound
        /\ UNCHANGED <<timers, pending, deferred, routes, limit, datagrams>>
    BY <1>4 DEF PumpReturns, configVars, schedulerVars
  <2>2. PICK c : c = Unwound
    OBVIOUS
  <2>3. /\ DOMAIN c = DOMAIN connections
        /\ \A id \in DOMAIN connections :
             c[id] = [completed |-> connections[id].completed \/ connections[id].cancel_requested,
                      callback_in_progress |-> FALSE, cancel_requested |-> FALSE]
    BY <2>2 DEF Unwound
  <2>4. ASSUME NEW id \in DOMAIN connections
        PROVE  /\ c[id] \in Connection
               /\ c[id].completed \/ id \in DOMAIN pending
               /\ ~c[id].callback_in_progress /\ ~c[id].cancel_requested
    <3>1. /\ connections[id] \in Connection
          /\ connections[id].completed \/ connections[id].cancel_requested \/ id \in DOMAIN pending
      BY <1>2 DEF Kept
    <3>2. PICK done \in BOOLEAN : /\ done = (connections[id].completed \/ connections[id].cancel_requested)
                                  /\ c[id] = [completed |-> done, callback_in_progress |-> FALSE,
                                              cancel_requested |-> FALSE]
      BY <2>3, <3>1 DEF Connection
    <3>3. done \/ id \in DOMAIN pending
      BY <3>1, <3>2
    <3> QED
      BY <3>2, <3>3 DEF Connection
  <2>5. Kept(c, DOMAIN pending, FALSE)
    BY <2>3, <2>4 DEF Kept
  <2>6. (pumping' # "no") = FALSE
    BY <2>1
  <2>7. Kept(c, DOMAIN pending, pumping' # "no")
    BY <2>5, <2>6
  <2> QED
    BY <1>2, <2>1, <2>2, <2>7, KeptTables
<1>5. CASE FromHead
  <2>1. /\ PumpLoops /\ Lands(Head(queue).svc, Tail(queue), timers) /\ Reaped(next_id)
        /\ UNCHANGED <<limit, pending, pumping, datagrams, routes>>
    BY <1>5 DEF FromHead
  <2>2. PICK d : deferred' = d /\ timers' = TimersOf(pending, d)
    BY <1>2, <2>1, LandsTimers
  <2>3. PICK e \in Connection : /\ e.completed
                                /\ e = [completed |-> TRUE, callback_in_progress |-> TRUE,
                                        cancel_requested |-> FALSE]
    BY DEF Connection
  <2>4. PICK c : connections' = c /\ Kept(c, DOMAIN pending, TRUE)
    <3>1. \/ connections' = connections \/ connections' = reap_completed
          \/ connections' = With(reap_completed, next_id, e)
      BY <2>1, <2>3 DEF Reaped
    <3>2. /\ Kept(reap_completed, DOMAIN pending, TRUE)
          /\ Kept(With(reap_completed, next_id, e), DOMAIN pending, TRUE)
      BY <1>2, <2>3, ReapedKept
    <3> QED
      BY <1>2, <3>1, <3>2
  <2>5. (pumping' # "no") = TRUE
    BY <2>1 DEF PumpLoops
  <2>6. Kept(c, DOMAIN pending, pumping' # "no")
    BY <2>4, <2>5
  <2> QED
    BY <1>2, <2>1, <2>2, <2>4, <2>6, KeptTables
<1>6. CASE PumpSubmits
  <2>1. PICK x : /\ PumpLoops /\ pending' = With(pending, next_id, x)
                 /\ timers' = timers \cup {<<"probe", next_id>>} /\ routes' = routes \cup {next_id}
                 /\ datagrams' = datagrams \cup {next_id} \/ datagrams' = datagrams
                 /\ UNCHANGED <<limit, pumping, deferred>>
    BY <1>6 DEF PumpSubmits, Building, configVars
  <2>2. PICK P : P = With(pending, next_id, x)
    OBVIOUS
  <2>3. DOMAIN P = DOMAIN pending \cup {next_id}
    BY <2>2 DEF With
  <2>4. timers' = TimersOf(P, deferred)
    BY <1>2, <2>1, <2>2, TimersAdded
  <2>5. Cardinality(DOMAIN P) <= limit
    <3>1. IsFiniteSet(DOMAIN pending) /\ Cardinality(DOMAIN pending) \in Nat
          /\ next_id \notin DOMAIN pending
      BY PendingFinite DEF Shapes
    <3>2. Cardinality(DOMAIN pending \cup {next_id}) = Cardinality(DOMAIN pending) + 1
      BY <3>1, FS_AddElement
    <3> QED
      BY <1>2, <2>1, <2>3, <3>1, <3>2 DEF PumpLoops
  <2>6. PICK c : connections' = c /\ Kept(c, DOMAIN P, TRUE)
    <3>1. PICK e \in Connection : e = [completed |-> FALSE, callback_in_progress |-> FALSE,
                                       cancel_requested |-> FALSE]
      BY DEF Connection
    <3>2. connections' = connections \/ connections' = With(reap_completed, next_id, e)
      BY <1>6, <3>1 DEF PumpSubmits
    <3>3. Kept(With(reap_completed, next_id, e), DOMAIN P, TRUE)
      BY <1>2, <2>3, ReapedKept
    <3>4. Kept(connections, DOMAIN P, TRUE)
      BY <1>2, <2>3 DEF Kept
    <3> QED
      BY <3>2, <3>3, <3>4
  <2>7. (pumping' # "no") = TRUE
    BY <2>1 DEF PumpLoops
  <2>8. Kept(c, DOMAIN P, pumping' # "no")
    BY <2>6, <2>7
  <2>9. routes' = DOMAIN P /\ datagrams' \subseteq DOMAIN P
    BY <1>2, <2>1, <2>3
  <2> QED
    BY <1>2, <2>1, <2>2, <2>4, <2>5, <2>6, <2>8, <2>9, KeptTables
<1>7. ASSUME NEW id \in DOMAIN pending, NEW P, P = Without(pending, id)
      PROVE  DOMAIN P = DOMAIN pending \ {id} /\ Cardinality(DOMAIN P) <= limit
  <2>1. DOMAIN P = DOMAIN pending \ {id}
    BY <1>7 DEF Without
  <2>2. IsFiniteSet(DOMAIN pending) /\ Cardinality(DOMAIN pending) \in Nat
    BY PendingFinite
  <2>3. Cardinality(DOMAIN pending \ {id}) = Cardinality(DOMAIN pending) - 1
    BY <2>2, FS_RemoveElement
  <2> QED
    BY <1>2, <2>1, <2>2, <2>3
<1>8. ASSUME NEW id, FromOut(id) PROVE Tables'
  <2>1. /\ id \in DOMAIN pending /\ pending' = Without(pending, id) /\ routes' = routes \ {id}
        /\ Lands(pending[id].work.svc, queue, RemainingTimers(id))
        /\ pumping = "no" /\ pumping' = "handler" /\ limit' = limit
        /\ cancel(id) \/ emit(id, TRUE) \/ emit(id, FALSE)
    BY <1>8 DEF FromOut, Ends, Handled, Dispatching, Idle, configVars
  <2>2. PICK P : P = Without(pending, id)
    OBVIOUS
  <2>3. DOMAIN P = DOMAIN pending \ {id} /\ Cardinality(DOMAIN P) <= limit
    BY <1>7, <2>1, <2>2
  <2>4. RemainingTimers(id) = TimersOf(P, deferred)
    <3>1. TimersOf(Without(pending, id), deferred) = TimersOf(pending, deferred) \ {<<"probe", id>>}
      BY TimersTaken
    <3> QED
      BY <1>2, <2>2, <3>1 DEF RemainingTimers
  <2>5. PICK d : deferred' = d /\ timers' = TimersOf(P, d)
    BY <2>1, <2>4, LandsTimers
  <2>6. datagrams' \subseteq DOMAIN P
    BY <1>2, <2>1, <2>3 DEF cancel, emit
  <2>7. Kept(connections, DOMAIN pending, FALSE)
    <3>1. (pumping # "no") = FALSE
      BY <2>1
    <3> QED
      BY <1>2, <3>1
  <2>8. PICK c : connections' = c /\ Kept(c, DOMAIN pending \ {id}, TRUE)
    BY <2>1, <2>7, EmittedKept
  <2>9. (pumping' # "no") = TRUE
    BY <2>1
  <2>10. Kept(c, DOMAIN P, pumping' # "no")
    BY <2>3, <2>8, <2>9
  <2>11. routes' = DOMAIN P
    BY <1>2, <2>1, <2>3
  <2> QED
    BY <1>2, <2>1, <2>2, <2>3, <2>5, <2>6, <2>8, <2>10, <2>11, KeptTables
<1>9. ASSUME NEW id, NEW http, NEW match, NEW whole, DataWaits(id, http, match, whole)
      PROVE  Tables'
  <2>1. /\ DOMAIN pending' = DOMAIN pending /\ datagrams' \subseteq datagrams
        /\ UNCHANGED <<timers, deferred, routes, limit, connections, pumping>>
    BY <1>9 DEF DataWaits, configVars
  <2> QED
    BY <2>1 DEF Tables, TimersOf
<1>10. ASSUME NEW r, on_retry_ready(r) PROVE Tables'
  <2>1. /\ timers' = timers \ {<<"retry", r>>} /\ deferred' = Without(deferred, r)
        /\ pumping' = "handler" /\ UNCHANGED <<pending, limit, connections, datagrams, routes>>
    BY <1>10 DEF on_retry_ready, Handled, transportVars, configVars
  <2>2. PICK d : d = Without(deferred, r)
    OBVIOUS
  <2>3. timers' = TimersOf(pending, d)
    BY <1>2, <2>1, <2>2, TimersTaken
  <2>4. (pumping' # "no") = TRUE
    BY <2>1
  <2>5. Kept(connections, DOMAIN pending, pumping' # "no")
    BY <1>2, <2>4
  <2> QED
    BY <1>2, <2>1, <2>2, <2>3, <2>5, KeptTables
<1>11. CASE Destroy
  <2>1. /\ pending' = EmptyMap /\ deferred' = EmptyMap /\ connections' = EmptyMap
        /\ datagrams' = {} /\ routes' = {} /\ limit' = limit
        /\ timers' = timers \ TimersOf(pending, deferred)
    BY <1>11 DEF Destroy, TimersOf, configVars
  <2>2. timers' = {} /\ TimersOf(EmptyMap, EmptyMap) = {}
    BY <1>2, <2>1, EmptyMapFacts DEF TimersOf
  <2>3. Cardinality({}) = 0
    BY FS_EmptySet
  <2>4. Kept(EmptyMap, {}, pumping' # "no")
    BY EmptyMapFacts DEF Kept
  <2> QED
    BY <1>2, <2>1, <2>2, <2>3, <2>4, EmptyMapFacts, KeptTables
<1> QED
  BY <1>3, <1>4, <1>5, <1>6, <1>8, <1>9, <1>10, <1>11, HeadSteps, OutSteps
     DEF Next, pump, SocketEvent, Timer

-----------------------------------------------------------------------------
(* Where every port is.                                                    *)

LEMMA HeadTaken ==
  ASSUME NEW q \in Seq(Waiting), q # <<>>, DistinctQueue(q)
  PROVE  /\ DistinctQueue(Tail(q)) /\ Queued(q, Head(q).svc)
         /\ \A s : Queued(Tail(q), s) <=> Queued(q, s) /\ s # Head(q).svc
<1>1. /\ Len(q) \in Nat \ {0} /\ DOMAIN q = 1..Len(q) /\ Head(q) = q[1]
      /\ DOMAIN Tail(q) = 1..(Len(q) - 1)
      /\ \A i \in 1..(Len(q) - 1) : Tail(q)[i] = q[i + 1]
  BY TailFacts
<1>2. DistinctQueue(Tail(q))
  BY <1>1 DEF DistinctQueue
<1>3. Queued(q, Head(q).svc)
  BY <1>1 DEF Queued
<1>4. ASSUME NEW s, Queued(Tail(q), s) PROVE Queued(q, s) /\ s # Head(q).svc
  <2>1. PICK i \in 1..(Len(q) - 1) : q[i + 1].svc = s
    BY <1>1, <1>4 DEF Queued
  <2>2. i + 1 \in DOMAIN q /\ 1 \in DOMAIN q /\ i + 1 # 1
    BY <1>1
  <2> QED
    BY <1>1, <2>1, <2>2 DEF Queued, DistinctQueue
<1>5. ASSUME NEW s, Queued(q, s), s # Head(q).svc PROVE Queued(Tail(q), s)
  <2>1. PICK i \in 1..Len(q) : q[i].svc = s
    BY <1>1, <1>5 DEF Queued
  <2>2. i # 1
    BY <1>1, <1>5, <2>1
  <2>3. i - 1 \in 1..(Len(q) - 1) /\ (i - 1) + 1 = i
    BY <1>1, <2>2
  <2>4. Tail(q)[i - 1] = q[i]
    BY <1>1, <2>3
  <2> QED
    BY <1>1, <2>1, <2>3, <2>4 DEF Queued
<1> QED
  BY <1>2, <1>3, <1>4, <1>5

LEMMA HeadPut ==
  ASSUME NEW q \in Seq(Waiting), NEW x \in Waiting, DistinctQueue(q), ~Queued(q, x.svc)
  PROVE  /\ DistinctQueue(<<x>> \o q)
         /\ \A s : Queued(<<x>> \o q, s) <=> Queued(q, s) \/ s = x.svc
<1> DEFINE r == <<x>> \o q
<1>1. /\ Len(q) \in Nat /\ DOMAIN q = 1..Len(q) /\ DOMAIN r = 1..(Len(q) + 1)
      /\ r[1] = x /\ \A i \in 1..Len(q) : r[i + 1] = q[i]
  OBVIOUS
<1>2. \A i \in 1..(Len(q) + 1) : i = 1 \/ (i - 1 \in 1..Len(q) /\ (i - 1) + 1 = i)
  BY <1>1
<1> HIDE DEF r
<1>3. \A i \in DOMAIN r : i = 1 \/ (i - 1 \in DOMAIN q /\ r[i] = q[i - 1])
  BY <1>1, <1>2
<1>4. DistinctQueue(r)
  <2> SUFFICES ASSUME NEW i \in DOMAIN r, NEW j \in DOMAIN r, r[i].svc = r[j].svc
               PROVE  i = j
    BY DEF DistinctQueue
  <2>1. CASE i # 1 /\ j # 1
    <3>1. i - 1 = j - 1
      BY <1>3, <2>1 DEF DistinctQueue
    <3>2. i \in Int /\ j \in Int
      BY <1>1
    <3> QED
      BY <3>1, <3>2
  <2>2. CASE i = 1 \/ j = 1
    BY <1>1, <1>3, <2>2 DEF Queued
  <2> QED
    BY <2>1, <2>2
<1>5. ASSUME NEW s, Queued(r, s) PROVE Queued(q, s) \/ s = x.svc
  BY <1>1, <1>3, <1>5 DEF Queued
<1>6. ASSUME NEW s, Queued(q, s) \/ s = x.svc PROVE Queued(r, s)
  <2>1. 1 \in DOMAIN r /\ \A i \in DOMAIN q : i + 1 \in DOMAIN r
    BY <1>1
  <2> QED
    BY <1>1, <1>6, <2>1 DEF Queued
<1> QED
  BY <1>4, <1>5, <1>6 DEF r

LEMMA OutAdded ==
  ASSUME NEW m, NEW n, n \notin DOMAIN m, NEW e, DistinctOut(m), ~Out(m, e.work.svc)
  PROVE  /\ DistinctOut(With(m, n, e))
         /\ \A s : Out(With(m, n, e), s) <=> Out(m, s) \/ s = e.work.svc
<1>1. PICK r : r = With(m, n, e)
  OBVIOUS
<1>2. DOMAIN r = DOMAIN m \cup {n} /\ r[n] = e /\ \A y \in DOMAIN m : r[y] = m[y]
  BY <1>1 DEF With
<1> QED
  BY <1>1, <1>2 DEF DistinctOut, Out

LEMMA OutRemoved ==
  ASSUME NEW m, NEW n \in DOMAIN m, DistinctOut(m)
  PROVE  /\ DistinctOut(Without(m, n)) /\ Out(m, m[n].work.svc)
         /\ \A s : Out(Without(m, n), s) <=> Out(m, s) /\ s # m[n].work.svc
<1>1. PICK r : r = Without(m, n)
  OBVIOUS
<1>2. DOMAIN r = DOMAIN m \ {n} /\ \A y \in DOMAIN m \ {n} : r[y] = m[y]
  BY <1>1 DEF Without
<1> QED
  BY <1>1, <1>2 DEF DistinctOut, Out

LEMMA OffAdded ==
  ASSUME NEW d, NEW n, n \notin DOMAIN d, NEW x, DistinctOff(d), ~Off(d, x.svc)
  PROVE  /\ DistinctOff(With(d, n, x))
         /\ \A s : Off(With(d, n, x), s) <=> Off(d, s) \/ s = x.svc
<1>1. PICK r : r = With(d, n, x)
  OBVIOUS
<1>2. DOMAIN r = DOMAIN d \cup {n} /\ r[n] = x /\ \A y \in DOMAIN d : r[y] = d[y]
  BY <1>1 DEF With
<1> QED
  BY <1>1, <1>2 DEF DistinctOff, Off

LEMMA OffRemoved ==
  ASSUME NEW d, NEW n \in DOMAIN d, DistinctOff(d)
  PROVE  /\ DistinctOff(Without(d, n)) /\ Off(d, d[n].svc)
         /\ \A s : Off(Without(d, n), s) <=> Off(d, s) /\ s # d[n].svc
<1>1. PICK r : r = Without(d, n)
  OBVIOUS
<1>2. DOMAIN r = DOMAIN d \ {n} /\ \A y \in DOMAIN d \ {n} : r[y] = d[y]
  BY <1>1 DEF Without
<1> QED
  BY <1>1, <1>2 DEF DistinctOff, Off

LEMMA AnswerGiven ==
  ASSUME NEW res \in [Services -> Seq(Result)], NEW s \in Services, NEW r \in Result,
         NEW new, new = [res EXCEPT ![s] = Append(@, r)], Len(res[s]) <= 1, ~Answer(res, s)
  PROVE  /\ Len(new[s]) <= 1 /\ Answer(new, s)
         /\ \A t \in Services : t # s => new[t] = res[t]
<1>1. res[s] = <<>> /\ new[s] = Append(res[s], r)
  BY DEF Answer
<1>2. new[s] = <<r>>
  BY <1>1
<1>3. Len(new[s]) = 1 /\ new[s] # <<>>
  BY <1>2
<1> QED
  BY <1>3 DEF Answer

(***************************************************************************)
(* A port that is in no place, because its attempt has just ended, lands   *)
(* in one and disturbs no other.                                           *)
(***************************************************************************)
LEMMA LandsPlaces ==
  ASSUME Shapes, NEW s \in Services, NEW q \in Seq(Waiting), NEW m, NEW T,
         Placed(q, m, deferred, results), ~Somewhere(q, m, deferred, results, s), Lands(s, q, T)
  PROVE  /\ Placed(queue', m, deferred', results')
         /\ \A t \in Services : t # s /\ Somewhere(q, m, deferred, results, t) =>
              Somewhere(queue', m, deferred', results', t)
         /\ status' = "Ok" => Somewhere(queue', m, deferred', results', s)
<1>1. /\ ~Queued(q, s) /\ ~Out(m, s) /\ ~Off(deferred, s) /\ ~Answer(results, s)
      /\ DistinctQueue(q) /\ DistinctOut(m) /\ DistinctOff(deferred)
  BY DEF Somewhere, Placed
<1>2. CASE \E r \in Result : /\ results' = [results EXCEPT ![s] = Append(@, r)]
                             /\ queue' = q /\ deferred' = deferred
  <2>1. PICK r \in Result : results' = [results EXCEPT ![s] = Append(@, r)]
    BY <1>2
  <2>2. results \in [Services -> Seq(Result)] /\ Len(results[s]) <= 1
    BY DEF Shapes, Placed
  <2>3. PICK new : new = results'
    OBVIOUS
  <2>4. /\ Len(new[s]) <= 1 /\ Answer(new, s)
        /\ \A t \in Services : t # s => new[t] = results[t]
    BY <1>1, <2>1, <2>2, <2>3, AnswerGiven
  <2>5. \A t \in Services : t # s => (Answer(new, t) <=> Answer(results, t))
    BY <2>4 DEF Answer
  <2>6. Placed(q, m, deferred, new)
    <3>1. ASSUME NEW t \in Services
          PROVE  /\ Len(new[t]) <= 1
                 /\ Queued(q, t) => ~Out(m, t) /\ ~Off(deferred, t) /\ ~Answer(new, t)
                 /\ Out(m, t) => ~Off(deferred, t) /\ ~Answer(new, t)
                 /\ Off(deferred, t) => ~Answer(new, t)
      <4>1. CASE t = s
        BY <1>1, <2>4, <4>1
      <4>2. CASE t # s
        BY <2>4, <2>5, <4>2 DEF Placed
      <4> QED
        BY <4>1, <4>2
    <3> QED
      BY <1>1, <3>1 DEF Placed
  <2> QED
    BY <1>2, <2>3, <2>4, <2>5, <2>6 DEF Somewhere
<1>3. CASE \E x \in Waiting : /\ x.svc = s /\ queue' = <<x>> \o q
                              /\ UNCHANGED <<results, deferred>>
  <2>1. PICK x \in Waiting : x.svc = s /\ queue' = <<x>> \o q
    BY <1>3
  <2>2. /\ DistinctQueue(queue')
        /\ \A t : Queued(queue', t) <=> Queued(q, t) \/ t = s
    BY <1>1, <2>1, HeadPut
  <2> QED
    BY <1>1, <1>3, <2>2 DEF Placed, Somewhere
<1>4. CASE \E x \in Waiting : /\ x.svc = s /\ deferred' = With(deferred, next_retry, x)
                              /\ queue' = q /\ UNCHANGED results
  <2>1. PICK x \in Waiting : x.svc = s /\ deferred' = With(deferred, next_retry, x)
    BY <1>4
  <2>2. next_retry \notin DOMAIN deferred
    BY DEF Shapes
  <2>3. PICK d : d = deferred'
    OBVIOUS
  <2>4. DistinctOff(d) /\ \A t : Off(d, t) <=> Off(deferred, t) \/ t = s
    BY <1>1, <2>1, <2>2, <2>3, OffAdded
  <2>5. Placed(q, m, d, results) /\ Off(d, s)
        /\ \A t : Off(deferred, t) => Off(d, t)
    BY <1>1, <2>4 DEF Placed
  <2> QED
    BY <1>4, <2>3, <2>5 DEF Somewhere
<1>5. CASE status' # "Ok" /\ queue' = q /\ UNCHANGED <<results, deferred>>
  BY <1>5
<1> QED
  BY <1>2, <1>3, <1>4, <1>5 DEF Lands

(***************************************************************************)
(* A step that takes port s out of its place, to (q, m), and lands it.     *)
(***************************************************************************)
LEMMA MovePlaces ==
  ASSUME Shapes, Phases, Placement, phase \notin {"created", "destroyed"},
         phase' = phase, NEW s \in Services, NEW q \in Seq(Waiting), NEW m, NEW T,
         Placed(q, m, deferred, results), ~Somewhere(q, m, deferred, results, s),
         \A t \in Services : t # s /\ Somewhere(queue, pending, deferred, results, t) =>
           Somewhere(q, m, deferred, results, t),
         pending' = m, Lands(s, q, T)
  PROVE  Placement'
<1>1. /\ Placed(queue', m, deferred', results')
      /\ \A t \in Services : t # s /\ Somewhere(q, m, deferred, results, t) =>
           Somewhere(queue', m, deferred', results', t)
      /\ status' = "Ok" => Somewhere(queue', m, deferred', results', s)
  BY LandsPlaces
<1>2. status' = "Ok" => status = "Ok"
  BY DEF Lands
<1>3. status' = "Ok" => \A t \in Services : Somewhere(queue, pending, deferred, results, t)
  BY <1>2 DEF Placement
<1>4. status' = "Ok" => \A t \in Services : Somewhere(queue', m, deferred', results', t)
  BY <1>1, <1>3
<1>5. Placed(queue', pending', deferred', results')
      /\ (status' = "Ok" => \A t \in Services : Somewhere(queue', pending', deferred', results', t))
  BY <1>1, <1>4
<1> QED
  BY <1>5 DEF Placement, Placed, Somewhere, DistinctQueue, DistinctOut, DistinctOff, Queued, Out,
     Off, Answer

LEMMA NextPlacement == Shapes /\ Phases /\ Tables /\ Placement /\ [Next]_vars => Placement'
<1> SUFFICES ASSUME Shapes, Phases, Tables, Placement, [Next]_vars PROVE Placement'
  OBVIOUS
<1>1. ASSUME UNCHANGED <<queue, pending, deferred, results, status>>,
             phase' = phase \/ (phase \notin {"created", "destroyed"} /\ phase' # "created")
      PROVE  Placement'
  BY <1>1 DEF Placement, Placed, Somewhere, DistinctQueue, DistinctOut, DistinctOff, Queued, Out,
     Off, Answer
<1>2. CASE submit
  <2>1. /\ DOMAIN pending' = {} /\ DOMAIN deferred' = {} /\ phase' = "submitting"
    BY <1>2 DEF submit, Placement
  <2>2. /\ \A i, j \in DOMAIN queue' : queue'[i].svc = queue'[j].svc => i = j
        /\ \A s \in Services :
             /\ (\E i \in DOMAIN queue' : queue'[i].svc = s) <=> Probes[s] > 0
             /\ results'[s] = <<>> <=> Probes[s] > 0
             /\ Len(results'[s]) <= 1
    BY <1>2, Submitted
  <2> QED
    BY <2>1, <2>2 DEF Placement, Placed, Somewhere, DistinctQueue, DistinctOut, DistinctOff, Queued,
       Out, Off, Answer
<1>3. ASSUME NEW s \in Services, SubmitInvalid(s) PROVE Placement'
  <2>1. /\ phase = "created" /\ phase' = "refused" /\ status' # "Ok"
        /\ UNCHANGED <<queue, pending, deferred>>
        /\ append_result(NewWork(s), "InvalidTarget", Unmatched)
    BY <1>3 DEF SubmitInvalid
  <2>2. PICK w \in Weighed : w = NewWork(s) /\ w.svc = s
    BY NewWorkWaits, WaitingWeighed
  <2>3. Founded(w, "InvalidTarget", Unmatched)
    BY HardPublishable DEF Founded, ServiceState
  <2>4. PICK r \in Result : results' = [results EXCEPT ![s] = Append(@, r)]
    BY <2>1, <2>2, <2>3, ResultSound
  <2>5. /\ queue = <<>> /\ DOMAIN pending = {} /\ DOMAIN deferred = {}
        /\ \A t \in Services : results[t] = <<>>
    BY <2>1 DEF Placement
  <2>6. results \in [Services -> Seq(Result)]
    BY DEF Shapes
  <2>7. \A t \in Services : results'[t] = IF t = s THEN Append(<<>>, r) ELSE <<>>
    BY <2>4, <2>5, <2>6
  <2>8. Append(<<>>, r) = <<r>> /\ Len(<<r>>) = 1 /\ Len(<<>>) = 0 /\ DOMAIN <<>> = {}
    OBVIOUS
  <2>9. ASSUME NEW t \in Services PROVE Len(results'[t]) <= 1
    <3>1. CASE t = s
      <4>1. results'[t] = <<r>>
        BY <2>7, <2>8, <3>1
      <4> QED
        BY <2>8, <4>1
    <3>2. CASE t # s
      BY <2>7, <2>8, <3>2
    <3> QED
      BY <3>1, <3>2
  <2> QED
    BY <2>1, <2>5, <2>8, <2>9 DEF Placement, Placed, DistinctQueue, DistinctOut, DistinctOff,
       Queued, Out, Off
<1>4. CASE PumpReturns \/ Run \/ RunReturns
  BY <1>1, <1>4 DEF PumpReturns, Run, RunReturns, Idle, schedulerVars, Phases
<1>5. ASSUME PumpLoops
      PROVE  /\ queue \in Seq(Waiting) /\ queue # <<>> /\ status = "Ok"
             /\ Head(queue).svc \in Services /\ Tail(queue) \in Seq(Waiting)
             /\ phase \notin {"created", "destroyed"}
             /\ Placed(Tail(queue), pending, deferred, results)
             /\ ~Somewhere(Tail(queue), pending, deferred, results, Head(queue).svc)
             /\ \A t \in Services :
                  t # Head(queue).svc /\ Somewhere(queue, pending, deferred, results, t) =>
                    Somewhere(Tail(queue), pending, deferred, results, t)
  <2>1. queue \in Seq(Waiting) /\ queue # <<>> /\ status = "Ok" /\ pumping # "no"
    BY <1>5 DEF PumpLoops, Shapes
  <2>2. Head(queue) \in Waiting /\ Tail(queue) \in Seq(Waiting)
    BY <2>1, TailFacts
  <2>3. Head(queue).svc \in Services
    BY <2>2 DEF Waiting, AnyWork
  <2>4. Placed(queue, pending, deferred, results)
    BY DEF Placement
  <2>5. /\ DistinctQueue(Tail(queue)) /\ Queued(queue, Head(queue).svc)
        /\ \A s : Queued(Tail(queue), s) <=> Queued(queue, s) /\ s # Head(queue).svc
    BY <2>1, <2>4, HeadTaken DEF Placed
  <2>6. phase \notin {"created", "destroyed"}
    BY <2>1 DEF Phases
  <2>7. Placed(Tail(queue), pending, deferred, results)
    BY <2>4, <2>5 DEF Placed
  <2>8. ~Somewhere(Tail(queue), pending, deferred, results, Head(queue).svc)
    BY <2>3, <2>4, <2>5 DEF Placed, Somewhere
  <2>9. \A t \in Services :
          t # Head(queue).svc /\ Somewhere(queue, pending, deferred, results, t) =>
            Somewhere(Tail(queue), pending, deferred, results, t)
    BY <2>5 DEF Somewhere
  <2> QED
    BY <2>1, <2>2, <2>3, <2>6, <2>7, <2>8, <2>9
<1>6. CASE FromHead
  <2>1. /\ PumpLoops /\ pending' = pending /\ phase' = phase
        /\ Lands(Head(queue).svc, Tail(queue), timers)
    BY <1>6 DEF FromHead
  <2> QED
    BY <1>5, <2>1, MovePlaces
<1>7. CASE PumpSubmits
  <2>1. PICK e : /\ e = [work |-> Head(queue), response |-> 0, http_snapshot |-> FALSE,
                         previous_best_match |-> Unmatched]
                 /\ PumpLoops /\ pending' = With(pending, next_id, e) /\ phase' = phase
                 /\ queue' = Tail(queue) /\ UNCHANGED <<deferred, results, status>>
    BY <1>7 DEF PumpSubmits, Building
  <2>2. e.work.svc = Head(queue).svc /\ next_id \notin DOMAIN pending
    BY <2>1 DEF Shapes
  <2>3. Placed(Tail(queue), pending, deferred, results)
        /\ ~Somewhere(Tail(queue), pending, deferred, results, Head(queue).svc)
    BY <1>5, <2>1
  <2>4. PICK m : m = With(pending, next_id, e)
    OBVIOUS
  <2>5. DistinctOut(m) /\ \A s : Out(m, s) <=> Out(pending, s) \/ s = Head(queue).svc
    BY <2>2, <2>3, <2>4, OutAdded DEF Placed, Somewhere
  <2>6. Placed(Tail(queue), m, deferred, results)
    BY <2>3, <2>5 DEF Placed, Somewhere
  <2>7. \A t \in Services : Somewhere(queue, pending, deferred, results, t) =>
          Somewhere(Tail(queue), m, deferred, results, t)
    BY <1>5, <2>1, <2>5 DEF Somewhere
  <2>8. \A t \in Services : Somewhere(Tail(queue), m, deferred, results, t)
    BY <1>5, <2>1, <2>7 DEF Placement
  <2>9. queue' = Tail(queue) /\ pending' = m /\ deferred' = deferred /\ results' = results
    BY <2>1, <2>4
  <2>10. phase' # "created"
    BY <1>5, <2>1
  <2>11. /\ Placed(queue', pending', deferred', results')
         /\ \A t \in Services : Somewhere(queue', pending', deferred', results', t)
    BY <2>6, <2>8, <2>9
  <2> QED
    BY <2>10, <2>11 DEF Placement, Placed, Somewhere, DistinctQueue, DistinctOut, DistinctOff,
       Queued, Out, Off, Answer
<1>8. ASSUME NEW id, FromOut(id) PROVE Placement'
  <2> DEFINE s == pending[id].work.svc
  <2>1. /\ id \in DOMAIN pending /\ pending' = Without(pending, id) /\ phase = "running"
        /\ phase' = phase /\ Lands(s, queue, RemainingTimers(id))
    BY <1>8 DEF FromOut, Ends, Handled, Dispatching, Idle
  <2>2. s \in Services /\ queue \in Seq(Waiting)
    BY <2>1 DEF Shapes, Attempt, Weighed, AnyWork
  <2>3. Placed(queue, pending, deferred, results)
    BY DEF Placement
  <2>4. PICK m : m = Without(pending, id)
    OBVIOUS
  <2>5. /\ DistinctOut(m) /\ Out(pending, s)
        /\ \A t : Out(m, t) <=> Out(pending, t) /\ t # s
    BY <2>1, <2>3, <2>4, OutRemoved DEF Placed
  <2> HIDE DEF s
  <2>6. Placed(queue, m, deferred, results)
    BY <2>3, <2>5 DEF Placed
  <2>7. ~Somewhere(queue, m, deferred, results, s)
    BY <2>2, <2>3, <2>5 DEF Placed, Somewhere
  <2>8. \A t \in Services : t # s /\ Somewhere(queue, pending, deferred, results, t) =>
          Somewhere(queue, m, deferred, results, t)
    BY <2>5 DEF Somewhere
  <2> QED
    BY <2>1, <2>2, <2>4, <2>6, <2>7, <2>8, MovePlaces
<1>9. ASSUME NEW id, NEW http \in BOOLEAN, NEW match \in Unmatched..Hard, NEW whole,
             DataWaits(id, http, match, whole)
      PROVE  Placement'
  <2>1. /\ id \in DOMAIN pending /\ (pending[id].http_snapshot => http) /\ match \in Matches
        /\ UNCHANGED <<queue, deferred, results, status, phase>>
    BY <1>9, LiveIsOut DEF DataWaits, Matches
  <2>2. PICK n \in Attempt : /\ n = Parsed(pending[id], http, match)
                             /\ n.work.svc = pending[id].work.svc
    BY <2>1, ParsedFacts DEF Shapes
  <2>3. pending' = [pending EXCEPT ![id] = [Parsed(pending[id], http, match) EXCEPT !.response = @ + 1]]
    BY <1>9 DEF DataWaits
  <2>4. PICK e : e = [n EXCEPT !.response = @ + 1]
    OBVIOUS
  <2>5. e.work.svc = pending[id].work.svc
    BY <2>2, <2>4 DEF Attempt
  <2>6. pending' = [pending EXCEPT ![id] = e]
    BY <2>2, <2>3, <2>4
  <2>7. /\ DOMAIN pending' = DOMAIN pending
        /\ \A i \in DOMAIN pending : pending'[i].work.svc = pending[i].work.svc
    BY <2>5, <2>6
  <2>8. \A s : Out(pending', s) <=> Out(pending, s)
    BY <2>7 DEF Out
  <2>9. DistinctOut(pending) => DistinctOut(pending')
    BY <2>7 DEF DistinctOut
  <2>10. Placed(queue, pending', deferred, results)
    BY <2>8, <2>9 DEF Placement, Placed
  <2>11. status = "Ok" /\ phase \notin {"created", "destroyed"} =>
           \A s \in Services : Somewhere(queue, pending', deferred, results, s)
    BY <2>8 DEF Placement, Somewhere
  <2>12. phase' # "created"
    BY <1>9, <2>1 DEF DataWaits, Live, Dispatching, Idle
  <2> QED
    BY <2>1, <2>10, <2>11, <2>12 DEF Placement, Placed, Somewhere, DistinctQueue, DistinctOut,
       DistinctOff, Queued, Out, Off, Answer
<1>10. ASSUME NEW r \in DOMAIN deferred, on_retry_ready(r) PROVE Placement'
  <2>1. /\ queue' = <<deferred[r]>> \o queue /\ deferred' = Without(deferred, r)
        /\ phase = "running" /\ UNCHANGED <<pending, results, status, phase>>
    BY <1>10 DEF on_retry_ready, Handled, Dispatching, Idle
  <2>2. PICK x \in Waiting : x = deferred[r]
    BY DEF Shapes
  <2>3. Placed(queue, pending, deferred, results) /\ queue \in Seq(Waiting) /\ x.svc \in Services
    BY <2>2 DEF Placement, Shapes, Waiting, AnyWork
  <2>4. PICK d : d = Without(deferred, r)
    OBVIOUS
  <2>5. /\ DistinctOff(d) /\ Off(deferred, x.svc)
        /\ \A t : Off(d, t) <=> Off(deferred, t) /\ t # x.svc
    BY <2>2, <2>3, <2>4, OffRemoved DEF Placed
  <2>6. ~Queued(queue, x.svc)
    BY <2>3, <2>5 DEF Placed
  <2>7. PICK q : q = <<x>> \o queue
    OBVIOUS
  <2>8. DistinctQueue(q) /\ \A t : Queued(q, t) <=> Queued(queue, t) \/ t = x.svc
    BY <2>3, <2>6, <2>7, HeadPut DEF Placed
  <2>9. Placed(q, pending, d, results)
    BY <2>3, <2>5, <2>8 DEF Placed
  <2>10. \A t : Somewhere(queue, pending, deferred, results, t) => Somewhere(q, pending, d, results, t)
    BY <2>5, <2>8 DEF Somewhere
  <2>11. status = "Ok" => \A t \in Services : Somewhere(q, pending, d, results, t)
    BY <2>1, <2>10 DEF Placement
  <2>12. queue' = q /\ deferred' = d /\ pending' = pending /\ results' = results
         /\ phase' # "created" /\ status' = status
    BY <2>1, <2>2, <2>4, <2>7
  <2>13. /\ Placed(queue', pending', deferred', results')
         /\ status' = "Ok" => \A t \in Services : Somewhere(queue', pending', deferred', results', t)
    BY <2>9, <2>11, <2>12
  <2> QED
    BY <2>12, <2>13 DEF Placement, Placed, Somewhere, DistinctQueue, DistinctOut, DistinctOff,
       Queued, Out, Off, Answer
<1>11. CASE Destroy
  <2>1. /\ pending' = EmptyMap /\ deferred' = EmptyMap /\ queue' = <<>> /\ phase' = "destroyed"
        /\ results' = results
    BY <1>11 DEF Destroy
  <2>2. DOMAIN pending' = {} /\ DOMAIN deferred' = {} /\ DOMAIN queue' = {}
    BY <2>1, EmptyMapFacts
  <2>3. \A s \in Services : Len(results'[s]) <= 1
    BY <2>1 DEF Placement, Placed
  <2> QED
    BY <2>1, <2>2, <2>3 DEF Placement, Placed, DistinctQueue, DistinctOut, DistinctOff, Queued, Out,
       Off
<1>12. CASE Waits \/ Terminated \/ UNCHANGED vars
  <2>1. UNCHANGED <<queue, pending, deferred, results, status, phase>>
    BY <1>12 DEF Waits, Terminated, vars, schedulerVars
  <2> QED
    BY <1>1, <2>1
<1> QED
  BY <1>2, <1>3, <1>4, <1>6, <1>7, <1>8, <1>9, <1>10, <1>11, <1>12, HeadSteps, OutSteps
     DEF Next, Setup, pump, SocketEvent, Timer

-----------------------------------------------------------------------------
(* The course of the stage.                                                *)

LEMMA MapFacts ==
  ASSUME NEW f, NEW x, NEW v
  PROVE  /\ IsMap(With(f, x, v)) /\ IsMap(Without(f, x)) /\ IsMap(EmptyMap)
         /\ IsMap(f) => IsMap([f EXCEPT ![x] = v])
<1>1. PICK w : w = With(f, x, v)
  OBVIOUS
<1>2. IsMap(w)
  BY <1>1 DEF IsMap, With
<1>3. PICK o : o = Without(f, x)
  OBVIOUS
<1>4. IsMap(o)
  BY <1>3 DEF IsMap, Without
<1>5. IsMap(EmptyMap)
  BY EmptyMapFacts DEF IsMap
<1>6. IsMap(f) => IsMap([f EXCEPT ![x] = v])
  BY DEF IsMap
<1> QED
  BY <1>1, <1>2, <1>3, <1>4, <1>5, <1>6

LEMMA NextMaps == Shapes /\ Tables /\ Maps /\ [Next]_vars => Maps'
<1> SUFFICES ASSUME Shapes, Tables, Maps, [Next]_vars PROVE Maps'
  OBVIOUS
<1>1. IsMap(pending) /\ IsMap(deferred)
  BY DEF Maps
<1>2. ASSUME NEW m, NEW d, pending' = m, deferred' = d, IsMap(m), IsMap(d) PROVE Maps'
  BY <1>2 DEF Maps, IsMap
<1>3. ASSUME NEW s, NEW q, NEW T, Lands(s, q, T) PROVE \E d : deferred' = d /\ IsMap(d)
  <2>1. \/ deferred' = deferred \/ \E x : deferred' = With(deferred, next_retry, x)
    BY <1>3 DEF Lands
  <2> QED
    BY <1>1, <2>1, MapFacts
<1>4. ASSUME UNCHANGED <<pending, deferred>> PROVE Maps'
  BY <1>1, <1>2, <1>4
<1>5. CASE Setup \/ PumpReturns \/ Run \/ RunReturns \/ Waits \/ Terminated \/ UNCHANGED vars
  <2>1. UNCHANGED <<pending, deferred>>
    BY <1>5 DEF Setup, submit, SubmitInvalid, PumpReturns, Run, RunReturns, Waits, Terminated, vars,
       schedulerVars
  <2> QED
    BY <1>4, <2>1
<1>6. CASE FromHead
  <2>1. pending' = pending /\ \E d : deferred' = d /\ IsMap(d)
    BY <1>3, <1>6 DEF FromHead
  <2> QED
    BY <1>1, <1>2, <2>1
<1>7. CASE PumpSubmits
  <2>1. deferred' = deferred /\ \E e : pending' = With(pending, next_id, e)
    BY <1>7 DEF PumpSubmits
  <2> QED
    BY <1>1, <1>2, <2>1, MapFacts
<1>8. ASSUME NEW id, FromOut(id) PROVE Maps'
  <2>1. pending' = Without(pending, id) /\ \E d : deferred' = d /\ IsMap(d)
    BY <1>3, <1>8 DEF FromOut, Ends
  <2> QED
    BY <1>2, <2>1, MapFacts
<1>9. ASSUME NEW id, NEW http, NEW match, NEW whole, DataWaits(id, http, match, whole)
      PROVE  Maps'
  <2>1. deferred' = deferred /\ \E e : pending' = [pending EXCEPT ![id] = e]
    BY <1>9 DEF DataWaits
  <2> QED
    BY <1>1, <1>2, <2>1, MapFacts
<1>10. ASSUME NEW r, on_retry_ready(r) PROVE Maps'
  <2>1. pending' = pending /\ deferred' = Without(deferred, r)
    BY <1>10 DEF on_retry_ready
  <2> QED
    BY <1>1, <1>2, <2>1, MapFacts
<1>11. CASE Destroy
  <2>1. pending' = EmptyMap /\ deferred' = EmptyMap
    BY <1>11 DEF Destroy
  <2> QED
    BY <1>2, <2>1, MapFacts
<1> QED
  BY <1>5, <1>6, <1>7, <1>8, <1>9, <1>10, <1>11, HeadSteps, OutSteps DEF Next, pump, SocketEvent, Timer

LEMMA CompleteIdles == complete => Idles
BY EmptyMapFacts DEF complete, Idles

LEMMA NextCourse == ServiceInv /\ [Next]_vars => Course'
<1> SUFFICES ASSUME Shapes, Phases, Tables, Course, Maps, [Next]_vars PROVE Course'
  BY DEF ServiceInv
<1>1. ASSUME UNCHANGED <<phase, stopped, queue, pending, deferred, pumping, status>>
      PROVE  Course'
  BY <1>1 DEF Course, Idles
<1>2. CASE Setup
  <2>1. \/ phase' = "refused" /\ status' # "Ok"
        \/ phase' = "submitting" /\ pumping' = "submit"
    BY <1>2 DEF Setup, submit, SubmitInvalid
  <2> QED
    BY <2>1 DEF Course
<1>3. CASE PumpReturns
  <2>1. /\ pumping # "no" /\ ~PumpLoops /\ pumping' = "no"
        /\ phase' \in {"refused", "submitted", phase}
        /\ pumping = "handler" => phase' = phase
        /\ pumping # "handler" => phase' \in {"refused", "submitted"}
        /\ stopped' = (stopped \/ stop_if_idle)
        /\ UNCHANGED <<queue, pending, deferred, status>>
    BY <1>3 DEF PumpReturns, schedulerVars
  <2>2. phase' \in {"refused", "submitted", "running"} /\ (phase' = "running" => phase = "running")
    BY <2>1 DEF Phases
  <2>5. phase' = "refused" => status' # "Ok"
    BY <1>3 DEF PumpReturns, schedulerVars, Phases
  <2>3. ASSUME status = "Ok", queue # <<>>, DOMAIN pending = {} PROVE FALSE
    <3>1. Cardinality(DOMAIN pending) = 0
      BY <2>3, FS_EmptySet
    <3>2. limit \in Nat \ {0}
      BY DEF Phases
    <3>3. Cardinality(DOMAIN pending) < limit
      BY <3>1, <3>2
    <3> QED
      BY <2>1, <2>3, <3>3 DEF PumpLoops
  <2>4. ASSUME phase' = "running", stopped' PROVE Idles
    <3>1. CASE stopped
      BY <2>2, <2>4, <3>1 DEF Course
    <3>2. CASE complete
      BY <3>2, CompleteIdles
    <3> QED
      BY <2>1, <2>4, <3>1, <3>2 DEF stop_if_idle
  <2> QED
    BY <2>1, <2>2, <2>3, <2>4, <2>5 DEF Course, Idles
<1>4. ASSUME PumpLoops
      PROVE  /\ phase \in {"submitting", "running"} /\ pumping # "no"
             /\ phase = "running" => ~stopped
  <2>1. queue # <<>> /\ pumping # "no"
    BY <1>4 DEF PumpLoops
  <2>2. phase \in {"submitting", "running"}
    BY <2>1 DEF Phases
  <2> QED
    BY <2>1, <2>2 DEF Course, Idles
<1>5. CASE FromHead \/ PumpSubmits
  <2>1. PumpLoops /\ UNCHANGED <<phase, stopped, pumping>>
    BY <1>5 DEF FromHead, PumpSubmits, Building
  <2>2. /\ phase' \in {"submitting", "running"} /\ pumping' # "no"
        /\ phase' = "running" => ~stopped'
    BY <1>4, <2>1
  <2> QED
    BY <2>2 DEF Course
<1>6. CASE Run
  <2>1. /\ phase = "submitted" /\ phase' = "running" /\ ~stopped'
        /\ UNCHANGED <<queue, pending, deferred, pumping, status>>
    BY <1>6 DEF Run, schedulerVars
  <2> QED
    BY <2>1 DEF Course
<1>7. CASE RunReturns
  <2>1. /\ phase = "running" /\ pumping = "no" /\ (stopped \/ timers = {}) /\ phase' = "returned"
        /\ UNCHANGED <<queue, pending, deferred, status>>
    BY <1>7 DEF RunReturns, Idle, Quiet, schedulerVars
  <2>2. ASSUME status = "Ok" PROVE Idles
    <3>1. CASE stopped
      BY <2>1, <3>1 DEF Course
    <3>2. CASE timers = {}
      <4>1. DOMAIN pending = {} /\ DOMAIN deferred = {}
        BY <3>2 DEF Tables, TimersOf
      <4>2. queue = <<>>
        BY <2>1, <2>2, <4>1 DEF Course
      <4> QED
        BY <4>1, <4>2 DEF Idles
    <3> QED
      BY <2>1, <3>1, <3>2
  <2> QED
    BY <2>1, <2>2 DEF Course, Idles
<1>8. ASSUME Dispatching, UNCHANGED <<phase, stopped>>, pumping' = "handler" PROVE Course'
  <2>1. phase' = "running" /\ ~stopped' /\ pumping' # "no"
    BY <1>8 DEF Dispatching, Idle
  <2> QED
    BY <2>1 DEF Course
<1>9. ASSUME NEW id, FromOut(id) PROVE Course'
  BY <1>8, <1>9 DEF FromOut, Handled
<1>10. ASSUME NEW id, NEW http, NEW match, NEW whole, DataWaits(id, http, match, whole)
       PROVE  Course'
  <2>1. /\ phase = "running" /\ ~stopped /\ DOMAIN pending' = DOMAIN pending
        /\ UNCHANGED <<phase, stopped, queue, pumping, status, deferred>>
    BY <1>10 DEF DataWaits, Live, Dispatching, Idle
  <2> QED
    BY <2>1 DEF Course
<1>11. ASSUME NEW r, on_retry_ready(r) PROVE Course'
  BY <1>8, <1>11 DEF on_retry_ready, Handled
<1>12. CASE Destroy
  <2>1. phase' = "destroyed" /\ pending' = EmptyMap /\ deferred' = EmptyMap
    BY <1>12 DEF Destroy
  <2>2. DOMAIN pending' = {} /\ DOMAIN deferred' = {}
    BY <2>1, EmptyMapFacts
  <2> QED
    BY <2>1, <2>2 DEF Course
<1>13. CASE Waits \/ Terminated \/ UNCHANGED vars
  <2>1. UNCHANGED <<phase, stopped, queue, pending, deferred, pumping, status>>
    BY <1>13 DEF Waits, Terminated, vars, schedulerVars
  <2> QED
    BY <1>1, <2>1
<1> QED
  BY <1>2, <1>3, <1>5, <1>6, <1>7, <1>9, <1>10, <1>11, <1>12, <1>13, HeadSteps, OutSteps
     DEF Next, pump, SocketEvent, Timer

-----------------------------------------------------------------------------
(* The theorems.                                                           *)

LEMMA InitInv == Init => ServiceInv
<1> SUFFICES ASSUME Init PROVE ServiceInv
  OBVIOUS
<1>1. /\ queue = <<>> /\ DOMAIN queue = {} /\ DOMAIN pending = {} /\ DOMAIN deferred = {}
      /\ pending = EmptyMap /\ deferred = EmptyMap
  BY EmptyMapFacts DEF Init
<1>2. <<>> \in Seq(Waiting) /\ <<>> \in Seq(Result) /\ Len(<<>>) = 0
  OBVIOUS
<1>3. Shapes
  BY <1>1, <1>2 DEF Init, Shapes
<1>4. Phases
  BY ServiceAssumption DEF Init, Phases
<1>5. Tables
  <2>1. timers = {} /\ routes = {} /\ datagrams = {} /\ DOMAIN connections = {} /\ limit \in Nat
    BY ServiceAssumption, EmptyMapFacts DEF Init
  <2>2. Cardinality({}) = 0
    BY FS_EmptySet
  <2>3. TimersOf(pending, deferred) = {}
    BY <1>1 DEF TimersOf
  <2> QED
    BY <1>1, <2>1, <2>2, <2>3 DEF Tables
<1>6. Placement
  <2>1. \A s \in Services : results[s] = <<>>
    BY DEF Init
  <2> QED
    BY <1>1, <1>2, <2>1 DEF Init, Placement, Placed, DistinctQueue, DistinctOut, DistinctOff, Queued,
       Out, Off
<1>7. Course
  BY DEF Init, Course
<1>8. Maps
  BY <1>1, MapFacts DEF Maps
<1> QED
  BY <1>3, <1>4, <1>5, <1>6, <1>7, <1>8 DEF ServiceInv

LEMMA ServiceInvariant == Spec => []ServiceInv
<1>1. ServiceInv /\ [Next]_vars => ServiceInv'
  BY NextShapes, NextPhases, NextTables, NextPlacement, NextCourse, NextMaps DEF ServiceInv
<1> QED
  BY InitInv, <1>1, PTL DEF Spec

(***************************************************************************)
(* The sets whose sizes Places() adds up.                                  *)
(***************************************************************************)
LEMMA PlacedOnce ==
  ASSUME ServiceInv, NEW s \in Services
  PROVE  /\ Places(s) <= 1
         /\ Somewhere(queue, pending, deferred, results, s) => Places(s) = 1
<1> DEFINE Q == {i \in DOMAIN queue : queue[i].svc = s}
           P == {id \in DOMAIN pending : pending[id].work.svc = s}
           D == {r \in DOMAIN deferred : deferred[r].svc = s}
           n == Len(results[s])
<1>1. Placed(queue, pending, deferred, results) /\ results \in [Services -> Seq(Result)]
  BY DEF ServiceInv, Placement, Shapes
<1>2. /\ \A i, j \in Q : i = j
      /\ \A i, j \in P : i = j
      /\ \A i, j \in D : i = j
  BY <1>1 DEF Placed, DistinctQueue, DistinctOut, DistinctOff
<1>3. n \in {0, 1} /\ (Answer(results, s) <=> n = 1)
  <2>1. results[s] \in Seq(Result) /\ n <= 1
    BY <1>1 DEF Placed
  <2>2. n \in Nat /\ (results[s] = <<>> <=> n = 0)
    BY <2>1, EmptySeq
  <2> HIDE DEF n
  <2>3. n \in {0, 1}
    BY <2>1, <2>2
  <2>4. n = 0 \/ n = 1
    BY <2>3
  <2>5. Answer(results, s) <=> n # 0
    BY <2>2 DEF Answer
  <2> QED
    BY <2>3, <2>4, <2>5
<1>4. /\ Queued(queue, s) <=> Q # {}
      /\ Out(pending, s) <=> P # {}
      /\ Off(deferred, s) <=> D # {}
  BY DEF Queued, Out, Off
<1>5. Places(s) = Cardinality(Q) + Cardinality(P) + Cardinality(D) + n
  BY DEF Places
<1> HIDE DEF Q, P, D, n
<1>6. /\ Q # {} => P = {} /\ D = {} /\ n = 0
      /\ P # {} => D = {} /\ n = 0
      /\ D # {} => n = 0
  BY <1>1, <1>3, <1>4 DEF Placed
<1>7. ASSUME NEW S, \A i, j \in S : i = j
      PROVE  Cardinality(S) = IF S = {} THEN 0 ELSE 1
  <2>1. CASE S = {}
    BY <2>1, FS_EmptySet
  <2>2. CASE S # {}
    <3>1. PICK x : x \in S
      BY <2>2
    <3>2. S = {x}
      BY <1>7, <3>1
    <3> QED
      BY <2>2, <3>2, FS_Singleton
  <2> QED
    BY <2>1, <2>2
<1>8. /\ Cardinality(Q) = IF Q = {} THEN 0 ELSE 1
      /\ Cardinality(P) = IF P = {} THEN 0 ELSE 1
      /\ Cardinality(D) = IF D = {} THEN 0 ELSE 1
  BY <1>2, <1>7
<1>9. Somewhere(queue, pending, deferred, results, s) => Q # {} \/ P # {} \/ D # {} \/ n = 1
  BY <1>3, <1>4 DEF Somewhere
<1> QED
  BY <1>3, <1>5, <1>6, <1>8, <1>9

(***************************************************************************)
(* Through every retry, next probe, callback inside submit() and expiry an *)
(* open port is in one of ServiceScheduler's places at most, and in one    *)
(* while nothing failed; when run() returns Ok every port has its answer;  *)
(* between handlers timers, routes and open sockets are those of the       *)
(* probes that are out; there are never more than max_outstanding; and a   *)
(* stage that is gone leaves no timer.                                     *)
(***************************************************************************)
THEOREM ServiceWorkAccounted == Spec => []WorkAccounted
<1>1. ASSUME ServiceInv PROVE WorkAccounted
  <2>1. Shapes /\ Phases /\ Tables /\ Placement /\ Course /\ Maps
    BY <1>1 DEF ServiceInv
  <2>2. \A s \in Services : Places(s) <= 1
    BY <1>1, PlacedOnce
  <2>3. status = "Ok" /\ phase \notin {"created", "destroyed"} => \A s \in Services : Places(s) = 1
    BY <1>1, <2>1, PlacedOnce DEF Placement
  <2>4. phase = "returned" /\ status = "Ok" => complete
    BY <2>1, EmptyMapFacts DEF Course, Idles, Maps, IsMap, complete
  <2>5. ASSUME pumping = "no"
        PROVE  /\ timers = {<<"probe", id>> : id \in DOMAIN pending} \cup
                           {<<"retry", r>> : r \in DOMAIN deferred}
               /\ routes = DOMAIN pending
               /\ OpenConnections \cup datagrams \subseteq DOMAIN pending
               /\ \A id \in DOMAIN connections : ~connections[id].callback_in_progress
    BY <2>1, <2>5 DEF Tables, TimersOf, OpenConnections
  <2>6. Cardinality(DOMAIN pending) <= limit
    BY <2>1 DEF Tables
  <2>7. phase = "destroyed" => timers = {}
    BY <2>1 DEF Course, Tables, TimersOf
  <2> QED
    BY <2>2, <2>3, <2>4, <2>5, <2>6, <2>7 DEF WorkAccounted
<1> QED
  BY <1>1, ServiceInvariant, PTL

(***************************************************************************)
(* A service is "Detected" only with the best match of all that the port   *)
(* sent and did not withdraw, and "Unknown" or "Timeout" only if none of   *)
(* it could be published: for every order of chunks, parses and attempts.  *)
(***************************************************************************)
THEOREM ServiceEvidenceDecides == Spec => []EvidenceDecides
<1>1. ASSUME Shapes PROVE EvidenceDecides
  <2>1. \A s \in Services : \A i \in DOMAIN results[s] : results[s][i] \in Result
    BY <1>1 DEF Shapes
  <2> QED
    BY <2>1 DEF EvidenceDecides, Result, Sound
<1> QED
  BY <1>1, ServiceInvariant, PTL DEF ServiceInv
-----------------------------------------------------------------------------
(* The refinement.                                                         *)

(***************************************************************************)
(* What a step may do to the results: nothing, the first result of a port, *)
(* or those of the ports that no probe fits.                               *)
(***************************************************************************)
Decides ==
  \E s \in Services : /\ results[s] = <<>> /\ results'[s] # <<>>
                      /\ results'[s][1].state \in ServiceState
                      /\ \A o \in Services \ {s} : results'[o] = results[o]

Bypasses ==
  \A s \in Services : /\ results[s] = <<>>
                      /\ results'[s] = <<>> \/ (results'[s] # <<>> /\ results'[s][1].state = "Unknown")

LEMMA FirstResult ==
  ASSUME results \in [Services -> Seq(Result)], NEW s \in Services, results[s] = <<>>,
         NEW r \in Result, results' = [results EXCEPT ![s] = Append(@, r)]
  PROVE  Decides
<1>1. results' = [results EXCEPT ![s] = Append(<<>>, r)]
  OBVIOUS
<1>2. Append(<<>>, r) # <<>> /\ Append(<<>>, r)[1] = r /\ r.state \in ServiceState
  BY DEF Result
<1>3. results'[s] = Append(<<>>, r) /\ \A o \in Services \ {s} : results'[o] = results[o]
  BY <1>1
<1> QED
  BY <1>2, <1>3 DEF Decides

(***************************************************************************)
(* An attempt that ends gives its port the first result, or none.          *)
(***************************************************************************)
LEMMA LandsResults ==
  ASSUME ServiceInv, NEW s \in Services, NEW q, NEW T, Lands(s, q, T),
         Queued(queue, s) \/ Out(pending, s)
  PROVE  UNCHANGED results \/ Decides
<1>1. results \in [Services -> Seq(Result)] /\ results[s] = <<>>
  BY DEF ServiceInv, Shapes, Placement, Placed, Answer
<1> QED
  BY <1>1, FirstResult DEF Lands

LEMMA NextResults ==
  ASSUME ServiceInv, [Next]_vars
  PROVE  UNCHANGED results \/ Decides \/ (Bypasses /\ phase' = "submitting")
<1>1. CASE submit
  <2> DEFINE e == [state |-> "Unknown", match |-> Unmatched, heard |-> Unmatched]
  <2>1. /\ \A s \in Services : results[s] = <<>>
        /\ results' = [s \in Services |-> IF Probes[s] = 0 THEN <<e>> ELSE <<>>]
        /\ phase' = "submitting"
    BY <1>1 DEF submit, ServiceInv, Placement
  <2>2. e.state = "Unknown"
    OBVIOUS
  <2> HIDE DEF e
  <2>3. <<e>> # <<>> /\ <<e>>[1] = e
    OBVIOUS
  <2> QED
    BY <2>1, <2>2, <2>3 DEF Bypasses
<1>2. ASSUME NEW s \in Services, SubmitInvalid(s) PROVE Decides
  <2>1. /\ NewWork(s) \in Weighed /\ NewWork(s).svc = s
        /\ Founded(NewWork(s), "InvalidTarget", Unmatched)
    BY NewWorkWaits, WaitingWeighed, HardPublishable DEF Founded, ServiceState
  <2>2. \E r \in Result : results' = [results EXCEPT ![s] = Append(@, r)]
    BY <1>2, <2>1, ResultSound DEF SubmitInvalid
  <2>3. results \in [Services -> Seq(Result)] /\ results[s] = <<>>
    BY <1>2 DEF SubmitInvalid, ServiceInv, Shapes, Placement
  <2> QED
    BY <2>2, <2>3, FirstResult
<1>3. CASE FromHead
  <2>1. queue \in Seq(Waiting) /\ queue # <<>>
    BY <1>3 DEF FromHead, PumpLoops, ServiceInv, Shapes
  <2>2. Head(queue) \in Waiting /\ 1 \in DOMAIN queue /\ queue[1] = Head(queue)
    BY <2>1, TailFacts
  <2>3. Head(queue).svc \in Services /\ Queued(queue, Head(queue).svc)
    BY <2>2 DEF Waiting, AnyWork, Queued
  <2> QED
    BY <1>3, <2>3, LandsResults DEF FromHead
<1>4. ASSUME NEW id, FromOut(id) PROVE UNCHANGED results \/ Decides
  <2>1. id \in DOMAIN pending /\ pending[id] \in Attempt
    BY <1>4 DEF FromOut, ServiceInv, Shapes
  <2>2. pending[id].work.svc \in Services /\ Out(pending, pending[id].work.svc)
    BY <2>1 DEF Attempt, Weighed, AnyWork, Out
  <2> QED
    BY <1>4, <2>2, LandsResults DEF FromOut
<1>5. CASE PumpReturns \/ PumpSubmits \/ Run \/ RunReturns \/ Destroy
  BY <1>5 DEF PumpReturns, PumpSubmits, Run, RunReturns, Destroy, schedulerVars
<1>6. ASSUME NEW id, NEW http, NEW match, NEW whole, DataWaits(id, http, match, whole)
      PROVE  UNCHANGED results
  BY <1>6 DEF DataWaits
<1>7. ASSUME NEW r, on_retry_ready(r) PROVE UNCHANGED results
  BY <1>7 DEF on_retry_ready
<1>8. CASE Waits \/ Terminated \/ UNCHANGED vars
  BY <1>8 DEF Waits, Terminated, vars, schedulerVars
<1> QED
  BY <1>1, <1>2, <1>3, <1>4, <1>5, <1>6, <1>7, <1>8, HeadSteps, OutSteps
     DEF ServiceInv, Next, Setup, pump, SocketEvent, Timer

(***************************************************************************)
(* What the stage can see of a step: the detection is alive before and     *)
(* after, or it ends, or nothing changes any more.                         *)
(***************************************************************************)
Alive == phase \notin {"returned", "destroyed"}

Finishes == /\ Alive /\ ~Alive' /\ UNCHANGED <<results, status>>
            /\ phase' = "destroyed" => status # "Ok"

Over == ~Alive /\ ~Alive' /\ UNCHANGED <<results, status>>

LEMMA NextStages ==
  ASSUME ServiceInv, [Next]_vars
  PROVE  (Alive /\ Alive') \/ Finishes \/ Over
<1>1. CASE Setup
  BY <1>1 DEF Setup, submit, SubmitInvalid, Alive
<1>2. CASE PumpReturns
  <2>1. phase \in {"submitting", "running"} /\ phase' \in {phase, "submitted", "refused"}
    BY <1>2 DEF PumpReturns, ServiceInv, Phases
  <2> QED
    BY <2>1 DEF Alive
<1>3. CASE FromHead \/ PumpSubmits
  <2>1. phase \in {"submitting", "running"} /\ phase' = phase
    BY <1>3 DEF FromHead, PumpSubmits, Building, PumpLoops, ServiceInv, Phases
  <2> QED
    BY <2>1 DEF Alive
<1>4. CASE Run
  BY <1>4 DEF Run, Alive
<1>5. CASE RunReturns
  BY <1>5 DEF RunReturns, Idle, schedulerVars, Alive, Finishes
<1>6. ASSUME NEW id, FromOut(id) PROVE Alive /\ Alive'
  BY <1>6 DEF FromOut, Dispatching, Idle, Handled, Alive
<1>7. ASSUME NEW id, NEW http, NEW match, NEW whole, DataWaits(id, http, match, whole)
      PROVE  Alive /\ Alive'
  BY <1>7 DEF DataWaits, Live, Dispatching, Idle, Alive
<1>8. ASSUME NEW r, on_retry_ready(r) PROVE Alive /\ Alive'
  BY <1>8 DEF on_retry_ready, Dispatching, Idle, Handled, Alive
<1>9. CASE Destroy
  BY <1>9 DEF Destroy, ServiceInv, Course, Alive, Finishes, Over
<1>10. CASE Waits \/ Terminated \/ UNCHANGED vars
  BY <1>10 DEF Waits, Terminated, vars, schedulerVars, Alive, Over
<1> QED
  BY <1>1, <1>2, <1>3, <1>4, <1>5, <1>6, <1>7, <1>8, <1>9, <1>10, HeadSteps, OutSteps
     DEF ServiceInv, Next, pump, SocketEvent, Timer

(***************************************************************************)
(* A run that returned Ok has answered every port.                         *)
(***************************************************************************)
Whole == phase = "returned" /\ status = "Ok" => \A s \in Services : VerdictOf(s) # NoVerdict

LEMMA OkIsWhole == ServiceInv => Whole
<1> SUFFICES ASSUME ServiceInv, phase = "returned", status = "Ok", NEW s \in Services
             PROVE  VerdictOf(s) # NoVerdict
  BY DEF Whole
<1>1. Idles /\ Somewhere(queue, pending, deferred, results, s)
  BY DEF ServiceInv, Course, Placement
<1>2. results[s] # <<>> /\ results[s] \in Seq(Result)
  BY <1>1 DEF Idles, Somewhere, Queued, Out, Off, Answer, ServiceInv, Shapes
<1>3. Len(results[s]) \in Nat \ {0}
  BY <1>2, EmptySeq
<1>4. results[s][1] \in Result
  BY <1>2, <1>3
<1> QED
  BY <1>2, <1>4 DEF VerdictOf, Result, ServiceState, NoVerdict

(***************************************************************************)
(* The verdict the stage sees, as a function of the ports.                 *)
(***************************************************************************)
VerdictMap == [s \in Services |-> VerdictOf(s)]

(***************************************************************************)
(* A step while the detection is alive is a verdict, those of the ports    *)
(* without probes, or nothing to the stage.                                *)
(***************************************************************************)
LEMMA AliveStep ==
  ASSUME Alive, Alive', UNCHANGED results \/ Decides \/ Bypasses
  PROVE  [Contract!Next]_(Contract!vars)
<1>1. Outcome = "none" /\ Outcome' = "none"
  BY DEF Alive, Outcome
<1>2. CASE UNCHANGED results
  <2>1. VerdictMap' = VerdictMap
    BY <1>2 DEF VerdictMap, VerdictOf
  <2> QED
    BY <1>1, <2>1 DEF Contract!vars, VerdictMap
<1>3. CASE Decides
  <2>1. PICK s \in Services : /\ results[s] = <<>> /\ results'[s] # <<>>
                              /\ results'[s][1].state \in ServiceState
                              /\ \A o \in Services \ {s} : results'[o] = results[o]
    BY <1>3 DEF Decides
  <2> DEFINE v == results'[s][1].state
  <2>2. VerdictMap[s] = NoVerdict
    BY <2>1 DEF VerdictMap, VerdictOf
  <2>3. VerdictMap' = [VerdictMap EXCEPT ![s] = v]
    BY <2>1 DEF VerdictMap, VerdictOf
  <2>4. v \in ServiceState
    BY <2>1
  <2> HIDE DEF v
  <2>5. Contract!Decide(s, v)
    BY <1>1, <2>2, <2>3 DEF Contract!Decide, VerdictMap
  <2> QED
    BY <2>4, <2>5 DEF Contract!Next
<1>4. CASE Bypasses
  <2>1. \A s \in Services : VerdictMap[s] = NoVerdict
    BY <1>4 DEF Bypasses, VerdictMap, VerdictOf
  <2>2. VerdictMap' \in [Services -> {NoVerdict, "Unknown"}]
    BY <1>4 DEF Bypasses, VerdictMap, VerdictOf
  <2>3. Contract!TurnDown("Unknown")
    BY <1>1, <2>1, <2>2 DEF Contract!TurnDown, VerdictMap
  <2>4. "Unknown" \in ServiceState
    BY DEF ServiceState
  <2> QED
    BY <2>3, <2>4 DEF Contract!Next
<1> QED
  BY <1>2, <1>3, <1>4

LEMMA EndStep ==
  ASSUME Whole', Finishes
  PROVE  Contract!Next
<1>1. Outcome = "none" /\ VerdictMap' = VerdictMap
  BY DEF Finishes, Alive, Outcome, VerdictMap, VerdictOf
<1>2. CASE status = "Ok"
  <2>1. phase' = "returned" /\ status' = "Ok" /\ Outcome' = "complete"
    BY <1>2 DEF Finishes, Alive, Outcome
  <2>2. \A s \in Services : VerdictMap[s] # NoVerdict
    BY <1>1, <2>1 DEF Whole, VerdictMap
  <2>3. Contract!Complete
    BY <1>1, <2>1, <2>2 DEF Contract!Complete, VerdictMap
  <2> QED
    BY <2>3 DEF Contract!Next
<1>3. CASE status # "Ok"
  <2>1. Outcome' = "failed"
    BY <1>3 DEF Finishes, Alive, Outcome
  <2>2. Contract!Fail
    BY <1>1, <2>1 DEF Contract!Fail, VerdictMap
  <2> QED
    BY <2>2 DEF Contract!Next
<1> QED
  BY <1>2, <1>3

LEMMA OverStep ==
  ASSUME Over
  PROVE  UNCHANGED Contract!vars
<1>1. Outcome' = Outcome /\ VerdictMap' = VerdictMap
  BY DEF Over, Alive, Outcome, VerdictMap, VerdictOf
<1> QED
  BY <1>1 DEF Contract!vars, VerdictMap

(***************************************************************************)
(* Service detection implements the contract of a scan of ports: verdicts  *)
(* are final, come one by one (or together, for the ports no probe fits),  *)
(* stop with the end of run(), and a detection that ends with Ok has one   *)
(* for every port, whatever callbacks, chunks, retries and failures do.    *)
(***************************************************************************)
THEOREM ServiceContractKept == Spec => KeepsContract
<1>1. Init => Contract!Init
  <2>1. ASSUME Init PROVE VerdictMap = [s \in Services |-> NoVerdict] /\ Outcome = "none"
    BY <2>1 DEF Init, VerdictMap, VerdictOf, Outcome
  <2> QED
    BY <2>1 DEF Contract!Init, VerdictMap
<1>2. ServiceInv /\ Whole' /\ [Next]_vars => [Contract!Next]_(Contract!vars)
  BY NextResults, NextStages, AliveStep, EndStep, OverStep
<1> QED
  BY <1>1, <1>2, OkIsWhole, ServiceInvariant, PTL DEF Spec, KeepsContract, Contract!Spec

=============================================================================
