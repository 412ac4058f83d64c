---------------------- MODULE DiscoverySchedulerProofs ----------------------
(***************************************************************************)
(* Invariance proofs for DiscoveryScheduler, for every target, every list  *)
(* of probes, every limit and every failure of the transport, the timers   *)
(* and the reactor.                                                        *)
(***************************************************************************)
EXTENDS DiscoveryScheduler, FiniteSetTheorems, SequenceTheorems, WellFoundedInduction, TLAPS

-----------------------------------------------------------------------------
(* The invariants.                                                         *)

(***************************************************************************)
(* Where run() and pump() are.  The reactor is stopped only when nothing   *)
(* is left, and what is complete stays so: packets that come later find no *)
(* probe.                                                                  *)
(***************************************************************************)
CourseInv ==
  /\ phase \in {"submitting", "submitted", "refused", "running", "returned", "destroyed"}
  /\ pumping \in {"no", "submit", "handler"}
  /\ pumping = "submit" => phase = "submitting"
  /\ pumping = "handler" => phase = "running" /\ ~stopped
  /\ phase = "running" /\ stopped => complete
  /\ phase = "returned" /\ run_status = "Ok" => complete
  /\ phase # "submitting" => unsubmitted = <<>>
  /\ phase \in {"submitted", "running", "returned"} => first_error = "Ok"

(***************************************************************************)
(* What the transport was given: every pending probe, under its id.        *)
(***************************************************************************)
SentInv ==
  /\ next_probe_id \in Nat \ {0}
  /\ sent \in [DOMAIN sent -> Work] /\ DOMAIN sent \subseteq 1..(next_probe_id - 1)
  /\ DOMAIN pending \subseteq DOMAIN sent
  /\ pending \in [DOMAIN pending -> Work]
  /\ \A id \in DOMAIN pending : pending[id] = sent[id]
  /\ wire \subseteq DOMAIN sent /\ neighbor_timers \subseteq DOMAIN sent
  /\ answered \subseteq DOMAIN sent

(***************************************************************************)
(* Deadlines belong to pending probes, the other timers to solicitations.  *)
(***************************************************************************)
TimersInv ==
  /\ {Expire(id) : id \in DOMAIN pending} \subseteq timers
  /\ timers \subseteq {Expire(id) : id \in DOMAIN pending}
                        \cup {NeighborExpire(id) : id \in neighbor_timers}

(***************************************************************************)
(* Queue and pending probes together fit.                                  *)
(***************************************************************************)
RoomInv ==
  /\ work_queue \in Seq(Work)
  /\ Cardinality(DOMAIN pending) + Len(work_queue) <= MaxOutstanding
  /\ pumping = "no" => work_queue = <<>>

CacheInv ==
  /\ DOMAIN neighbor_cache \subseteq Neighbours
  /\ neighbor_cache \in [DOMAIN neighbor_cache -> [fresh : BOOLEAN, rank : Nat]]
  /\ Cardinality(DOMAIN neighbor_cache) <= CacheLimit
  /\ \A id \in neighbor_timers : sent[id].host \in Neighbours

Waiting(w) == \E i \in DOMAIN work_queue : work_queue[i] = w
Flying(w) == \E id \in DOMAIN pending : pending[id] = w
Unreached(h) == \E i \in DOMAIN unsubmitted : unsubmitted[i] = h
Verdict(w) == results[w.host][w.type]

(***************************************************************************)
(* A probe is in one place only: its host not reached by submit(), queued, *)
(* out, or judged; and it is somewhere unless submit() failed.             *)
(***************************************************************************)
PlaceInv ==
  /\ unsubmitted \in Seq(Hosts)
  /\ results \in [Hosts -> [ProbeTypes -> Seq(HostState)]]
  /\ \A i, j \in DOMAIN unsubmitted : unsubmitted[i] = unsubmitted[j] => i = j
  /\ \A i, j \in DOMAIN work_queue : work_queue[i] = work_queue[j] => i = j
  /\ \A a, b \in DOMAIN pending : pending[a] = pending[b] => a = b
  /\ \A w \in Work : ~(Waiting(w) /\ Flying(w))
  /\ \A w \in Work : Unreached(w.host) => Verdict(w) = <<>> /\ ~Waiting(w) /\ ~Flying(w)
  /\ \A w \in Work : Waiting(w) \/ Flying(w) => Verdict(w) = <<>>
  /\ first_error = "Ok" /\ phase # "destroyed" =>
       \A w \in Work : Unreached(w.host) \/ Waiting(w) \/ Flying(w) \/ Verdict(w) # <<>>

(***************************************************************************)
(* One verdict at most, and "Up" exactly on an answer in time.             *)
(***************************************************************************)
VerdictInv ==
  \A w \in Work :
    /\ Verdict(w) = <<>> \/ \E st \in HostState : Verdict(w) = <<st>>
    /\ Verdict(w) = <<"Up">> <=> \E id \in answered : sent[id] = w

StatusInv ==
  /\ first_error \in {"Ok", "InvalidArgument", "IoError"} /\ run_status \in {"Ok", "IoError"}
  /\ stopped \in BOOLEAN

DiscoveryInv ==
  /\ CourseInv /\ SentInv /\ TimersInv /\ RoomInv /\ CacheInv /\ PlaceInv /\ VerdictInv
  /\ StatusInv

-----------------------------------------------------------------------------
(* Sequences, maps and finite sets.                                        *)

(***************************************************************************)
(* Taking the head off a queue.                                            *)
(***************************************************************************)
LEMMA TailFacts ==
  ASSUME NEW S, NEW q \in Seq(S), q # <<>>
  PROVE  /\ Head(q) \in S /\ Tail(q) \in Seq(S) /\ Len(q) \in Nat /\ Len(q) >= 1
         /\ Len(Tail(q)) = Len(q) - 1 /\ Head(q) = q[1]
         /\ DOMAIN q = 1..Len(q) /\ DOMAIN Tail(q) = 1..(Len(q) - 1)
         /\ \A i \in 1..(Len(q) - 1) : Tail(q)[i] = q[i + 1]
<1>1. Len(q) \in Nat /\ Len(q) >= 1 /\ DOMAIN q = 1..Len(q) /\ Head(q) \in S /\ Tail(q) \in Seq(S)
  OBVIOUS
<1>2. Len(Tail(q)) = Len(q) - 1 /\ Head(q) = q[1]
  OBVIOUS
<1>3. DOMAIN Tail(q) = 1..(Len(q) - 1)
  BY <1>1, <1>2
<1>4. \A i \in 1..(Len(q) - 1) : Tail(q)[i] = q[i + 1]
  BY <1>1, <1>2, <1>3
<1> QED
  BY <1>1, <1>2, <1>3, <1>4

LEMMA TailMembers ==
  ASSUME NEW S, NEW q \in Seq(S), q # <<>>
  PROVE  /\ \A x : (\E i \in DOMAIN q : q[i] = x) <=>
                      x = Head(q) \/ \E i \in DOMAIN Tail(q) : Tail(q)[i] = x
         /\ (\A i, j \in DOMAIN q : q[i] = q[j] => i = j) =>
              /\ \A i, j \in DOMAIN Tail(q) : Tail(q)[i] = Tail(q)[j] => i = j
              /\ \A i \in DOMAIN Tail(q) : Tail(q)[i] # Head(q)
<1> DEFINE n == Len(q)
           r == Tail(q)
<1>1. /\ n \in Nat /\ n >= 1 /\ Head(q) = q[1] /\ DOMAIN q = 1..n /\ DOMAIN r = 1..(n - 1)
      /\ \A i \in 1..(n - 1) : r[i] = q[i + 1]
  BY TailFacts
<1> HIDE DEF n, r
<1>2. \A i \in 1..(n - 1) : i + 1 \in 1..n /\ i + 1 # 1
  BY <1>1
<1>3. ASSUME NEW x, NEW i \in 1..n, q[i] = x
      PROVE  x = Head(q) \/ \E k \in DOMAIN r : r[k] = x
  <2>1. CASE i = 1
    BY <1>1, <1>3, <2>1
  <2>2. CASE i # 1
    <3>1. i - 1 \in 1..(n - 1) /\ (i - 1) + 1 = i
      BY <1>1, <2>2
    <3> QED
      BY <1>1, <1>3, <3>1
  <2> QED
    BY <2>1, <2>2
<1>4. ASSUME NEW x, x = Head(q) \/ \E k \in DOMAIN r : r[k] = x
      PROVE  \E i \in DOMAIN q : q[i] = x
  <2>1. 1 \in DOMAIN q
    BY <1>1
  <2> QED
    BY <1>1, <1>2, <1>4, <2>1
<1>5. ASSUME \A i, j \in DOMAIN q : q[i] = q[j] => i = j
      PROVE  /\ \A i, j \in DOMAIN r : r[i] = r[j] => i = j
             /\ \A i \in DOMAIN r : r[i] # Head(q)
  <2>1. ASSUME NEW i \in DOMAIN r, NEW j \in DOMAIN r, r[i] = r[j] PROVE i = j
    <3>1. i + 1 \in 1..n /\ j + 1 \in 1..n /\ q[i + 1] = q[j + 1]
      BY <1>1, <1>2, <2>1
    <3>2. i + 1 = j + 1
      BY <1>1, <1>5, <3>1
    <3> QED
      BY <1>1, <3>2
  <2>2. ASSUME NEW i \in DOMAIN r PROVE r[i] # Head(q)
    <3>1. i + 1 \in 1..n /\ i + 1 # 1 /\ 1 \in 1..n
      BY <1>1, <1>2
    <3> QED
      BY <1>1, <1>5, <3>1
  <2> QED
    BY <2>1, <2>2
<1> QED
  BY <1>1, <1>3, <1>4, <1>5 DEF r

LEMMA WithTypes ==
  ASSUME NEW f, NEW x, NEW v, NEW S, f \in [DOMAIN f -> S], v \in S
  PROVE  With(f, x, v) \in [DOMAIN With(f, x, v) -> S]
BY DEF With

LEMMA WithoutFacts ==
  ASSUME NEW f, NEW x
  PROVE  /\ DOMAIN Without(f, x) = DOMAIN f \ {x}
         /\ \A y \in DOMAIN f \ {x} : Without(f, x)[y] = f[y]
         /\ \A S : f \in [DOMAIN f -> S] => Without(f, x) \in [DOMAIN Without(f, x) -> S]
BY DEF Without

LEMMA EmptyMapFacts == DOMAIN EmptyMap = {} /\ \A S : EmptyMap \in [DOMAIN EmptyMap -> S]
BY DEF EmptyMap

LEMMA PendingFinite ==
  ASSUME SentInv
  PROVE  IsFiniteSet(DOMAIN pending) /\ Cardinality(DOMAIN pending) \in Nat
<1>1. DOMAIN pending \subseteq 1..(next_probe_id - 1)
  BY DEF SentInv
<1>2. IsFiniteSet(1..(next_probe_id - 1))
  BY FS_Interval DEF SentInv
<1>3. IsFiniteSet(DOMAIN pending)
  BY <1>1, <1>2, FS_Subset
<1> QED
  BY <1>3, FS_CardinalityType

LEMMA HostsFinite == IsFiniteSet(Hosts) /\ IsFiniteSet(Neighbours)
<1>1. Target \in Seq(Hosts) /\ Neighbours \subseteq Hosts
  BY DiscoveryAssumption
<1>2. DOMAIN Target = 1..Len(Target) /\ Len(Target) \in Nat /\ Target \in [1..Len(Target) -> Hosts]
  BY <1>1
<1>3. Target \in Surjection(1..Len(Target), Hosts)
  BY <1>2 DEF Surjection, Hosts
<1>4. IsFiniteSet(1..Len(Target))
  BY <1>2, FS_Interval
<1>5. IsFiniteSet(Hosts)
  BY <1>3, <1>4, FS_Surjection
<1> QED
  BY <1>1, <1>5, FS_Subset

LEMMA NewId == SentInv => next_probe_id \notin DOMAIN sent /\ next_probe_id \notin DOMAIN pending
BY DEF SentInv

-----------------------------------------------------------------------------
(* The tables.                                                             *)

LEMMA NextCourse == CourseInv /\ RoomInv /\ [Next]_vars => CourseInv'
<1> SUFFICES ASSUME CourseInv, RoomInv, [Next]_vars PROVE CourseInv'
  OBVIOUS
<1>1. CASE Submit
  <2>1. ASSUME NEW h, SubmitInvalidHost(h) \/ SubmitTooMany(h) PROVE CourseInv'
    BY <2>1 DEF SubmitInvalidHost, SubmitTooMany, Submitting, CourseInv, transportVars
  <2>2. ASSUME NEW h, submit_host(h) PROVE CourseInv'
    BY <2>2 DEF submit_host, Submitting, CourseInv
  <2>3. CASE SubmitReturns
    BY <2>3 DEF SubmitReturns, CourseInv, schedulerVars
  <2> QED
    BY <1>1, <2>1, <2>2, <2>3 DEF Submit
<1>2. CASE Pump
  <2>1. CASE PumpReturns
    BY <2>1 DEF PumpReturns, CourseInv, complete, callerVars
  <2>2. CASE PumpSubmits \/ PumpRefused \/ PumpTimerFails
    BY <2>2 DEF PumpSubmits, PumpRefused, PumpTimerFails, PumpLoops, CourseInv, callerVars
  <2> QED
    BY <1>2, <2>1, <2>2 DEF Pump
<1>3. CASE Run \/ RunReturns \/ EngineFails
  BY <1>3 DEF Run, RunReturns, EngineFails, CourseInv, complete, schedulerVars
<1>4. ASSUME NEW id, NEW state, Finish(id, state), id \in DOMAIN pending, Dispatching,
             UNCHANGED <<phase, first_error, run_status, unsubmitted, stopped>>
      PROVE  CourseInv'
  BY <1>4 DEF Finish, Dispatching, CourseInv, complete
<1>5. ASSUME NEW id, expire(id) PROVE CourseInv'
  BY <1>4, <1>5 DEF expire, callerVars
<1>6. CASE Network
  <2>1. ASSUME NEW id, NEW k, Respond(id, k) PROVE CourseInv'
    <3>1. CASE UNCHANGED <<pending, pumping, results, timers>>
      BY <2>1, <3>1 DEF Respond, CourseInv, complete, callerVars
    <3>2. CASE id \in DOMAIN pending /\ \E state : Finish(id, state)
      BY <1>4, <2>1, <3>2 DEF Respond, callerVars
    <3> QED
      BY <2>1, <3>1, <3>2 DEF Respond, receive
  <2>2. ASSUME NEW id, NEW ok, NeighborAnswers(id, ok) PROVE CourseInv'
    BY <2>2 DEF NeighborAnswers, CourseInv, complete, callerVars, schedulerVars
  <2>3. ASSUME NEW id, NeighborTimesOut(id) PROVE CourseInv'
    BY <2>3 DEF NeighborTimesOut, CourseInv, complete, callerVars, schedulerVars
  <2>4. CASE NeighborAges
    BY <2>4 DEF NeighborAges, CourseInv, complete, callerVars, schedulerVars
  <2> QED
    BY <1>6, <2>1, <2>2, <2>3, <2>4 DEF Network
<1>7. CASE Destroy
  BY <1>7 DEF Destroy, CourseInv
<1>8. CASE Terminated \/ UNCHANGED vars
  BY <1>8 DEF Terminated, vars, CourseInv, complete, callerVars, schedulerVars
<1> QED
  BY <1>1, <1>2, <1>3, <1>5, <1>6, <1>7, <1>8 DEF Next, Deadline

LEMMA NextSent == RoomInv /\ SentInv /\ [Next]_vars => SentInv'
<1> SUFFICES ASSUME RoomInv, SentInv, [Next]_vars PROVE SentInv'
  OBVIOUS
<1>1. ASSUME UNCHANGED <<next_probe_id, sent, pending, wire, neighbor_timers, answered>>
      PROVE  SentInv'
  BY <1>1 DEF SentInv
<1>2. ASSUME NEW id \in DOMAIN pending, pending' = Without(pending, id),
             UNCHANGED <<next_probe_id, sent, neighbor_timers>>,
             wire' \subseteq wire, answered' \subseteq answered \cup {id}
      PROVE  SentInv'
  <2>1. /\ DOMAIN pending' = DOMAIN pending \ {id}
        /\ \A x \in DOMAIN pending \ {id} : pending'[x] = pending[x]
    BY <1>2, WithoutFacts
  <2>2. pending' \in [DOMAIN pending' -> Work]
    BY <1>2, WithoutFacts DEF SentInv
  <2> QED
    BY <1>2, <2>1, <2>2 DEF SentInv
<1>3. CASE Submit
  BY <1>1, <1>3 DEF Submit, SubmitInvalidHost, SubmitTooMany, submit_host, Submitting,
     SubmitReturns, transportVars, schedulerVars
<1>4. CASE Pump
  <2>1. CASE PumpReturns
    BY <1>1, <2>1 DEF PumpReturns, transportVars
  <2>2. CASE PumpRefused
    BY <2>2 DEF PumpRefused, SentInv
  <2> DEFINE id == next_probe_id
             work == Head(work_queue)
  <2>3. ASSUME PumpLoops PROVE work \in Work
    BY <2>3, TailFacts DEF PumpLoops, RoomInv
  <2>4. ASSUME Transmit(work, id), work \in Work
        PROVE  /\ sent' \in [DOMAIN sent' -> Work] /\ DOMAIN sent' = DOMAIN sent \cup {id}
               /\ sent'[id] = work /\ \A x \in DOMAIN sent : sent'[x] = sent[x]
               /\ wire' \subseteq DOMAIN sent' /\ neighbor_timers' \subseteq DOMAIN sent'
    <3>1. sent' = With(sent, id, work)
      BY <2>4 DEF Transmit
    <3>2. /\ sent' \in [DOMAIN sent' -> Work] /\ DOMAIN sent' = DOMAIN sent \cup {id}
          /\ sent'[id] = work /\ \A x \in DOMAIN sent : x # id => sent'[x] = sent[x]
      <4>1. sent \in [DOMAIN sent -> Work]
        BY DEF SentInv
      <4> HIDE DEF id, work
      <4>2. With(sent, id, work) \in [DOMAIN With(sent, id, work) -> Work]
        BY <2>4, <4>1, WithTypes
      <4>3. /\ DOMAIN With(sent, id, work) = DOMAIN sent \cup {id}
            /\ With(sent, id, work)[id] = work
            /\ \A x \in DOMAIN sent : x # id => With(sent, id, work)[x] = sent[x]
        BY DEF With
      <4> QED
        BY <3>1, <4>2, <4>3
    <3> QED
      BY <2>4, <3>2, NewId DEF Transmit, SentInv
  <2>5. id' = id + 1 /\ id \in Nat \ {0} => (DOMAIN sent \cup {id}) \subseteq 1..(id' - 1)
    BY DEF SentInv
  <2>6. CASE PumpSubmits
    <3>1. /\ Transmit(work, id) /\ work \in Work /\ next_probe_id' = id + 1
          /\ pending' = With(pending, id, work) /\ UNCHANGED answered
      BY <2>3, <2>6 DEF PumpSubmits
    <3> HIDE DEF work, id
    <3>2. /\ DOMAIN pending' = DOMAIN pending \cup {id} /\ pending'[id] = work
          /\ pending' \in [DOMAIN pending' -> Work]
          /\ \A x \in DOMAIN pending : x # id => pending'[x] = pending[x]
      <4>1. pending \in [DOMAIN pending -> Work]
        BY DEF SentInv
      <4>2. With(pending, id, work) \in [DOMAIN With(pending, id, work) -> Work]
        BY <3>1, <4>1, WithTypes
      <4>3. /\ DOMAIN With(pending, id, work) = DOMAIN pending \cup {id}
            /\ With(pending, id, work)[id] = work
            /\ \A x \in DOMAIN pending : x # id => With(pending, id, work)[x] = pending[x]
        BY DEF With
      <4> QED
        BY <3>1, <4>2, <4>3
    <3>3. /\ sent' \in [DOMAIN sent' -> Work] /\ DOMAIN sent' = DOMAIN sent \cup {id}
          /\ sent'[id] = work /\ \A x \in DOMAIN sent : sent'[x] = sent[x]
          /\ wire' \subseteq DOMAIN sent' /\ neighbor_timers' \subseteq DOMAIN sent'
      BY <2>4, <3>1
    <3>4. next_probe_id' \in Nat \ {0} /\ DOMAIN sent' \subseteq 1..(next_probe_id' - 1)
      BY <3>1, <3>3 DEF SentInv, id
    <3> QED
      BY <3>1, <3>2, <3>3, <3>4 DEF SentInv
  <2>7. CASE PumpTimerFails
    <3>1. /\ Transmit(work, id) /\ work \in Work /\ next_probe_id' = id + 1
          /\ UNCHANGED <<pending, answered>>
      BY <2>3, <2>7 DEF PumpTimerFails
    <3> HIDE DEF work, id
    <3>2. /\ sent' \in [DOMAIN sent' -> Work] /\ DOMAIN sent' = DOMAIN sent \cup {id}
          /\ sent'[id] = work /\ \A x \in DOMAIN sent : sent'[x] = sent[x]
          /\ wire' \subseteq DOMAIN sent' /\ neighbor_timers' \subseteq DOMAIN sent'
      BY <2>4, <3>1
    <3>3. next_probe_id' \in Nat \ {0} /\ DOMAIN sent' \subseteq 1..(next_probe_id' - 1)
      BY <3>1, <3>2 DEF SentInv, id
    <3> QED
      BY <3>1, <3>2, <3>3 DEF SentInv
  <2> QED
    BY <1>4, <2>1, <2>2, <2>6, <2>7 DEF Pump
<1>5. CASE Run \/ RunReturns \/ EngineFails
  BY <1>1, <1>5 DEF Run, RunReturns, EngineFails, schedulerVars, transportVars
<1>6. ASSUME NEW id, expire(id) PROVE SentInv'
  BY <1>2, <1>6 DEF expire, Finish, transportVars
<1>7. CASE Network
  <2>1. ASSUME NEW id, NEW k, Respond(id, k) PROVE SentInv'
    <3>1. /\ id \in wire /\ wire' \subseteq wire /\ answered' \subseteq answered \cup {id}
          /\ UNCHANGED <<next_probe_id, sent, neighbor_timers>>
      BY <2>1 DEF Respond
    <3>2. CASE UNCHANGED pending
      BY <3>1, <3>2 DEF SentInv
    <3>3. CASE id \in DOMAIN pending /\ pending' = Without(pending, id)
      BY <1>2, <3>1, <3>3
    <3> QED
      BY <2>1, <3>2, <3>3 DEF Respond, receive, Finish
  <2>2. ASSUME NEW id, NEW ok, NeighborAnswers(id, ok) PROVE SentInv'
    BY <2>2 DEF NeighborAnswers, SentInv, schedulerVars
  <2>3. ASSUME NEW id, NeighborTimesOut(id) PROVE SentInv'
    BY <2>3 DEF NeighborTimesOut, SentInv, schedulerVars
  <2>4. CASE NeighborAges
    BY <1>1, <2>4 DEF NeighborAges, schedulerVars
  <2> QED
    BY <1>7, <2>1, <2>2, <2>3, <2>4 DEF Network
<1>8. CASE Destroy
  BY <1>8, EmptyMapFacts DEF Destroy, SentInv
<1>9. CASE Terminated \/ UNCHANGED vars
  BY <1>1, <1>9 DEF Terminated, vars, schedulerVars, transportVars
<1> QED
  BY <1>3, <1>4, <1>5, <1>6, <1>7, <1>8, <1>9 DEF Next, Deadline

LEMMA TimerNames ==
  ASSUME NEW a, NEW b
  PROVE  /\ Expire(a) = Expire(b) <=> a = b
         /\ NeighborExpire(a) = NeighborExpire(b) <=> a = b
         /\ Expire(a) # NeighborExpire(b)
<1>1. Expire(a).id = a /\ Expire(b).id = b /\ NeighborExpire(a).id = a /\ NeighborExpire(b).id = b
      /\ Expire(a).handler = "expire" /\ NeighborExpire(b).handler = "neighbor"
  BY DEF Expire, NeighborExpire
<1> QED
  BY <1>1

LEMMA NextTimers == SentInv /\ TimersInv /\ [Next]_vars => TimersInv'
<1> SUFFICES ASSUME SentInv, TimersInv, [Next]_vars PROVE TimersInv'
  OBVIOUS
<1>1. ASSUME UNCHANGED <<timers, pending, neighbor_timers>> PROVE TimersInv'
  BY <1>1 DEF TimersInv
<1>2. ASSUME NEW id, pending' = Without(pending, id), timers' = timers \ {Expire(id)},
             UNCHANGED neighbor_timers
      PROVE  TimersInv'
  <2>1. DOMAIN pending' = DOMAIN pending \ {id}
    BY <1>2, WithoutFacts
  <2>2. \A x : Expire(x) = Expire(id) <=> x = id
    BY TimerNames
  <2>3. \A x : NeighborExpire(x) # Expire(id)
    BY TimerNames
  <2> QED
    BY <1>2, <2>1, <2>2, <2>3 DEF TimersInv
<1>3. ASSUME NEW id, timers' = timers \ {NeighborExpire(id)}, UNCHANGED pending,
             neighbor_timers' = neighbor_timers \ {id}
      PROVE  TimersInv'
  <2>1. \A x : NeighborExpire(x) = NeighborExpire(id) <=> x = id
    BY TimerNames
  <2>2. \A x : NeighborExpire(id) # Expire(x)
    BY TimerNames
  <2> QED
    BY <1>3, <2>1, <2>2 DEF TimersInv
<1>4. CASE Submit
  BY <1>1, <1>4 DEF Submit, SubmitInvalidHost, SubmitTooMany, submit_host, Submitting,
     SubmitReturns, transportVars, schedulerVars
<1>5. CASE Pump
  <2> DEFINE id == next_probe_id
             work == Head(work_queue)
  <2>1. CASE PumpReturns \/ PumpRefused
    BY <1>1, <2>1 DEF PumpReturns, PumpRefused, transportVars
  <2>2. ASSUME NEW t \in NeighborTimer(work, id), Transmit(work, id)
        PROVE  /\ neighbor_timers \subseteq neighbor_timers'
               /\ t \subseteq {NeighborExpire(x) : x \in neighbor_timers'}
    BY <2>2 DEF NeighborTimer, Transmit
  <2>3. CASE PumpSubmits
    <3>1. PICK t \in NeighborTimer(work, id) : timers' = timers \cup t \cup {Expire(id)}
      BY <2>3 DEF PumpSubmits
    <3>2. Transmit(work, id) /\ pending' = With(pending, id, work)
      BY <2>3 DEF PumpSubmits
    <3>3. DOMAIN pending' = DOMAIN pending \cup {id}
      BY <3>2 DEF With
    <3> QED
      BY <2>2, <3>1, <3>2, <3>3 DEF TimersInv
  <2>4. CASE PumpTimerFails
    <3>1. PICK t \in NeighborTimer(work, id) : timers' = timers \cup t
      BY <2>4 DEF PumpTimerFails
    <3>2. Transmit(work, id) /\ pending' = pending
      BY <2>4 DEF PumpTimerFails
    <3> QED
      BY <2>2, <3>1, <3>2 DEF TimersInv
  <2> QED
    BY <1>5, <2>1, <2>3, <2>4 DEF Pump
<1>6. CASE Run \/ RunReturns \/ EngineFails
  BY <1>1, <1>6 DEF Run, RunReturns, EngineFails, schedulerVars, transportVars
<1>7. ASSUME NEW id, expire(id) PROVE TimersInv'
  BY <1>2, <1>7 DEF expire, Finish, transportVars
<1>8. CASE Network
  <2>1. ASSUME NEW id, NEW k, Respond(id, k) PROVE TimersInv'
    BY <1>1, <1>2, <2>1 DEF Respond, receive, Finish
  <2>2. ASSUME NEW id, NEW ok, NeighborAnswers(id, ok) PROVE TimersInv'
    BY <1>3, <2>2 DEF NeighborAnswers, schedulerVars
  <2>3. ASSUME NEW id, NeighborTimesOut(id) PROVE TimersInv'
    BY <1>3, <2>3 DEF NeighborTimesOut, schedulerVars
  <2>4. CASE NeighborAges
    BY <1>1, <2>4 DEF NeighborAges, schedulerVars
  <2> QED
    BY <1>8, <2>1, <2>2, <2>3, <2>4 DEF Network
<1>9. CASE Destroy
  BY <1>9, EmptyMapFacts DEF Destroy, TimersInv
<1>10. CASE Terminated \/ UNCHANGED vars
  BY <1>1, <1>10 DEF Terminated, vars, schedulerVars, transportVars
<1> QED
  BY <1>4, <1>5, <1>6, <1>7, <1>8, <1>9, <1>10 DEF Next, Deadline

(***************************************************************************)
(* The probes of one host, as submit() queues them.                        *)
(***************************************************************************)
HostProbes(h) == [i \in DOMAIN Probes |-> [host |-> h, type |-> Probes[i]]]

LEMMA HostProbesFacts ==
  ASSUME NEW h \in Hosts
  PROVE  /\ HostProbes(h) \in Seq(Work) /\ Len(HostProbes(h)) = Len(Probes) /\ Len(Probes) \in Nat
         /\ Len(Probes) >= 1
         /\ DOMAIN HostProbes(h) = 1..Len(Probes)
         /\ \A i \in 1..Len(Probes) : HostProbes(h)[i] = [host |-> h, type |-> Probes[i]]
<1>1. /\ Probes \in Seq({"IcmpEcho", "Tcp", "Arp"}) /\ Probes # <<>>
  BY DiscoveryAssumption
<1>2. DOMAIN Probes = 1..Len(Probes) /\ Len(Probes) \in Nat /\ Len(Probes) >= 1
  BY <1>1
<1>3. \A i \in 1..Len(Probes) : [host |-> h, type |-> Probes[i]] \in Work
  BY <1>2 DEF Work, ProbeTypes
<1>4. HostProbes(h) \in [1..Len(Probes) -> Work] /\ DOMAIN HostProbes(h) = 1..Len(Probes)
  BY <1>2, <1>3 DEF HostProbes
<1>5. HostProbes(h) \in Seq(Work)
  BY <1>2, <1>4
<1>6. Len(HostProbes(h)) = Len(Probes)
  BY <1>2, <1>4, <1>5
<1> QED
  BY <1>2, <1>4, <1>5, <1>6 DEF HostProbes

LEMMA NextRoom == CourseInv /\ SentInv /\ RoomInv /\ [Next]_vars => RoomInv'
<1> SUFFICES ASSUME CourseInv, SentInv, RoomInv, [Next]_vars PROVE RoomInv'
  OBVIOUS
<1> DEFINE n == Cardinality(DOMAIN pending)
<1>1. IsFiniteSet(DOMAIN pending) /\ n \in Nat /\ MaxOutstanding \in Nat \ {0}
  BY PendingFinite, DiscoveryAssumption
<1>2. Len(work_queue) \in Nat
  BY DEF RoomInv
<1>3. ASSUME UNCHANGED <<work_queue, pending>>, pumping = "no" \/ pumping' # "no"
      PROVE  RoomInv'
  BY <1>3 DEF RoomInv
<1>4. ASSUME NEW id \in DOMAIN pending, NEW state, Finish(id, state), UNCHANGED work_queue
      PROVE  RoomInv'
  <2>1. DOMAIN pending' = DOMAIN pending \ {id} /\ pumping' = "handler"
    BY <1>4, WithoutFacts DEF Finish
  <2>2. Cardinality(DOMAIN pending') = n - 1
    BY <1>1, <2>1, FS_RemoveElement
  <2> HIDE DEF n
  <2>3. n + Len(work_queue) <= MaxOutstanding
    BY DEF RoomInv, n
  <2>4. Cardinality(DOMAIN pending') + Len(work_queue') <= MaxOutstanding
    BY <1>1, <1>2, <1>4, <2>2, <2>3
  <2> QED
    BY <1>4, <2>1, <2>4 DEF RoomInv
<1>5. ASSUME PumpLoops, work_queue' = Tail(work_queue), UNCHANGED pumping
      PROVE  /\ work_queue' \in Seq(Work) /\ Len(work_queue') = Len(work_queue) - 1
             /\ pumping' # "no"
  BY <1>5, TailFacts DEF PumpLoops, RoomInv
<1>6. CASE Submit
  <2>1. ASSUME NEW h, SubmitInvalidHost(h) \/ SubmitTooMany(h) PROVE RoomInv'
    BY <1>3, <2>1 DEF SubmitInvalidHost, SubmitTooMany, Submitting
  <2>2. ASSUME NEW h \in Hosts, submit_host(h) PROVE RoomInv'
    <3>1. work_queue' = work_queue \o HostProbes(h) /\ pumping' = "submit" /\ UNCHANGED pending
      BY <2>2 DEF submit_host, HostProbes, Submitting
    <3>2. work_queue' \in Seq(Work) /\ Len(work_queue') = Len(work_queue) + Len(Probes)
      <4>1. HostProbes(h) \in Seq(Work) /\ Len(HostProbes(h)) = Len(Probes) /\ work_queue \in Seq(Work)
        BY HostProbesFacts DEF RoomInv
      <4> DEFINE q == HostProbes(h)
      <4> HIDE DEF q
      <4>2. work_queue \o q \in Seq(Work) /\ Len(work_queue \o q) = Len(work_queue) + Len(q)
        BY <4>1, ConcatProperties DEF q
      <4> QED
        BY <3>1, <4>1, <4>2 DEF q
    <3>3. n + Len(work_queue) + Len(Probes) <= MaxOutstanding
      BY <2>2 DEF submit_host, Fits
    <3> HIDE DEF n
    <3>4. n + Len(work_queue') <= MaxOutstanding
      BY <1>1, <1>2, <3>2, <3>3, HostProbesFacts
    <3> QED
      BY <3>1, <3>2, <3>4 DEF RoomInv, n
  <2>3. CASE SubmitReturns
    BY <1>3, <2>3 DEF SubmitReturns, schedulerVars
  <2> QED
    BY <1>6, <2>1, <2>2, <2>3 DEF Submit
<1>7. CASE Pump
  <2>1. CASE PumpReturns
    <3>1. work_queue = <<>>
      <4>1. n + Len(work_queue) <= MaxOutstanding
        BY DEF RoomInv
      <4>2. ~(work_queue # <<>> /\ n < MaxOutstanding)
        BY <2>1 DEF PumpReturns, PumpLoops
      <4> HIDE DEF n
      <4>3. work_queue # <<>> => Len(work_queue) >= 1
        BY DEF RoomInv
      <4> QED
        BY <1>1, <1>2, <4>1, <4>2, <4>3
    <3> QED
      BY <2>1, <3>1 DEF PumpReturns, RoomInv
  <2>2. CASE PumpRefused \/ PumpTimerFails
    <3>1. PumpLoops /\ work_queue' = Tail(work_queue) /\ UNCHANGED <<pumping, pending>>
      BY <2>2 DEF PumpRefused, PumpTimerFails
    <3>2. /\ work_queue' \in Seq(Work) /\ Len(work_queue') = Len(work_queue) - 1
          /\ pumping' # "no"
      BY <1>5, <3>1
    <3>3. n + Len(work_queue) <= MaxOutstanding
      BY DEF RoomInv
    <3> HIDE DEF n
    <3>4. n + Len(work_queue') <= MaxOutstanding
      BY <1>1, <1>2, <3>2, <3>3
    <3> QED
      BY <3>1, <3>2, <3>4 DEF RoomInv, n
  <2>3. CASE PumpSubmits
    <3>1. /\ PumpLoops /\ work_queue' = Tail(work_queue) /\ UNCHANGED pumping
          /\ DOMAIN pending' = DOMAIN pending \cup {next_probe_id}
      BY <2>3 DEF PumpSubmits, With
    <3>2. /\ work_queue' \in Seq(Work) /\ Len(work_queue') = Len(work_queue) - 1
          /\ pumping' # "no"
      BY <1>5, <3>1
    <3>3. Cardinality(DOMAIN pending') = n + 1
      BY <1>1, <3>1, NewId, FS_AddElement
    <3>4. n + Len(work_queue) <= MaxOutstanding
      BY DEF RoomInv
    <3> HIDE DEF n
    <3>5. Cardinality(DOMAIN pending') + Len(work_queue') <= MaxOutstanding
      BY <1>1, <1>2, <3>2, <3>3, <3>4
    <3> QED
      BY <3>2, <3>5 DEF RoomInv
  <2> QED
    BY <1>7, <2>1, <2>2, <2>3 DEF Pump
<1>8. CASE Run \/ RunReturns \/ EngineFails
  BY <1>3, <1>8 DEF Run, RunReturns, EngineFails, schedulerVars
<1>9. ASSUME NEW id, expire(id) PROVE RoomInv'
  BY <1>4, <1>9 DEF expire
<1>10. CASE Network
  <2>1. ASSUME NEW id, NEW k, Respond(id, k) PROVE RoomInv'
    BY <1>3, <1>4, <2>1 DEF Respond, receive, Dispatching
  <2>2. ASSUME NEW id, NEW ok, NeighborAnswers(id, ok) PROVE RoomInv'
    BY <1>3, <2>2 DEF NeighborAnswers, schedulerVars, Dispatching
  <2>3. ASSUME NEW id, NeighborTimesOut(id) PROVE RoomInv'
    BY <1>3, <2>3 DEF NeighborTimesOut, schedulerVars, Dispatching
  <2>4. CASE NeighborAges
    BY <2>4 DEF NeighborAges, schedulerVars, RoomInv
  <2> QED
    BY <1>10, <2>1, <2>2, <2>3, <2>4 DEF Network
<1>11. CASE Destroy
  <2>1. /\ DOMAIN pending' = {} /\ work_queue' = <<>>
    BY <1>11, EmptyMapFacts DEF Destroy
  <2>2. Cardinality(DOMAIN pending') = 0 /\ Len(work_queue') = 0 /\ work_queue' \in Seq(Work)
    BY <2>1, FS_EmptySet
  <2>3. 0 + 0 <= MaxOutstanding
    BY <1>1
  <2> QED
    BY <2>1, <2>2, <2>3 DEF RoomInv
<1>12. CASE Terminated \/ UNCHANGED vars
  BY <1>12 DEF Terminated, vars, schedulerVars, RoomInv
<1> QED
  BY <1>6, <1>7, <1>8, <1>9, <1>10, <1>11, <1>12 DEF Next, Deadline

(***************************************************************************)
(* The oldest of the entries is one of them: the ranks are well-founded.   *)
(***************************************************************************)
LEMMA OldestExists ==
  ASSUME CacheInv, NEW hosts \in SUBSET DOMAIN neighbor_cache, hosts # {}
  PROVE  Oldest(hosts) \in hosts
<1> DEFINE ranks == {neighbor_cache[x].rank : x \in hosts}
<1>1. \A x \in hosts : neighbor_cache[x].rank \in Nat
  BY DEF CacheInv
<1>2. ranks \subseteq Nat /\ ranks # {}
  BY <1>1
<1>3. PICK r \in ranks : \A y \in ranks : ~(<<y, r>> \in OpToRel(<, Nat))
  BY <1>2, WFMin, NatLessThanWellFounded
<1>4. \A y \in ranks : ~(y < r)
  BY <1>2, <1>3 DEF OpToRel
<1>5. PICK h \in hosts : neighbor_cache[h].rank = r
  OBVIOUS
<1>6. \A x \in hosts : neighbor_cache[h].rank <= neighbor_cache[x].rank
  <2> SUFFICES ASSUME NEW x \in hosts PROVE neighbor_cache[h].rank <= neighbor_cache[x].rank
    OBVIOUS
  <2> DEFINE y == neighbor_cache[x].rank
  <2>1. y \in Nat /\ r \in Nat /\ ~(y < r)
    BY <1>1, <1>2, <1>4
  <2> HIDE DEF y
  <2>2. r <= y
    BY <2>1
  <2> QED
    BY <1>5, <2>2 DEF y
<1> QED
  BY <1>6 DEF Oldest

LEMMA Remembered ==
  ASSUME CacheInv, NEW h \in Neighbours, neighbor_cache' = RememberNeighbor(h)
  PROVE  /\ DOMAIN neighbor_cache' \subseteq Neighbours
         /\ neighbor_cache' \in [DOMAIN neighbor_cache' -> [fresh : BOOLEAN, rank : Nat]]
         /\ Cardinality(DOMAIN neighbor_cache') <= CacheLimit
<1> DEFINE fresh == {x \in DOMAIN neighbor_cache : Cached(x)}
           kept == Kept(h)
<1>1. /\ fresh \subseteq Neighbours /\ fresh \subseteq DOMAIN neighbor_cache
      /\ IsFiniteSet(Neighbours) /\ CacheLimit \in Nat \ {0}
  BY HostsFinite, DiscoveryAssumption DEF CacheInv
<1>2. IsFiniteSet(fresh) /\ IsFiniteSet(DOMAIN neighbor_cache)
  BY <1>1, FS_Subset DEF CacheInv
<1>3. Cardinality(fresh) \in Nat /\ Cardinality(fresh) <= CacheLimit
  <2>1. Cardinality(fresh) <= Cardinality(DOMAIN neighbor_cache)
    BY <1>1, <1>2, FS_Subset
  <2>2. Cardinality(fresh) \in Nat /\ Cardinality(DOMAIN neighbor_cache) \in Nat
    BY <1>2, FS_CardinalityType
  <2>3. Cardinality(DOMAIN neighbor_cache) <= CacheLimit
    BY DEF CacheInv
  <2> QED
    BY <1>1, <2>1, <2>2, <2>3
<1>4. kept = IF h \notin fresh /\ Cardinality(fresh) >= CacheLimit THEN fresh \ {Oldest(fresh)}
                                                                  ELSE fresh \ {h}
  BY DEF Kept
<1> HIDE DEF fresh, kept
<1>5. kept \subseteq fresh /\ IsFiniteSet(kept) /\ IsFiniteSet(kept \cup {h})
  BY <1>2, <1>4, FS_Subset, FS_AddElement
<1>6. DOMAIN neighbor_cache' = kept \cup {h}
  BY DEF RememberNeighbor, kept
<1>7. Cardinality(kept \cup {h}) <= CacheLimit
  <2>1. CASE h \in fresh
    <3>1. kept \cup {h} = fresh
      BY <1>4, <2>1
    <3> QED
      BY <1>3, <3>1
  <2>2. CASE h \notin fresh /\ Cardinality(fresh) < CacheLimit
    <3>1. ~(Cardinality(fresh) >= CacheLimit)
      BY <1>1, <1>3, <2>2
    <3>2. kept = fresh
      BY <1>4, <2>2, <3>1
    <3>3. Cardinality(kept \cup {h}) = Cardinality(fresh) + 1
      BY <1>2, <2>2, <3>2, FS_AddElement
    <3> QED
      BY <1>1, <1>3, <2>2, <3>3
  <2>3. CASE h \notin fresh /\ Cardinality(fresh) >= CacheLimit
    <3>1. fresh # {}
      BY <1>1, <1>3, <2>3, FS_EmptySet
    <3>2. Oldest(fresh) \in fresh
      BY <1>1, <3>1, OldestExists
    <3>3. kept = fresh \ {Oldest(fresh)}
      BY <1>4, <2>3
    <3>4. Cardinality(kept) = Cardinality(fresh) - 1
      BY <1>2, <3>2, <3>3, FS_RemoveElement
    <3>5. Cardinality(kept \cup {h}) = Cardinality(kept) + 1
      BY <1>5, <2>3, FS_AddElement
    <3> QED
      BY <1>1, <1>3, <3>4, <3>5
  <2> QED
    BY <1>1, <1>3, <2>1, <2>2, <2>3
<1>8. Cardinality(kept) \in Nat
  BY <1>5, FS_CardinalityType
<1>9. ASSUME NEW x \in kept PROVE Rank(x, kept) \in Nat
  <2>1. IsFiniteSet({y \in kept : neighbor_cache[y].rank < neighbor_cache[x].rank})
    BY <1>5, FS_Subset
  <2> QED
    BY <2>1, FS_CardinalityType DEF Rank
<1>10. \A x \in kept \cup {h} :
         [fresh |-> TRUE, rank |-> IF x = h THEN Cardinality(kept) ELSE Rank(x, kept)]
           \in [fresh : BOOLEAN, rank : Nat]
  BY <1>8, <1>9
<1>11. neighbor_cache' \in [kept \cup {h} -> [fresh : BOOLEAN, rank : Nat]]
  BY <1>10 DEF RememberNeighbor, kept
<1> QED
  BY <1>1, <1>5, <1>6, <1>7, <1>11

LEMMA NextCache == RoomInv /\ SentInv /\ CacheInv /\ [Next]_vars => CacheInv'
<1> SUFFICES ASSUME RoomInv, SentInv, CacheInv, [Next]_vars PROVE CacheInv'
  OBVIOUS
<1>1. ASSUME UNCHANGED <<neighbor_cache, neighbor_timers, sent>> PROVE CacheInv'
  BY <1>1 DEF CacheInv
<1>2. ASSUME NEW h, neighbor_cache' \in {neighbor_cache, LookedUp(h)}
      PROVE  /\ DOMAIN neighbor_cache' \subseteq Neighbours
             /\ neighbor_cache' \in [DOMAIN neighbor_cache' -> [fresh : BOOLEAN, rank : Nat]]
             /\ Cardinality(DOMAIN neighbor_cache') <= CacheLimit
  <2>1. CASE neighbor_cache' = neighbor_cache
    BY <2>1 DEF CacheInv
  <2>2. CASE neighbor_cache' = Without(neighbor_cache, h)
    <3>1. DOMAIN neighbor_cache' = DOMAIN neighbor_cache \ {h}
          /\ neighbor_cache' \in [DOMAIN neighbor_cache' -> [fresh : BOOLEAN, rank : Nat]]
      BY <2>2, WithoutFacts DEF CacheInv
    <3>2. IsFiniteSet(DOMAIN neighbor_cache) /\ CacheLimit \in Nat
      BY HostsFinite, FS_Subset, DiscoveryAssumption DEF CacheInv
    <3>3. /\ Cardinality(DOMAIN neighbor_cache') <= Cardinality(DOMAIN neighbor_cache)
          /\ IsFiniteSet(DOMAIN neighbor_cache')
      BY <3>1, <3>2, FS_Subset
    <3>4. Cardinality(DOMAIN neighbor_cache') \in Nat /\ Cardinality(DOMAIN neighbor_cache) \in Nat
      BY <3>2, <3>3, FS_CardinalityType
    <3>5. Cardinality(DOMAIN neighbor_cache) <= CacheLimit
      BY DEF CacheInv
    <3>6. Cardinality(DOMAIN neighbor_cache') <= CacheLimit
      BY <3>2, <3>3, <3>4, <3>5
    <3> QED
      BY <3>1, <3>6 DEF CacheInv
  <2> QED
    BY <1>2, <2>1, <2>2 DEF LookedUp
<1>3. CASE Submit
  BY <1>1, <1>3 DEF Submit, SubmitInvalidHost, SubmitTooMany, submit_host, Submitting,
     SubmitReturns, transportVars
<1>4. CASE Pump
  <2>1. CASE PumpReturns
    BY <1>1, <2>1 DEF PumpReturns, transportVars
  <2>2. CASE PumpRefused
    BY <1>2, <2>2 DEF PumpRefused, CacheInv
  <2>3. CASE PumpSubmits \/ PumpTimerFails
    <3> DEFINE work == Head(work_queue)
               id == next_probe_id
    <3>1. Transmit(work, id)
      BY <2>3 DEF PumpSubmits, PumpTimerFails
    <3>2. neighbor_cache' = LookedUp(work.host) /\ sent' = With(sent, id, work)
          /\ neighbor_timers' \subseteq neighbor_timers \cup {id}
          /\ (id \in neighbor_timers' => Solicits(work.host))
      BY <3>1, NewId DEF Transmit, SentInv
    <3>3. /\ sent'[id] = work /\ \A x \in DOMAIN sent : x # id => sent'[x] = sent[x]
      BY <3>2 DEF With
    <3> HIDE DEF id, work
    <3>4. \A x \in neighbor_timers' : sent'[x].host \in Neighbours
      BY <3>2, <3>3 DEF CacheInv, SentInv, Solicits
    <3> QED
      BY <1>2, <3>2, <3>4 DEF CacheInv
  <2> QED
    BY <1>4, <2>1, <2>2, <2>3 DEF Pump
<1>5. CASE Run \/ RunReturns \/ EngineFails
  BY <1>1, <1>5 DEF Run, RunReturns, EngineFails, transportVars
<1>6. ASSUME NEW id, expire(id) PROVE CacheInv'
  BY <1>1, <1>6 DEF expire, transportVars
<1>7. CASE Network
  <2>1. ASSUME NEW id, NEW k, Respond(id, k) PROVE CacheInv'
    BY <1>1, <2>1 DEF Respond
  <2>2. ASSUME NEW id, NEW ok, NeighborAnswers(id, ok) PROVE CacheInv'
    <3>1. /\ id \in neighbor_timers /\ neighbor_cache' = RememberNeighbor(sent[id].host)
          /\ neighbor_timers' \subseteq neighbor_timers /\ UNCHANGED sent
      BY <2>2 DEF NeighborAnswers
    <3>2. sent[id].host \in Neighbours
      BY <3>1 DEF CacheInv
    <3>3. /\ DOMAIN neighbor_cache' \subseteq Neighbours
          /\ neighbor_cache' \in [DOMAIN neighbor_cache' -> [fresh : BOOLEAN, rank : Nat]]
          /\ Cardinality(DOMAIN neighbor_cache') <= CacheLimit
      BY <3>1, <3>2, Remembered
    <3> QED
      BY <3>1, <3>3 DEF CacheInv
  <2>3. ASSUME NEW id, NeighborTimesOut(id) PROVE CacheInv'
    BY <2>3 DEF NeighborTimesOut, CacheInv
  <2>4. CASE NeighborAges
    BY <2>4 DEF NeighborAges, CacheInv
  <2> QED
    BY <1>7, <2>1, <2>2, <2>3, <2>4 DEF Network
<1>8. CASE Destroy
  <2>1. CacheLimit \in Nat /\ Cardinality({}) = 0
    BY DiscoveryAssumption, FS_EmptySet
  <2> QED
    BY <1>8, <2>1, EmptyMapFacts DEF Destroy, CacheInv
<1>9. CASE Terminated \/ UNCHANGED vars
  BY <1>1, <1>9 DEF Terminated, vars, transportVars
<1> QED
  BY <1>3, <1>4, <1>5, <1>6, <1>7, <1>8, <1>9 DEF Next, Deadline

-----------------------------------------------------------------------------
(* Where each probe is.                                                    *)

LEMMA WorkFields ==
  ASSUME NEW w \in Work
  PROVE  /\ w.host \in Hosts /\ w.type \in ProbeTypes
         /\ w = [host |-> w.host, type |-> w.type]
         /\ \A x \in Work : x.host = w.host /\ x.type = w.type => x = w
BY DEF Work

(***************************************************************************)
(* append_result() on a probe without one: that probe, and no other.       *)
(***************************************************************************)
LEMMA Recorded ==
  ASSUME results \in [Hosts -> [ProbeTypes -> Seq(HostState)]],
         NEW w \in Work, NEW st \in HostState, append_result(w, st), Verdict(w) = <<>>
  PROVE  /\ results' \in [Hosts -> [ProbeTypes -> Seq(HostState)]]
         /\ Verdict(w)' = <<st>>
         /\ \A x \in Work : x # w => Verdict(x)' = Verdict(x)
<1>1. w.host \in Hosts /\ w.type \in ProbeTypes
  BY WorkFields
<1>2. results' = [results EXCEPT ![w.host] = [results[w.host] EXCEPT ![w.type] = <<st>>]]
  BY <1>1 DEF append_result, Verdict
<1>3. <<st>> \in Seq(HostState)
  OBVIOUS
<1>4. results' \in [Hosts -> [ProbeTypes -> Seq(HostState)]]
  BY <1>1, <1>2, <1>3
<1>5. results'[w.host][w.type] = <<st>>
  BY <1>1, <1>2
<1>6. ASSUME NEW x \in Work, x # w
      PROVE  results'[x.host][x.type] = results[x.host][x.type]
  <2>1. x.host \in Hosts /\ x.type \in ProbeTypes /\ (x.host # w.host \/ x.type # w.type)
    BY <1>6, WorkFields
  <2> QED
    BY <1>1, <1>2, <2>1
<1> QED
  BY <1>4, <1>5, <1>6 DEF Verdict

(***************************************************************************)
(* pump() takes the head of the queue, and only that.                      *)
(***************************************************************************)
LEMMA HeadTaken ==
  ASSUME RoomInv, PlaceInv, work_queue # <<>>, work_queue' = Tail(work_queue)
  PROVE  /\ Head(work_queue) \in Work /\ Waiting(Head(work_queue))
         /\ \A x : Waiting(x)' <=> Waiting(x) /\ x # Head(work_queue)
         /\ \A i, j \in DOMAIN work_queue' : work_queue'[i] = work_queue'[j] => i = j
<1> DEFINE q == work_queue
           r == Tail(work_queue)
<1>1. q \in Seq(Work) /\ q # <<>> /\ \A i, j \in DOMAIN q : q[i] = q[j] => i = j
  BY DEF RoomInv, PlaceInv
<1>2. Head(q) \in Work
  BY <1>1, TailFacts
<1>3. /\ \A x : (\E i \in DOMAIN q : q[i] = x) <=>
                  x = Head(q) \/ \E i \in DOMAIN r : r[i] = x
      /\ \A i, j \in DOMAIN r : r[i] = r[j] => i = j
      /\ \A i \in DOMAIN r : r[i] # Head(q)
  BY <1>1, TailMembers
<1> QED
  BY <1>2, <1>3 DEF Waiting

(***************************************************************************)
(* submit() takes the first host off its list, and only that.              *)
(***************************************************************************)
LEMMA HostTaken ==
  ASSUME PlaceInv, NEW h, Submitting(h)
  PROVE  /\ h \in Hosts /\ Unreached(h) /\ unsubmitted' \in Seq(Hosts)
         /\ \A x : Unreached(x)' <=> Unreached(x) /\ x # h
         /\ \A i, j \in DOMAIN unsubmitted' : unsubmitted'[i] = unsubmitted'[j] => i = j
<1> DEFINE q == unsubmitted
           r == Tail(unsubmitted)
<1>1. q \in Seq(Hosts) /\ q # <<>> /\ h = Head(q) /\ unsubmitted' = r
      /\ \A i, j \in DOMAIN q : q[i] = q[j] => i = j
  BY DEF PlaceInv, Submitting
<1>2. Head(q) \in Hosts /\ r \in Seq(Hosts)
  BY <1>1, TailFacts
<1>3. /\ \A x : (\E i \in DOMAIN q : q[i] = x) <=>
                  x = Head(q) \/ \E i \in DOMAIN r : r[i] = x
      /\ \A i, j \in DOMAIN r : r[i] = r[j] => i = j
      /\ \A i \in DOMAIN r : r[i] # Head(q)
  BY <1>1, TailMembers
<1> QED
  BY <1>1, <1>2, <1>3 DEF Unreached

(***************************************************************************)
(* The end of a pending probe: its work is no longer out.                  *)
(***************************************************************************)
LEMMA Landed ==
  ASSUME PlaceInv, SentInv, NEW id \in DOMAIN pending, pending' = Without(pending, id)
  PROVE  /\ pending[id] \in Work /\ Flying(pending[id])
         /\ \A x : Flying(x)' <=> Flying(x) /\ x # pending[id]
         /\ \A a, b \in DOMAIN pending' : pending'[a] = pending'[b] => a = b
<1>1. /\ DOMAIN pending' = DOMAIN pending \ {id}
      /\ \A y \in DOMAIN pending \ {id} : pending'[y] = pending[y]
  BY WithoutFacts
<1>2. \A a, b \in DOMAIN pending : pending[a] = pending[b] => a = b
  BY DEF PlaceInv
<1>3. pending[id] \in Work
  BY DEF SentInv
<1> QED
  BY <1>1, <1>2, <1>3 DEF Flying

(***************************************************************************)
(* A probe given to the transport is out.                                  *)
(***************************************************************************)
LEMMA Launched ==
  ASSUME PlaceInv, SentInv, NEW w, ~Flying(w), pending' = With(pending, next_probe_id, w)
  PROVE  /\ \A x : Flying(x)' <=> Flying(x) \/ x = w
         /\ \A a, b \in DOMAIN pending' : pending'[a] = pending'[b] => a = b
<1>1. /\ DOMAIN pending' = DOMAIN pending \cup {next_probe_id} /\ pending'[next_probe_id] = w
      /\ \A y \in DOMAIN pending : y # next_probe_id => pending'[y] = pending[y]
  BY DEF With
<1>2. next_probe_id \notin DOMAIN pending
  BY NewId
<1>3. \A a, b \in DOMAIN pending : pending[a] = pending[b] => a = b
  BY DEF PlaceInv
<1> QED
  BY <1>1, <1>2, <1>3 DEF Flying

(***************************************************************************)
(* The queue after submit_host(): the host's probes, since it was empty.   *)
(***************************************************************************)
LEMMA HostQueued ==
  ASSUME RoomInv, NEW h \in Hosts, submit_host(h)
  PROVE  /\ \A x : ~Waiting(x)
         /\ \A w \in Work : Waiting(w)' <=> w.host = h
         /\ \A i, j \in DOMAIN work_queue' : work_queue'[i] = work_queue'[j] => i = j
<1>1. work_queue = <<>>
  BY DEF submit_host, Submitting, RoomInv
<1>2. /\ HostProbes(h) \in Seq(Work) /\ DOMAIN HostProbes(h) = 1..Len(Probes)
      /\ \A i \in 1..Len(Probes) : HostProbes(h)[i] = [host |-> h, type |-> Probes[i]]
  BY HostProbesFacts
<1>3. work_queue' = HostProbes(h)
  <2>1. work_queue' = work_queue \o HostProbes(h)
    BY DEF submit_host, HostProbes
  <2> QED
    BY <1>1, <1>2, <2>1, ConcatEmptySeq
<1>4. DOMAIN Probes = 1..Len(Probes) /\ \A i, j \in DOMAIN Probes : Probes[i] = Probes[j] => i = j
  BY DiscoveryAssumption
<1>5. \A x : ~Waiting(x)
  BY <1>1 DEF Waiting
<1>6. ASSUME NEW w \in Work PROVE Waiting(w)' <=> w.host = h
  <2>1. Waiting(w)' <=> \E i \in 1..Len(Probes) : [host |-> h, type |-> Probes[i]] = w
    BY <1>2, <1>3 DEF Waiting
  <2>2. \E i \in 1..Len(Probes) : Probes[i] = w.type
    BY <1>4, WorkFields DEF ProbeTypes
  <2>3. w = [host |-> w.host, type |-> w.type]
    BY WorkFields
  <2> QED
    BY <2>1, <2>2, <2>3
<1>7. ASSUME NEW i \in DOMAIN work_queue', NEW j \in DOMAIN work_queue', work_queue'[i] = work_queue'[j]
      PROVE  i = j
  <2>1. i \in 1..Len(Probes) /\ j \in 1..Len(Probes)
        /\ [host |-> h, type |-> Probes[i]] = [host |-> h, type |-> Probes[j]]
    BY <1>2, <1>3, <1>7
  <2>2. Probes[i] = Probes[j]
    BY <2>1
  <2> QED
    BY <1>4, <2>1, <2>2
<1> QED
  BY <1>5, <1>6, <1>7

(***************************************************************************)
(* What PlaceInv says of one probe.                                        *)
(***************************************************************************)
LEMMA PlacedOnce ==
  ASSUME PlaceInv, NEW w \in Work
  PROVE  /\ ~(Waiting(w) /\ Flying(w))
         /\ Unreached(w.host) => Verdict(w) = <<>> /\ ~Waiting(w) /\ ~Flying(w)
         /\ Waiting(w) \/ Flying(w) => Verdict(w) = <<>>
         /\ first_error = "Ok" /\ phase # "destroyed" =>
              Unreached(w.host) \/ Waiting(w) \/ Flying(w) \/ Verdict(w) # <<>>
BY DEF PlaceInv

(***************************************************************************)
(* A pending probe gets its verdict.                                       *)
(***************************************************************************)
LEMMA FinishPlaced ==
  ASSUME PlaceInv, SentInv, NEW id \in DOMAIN pending, NEW st \in HostState, Finish(id, st),
         UNCHANGED <<unsubmitted, work_queue, first_error, phase>>
  PROVE  /\ PlaceInv'
         /\ Verdict(sent[id]) = <<>> /\ sent[id] \in Work
         /\ \A x \in Work : Verdict(x)' = IF x = sent[id] THEN <<st>> ELSE Verdict(x)
<1> PICK w : w = pending[id]
  OBVIOUS
<1>1. pending' = Without(pending, id) /\ append_result(w, st) /\ w = sent[id]
  BY DEF Finish, SentInv
<1>2. /\ w \in Work /\ Flying(w) /\ \A x : Flying(x)' <=> Flying(x) /\ x # w
      /\ \A a, b \in DOMAIN pending' : pending'[a] = pending'[b] => a = b
  BY <1>1, Landed
<1>3. Verdict(w) = <<>> /\ ~Waiting(w) /\ ~Unreached(w.host)
  BY <1>2, PlacedOnce
<1>4. /\ results' \in [Hosts -> [ProbeTypes -> Seq(HostState)]] /\ Verdict(w)' = <<st>>
      /\ \A x \in Work : x # w => Verdict(x)' = Verdict(x)
  BY <1>1, <1>2, <1>3, Recorded DEF PlaceInv
<1>5. \A x : (Waiting(x)' <=> Waiting(x)) /\ (Unreached(x)' <=> Unreached(x))
  BY DEF Waiting, Unreached
<1>6. <<st>> # <<>>
  OBVIOUS
<1>7. ASSUME NEW x \in Work
      PROVE  /\ ~(Waiting(x)' /\ Flying(x)')
             /\ Unreached(x.host)' => Verdict(x)' = <<>> /\ ~Waiting(x)' /\ ~Flying(x)'
             /\ Waiting(x)' \/ Flying(x)' => Verdict(x)' = <<>>
             /\ first_error' = "Ok" /\ phase' # "destroyed" =>
                  Unreached(x.host)' \/ Waiting(x)' \/ Flying(x)' \/ Verdict(x)' # <<>>
  BY <1>2, <1>3, <1>4, <1>5, <1>6, PlacedOnce
<1>8. PlaceInv'
  BY <1>2, <1>4, <1>7 DEF PlaceInv
<1> QED
  BY <1>1, <1>2, <1>3, <1>4, <1>8

(***************************************************************************)
(* pump() gives up a probe it could not send or time.                      *)
(***************************************************************************)
LEMMA PumpFails ==
  ASSUME PlaceInv, RoomInv, NEW w, w = Head(work_queue), PumpRefused \/ PumpTimerFails
  PROVE  /\ PlaceInv' /\ w \in Work /\ Verdict(w) = <<>>
         /\ \A x \in Work : Verdict(x)' = IF x = w THEN <<"Unknown">> ELSE Verdict(x)
<1>1. /\ work_queue # <<>> /\ work_queue' = Tail(work_queue) /\ append_result(w, "Unknown")
      /\ UNCHANGED <<pending, phase, unsubmitted, first_error>>
  BY DEF PumpRefused, PumpTimerFails, PumpLoops, callerVars
<1>2. /\ w \in Work /\ Waiting(w) /\ \A x : Waiting(x)' <=> Waiting(x) /\ x # w
      /\ \A i, j \in DOMAIN work_queue' : work_queue'[i] = work_queue'[j] => i = j
  BY <1>1, HeadTaken
<1>3. Verdict(w) = <<>> /\ ~Flying(w) /\ ~Unreached(w.host)
  BY <1>2, PlacedOnce
<1>4. /\ results' \in [Hosts -> [ProbeTypes -> Seq(HostState)]] /\ Verdict(w)' = <<"Unknown">>
      /\ \A x \in Work : x # w => Verdict(x)' = Verdict(x)
  <2>1. "Unknown" \in HostState /\ results \in [Hosts -> [ProbeTypes -> Seq(HostState)]]
    BY DEF HostState, PlaceInv
  <2> QED
    BY <1>1, <1>2, <1>3, <2>1, Recorded
<1>5. \A x : (Flying(x)' <=> Flying(x)) /\ (Unreached(x)' <=> Unreached(x))
  BY <1>1 DEF Flying, Unreached
<1>6. <<"Unknown">> # <<>>
  OBVIOUS
<1>7. ASSUME NEW x \in Work
      PROVE  /\ ~(Waiting(x)' /\ Flying(x)')
             /\ Unreached(x.host)' => Verdict(x)' = <<>> /\ ~Waiting(x)' /\ ~Flying(x)'
             /\ Waiting(x)' \/ Flying(x)' => Verdict(x)' = <<>>
             /\ first_error' = "Ok" /\ phase' # "destroyed" =>
                  Unreached(x.host)' \/ Waiting(x)' \/ Flying(x)' \/ Verdict(x)' # <<>>
  BY <1>1, <1>2, <1>3, <1>4, <1>5, <1>6, PlacedOnce
<1>8. PlaceInv'
  BY <1>1, <1>2, <1>4, <1>7 DEF PlaceInv
<1> QED
  BY <1>2, <1>3, <1>4, <1>8

(***************************************************************************)
(* A host submit() finds invalid: its first probe has a result, the host   *)
(* is done with, and submit() will return the error.                       *)
(***************************************************************************)
LEMMA InvalidPlaced ==
  ASSUME PlaceInv, NEW h, SubmitInvalidHost(h), NEW w, w = [host |-> h, type |-> Probes[1]]
  PROVE  /\ PlaceInv' /\ w \in Work /\ Verdict(w) = <<>>
         /\ \A x \in Work : Verdict(x)' = IF x = w THEN <<"Unknown">> ELSE Verdict(x)
<1>1. /\ Submitting(h) /\ append_result(w, "Unknown") /\ Remember("InvalidArgument")
      /\ UNCHANGED <<work_queue, pending>>
  BY DEF SubmitInvalidHost, Submitting
<1>2. /\ h \in Hosts /\ Unreached(h) /\ unsubmitted' \in Seq(Hosts)
      /\ \A x : Unreached(x)' <=> Unreached(x) /\ x # h
      /\ \A i, j \in DOMAIN unsubmitted' : unsubmitted'[i] = unsubmitted'[j] => i = j
  BY <1>1, HostTaken
<1>3. w \in Work /\ w.host = h
  <2>1. Probes[1] \in ProbeTypes
    BY DiscoveryAssumption DEF ProbeTypes
  <2> QED
    BY <1>2, <2>1 DEF Work
<1>4. Verdict(w) = <<>> /\ ~Flying(w) /\ ~Waiting(w)
  BY <1>2, <1>3, PlacedOnce
<1>5. /\ results' \in [Hosts -> [ProbeTypes -> Seq(HostState)]] /\ Verdict(w)' = <<"Unknown">>
      /\ \A x \in Work : x # w => Verdict(x)' = Verdict(x)
  <2>1. "Unknown" \in HostState /\ results \in [Hosts -> [ProbeTypes -> Seq(HostState)]]
    BY DEF HostState, PlaceInv
  <2> QED
    BY <1>1, <1>3, <1>4, <2>1, Recorded
<1>6. \A x : (Flying(x)' <=> Flying(x)) /\ (Waiting(x)' <=> Waiting(x))
  BY <1>1 DEF Flying, Waiting
<1>7. first_error' # "Ok"
  BY <1>1 DEF Remember
<1>8. ASSUME NEW x \in Work
      PROVE  /\ ~(Waiting(x)' /\ Flying(x)')
             /\ Unreached(x.host)' => Verdict(x)' = <<>> /\ ~Waiting(x)' /\ ~Flying(x)'
             /\ Waiting(x)' \/ Flying(x)' => Verdict(x)' = <<>>
  BY <1>2, <1>3, <1>4, <1>5, <1>6, PlacedOnce
<1>9. PlaceInv'
  BY <1>1, <1>2, <1>5, <1>7, <1>8 DEF PlaceInv
<1> QED
  BY <1>3, <1>4, <1>5, <1>9

LEMMA NextPlace ==
  CourseInv /\ SentInv /\ RoomInv /\ PlaceInv /\ [Next]_vars => PlaceInv'
<1> SUFFICES ASSUME CourseInv, SentInv, RoomInv, PlaceInv, [Next]_vars PROVE PlaceInv'
  OBVIOUS
<1>1. ASSUME UNCHANGED <<unsubmitted, results, work_queue, pending, first_error>>,
             phase = "destroyed" => phase' = "destroyed"
      PROVE  PlaceInv'
  <2>1. \A x : /\ Waiting(x)' <=> Waiting(x)
               /\ Flying(x)' <=> Flying(x)
               /\ Unreached(x)' <=> Unreached(x)
    BY <1>1 DEF Waiting, Flying, Unreached
  <2>2. \A x : Verdict(x)' = Verdict(x)
    BY <1>1 DEF Verdict
  <2> QED
    BY <1>1, <2>1, <2>2 DEF PlaceInv
<1>2. CASE Submit
  <2>1. ASSUME NEW h, SubmitInvalidHost(h) PROVE PlaceInv'
    BY <2>1, InvalidPlaced
  <2>2. ASSUME NEW h, SubmitTooMany(h) PROVE PlaceInv'
    <3>1. /\ Submitting(h) /\ Remember("IoError")
          /\ UNCHANGED <<work_queue, pending, results>>
      BY <2>2 DEF SubmitTooMany, Submitting
    <3>2. /\ unsubmitted' \in Seq(Hosts) /\ \A x : Unreached(x)' <=> Unreached(x) /\ x # h
          /\ \A i, j \in DOMAIN unsubmitted' : unsubmitted'[i] = unsubmitted'[j] => i = j
      BY <3>1, HostTaken
    <3>3. /\ \A x : (Flying(x)' <=> Flying(x)) /\ (Waiting(x)' <=> Waiting(x))
          /\ \A x : Verdict(x)' = Verdict(x)
      BY <3>1 DEF Flying, Waiting, Verdict
    <3>4. first_error' # "Ok"
      BY <3>1 DEF Remember
    <3>5. ASSUME NEW x \in Work
          PROVE  /\ ~(Waiting(x)' /\ Flying(x)')
                 /\ Unreached(x.host)' => Verdict(x)' = <<>> /\ ~Waiting(x)' /\ ~Flying(x)'
                 /\ Waiting(x)' \/ Flying(x)' => Verdict(x)' = <<>>
      BY <3>2, <3>3, PlacedOnce
    <3> QED
      BY <3>1, <3>2, <3>4, <3>5 DEF PlaceInv
  <2>3. ASSUME NEW h, submit_host(h) PROVE PlaceInv'
    <3>1. /\ Submitting(h) /\ UNCHANGED <<pending, results, first_error, phase>>
      BY <2>3 DEF submit_host, Submitting
    <3>2. /\ h \in Hosts /\ Unreached(h)
          /\ unsubmitted' \in Seq(Hosts) /\ \A x : Unreached(x)' <=> Unreached(x) /\ x # h
          /\ \A i, j \in DOMAIN unsubmitted' : unsubmitted'[i] = unsubmitted'[j] => i = j
      BY <3>1, HostTaken
    <3>3. /\ \A x : ~Waiting(x)
          /\ \A w \in Work : Waiting(w)' <=> w.host = h
          /\ \A i, j \in DOMAIN work_queue' : work_queue'[i] = work_queue'[j] => i = j
      BY <2>3, <3>2, HostQueued
    <3>4. /\ \A x : Flying(x)' <=> Flying(x)
          /\ \A x : Verdict(x)' = Verdict(x)
      BY <3>1 DEF Flying, Verdict
    <3>5. ASSUME NEW x \in Work
          PROVE  /\ ~(Waiting(x)' /\ Flying(x)')
                 /\ Unreached(x.host)' => Verdict(x)' = <<>> /\ ~Waiting(x)' /\ ~Flying(x)'
                 /\ Waiting(x)' \/ Flying(x)' => Verdict(x)' = <<>>
                 /\ first_error' = "Ok" /\ phase' # "destroyed" =>
                      Unreached(x.host)' \/ Waiting(x)' \/ Flying(x)' \/ Verdict(x)' # <<>>
      BY <3>1, <3>2, <3>3, <3>4, PlacedOnce
    <3> QED
      BY <3>1, <3>2, <3>3, <3>5 DEF PlaceInv
  <2>4. CASE SubmitReturns
    BY <1>1, <2>4 DEF SubmitReturns, schedulerVars
  <2> QED
    BY <1>2, <2>1, <2>2, <2>3, <2>4 DEF Submit
<1>3. CASE Pump
  <2>1. CASE PumpReturns
    BY <1>1, <2>1 DEF PumpReturns, callerVars
  <2>2. CASE PumpRefused \/ PumpTimerFails
    <3> PICK w : w = Head(work_queue)
      OBVIOUS
    <3> QED
      BY <2>2, PumpFails
  <2>3. CASE PumpSubmits
    <3> PICK w : w = Head(work_queue)
      OBVIOUS
    <3>1. /\ work_queue # <<>> /\ work_queue' = Tail(work_queue)
          /\ pending' = With(pending, next_probe_id, w)
          /\ UNCHANGED <<results, phase, unsubmitted, first_error>>
      BY <2>3 DEF PumpSubmits, PumpLoops, callerVars
    <3>2. /\ w \in Work /\ Waiting(w) /\ \A x : Waiting(x)' <=> Waiting(x) /\ x # w
          /\ \A i, j \in DOMAIN work_queue' : work_queue'[i] = work_queue'[j] => i = j
      BY <3>1, HeadTaken
    <3>3. ~Flying(w) /\ ~Unreached(w.host) /\ Verdict(w) = <<>>
      BY <3>2, PlacedOnce
    <3>4. /\ \A x : Flying(x)' <=> Flying(x) \/ x = w
          /\ \A a, b \in DOMAIN pending' : pending'[a] = pending'[b] => a = b
      BY <3>1, <3>3, Launched
    <3>5. /\ \A x : Unreached(x)' <=> Unreached(x)
          /\ \A x : Verdict(x)' = Verdict(x)
      BY <3>1 DEF Unreached, Verdict
    <3>6. ASSUME NEW x \in Work
          PROVE  /\ ~(Waiting(x)' /\ Flying(x)')
                 /\ Unreached(x.host)' => Verdict(x)' = <<>> /\ ~Waiting(x)' /\ ~Flying(x)'
                 /\ Waiting(x)' \/ Flying(x)' => Verdict(x)' = <<>>
                 /\ first_error' = "Ok" /\ phase' # "destroyed" =>
                      Unreached(x.host)' \/ Waiting(x)' \/ Flying(x)' \/ Verdict(x)' # <<>>
      BY <3>1, <3>2, <3>3, <3>4, <3>5, PlacedOnce
    <3> QED
      BY <3>1, <3>2, <3>4, <3>6 DEF PlaceInv
  <2> QED
    BY <1>3, <2>1, <2>2, <2>3 DEF Pump
<1>4. CASE Run \/ RunReturns \/ EngineFails
  BY <1>1, <1>4 DEF Run, RunReturns, EngineFails, schedulerVars
<1>5. ASSUME NEW id, expire(id) PROVE PlaceInv'
  BY <1>5, FinishPlaced DEF expire, callerVars, HostState
<1>6. CASE Network
  <2>1. ASSUME NEW id, NEW k, Respond(id, k) PROVE PlaceInv'
    <3>1. UNCHANGED <<unsubmitted, work_queue, first_error, phase>>
      BY <2>1 DEF Respond, callerVars
    <3>2. CASE UNCHANGED <<pending, pumping, results, timers>>
      BY <1>1, <3>1, <3>2
    <3>3. CASE id \in DOMAIN pending /\ \E st \in HostState : Finish(id, st)
      BY <3>1, <3>3, FinishPlaced
    <3> QED
      BY <2>1, <3>2, <3>3 DEF Respond, receive, HostState
  <2>2. ASSUME NEW id, NEW ok, NeighborAnswers(id, ok) PROVE PlaceInv'
    BY <1>1, <2>2 DEF NeighborAnswers, callerVars, schedulerVars
  <2>3. ASSUME NEW id, NeighborTimesOut(id) PROVE PlaceInv'
    BY <1>1, <2>3 DEF NeighborTimesOut, callerVars, schedulerVars
  <2>4. CASE NeighborAges
    BY <1>1, <2>4 DEF NeighborAges, callerVars, schedulerVars
  <2> QED
    BY <1>6, <2>1, <2>2, <2>3, <2>4 DEF Network
<1>7. CASE Destroy
  <2>1. /\ phase' = "destroyed" /\ pending' = EmptyMap /\ work_queue' = <<>>
        /\ UNCHANGED <<unsubmitted, results>>
    BY <1>7 DEF Destroy
  <2>2. /\ \A x : ~Waiting(x)' /\ ~Flying(x)'
        /\ \A x : Unreached(x)' <=> Unreached(x)
        /\ \A x : Verdict(x)' = Verdict(x)
    BY <2>1, EmptyMapFacts DEF Waiting, Flying, Unreached, Verdict
  <2> QED
    BY <2>1, <2>2, EmptyMapFacts DEF PlaceInv
<1>8. CASE Terminated \/ UNCHANGED vars
  BY <1>1, <1>8 DEF Terminated, vars, callerVars, schedulerVars
<1> QED
  BY <1>2, <1>3, <1>4, <1>5, <1>6, <1>7, <1>8 DEF Next, Deadline

-----------------------------------------------------------------------------
(* What each verdict says.                                                 *)

LEMMA OneElement == \A a, b : (<<a>> = <<b>> <=> a = b) /\ <<a>> # <<>>
<1> TAKE a, b
<1>1. <<a>>[1] = a /\ <<b>>[1] = b
  OBVIOUS
<1>2. Len(<<a>>) = 1 /\ Len(<<>>) = 0
  OBVIOUS
<1> QED
  BY <1>1, <1>2

(***************************************************************************)
(* A verdict other than "Up" on a probe that had none.                     *)
(***************************************************************************)
LEMMA JudgedDown ==
  ASSUME VerdictInv, NEW w \in Work, NEW st \in HostState, st # "Up", Verdict(w) = <<>>,
         \A x \in Work : Verdict(x)' = IF x = w THEN <<st>> ELSE Verdict(x),
         answered' = answered, \A id \in answered : sent'[id] = sent[id]
  PROVE  VerdictInv'
<1>1. ASSUME NEW x \in Work
      PROVE  /\ Verdict(x)' = <<>> \/ \E s \in HostState : Verdict(x)' = <<s>>
             /\ Verdict(x)' = <<"Up">> <=> \E id \in answered' : sent'[id] = x
  <2>1. /\ Verdict(x) = <<>> \/ \E s \in HostState : Verdict(x) = <<s>>
        /\ Verdict(x) = <<"Up">> <=> \E id \in answered : sent[id] = x
    BY DEF VerdictInv
  <2>2. (\E id \in answered : sent[id] = x) <=> \E id \in answered' : sent'[id] = x
    OBVIOUS
  <2>3. Verdict(x)' = <<"Up">> <=> Verdict(x) = <<"Up">>
    BY OneElement
  <2> QED
    BY <2>1, <2>2, <2>3
<1> QED
  BY <1>1 DEF VerdictInv

LEMMA NextVerdict ==
  SentInv /\ TimersInv /\ RoomInv /\ PlaceInv /\ VerdictInv /\ [Next]_vars => VerdictInv'
<1> SUFFICES ASSUME SentInv, TimersInv, RoomInv, PlaceInv, VerdictInv, [Next]_vars
             PROVE  VerdictInv'
  OBVIOUS
<1>1. ASSUME UNCHANGED <<results, answered>>, \A id \in answered : sent'[id] = sent[id]
      PROVE  VerdictInv'
  <2>1. \A x : Verdict(x)' = Verdict(x)
    BY <1>1 DEF Verdict
  <2>2. \A x : (\E id \in answered : sent[id] = x) <=> \E id \in answered' : sent'[id] = x
    BY <1>1
  <2> QED
    BY <2>1, <2>2 DEF VerdictInv
<1>2. ASSUME NEW work, sent' = With(sent, next_probe_id, work)
      PROVE  \A id \in answered : sent'[id] = sent[id]
  BY <1>2, NewId DEF With, SentInv
<1>3. "Unknown" \in HostState /\ "Unreachable" \in HostState /\ "Up" \in HostState
  BY DEF HostState
<1>4. CASE Submit
  <2>1. ASSUME NEW h, SubmitInvalidHost(h) PROVE VerdictInv'
    <3> PICK w : w = [host |-> h, type |-> Probes[1]]
      OBVIOUS
    <3>1. /\ w \in Work /\ Verdict(w) = <<>>
          /\ \A x \in Work : Verdict(x)' = IF x = w THEN <<"Unknown">> ELSE Verdict(x)
      BY <2>1, InvalidPlaced
    <3>2. UNCHANGED <<answered, sent>>
      BY <2>1 DEF SubmitInvalidHost, Submitting
    <3> QED
      BY <1>3, <3>1, <3>2, JudgedDown
  <2>2. ASSUME NEW h, SubmitTooMany(h) \/ submit_host(h) PROVE VerdictInv'
    BY <1>1, <2>2 DEF SubmitTooMany, submit_host, Submitting
  <2>3. CASE SubmitReturns
    BY <1>1, <2>3 DEF SubmitReturns, schedulerVars
  <2> QED
    BY <1>4, <2>1, <2>2, <2>3 DEF Submit
<1>5. CASE Pump
  <2>1. CASE PumpReturns
    BY <1>1, <2>1 DEF PumpReturns
  <2>2. CASE PumpSubmits
    BY <1>1, <1>2, <2>2 DEF PumpSubmits, Transmit
  <2>3. CASE PumpRefused \/ PumpTimerFails
    <3> PICK w : w = Head(work_queue)
      OBVIOUS
    <3>1. /\ w \in Work /\ Verdict(w) = <<>>
          /\ \A x \in Work : Verdict(x)' = IF x = w THEN <<"Unknown">> ELSE Verdict(x)
      BY <2>3, PumpFails
    <3>2. answered' = answered /\ \A id \in answered : sent'[id] = sent[id]
      BY <1>2, <2>3 DEF PumpRefused, PumpTimerFails, Transmit
    <3> QED
      BY <1>3, <3>1, <3>2, JudgedDown
  <2> QED
    BY <1>5, <2>1, <2>2, <2>3 DEF Pump
<1>6. CASE Run \/ RunReturns \/ EngineFails
  BY <1>1, <1>6 DEF Run, RunReturns, EngineFails, schedulerVars
<1>7. ASSUME NEW id \in DOMAIN pending, NEW st \in HostState, st # "Up", Finish(id, st),
             UNCHANGED <<unsubmitted, work_queue, first_error, phase, sent, answered>>
      PROVE  VerdictInv'
  <2> PICK w : w = sent[id]
    OBVIOUS
  <2>1. /\ w \in Work /\ Verdict(w) = <<>>
        /\ \A x \in Work : Verdict(x)' = IF x = w THEN <<st>> ELSE Verdict(x)
    BY <1>7, FinishPlaced DEF Verdict
  <2> QED
    BY <1>7, <2>1, JudgedDown
<1>8. ASSUME NEW id, expire(id) PROVE VerdictInv'
  <2>1. /\ id \in DOMAIN pending /\ Finish(id, "Unknown")
        /\ UNCHANGED <<unsubmitted, work_queue, first_error, phase, sent, answered>>
    BY <1>8 DEF expire, callerVars
  <2> QED
    BY <1>3, <1>7, <2>1
<1>9. ASSUME NEW id, NEW k, Respond(id, k) PROVE VerdictInv'
  <2>1. /\ receive(id, k) /\ UNCHANGED <<unsubmitted, work_queue, first_error, phase, sent>>
        /\ answered' = IF k = "Matching" /\ Expire(id) \in timers THEN answered \cup {id} ELSE answered
    BY <1>9 DEF Respond, callerVars
  <2>2. Expire(id) \in timers <=> id \in DOMAIN pending
    BY TimerNames DEF TimersInv
  <2>3. CASE (id \notin DOMAIN pending \/ k = "Unrelated") /\ UNCHANGED results
    BY <1>1, <2>1, <2>2, <2>3
  <2>4. CASE id \in DOMAIN pending /\ k # "Matching"
                /\ (Finish(id, "Unreachable") \/ Finish(id, "Unknown"))
    BY <1>3, <1>7, <2>1, <2>4
  <2>5. CASE id \in DOMAIN pending /\ k = "Matching" /\ Finish(id, "Up")
    <3> PICK w : w = sent[id]
      OBVIOUS
    <3>1. /\ w \in Work /\ Verdict(w) = <<>>
          /\ \A x \in Work : Verdict(x)' = IF x = w THEN <<"Up">> ELSE Verdict(x)
      BY <1>3, <2>1, <2>5, FinishPlaced DEF Verdict
    <3>2. answered' = answered \cup {id} /\ sent' = sent
      BY <2>1, <2>2, <2>5
    <3>3. ASSUME NEW x \in Work
          PROVE  /\ Verdict(x)' = <<>> \/ \E s \in HostState : Verdict(x)' = <<s>>
                 /\ Verdict(x)' = <<"Up">> <=> \E i \in answered' : sent'[i] = x
      <4>1. /\ Verdict(x) = <<>> \/ \E s \in HostState : Verdict(x) = <<s>>
            /\ Verdict(x) = <<"Up">> <=> \E i \in answered : sent[i] = x
        BY DEF VerdictInv
      <4>2. CASE x = w
        <5>1. Verdict(x)' = <<"Up">>
          BY <3>1, <4>2
        <5>2. id \in answered' /\ sent'[id] = x
          BY <3>2, <4>2
        <5> QED
          BY <1>3, <5>1, <5>2
      <4>3. CASE x # w
        <5>1. (\E i \in answered' : sent'[i] = x) <=> \E i \in answered : sent[i] = x
          BY <3>2, <4>3
        <5>2. Verdict(x)' = Verdict(x)
          BY <3>1, <4>3
        <5> QED
          BY <4>1, <5>1, <5>2
      <4> QED
        BY <4>2, <4>3
    <3> QED
      BY <3>3 DEF VerdictInv
  <2> QED
    BY <2>1, <2>3, <2>4, <2>5 DEF receive
<1>10. CASE Network
  BY <1>1, <1>9, <1>10 DEF Network, NeighborAnswers, NeighborTimesOut, NeighborAges, schedulerVars
<1>11. CASE Destroy
  BY <1>1, <1>11 DEF Destroy
<1>12. CASE Terminated \/ UNCHANGED vars
  BY <1>1, <1>12 DEF Terminated, vars, schedulerVars
<1> QED
  BY <1>4, <1>5, <1>6, <1>8, <1>10, <1>11, <1>12 DEF Next, Deadline

LEMMA NextStatus == StatusInv /\ [Next]_vars => StatusInv'
<1> SUFFICES ASSUME StatusInv, [Next]_vars PROVE StatusInv'
  OBVIOUS
<1>1. ASSUME UNCHANGED <<first_error, run_status, stopped>> PROVE StatusInv'
  BY <1>1 DEF StatusInv
<1>2. CASE Submit
  <2>1. ASSUME NEW h, SubmitInvalidHost(h) \/ SubmitTooMany(h) PROVE StatusInv'
    <3>1. Remember("InvalidArgument") \/ Remember("IoError")
      BY <2>1 DEF SubmitInvalidHost, SubmitTooMany
    <3>2. UNCHANGED <<run_status, stopped>>
      BY <2>1 DEF SubmitInvalidHost, SubmitTooMany, Submitting
    <3> QED
      BY <3>1, <3>2 DEF Remember, StatusInv
  <2>2. ASSUME NEW h, submit_host(h) PROVE StatusInv'
    BY <1>1, <2>2 DEF submit_host, Submitting
  <2>3. CASE SubmitReturns
    BY <1>1, <2>3 DEF SubmitReturns
  <2> QED
    BY <1>2, <2>1, <2>2, <2>3 DEF Submit
<1>3. CASE Pump
  <2>1. CASE PumpReturns
    <3>1. stopped' \in BOOLEAN
      BY <2>1 DEF PumpReturns
    <3>2. UNCHANGED <<first_error, run_status>>
      BY <2>1 DEF PumpReturns, callerVars
    <3> QED
      BY <3>1, <3>2 DEF StatusInv
  <2>2. CASE PumpSubmits \/ PumpRefused \/ PumpTimerFails
    BY <1>1, <2>2 DEF PumpSubmits, PumpRefused, PumpTimerFails, callerVars
  <2> QED
    BY <1>3, <2>1, <2>2 DEF Pump
<1>4. CASE Run \/ RunReturns \/ EngineFails
  BY <1>4 DEF Run, RunReturns, EngineFails, StatusInv
<1>5. CASE Deadline
  BY <1>1, <1>5 DEF Deadline, expire, callerVars
<1>6. CASE Network
  BY <1>1, <1>6 DEF Network, Respond, NeighborAnswers, NeighborTimesOut, NeighborAges, callerVars
<1>7. CASE Destroy
  BY <1>1, <1>7 DEF Destroy
<1>8. CASE Terminated \/ UNCHANGED vars
  BY <1>1, <1>8 DEF Terminated, vars, callerVars
<1> QED
  BY <1>2, <1>3, <1>4, <1>5, <1>6, <1>7, <1>8 DEF Next

-----------------------------------------------------------------------------
(* The theorems.                                                           *)

LEMMA InitDiscovery == Init => DiscoveryInv
<1> SUFFICES ASSUME Init PROVE DiscoveryInv
  OBVIOUS
<1>1. DOMAIN EmptyMap = {} /\ \A S : EmptyMap \in [DOMAIN EmptyMap -> S]
  BY EmptyMapFacts
<1>2. Cardinality({}) = 0 /\ MaxOutstanding \in Nat /\ CacheLimit \in Nat
  BY FS_EmptySet, DiscoveryAssumption
<1>3. CourseInv /\ StatusInv
  BY DEF Init, CourseInv, StatusInv
<1>4. SentInv /\ TimersInv
  BY <1>1 DEF Init, SentInv, TimersInv
<1>5. RoomInv
  <2>1. work_queue = <<>> /\ DOMAIN pending = {}
    BY <1>1 DEF Init
  <2>2. work_queue \in Seq(Work) /\ Len(work_queue) = 0
    BY <2>1
  <2> QED
    BY <1>2, <2>1, <2>2 DEF RoomInv
<1>6. CacheInv
  BY <1>1, <1>2 DEF Init, CacheInv
<1>7. \A w \in Work : Verdict(w) = <<>>
  BY WorkFields DEF Init, Verdict
<1>8. \A x : ~Waiting(x) /\ ~Flying(x)
  BY <1>1 DEF Init, Waiting, Flying
<1>9. \A h \in Hosts : Unreached(h)
  BY DEF Init, Unreached, Hosts
<1>10. PlaceInv
  <2>1. unsubmitted \in Seq(Hosts) /\ \A i, j \in DOMAIN unsubmitted : unsubmitted[i] = unsubmitted[j] => i = j
    BY DiscoveryAssumption DEF Init
  <2>2. <<>> \in Seq(HostState)
    OBVIOUS
  <2>3. results \in [Hosts -> [ProbeTypes -> Seq(HostState)]]
    BY <2>2 DEF Init
  <2>4. DOMAIN work_queue = {} /\ DOMAIN pending = {}
    BY <1>1 DEF Init
  <2>5. \A w \in Work : Unreached(w.host)
    BY <1>9, WorkFields
  <2> QED
    BY <1>7, <1>8, <2>1, <2>3, <2>4, <2>5 DEF PlaceInv
<1>11. VerdictInv
  <2>1. answered = {}
    BY DEF Init
  <2> QED
    BY <1>7, <2>1, OneElement DEF VerdictInv
<1> QED
  BY <1>3, <1>4, <1>5, <1>6, <1>10, <1>11 DEF DiscoveryInv

(***************************************************************************)
(* The inductive invariant of host discovery.                              *)
(***************************************************************************)
LEMMA DiscoveryInvariant == Spec => []DiscoveryInv
<1>1. DiscoveryInv /\ [Next]_vars => DiscoveryInv'
  BY NextCourse, NextSent, NextTimers, NextRoom, NextCache, NextPlace, NextVerdict, NextStatus
     DEF DiscoveryInv
<1> QED
  BY <1>1, InitDiscovery, PTL DEF Spec

(***************************************************************************)
(* Scheduler, reactor and transport agree in every reachable state:        *)
(* deadlines and solicitation timers belong to probes the two tables still *)
(* hold, what is queued or out never exceeds max_outstanding, pump()       *)
(* leaves no probe queued, and remember_neighbor() keeps its bound.        *)
(***************************************************************************)
THEOREM DiscoveryTablesAgree == Spec => []TablesAgree
<1>1. DiscoveryInv => TablesAgree
  BY DEF DiscoveryInv, TimersInv, RoomInv, CacheInv, TablesAgree
<1> QED
  BY <1>1, DiscoveryInvariant, PTL

(***************************************************************************)
(* Each probe has at most one result, none while it is queued or out, one  *)
(* when run() has returned Ok, and it is "Up" exactly when receive() got a *)
(* matching response before the deadline, whatever arrives late, twice, or *)
(* while the reactor serves a later stage.                                 *)
(***************************************************************************)
THEOREM DiscoveryOneVerdict == Spec => []OneVerdict
<1>1. ASSUME DiscoveryInv PROVE TypeOK
  <2>1. DOMAIN pending \subseteq 1..(next_probe_id - 1)
    BY <1>1 DEF DiscoveryInv, SentInv
  <2> QED
    BY <1>1, <2>1 DEF DiscoveryInv, CourseInv, SentInv, RoomInv, CacheInv, PlaceInv, StatusInv, TypeOK
<1>2. ASSUME DiscoveryInv, NEW h \in Hosts, NEW t \in ProbeTypes
      PROVE  /\ Len(results[h][t]) <= 1
             /\ Queued(h, t) \/ Out(h, t) => results[h][t] = <<>>
             /\ phase = "returned" /\ run_status = "Ok" => results[h][t] # <<>>
             /\ (\E i \in DOMAIN results[h][t] : results[h][t][i] = "Up")
                  <=> \E id \in answered : sent[id] = [host |-> h, type |-> t]
  <2> PICK w : w = [host |-> h, type |-> t]
    OBVIOUS
  <2>1. w \in Work /\ w.host = h /\ w.type = t /\ Verdict(w) = results[h][t]
    BY DEF Work, Verdict
  <2>2. /\ Verdict(w) = <<>> \/ \E st \in HostState : Verdict(w) = <<st>>
        /\ Verdict(w) = <<"Up">> <=> \E id \in answered : sent[id] = w
    BY <1>2, <2>1 DEF DiscoveryInv, VerdictInv
  <2>3. Len(results[h][t]) <= 1
    <3>1. Len(<<>>) = 0 /\ \A st \in HostState : Len(<<st>>) = 1
      OBVIOUS
    <3>2. Len(Verdict(w)) = 0 \/ Len(Verdict(w)) = 1
      BY <2>2, <3>1
    <3>3. Len(results[h][t]) = Len(Verdict(w))
      BY <2>1
    <3>4. \A n : n = 0 \/ n = 1 => n <= 1
      OBVIOUS
    <3> QED
      BY <3>2, <3>3, <3>4, Zenon
  <2>4. Queued(h, t) \/ Out(h, t) => results[h][t] = <<>>
    <3>1. (Queued(h, t) <=> Waiting(w)) /\ (Out(h, t) <=> Flying(w))
      BY DEF Queued, Waiting, Out, Flying
    <3> QED
      BY <1>2, <2>1, <3>1, PlacedOnce DEF DiscoveryInv
  <2>5. ASSUME phase = "returned", run_status = "Ok" PROVE results[h][t] # <<>>
    <3>1. complete /\ unsubmitted = <<>> /\ first_error = "Ok"
      BY <1>2, <2>5 DEF DiscoveryInv, CourseInv
    <3>2. ~Waiting(w) /\ ~Flying(w) /\ ~Unreached(w.host)
      BY <3>1 DEF complete, Waiting, Flying, Unreached
    <3> QED
      BY <1>2, <2>1, <2>5, <3>1, <3>2, PlacedOnce DEF DiscoveryInv
  <2>6. (\E i \in DOMAIN results[h][t] : results[h][t][i] = "Up") <=> Verdict(w) = <<"Up">>
    <3>1. CASE Verdict(w) = <<>>
      BY <2>1, <3>1, OneElement
    <3>2. ASSUME NEW st \in HostState, Verdict(w) = <<st>>
          PROVE  (\E i \in DOMAIN Verdict(w) : Verdict(w)[i] = "Up") <=> Verdict(w) = <<"Up">>
      <4>1. DOMAIN Verdict(w) = {1} /\ Verdict(w)[1] = st
        BY <3>2
      <4>2. Verdict(w) = <<"Up">> <=> st = "Up"
        BY <3>2, OneElement
      <4> QED
        BY <4>1, <4>2
    <3> QED
      BY <2>1, <2>2, <3>1, <3>2
  <2> QED
    BY <2>2, <2>3, <2>4, <2>5, <2>6
<1>3. DiscoveryInv => OneVerdict
  BY <1>1, <1>2 DEF OneVerdict
<1> QED
  BY <1>3, DiscoveryInvariant, PTL

=============================================================================
