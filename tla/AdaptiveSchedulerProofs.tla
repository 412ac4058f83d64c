---------------------- MODULE AdaptiveSchedulerProofs ----------------------
(***************************************************************************)
(* Invariance proofs for AdaptiveScheduler, for every set of items, every  *)
(* profile and every way pump(), the reactor and the transport can fail.   *)
(***************************************************************************)
EXTENDS AdaptiveScheduler, FiniteSetTheorems, SequenceTheorems, WellFoundedInduction, TLAPS

-----------------------------------------------------------------------------
(* The congestion controller never leaves its configured range.            *)

(***************************************************************************)
(* clamp_parallelism() brings every integer into the configured range.     *)
(***************************************************************************)
LEMMA ClampInRange ==
  ASSUME NEW n \in Int
  PROVE  clamp_parallelism(n) \in MinParallelism..MaxParallelism
BY CongestionAssumption DEF clamp_parallelism

(***************************************************************************)
(* The truncated product with the backoff factor is an integer, at least 1.*)
(***************************************************************************)
LEMMA ScaledIsPositive ==
  ASSUME NEW n \in Nat
  PROVE  Scaled(n) \in Nat \ {0}
<1>1. n * BackoffNum \in Nat
  BY CongestionAssumption
<1>2. BackoffDen \in Nat \ {0}
  BY CongestionAssumption
<1>3. (n * BackoffNum) \div BackoffDen \in Int
  BY <1>1, <1>2
<1> QED
  BY <1>3 DEF Scaled

(***************************************************************************)
(* The controller is constructed in its range.                             *)
(***************************************************************************)
LEMMA InitialCongestionType == InitialCongestion \in CongestionState
<1>1. clamp_parallelism(InitialParallelism) \in MinParallelism..MaxParallelism
  BY ClampInRange, CongestionAssumption
<1> QED
  BY <1>1, CongestionAssumption DEF InitialCongestion, CongestionState

(***************************************************************************)
(* A response keeps the window and both streaks in range: the window never *)
(* grows past max_parallelism, and a streak that reaches its threshold is  *)
(* restarted.                                                              *)
(***************************************************************************)
LEMMA ResponseKeepsRange ==
  ASSUME NEW c \in CongestionState
  PROVE  on_response(c) \in CongestionState
<1> DEFINE recovered == c.consecutive_successes + 1 >= RecoveryThreshold
           widened == IF recovered /\ c.current_parallelism < MaxParallelism
                        THEN c.current_parallelism + 1 ELSE c.current_parallelism
<1>1. widened \in Int
  BY CongestionAssumption DEF CongestionState
<1>2. clamp_parallelism(widened) \in MinParallelism..MaxParallelism
  BY <1>1, ClampInRange
<1>3. (IF recovered THEN 0 ELSE c.consecutive_successes + 1) \in 0..(RecoveryThreshold - 1)
  BY CongestionAssumption DEF CongestionState
<1>4. 0 \in 0..(TimeoutThreshold - 1)
  BY CongestionAssumption
<1> HIDE DEF recovered, widened
<1> QED
  BY <1>2, <1>3, <1>4 DEF on_response, CongestionState, recovered, widened

(***************************************************************************)
(* A timeout keeps the window and both streaks in range: backing off never *)
(* leaves a window of zero, in which no probe could ever be sent again.    *)
(***************************************************************************)
LEMMA TimeoutKeepsRange ==
  ASSUME NEW c \in CongestionState
  PROVE  on_timeout(c) \in CongestionState
<1> DEFINE exhausted == c.consecutive_timeouts + 1 >= TimeoutThreshold
           next == Scaled(c.current_parallelism)
           narrowed == IF exhausted
                         THEN IF next < MinParallelism THEN MinParallelism ELSE next
                         ELSE c.current_parallelism
<1>1. c.current_parallelism \in Nat
  BY CongestionAssumption DEF CongestionState
<1>2. next \in Nat \ {0}
  BY <1>1, ScaledIsPositive
<1> HIDE DEF next
<1>3. narrowed \in Int
  BY <1>1, <1>2, CongestionAssumption
<1>4. clamp_parallelism(narrowed) \in MinParallelism..MaxParallelism
  BY <1>3, ClampInRange
<1>5. (IF exhausted THEN 0 ELSE c.consecutive_timeouts + 1) \in 0..(TimeoutThreshold - 1)
  BY CongestionAssumption DEF CongestionState
<1>6. 0 \in 0..(RecoveryThreshold - 1)
  BY CongestionAssumption
<1> HIDE DEF exhausted, narrowed
<1> QED
  BY <1>4, <1>5, <1>6 DEF on_timeout, CongestionState, exhausted, narrowed, next

-----------------------------------------------------------------------------
(* The inductive invariant.                                                *)

(***************************************************************************)
(* An id is in the queue once, while its item waits; a cancelled id stays  *)
(* there until next_queued() throws it away.                               *)
(***************************************************************************)
QueueExact ==
  /\ \A m, n \in DOMAIN queue : queue[m] = queue[n] => m = n
  /\ \A n \in DOMAIN queue : state[queue[n]] \in {"Queued", "Cancelled"}
  /\ \A i \in Items : state[i] = "Queued" => \E n \in DOMAIN queue : queue[n] = i

(***************************************************************************)
(* What the group, the scheduler and the transport know of an item.        *)
(***************************************************************************)
ViewsAgree ==
  \A i \in Items : /\ state[i] = "Submitted" <=> i \in DOMAIN pending
                   /\ i \in callbacks <=> i \in DOMAIN pending
                   /\ i \in completed => state[i] \in {"Completed", "Failed"}

TimersExact ==
  ~timeout_reported =>
    /\ \A t \in DOMAIN timers : timers[t] \in DOMAIN pending /\ pending[timers[t]] = t
    /\ \A i \in DOMAIN pending : pending[i] \in DOMAIN timers /\ timers[pending[i]] = i

(***************************************************************************)
(* Nothing is submitted once the scheduler is shut down.                   *)
(***************************************************************************)
StoppedIdle == stopped => DOMAIN pending = {}

AdaptiveInv == TypeOK /\ QueueExact /\ ViewsAgree /\ TimersExact

-----------------------------------------------------------------------------
(* The operators of the model.                                             *)

(***************************************************************************)
(* Appending an id to the queue.                                           *)
(***************************************************************************)
LEMMA AppendFacts ==
  ASSUME NEW S, NEW q \in Seq(S), NEW e \in S
  PROVE  /\ Append(q, e) \in Seq(S) /\ Len(q) \in Nat /\ DOMAIN q = 1..Len(q)
         /\ DOMAIN Append(q, e) = 1..(Len(q) + 1) /\ Append(q, e)[Len(q) + 1] = e
         /\ \A i \in 1..Len(q) : Append(q, e)[i] = q[i]
BY AppendProperties, SMT

(***************************************************************************)
(* Dropping the first n ids of the queue.                                  *)
(***************************************************************************)
LEMMA DropFacts ==
  ASSUME NEW S, NEW q \in Seq(S), NEW n \in DOMAIN q
  PROVE  LET r == SubSeq(q, n + 1, Len(q)) IN
         /\ r \in Seq(S) /\ Len(q) \in Nat /\ DOMAIN q = 1..Len(q) /\ n \in 1..Len(q)
         /\ DOMAIN r = 1..(Len(q) - n)
         /\ \A i \in 1..(Len(q) - n) : r[i] = q[n + i]
<1> DEFINE r == SubSeq(q, n + 1, Len(q))
<1>1. Len(q) \in Nat /\ DOMAIN q = 1..Len(q) /\ n \in 1..Len(q)
  OBVIOUS
<1>2. r \in Seq(S)
  BY <1>1, SubSeqProperties
<1>3. Len(r) = Len(q) - n
  BY <1>1
<1>4. DOMAIN r = 1..(Len(q) - n)
  BY <1>2, <1>3
<1>5. \A i \in 1..(Len(q) - n) : r[i] = q[n + i]
  BY <1>1
<1> QED
  BY <1>1, <1>2, <1>4, <1>5

(***************************************************************************)
(* Inserting into a map and erasing from it.                               *)
(***************************************************************************)
LEMMA WithMap ==
  ASSUME NEW f, NEW x, NEW v
  PROVE  /\ DOMAIN With(f, x, v) = DOMAIN f \cup {x} /\ With(f, x, v)[x] = v
         /\ \A y \in DOMAIN f \ {x} : With(f, x, v)[y] = f[y]
         /\ With(f, x, v) = [y \in DOMAIN With(f, x, v) |-> With(f, x, v)[y]]
BY DEF With

LEMMA WithoutMap ==
  ASSUME NEW f, NEW x
  PROVE  /\ DOMAIN Without(f, x) = DOMAIN f \ {x}
         /\ \A y \in DOMAIN f \ {x} : Without(f, x)[y] = f[y]
         /\ Without(f, x) = [y \in DOMAIN Without(f, x) |-> Without(f, x)[y]]
BY DEF Without

(***************************************************************************)
(* next_queued() finds an item whenever one is queued.                     *)
(***************************************************************************)
LEMMA NextQueued ==
  ASSUME queue \in Seq(Items), NEW n \in DOMAIN queue, state[queue[n]] = "Queued"
  PROVE  \E m \in DOMAIN queue : QueuedAt(m)
<1> DEFINE T == {m \in DOMAIN queue : state[queue[m]] = "Queued"}
           R == OpToRel(<, Nat)
<1>1. DOMAIN queue = 1..Len(queue) /\ Len(queue) \in Nat
  OBVIOUS
<1>2. T \subseteq Nat /\ T # {}
  BY <1>1
<1>3. \E x \in T : \A y \in T : ~(<<y, x>> \in R)
  BY <1>2, NatLessThanWellFounded, WFMin
<1>4. PICK x \in T : \A y \in T : ~(y < x)
  BY <1>2, <1>3 DEF OpToRel
<1>5. \A m \in 1..(x - 1) : m \in DOMAIN queue /\ m < x
  BY <1>1, <1>4
<1>6. QueuedAt(x)
  BY <1>4, <1>5 DEF QueuedAt
<1> QED
  BY <1>4, <1>6

-----------------------------------------------------------------------------
(* The queue.                                                              *)

(***************************************************************************)
(* An item that is not in the queue changes its state, not to Queued.      *)
(***************************************************************************)
LEMMA QueueRests ==
  ASSUME TypeOK, QueueExact, NEW i \in Items, NEW s \in WorkState \ {"Queued"},
         state[i] # "Queued" \/ s = "Cancelled",
         state[i] # "Cancelled", state' = [state EXCEPT ![i] = s], UNCHANGED queue
  PROVE  QueueExact'
BY DEF TypeOK, QueueExact

(***************************************************************************)
(* An item enters at the end of the queue.                                 *)
(***************************************************************************)
LEMMA QueueGrows ==
  ASSUME TypeOK, QueueExact, NEW i \in Items, state[i] \notin {"Queued", "Cancelled"},
         state' = [state EXCEPT ![i] = "Queued"], queue' = Append(queue, i)
  PROVE  QueueExact' /\ queue' \in Seq(Items)
<1>1. queue \in Seq(Items) /\ state \in [Items -> WorkState]
  BY DEF TypeOK
<1> DEFINE l == Len(queue)
<1>2. /\ queue' \in Seq(Items) /\ l \in Nat /\ DOMAIN queue = 1..l
      /\ DOMAIN queue' = 1..(l + 1) /\ queue'[l + 1] = i
      /\ \A n \in 1..l : queue'[n] = queue[n]
  BY <1>1, AppendFacts
<1> HIDE DEF l
<1>3. /\ \A n \in 1..(l + 1) : n \in 1..l \/ n = l + 1
      /\ \A n \in 1..l : n \in 1..(l + 1)
      /\ l + 1 \in 1..(l + 1)
  BY <1>2
<1>4. \A n \in 1..l : queue[n] # i /\ queue[n] \in Items
  BY <1>1, <1>2 DEF QueueExact
<1>5. \A m, n \in DOMAIN queue' : queue'[m] = queue'[n] => m = n
  BY <1>2, <1>3, <1>4 DEF QueueExact
<1>6. \A n \in DOMAIN queue' : state'[queue'[n]] \in {"Queued", "Cancelled"}
  BY <1>1, <1>2, <1>3, <1>4 DEF QueueExact
<1>7. \A j \in Items : state'[j] = "Queued" => \E n \in DOMAIN queue' : queue'[n] = j
  BY <1>1, <1>2, <1>3 DEF QueueExact
<1> QED
  BY <1>2, <1>5, <1>6, <1>7 DEF QueueExact

(***************************************************************************)
(* next_queued() takes the first queued item, and what is before it.       *)
(***************************************************************************)
LEMMA QueueShrinks ==
  ASSUME TypeOK, QueueExact, NEW n \in DOMAIN queue, QueuedAt(n),
         NEW s \in WorkState \ {"Queued"}, state' = [state EXCEPT ![queue[n]] = s],
         queue' = SubSeq(queue, n + 1, Len(queue))
  PROVE  QueueExact' /\ queue' \in Seq(Items) /\ queue[n] \in Items /\ state[queue[n]] = "Queued"
<1>1. queue \in Seq(Items) /\ state \in [Items -> WorkState] /\ queue[n] \in Items
  BY DEF TypeOK
<1> DEFINE l == Len(queue)
<1>2. /\ queue' \in Seq(Items) /\ l \in Nat /\ DOMAIN queue = 1..l /\ n \in 1..l
      /\ DOMAIN queue' = 1..(l - n) /\ \A k \in 1..(l - n) : queue'[k] = queue[n + k]
  BY <1>1, DropFacts
<1>3. state[queue[n]] = "Queued" /\ \A m \in 1..(n - 1) : state[queue[m]] # "Queued"
  BY DEF QueuedAt
<1> HIDE DEF l
<1>4. /\ \A k \in 1..(l - n) : n + k \in 1..l /\ n + k # n
      /\ \A m \in 1..l : m \in 1..(n - 1) \/ m = n \/ (m - n \in 1..(l - n) /\ n + (m - n) = m)
  <2>1. l \in Nat /\ n \in Nat /\ 1 <= n /\ n <= l
    BY <1>2
  <2> QED
    BY <2>1
<1>5. ASSUME NEW a \in 1..(l - n), NEW b \in 1..(l - n), queue'[a] = queue'[b] PROVE a = b
  <2>1. n + a = n + b
    BY <1>2, <1>4, <1>5 DEF QueueExact
  <2> QED
    BY <1>2, <2>1
<1>6. ASSUME NEW a \in 1..(l - n) PROVE state'[queue'[a]] \in {"Queued", "Cancelled"}
  <2>1. queue'[a] = queue[n + a] /\ queue'[a] # queue[n] /\ queue'[a] \in Items
    BY <1>1, <1>2, <1>4 DEF QueueExact
  <2> QED
    BY <1>1, <1>2, <1>4, <2>1 DEF QueueExact
<1>7. ASSUME NEW j \in Items, state'[j] = "Queued" PROVE \E a \in 1..(l - n) : queue'[a] = j
  <2>1. j # queue[n] /\ state[j] = "Queued"
    BY <1>1, <1>7
  <2>2. PICK m \in 1..l : queue[m] = j
    BY <1>2, <2>1 DEF QueueExact
  <2>3. m - n \in 1..(l - n) /\ n + (m - n) = m
    BY <1>3, <1>4, <2>1, <2>2
  <2> QED
    BY <1>2, <2>2, <2>3
<1> QED
  BY <1>1, <1>2, <1>3, <1>5, <1>6, <1>7 DEF QueueExact

-----------------------------------------------------------------------------
(* The tables.                                                             *)

(***************************************************************************)
(* An attempt leaves pending_, and the transport's callbacks.              *)
(***************************************************************************)
LEMMA ViewsRetire ==
  ASSUME TypeOK, ViewsAgree, NEW i \in DOMAIN pending, NEW s \in WorkState \ {"Submitted"},
         pending' = Without(pending, i), callbacks' = callbacks \ {i},
         state' = [state EXCEPT ![i] = s],
         completed' = completed \/ (completed' = completed \cup {i} /\ s \in {"Completed", "Failed"})
  PROVE  ViewsAgree' /\ i \in Items /\ state[i] = "Submitted"
<1>1. i \in Items /\ state[i] = "Submitted" /\ i \notin completed
  BY DEF TypeOK, ViewsAgree
<1>2. /\ \A j \in Items : state'[j] = IF j = i THEN s ELSE state[j]
      /\ DOMAIN pending' = DOMAIN pending \ {i}
  BY WithoutMap DEF TypeOK
<1> QED
  BY <1>1, <1>2 DEF ViewsAgree

(***************************************************************************)
(* Its timer leaves with it.                                               *)
(***************************************************************************)
LEMMA TimersRetire ==
  ASSUME TimersExact, NEW i \in DOMAIN pending, pending' = Without(pending, i),
         timers' = Without(timers, pending[i]), UNCHANGED timeout_reported
  PROVE  TimersExact'
<1>1. /\ DOMAIN pending' = DOMAIN pending \ {i}
      /\ \A j \in DOMAIN pending \ {i} : pending'[j] = pending[j]
      /\ DOMAIN timers' = DOMAIN timers \ {pending[i]}
      /\ \A t \in DOMAIN timers \ {pending[i]} : timers'[t] = timers[t]
  BY WithoutMap
<1> QED
  BY <1>1 DEF TimersExact

(***************************************************************************)
(* The types of the two maps.                                              *)
(***************************************************************************)
LEMMA MapsRetire ==
  ASSUME TypeOK, NEW i, NEW t
  PROVE  /\ Without(pending, i) \in [DOMAIN Without(pending, i) -> 1..(next_timer_id - 1)]
         /\ DOMAIN Without(pending, i) \subseteq Items
         /\ Without(timers, t) \in [DOMAIN Without(timers, t) -> Items]
         /\ DOMAIN Without(timers, t) \subseteq 1..(next_timer_id - 1)
BY DEF TypeOK, Without

(***************************************************************************)
(* Steps that leave the items alone.                                       *)
(***************************************************************************)
LEMMA Rests ==
  ASSUME AdaptiveInv,
         UNCHANGED <<state, retry_count, queue, congestion, pending, completed, expired, timers,
                     next_timer_id, callbacks, timeout_reported>>,
         started' \in BOOLEAN, stopped' \in BOOLEAN, pumping' \in BOOLEAN,
         engine' \in {"idle", "running"}, engine_stopped' \in BOOLEAN
  PROVE  AdaptiveInv'
<1>1. TypeOK'
  BY DEF AdaptiveInv, TypeOK
<1>2. QueueExact'
  BY DEF AdaptiveInv, QueueExact
<1>3. ViewsAgree'
  BY DEF AdaptiveInv, ViewsAgree
<1>4. TimersExact'
  BY DEF AdaptiveInv, TimersExact
<1> QED
  BY <1>1, <1>2, <1>3, <1>4 DEF AdaptiveInv

-----------------------------------------------------------------------------
(* The actions.                                                            *)

LEMMA CallerKeeps == AdaptiveInv /\ Caller => AdaptiveInv'
<1> SUFFICES ASSUME AdaptiveInv, Caller PROVE AdaptiveInv'
  OBVIOUS
<1>1. TypeOK /\ QueueExact /\ ViewsAgree /\ TimersExact
  BY DEF AdaptiveInv
<1>2. ASSUME NEW i \in Items, enqueue(i) PROVE AdaptiveInv'
  <2>1. QueueExact' /\ queue' \in Seq(Items)
    BY <1>1, <1>2, QueueGrows DEF enqueue
  <2>2. TypeOK'
    BY <1>1, <1>2, <2>1 DEF enqueue, timerVars, TypeOK, WorkState
  <2>3. ViewsAgree'
    BY <1>1, <1>2 DEF enqueue, ViewsAgree, TypeOK
  <2>4. TimersExact'
    BY <1>1, <1>2 DEF enqueue, timerVars, TimersExact
  <2> QED
    BY <2>1, <2>2, <2>3, <2>4 DEF AdaptiveInv
<1>3. ASSUME NEW i \in Items, cancel(i) PROVE AdaptiveInv'
  <2>1. /\ state[i] \in {"Queued", "Submitted", "TimedOut"}
        /\ state' = [state EXCEPT ![i] = "Cancelled"] /\ pumping' = TRUE
        /\ UNCHANGED <<retry_count, queue, congestion, completed, status, started, stopped,
                       next_timer_id, engine, engine_stopped, timeout_reported>>
    BY <1>3 DEF cancel
  <2>2. QueueExact'
    BY <1>1, <2>1, QueueRests DEF WorkState
  <2>3. state' \in [Items -> WorkState]
    BY <1>1, <2>1 DEF TypeOK, WorkState
  <2>4. CASE i \in DOMAIN pending
    <3>1. /\ timers' = Without(timers, pending[i]) /\ callbacks' = callbacks \ {i}
          /\ pending' = Without(pending, i) /\ expired' = expired \cup {i}
      BY <1>3, <2>4 DEF cancel
    <3>2. ViewsAgree'
      BY <1>1, <2>1, <2>4, <3>1, ViewsRetire DEF WorkState
    <3>3. TimersExact'
      BY <1>1, <2>1, <2>4, <3>1, TimersRetire
    <3>4. TypeOK'
      BY <1>1, <2>1, <2>3, <3>1, MapsRetire DEF TypeOK
    <3> QED
      BY <2>2, <3>2, <3>3, <3>4 DEF AdaptiveInv
  <2>5. CASE i \notin DOMAIN pending
    <3>1. UNCHANGED <<timers, callbacks, pending, expired>>
      BY <1>3, <2>5 DEF cancel
    <3>2. ViewsAgree'
      BY <1>1, <2>1, <2>5, <3>1 DEF ViewsAgree, TypeOK
    <3>3. TimersExact'
      BY <1>1, <2>1, <3>1 DEF TimersExact
    <3>4. TypeOK'
      BY <1>1, <2>1, <2>3, <3>1 DEF TypeOK
    <3> QED
      BY <2>2, <3>2, <3>3, <3>4 DEF AdaptiveInv
  <2> QED
    BY <2>4, <2>5
<1>4. CASE shutdown
  <2>1. /\ timers' = [t \in DOMAIN timers \ {pending[i] : i \in DOMAIN pending} |-> timers[t]]
        /\ callbacks' = callbacks \ DOMAIN pending /\ expired' = expired \cup DOMAIN pending
        /\ pending' = EmptyMap /\ DOMAIN pending' = {} /\ queue' = <<>> /\ DOMAIN queue' = {}
        /\ state' = [i \in Items |-> IF state[i] \in {"Queued", "Submitted"} THEN "Cancelled"
                                                                            ELSE state[i]]
        /\ stopped' = TRUE /\ engine_stopped' = TRUE
        /\ UNCHANGED <<retry_count, congestion, completed, status, started, pumping,
                       next_timer_id, engine, timeout_reported>>
    BY <1>4 DEF shutdown, EmptyMap
  <2>2. /\ \A i \in Items : /\ state'[i] \in WorkState \ {"Queued", "Submitted"}
                            /\ state[i] \notin {"Queued", "Submitted"} => state'[i] = state[i]
        /\ state' \in [Items -> WorkState]
    BY <1>1, <2>1 DEF TypeOK, WorkState
  <2>3. QueueExact'
    BY <2>1, <2>2 DEF QueueExact
  <2>4. ViewsAgree'
    BY <1>1, <2>1, <2>2 DEF ViewsAgree
  <2>5. TimersExact'
    BY <1>1, <2>1 DEF TimersExact
  <2>6. TypeOK'
    <3>1. timers' \in [DOMAIN timers' -> Items] /\ DOMAIN timers' \subseteq 1..(next_timer_id' - 1)
      BY <1>1, <2>1 DEF TypeOK
    <3>2. pending' \in [DOMAIN pending' -> 1..(next_timer_id' - 1)] /\ DOMAIN pending' \subseteq Items
      BY <2>1 DEF EmptyMap
    <3> QED
      BY <1>1, <2>1, <2>2, <3>1, <3>2 DEF TypeOK
  <2> QED
    BY <2>3, <2>4, <2>5, <2>6 DEF AdaptiveInv
<1>5. CASE start \/ run
  BY <1>1, <1>5, Rests DEF start, run, group, timerVars, TypeOK
<1> QED
  BY <1>2, <1>3, <1>4, <1>5 DEF Caller

(***************************************************************************)
(* pump().                                                                 *)
(***************************************************************************)
LEMMA PumpKeeps == AdaptiveInv /\ Pump => AdaptiveInv'
<1> SUFFICES ASSUME AdaptiveInv, Pump PROVE AdaptiveInv'
  OBVIOUS
<1>1. TypeOK /\ QueueExact /\ ViewsAgree /\ TimersExact
  BY DEF AdaptiveInv
<1>2. CASE PumpReturns
  <2>1. /\ UNCHANGED <<state, retry_count, congestion, pending, completed, expired, status,
                       started, stopped, timers, next_timer_id, engine, callbacks,
                       timeout_reported>>
        /\ pumping' = FALSE /\ finish_if_idle
    BY <1>2 DEF PumpReturns, timerVars
  <2>2. engine_stopped' \in BOOLEAN
    BY <2>1 DEF finish_if_idle
  <2>3. started' \in BOOLEAN /\ stopped' \in BOOLEAN /\ pumping' \in BOOLEAN
        /\ engine' \in {"idle", "running"}
    BY <1>1, <2>1 DEF TypeOK
  <2>4. CASE UNCHANGED queue
    BY <2>1, <2>2, <2>3, <2>4, Rests
  <2>5. CASE (\A n \in DOMAIN queue : ~QueuedAt(n)) /\ queue' = <<>>
    <3>1. \A i \in Items : state[i] # "Queued"
      BY <1>1, <2>5, NextQueued DEF QueueExact, TypeOK
    <3>2. DOMAIN queue' = {} /\ queue' \in Seq(Items)
      BY <2>5
    <3>3. QueueExact'
      BY <2>1, <3>1, <3>2 DEF QueueExact
    <3>4. TypeOK'
      BY <1>1, <2>1, <2>2, <3>2 DEF TypeOK
    <3>5. ViewsAgree'
      BY <1>1, <2>1 DEF ViewsAgree
    <3>6. TimersExact'
      BY <1>1, <2>1 DEF TimersExact
    <3> QED
      BY <3>3, <3>4, <3>5, <3>6 DEF AdaptiveInv
  <2> QED
    BY <1>2, <2>4, <2>5 DEF PumpReturns
<1>3. ASSUME NEW n \in DOMAIN queue, PumpSubmits(n) PROVE AdaptiveInv'
  <2> DEFINE i == queue[n]
             t == next_timer_id
  <2>1. /\ QueuedAt(n) /\ queue' = SubSeq(queue, n + 1, Len(queue))
        /\ state' = [state EXCEPT ![queue[n]] = "Submitted"]
        /\ pending' = With(pending, i, t) /\ timers' = With(timers, t, i)
        /\ next_timer_id' = t + 1 /\ callbacks' = callbacks \cup {i}
        /\ UNCHANGED <<retry_count, congestion, completed, expired, status, started, stopped,
                       pumping, engine, engine_stopped, timeout_reported>>
    BY <1>3 DEF PumpSubmits
  <2>2. QueueExact' /\ queue' \in Seq(Items) /\ i \in Items /\ state[i] = "Queued"
    BY <1>1, <2>1, QueueShrinks DEF WorkState
  <2> HIDE DEF i
  <2>3. i \notin DOMAIN pending /\ i \notin completed /\ t \in Nat \ {0} /\ t \notin DOMAIN timers
    <3>1. i \notin DOMAIN pending /\ i \notin completed
      BY <1>1, <2>2 DEF ViewsAgree
    <3>2. t \in Nat \ {0} /\ DOMAIN timers \subseteq 1..(t - 1)
      BY <1>1 DEF TypeOK
    <3>3. t \notin 1..(t - 1)
      BY <3>2
    <3> QED
      BY <3>1, <3>2, <3>3
  <2>4. state' \in [Items -> WorkState] /\ \A j \in Items : state'[j] = IF j = i THEN "Submitted" ELSE state[j]
    BY <1>1, <2>1, <2>2 DEF TypeOK, WorkState, i
  <2>5. /\ DOMAIN pending' = DOMAIN pending \cup {i} /\ pending'[i] = t
        /\ \A j \in DOMAIN pending : pending'[j] = pending[j]
        /\ DOMAIN timers' = DOMAIN timers \cup {t} /\ timers'[t] = i
        /\ \A u \in DOMAIN timers : timers'[u] = timers[u]
    BY <2>1, <2>3 DEF With
  <2>6. TypeOK'
    <3>1. \A k \in 1..(t - 1) : k \in 1..(t + 1 - 1)
      BY <2>3
    <3>2. t \in 1..(t + 1 - 1) /\ t + 1 \in Nat \ {0}
      BY <2>3
    <3>3. /\ \A j \in DOMAIN pending : pending[j] \in 1..(t - 1)
          /\ \A u \in DOMAIN timers : timers[u] \in Items
          /\ DOMAIN timers \subseteq 1..(t - 1) /\ DOMAIN pending \subseteq Items
      BY <1>1 DEF TypeOK
    <3>4. pending' \in [DOMAIN pending' -> 1..(t + 1 - 1)] /\ DOMAIN pending' \subseteq Items
      <4>1. pending' = [j \in DOMAIN pending' |-> pending'[j]]
        BY <2>1 DEF With
      <4>2. \A j \in DOMAIN pending' : pending'[j] \in 1..(t + 1 - 1)
        BY <2>5, <3>1, <3>2, <3>3
      <4> QED
        BY <2>2, <2>5, <3>3, <4>1, <4>2
    <3>5. timers' \in [DOMAIN timers' -> Items] /\ DOMAIN timers' \subseteq 1..(t + 1 - 1)
      <4>1. timers' = [u \in DOMAIN timers' |-> timers'[u]]
        BY <2>1 DEF With
      <4>2. \A u \in DOMAIN timers' : timers'[u] \in Items
        BY <2>2, <2>5, <3>3
      <4> QED
        BY <2>5, <3>1, <3>2, <3>3, <4>1, <4>2
    <3> QED
      BY <1>1, <2>1, <2>2, <2>4, <3>2, <3>4, <3>5 DEF TypeOK
  <2>7. ViewsAgree'
    BY <1>1, <2>1, <2>2, <2>3, <2>4, <2>5 DEF ViewsAgree
  <2>8. TimersExact'
    BY <1>1, <2>1, <2>3, <2>5 DEF TimersExact
  <2> QED
    BY <2>2, <2>6, <2>7, <2>8 DEF AdaptiveInv
<1>4. ASSUME NEW n \in DOMAIN queue, NEW s, NEW armed \in BOOLEAN, PumpFails(n, s, armed)
      PROVE  AdaptiveInv'
  <2>1. /\ QueuedAt(n) /\ queue' = SubSeq(queue, n + 1, Len(queue))
        /\ state' = [state EXCEPT ![queue[n]] = "Failed"] /\ pumping' = FALSE
        /\ next_timer_id' \in {next_timer_id, next_timer_id + 1}
        /\ UNCHANGED <<retry_count, congestion, pending, completed, expired, started, stopped,
                       timers, engine, callbacks, timeout_reported>>
        /\ finish_if_idle
    BY <1>4 DEF PumpFails
  <2>2. QueueExact' /\ queue' \in Seq(Items) /\ queue[n] \in Items /\ state[queue[n]] = "Queued"
    BY <1>1, <2>1, QueueShrinks DEF WorkState
  <2>3. engine_stopped' \in BOOLEAN
    BY <2>1 DEF finish_if_idle
  <2>4. TypeOK'
    <3>1. /\ next_timer_id' \in Nat \ {0}
          /\ \A k \in 1..(next_timer_id - 1) : k \in 1..(next_timer_id' - 1)
      BY <1>1, <2>1 DEF TypeOK
    <3>2. state' \in [Items -> WorkState]
      BY <1>1, <2>1 DEF TypeOK, WorkState
    <3>3. /\ pending' \in [DOMAIN pending' -> 1..(next_timer_id' - 1)]
          /\ DOMAIN timers' \subseteq 1..(next_timer_id' - 1)
      BY <1>1, <2>1, <3>1 DEF TypeOK
    <3> QED
      BY <1>1, <2>1, <2>2, <2>3, <3>1, <3>2, <3>3 DEF TypeOK
  <2>5. ViewsAgree'
    BY <1>1, <2>1, <2>2 DEF ViewsAgree, TypeOK
  <2>6. TimersExact'
    BY <1>1, <2>1 DEF TimersExact
  <2> QED
    BY <2>2, <2>4, <2>5, <2>6 DEF AdaptiveInv
<1> QED
  BY <1>2, <1>3, <1>4 DEF Pump

(***************************************************************************)
(* An attempt that expires is queued again, or timed out.                  *)
(***************************************************************************)
LEMMA ExpireKeeps ==
  ASSUME AdaptiveInv, NEW i \in DOMAIN pending, expire(i), TimersExact',
         timers' \in [DOMAIN timers' -> Items], DOMAIN timers' \subseteq 1..(next_timer_id - 1),
         timeout_reported' \in BOOLEAN
  PROVE  AdaptiveInv'
<1>1. TypeOK /\ QueueExact /\ ViewsAgree /\ TimersExact
  BY DEF AdaptiveInv
<1>2. i \in Items /\ state[i] = "Submitted"
  BY <1>1 DEF TypeOK, ViewsAgree
<1>3. /\ callbacks' = callbacks \ {i} /\ pending' = Without(pending, i)
      /\ expired' = expired \cup {i} /\ congestion' = on_timeout(congestion) /\ pumping' = TRUE
      /\ UNCHANGED <<completed, status, started, stopped, next_timer_id, engine, engine_stopped>>
  BY DEF expire
<1>4. PICK s \in {"Queued", "TimedOut"} : state' = [state EXCEPT ![i] = s]
  BY DEF expire
<1>5. ViewsAgree'
  BY <1>1, <1>3, <1>4, ViewsRetire DEF WorkState
<1>6. QueueExact' /\ queue' \in Seq(Items) /\ retry_count' \in [Items -> 0..MaxRetries]
  <2>1. CASE MayRetry(i)
    <3>1. /\ state' = [state EXCEPT ![i] = "Queued"] /\ queue' = Append(queue, i)
          /\ retry_count' = [retry_count EXCEPT ![i] = @ + 1]
      BY <2>1 DEF expire
    <3>2. QueueExact' /\ queue' \in Seq(Items)
      BY <1>1, <1>2, <3>1, QueueGrows
    <3>3. retry_count[i] + 1 \in 0..MaxRetries /\ retry_count \in [Items -> 0..MaxRetries]
      BY <1>1, <1>2, <2>1, AdaptiveAssumption DEF MayRetry, TypeOK
    <3> QED
      BY <1>2, <3>1, <3>2, <3>3
  <2>2. CASE ~MayRetry(i)
    <3>1. state' = [state EXCEPT ![i] = "TimedOut"] /\ UNCHANGED <<retry_count, queue>>
      BY <2>2 DEF expire
    <3> QED
      BY <1>1, <1>2, <3>1, QueueRests DEF TypeOK, WorkState
  <2> QED
    BY <2>1, <2>2
<1>7. TypeOK'
  <2>1. state' \in [Items -> WorkState]
    BY <1>1, <1>4 DEF TypeOK, WorkState
  <2>2. congestion' \in CongestionState
    BY <1>1, <1>3, TimeoutKeepsRange DEF TypeOK
  <2>3. /\ pending' \in [DOMAIN pending' -> 1..(next_timer_id - 1)] /\ DOMAIN pending' \subseteq Items
    BY <1>1, <1>3, MapsRetire
  <2> QED
    BY <1>1, <1>3, <1>6, <2>1, <2>2, <2>3 DEF TypeOK
<1> QED
  BY <1>5, <1>6, <1>7 DEF AdaptiveInv

(***************************************************************************)
(* receive().                                                              *)
(***************************************************************************)
LEMMA CompletionKeeps == AdaptiveInv /\ Completions => AdaptiveInv'
<1> SUFFICES ASSUME AdaptiveInv, NEW i \in callbacks, NEW c, receive(i, c) PROVE AdaptiveInv'
  BY DEF Completions
<1>1. TypeOK /\ QueueExact /\ ViewsAgree /\ TimersExact /\ i \in DOMAIN pending
  BY DEF AdaptiveInv, receive
<1>2. CASE expire(i) /\ timeout_reported' = TRUE /\ UNCHANGED timers
  BY <1>1, <1>2, ExpireKeeps DEF TypeOK, TimersExact
<1>3. CASE complete_pending(i) \/ fail_pending(i)
  <2>1. /\ timers' = Without(timers, pending[i]) /\ callbacks' = callbacks \ {i}
        /\ pending' = Without(pending, i) /\ completed' = completed \cup {i} /\ pumping' = TRUE
        /\ UNCHANGED <<retry_count, queue, expired, status, started, stopped, next_timer_id,
                       engine, engine_stopped, timeout_reported>>
    BY <1>3 DEF complete_pending, fail_pending
  <2>2. PICK s \in {"Completed", "Failed"} : state' = [state EXCEPT ![i] = s]
    BY <1>3 DEF complete_pending, fail_pending
  <2>3. ViewsAgree' /\ i \in Items /\ state[i] = "Submitted"
    BY <1>1, <2>1, <2>2, ViewsRetire DEF WorkState
  <2>4. QueueExact'
    BY <1>1, <2>1, <2>2, <2>3, QueueRests DEF WorkState
  <2>5. TimersExact'
    BY <1>1, <2>1, TimersRetire
  <2>6. congestion' \in CongestionState
    BY <1>1, <1>3, ResponseKeepsRange DEF complete_pending, fail_pending, TypeOK
  <2>7. state' \in [Items -> WorkState]
    BY <1>1, <2>2 DEF TypeOK, WorkState
  <2>8. TypeOK'
    BY <1>1, <2>1, <2>3, <2>6, <2>7, MapsRetire DEF TypeOK
  <2> QED
    BY <2>3, <2>4, <2>5, <2>8 DEF AdaptiveInv
<1> QED
  BY <1>2, <1>3 DEF receive

(***************************************************************************)
(* The reactor fires a timer, whose attempt may be gone.                   *)
(***************************************************************************)
LEMMA TimerKeeps == AdaptiveInv /\ StoppedIdle /\ TimerFires => AdaptiveInv'
<1> SUFFICES ASSUME AdaptiveInv, StoppedIdle, NEW t \in DOMAIN timers, timer_fires(t) PROVE AdaptiveInv'
  BY DEF TimerFires
<1>1. TypeOK /\ QueueExact /\ ViewsAgree /\ TimersExact
  BY DEF AdaptiveInv
<1>2. /\ timers' = Without(timers, t) /\ UNCHANGED timeout_reported
  BY DEF timer_fires
<1>3. /\ timers' \in [DOMAIN timers' -> Items] /\ DOMAIN timers' \subseteq 1..(next_timer_id - 1)
      /\ timeout_reported' \in BOOLEAN
  BY <1>1, <1>2, MapsRetire DEF TypeOK
<1>4. CASE timers[t] \in DOMAIN pending /\ ~stopped
  <2> DEFINE i == timers[t]
  <2>1. expire(i) /\ pending' = Without(pending, i)
    BY <1>4 DEF timer_fires, expire
  <2>2. TimersExact'
    <3>1. CASE timeout_reported
      BY <1>2, <3>1 DEF TimersExact
    <3>2. CASE ~timeout_reported
      <4>1. pending[i] = t
        BY <1>1, <3>2 DEF TimersExact
      <4> QED
        BY <1>1, <1>2, <1>4, <2>1, <4>1, TimersRetire
    <3> QED
      BY <3>1, <3>2
  <2> QED
    BY <1>3, <1>4, <2>1, <2>2, ExpireKeeps
<1>5. CASE ~(timers[t] \in DOMAIN pending /\ ~stopped)
  <2>1. UNCHANGED <<state, retry_count, queue, congestion, pending, completed, expired, status,
                    started, stopped, pumping, next_timer_id, engine, engine_stopped, callbacks>>
    BY <1>5 DEF timer_fires, group
  <2>2. TypeOK'
    BY <1>1, <1>3, <2>1 DEF TypeOK
  <2>3. QueueExact' /\ ViewsAgree'
    BY <1>1, <2>1 DEF QueueExact, ViewsAgree
  <2>4. TimersExact'
    <3>1. /\ DOMAIN timers' = DOMAIN timers \ {t}
          /\ \A u \in DOMAIN timers \ {t} : timers'[u] = timers[u]
      BY <1>2, WithoutMap
    <3>2. timers[t] \notin DOMAIN pending
      BY <1>5 DEF StoppedIdle
    <3> QED
      BY <1>1, <1>2, <2>1, <3>1, <3>2 DEF TimersExact
  <2> QED
    BY <2>2, <2>3, <2>4 DEF AdaptiveInv
<1> QED
  BY <1>4, <1>5

(***************************************************************************)
(* shutdown() is final for the attempts: pump() submits no more.           *)
(***************************************************************************)
LEMMA ShutdownFinal == Spec => []StoppedIdle
<1>1. Init => StoppedIdle
  BY DEF Init, StoppedIdle
<1>2. ASSUME StoppedIdle, [Next]_vars PROVE StoppedIdle'
  <2>1. \A i : DOMAIN Without(pending, i) \subseteq DOMAIN pending
    BY DEF Without
  <2>2. CASE Caller
    <3>1. CASE shutdown
      BY <3>1 DEF shutdown, EmptyMap, StoppedIdle
    <3>2. ASSUME NEW i, enqueue(i) PROVE StoppedIdle'
      BY <1>2, <3>2 DEF enqueue, StoppedIdle
    <3>3. ASSUME NEW i, cancel(i) PROVE StoppedIdle'
      BY <1>2, <3>3 DEF cancel, StoppedIdle
    <3>4. CASE start \/ run
      BY <1>2, <3>4 DEF start, run, StoppedIdle
    <3> QED
      BY <2>2, <3>1, <3>2, <3>3, <3>4 DEF Caller
  <2>3. CASE Pump
    BY <1>2, <2>3 DEF Pump, PumpReturns, PumpSubmits, PumpFails, PumpLoops, StoppedIdle
  <2>4. ASSUME NEW i, expire(i) PROVE StoppedIdle'
    BY <1>2, <2>1, <2>4 DEF expire, StoppedIdle
  <2>5. CASE TimerFires
    BY <1>2, <2>4, <2>5 DEF TimerFires, timer_fires, StoppedIdle
  <2>6. CASE Completions
    BY <1>2, <2>1, <2>4, <2>6 DEF Completions, receive, complete_pending, fail_pending, StoppedIdle
  <2>7. CASE run_returns \/ run_fails \/ Finished \/ UNCHANGED vars
    BY <1>2, <2>7 DEF run_returns, run_fails, Finished, vars, StoppedIdle
  <2> QED
    BY <1>2, <2>2, <2>3, <2>5, <2>6, <2>7 DEF Next
<1> QED
  BY <1>1, <1>2, PTL DEF Spec

(***************************************************************************)
(* The invariant holds in every reachable state.                           *)
(***************************************************************************)
LEMMA InvariantHolds == Spec => []AdaptiveInv
<1>1. ASSUME Init PROVE AdaptiveInv
  <2>1. /\ queue = <<>> /\ DOMAIN queue = {} /\ DOMAIN pending = {} /\ DOMAIN timers = {}
        /\ pending = EmptyMap /\ timers = EmptyMap /\ next_timer_id = 1
        /\ \A i \in Items : state[i] = "Absent"
    BY <1>1 DEF Init, EmptyMap
  <2>2. TypeOK
    <3>1. congestion \in CongestionState
      BY <1>1, InitialCongestionType DEF Init
    <3>2. /\ state \in [Items -> WorkState] /\ retry_count \in [Items -> 0..MaxRetries]
      BY <1>1, AdaptiveAssumption DEF Init, WorkState
    <3>3. /\ pending \in [DOMAIN pending -> 1..(next_timer_id - 1)]
          /\ timers \in [DOMAIN timers -> Items]
      BY <2>1 DEF EmptyMap
    <3>4. /\ queue \in Seq(Items) /\ next_timer_id \in Nat \ {0}
          /\ DOMAIN pending \subseteq Items /\ DOMAIN timers \subseteq 1..(next_timer_id - 1)
      BY <2>1
    <3>5. /\ completed = {} /\ expired = {} /\ callbacks = {} /\ engine = "idle"
          /\ started = FALSE /\ stopped = FALSE /\ pumping = FALSE /\ engine_stopped = FALSE
          /\ timeout_reported = FALSE
      BY <1>1 DEF Init
    <3> QED
      BY <3>1, <3>2, <3>3, <3>4, <3>5 DEF TypeOK
  <2>3. QueueExact
    BY <2>1 DEF QueueExact
  <2>4. ViewsAgree /\ TimersExact
    BY <1>1, <2>1 DEF Init, ViewsAgree, TimersExact
  <2> QED
    BY <2>2, <2>3, <2>4 DEF AdaptiveInv
<1>2. ASSUME AdaptiveInv, StoppedIdle, [Next]_vars PROVE AdaptiveInv'
  <2>1. CASE run_returns \/ run_fails \/ Finished \/ UNCHANGED vars
    <3>1. /\ UNCHANGED <<state, retry_count, queue, congestion, pending, completed, expired, timers,
                         next_timer_id, callbacks, timeout_reported, started, stopped, pumping,
                         engine_stopped>>
          /\ engine' \in {"idle", engine}
      BY <2>1 DEF run_returns, run_fails, Finished, vars, group, timerVars
    <3> QED
      BY <1>2, <3>1, Rests DEF AdaptiveInv, TypeOK
  <2> QED
    BY <1>2, <2>1, CallerKeeps, PumpKeeps, CompletionKeeps, TimerKeeps DEF Next
<1> QED
  BY <1>1, <1>2, ShutdownFinal, PTL DEF Spec

(***************************************************************************)
(* The group, the scheduler, the transport and the reactor agree on every  *)
(* item, through retries under the same id, cancellation of queued and     *)
(* submitted items, failures of pump() and shutdown(), for every number of *)
(* items and every timing profile: submitted means pending, queued means   *)
(* once in the queue, an answered item is never worked on again, and an    *)
(* armed timer is that of the attempt pending now.                         *)
(***************************************************************************)
THEOREM AdaptiveLifecycle == Spec => []LifecycleConsistent
<1>1. ASSUME AdaptiveInv PROVE LifecycleConsistent
  <2>1. ASSUME NEW i \in Items, state[i] = "Queued"
        PROVE  Cardinality({n \in DOMAIN queue : queue[n] = i}) = 1
    <3>1. PICK n \in DOMAIN queue : queue[n] = i
      BY <1>1, <2>1 DEF AdaptiveInv, QueueExact
    <3>2. {m \in DOMAIN queue : queue[m] = i} = {n}
      BY <1>1, <3>1 DEF AdaptiveInv, QueueExact
    <3> QED
      BY <3>2, FS_Singleton
  <2>2. TypeOK
    BY <1>1 DEF AdaptiveInv
  <2>3. \A i \in Items : /\ state[i] = "Submitted" <=> i \in DOMAIN pending
                         /\ i \in callbacks <=> i \in DOMAIN pending
                         /\ i \in completed => state[i] \in {"Completed", "Failed"}
    BY <1>1 DEF AdaptiveInv, ViewsAgree
  <2>4. ~timeout_reported =>
          /\ \A t \in DOMAIN timers : timers[t] \in DOMAIN pending /\ pending[timers[t]] = t
          /\ \A i \in DOMAIN pending : pending[i] \in DOMAIN timers
    BY <1>1 DEF AdaptiveInv, TimersExact
  <2> QED
    BY <2>1, <2>2, <2>3, <2>4 DEF LifecycleConsistent
<1> QED
  BY <1>1, InvariantHolds, PTL

=============================================================================
