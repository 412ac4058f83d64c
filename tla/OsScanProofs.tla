---------------------------- MODULE OsScanProofs ----------------------------
(***************************************************************************)
(* Invariance proofs for OsScan, for every sequence of probes, either      *)
(* transport, every interface, every limit and every failure.              *)
(***************************************************************************)
EXTENDS OsScan, FiniteSetTheorems, SequenceTheorems, TLAPS

-----------------------------------------------------------------------------
(* The invariants.                                                         *)

Item == [work : Work, retry : Nat]
Counters == [generated : Nat, sent : Nat, response : Nat, timeout : Nat, unsupported : Nat,
             malformed : Nat]
Fates == {"None", "response", "malformed", "unsupported", "timeout", "unsent", "cancelled"}

(***************************************************************************)
(* The shape of the scheduler's state, and how the phases of the stage and *)
(* of pump() go together.                                                  *)
(***************************************************************************)
OsTypes ==
  /\ phase \in {"created", "submitting", "refused", "submitted", "running", "returned", "destroyed"}
  /\ pumping \in {"no", "submit", "handler"}
  /\ pumping = "submit" <=> phase = "submitting"
  /\ pumping = "handler" => phase = "running"
  /\ queue \in Seq(Item)
  /\ next_id \in Nat \ {0} /\ DOMAIN pending \subseteq 1..(next_id - 1)
  /\ pending = [id \in DOMAIN pending |-> pending[id]]
  /\ \A id \in DOMAIN pending : pending[id].item \in Item
  /\ counts \in Counters /\ fate \in [Work -> Fates]

(***************************************************************************)
(* Timers, entries and correlations are those of probes that are out, and  *)
(* there is room for these.                                                *)
(***************************************************************************)
OsTables ==
  /\ timers = DOMAIN pending /\ Cardinality(DOMAIN pending) <= MaxOutstanding
  /\ DOMAIN wire \subseteq DOMAIN pending /\ transport \in {"Linux", "Injected"}
  /\ {c.id : c \in correlations} = IF transport = "Linux" THEN DOMAIN wire ELSE {}

(***************************************************************************)
(* Every probe is in one place: waiting, out, or ended.                    *)
(***************************************************************************)
Waiting(q, w) == \E i \in DOMAIN q : q[i].work = w
Flying(m, w) == \E id \in DOMAIN m : m[id].item.work = w
DistinctWaiting(q) == \A i, j \in DOMAIN q : q[i].work = q[j].work => i = j
DistinctFlying(m) == \A i, j \in DOMAIN m : m[i].item.work = m[j].item.work => i = j

Placed(q, m, f) ==
  /\ DistinctWaiting(q) /\ DistinctFlying(m)
  /\ \A w \in Work : /\ Waiting(q, w) => ~Flying(m, w) /\ f[w] = "None"
                     /\ Flying(m, w) => f[w] = "None"
                     /\ Waiting(q, w) \/ Flying(m, w) \/ f[w] # "None"

Active == {"submitting", "submitted", "running", "returned"}

OsPlaces ==
  /\ phase \in Active => Placed(queue, pending, fate)
  /\ phase = "created" => /\ queue = <<>> /\ DOMAIN pending = {}
                          /\ result = NoResult /\ \A w \in Work : fate[w] = "None"

(***************************************************************************)
(* The counters follow the fates.                                          *)
(***************************************************************************)
Having(f, o) == {w \in Work : f[w] = o}

Tallied(c, f) ==
  /\ c.response = Cardinality(Having(f, "response"))
  /\ c.malformed = Cardinality(Having(f, "malformed"))
  /\ c.unsupported = Cardinality(Having(f, "unsupported"))
  /\ c.generated >= c.sent /\ c.timeout >= Cardinality(Having(f, "timeout"))

OsCounts == Tallied(counts, fate)

(***************************************************************************)
(* A result is final: nothing is left that could change a counter.  A      *)
(* probe that was not sent spoils the status, a cancelled one had its      *)
(* result, the reactor is stopped only with a result, and pump() never     *)
(* leaves probes waiting with none out.                                    *)
(***************************************************************************)
OsResult ==
  /\ result # NoResult => queue = <<>> /\ DOMAIN pending = {} /\ result.counts = counts
  /\ result.state = "Complete" => \A w \in Work : fate[w] \in {"response", "unsupported"}
  /\ \A w \in Work : fate[w] = "unsent" => status # "Ok"
  /\ \A w \in Work : fate[w] = "cancelled" => result # NoResult
  /\ phase = "running" /\ stopped => result # NoResult
  /\ phase \in {"submitted", "running"} /\ pumping = "no" /\ status = "Ok" /\ queue # <<>> =>
       DOMAIN pending # {}
  /\ phase = "returned" /\ status = "Ok" => result # NoResult

OsInv == OsTypes /\ OsTables /\ OsPlaces /\ OsCounts /\ OsResult

-----------------------------------------------------------------------------
(* Sequences and maps.                                                     *)

LEMMA TailFacts ==
  ASSUME NEW S, NEW q \in Seq(S), q # <<>>
  PROVE  /\ Head(q) \in S /\ Tail(q) \in Seq(S)
         /\ Len(q) \in Nat \ {0} /\ DOMAIN q = 1..Len(q) /\ Head(q) = q[1]
         /\ DOMAIN Tail(q) = 1..(Len(q) - 1)
         /\ \A i \in 1..(Len(q) - 1) : Tail(q)[i] = q[i + 1]
<1>1. Len(q) \in Nat \ {0} /\ DOMAIN q = 1..Len(q)
  BY EmptySeq
<1>2. Head(q) \in S /\ Tail(q) \in Seq(S) /\ Len(Tail(q)) = Len(q) - 1
  BY HeadTailProperties
<1>3. Head(q) = q[1]
  BY HeadTailProperties, SMT
<1>4. \A i \in 1..(Len(q) - 1) : Tail(q)[i] = q[i + 1]
  BY <1>1, SMT
<1> QED
  BY <1>1, <1>2, <1>3, <1>4

LEMMA WithFacts ==
  ASSUME NEW f, NEW x, NEW v
  PROVE  /\ DOMAIN With(f, x, v) = DOMAIN f \cup {x} /\ With(f, x, v)[x] = v
         /\ \A y \in DOMAIN f : y # x => With(f, x, v)[y] = f[y]
         /\ With(f, x, v) = [y \in DOMAIN With(f, x, v) |-> With(f, x, v)[y]]
BY DEF With

LEMMA WithoutFacts ==
  ASSUME NEW f, NEW x
  PROVE  /\ DOMAIN Without(f, x) = DOMAIN f \ {x}
         /\ \A y \in DOMAIN f \ {x} : Without(f, x)[y] = f[y]
         /\ Without(f, x) = [y \in DOMAIN Without(f, x) |-> Without(f, x)[y]]
BY DEF Without

LEMMA EmptyMapFacts ==
  /\ DOMAIN EmptyMap = {} /\ EmptyMap = [x \in DOMAIN EmptyMap |-> EmptyMap[x]]
  /\ \A f : f = [x \in DOMAIN f |-> f[x]] /\ DOMAIN f = {} => f = EmptyMap
BY DEF EmptyMap

LEMMA PendingFinite ==
  ASSUME OsTypes
  PROVE  IsFiniteSet(DOMAIN pending) /\ Cardinality(DOMAIN pending) \in Nat
<1>1. DOMAIN pending \subseteq 1..(next_id - 1) /\ next_id \in Nat \ {0}
  BY DEF OsTypes
<1>2. IsFiniteSet(1..(next_id - 1))
  BY <1>1, FS_Interval
<1>3. IsFiniteSet(DOMAIN pending)
  BY <1>1, <1>2, FS_Subset
<1> QED
  BY <1>3, FS_CardinalityType

LEMMA CountedFacts ==
  ASSUME NEW c \in Counters
  PROVE  \A k \in {"generated", "sent", "response", "timeout", "unsupported", "malformed"} :
           /\ Counted(c, k) \in Counters
           /\ Counted(c, k)[k] = c[k] + 1
           /\ \A l \in {"generated", "sent", "response", "timeout", "unsupported", "malformed"} :
                l # k => Counted(c, k)[l] = c[l]
BY DEF Counted, Counters

-----------------------------------------------------------------------------
(* The steps that move a probe.                                            *)

(***************************************************************************)
(* pump() ends the probe at the head of the queue without sending it.      *)
(***************************************************************************)
NotSentStep ==
  PumpUnsupported \/ PumpBuildFails \/ PumpTimerFails
    \/ \E error \in {"IoError", "PermissionDenied"} : PumpSubmitFails(error)

LEMMA NotSentFacts ==
  ASSUME OsTypes, NotSentStep
  PROVE  /\ PumpLoops /\ queue' = Tail(queue)
         /\ UNCHANGED <<phase, configVars, pending, result, timers, stopped, pumping, transportVars,
                        unheard>>
         /\ next_id' = next_id \/ next_id' = next_id + 1
         /\ \/ /\ fate' = [fate EXCEPT ![Head(queue).work] = "unsupported"]
               /\ counts' = Counted(counts, "unsupported") /\ status' = status
            \/ /\ fate' = [fate EXCEPT ![Head(queue).work] = "malformed"]
               /\ counts' = Counted(counts, "malformed") /\ status' = status
            \/ /\ fate' = [fate EXCEPT ![Head(queue).work] = "malformed"]
               /\ counts' = Counted(Counted(counts, "generated"), "malformed")
               /\ status' = "InternalError"
            \/ /\ fate' = [fate EXCEPT ![Head(queue).work] = "unsent"]
               /\ counts' = Counted(counts, "generated") /\ status' # "Ok"
<1>1. CASE PumpUnsupported
  BY <1>1 DEF PumpUnsupported, NotSent
<1>2. CASE PumpBuildFails
  BY <1>2 DEF PumpBuildFails, NotSent, Supported
<1>3. CASE PumpTimerFails
  BY <1>3 DEF PumpTimerFails, NotSent, Supported, Building
<1>4. ASSUME NEW error \in {"IoError", "PermissionDenied"}, PumpSubmitFails(error)
      PROVE  /\ PumpLoops /\ queue' = Tail(queue)
             /\ UNCHANGED <<phase, configVars, pending, result, timers, stopped, pumping,
                            transportVars, unheard>>
             /\ next_id' = next_id + 1
             /\ fate' = [fate EXCEPT ![Head(queue).work] = "unsent"]
             /\ counts' = Counted(counts, "generated") /\ status' # "Ok"
  BY <1>4 DEF PumpSubmitFails, NotSent, Supported, Building
<1> QED
  BY <1>1, <1>2, <1>3, <1>4 DEF NotSentStep

(***************************************************************************)
(* A probe that is out ends: it was answered, or its time is over.         *)
(***************************************************************************)
Ends(id) ==
  /\ id \in DOMAIN pending /\ Dispatching
  /\ pending' = Without(pending, id) /\ timers' = timers \ {id}
  /\ Erase(id) /\ pumping' = "handler"
  /\ UNCHANGED <<phase, configVars, next_id, result, status, stopped, sent>>

LEMMA ArrivalFacts ==
  ASSUME OsTables, NEW s, NEW kind, Arrives(s, kind)
  PROVE  \/ /\ UNCHANGED <<phase, configVars, schedulerVars, timers, stopped, pumping, fate, sent>>
            /\ \/ UNCHANGED <<wire, correlations>>
               \/ \E id \in DOMAIN wire : Erase(id)
         \/ \E id \in DOMAIN pending : \E o \in {"response", "malformed"} :
              /\ Ends(id) /\ UNCHANGED queue /\ counts' = Counted(counts, o)
              /\ fate' = [fate EXCEPT ![pending[id].item.work] = o]
<1>1. /\ Unmatched(s, kind) \/ \E id \in DOMAIN wire : Attributed(s, kind, id)
      /\ UNCHANGED <<phase, configVars, queue, next_id, result, status, stopped, sent>>
      /\ Dispatching
  BY DEF Arrives
<1>2. CASE Unmatched(s, kind)
  BY <1>1, <1>2 DEF Unmatched, schedulerVars
<1>3. ASSUME NEW id \in DOMAIN wire, Attributed(s, kind, id)
      PROVE  \/ UNCHANGED <<pending, timers, counts, fate, pumping, wire, correlations>>
             \/ UNCHANGED <<pending, timers, counts, fate, pumping>> /\ Erase(id)
             \/ \E disposition : receive(id, disposition) /\ Erase(id)
  BY <1>3 DEF Attributed
<1>4. ASSUME NEW id \in DOMAIN wire, NEW disposition, receive(id, disposition), Erase(id)
      PROVE  \E o \in {"response", "malformed"} :
               /\ Ends(id) /\ UNCHANGED queue /\ counts' = Counted(counts, o)
               /\ fate' = [fate EXCEPT ![pending[id].item.work] = o]
  <2> DEFINE o == IF disposition = "Malformed" THEN "malformed" ELSE "response"
  <2>1. /\ pending' = Without(pending, id) /\ timers' = timers \ {id} /\ pumping' = "handler"
        /\ counts' = Counted(counts, o) /\ fate' = [fate EXCEPT ![pending[id].item.work] = o]
    BY <1>4 DEF receive
  <2>2. Ends(id)
    BY <1>1, <1>4, <2>1 DEF Ends, OsTables
  <2> QED
    BY <1>1, <2>1, <2>2
<1> QED
  BY <1>1, <1>2, <1>3, <1>4 DEF schedulerVars, OsTables

LEMMA TimeoutFacts ==
  ASSUME OsTables, NEW id, on_timeout(id)
  PROVE  /\ Ends(id) /\ counts' = Counted(counts, "timeout")
         /\ \/ /\ queue' = <<[pending[id].item EXCEPT !.retry = @ + 1]>> \o queue
               /\ fate' = fate
            \/ /\ fate' = [fate EXCEPT ![pending[id].item.work] = "timeout"]
               /\ queue' = queue
BY DEF on_timeout, Ends, OsTables

-----------------------------------------------------------------------------
(* Types.                                                                  *)

LEMMA QueueBuilt ==
  ASSUME submit
  PROVE  /\ queue' \in Seq(Item) /\ queue' # <<>> /\ DOMAIN queue' = Work
         /\ \A i \in Work : queue'[i] = [work |-> i, retry |-> 0]
<1>1. Work = 1..Len(kProbeOrder) /\ Len(kProbeOrder) \in Nat /\ Len(kProbeOrder) # 0
  BY OsAssumption DEF Work
<1>2. queue' = [i \in 1..Len(kProbeOrder) |-> [work |-> i, retry |-> 0]]
  BY <1>1 DEF submit
<1>3. \A i \in 1..Len(kProbeOrder) : [work |-> i, retry |-> 0] \in Item
  BY <1>1 DEF Item
<1>4. queue' \in Seq(Item) /\ Len(queue') = Len(kProbeOrder)
  BY <1>1, <1>2, <1>3
<1>5. queue' # <<>>
  BY <1>1, <1>4
<1> QED
  BY <1>1, <1>2, <1>4, <1>5

LEMMA NextTypes == OsTypes /\ OsTables /\ [Next]_vars => OsTypes'
<1> SUFFICES ASSUME OsTypes, OsTables, [Next]_vars PROVE OsTypes'
  OBVIOUS
<1>1. ASSUME UNCHANGED <<phase, pumping, queue, next_id, pending, counts, fate>>
      PROVE  OsTypes'
  BY <1>1 DEF OsTypes
<1>2. CASE Setup
  <2>1. CASE submit
    <3>1. /\ phase' = "submitting" /\ pumping' = "submit"
          /\ UNCHANGED <<pending, next_id, counts, fate>>
      BY <2>1 DEF submit, historyVars
    <3> QED
      BY <2>1, <3>1, QueueBuilt DEF OsTypes
  <2>2. ASSUME NEW error, SubmitRefused(error) PROVE OsTypes'
    BY <2>2 DEF SubmitRefused, historyVars, OsTypes
  <2> QED
    BY <1>2, <2>1, <2>2 DEF Setup
<1>3. CASE PumpReturns
  BY <1>3 DEF PumpReturns, historyVars, OsTypes
<1>4. ASSUME PumpLoops PROVE queue # <<>> /\ Head(queue) \in Item /\ Tail(queue) \in Seq(Item)
                              /\ Head(queue).work \in Work
  <2>1. queue \in Seq(Item) /\ queue # <<>>
    BY <1>4 DEF PumpLoops, OsTypes
  <2>2. Head(queue) \in Item /\ Tail(queue) \in Seq(Item)
    BY <2>1, TailFacts
  <2> QED
    BY <2>1, <2>2 DEF Item
<1>5. CASE NotSentStep
  <2>1. /\ PumpLoops /\ queue' = Tail(queue) /\ UNCHANGED <<phase, pumping, pending>>
        /\ next_id' = next_id \/ next_id' = next_id + 1
        /\ \E o \in Fates : fate' = [fate EXCEPT ![Head(queue).work] = o]
    BY <1>5, NotSentFacts DEF Fates
  <2>2. counts' \in Counters
    <3>1. \/ counts' = Counted(counts, "unsupported") \/ counts' = Counted(counts, "malformed")
          \/ counts' = Counted(Counted(counts, "generated"), "malformed")
          \/ counts' = Counted(counts, "generated")
      BY <1>5, NotSentFacts
    <3>2. counts \in Counters
      BY DEF OsTypes
    <3> QED
      BY <3>1, <3>2, CountedFacts
  <2>3. fate' \in [Work -> Fates]
    BY <2>1 DEF OsTypes
  <2>4. next_id' \in Nat \ {0} /\ DOMAIN pending' \subseteq 1..(next_id' - 1)
    BY <2>1 DEF OsTypes
  <2> QED
    BY <1>4, <2>1, <2>2, <2>3, <2>4 DEF OsTypes
<1>6. CASE PumpSubmits
  <2> DEFINE item == Head(queue)
             entry == [item |-> item, submission |-> build(next_id, item.work)]
  <2>1. /\ PumpLoops /\ queue' = Tail(queue) /\ next_id' = next_id + 1
        /\ counts' = Counted(Counted(counts, "generated"), "sent")
        /\ pending' = With(pending, next_id, entry)
        /\ UNCHANGED <<phase, pumping, fate>>
    BY <1>6 DEF PumpSubmits, Building, Supported, historyVars
  <2>2. counts' \in Counters
    BY <2>1, CountedFacts DEF OsTypes
  <2>3. entry.item \in Item
    BY <1>4, <2>1
  <2> HIDE DEF entry
  <2>4. /\ DOMAIN pending' = DOMAIN pending \cup {next_id} /\ pending'[next_id] = entry
        /\ \A y \in DOMAIN pending : y # next_id => pending'[y] = pending[y]
        /\ pending' = [y \in DOMAIN pending' |-> pending'[y]]
    <3>1. pending' = With(pending, next_id, entry)
      BY <2>1
    <3> QED
      BY <3>1 DEF With
  <2>5. \A id \in DOMAIN pending' : pending'[id].item \in Item
    BY <2>3, <2>4 DEF OsTypes
  <2>6. next_id' \in Nat \ {0} /\ DOMAIN pending' \subseteq 1..(next_id' - 1)
    BY <2>1, <2>4 DEF OsTypes
  <2> QED
    BY <1>4, <2>1, <2>2, <2>4, <2>5, <2>6 DEF OsTypes
<1>7. CASE Run \/ RunReturns
  BY <1>7 DEF Run, RunReturns, Idle, schedulerVars, historyVars, OsTypes
<1>8. ASSUME NEW id, Ends(id), NEW k \in {"response", "malformed", "timeout"},
             counts' = Counted(counts, k), queue' \in Seq(Item),
             fate' = fate \/ \E o \in Fates : fate' = [fate EXCEPT ![pending[id].item.work] = o]
      PROVE  OsTypes'
  <2>1. /\ phase = "running" /\ id \in DOMAIN pending /\ pending' = Without(pending, id)
        /\ pumping' = "handler" /\ UNCHANGED <<phase, next_id>>
    BY <1>8 DEF Ends, Dispatching, Idle
  <2>2. /\ DOMAIN pending' = DOMAIN pending \ {id}
        /\ \A y \in DOMAIN pending \ {id} : pending'[y] = pending[y]
        /\ pending' = [y \in DOMAIN pending' |-> pending'[y]]
    <3>1. pending' = Without(pending, id)
      BY <2>1
    <3> QED
      BY <3>1 DEF Without
  <2>3. counts' \in Counters
    BY <1>8, CountedFacts DEF OsTypes
  <2>4. fate' \in [Work -> Fates]
    BY <1>8 DEF OsTypes
  <2> QED
    BY <1>8, <2>1, <2>2, <2>3, <2>4 DEF OsTypes
<1>9. ASSUME NEW s, NEW kind, Arrives(s, kind) PROVE OsTypes'
  <2>1. CASE UNCHANGED <<phase, configVars, schedulerVars, timers, stopped, pumping, fate, sent>>
    BY <1>1, <2>1 DEF schedulerVars
  <2>2. ASSUME NEW id \in DOMAIN pending, NEW o \in {"response", "malformed"},
               Ends(id), UNCHANGED queue, counts' = Counted(counts, o),
               fate' = [fate EXCEPT ![pending[id].item.work] = o]
        PROVE  OsTypes'
    <3>1. queue' \in Seq(Item) /\ o \in Fates
      BY <2>2 DEF OsTypes, Fates
    <3> QED
      BY <1>8, <2>2, <3>1
  <2> QED
    BY <1>9, <2>1, <2>2, ArrivalFacts
<1>10. ASSUME NEW id, on_timeout(id) PROVE OsTypes'
  <2>1. /\ Ends(id) /\ counts' = Counted(counts, "timeout") /\ id \in DOMAIN pending
        /\ \/ /\ queue' = <<[pending[id].item EXCEPT !.retry = @ + 1]>> \o queue
              /\ fate' = fate
           \/ /\ fate' = [fate EXCEPT ![pending[id].item.work] = "timeout"]
              /\ queue' = queue
    BY <1>10, TimeoutFacts DEF Ends
  <2>2. [pending[id].item EXCEPT !.retry = @ + 1] \in Item
    <3>1. pending[id].item \in Item
      BY <2>1 DEF OsTypes
    <3> QED
      BY <3>1 DEF Item
  <2>3. queue' \in Seq(Item) /\ "timeout" \in Fates
    <3>1. queue \in Seq(Item) /\ "timeout" \in Fates
      BY DEF OsTypes, Fates
    <3>2. PICK x \in Item : x = [pending[id].item EXCEPT !.retry = @ + 1]
      BY <2>2
    <3>3. <<x>> \o queue \in Seq(Item)
      BY <3>1
    <3> QED
      BY <2>1, <3>1, <3>2, <3>3
  <2> QED
    BY <1>8, <2>1, <2>3
<1>11. CASE stop
  <2>1. /\ phase = "running" /\ pumping = "no" /\ queue' = <<>> /\ pending' = EmptyMap
        /\ fate' = [w \in Work |-> IF fate[w] = "None" THEN "cancelled" ELSE fate[w]]
        /\ UNCHANGED <<phase, next_id, counts, pumping>>
    BY <1>11 DEF stop, Dispatching, Idle
  <2>2. fate' \in [Work -> Fates]
    BY <2>1 DEF OsTypes, Fates
  <2> QED
    BY <2>1, <2>2, EmptyMapFacts DEF OsTypes
<1>12. CASE Destroy
  BY <1>12, EmptyMapFacts DEF Destroy, historyVars, OsTypes
<1>13. CASE Waits \/ Terminated \/ UNCHANGED vars
  BY <1>1, <1>13 DEF Waits, Terminated, vars, schedulerVars, historyVars
<1> QED
  BY <1>2, <1>3, <1>5, <1>6, <1>7, <1>9, <1>10, <1>11, <1>12, <1>13
     DEF Next, pump, NotSentStep, Network, Deadline

-----------------------------------------------------------------------------
(* The tables.                                                             *)

LEMMA NextTables == OsTypes /\ OsTables /\ [Next]_vars => OsTables'
<1> SUFFICES ASSUME OsTypes, OsTables, [Next]_vars PROVE OsTables'
  OBVIOUS
<1>1. ASSUME UNCHANGED <<timers, pending, wire, correlations, transport>> PROVE OsTables'
  BY <1>1 DEF OsTables
<1>2. ASSUME NEW id, Erase(id)
      PROVE  /\ DOMAIN wire' = DOMAIN wire \ {id}
             /\ {c.id : c \in correlations'} = {c.id : c \in correlations} \ {id}
  <2>1. wire' = Without(wire, id) /\ correlations' = {c \in correlations : c.id # id}
    BY <1>2 DEF Erase
  <2>2. DOMAIN wire' = DOMAIN wire \ {id}
    BY <2>1 DEF Without
  <2>3. {c.id : c \in correlations'} = {c.id : c \in correlations} \ {id}
    BY <2>1
  <2> QED
    BY <2>2, <2>3
<1>3. ASSUME NEW id, Ends(id) PROVE OsTables'
  <2>1. /\ id \in DOMAIN pending /\ pending' = Without(pending, id) /\ timers' = timers \ {id}
        /\ Erase(id) /\ transport' = transport
    BY <1>3 DEF Ends, configVars
  <2>2. DOMAIN pending' = DOMAIN pending \ {id}
    BY <2>1 DEF Without
  <2>3. Cardinality(DOMAIN pending') <= MaxOutstanding
    <3>1. IsFiniteSet(DOMAIN pending) /\ Cardinality(DOMAIN pending) \in Nat
      BY PendingFinite
    <3>2. Cardinality(DOMAIN pending \ {id}) = Cardinality(DOMAIN pending) - 1
      BY <2>1, <3>1, FS_RemoveElement
    <3> QED
      BY <2>2, <3>1, <3>2, OsAssumption DEF OsTables
  <2>4. /\ DOMAIN wire' = DOMAIN wire \ {id}
        /\ {c.id : c \in correlations'} = {c.id : c \in correlations} \ {id}
    BY <1>2, <2>1
  <2> QED
    BY <2>1, <2>2, <2>3, <2>4 DEF OsTables
<1>4. CASE Setup \/ PumpReturns \/ Run \/ RunReturns
  BY <1>1, <1>4 DEF Setup, submit, SubmitRefused, PumpReturns, Run, RunReturns, schedulerVars,
     transportVars, configVars
<1>5. CASE NotSentStep
  BY <1>1, <1>5, NotSentFacts DEF transportVars, configVars
<1>6. CASE PumpSubmits
  <2>1. PICK entry, effective, key :
           /\ PumpLoops /\ pending' = With(pending, next_id, entry)
           /\ timers' = timers \cup {next_id} /\ wire' = With(wire, next_id, effective)
           /\ correlations' = IF transport = "Injected" THEN correlations
                              ELSE correlations \cup {[key |-> key, id |-> next_id]}
           /\ transport' = transport
    BY <1>6 DEF PumpSubmits, Building, Supported, configVars
  <2>2. DOMAIN pending' = DOMAIN pending \cup {next_id} /\ DOMAIN wire' = DOMAIN wire \cup {next_id}
    BY <2>1 DEF With
  <2>3. Cardinality(DOMAIN pending') <= MaxOutstanding
    <3>1. IsFiniteSet(DOMAIN pending) /\ Cardinality(DOMAIN pending) \in Nat
          /\ next_id \notin DOMAIN pending
      BY PendingFinite DEF OsTypes
    <3>2. Cardinality(DOMAIN pending \cup {next_id}) = Cardinality(DOMAIN pending) + 1
      BY <3>1, FS_AddElement
    <3> QED
      BY <2>1, <2>2, <3>1, <3>2, OsAssumption DEF PumpLoops
  <2>4. {c.id : c \in correlations'} = IF transport = "Linux" THEN DOMAIN wire' ELSE {}
    <3>1. CASE transport = "Injected"
      BY <2>1, <3>1 DEF OsTables
    <3>2. CASE transport # "Injected"
      <4>1. {c.id : c \in correlations'} = {c.id : c \in correlations} \cup {next_id}
        <5>1. correlations' = correlations \cup {[key |-> key, id |-> next_id]}
          BY <2>1, <3>2
        <5>2. [key |-> key, id |-> next_id].id = next_id
          OBVIOUS
        <5> QED
          BY <5>1, <5>2
      <4>2. transport = "Linux"
        BY <3>2 DEF OsTables
      <4> QED
        BY <2>2, <4>1, <4>2 DEF OsTables
    <3> QED
      BY <3>1, <3>2
  <2> QED
    BY <2>1, <2>2, <2>3, <2>4 DEF OsTables
<1>7. ASSUME NEW s, NEW kind, Arrives(s, kind) PROVE OsTables'
  <2>1. CASE /\ UNCHANGED <<phase, configVars, schedulerVars, timers, stopped, pumping, fate, sent>>
             /\ UNCHANGED <<wire, correlations>>
    BY <1>1, <2>1 DEF schedulerVars, configVars
  <2>2. ASSUME UNCHANGED <<phase, configVars, schedulerVars, timers, stopped, pumping, fate, sent>>,
               NEW id \in DOMAIN wire, Erase(id)
        PROVE  OsTables'
    <3>1. UNCHANGED <<timers, pending, transport>>
      BY <2>2 DEF schedulerVars, configVars
    <3> QED
      BY <1>2, <2>2, <3>1 DEF OsTables
  <2> QED
    BY <1>3, <1>7, <2>1, <2>2, ArrivalFacts
<1>8. ASSUME NEW id, on_timeout(id) PROVE OsTables'
  BY <1>3, <1>8, TimeoutFacts
<1>9. CASE stop \/ Destroy
  <2>1. /\ timers' = timers \ DOMAIN pending /\ pending' = EmptyMap /\ wire' = EmptyMap
        /\ correlations' = {} /\ transport' = transport
    BY <1>9 DEF stop, Destroy, configVars
  <2>2. timers' = {} /\ DOMAIN pending' = {} /\ DOMAIN wire' = {}
    BY <2>1, EmptyMapFacts DEF OsTables
  <2>3. Cardinality({}) = 0 /\ MaxOutstanding \in Nat
    BY FS_EmptySet, OsAssumption
  <2> QED
    BY <2>1, <2>2, <2>3 DEF OsTables
<1>10. CASE Waits \/ Terminated \/ UNCHANGED vars
  BY <1>1, <1>10 DEF Waits, Terminated, vars, schedulerVars, transportVars, configVars
<1> QED
  BY <1>4, <1>5, <1>6, <1>7, <1>8, <1>9, <1>10 DEF Next, pump, NotSentStep, Network, Deadline

-----------------------------------------------------------------------------
(* Every probe in one place.                                               *)

(***************************************************************************)
(* What taking the head of the queue, putting one at the head, and adding  *)
(* or removing a probe that is out do to who waits and who is out.         *)
(***************************************************************************)
LEMMA HeadTaken ==
  ASSUME NEW q \in Seq(Item), q # <<>>, DistinctWaiting(q)
  PROVE  /\ DistinctWaiting(Tail(q)) /\ Waiting(q, Head(q).work)
         /\ \A w : Waiting(Tail(q), w) <=> Waiting(q, w) /\ w # Head(q).work
<1>1. /\ Len(q) \in Nat \ {0} /\ DOMAIN q = 1..Len(q) /\ Head(q) = q[1]
      /\ DOMAIN Tail(q) = 1..(Len(q) - 1)
      /\ \A i \in 1..(Len(q) - 1) : Tail(q)[i] = q[i + 1]
  BY TailFacts
<1>2. DistinctWaiting(Tail(q))
  BY <1>1 DEF DistinctWaiting
<1>3. Waiting(q, Head(q).work)
  BY <1>1 DEF Waiting
<1>4. ASSUME NEW w, Waiting(Tail(q), w) PROVE Waiting(q, w) /\ w # Head(q).work
  <2>1. PICK i \in 1..(Len(q) - 1) : q[i + 1].work = w
    BY <1>1, <1>4 DEF Waiting
  <2>2. i + 1 \in DOMAIN q /\ 1 \in DOMAIN q /\ i + 1 # 1
    BY <1>1
  <2> QED
    BY <1>1, <2>1, <2>2 DEF Waiting, DistinctWaiting
<1>5. ASSUME NEW w, Waiting(q, w), w # Head(q).work PROVE Waiting(Tail(q), w)
  <2>1. PICK i \in 1..Len(q) : q[i].work = w
    BY <1>1, <1>5 DEF Waiting
  <2>2. i # 1
    BY <1>1, <1>5, <2>1
  <2>3. i - 1 \in 1..(Len(q) - 1) /\ (i - 1) + 1 = i
    BY <1>1, <2>2
  <2>4. Tail(q)[i - 1] = q[i]
    BY <1>1, <2>3
  <2> QED
    BY <1>1, <2>1, <2>3, <2>4 DEF Waiting
<1> QED
  BY <1>2, <1>3, <1>4, <1>5

LEMMA HeadPut ==
  ASSUME NEW q \in Seq(Item), NEW x \in Item, DistinctWaiting(q), ~Waiting(q, x.work)
  PROVE  /\ DistinctWaiting(<<x>> \o q)
         /\ \A w : Waiting(<<x>> \o q, w) <=> Waiting(q, w) \/ w = x.work
<1> DEFINE r == <<x>> \o q
<1>1. /\ Len(q) \in Nat /\ DOMAIN q = 1..Len(q) /\ DOMAIN r = 1..(Len(q) + 1)
      /\ r[1] = x /\ \A i \in 1..Len(q) : r[i + 1] = q[i]
  OBVIOUS
<1>2. \A i \in 1..(Len(q) + 1) : i = 1 \/ (i - 1 \in 1..Len(q) /\ (i - 1) + 1 = i)
  BY <1>1
<1> HIDE DEF r
<1>3. \A i \in DOMAIN r : i = 1 \/ (i - 1 \in DOMAIN q /\ r[i] = q[i - 1])
  BY <1>1, <1>2
<1>4. DistinctWaiting(r)
  <2> SUFFICES ASSUME NEW i \in DOMAIN r, NEW j \in DOMAIN r, r[i].work = r[j].work
               PROVE  i = j
    BY DEF DistinctWaiting
  <2>1. CASE i # 1 /\ j # 1
    <3>1. i - 1 = j - 1
      BY <1>3, <2>1 DEF DistinctWaiting
    <3>2. i \in Int /\ j \in Int
      BY <1>1
    <3> QED
      BY <3>1, <3>2
  <2>2. CASE i = 1 \/ j = 1
    BY <1>1, <1>3, <2>2 DEF Waiting
  <2> QED
    BY <2>1, <2>2
<1>5. ASSUME NEW w, Waiting(r, w) PROVE Waiting(q, w) \/ w = x.work
  BY <1>1, <1>3, <1>5 DEF Waiting
<1>6. ASSUME NEW w, Waiting(q, w) \/ w = x.work PROVE Waiting(r, w)
  <2>1. 1 \in DOMAIN r /\ \A i \in DOMAIN q : i + 1 \in DOMAIN r
    BY <1>1
  <2> QED
    BY <1>1, <1>6, <2>1 DEF Waiting
<1> QED
  BY <1>4, <1>5, <1>6 DEF r

LEMMA FlightAdded ==
  ASSUME NEW m, NEW n, n \notin DOMAIN m, NEW e, DistinctFlying(m), ~Flying(m, e.item.work)
  PROVE  /\ DistinctFlying(With(m, n, e))
         /\ \A w : Flying(With(m, n, e), w) <=> Flying(m, w) \/ w = e.item.work
<1>1. PICK r : r = With(m, n, e)
  OBVIOUS
<1>2. /\ DOMAIN r = DOMAIN m \cup {n} /\ r[n] = e
      /\ \A y \in DOMAIN m : r[y] = m[y]
  BY <1>1 DEF With
<1> QED
  BY <1>1, <1>2 DEF DistinctFlying, Flying

LEMMA FlightRemoved ==
  ASSUME NEW m, NEW n \in DOMAIN m, DistinctFlying(m)
  PROVE  /\ DistinctFlying(Without(m, n)) /\ Flying(m, m[n].item.work)
         /\ \A w : Flying(Without(m, n), w) <=> Flying(m, w) /\ w # m[n].item.work
<1>1. PICK r : r = Without(m, n)
  OBVIOUS
<1>2. DOMAIN r = DOMAIN m \ {n} /\ \A y \in DOMAIN m \ {n} : r[y] = m[y]
  BY <1>1 DEF Without
<1> QED
  BY <1>1, <1>2 DEF DistinctFlying, Flying

LEMMA NextPlaces == OsTypes /\ OsTables /\ OsPlaces /\ [Next]_vars => OsPlaces'
<1> SUFFICES ASSUME OsTypes, OsTables, OsPlaces, [Next]_vars PROVE OsPlaces'
  OBVIOUS
<1>1. ASSUME UNCHANGED <<queue, pending, fate>>, phase' # "created",
             phase' \in Active => phase \in Active
      PROVE  OsPlaces'
  BY <1>1 DEF OsPlaces, Placed, DistinctWaiting, DistinctFlying, Waiting, Flying
<1>2. CASE submit
  <2>1. /\ phase = "created" /\ phase' = "submitting" /\ UNCHANGED <<pending, fate>>
    BY <1>2 DEF submit, historyVars
  <2>2. DOMAIN queue' = Work /\ \A i \in Work : queue'[i].work = i
    BY <1>2, QueueBuilt
  <2>3. DOMAIN pending' = {} /\ \A w \in Work : fate'[w] = "None"
    BY <2>1 DEF OsPlaces
  <2>4. PICK q : q = queue'
    OBVIOUS
  <2>5. PICK m : m = pending'
    OBVIOUS
  <2>6. Placed(q, m, fate')
    BY <2>2, <2>3, <2>4, <2>5 DEF Placed, DistinctWaiting, DistinctFlying, Waiting, Flying
  <2> QED
    BY <2>1, <2>4, <2>5, <2>6 DEF OsPlaces, Placed, DistinctWaiting, DistinctFlying, Waiting, Flying
<1>3. CASE \E error : SubmitRefused(error)
  BY <1>1, <1>3 DEF SubmitRefused, historyVars, Active
<1>4. CASE PumpReturns
  BY <1>1, <1>4 DEF PumpReturns, historyVars, Active, OsTypes
<1>5. ASSUME PumpLoops
      PROVE  /\ phase \in Active /\ phase # "created" /\ queue \in Seq(Item) /\ queue # <<>>
             /\ Placed(queue, pending, fate) /\ Head(queue).work \in Work
  <2>1. /\ phase \in Active /\ phase # "created" /\ queue \in Seq(Item) /\ queue # <<>>
    BY <1>5 DEF PumpLoops, OsTypes, Active
  <2>2. Head(queue) \in Item
    BY <2>1, TailFacts
  <2>3. Head(queue).work \in Work
    BY <2>2 DEF Item
  <2> QED
    BY <2>1, <2>3 DEF OsPlaces
<1>6. ASSUME phase' \in Active, phase' # "created",
             NEW q, queue' = q, NEW m, pending' = m, NEW f, fate' = f, Placed(q, m, f)
      PROVE  OsPlaces'
  BY <1>6 DEF OsPlaces, Placed, DistinctWaiting, DistinctFlying, Waiting, Flying
<1>7. CASE NotSentStep
  <2>1. /\ PumpLoops /\ queue' = Tail(queue) /\ pending' = pending /\ phase' = phase
        /\ \E o : o # "None" /\ fate' = [fate EXCEPT ![Head(queue).work] = o]
    BY <1>7, NotSentFacts
  <2>2. PICK o : o # "None" /\ fate' = [fate EXCEPT ![Head(queue).work] = o]
    BY <2>1
  <2>3. PICK f : f = [fate EXCEPT ![Head(queue).work] = o]
    OBVIOUS
  <2>4. \A w \in Work : f[w] = IF w = Head(queue).work THEN o ELSE fate[w]
    BY <2>3 DEF OsTypes
  <2>5. /\ DistinctWaiting(Tail(queue)) /\ Waiting(queue, Head(queue).work)
        /\ \A w : Waiting(Tail(queue), w) <=> Waiting(queue, w) /\ w # Head(queue).work
    BY <1>5, <2>1, HeadTaken DEF Placed
  <2>6. Placed(Tail(queue), pending, f)
    BY <1>5, <2>1, <2>2, <2>4, <2>5 DEF Placed
  <2> QED
    BY <1>5, <1>6, <2>1, <2>2, <2>3, <2>6
<1>8. CASE PumpSubmits
  <2>1. PICK e : /\ PumpLoops /\ queue' = Tail(queue) /\ e.item = Head(queue)
                 /\ pending' = With(pending, next_id, e) /\ phase' = phase /\ fate' = fate
    <3> DEFINE x == [item |-> Head(queue), submission |-> build(next_id, Head(queue).work)]
    <3>1. /\ PumpLoops /\ queue' = Tail(queue) /\ x.item = Head(queue)
          /\ pending' = With(pending, next_id, x) /\ phase' = phase /\ fate' = fate
      BY <1>8 DEF PumpSubmits, Building, Supported, historyVars
    <3> QED
      BY <3>1
  <2>2. next_id \notin DOMAIN pending
    BY DEF OsTypes
  <2>3. /\ DistinctWaiting(Tail(queue)) /\ Waiting(queue, Head(queue).work)
        /\ \A w : Waiting(Tail(queue), w) <=> Waiting(queue, w) /\ w # Head(queue).work
    BY <1>5, <2>1, HeadTaken DEF Placed
  <2>4. ~Flying(pending, e.item.work) /\ fate[Head(queue).work] = "None"
    BY <1>5, <2>1, <2>3 DEF Placed
  <2>5. /\ DistinctFlying(With(pending, next_id, e))
        /\ \A w : Flying(With(pending, next_id, e), w) <=> Flying(pending, w) \/ w = e.item.work
    BY <1>5, <2>1, <2>2, <2>4, FlightAdded DEF Placed
  <2>6. Placed(Tail(queue), With(pending, next_id, e), fate)
    BY <1>5, <2>1, <2>3, <2>4, <2>5 DEF Placed
  <2> QED
    BY <1>5, <1>6, <2>1, <2>6
<1>9. CASE Run \/ RunReturns
  BY <1>1, <1>9 DEF Run, RunReturns, Idle, schedulerVars, historyVars, Active
<1>10. ASSUME NEW id, Ends(id)
       PROVE  /\ phase' \in Active /\ phase' # "created" /\ Placed(queue, pending, fate)
              /\ pending' = Without(pending, id) /\ pending[id].item \in Item
              /\ DistinctFlying(Without(pending, id)) /\ Flying(pending, pending[id].item.work)
              /\ \A w : Flying(Without(pending, id), w) <=>
                          Flying(pending, w) /\ w # pending[id].item.work
  <2>1. /\ id \in DOMAIN pending /\ pending' = Without(pending, id) /\ phase = "running"
        /\ phase' = phase
    BY <1>10 DEF Ends, Dispatching, Idle
  <2>2. Placed(queue, pending, fate)
    BY <2>1 DEF OsPlaces, Active
  <2>3. pending[id].item \in Item
    BY <2>1 DEF OsTypes
  <2>4. DistinctFlying(pending)
    BY <2>2 DEF Placed
  <2>5. /\ DistinctFlying(Without(pending, id)) /\ Flying(pending, pending[id].item.work)
        /\ \A w : Flying(Without(pending, id), w) <=>
                    Flying(pending, w) /\ w # pending[id].item.work
    BY <2>1, <2>4, FlightRemoved
  <2> QED
    BY <2>1, <2>2, <2>3, <2>5 DEF Active
<1>11. ASSUME NEW id, Ends(id), queue' = queue, NEW o, o # "None",
              fate' = [fate EXCEPT ![pending[id].item.work] = o]
       PROVE  OsPlaces'
  <2>1. pending[id].item.work \in Work
    BY <1>10, <1>11 DEF Item
  <2>2. PICK f : f = [fate EXCEPT ![pending[id].item.work] = o]
    OBVIOUS
  <2>3. \A w \in Work : f[w] = IF w = pending[id].item.work THEN o ELSE fate[w]
    BY <2>2 DEF OsTypes
  <2>4. Placed(queue, Without(pending, id), f)
    BY <1>10, <1>11, <2>1, <2>3 DEF Placed
  <2>5. pending' = Without(pending, id) /\ phase' \in Active /\ phase' # "created"
    BY <1>10, <1>11
  <2>6. queue' = queue /\ fate' = f
    BY <1>11, <2>2
  <2> QED
    BY <1>6, <2>4, <2>5, <2>6
<1>12. ASSUME NEW s, NEW kind, Arrives(s, kind) PROVE OsPlaces'
  <2>1. CASE UNCHANGED <<phase, configVars, schedulerVars, timers, stopped, pumping, fate, sent>>
    <3>1. phase = "running" /\ UNCHANGED <<phase, queue, pending, fate>>
      BY <1>12, <2>1 DEF schedulerVars, Arrives, Dispatching, Idle
    <3> QED
      BY <1>1, <3>1
  <2>2. ASSUME NEW id \in DOMAIN pending, NEW o \in {"response", "malformed"},
               Ends(id), UNCHANGED queue, fate' = [fate EXCEPT ![pending[id].item.work] = o]
        PROVE  OsPlaces'
    BY <1>11, <2>2
  <2> QED
    BY <1>12, <2>1, <2>2, ArrivalFacts
<1>13. ASSUME NEW id, on_timeout(id) PROVE OsPlaces'
  <2>1. /\ Ends(id)
        /\ \/ /\ queue' = <<[pending[id].item EXCEPT !.retry = @ + 1]>> \o queue
              /\ fate' = fate
           \/ /\ fate' = [fate EXCEPT ![pending[id].item.work] = "timeout"]
              /\ queue' = queue
    BY <1>13, TimeoutFacts
  <2>2. CASE queue' = queue /\ fate' = [fate EXCEPT ![pending[id].item.work] = "timeout"]
    BY <1>11, <2>1, <2>2
  <2>3. CASE queue' = <<[pending[id].item EXCEPT !.retry = @ + 1]>> \o queue /\ fate' = fate
    <3>1. PICK x : x = [pending[id].item EXCEPT !.retry = @ + 1]
      OBVIOUS
    <3>2. x \in Item /\ x.work = pending[id].item.work /\ x.work \in Work
      BY <1>10, <2>1, <3>1 DEF Item
    <3>3. queue \in Seq(Item)
      BY DEF OsTypes
    <3>4. DistinctWaiting(queue) /\ ~Waiting(queue, x.work)
      BY <1>10, <2>1, <3>2 DEF Placed
    <3>5. /\ DistinctWaiting(<<x>> \o queue)
          /\ \A w : Waiting(<<x>> \o queue, w) <=> Waiting(queue, w) \/ w = x.work
      BY <3>2, <3>3, <3>4, HeadPut
    <3>6. Placed(<<x>> \o queue, Without(pending, id), fate)
      BY <1>10, <2>1, <3>2, <3>5 DEF Placed
    <3>7. pending' = Without(pending, id) /\ phase' \in Active /\ phase' # "created"
      BY <1>10, <2>1
    <3>8. queue' = <<x>> \o queue /\ fate' = fate
      BY <2>3, <3>1
    <3> QED
      BY <1>6, <3>6, <3>7, <3>8
  <2> QED
    BY <2>1, <2>2, <2>3
<1>14. CASE stop
  <2>1. /\ phase = "running" /\ phase' = phase /\ queue' = <<>> /\ pending' = EmptyMap
        /\ fate' = [w \in Work |-> IF fate[w] = "None" THEN "cancelled" ELSE fate[w]]
    BY <1>14 DEF stop, Dispatching, Idle
  <2>2. PICK f : f = [w \in Work |-> IF fate[w] = "None" THEN "cancelled" ELSE fate[w]]
    OBVIOUS
  <2>3. \A w \in Work : f[w] # "None"
    BY <2>2
  <2>4. DOMAIN <<>> = {}
    OBVIOUS
  <2>5. Placed(<<>>, EmptyMap, f)
    BY <2>3, <2>4, EmptyMapFacts DEF Placed, DistinctWaiting, DistinctFlying, Waiting, Flying
  <2> QED
    BY <1>6, <2>1, <2>2, <2>5 DEF Active
<1>15. CASE Destroy
  BY <1>15 DEF Destroy, OsPlaces, Active
<1>16. CASE Waits \/ Terminated \/ UNCHANGED vars
  <2>1. UNCHANGED <<phase, queue, pending, fate, result>>
    BY <1>16 DEF Waits, Terminated, vars, schedulerVars, historyVars
  <2> QED
    BY <2>1 DEF OsPlaces, Placed, DistinctWaiting, DistinctFlying, Waiting, Flying
<1> QED
  BY <1>2, <1>3, <1>4, <1>7, <1>8, <1>9, <1>12, <1>13, <1>14, <1>15, <1>16
     DEF Next, Setup, pump, NotSentStep, Network, Deadline

-----------------------------------------------------------------------------
(* The counters.                                                           *)

LEMMA HavingFinite ==
  ASSUME NEW f, NEW o
  PROVE  IsFiniteSet(Having(f, o)) /\ Cardinality(Having(f, o)) \in Nat
<1>1. Work = 1..Len(kProbeOrder) /\ Len(kProbeOrder) \in Nat
  BY OsAssumption DEF Work
<1>2. IsFiniteSet(Work)
  BY <1>1, FS_Interval
<1>3. IsFiniteSet(Having(f, o))
  BY <1>2, FS_Subset DEF Having
<1> QED
  BY <1>3, FS_CardinalityType

(***************************************************************************)
(* A probe without a fate gets one: that fate's count grows by one, those  *)
(* of the others stay.                                                     *)
(***************************************************************************)
LEMMA FateGiven ==
  ASSUME NEW f \in [Work -> Fates], NEW v \in Work, f[v] = "None", NEW o, o # "None",
         NEW g, \A w \in Work : g[w] = IF w = v THEN o ELSE f[w]
  PROVE  /\ Cardinality(Having(g, o)) = Cardinality(Having(f, o)) + 1
         /\ \A p : p # o /\ p # "None" => Having(g, p) = Having(f, p)
<1>1. \A w \in Work : g[w] = IF w = v THEN o ELSE f[w]
  OBVIOUS
<1>2. Having(g, o) = Having(f, o) \cup {v} /\ v \notin Having(f, o)
  BY <1>1 DEF Having
<1>3. \A p : p # o /\ p # "None" => Having(g, p) = Having(f, p)
  BY <1>1 DEF Having
<1> QED
  BY <1>2, <1>3, HavingFinite, FS_AddElement

LEMMA TallyKept ==
  ASSUME NEW c \in Counters, NEW f, Tallied(c, f)
  PROVE  /\ Tallied(Counted(c, "generated"), f) /\ Tallied(Counted(c, "timeout"), f)
         /\ Tallied(Counted(Counted(c, "generated"), "sent"), f)
<1>1. c.generated \in Nat /\ c.sent \in Nat /\ c.timeout \in Nat
  BY DEF Counters
<1>2. Cardinality(Having(f, "timeout")) \in Nat
  BY HavingFinite
<1>3. Tallied(Counted(c, "generated"), f)
  BY <1>1, CountedFacts DEF Tallied
<1>4. Tallied(Counted(c, "timeout"), f)
  BY <1>1, <1>2, CountedFacts DEF Tallied
<1>5. PICK d \in Counters : d = Counted(c, "generated") /\ d.generated = c.generated + 1
                            /\ d.sent = c.sent /\ d.timeout = c.timeout
                            /\ d.response = c.response /\ d.malformed = c.malformed
                            /\ d.unsupported = c.unsupported
  BY CountedFacts
<1>6. PICK e \in Counters : e = Counted(d, "sent") /\ e.generated = d.generated
                            /\ e.sent = d.sent + 1 /\ e.timeout = d.timeout
                            /\ e.response = d.response /\ e.malformed = d.malformed
                            /\ e.unsupported = d.unsupported
  BY CountedFacts
<1>7. Tallied(e, f)
  BY <1>1, <1>5, <1>6 DEF Tallied
<1> QED
  BY <1>3, <1>4, <1>5, <1>6, <1>7

LEMMA TallyMoved ==
  ASSUME NEW c \in Counters, NEW f \in [Work -> Fates], Tallied(c, f),
         NEW v \in Work, f[v] = "None"
  PROVE  /\ \A o \in {"response", "malformed", "unsupported", "timeout"} :
              Tallied(Counted(c, o), [f EXCEPT ![v] = o])
         /\ Tallied(c, [f EXCEPT ![v] = "unsent"])
<1>1. ASSUME NEW o \in {"response", "malformed", "unsupported", "timeout"}
      PROVE  Tallied(Counted(c, o), [f EXCEPT ![v] = o])
  <2>1. PICK g : g = [f EXCEPT ![v] = o]
    OBVIOUS
  <2>2. /\ Cardinality(Having(g, o)) = Cardinality(Having(f, o)) + 1
        /\ \A p : p # o /\ p # "None" => Having(g, p) = Having(f, p)
    <3>1. \A w \in Work : g[w] = IF w = v THEN o ELSE f[w]
      BY <2>1
    <3>2. o # "None"
      OBVIOUS
    <3> QED
      BY <3>1, <3>2, FateGiven
  <2>3. PICK d : /\ d = Counted(c, o) /\ d[o] = c[o] + 1
                 /\ \A l \in {"generated", "sent", "response", "timeout", "unsupported", "malformed"} :
                      l # o => d[l] = c[l]
    BY CountedFacts
  <2>4. Cardinality(Having(f, "timeout")) \in Nat /\ c.timeout \in Nat
    BY HavingFinite DEF Counters
  <2>5. Tallied(d, g)
    <3>1. CASE o = "response"
      BY <2>2, <2>3, <3>1 DEF Tallied
    <3>2. CASE o = "malformed"
      BY <2>2, <2>3, <3>2 DEF Tallied
    <3>3. CASE o = "unsupported"
      BY <2>2, <2>3, <3>3 DEF Tallied
    <3>4. CASE o = "timeout"
      BY <2>2, <2>3, <2>4, <3>4 DEF Tallied
    <3> QED
      BY <3>1, <3>2, <3>3, <3>4
  <2> QED
    BY <2>1, <2>3, <2>5
<1>2. Tallied(c, [f EXCEPT ![v] = "unsent"])
  <2>1. PICK g : g = [f EXCEPT ![v] = "unsent"]
    OBVIOUS
  <2>2. \A p : p # "unsent" /\ p # "None" => Having(g, p) = Having(f, p)
    <3>1. \A w \in Work : g[w] = IF w = v THEN "unsent" ELSE f[w]
      BY <2>1
    <3> QED
      BY <3>1, FateGiven
  <2>3. Tallied(c, g)
    BY <2>2 DEF Tallied
  <2> QED
    BY <2>1, <2>3
<1> QED
  BY <1>1, <1>2

LEMMA NextCounts ==
  OsTypes /\ OsTables /\ OsPlaces /\ OsCounts /\ [Next]_vars => OsCounts'
<1> SUFFICES ASSUME OsTypes, OsTables, OsPlaces, OsCounts, [Next]_vars PROVE OsCounts'
  OBVIOUS
<1>1. ASSUME UNCHANGED <<counts, fate>> PROVE OsCounts'
  BY <1>1 DEF OsCounts, Tallied, Having
<1>2. ASSUME NEW c, counts' = c, NEW f, fate' = f, Tallied(c, f) PROVE OsCounts'
  BY <1>2 DEF OsCounts, Tallied, Having
<1>3. counts \in Counters /\ fate \in [Work -> Fates] /\ Tallied(counts, fate)
  BY DEF OsTypes, OsCounts
<1>4. CASE Setup \/ PumpReturns \/ Run \/ RunReturns \/ Destroy
  BY <1>1, <1>4 DEF Setup, submit, SubmitRefused, PumpReturns, Run, RunReturns, Destroy,
     schedulerVars, historyVars
<1>5. CASE NotSentStep
  <2> DEFINE v == Head(queue).work
  <2>1. queue \in Seq(Item) /\ queue # <<>> /\ phase \in Active
    BY <1>5, NotSentFacts DEF PumpLoops, OsTypes, Active
  <2>2. v \in Work /\ Waiting(queue, v)
    <3>1. Head(queue) \in Item /\ DOMAIN queue = 1..Len(queue) /\ Len(queue) \in Nat \ {0}
          /\ Head(queue) = queue[1]
      BY <2>1, TailFacts
    <3> QED
      BY <3>1 DEF Waiting, Item
  <2>3. fate[v] = "None"
    BY <2>1, <2>2 DEF OsPlaces, Placed
  <2>4. PICK d : d = Counted(counts, "generated")
    OBVIOUS
  <2>5. d \in Counters /\ Tallied(d, fate)
    BY <1>3, <2>4, CountedFacts, TallyKept
  <2>6. \/ counts' = Counted(counts, "unsupported") /\ fate' = [fate EXCEPT ![v] = "unsupported"]
        \/ counts' = Counted(counts, "malformed") /\ fate' = [fate EXCEPT ![v] = "malformed"]
        \/ counts' = Counted(d, "malformed") /\ fate' = [fate EXCEPT ![v] = "malformed"]
        \/ counts' = d /\ fate' = [fate EXCEPT ![v] = "unsent"]
    BY <1>5, <2>4, NotSentFacts
  <2> HIDE DEF v
  <2>7. /\ Tallied(Counted(counts, "unsupported"), [fate EXCEPT ![v] = "unsupported"])
        /\ Tallied(Counted(counts, "malformed"), [fate EXCEPT ![v] = "malformed"])
        /\ Tallied(Counted(d, "malformed"), [fate EXCEPT ![v] = "malformed"])
        /\ Tallied(d, [fate EXCEPT ![v] = "unsent"])
    BY <1>3, <2>2, <2>3, <2>5, TallyMoved
  <2> QED
    BY <1>2, <2>6, <2>7
<1>6. CASE PumpSubmits
  <2>1. counts' = Counted(Counted(counts, "generated"), "sent") /\ fate' = fate
    BY <1>6 DEF PumpSubmits, historyVars
  <2> QED
    BY <1>2, <1>3, <2>1, TallyKept
<1>7. ASSUME NEW id, Ends(id)
      PROVE  pending[id].item.work \in Work /\ fate[pending[id].item.work] = "None"
  <2>1. id \in DOMAIN pending /\ phase = "running"
    BY <1>7 DEF Ends, Dispatching, Idle
  <2>2. pending[id].item.work \in Work
    BY <2>1 DEF OsTypes, Item
  <2> QED
    BY <2>1, <2>2 DEF OsPlaces, Active, Placed, Flying
<1>8. ASSUME NEW id, Ends(id), NEW o \in {"response", "malformed", "timeout"},
             counts' = Counted(counts, o), fate' = [fate EXCEPT ![pending[id].item.work] = o]
      PROVE  OsCounts'
  <2>1. Tallied(Counted(counts, o), [fate EXCEPT ![pending[id].item.work] = o])
    BY <1>3, <1>7, <1>8, TallyMoved
  <2> QED
    BY <1>2, <1>8, <2>1
<1>9. ASSUME NEW s, NEW kind, Arrives(s, kind) PROVE OsCounts'
  <2>1. CASE UNCHANGED <<phase, configVars, schedulerVars, timers, stopped, pumping, fate, sent>>
    BY <1>1, <2>1 DEF schedulerVars
  <2>2. CASE \E id \in DOMAIN pending : \E o \in {"response", "malformed"} :
               /\ Ends(id) /\ UNCHANGED queue /\ counts' = Counted(counts, o)
               /\ fate' = [fate EXCEPT ![pending[id].item.work] = o]
    BY <1>8, <2>2
  <2> QED
    BY <1>9, <2>1, <2>2, ArrivalFacts
<1>10. ASSUME NEW id, on_timeout(id) PROVE OsCounts'
  <2>1. /\ Ends(id) /\ counts' = Counted(counts, "timeout")
        /\ fate' = fate \/ fate' = [fate EXCEPT ![pending[id].item.work] = "timeout"]
    BY <1>10, TimeoutFacts
  <2>2. CASE fate' = fate
    BY <1>2, <1>3, <2>1, <2>2, TallyKept
  <2>3. CASE fate' = [fate EXCEPT ![pending[id].item.work] = "timeout"]
    BY <1>8, <2>1, <2>3
  <2> QED
    BY <2>1, <2>2, <2>3
<1>11. CASE stop
  <2>1. PICK f : f = [w \in Work |-> IF fate[w] = "None" THEN "cancelled" ELSE fate[w]]
    OBVIOUS
  <2>2. counts' = counts /\ fate' = f
    BY <1>11, <2>1 DEF stop
  <2>3. \A o : o # "None" /\ o # "cancelled" => Having(f, o) = Having(fate, o)
    BY <2>1 DEF Having
  <2>4. Tallied(counts, f)
    BY <1>3, <2>3 DEF Tallied
  <2> QED
    BY <1>2, <2>2, <2>4
<1>12. CASE Waits \/ Terminated \/ UNCHANGED vars
  BY <1>1, <1>12 DEF Waits, Terminated, vars, schedulerVars, historyVars
<1> QED
  BY <1>4, <1>5, <1>6, <1>9, <1>10, <1>11, <1>12 DEF Next, pump, NotSentStep, Network, Deadline

-----------------------------------------------------------------------------
(* The result.                                                             *)

LEMMA ResultShape ==
  /\ NoResult.state = "None"
  /\ \A v, c : v # "None" => [state |-> v, counts |-> c] # NoResult
<1>1. NoResult.state = "None"
  BY DEF NoResult
<1>2. \A v, c : [state |-> v, counts |-> c].state = v
  OBVIOUS
<1> QED
  BY <1>1, <1>2

(***************************************************************************)
(* What finish_terminal() finds when it emits a result: every probe has    *)
(* ended, and "Complete" says how.                                         *)
(***************************************************************************)
LEMMA VerdictSound ==
  ASSUME OsTypes, OsPlaces, OsCounts, OsResult, phase \in Active, complete, result = NoResult,
         Verdict = "Complete"
  PROVE  \A w \in Work : fate[w] \in {"response", "unsupported"}
<1>1. status = "Ok" /\ counts.timeout = 0 /\ counts.malformed = 0
  BY DEF Verdict
<1>2. ASSUME NEW o, Cardinality(Having(fate, o)) = 0, NEW w \in Work PROVE fate[w] # o
  <2>1. IsFiniteSet(Having(fate, o))
    BY HavingFinite
  <2>2. Having(fate, o) = {}
    BY <1>2, <2>1, FS_EmptySet
  <2> QED
    BY <2>2 DEF Having
<1>3. Cardinality(Having(fate, "malformed")) = 0 /\ Cardinality(Having(fate, "timeout")) = 0
  <2>1. Cardinality(Having(fate, "timeout")) \in Nat
    BY HavingFinite
  <2> QED
    BY <1>1, <2>1 DEF OsCounts, Tallied
<1>4. ASSUME NEW w \in Work PROVE fate[w] # "None"
  <2>1. queue = <<>> /\ DOMAIN pending = {} /\ DOMAIN queue = {}
    BY EmptyMapFacts DEF complete
  <2>2. ~Waiting(queue, w) /\ ~Flying(pending, w)
    BY <2>1 DEF Waiting, Flying
  <2> QED
    BY <2>2 DEF OsPlaces, Placed
<1>5. \A w \in Work : fate[w] # "unsent" /\ fate[w] # "cancelled"
  BY <1>1 DEF OsResult
<1>6. \A w \in Work : fate[w] \in Fates
  BY DEF OsTypes
<1> QED
  BY <1>2, <1>3, <1>4, <1>5, <1>6 DEF Fates

(***************************************************************************)
(* finish_terminal() in an active phase: what it leaves.                   *)
(***************************************************************************)
LEMMA Finished ==
  ASSUME OsTypes, OsPlaces, OsCounts, OsResult, phase \in Active, finish_terminal
  PROVE  /\ result' # NoResult => queue = <<>> /\ DOMAIN pending = {} /\ result'.counts = counts
         /\ result'.state = "Complete" => \A w \in Work : fate[w] \in {"response", "unsupported"}
         /\ result # NoResult => result' # NoResult
         /\ complete => result' # NoResult
         /\ stopped' => stopped \/ result' # NoResult
<1>1. CASE complete /\ result = NoResult
  <2>1. result' = [state |-> Verdict, counts |-> counts] /\ stopped' = TRUE
    BY <1>1 DEF finish_terminal
  <2>2. Verdict # "None" /\ result'.state = Verdict /\ result'.counts = counts
    <3>1. Verdict # "None"
      BY DEF Verdict
    <3> QED
      BY <2>1, <3>1
  <2>3. result' # NoResult
    BY <2>2, ResultShape
  <2>4. queue = <<>> /\ DOMAIN pending = {}
    BY <1>1, EmptyMapFacts DEF complete
  <2>5. result'.state = "Complete" => \A w \in Work : fate[w] \in {"response", "unsupported"}
    BY <1>1, <2>2, VerdictSound
  <2> QED
    BY <2>2, <2>3, <2>4, <2>5
<1>2. CASE ~(complete /\ result = NoResult)
  <2>1. result' = result /\ stopped' = stopped
    BY <1>2 DEF finish_terminal
  <2> QED
    BY <1>2, <2>1 DEF OsResult
<1> QED
  BY <1>1, <1>2

LEMMA NextResult == OsInv /\ [Next]_vars => OsResult'
<1> SUFFICES ASSUME OsTypes, OsTables, OsPlaces, OsCounts, OsResult, [Next]_vars PROVE OsResult'
  BY DEF OsInv
<1>1. ASSUME UNCHANGED <<queue, pending, result, counts, fate, status, phase, stopped, pumping>>
      PROVE  OsResult'
  BY <1>1 DEF OsResult
<1>2. ASSUME queue # <<>> \/ DOMAIN pending # {} PROVE result = NoResult
  BY <1>2 DEF OsResult
<1>3. CASE submit
  <2>1. /\ phase = "created" /\ phase' = "submitting" /\ UNCHANGED <<result, fate, status>>
    BY <1>3 DEF submit, historyVars
  <2>2. result' = NoResult /\ result'.state = "None" /\ \A w \in Work : fate'[w] = "None"
    BY <2>1, ResultShape DEF OsPlaces
  <2> QED
    BY <2>1, <2>2 DEF OsResult
<1>4. ASSUME NEW error \in {"InvalidArgument", "NotFound", "ParseError"}, SubmitRefused(error)
      PROVE  OsResult'
  <2>1. PICK v \in {"Unavailable", "Failed"} :
           /\ phase = "created" /\ phase' = "refused" /\ status' = error
           /\ result' = [state |-> v, counts |-> counts]
           /\ UNCHANGED <<queue, pending, counts, fate>>
    BY <1>4 DEF SubmitRefused, historyVars
  <2>2. result'.state = v /\ result'.counts = counts
    BY <2>1
  <2>3. result' # NoResult
    BY <2>2, ResultShape
  <2>4. queue = <<>> /\ DOMAIN pending = {} /\ \A w \in Work : fate[w] = "None"
    BY <2>1 DEF OsPlaces
  <2> QED
    BY <2>1, <2>2, <2>3, <2>4 DEF OsResult
<1>5. CASE PumpReturns
  <2>1. /\ pumping # "no" /\ (~PumpLoops \/ pending # EmptyMap) /\ finish_terminal
        /\ UNCHANGED <<queue, pending, counts, status, fate>>
        /\ phase' \in {"running", "submitted", "refused"}
        /\ phase' = "running" => phase = "running"
    BY <1>5 DEF PumpReturns, historyVars, OsTypes
  <2>2. phase \in Active
    BY <2>1 DEF OsTypes, Active
  <2>3. status = "Ok" /\ queue # <<>> => DOMAIN pending # {}
    <3>1. SUFFICES ASSUME status = "Ok", queue # <<>>, DOMAIN pending = {} PROVE FALSE
      OBVIOUS
    <3>2. pending = EmptyMap
      BY <3>1, EmptyMapFacts DEF OsTypes
    <3>3. Cardinality(DOMAIN pending) = 0
      BY <3>1, FS_EmptySet
    <3>4. PumpLoops
      BY <2>1, <3>1, <3>3, OsAssumption DEF PumpLoops
    <3> QED
      BY <2>1, <3>2, <3>4
  <2>4. /\ result' # NoResult => queue = <<>> /\ DOMAIN pending = {} /\ result'.counts = counts
        /\ result'.state = "Complete" => \A w \in Work : fate[w] \in {"response", "unsupported"}
        /\ result # NoResult => result' # NoResult
        /\ stopped' => stopped \/ result' # NoResult
    BY <2>1, <2>2, Finished
  <2>5. phase' = "running" /\ stopped' => result' # NoResult
    BY <2>1, <2>4 DEF OsResult
  <2>6. \A w \in Work : /\ fate[w] = "unsent" => status # "Ok"
                        /\ fate[w] = "cancelled" => result' # NoResult
    BY <2>4 DEF OsResult
  <2> QED
    BY <2>1, <2>3, <2>4, <2>5, <2>6 DEF OsResult
<1>6. ASSUME PumpLoops
      PROVE  /\ result = NoResult /\ pumping # "no" /\ status = "Ok"
             /\ phase \in {"submitting", "running"}
             /\ phase = "running" => ~stopped
             /\ \A w \in Work : fate[w] # "unsent" /\ fate[w] # "cancelled"
  <2>1. pumping # "no" /\ status = "Ok" /\ queue # <<>>
    BY <1>6 DEF PumpLoops
  <2>2. phase \in {"submitting", "running"}
    BY <2>1 DEF OsTypes
  <2> QED
    BY <1>2, <2>1, <2>2 DEF OsResult
<1>7. CASE NotSentStep
  <2>1. /\ PumpLoops /\ UNCHANGED <<phase, result, stopped, pumping>>
        /\ \/ status' # "Ok" /\ \E o \in Fates \ {"cancelled"} : fate' = [fate EXCEPT ![Head(queue).work] = o]
           \/ \E o \in Fates \ {"cancelled", "unsent"} : fate' = [fate EXCEPT ![Head(queue).work] = o]
    BY <1>7, NotSentFacts DEF Fates
  <2>2. result' = NoResult /\ result'.state = "None"
    BY <1>6, <2>1, ResultShape
  <2>3. \A w \in Work : fate'[w] # "cancelled" /\ (fate'[w] = "unsent" => status' # "Ok")
    BY <1>6, <2>1 DEF OsTypes
  <2>4. phase' \in {"submitting", "running"} /\ pumping' # "no"
    BY <1>6, <2>1
  <2>5. ~(phase' = "running" /\ stopped')
    BY <1>6, <2>1
  <2> QED
    BY <2>2, <2>3, <2>4, <2>5 DEF OsResult
<1>8. CASE PumpSubmits
  <2>1. PumpLoops /\ UNCHANGED <<phase, result, stopped, pumping, status, fate>>
    BY <1>8 DEF PumpSubmits, Building, Supported, historyVars
  <2>2. result' = NoResult /\ result'.state = "None"
    BY <1>6, <2>1, ResultShape
  <2>3. \A w \in Work : fate'[w] # "cancelled" /\ fate'[w] # "unsent"
    BY <1>6, <2>1
  <2>4. phase' \in {"submitting", "running"} /\ pumping' # "no"
    BY <1>6, <2>1
  <2>5. ~(phase' = "running" /\ stopped')
    BY <1>6, <2>1
  <2> QED
    BY <2>2, <2>3, <2>4, <2>5 DEF OsResult
<1>9. CASE Run
  <2>1. /\ phase = "submitted" /\ phase' = "running" /\ stopped' = FALSE
        /\ UNCHANGED <<queue, pending, result, counts, fate, status, pumping>>
    BY <1>9 DEF Run, schedulerVars, historyVars
  <2> QED
    BY <2>1 DEF OsResult
<1>10. CASE RunReturns
  <2>1. /\ phase = "running" /\ pumping = "no" /\ (stopped \/ timers = {}) /\ phase' = "returned"
        /\ finish_terminal /\ UNCHANGED <<queue, pending, counts, status, fate>>
    BY <1>10 DEF RunReturns, Idle, Quiet, historyVars
  <2>2. /\ result' # NoResult => queue = <<>> /\ DOMAIN pending = {} /\ result'.counts = counts
        /\ result'.state = "Complete" => \A w \in Work : fate[w] \in {"response", "unsupported"}
        /\ result # NoResult => result' # NoResult
        /\ complete => result' # NoResult
    BY <2>1, Finished DEF Active
  <2>3. ASSUME status = "Ok" PROVE result' # NoResult
    <3>1. CASE stopped
      BY <2>1, <2>2, <3>1 DEF OsResult
    <3>2. CASE timers = {}
      <4>1. DOMAIN pending = {}
        BY <3>2 DEF OsTables
      <4>2. queue = <<>>
        BY <2>1, <2>3, <4>1 DEF OsResult
      <4>3. pending = EmptyMap
        BY <4>1, EmptyMapFacts DEF OsTypes
      <4>4. complete
        BY <2>1, <4>2, <4>3 DEF complete
      <4> QED
        BY <2>2, <4>4
    <3> QED
      BY <2>1, <3>1, <3>2
  <2>4. \A w \in Work : /\ fate[w] = "unsent" => status # "Ok"
                        /\ fate[w] = "cancelled" => result' # NoResult
    BY <2>2 DEF OsResult
  <2> QED
    BY <2>1, <2>2, <2>3, <2>4 DEF OsResult
<1>11. ASSUME NEW id, Ends(id),
              fate' = fate \/ \E o \in {"response", "malformed", "timeout"} :
                                fate' = [fate EXCEPT ![pending[id].item.work] = o]
       PROVE  OsResult'
  <2>1. /\ id \in DOMAIN pending /\ phase = "running" /\ pumping' = "handler"
        /\ UNCHANGED <<phase, result, status, stopped>>
    BY <1>11 DEF Ends, Dispatching, Idle
  <2>2. result = NoResult
    BY <1>2, <2>1
  <2>3. result' = NoResult /\ result'.state = "None" /\ ~stopped'
    BY <2>1, <2>2, ResultShape DEF OsResult
  <2>4. \A w \in Work : fate'[w] # "cancelled" /\ (fate'[w] = "unsent" => fate[w] = "unsent")
    BY <1>11, <2>2 DEF OsTypes, OsResult
  <2> QED
    BY <2>1, <2>3, <2>4 DEF OsResult
<1>12. ASSUME NEW s, NEW kind, Arrives(s, kind) PROVE OsResult'
  <2>1. CASE UNCHANGED <<phase, configVars, schedulerVars, timers, stopped, pumping, fate, sent>>
    BY <1>1, <2>1 DEF schedulerVars
  <2>2. CASE \E id \in DOMAIN pending : \E o \in {"response", "malformed"} :
               /\ Ends(id) /\ fate' = [fate EXCEPT ![pending[id].item.work] = o]
    BY <1>11, <2>2
  <2> QED
    BY <1>12, <2>1, <2>2, ArrivalFacts
<1>13. ASSUME NEW id, on_timeout(id) PROVE OsResult'
  BY <1>11, <1>13, TimeoutFacts
<1>14. CASE stop
  <2>1. /\ phase = "running" /\ queue' = <<>> /\ pending' = EmptyMap
        /\ result' = IF result = NoResult THEN [state |-> "Partial", counts |-> counts] ELSE result
        /\ fate' = [w \in Work |-> IF fate[w] = "None" THEN "cancelled" ELSE fate[w]]
        /\ UNCHANGED <<phase, counts, status>>
    BY <1>14 DEF stop, Dispatching, Idle
  <2>2. DOMAIN pending' = {}
    BY <2>1, EmptyMapFacts
  <2>3. result' # NoResult /\ result'.counts = counts
        /\ (result'.state = "Complete" => result.state = "Complete")
    <3>1. CASE result = NoResult
      <4>1. result' = [state |-> "Partial", counts |-> counts]
        BY <2>1, <3>1
      <4> QED
        BY <4>1, ResultShape
    <3>2. CASE result # NoResult
      BY <2>1, <3>2 DEF OsResult
    <3> QED
      BY <3>1, <3>2
  <2>4. result'.state = "Complete" => \A w \in Work : fate'[w] \in {"response", "unsupported"}
    BY <2>1, <2>3 DEF OsResult
  <2>5. \A w \in Work : fate'[w] = "unsent" => status # "Ok"
    BY <2>1 DEF OsResult
  <2> QED
    BY <2>1, <2>2, <2>3, <2>4, <2>5 DEF OsResult
<1>15. CASE Destroy
  <2>1. /\ phase' = "destroyed" /\ pending' = EmptyMap
        /\ UNCHANGED <<queue, result, counts, fate, status>>
    BY <1>15 DEF Destroy, historyVars
  <2>2. DOMAIN pending' = {}
    BY <2>1, EmptyMapFacts
  <2> QED
    BY <2>1, <2>2 DEF OsResult
<1>16. CASE Waits \/ Terminated \/ UNCHANGED vars
  BY <1>1, <1>16 DEF Waits, Terminated, vars, schedulerVars, historyVars
<1> QED
  BY <1>3, <1>4, <1>5, <1>7, <1>8, <1>9, <1>10, <1>12, <1>13, <1>14, <1>15, <1>16
     DEF Next, Setup, pump, NotSentStep, Network, Deadline

-----------------------------------------------------------------------------
(* The theorems.                                                           *)

LEMMA InitInv == Init => OsInv
<1> SUFFICES ASSUME Init PROVE OsInv
  OBVIOUS
<1>1. OsTypes
  BY EmptyMapFacts DEF Init, OsTypes, Counters, Fates
<1>2. OsTables
  <2>1. timers = {} /\ pending = EmptyMap /\ wire = EmptyMap /\ correlations = {}
        /\ transport \in {"Linux", "Injected"}
    BY OsAssumption DEF Init
  <2>2. Cardinality({}) = 0 /\ MaxOutstanding \in Nat
    BY FS_EmptySet, OsAssumption
  <2> QED
    BY <2>1, <2>2, EmptyMapFacts DEF OsTables
<1>3. OsPlaces
  BY EmptyMapFacts DEF Init, OsPlaces, Active
<1>4. OsCounts
  <2>1. /\ counts.response = 0 /\ counts.malformed = 0 /\ counts.unsupported = 0
        /\ counts.generated = 0 /\ counts.sent = 0 /\ counts.timeout = 0
    BY DEF Init
  <2>2. \A o : o # "None" => Having(fate, o) = {}
    BY DEF Init, Having
  <2>3. \A o : o # "None" => Cardinality(Having(fate, o)) = 0
    BY <2>2, FS_EmptySet
  <2>4. /\ Cardinality(Having(fate, "response")) = 0 /\ Cardinality(Having(fate, "malformed")) = 0
        /\ Cardinality(Having(fate, "unsupported")) = 0 /\ Cardinality(Having(fate, "timeout")) = 0
    BY <2>3
  <2> QED
    BY <2>1, <2>4 DEF OsCounts, Tallied
<1>5. OsResult
  BY ResultShape DEF Init, OsResult
<1> QED
  BY <1>1, <1>2, <1>3, <1>4, <1>5 DEF OsInv

LEMMA OsInvariant == Spec => []OsInv
<1>1. OsInv /\ [Next]_vars => OsInv'
  BY NextTypes, NextTables, NextPlaces, NextCounts, NextResult DEF OsInv
<1> QED
  BY InitInv, <1>1, PTL DEF Spec

(***************************************************************************)
(* However many probes of OSScheduler are out and whatever answers,        *)
(* duplicates, late packets, expiries, failures and cancellations they     *)
(* meet: the reactor's timers are those of pending_, there is room for     *)
(* them, and the transport's entries and correlations belong to probes     *)
(* that are out.                                                           *)
(***************************************************************************)
THEOREM OsTablesAgree == Spec => []TablesAgree
<1>1. OsInv => TablesAgree
  BY DEF OsInv, OsTables, TablesAgree
<1> QED
  BY <1>1, OsInvariant, PTL

(***************************************************************************)
(* The sets whose sizes Places() adds up, when probes are placed.          *)
(***************************************************************************)
LEMMA PlacedOnce ==
  ASSUME OsInv, phase \in Active, NEW w \in Work
  PROVE  Places(w) = 1
<1> DEFINE Q == {i \in DOMAIN queue : queue[i].work = w}
           P == {id \in DOMAIN pending : pending[id].item.work = w}
<1>1. Placed(queue, pending, fate)
  BY DEF OsInv, OsPlaces
<1>2. /\ \A i, j \in Q : i = j
      /\ \A i, j \in P : i = j
  BY <1>1 DEF Placed, DistinctWaiting, DistinctFlying
<1>3. /\ Q # {} => P = {} /\ fate[w] = "None"
      /\ P # {} => fate[w] = "None"
      /\ Q # {} \/ P # {} \/ fate[w] # "None"
  <2>1. Waiting(queue, w) <=> Q # {}
    BY DEF Waiting
  <2>2. Flying(pending, w) <=> P # {}
    BY DEF Flying
  <2> QED
    BY <1>1, <2>1, <2>2 DEF Placed
<1>4. Places(w) = Cardinality(Q) + Cardinality(P) + (IF fate[w] = "None" THEN 0 ELSE 1)
  BY DEF Places
<1> HIDE DEF Q, P
<1>5. ASSUME NEW S, \A i, j \in S : i = j
      PROVE  Cardinality(S) = IF S = {} THEN 0 ELSE 1
  <2>1. CASE S = {}
    BY <2>1, FS_EmptySet
  <2>2. CASE S # {}
    <3>1. PICK x : x \in S
      BY <2>2
    <3>2. S = {x}
      BY <1>5, <3>1
    <3> QED
      BY <2>2, <3>2, FS_Singleton
  <2> QED
    BY <2>1, <2>2
<1>6. /\ Cardinality(Q) = IF Q = {} THEN 0 ELSE 1
      /\ Cardinality(P) = IF P = {} THEN 0 ELSE 1
  BY <1>2, <1>5
<1> QED
  BY <1>3, <1>4, <1>6

(***************************************************************************)
(* From submit() to the end of run() every probe waits, is out or has      *)
(* ended, once; the counters that decide the verdict agree with how the    *)
(* probes ended; the result carries the final counters; "Complete" is      *)
(* given only when every probe was answered or is unsupported; and a run   *)
(* without an error returns with a result.                                 *)
(***************************************************************************)
THEOREM OsResultAccounts == Spec => []ResultAccounts
<1>1. ASSUME OsInv PROVE ResultAccounts
  <2>1. phase \in Active => \A w \in Work : Places(w) = 1
    BY <1>1, PlacedOnce
  <2>2. OsCounts /\ OsResult
    BY <1>1 DEF OsInv
  <2>3. /\ counts.response = Fated("response") /\ counts.malformed = Fated("malformed")
        /\ counts.unsupported = Fated("unsupported")
        /\ counts.generated >= counts.sent /\ counts.timeout >= Fated("timeout")
    BY <2>2 DEF OsCounts, Tallied, Fated, Having
  <2>4. /\ result # NoResult => result.counts = counts
        /\ result.state = "Complete" => \A w \in Work : fate[w] \in {"response", "unsupported"}
        /\ phase = "returned" /\ status = "Ok" => result # NoResult
    BY <2>2 DEF OsResult
  <2> QED
    BY <2>1, <2>3, <2>4 DEF ResultAccounts, Active
<1> QED
  BY <1>1, OsInvariant, PTL
=============================================================================
