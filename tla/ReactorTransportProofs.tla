----------------------- MODULE ReactorTransportProofs -----------------------
(***************************************************************************)
(* Proofs for what every raw port scan stands on: the reactor IOEngine,    *)
(* for any set of events and delays and any interleaving of callbacks with *)
(* the batch and the heap the loop works through; and RawScanTransport.    *)
(* The two modules share no variable, each theorem is about one of them.   *)
(***************************************************************************)
EXTENDS IOEngine, RawScanTransport, FiniteSetTheorems, SequenceTheorems, TLAPS

-----------------------------------------------------------------------------
(* The reactor's inductive invariant.                                      *)

(***************************************************************************)
(* A token belongs to one registration for ever: those in use are distinct,*)
(* none is used again after its registration ended, none is given out yet  *)
(* to come.                                                                *)
(***************************************************************************)
TokensUnique ==
  /\ token \in [Events -> Nat] /\ next_event_token \in Nat \ {0}
  /\ retired \subseteq Nat \ {0}
  /\ \A r \in retired : r < next_event_token
  /\ \A e \in Events : token[e] < next_event_token /\ token[e] \notin retired
  /\ \A e, f \in Events : token[e] = token[f] /\ token[e] # 0 => e = f

(***************************************************************************)
(* A record of the batch names a registration there has been; while it     *)
(* lasts it is that of the record's event.                                 *)
(***************************************************************************)
Record == [token : Nat \ {0}, event : Events]

RecordsTrue ==
  /\ batch \in Seq(Record)
  /\ \A i \in DOMAIN batch :
       /\ batch[i].token < next_event_token
       /\ \A e \in Events : token[e] = batch[i].token => e = batch[i].event

(***************************************************************************)
(* The heap has the deadline of every live timer.  Other entries are of    *)
(* timers that are gone, which never come back.                            *)
(***************************************************************************)
Entry == [deadline : Nat, id : Nat \ {0}]
EntryOf(t) == [deadline |-> timers[t], id |-> t]

HeapCovers ==
  /\ now \in Nat /\ next_timer_id \in Nat \ {0}
  /\ timer_queue \subseteq Entry
  /\ gone \subseteq Nat
  /\ \A t \in gone : t < next_timer_id
  /\ \A x \in timer_queue : x.id < next_timer_id
  /\ \A t \in DOMAIN timers : EntryOf(t) \in timer_queue /\ t \notin gone
  /\ \A x \in timer_queue : Live(x) => x.deadline = timers[x.id]

(***************************************************************************)
(* A closed engine has nothing registered and nothing armed; a stop() from *)
(* a callback is remembered until the loop is left.                        *)
(***************************************************************************)
LoopObeys ==
  /\ closed => (\A e \in Events : token[e] = 0) /\ timer_queue = {}
  /\ stop_requested => stopped = TRUE /\ pc # "outside"

EngineInv == TokensUnique /\ RecordsTrue /\ HeapCovers /\ LoopObeys

-----------------------------------------------------------------------------
(* Theorems about the reactor.                                             *)

LEMMA EngineInitially == Init => EngineInv
<1> SUFFICES ASSUME Init PROVE EngineInv
  OBVIOUS
<1>1. TokensUnique
  BY DEF Init, TokensUnique
<1>2. RecordsTrue
  BY DEF Init, RecordsTrue
<1>3. HeapCovers
  BY DEF Init, HeapCovers, Live, EntryOf
<1>4. LoopObeys
  BY DEF Init, LoopObeys
<1> QED
  BY <1>1, <1>2, <1>3, <1>4 DEF EngineInv

(***************************************************************************)
(* Every record of the batch is one.                                       *)
(***************************************************************************)
LEMMA RecordTypes ==
  ASSUME RecordsTrue, NEW i \in DOMAIN batch
  PROVE  batch[i].token \in Nat \ {0} /\ batch[i].event \in Events
<1>1. batch \in Seq(Record) /\ i \in 1..Len(batch)
  BY DEF RecordsTrue
<1>2. batch[i] \in Record
  BY <1>1, ElementOfSeq
<1> QED
  BY <1>2 DEF Record

(***************************************************************************)
(* What the parts of the invariant speak about.                            *)
(***************************************************************************)
LEMMA TokensUniqueKept ==
  ASSUME TokensUnique, UNCHANGED registry
  PROVE  TokensUnique'
BY DEF TokensUnique, registry

LEMMA RecordsTrueKept ==
  ASSUME RecordsTrue, UNCHANGED registry, batch' = batch \/ batch' = <<>>
  PROVE  RecordsTrue'
<1>1. CASE batch' = batch
  BY <1>1 DEF RecordsTrue, registry
<1>2. CASE batch' = <<>>
  BY <1>2 DEF RecordsTrue
<1> QED
  BY <1>1, <1>2

LEMMA HeapCoversKept ==
  ASSUME HeapCovers, UNCHANGED <<clock, now>>
  PROVE  HeapCovers'
BY DEF HeapCovers, Live, EntryOf, clock

(***************************************************************************)
(* A step of the loop proper ends, or goes on with the same timers.        *)
(***************************************************************************)
LEMMA LeaveKeeps ==
  ASSUME EngineInv, Leave
  PROVE  EngineInv'
<1>1. TokensUnique'
  BY TokensUniqueKept DEF EngineInv, Leave
<1>2. RecordsTrue'
  BY RecordsTrueKept DEF EngineInv, Leave
<1>3. HeapCovers'
  BY HeapCoversKept DEF EngineInv, Leave
<1>4. LoopObeys'
  BY DEF EngineInv, Leave, LoopObeys, registry, clock
<1> QED
  BY <1>1, <1>2, <1>3, <1>4 DEF EngineInv

LEMMA RegistrationKeeps ==
  ASSUME EngineInv, NEW e \in Events, Add(e) \/ AddFails(e) \/ RemoveEvent(e)
  PROVE  EngineInv'
<1> USE DEF EngineInv
<1>1. HeapCovers'
  BY HeapCoversKept DEF Add, AddFails, RemoveEvent
<1>2. CASE Add(e)
  <2>1. TokensUnique'
    BY <1>2 DEF Add, TokensUnique
  <2>2. RecordsTrue'
    <3>1. next_event_token \notin {batch[i].token : i \in DOMAIN batch}
      BY RecordTypes DEF RecordsTrue, TokensUnique
    <3>2. batch' = batch /\ next_event_token' = next_event_token + 1
          /\ \A f \in Events : token'[f] = IF f = e THEN next_event_token ELSE token[f]
      BY <1>2 DEF Add, TokensUnique, loop
    <3>3. \A i \in DOMAIN batch : batch[i].token \in Nat
      BY RecordTypes
    <3> QED
      BY <3>1, <3>2, <3>3 DEF RecordsTrue, TokensUnique
  <2>3. LoopObeys'
    BY <1>2 DEF Add, LoopObeys, clock, loop
  <2> QED
    BY <1>1, <2>1, <2>2, <2>3
<1>3. CASE AddFails(e)
  <2>1. TokensUnique'
    BY <1>3 DEF AddFails, TokensUnique
  <2>2. RecordsTrue'
    <3>1. \A i \in DOMAIN batch : batch[i].token \in Nat
      BY RecordTypes
    <3> QED
      BY <1>3, <3>1 DEF AddFails, RecordsTrue, TokensUnique, loop
  <2>3. LoopObeys'
    BY <1>3 DEF AddFails, LoopObeys, clock, loop
  <2> QED
    BY <1>1, <2>1, <2>2, <2>3
<1>4. CASE RemoveEvent(e)
  <2>1. TokensUnique'
    <3>1. /\ next_event_token' = next_event_token /\ retired' = retired \cup {token[e]}
          /\ token' \in [Events -> Nat] /\ token[e] \in Nat \ {0}
          /\ \A f \in Events : token'[f] = IF f = e THEN 0 ELSE token[f]
      BY <1>4 DEF RemoveEvent, TokensUnique
    <3>2. \A f \in Events : token'[f] \notin retired'
      BY <3>1 DEF TokensUnique
    <3>3. \A f \in Events : token'[f] < next_event_token'
      BY <3>1 DEF TokensUnique
    <3>4. retired' \subseteq Nat \ {0} /\ \A r \in retired' : r < next_event_token'
      BY <3>1 DEF TokensUnique
    <3>5. \A f, g \in Events : token'[f] = token'[g] /\ token'[f] # 0 => f = g
      BY <3>1 DEF TokensUnique
    <3> QED
      BY <3>1, <3>2, <3>3, <3>4, <3>5 DEF TokensUnique
  <2>2. RecordsTrue'
    <3>1. batch' = batch /\ next_event_token' = next_event_token
          /\ \A f \in Events : token'[f] = IF f = e THEN 0 ELSE token[f]
      BY <1>4 DEF RemoveEvent, TokensUnique, loop
    <3>2. \A i \in DOMAIN batch : batch[i].token # 0
      BY RecordTypes
    <3> QED
      BY <3>1, <3>2 DEF RecordsTrue
  <2>3. LoopObeys'
    BY <1>4 DEF RemoveEvent, LoopObeys, clock, loop
  <2> QED
    BY <1>1, <2>1, <2>2, <2>3
<1> QED
  BY <1>2, <1>3, <1>4

LEMMA TimerCallKeeps ==
  ASSUME EngineInv,
         (\E d \in Delays : Schedule(d)) \/ (\E t \in DOMAIN timers : Cancel(t))
  PROVE  EngineInv'
<1> USE DEF EngineInv
<1>1. TokensUnique'
  BY TokensUniqueKept DEF Schedule, Cancel
<1>2. RecordsTrue'
  BY RecordsTrueKept DEF Schedule, Cancel, loop
<1>3. ASSUME NEW d \in Delays, Schedule(d)
      PROVE  HeapCovers' /\ LoopObeys'
  <2>1. now + d \in Nat
    BY EngineAssumption DEF HeapCovers
  <2>2. \A t \in DOMAIN timers : t < next_timer_id
    BY DEF HeapCovers, EntryOf, Entry
  <2>3. /\ DOMAIN timers' = DOMAIN timers \cup {next_timer_id}
        /\ \A t \in DOMAIN timers' : timers'[t] = IF t = next_timer_id THEN now + d ELSE timers[t]
        /\ timer_queue' = timer_queue \cup {[deadline |-> now + d, id |-> next_timer_id]}
        /\ next_timer_id' = next_timer_id + 1 /\ UNCHANGED <<gone, now>>
    BY <1>3 DEF Schedule
  <2>4. next_timer_id \notin gone /\ next_timer_id \notin DOMAIN timers
        /\ \A x \in timer_queue : x.id # next_timer_id
    BY <2>2 DEF HeapCovers, Entry
  <2>5. now' \in Nat /\ next_timer_id' \in Nat \ {0} /\ timer_queue' \subseteq Entry /\ gone' \subseteq Nat
    BY <2>1, <2>3 DEF HeapCovers, Entry
  <2>6. \A t \in gone' : t < next_timer_id'
    BY <2>3 DEF HeapCovers
  <2>7. \A x \in timer_queue' : x.id < next_timer_id'
    BY <2>3 DEF HeapCovers, Entry
  <2>8. \A t \in DOMAIN timers' : EntryOf(t)' \in timer_queue' /\ t \notin gone'
    BY <2>3, <2>4 DEF HeapCovers, EntryOf
  <2>9. \A x \in timer_queue' : Live(x)' => x.deadline = timers'[x.id]
    BY <2>3, <2>4 DEF HeapCovers, Live, Entry
  <2>10. LoopObeys'
    BY <1>3 DEF Schedule, LoopObeys, registry, loop
  <2> QED
    BY <2>5, <2>6, <2>7, <2>8, <2>9, <2>10 DEF HeapCovers
<1>4. ASSUME NEW t \in DOMAIN timers, Cancel(t)
      PROVE  HeapCovers' /\ LoopObeys'
  <2>1. HeapCovers'
    BY <1>4 DEF Cancel, HeapCovers, Live, EntryOf, Entry
  <2>2. LoopObeys'
    BY <1>4 DEF Cancel, LoopObeys, registry, loop
  <2> QED
    BY <2>1, <2>2
<1> QED
  BY <1>1, <1>2, <1>3, <1>4

LEMMA StopKeeps ==
  ASSUME EngineInv, Stop \/ Shutdown
  PROVE  EngineInv'
<1> USE DEF EngineInv
<1>1. CASE Stop
  <2>1. TokensUnique' /\ RecordsTrue' /\ HeapCovers'
    BY <1>1, TokensUniqueKept, RecordsTrueKept, HeapCoversKept DEF Stop
  <2>2. LoopObeys'
    BY <1>1 DEF Stop, LoopObeys, MayCall, InCallback, registry, clock
  <2> QED
    BY <2>1, <2>2
<1>2. CASE Shutdown
  <2>1. /\ token' = [e \in Events |-> 0] /\ next_event_token' = next_event_token
        /\ retired' = retired \cup {token[e] : e \in Registered} /\ batch' = batch
    BY <1>2 DEF Shutdown
  <2>2. \A r \in retired' : r \in Nat \ {0} /\ r < next_event_token'
    BY <2>1 DEF TokensUnique, Registered
  <2>3. TokensUnique'
    <3>1. token' \in [Events -> Nat] /\ \A e \in Events : token'[e] = 0
      BY <2>1
    <3>2. next_event_token' \in Nat \ {0} /\ 0 < next_event_token'
      BY <2>1 DEF TokensUnique
    <3>3. retired' \subseteq Nat \ {0} /\ \A r \in retired' : r < next_event_token'
      BY <2>2
    <3> QED
      BY <3>1, <3>2, <3>3 DEF TokensUnique
  <2>4. \A i \in DOMAIN batch : batch[i].token # 0
    BY RecordTypes
  <2>5. RecordsTrue'
    BY <2>1, <2>4 DEF RecordsTrue
  <2>6. HeapCovers'
    <3>1. \A t \in DOMAIN timers : t \in Nat /\ t < next_timer_id
      BY DEF HeapCovers, EntryOf, Entry
    <3>2. DOMAIN timers' = {} /\ timer_queue' = {} /\ gone' = gone \cup DOMAIN timers
          /\ UNCHANGED <<next_timer_id, now>>
      BY <1>2 DEF Shutdown
    <3> QED
      BY <3>1, <3>2 DEF HeapCovers, Live
  <2>7. LoopObeys'
    BY <1>2 DEF Shutdown, LoopObeys
  <2> QED
    BY <2>3, <2>5, <2>6, <2>7
<1> QED
  BY <1>1, <1>2

(***************************************************************************)
(* A wait purges no entry of a live timer, and its batch names the tokens  *)
(* that are in use at that moment.                                         *)
(***************************************************************************)
LEMMA WaitKeeps ==
  ASSUME EngineInv, Wait
  PROVE  EngineInv'
<1> USE DEF EngineInv
<1>1. TokensUnique'
  BY TokensUniqueKept DEF Wait
<1>2. RecordsTrue'
  <2>1. PICK b \in Batches : batch' = [i \in DOMAIN b |-> [token |-> token[b[i]], event |-> b[i]]]
    BY DEF Wait
  <2>2. PICK n \in Nat : b \in [1..n -> Registered]
    <3>1. Cardinality(Registered) \in Nat
      BY EngineAssumption, FS_Subset, FS_CardinalityType DEF Registered
    <3> QED
      BY <3>1 DEF Batches
  <2>3. \A i \in 1..n : b[i] \in Events /\ token[b[i]] \in Nat \ {0} /\ token[b[i]] < next_event_token
    BY <2>2 DEF Registered, TokensUnique
  <2>4. DOMAIN batch' = 1..n /\ \A i \in 1..n : batch'[i] = [token |-> token[b[i]], event |-> b[i]]
    BY <2>1, <2>2
  <2>5. batch' \in [1..n -> Record]
    BY <2>1, <2>2, <2>3 DEF Record
  <2>6. batch' \in Seq(Record)
    BY <2>5
  <2>7. \A i \in 1..n : \A e \in Events : token[e] = token[b[i]] => e = b[i]
    BY <2>3 DEF TokensUnique
  <2>8. UNCHANGED <<token, next_event_token>>
    BY DEF Wait, registry
  <2> QED
    BY <2>3, <2>4, <2>6, <2>7, <2>8 DEF RecordsTrue
<1>3. HeapCovers'
  <2>1. timer_queue' = Purged /\ UNCHANGED <<timers, next_timer_id, gone, now>>
    BY DEF Wait
  <2>2. timer_queue' \subseteq timer_queue
    BY <2>1 DEF Purged
  <2>3. \A t \in DOMAIN timers : EntryOf(t) \in timer_queue'
    <3> SUFFICES ASSUME NEW t \in DOMAIN timers PROVE EntryOf(t) \in Purged
      BY <2>1
    <3>1. EntryOf(t) \in timer_queue /\ Live(EntryOf(t)) /\ EntryOf(t).deadline \in Nat
      BY DEF HeapCovers, EntryOf, Live, Entry
    <3>2. EntryOf(t).deadline <= EntryOf(t).deadline
      BY <3>1
    <3> QED
      BY <3>1, <3>2 DEF Purged
  <2> QED
    BY <2>1, <2>2, <2>3 DEF HeapCovers, EntryOf, Live
<1>4. LoopObeys'
  BY DEF Wait, LoopObeys, registry, Purged
<1> QED
  BY <1>1, <1>2, <1>3, <1>4

LEMMA DispatchEventKeeps ==
  ASSUME EngineInv, DispatchEvent
  PROVE  EngineInv'
<1> USE DEF EngineInv
<1>1. TokensUnique' /\ HeapCovers'
  BY TokensUniqueKept, HeapCoversKept DEF DispatchEvent
<1>2. RecordsTrue'
  <2>1. batch \in Seq(Record) /\ batch # <<>> /\ batch' = Tail(batch)
        /\ UNCHANGED <<token, next_event_token>>
    BY DEF RecordsTrue, DispatchEvent, registry
  <2>2. batch' \in Seq(Record)
    BY <2>1
  <2>3. \A i \in DOMAIN batch' : i + 1 \in DOMAIN batch /\ batch'[i] = batch[i + 1]
    BY <2>1
  <2> QED
    BY <2>1, <2>2, <2>3 DEF RecordsTrue
<1>3. LoopObeys'
  BY DEF DispatchEvent, LoopObeys, registry, clock
<1> QED
  BY <1>1, <1>2, <1>3

(***************************************************************************)
(* Taking an entry off the heap: it was stale, or its timer goes with it.  *)
(***************************************************************************)
LEMMA DispatchTimerKeeps ==
  ASSUME EngineInv, DispatchTimer
  PROVE  EngineInv'
<1> USE DEF EngineInv
<1>1. TokensUnique'
  BY TokensUniqueKept DEF DispatchTimer
<1>2. RecordsTrue'
  BY RecordsTrueKept DEF DispatchTimer
<1>3. HeapCovers'
  <2>1. PICK entry \in timer_queue :
          /\ timer_queue' = timer_queue \ {entry}
          /\ \/ /\ ~Live(entry)
                /\ UNCHANGED <<timers, gone>>
             \/ /\ Live(entry)
                /\ timers' = [t \in DOMAIN timers \ {entry.id} |-> timers[t]]
                /\ gone' = gone \cup {entry.id}
    BY DEF DispatchTimer
  <2>2. UNCHANGED <<next_timer_id, now>>
    BY DEF DispatchTimer
  <2>3. entry.id \in Nat /\ entry.id < next_timer_id
    BY DEF HeapCovers, Entry
  <2>4. \A t \in DOMAIN timers' : t \in DOMAIN timers /\ timers'[t] = timers[t] /\ t # entry.id
    BY <2>1 DEF Live
  <2>5. gone' \subseteq Nat /\ \A t \in gone' : t < next_timer_id'
    BY <2>1, <2>2, <2>3 DEF HeapCovers
  <2>6. \A t \in DOMAIN timers' : EntryOf(t)' \in timer_queue' /\ t \notin gone'
    BY <2>1, <2>4 DEF HeapCovers, EntryOf
  <2>7. \A x \in timer_queue' : Live(x)' => x.deadline = timers'[x.id]
    BY <2>1, <2>4 DEF HeapCovers, Live
  <2> QED
    BY <2>1, <2>2, <2>5, <2>6, <2>7 DEF HeapCovers
<1>4. LoopObeys'
  BY DEF DispatchTimer, LoopObeys, registry
<1> QED
  BY <1>1, <1>2, <1>3, <1>4

(***************************************************************************)
(* The loop moves on without a dispatch.                                   *)
(***************************************************************************)
LEMMA MovingOnKeeps ==
  ASSUME EngineInv,
         EventsDone \/ EventCallbackReturns \/ TimerCallbackReturns \/ TimersDone
         \/ (\E single \in BOOLEAN : Enter(single)) \/ Tick \/ UNCHANGED vars
  PROVE  EngineInv'
<1> USE DEF EngineInv
<1>1. CASE EventsDone \/ EventCallbackReturns \/ TimerCallbackReturns
  <2>1. TokensUnique' /\ RecordsTrue' /\ HeapCovers'
    BY <1>1, TokensUniqueKept, RecordsTrueKept, HeapCoversKept
    DEF EventsDone, EventCallbackReturns, TimerCallbackReturns
  <2>2. LoopObeys'
    BY <1>1 DEF EventsDone, EventCallbackReturns, TimerCallbackReturns, LoopObeys, registry, clock
  <2> QED
    BY <2>1, <2>2
<1>2. CASE TimersDone
  <2>1. CASE once
    BY <1>2, <2>1, LeaveKeeps DEF TimersDone
  <2>2. CASE ~once
    <3>1. TokensUnique' /\ RecordsTrue' /\ HeapCovers'
      BY <1>2, <2>2, TokensUniqueKept, RecordsTrueKept, HeapCoversKept DEF TimersDone
    <3>2. LoopObeys'
      BY <1>2, <2>2 DEF TimersDone, LoopObeys, registry, clock
    <3> QED
      BY <3>1, <3>2
  <2> QED
    BY <2>1, <2>2
<1>3. CASE \E single \in BOOLEAN : Enter(single)
  <2>1. TokensUnique' /\ RecordsTrue' /\ HeapCovers'
    BY <1>3, TokensUniqueKept, RecordsTrueKept, HeapCoversKept DEF Enter
  <2>2. LoopObeys'
    BY <1>3 DEF Enter, LoopObeys, registry, clock
  <2> QED
    BY <2>1, <2>2
<1>4. CASE Tick
  <2>1. TokensUnique' /\ RecordsTrue'
    BY <1>4, TokensUniqueKept, RecordsTrueKept DEF Tick, loop
  <2>2. HeapCovers'
    BY <1>4 DEF Tick, HeapCovers, clock, Live, EntryOf
  <2>3. LoopObeys'
    BY <1>4 DEF Tick, LoopObeys, registry, clock, loop
  <2> QED
    BY <2>1, <2>2, <2>3
<1>5. CASE UNCHANGED vars
  <2>1. TokensUnique' /\ RecordsTrue' /\ HeapCovers'
    BY <1>5, TokensUniqueKept, RecordsTrueKept, HeapCoversKept DEF vars, loop
  <2>2. LoopObeys'
    BY <1>5 DEF vars, LoopObeys, registry, clock, loop
  <2> QED
    BY <2>1, <2>2
<1> QED
  BY <1>1, <1>2, <1>3, <1>4, <1>5

LEMMA EngineStep == EngineInv /\ [Next]_vars => EngineInv'
<1> SUFFICES ASSUME EngineInv, [Next]_vars PROVE EngineInv'
  OBVIOUS
<1>1. CASE Interface
  BY <1>1, RegistrationKeeps, TimerCallKeeps, StopKeeps DEF Interface
<1>2. CASE Step
  <2>1. CASE RunEnds \/ WaitFails
    BY <2>1, LeaveKeeps DEF RunEnds, WaitFails
  <2> QED
    BY <1>2, <2>1, WaitKeeps, DispatchEventKeeps, DispatchTimerKeeps, MovingOnKeeps DEF Step
<1> QED
  BY <1>1, <1>2, MovingOnKeeps DEF Next

LEMMA EngineInvariant == Spec => []EngineInv
BY EngineInitially, EngineStep, PTL DEF Spec

(***************************************************************************)
(* No callback is given a readiness record of a registration that has      *)
(* ended: whatever earlier callbacks of the batch removed, added again or  *)
(* shut down, a record finds the registration it was reported for or none. *)
(* After a stop() from a callback, run() takes no further batch.           *)
(***************************************************************************)
THEOREM StaleRecordsDropped == Spec => NoStaleDispatch
<1> DEFINE A == /\ pc = "events" /\ pc' = "event_callback" =>
                     /\ ~closed
                     /\ current'.token = token[current'.event]
                     /\ current'.token \notin retired
                     /\ current'.event = Head(batch).event
                /\ pc = "wait" /\ pc' = "events" => once \/ ~stop_requested
<1>1. EngineInv /\ [Next]_vars => [A]_vars
  <2> SUFFICES ASSUME EngineInv, Next PROVE A
    OBVIOUS
  <2>1. ASSUME pc = "events", pc' = "event_callback" PROVE DispatchEvent
    BY <2>1 DEF Next, Interface, Step, Add, AddFails, RemoveEvent, Schedule, Cancel, Stop, Shutdown,
         Enter, RunEnds, Wait, WaitFails, EventsDone, EventCallbackReturns, DispatchTimer,
         TimerCallbackReturns, TimersDone, Leave, Tick, loop, MayCall, InCallback, MayWait
  <2>2. ASSUME pc = "wait", pc' = "events" PROVE Wait
    BY <2>2 DEF Next, Interface, Step, Add, AddFails, RemoveEvent, Schedule, Cancel, Stop, Shutdown,
         Enter, RunEnds, WaitFails, EventsDone, EventCallbackReturns, DispatchEvent, DispatchTimer,
         TimerCallbackReturns, TimersDone, Leave, Tick, loop, MayCall, InCallback, MayWait
  <2>3. ASSUME DispatchEvent, pc' = "event_callback"
        PROVE  /\ ~closed
               /\ current'.token = token[current'.event]
               /\ current'.token \notin retired
               /\ current'.event = Head(batch).event
    <3>1. 1 \in DOMAIN batch /\ Head(batch) = batch[1]
      BY <2>3 DEF DispatchEvent, EngineInv, RecordsTrue
    <3>2. PICK e \in Lookup(batch[1]) :
            current' = [token |-> batch[1].token, event |-> e, timer |-> 0]
      BY <2>3, <3>1 DEF DispatchEvent
    <3>3. e \in Events /\ token[e] = batch[1].token
      BY <3>2 DEF Lookup
    <3>4. e = batch[1].event /\ batch[1].token # 0
      BY <3>1, <3>3, RecordTypes DEF EngineInv, RecordsTrue
    <3>5. token[e] \notin retired /\ ~closed
      BY <3>3, <3>4 DEF EngineInv, TokensUnique, LoopObeys
    <3> QED
      BY <3>1, <3>2, <3>3, <3>4, <3>5
  <2>4. Wait => once \/ ~stop_requested
    BY DEF Wait, MayWait, EngineInv, LoopObeys
  <2> QED
    BY <2>1, <2>2, <2>3, <2>4
<1> QED
  BY <1>1, EngineInvariant, PTL DEF Spec, NoStaleDispatch

(***************************************************************************)
(* However timers are cancelled, purged and armed by callbacks, each fires *)
(* at most once, not before its deadline, not after cancel() or shutdown() *)
(* and not ahead of a live timer that is due earlier.                      *)
(***************************************************************************)
THEOREM TimersInOrder == Spec => TimersFireInOrder
<1> DEFINE A == pc = "timers" /\ pc' = "timer_callback" =>
                  LET t == current'.timer IN
                  /\ ~closed
                  /\ t \in DOMAIN timers /\ t \notin gone
                  /\ timers[t] <= now
                  /\ \A u \in DOMAIN timers : timers[t] <= timers[u]
<1>1. EngineInv /\ [Next]_vars => [A]_vars
  <2> SUFFICES ASSUME EngineInv, Next, pc = "timers", pc' = "timer_callback"
               PROVE  LET t == current'.timer IN
                      /\ ~closed
                      /\ t \in DOMAIN timers /\ t \notin gone
                      /\ timers[t] <= now
                      /\ \A u \in DOMAIN timers : timers[t] <= timers[u]
    OBVIOUS
  <2>1. DispatchTimer
    BY DEF Next, Interface, Step, Add, AddFails, RemoveEvent, Schedule, Cancel, Stop, Shutdown,
         Enter, RunEnds, Wait, WaitFails, EventsDone, EventCallbackReturns, DispatchEvent,
         TimerCallbackReturns, TimersDone, Leave, Tick, loop, MayCall, InCallback, MayWait
  <2>2. PICK entry \in timer_queue :
          /\ Top(entry) /\ entry.deadline <= now /\ Live(entry)
          /\ current' = [token |-> 0, event |-> "none", timer |-> entry.id]
    BY <2>1 DEF DispatchTimer
  <2>3. current'.timer = entry.id /\ entry.id \in DOMAIN timers /\ entry.deadline = timers[entry.id]
    BY <2>2 DEF Live, EngineInv, HeapCovers
  <2>4. ~closed /\ entry.id \notin gone
    BY <2>3 DEF EngineInv, HeapCovers, LoopObeys
  <2>5. \A u \in DOMAIN timers : entry.deadline <= timers[u]
    <3> SUFFICES ASSUME NEW u \in DOMAIN timers PROVE entry.deadline <= timers[u]
      OBVIOUS
    <3>1. EntryOf(u) \in timer_queue /\ EntryOf(u).deadline = timers[u]
      BY DEF EngineInv, HeapCovers, EntryOf
    <3> QED
      BY <2>2, <3>1 DEF Top
  <2> QED
    BY <2>2, <2>3, <2>4, <2>5
<1> QED
  BY <1>1, EngineInvariant, PTL DEF Spec, TimersFireInOrder

-----------------------------------------------------------------------------
(* The numbers of the raw transport's probes.                              *)

(***************************************************************************)
(* Division with remainder.                                                *)
(***************************************************************************)
LEMMA QuotientRemainder ==
  ASSUME NEW x \in Nat, NEW n \in Nat \ {0}
  PROVE  \E q \in Nat : x = n * q + (x % n) /\ x % n \in 0..(n - 1)
<1>1. x = n * (x \div n) + (x % n) /\ x % n \in 0..(n-1) /\ x \div n \in Int
  OBVIOUS
<1>2. x \div n >= 0
  BY <1>1
<1> DEFINE q == x \div n
<1>3. q \in Nat /\ x = n * q + (x % n) /\ x % n \in 0..(n - 1)
  BY <1>1, <1>2
<1> HIDE DEF q
<1> QED
  BY <1>3

(***************************************************************************)
(* A remainder is its own.                                                 *)
(***************************************************************************)
LEMMA RemainderUnique ==
  ASSUME NEW n \in Nat \ {0}, NEW q \in Int, NEW r \in 0..(n - 1)
  PROVE  (n * q + r) % n = r
OBVIOUS

(***************************************************************************)
(* An even modulus keeps parity.                                           *)
(***************************************************************************)
LEMMA RemainderParity ==
  ASSUME NEW n \in Nat \ {0}, n % 2 = 0, NEW x \in Nat
  PROVE  (x % n) % 2 = x % 2
<1>1. PICK q \in Nat : x = n * q + (x % n) /\ x % n \in 0..(n - 1)
  BY QuotientRemainder
<1>2. PICK k \in Nat : n = 2 * k
  OBVIOUS
<1>3. n * q = 2 * (k * q)
  BY <1>2
<1>4. k * q \in Nat /\ x % n \in Nat
  BY <1>1
<1> DEFINE h == k * q  r == x % n
<1>5. x = 2 * h + r /\ h \in Nat /\ r \in Nat
  BY <1>1, <1>3, <1>4
<1> HIDE DEF h, r
<1>6. x % 2 = r % 2
  BY <1>5
<1> QED
  BY <1>6 DEF r

(***************************************************************************)
(* Named so that the provers need not look for products: a has an inverse  *)
(* modulo n; i and j are mapped to the same remainder.                     *)
(***************************************************************************)
Invertible(a, n) == \E m \in Nat : (a * m) % n = 1
SameWord(a, c, i, j, n) == (a * i + c) % n = (a * j + c) % n

(***************************************************************************)
(* A factor with an inverse, then an addition, tell remainders apart.      *)
(***************************************************************************)
LEMMA FactorInvertible ==
  ASSUME NEW n \in Nat \ {0}, NEW a \in Nat, Invertible(a, n), NEW c \in Nat,
         NEW i \in Nat, NEW j \in Nat, SameWord(a, c, i, j, n)
  PROVE  i % n = j % n
<1> DEFINE x == a * i + c  y == a * j + c
<1>0. PICK m \in Nat : (a * m) % n = 1
  BY DEF Invertible
<1>1. x \in Nat /\ y \in Nat /\ a * m \in Nat
  OBVIOUS
<1>2. PICK p \in Nat : x = n * p + (x % n)
  BY <1>1, QuotientRemainder
<1>3. PICK q \in Nat : y = n * q + (y % n)
  BY <1>1, QuotientRemainder
<1>4. PICK s \in Nat : a * m = n * s + 1
  <2> DEFINE b == a * m
  <2>1. b \in Nat /\ b % n = 1
    BY <1>0, <1>1
  <2> HIDE DEF b
  <2>2. PICK s \in Nat : b = n * s + (b % n)
    BY <2>1, QuotientRemainder
  <2>3. b = n * s + 1
    BY <2>1, <2>2
  <2> QED
    BY <2>3 DEF b
<1>5. x % n = y % n /\ x % n \in Int
  BY <1>1 DEF SameWord
<1>6. a * (i - j) = n * (p - q)
  <2>1. x - y = n * (p - q)
    <3> HIDE DEF x, y
    <3> QED
      BY <1>1, <1>2, <1>3, <1>5
  <2>2. x - y = a * (i - j)
    OBVIOUS
  <2> QED
    BY <2>1, <2>2
<1>7. (a * m) * (i - j) = n * (m * (p - q))
  BY <1>6
<1>8. (n * s + 1) * (i - j) = n * (s * (i - j)) + (i - j)
  OBVIOUS
<1> DEFINE k == m * (p - q) - s * (i - j)
<1>9. k \in Int /\ i - j = n * k
  BY <1>4, <1>7, <1>8
<1>10. PICK t \in Nat : j = n * t + (j % n) /\ j % n \in 0..(n - 1)
  BY QuotientRemainder
<1> HIDE DEF k
<1>11. i = n * (t + k) + (j % n) /\ t + k \in Int
  <2>1. n * (t + k) = n * t + n * k
    BY <1>9
  <2> DEFINE u == n * t  v == n * k  r == j % n
  <2>2. u \in Int /\ v \in Int /\ r \in Int /\ j = u + r /\ i - j = v /\ n * (t + k) = u + v
    BY <1>9, <1>10, <2>1
  <2> HIDE DEF u, v, r
  <2>3. i = (u + v) + r
    BY <2>2
  <2> QED
    BY <1>9, <2>2, <2>3 DEF r
<1> QED
  BY <1>10, <1>11, RemainderUnique

(***************************************************************************)
(* The successor modulo n is one-to-one.                                   *)
(***************************************************************************)
LEMMA NextInjective ==
  ASSUME NEW n \in Nat \ {0}, NEW s \in 0..(n - 1), NEW t \in 0..(n - 1),
         (s + 1) % n = (t + 1) % n
  PROVE  s = t
<1>1. (s + 1) % n = IF s = n - 1 THEN 0 ELSE s + 1
  <2>1. CASE s = n - 1
    <3>1. s + 1 = n * 1 + 0
      BY <2>1
    <3> QED BY <2>1, <3>1, RemainderUnique
  <2>2. CASE s # n - 1
    <3>1. s + 1 = n * 0 + (s + 1) /\ s + 1 \in 0..(n-1)
      BY <2>2
    <3> QED BY <2>2, <3>1, RemainderUnique
  <2> QED BY <2>1, <2>2
<1>2. (t + 1) % n = IF t = n - 1 THEN 0 ELSE t + 1
  <2>1. CASE t = n - 1
    <3>1. t + 1 = n * 1 + 0
      BY <2>1
    <3> QED BY <2>1, <3>1, RemainderUnique
  <2>2. CASE t # n - 1
    <3>1. t + 1 = n * 0 + (t + 1) /\ t + 1 \in 0..(n-1)
      BY <2>2
    <3> QED BY <2>2, <3>1, RemainderUnique
  <2> QED BY <2>1, <2>2
<1> QED
  BY <1>1, <1>2

(***************************************************************************)
(* Probes with the same source port have ids of the same parity, since the *)
(* pool of source ports is even.                                           *)
(***************************************************************************)
LEMMA SamePortSameParity ==
  ASSUME NEW i \in Ids, NEW j \in Ids, source_port_for(i) = source_port_for(j)
  PROVE  i % 2 = j % 2
<1>1. i \in Nat /\ j \in Nat /\ PORT_SPAN \in Nat \ {0} /\ PORT_SPAN % 2 = 0
  BY RawScanAssumption, NumbersAssumption
<1>2. (i % PORT_SPAN) % 2 = i % 2 /\ (j % PORT_SPAN) % 2 = j % 2
  BY <1>1, RemainderParity
<1> QED
  BY <1>2 DEF source_port_for

(***************************************************************************)
(* A word derived from an id, a |-> (a * id + c) % WORD: its range, parity *)
(* and what it says about the id.                                          *)
(***************************************************************************)
LEMMA WordOfId ==
  ASSUME NEW a \in {3, 5}, NEW c \in Nat, NEW i \in Ids
  PROVE  /\ (a * i + c) % WORD \in 0..(WORD - 1)
         /\ ((a * i + c) % WORD) % 2 = (i + c) % 2
<1>1. i \in Nat /\ WORD \in Nat \ {0} /\ WORD % 2 = 0
  BY RawScanAssumption, NumbersAssumption
<1>2. a * i + c \in Nat
  BY <1>1
<1>3. ((a * i + c) % WORD) % 2 = (a * i + c) % 2
  BY <1>1, <1>2, RemainderParity
<1>4. (a * i + c) % 2 = (i + c) % 2
  BY <1>1
<1>5. (a * i + c) % WORD \in 0..(WORD - 1)
  <2> DEFINE x == a * i + c
  <2>1. x \in Nat
    BY <1>2
  <2> HIDE DEF x
  <2>2. x % WORD \in 0..(WORD - 1)
    BY <1>1, <2>1
  <2> QED
    BY <2>2 DEF x
<1> QED
  BY <1>3, <1>4, <1>5

LEMMA WordIdentifies ==
  ASSUME NEW a \in {3, 5}, NEW c \in Nat, NEW i \in Ids, NEW j \in Ids,
         (a * i + c) % WORD = (a * j + c) % WORD
  PROVE  i = j
<1>1. i \in Nat /\ j \in Nat /\ WORD \in Nat \ {0}
  BY RawScanAssumption
<1>2. Invertible(a, WORD)
  BY NumbersAssumption DEF Invertible
<1>3. SameWord(a, c, i, j, WORD)
  BY DEF SameWord
<1>4. i % WORD = j % WORD
  BY <1>1, <1>2, <1>3, FactorInvertible
<1> QED
  BY <1>4, NumbersAssumption

(***************************************************************************)
(* Words that are not zero: zero is replaced by one, which no other id of  *)
(* the same parity has.                                                    *)
(***************************************************************************)
LEMMA NonzeroWordIdentifies ==
  ASSUME NEW a \in {3, 5}, NEW c \in Nat, NEW i \in Ids, NEW j \in Ids,
         source_port_for(i) = source_port_for(j),
         NEW v, v = (a * i + c) % WORD, NEW w, w = (a * j + c) % WORD,
         (IF v = 0 THEN 1 ELSE v) = (IF w = 0 THEN 1 ELSE w)
  PROVE  i = j
<1>1. v \in Nat /\ w \in Nat
  BY WordOfId, RawScanAssumption
<1>2. v % 2 = w % 2
  <2>1. i % 2 = j % 2 /\ i \in Nat /\ j \in Nat
    BY SamePortSameParity, RawScanAssumption
  <2>2. (i + c) % 2 = (j + c) % 2
    BY <2>1
  <2> QED
    BY <2>2, WordOfId
<1>3. v = w
  BY <1>1, <1>2
<1> QED
  BY <1>3, WordIdentifies

LEMMA SynSequences ==
  ASSUME NEW i \in Ids
  PROVE  /\ syn_sequence_for(i) = (5 * i + (WORD - 6)) % WORD
         /\ WORD - 6 \in Nat
<1>1. i \in Nat /\ WORD \in Nat /\ WORD > 6
  BY RawScanAssumption
<1>2. 5 * i + WORD - 6 = 5 * i + (WORD - 6)
  BY <1>1
<1> QED
  BY <1>1, <1>2 DEF syn_sequence_for

(***************************************************************************)
(* No two probes of the same ports have the same sequence number, nor the  *)
(* same acknowledgment number; and the number that acknowledges one probe  *)
(* is not the sequence number of another.                                  *)
(***************************************************************************)
LEMMA SequencesIdentify ==
  ASSUME NEW i \in Ids, NEW j \in Ids, source_port_for(i) = source_port_for(j),
         Submission[i].probe = Submission[j].probe, sequence_of(i) = sequence_of(j)
  PROVE  i = j
<1>1. CASE Submission[i].probe = "TcpSyn"
  BY <1>1, SynSequences, WordIdentifies DEF sequence_of
<1>2. CASE Submission[i].probe # "TcpSyn"
  BY <1>2, NonzeroWordIdentifies DEF sequence_of, ack_sequence_for
<1> QED
  BY <1>1, <1>2

LEMMA AcknowledgmentsIdentify ==
  ASSUME NEW i \in Ids, NEW j \in Ids, source_port_for(i) = source_port_for(j),
         acknowledgment_for(i) = acknowledgment_for(j)
  PROVE  i = j
BY NonzeroWordIdentifies DEF acknowledgment_for

LEMMA AcknowledgmentNotZero ==
  ASSUME NEW i \in Ids
  PROVE  acknowledgment_for(i) # 0
BY DEF acknowledgment_for

LEMMA AnswersIdentify ==
  ASSUME NEW i \in Ids, NEW j \in Ids, source_port_for(i) = source_port_for(j),
         Submission[i].probe = "TcpSyn", Submission[j].probe = "TcpSyn"
  PROVE  /\ after_sequence(i) = after_sequence(j) => i = j
         /\ after_sequence(i) # sequence_of(j)
<1> DEFINE s == sequence_of(i)  t == sequence_of(j)
<1>1. /\ s \in 0..(WORD - 1) /\ t \in 0..(WORD - 1)
      /\ s % 2 = (i + (WORD - 6)) % 2 /\ t % 2 = (j + (WORD - 6)) % 2
  BY SynSequences, WordOfId DEF sequence_of
<1>2. /\ WORD \in Nat \ {0} /\ WORD % 2 = 0 /\ WORD > 6 /\ i % 2 = j % 2 /\ i \in Nat /\ j \in Nat
  BY RawScanAssumption, NumbersAssumption, SamePortSameParity
<1>3. s % 2 = t % 2
  <2>1. (i + (WORD - 6)) % 2 = (j + (WORD - 6)) % 2
    BY <1>2
  <2> QED
    BY <1>1, <2>1
<1>4. after_sequence(i) = (s + 1) % WORD /\ after_sequence(j) = (t + 1) % WORD
  BY DEF after_sequence
<1>5. s = t => i = j
  BY SequencesIdentify
<1> HIDE DEF s, t
<1>6. (s + 1) % WORD = (t + 1) % WORD => s = t
  BY <1>1, <1>2, NextInjective
<1>7. (s + 1) % WORD # t
  <2>1. ((s + 1) % WORD) % 2 = (s + 1) % 2
    BY <1>1, <1>2, RemainderParity
  <2>2. (s + 1) % 2 # s % 2
    BY <1>1
  <2> QED
    BY <1>3, <2>1, <2>2
<1> QED
  BY <1>4, <1>5, <1>6, <1>7 DEF t

(***************************************************************************)
(* A key of the correlation table is one probe's.                          *)
(***************************************************************************)
LEMMA KeysIdentify ==
  ASSUME NEW i \in Ids, NEW j \in Ids, correlation_key(i) = correlation_key(j)
  PROVE  i = j
<1>1. /\ Submission[i].target = Submission[j].target /\ source_port_for(i) = source_port_for(j)
      /\ sequence_of(i) = sequence_of(j)
  BY DEF correlation_key
<1>2. Submission[i].probe = Submission[j].probe
  BY <1>1, NumbersAssumption
<1> QED
  BY <1>1, <1>2, SequencesIdentify

-----------------------------------------------------------------------------
(* The raw transport's inductive invariant.                                *)

(***************************************************************************)
(* What is out has been submitted, and only what was sent can be answered: *)
(* an id is submitted once, so what has left the tables stays out of them. *)
(***************************************************************************)
CountersTyped ==
  /\ session \in [active : BOOLEAN, submitted : Nat, completed : Nat, timed_out : Nat, failed : Nat]
  /\ held \subseteq Resources /\ refused \in Nat
  /\ IsFiniteSet(DOMAIN pending) /\ DOMAIN pending \subseteq used
  /\ sent \subseteq used /\ used \subseteq Ids

Visible == (UNION {Frames(id) : id \in sent}) \cup {Oversized}

WireVisible == wire \in Seq(Visible)

(***************************************************************************)
(* The probe a running callback's frame was meant for has been submitted.  *)
(***************************************************************************)
EvidenceUsed == evidence # NoFrame => evidence.origin \in used

TransportInv ==
  CountersTyped /\ SessionAccounts /\ WireVisible /\ EvidenceUsed /\ AnswerReachesItsProbe

(***************************************************************************)
(* Whatever fails in open(), a transport that is open holds every resource *)
(* and one that is not has no socket.                                      *)
(***************************************************************************)
LEMMA OpenResources ==
  ASSUME NEW fault \in {"none", "early", "capture", "socket", "attach"}, NEW stuck \in BOOLEAN,
         Open(fault, stuck), held \subseteq Resources
  PROVE  /\ held' \subseteq Resources
         /\ pending' = EmptyMap /\ correlation' = EmptyMap
         /\ \/ /\ session' = [Fresh EXCEPT !.active = TRUE]
               /\ held' = Resources /\ refused' = 0
            \/ /\ session' = [session EXCEPT !.active = FALSE]
               /\ "socket" \notin held' /\ refused' = refused
<1> USE DEF Open, ReceiverClosed, capture_open, transport_open, attach, Resources
<1>1. CASE fault = "early"
  BY <1>1
<1>2. CASE fault = "capture"
  BY <1>2
<1>3. CASE fault = "socket"
  BY <1>3
<1>4. CASE fault = "none"
  BY <1>4
<1>5. CASE fault = "attach"
  BY <1>5
<1> QED
  BY <1>1, <1>2, <1>3, <1>4, <1>5

LEMMA EmptyTables ==
  ASSUME pending' = EmptyMap, correlation' = EmptyMap
  PROVE  /\ DOMAIN pending' = {} /\ DOMAIN correlation' = {}
         /\ IsFiniteSet(DOMAIN pending') /\ Cardinality(DOMAIN pending') = 0
BY FS_EmptySet DEF EmptyMap

(***************************************************************************)
(* One more of what is counted.                                            *)
(***************************************************************************)
LEMMA Counted ==
  ASSUME CountersTyped, NEW which \in {"submitted", "completed", "timed_out", "failed"},
         session' = Count(which)
  PROVE  /\ session' \in [active : BOOLEAN, submitted : Nat, completed : Nat, timed_out : Nat, failed : Nat]
         /\ session'.active = session.active
         /\ session'.submitted = session.submitted + (IF which = "submitted" THEN 1 ELSE 0)
         /\ session'.completed + session'.timed_out + session'.failed
              = session.completed + session.timed_out + session.failed
                  + (IF which = "submitted" THEN 0 ELSE 1)
<1>1. session \in [active : BOOLEAN, submitted : Nat, completed : Nat, timed_out : Nat, failed : Nat]
  BY DEF CountersTyped
<1>2. CASE which = "submitted"
  BY <1>1, <1>2 DEF Count
<1>3. CASE which = "completed"
  BY <1>1, <1>3 DEF Count
<1>4. CASE which = "timed_out"
  BY <1>1, <1>4 DEF Count
<1>5. CASE which = "failed"
  BY <1>1, <1>5 DEF Count
<1> QED
  BY <1>2, <1>3, <1>4, <1>5

(***************************************************************************)
(* Taking a probe out of pending_ and its key out of the correlation table *)
(* leaves the tables of the other probes.                                  *)
(***************************************************************************)
LEMMA EraseKeepsTables ==
  ASSUME CountersTyped, SessionAccounts, NEW id \in DOMAIN pending, Erase(id)
  PROVE  /\ DOMAIN pending' = DOMAIN pending \ {id}
         /\ IsFiniteSet(DOMAIN pending')
         /\ Cardinality(DOMAIN pending') = Cardinality(DOMAIN pending) - 1
         /\ DOMAIN correlation' = {correlation_key(i) : i \in DOMAIN pending'}
         /\ \A i \in DOMAIN pending' : correlation'[correlation_key(i)] = i
<1>1. DOMAIN pending' = DOMAIN pending \ {id}
  BY DEF Erase, Without
<1>2. IsFiniteSet(DOMAIN pending') /\ Cardinality(DOMAIN pending') = Cardinality(DOMAIN pending) - 1
  BY <1>1, FS_RemoveElement DEF CountersTyped
<1>3. \A i \in DOMAIN pending : correlation_key(i) = correlation_key(id) => i = id
  BY DEF SessionAccounts
<1>4. /\ DOMAIN correlation' = DOMAIN correlation \ {correlation_key(id)}
      /\ \A key \in DOMAIN correlation' : correlation'[key] = correlation[key]
  BY DEF Erase, Without
<1>5. DOMAIN correlation' = {correlation_key(i) : i \in DOMAIN pending'}
  BY <1>1, <1>3, <1>4 DEF SessionAccounts
<1>6. \A i \in DOMAIN pending' : correlation'[correlation_key(i)] = i
  BY <1>1, <1>4, <1>5 DEF SessionAccounts
<1> QED
  BY <1>1, <1>2, <1>5, <1>6

(***************************************************************************)
(* The accounts of a probe that ends with one counter.                     *)
(***************************************************************************)
LEMMA CountedSum ==
  ASSUME CountersTyped, NEW which \in {"completed", "timed_out", "failed"}, session' = Count(which)
  PROVE  /\ session'.submitted = session.submitted
         /\ session'.completed + session'.timed_out + session'.failed
              = session.completed + session.timed_out + session.failed + 1
<1>1. session.submitted \in Nat
  BY DEF CountersTyped
<1>2. which # "submitted"
  OBVIOUS
<1> QED
  BY <1>1, <1>2, Counted

LEMMA EndKeepsAccounts ==
  ASSUME CountersTyped, SessionAccounts, NEW id \in DOMAIN pending, Erase(id),
         NEW which \in {"completed", "timed_out", "failed"}, session' = Count(which),
         UNCHANGED <<held, refused, used, sent>>
  PROVE  CountersTyped' /\ SessionAccounts'
<1>1. CountersTyped'
  BY EraseKeepsTables, Counted DEF CountersTyped
<1>2. session.active
  <2>1. ~session.active => DOMAIN pending = {}
    BY DEF SessionAccounts, EmptyMap
  <2> QED
    BY <2>1
<1>3. session'.active /\ held' = Resources
  BY <1>2, Counted DEF SessionAccounts
<1>4. session'.submitted + refused' =
        session'.completed + session'.timed_out + session'.failed + Cardinality(DOMAIN pending')
  <2>1. /\ session'.submitted = session.submitted
        /\ session'.completed + session'.timed_out + session'.failed
              = session.completed + session.timed_out + session.failed + 1
    BY CountedSum
  <2>2. Cardinality(DOMAIN pending') = Cardinality(DOMAIN pending) - 1
        /\ Cardinality(DOMAIN pending) \in Nat
    BY EraseKeepsTables, FS_CardinalityType DEF CountersTyped
  <2>3. session.submitted + refused =
          session.completed + session.timed_out + session.failed + Cardinality(DOMAIN pending)
    BY <1>2 DEF SessionAccounts
  <2>4. /\ session.submitted \in Nat /\ session.completed \in Nat /\ session.timed_out \in Nat
        /\ session.failed \in Nat /\ refused \in Nat /\ refused' = refused
    BY DEF CountersTyped
  <2> QED
    BY <2>1, <2>2, <2>3, <2>4
<1> QED
  BY <1>1, <1>3, <1>4, EraseKeepsTables DEF SessionAccounts

LEMMA SubmitKeepsAccounts ==
  ASSUME CountersTyped, SessionAccounts, NEW id \in Ids,
         NEW fault \in {"none", "early", "memory", "send"}, Submit(id, fault)
  PROVE  CountersTyped' /\ SessionAccounts'
<1>1. session.active /\ id \notin used /\ used' = used \cup {id} /\ held' = held
  BY DEF Submit, is_open
<1>2. /\ session.submitted \in Nat /\ session.completed \in Nat /\ session.timed_out \in Nat
      /\ session.failed \in Nat /\ refused \in Nat /\ Cardinality(DOMAIN pending) \in Nat
      /\ session.submitted + refused =
           session.completed + session.timed_out + session.failed + Cardinality(DOMAIN pending)
  BY <1>1, FS_CardinalityType DEF CountersTyped, SessionAccounts
<1>3. CASE session' = Count("failed") /\ refused' = refused + 1 /\ UNCHANGED <<pending, correlation, sent>>
  <2>1. CountersTyped'
    <3>1. /\ session' \in [active : BOOLEAN, submitted : Nat, completed : Nat, timed_out : Nat, failed : Nat]
          /\ refused' \in Nat
      BY <1>2, <1>3, Counted
    <3> QED
      BY <1>1, <1>3, <3>1 DEF CountersTyped
  <2>2. /\ session'.active = session.active /\ session'.submitted = session.submitted
        /\ session'.completed + session'.timed_out + session'.failed
              = session.completed + session.timed_out + session.failed + 1
    BY <1>3, Counted, CountedSum
  <2>3. session'.submitted + refused' =
          session'.completed + session'.timed_out + session'.failed + Cardinality(DOMAIN pending')
    BY <1>2, <1>3, <2>2
  <2> QED
    BY <1>1, <1>3, <2>1, <2>2, <2>3 DEF SessionAccounts
<1>4. CASE /\ insertable(correlation_key(id))
           /\ pending' = With(pending, id, [observed |-> FALSE, failed |-> FALSE])
           /\ correlation' = With(correlation, correlation_key(id), id)
           /\ session' = Count("submitted") /\ sent' = sent \cup {id} /\ refused' = refused
  <2>1. DOMAIN pending' = DOMAIN pending \cup {id} /\ id \notin DOMAIN pending
    BY <1>1, <1>4 DEF With, CountersTyped
  <2>2. IsFiniteSet(DOMAIN pending') /\ Cardinality(DOMAIN pending') = Cardinality(DOMAIN pending) + 1
    BY <2>1, FS_AddElement DEF CountersTyped
  <2>3. CountersTyped'
    BY <1>1, <1>4, <2>1, <2>2, Counted DEF CountersTyped
  <2>4. /\ DOMAIN correlation' = DOMAIN correlation \cup {correlation_key(id)}
        /\ \A key \in DOMAIN correlation' :
             correlation'[key] = IF key = correlation_key(id) THEN id ELSE correlation[key]
    BY <1>4 DEF With
  <2>5. DOMAIN correlation' = {correlation_key(i) : i \in DOMAIN pending'}
    BY <2>1, <2>4 DEF SessionAccounts
  <2>6. correlation_key(id) \notin {correlation_key(i) : i \in DOMAIN pending}
    BY <1>4 DEF insertable, SessionAccounts
  <2>7. \A i \in DOMAIN pending' : correlation'[correlation_key(i)] = i
    BY <2>1, <2>4, <2>5, <2>6 DEF SessionAccounts
  <2>8. /\ session'.active = session.active /\ session'.submitted = session.submitted + 1
        /\ session'.completed + session'.timed_out + session'.failed
              = session.completed + session.timed_out + session.failed
    BY <1>4, <1>2, Counted
  <2>9. session'.submitted + refused' =
          session'.completed + session'.timed_out + session'.failed + Cardinality(DOMAIN pending')
    BY <1>2, <1>4, <2>2, <2>8
  <2> QED
    BY <1>1, <2>3, <2>5, <2>7, <2>8, <2>9 DEF SessionAccounts
<1> QED
  BY <1>3, <1>4 DEF Submit

LEMMA AccountsKept ==
  ASSUME CountersTyped, SessionAccounts,
         UNCHANGED <<session, held, correlation, refused, used, sent>>,
         DOMAIN pending' = DOMAIN pending, pending = EmptyMap => pending' = EmptyMap
  PROVE  CountersTyped' /\ SessionAccounts'
BY DEF CountersTyped, SessionAccounts

LEMMA AccountsStep ==
  ASSUME CountersTyped, SessionAccounts, [RawNext]_rawVars
  PROVE  CountersTyped' /\ SessionAccounts'
<1>1. ASSUME NEW fault \in {"none", "early", "capture", "socket", "attach"}, NEW stuck \in BOOLEAN,
             Open(fault, stuck)
      PROVE  CountersTyped' /\ SessionAccounts'
  <2>1. held \subseteq Resources
    BY DEF CountersTyped
  <2>2. /\ pending' = EmptyMap /\ correlation' = EmptyMap
        /\ \/ /\ session' = [Fresh EXCEPT !.active = TRUE]
              /\ held' = Resources /\ refused' = 0
           \/ /\ session' = [session EXCEPT !.active = FALSE]
              /\ "socket" \notin held' /\ refused' = refused
        /\ held' \subseteq Resources
    BY <1>1, <2>1, OpenResources
  <2>3. /\ session' \in [active : BOOLEAN, submitted : Nat, completed : Nat, timed_out : Nat, failed : Nat]
        /\ refused' \in Nat
        /\ session'.active => /\ session'.submitted = 0 /\ session'.completed = 0
                              /\ session'.timed_out = 0 /\ session'.failed = 0
                              /\ refused' = 0 /\ held' = Resources
        /\ ~session'.active => "socket" \notin held'
    <3>1. CASE session' = [Fresh EXCEPT !.active = TRUE] /\ held' = Resources /\ refused' = 0
      BY <3>1 DEF Fresh
    <3>2. CASE session' = [session EXCEPT !.active = FALSE] /\ "socket" \notin held' /\ refused' = refused
      <4>1. /\ session \in [active : BOOLEAN, submitted : Nat, completed : Nat, timed_out : Nat, failed : Nat]
            /\ refused \in Nat
        BY DEF CountersTyped
      <4>2. session' \in [active : BOOLEAN, submitted : Nat, completed : Nat, timed_out : Nat, failed : Nat]
            /\ session'.active = FALSE
        BY <3>2, <4>1
      <4> QED
        BY <3>2, <4>1, <4>2
    <3> QED
      BY <2>2, <3>1, <3>2
  <2>4. used' = used /\ sent' = sent
    BY <1>1 DEF Open
  <2> HIDE <1>1
  <2>5. CountersTyped'
    BY <2>2, <2>3, <2>4, EmptyTables DEF CountersTyped
  <2> QED
    BY <2>2, <2>3, <2>5, EmptyTables DEF SessionAccounts
<1>2. ASSUME NEW stuck \in BOOLEAN, Close(stuck)
      PROVE  CountersTyped' /\ SessionAccounts'
  <2>1. /\ pending' = EmptyMap /\ correlation' = EmptyMap
        /\ "socket" \notin held' /\ held' \subseteq Resources
        /\ session' = [session EXCEPT !.active = FALSE] /\ UNCHANGED <<used, sent, refused>>
    BY <1>2 DEF Close, ReceiverClosed, historyVars, CountersTyped
  <2>2. /\ session' \in [active : BOOLEAN, submitted : Nat, completed : Nat, timed_out : Nat, failed : Nat]
        /\ ~session'.active
    BY <2>1 DEF CountersTyped
  <2> QED
    BY <2>1, <2>2, EmptyTables DEF CountersTyped, SessionAccounts
<1>3. ASSUME NEW id \in Ids, NEW fault \in {"none", "early", "memory", "send"}, Submit(id, fault)
      PROVE  CountersTyped' /\ SessionAccounts'
  BY <1>3, SubmitKeepsAccounts
<1>4. ASSUME NEW id \in Ids, CancelProbe(id)
      PROVE  CountersTyped' /\ SessionAccounts'
  <2>1. PICK which \in {"completed", "timed_out", "failed"} : session' = Count(which)
    BY <1>4 DEF CancelProbe
  <2> QED
    BY <1>4, <2>1, EndKeepsAccounts DEF CancelProbe, historyVars
<1>5. CASE CallbackReturns
  <2>1. CASE reading = "drain" /\ calling \in DOMAIN pending
    BY <1>5, <2>1, EndKeepsAccounts DEF CallbackReturns, historyVars
  <2>2. CASE ~(reading = "drain" /\ calling \in DOMAIN pending)
    BY <1>5, <2>2, AccountsKept DEF CallbackReturns, historyVars
  <2> QED
    BY <2>1, <2>2
<1>6. CASE Receive \/ (\E id \in Ids : Drain(id))
  <2>1. DOMAIN pending' = DOMAIN pending /\ UNCHANGED <<session, held, correlation, refused, used, sent>>
    BY <1>6 DEF Receive, Drain, historyVars
  <2>2. pending = EmptyMap => pending' = EmptyMap
    <3> SUFFICES ASSUME pending = EmptyMap PROVE pending' = EmptyMap
      OBVIOUS
    <3>1. DOMAIN pending' = {}
      BY <2>1 DEF EmptyMap
    <3>2. pending' = [x \in DOMAIN pending' |-> pending'[x]]
      BY <1>6 DEF Receive, Drain, EmptyMap
    <3> QED
      BY <3>1, <3>2 DEF EmptyMap
  <2> QED
    BY <2>1, <2>2, AccountsKept
<1>7. CASE CaptureEvent \/ EventEnds \/ ReceiveFails \/ DrainEnds
           \/ UNCHANGED rawVars
  BY <1>7, AccountsKept
  DEF CaptureEvent, EventEnds, ReceiveFails, DrainEnds, rawVars, transportVars, historyVars
<1>8. ASSUME NEW frame, Arrive(frame)
      PROVE  CountersTyped' /\ SessionAccounts'
  BY <1>8, AccountsKept DEF Arrive, transportVars, historyVars
<1> QED
  BY <1>1, <1>2, <1>3, <1>4, <1>5, <1>6, <1>7, <1>8 DEF RawNext

LEMMA AccountsInitially == RawInit => CountersTyped /\ SessionAccounts
<1> SUFFICES ASSUME RawInit PROVE CountersTyped /\ SessionAccounts
  OBVIOUS
<1>1. DOMAIN pending = {} /\ DOMAIN correlation = {} /\ pending = EmptyMap
  BY DEF RawInit, EmptyMap
<1>2. IsFiniteSet(DOMAIN pending)
  BY <1>1, FS_EmptySet
<1>3. CountersTyped
  BY <1>1, <1>2 DEF RawInit, Fresh, CountersTyped
<1>4. SessionAccounts
  BY <1>1 DEF RawInit, Fresh, SessionAccounts
<1> QED
  BY <1>3, <1>4

(***************************************************************************)
(* Whatever the callbacks do inside a capture event, and whatever fails in *)
(* open(), submit() or the socket, the two tables agree, a session that is *)
(* not open has no probe and no socket, and the counters account for every *)
(* submission the session took.                                            *)
(***************************************************************************)
THEOREM TransportAccounts == RawSpec => []SessionAccounts
<1>1. RawInit => CountersTyped /\ SessionAccounts
  BY AccountsInitially
<1>2. CountersTyped /\ SessionAccounts /\ [RawNext]_rawVars => (CountersTyped /\ SessionAccounts)'
  BY AccountsStep
<1> QED
  BY <1>1, <1>2, PTL DEF RawSpec

-----------------------------------------------------------------------------
(* What a frame is evidence of.                                            *)

(***************************************************************************)
(* The layers around a segment keep what the segment says.                 *)
(***************************************************************************)
LEMMA LayersShape ==
  ASSUME NEW damage \in Damages \cup {"plain"}
  PROVE  /\ DOMAIN Layers(damage) = {"tags", "exts", "room", "body"}
         /\ Layers(damage).tags \in 0..2
         /\ Layers(damage).body \in {"whole", "damaged", "cut"}
<1>1. damage \in {"plain", "vlan", "qinq", "options", "fragment", "long", "damaged", "cut"}
  BY RawScanAssumption
<1> QED
  BY <1>1 DEF Layers

LEMMA SegmentFrame ==
  ASSUME NEW id \in Ids, NEW f \in Segments(id), NEW damage \in Damages \cup {"plain"},
         NEW frame, frame = Frame(id, f, damage)
  PROVE  /\ frame.kind = "tcp" /\ frame.from = f.from /\ frame.sport = f.sport
         /\ frame.dport = f.dport /\ frame.flags = f.flags /\ frame.seq = f.seq
         /\ frame.ack = f.ack /\ frame.origin = f.origin
         /\ frame.family = Submission[id].family /\ frame.to = "us"
         /\ frame.tags \in 0..2 /\ frame.body \in {"whole", "damaged", "cut"}
<1>1. /\ DOMAIN f = {"kind", "from", "sport", "dport", "flags", "seq", "ack", "code", "quote", "origin"}
      /\ f.kind = "tcp"
  BY DEF Segments, Segment
<1> DEFINE g == Joined(Layers(damage), [family |-> Submission[id].family, to |-> "us"])
<1>2. /\ DOMAIN g = {"tags", "exts", "room", "body", "family", "to"}
      /\ g.tags = Layers(damage).tags /\ g.body = Layers(damage).body
      /\ g.family = Submission[id].family /\ g.to = "us"
  BY LayersShape DEF Joined
<1>3. frame = Joined(f, g)
  BY DEF Frame
<1> HIDE DEF g
<1>4. \A x \in DOMAIN f \cup DOMAIN g : frame[x] = IF x \in DOMAIN f THEN f[x] ELSE g[x]
  BY <1>3 DEF Joined
<1> QED
  BY <1>1, <1>2, <1>4, LayersShape

LEMMA UnreachableFrame ==
  ASSUME NEW id \in Ids, NEW f \in Unreachables(id), NEW frame, frame = Frame(id, f, "plain")
  PROVE  /\ frame.kind = "icmp" /\ frame.quote = correlation_key(id) /\ frame.origin = id
         /\ frame.tags \in 0..2 /\ frame.body \in {"whole", "damaged", "cut"}
<1>1. /\ DOMAIN f = {"kind", "from", "code", "quote", "flags", "origin"}
      /\ f.kind = "icmp" /\ f.quote = correlation_key(id) /\ f.origin = id
  BY DEF Unreachables
<1> DEFINE g == Joined(Layers("plain"), [family |-> Submission[id].family, to |-> "us"])
<1>2. /\ DOMAIN g = {"tags", "exts", "room", "body", "family", "to"}
      /\ g.tags = Layers("plain").tags /\ g.body = Layers("plain").body
  BY LayersShape DEF Joined
<1>3. frame = Joined(f, g)
  BY DEF Frame
<1> HIDE DEF g
<1>4. \A x \in DOMAIN f \cup DOMAIN g : frame[x] = IF x \in DOMAIN f THEN f[x] ELSE g[x]
  BY <1>3 DEF Joined
<1> QED
  BY <1>1, <1>2, <1>4, LayersShape

(***************************************************************************)
(* The frames of a probe: segments that answer it or nothing, and quotes   *)
(* of it.                                                                  *)
(***************************************************************************)
LEMMA FrameShape ==
  ASSUME NEW id \in Ids, NEW frame \in Frames(id)
  PROVE  /\ frame.tags \in 0..2 /\ frame.body \in {"whole", "damaged", "cut"}
         /\ \/ /\ frame.kind = "icmp" /\ frame.quote = correlation_key(id) /\ frame.origin = id
            \/ \E f \in Segments(id) :
                 /\ frame.kind = "tcp" /\ frame.from = f.from /\ frame.sport = f.sport
                 /\ frame.dport = f.dport /\ frame.flags = f.flags /\ frame.seq = f.seq
                 /\ frame.ack = f.ack /\ frame.origin = f.origin
                 /\ frame.family = Submission[id].family /\ frame.to = "us"
<1>1. PICK f \in Segments(id) \cup Unreachables(id), damage \in Damages \cup {"plain"} :
        frame = Frame(id, f, damage) /\ (f \in Unreachables(id) => damage = "plain" \/ f \in Segments(id))
  BY DEF Frames
<1>2. CASE f \in Segments(id)
  BY <1>1, <1>2, SegmentFrame
<1>3. CASE f \in Unreachables(id) /\ damage = "plain"
  BY <1>1, <1>3, UnreachableFrame
<1> QED
  BY <1>1, <1>2, <1>3

(***************************************************************************)
(* What parse() accepts has at most one VLAN tag and is not damaged.       *)
(***************************************************************************)
LEMMA ParsedIsWhole ==
  ASSUME NEW id \in Ids, NEW frame \in Frames(id), parse(frame) = "Valid"
  PROVE  frame.body = "whole" /\ frame.tags < 2
<1>1. frame.tags \in 0..2 /\ frame.body \in {"whole", "damaged", "cut"}
  BY FrameShape
<1>2. ~(frame.tags > 1)
  BY DEF parse
<1>3. transport_status(frame) = "Valid"
  <2>1. CASE frame.family # "IPv6"
    BY <1>2, <2>1 DEF parse, parse_ipv4
  <2>2. CASE frame.family = "IPv6"
    <3>1. parse_ipv6(frame) = "Valid"
      BY <1>2, <2>2 DEF parse
    <3>2. parse_ipv6_extensions(frame.exts, frame.room, frame.kind) # "Valid"
      BY DEF parse_ipv6_extensions
    <3> QED
      BY <3>1, <3>2 DEF parse_ipv6
  <2> QED
    BY <2>1, <2>2
<1>4. frame.body # "damaged" /\ frame.body # "cut"
  BY <1>3 DEF transport_status
<1> QED
  BY <1>1, <1>2, <1>4

(***************************************************************************)
(* A segment matches the probe it answers and no other, but for a reset    *)
(* that acknowledges nothing, which any SYN probe of its ports takes.      *)
(***************************************************************************)
BareReset(frame, id) ==
  /\ frame.kind = "tcp" /\ frame.flags = {"RST"} /\ frame.origin \in Ids
  /\ Submission[frame.origin].target = Submission[id].target
  /\ Submission[frame.origin].port = Submission[id].port
  /\ source_port_for(frame.origin) = source_port_for(id)

LEMMA SegmentMatches ==
  ASSUME NEW id \in Ids, NEW frame \in Frames(id), NEW c \in Ids, matches_tcp_reply(c, frame)
  PROVE  \/ frame.origin = c
         \/ /\ BareReset(frame, c) /\ frame.origin = id /\ ~Has(frame, "ACK")
            /\ matches_tcp_reply(id, frame)
<1>1. PICK f \in Segments(id) :
        /\ frame.kind = "tcp" /\ frame.from = f.from /\ frame.sport = f.sport
        /\ frame.dport = f.dport /\ frame.flags = f.flags /\ frame.seq = f.seq
        /\ frame.ack = f.ack /\ frame.origin = f.origin
        /\ frame.family = Submission[id].family /\ frame.to = "us"
  BY FrameShape DEF matches_tcp_reply
<1>2. /\ f.from = Submission[id].target /\ f.sport = Submission[id].port
      /\ f.dport = source_port_for(id)
  BY DEF Segments, Segment
<1>3. /\ Submission[id].target = Submission[c].target /\ Submission[id].port = Submission[c].port
      /\ source_port_for(id) = source_port_for(c)
  BY <1>1, <1>2 DEF matches_tcp_reply
<1>4. Submission[id].probe = Submission[c].probe
  BY <1>3, NumbersAssumption
<1>5. CASE Submission[id].probe = "TcpSyn"
  <2>1. \/ f.flags = {"SYN", "ACK"} /\ f.ack = after_sequence(id) /\ f.origin = id
        \/ f.flags = {"RST", "ACK"} /\ f.ack = after_sequence(id) /\ f.origin = id
        \/ f.flags = {"RST"} /\ f.origin = id
        \/ f.flags = {"SYN", "ACK"} /\ f.ack = sequence_of(id)
    BY <1>5 DEF Segments, Segment
  <2>2. CASE f.flags = {"RST"} /\ f.origin = id
    <3>1. ~Has(frame, "ACK") /\ ~Has(frame, "SYN") /\ ~Has(frame, "FIN") /\ Has(frame, "RST")
      BY <1>1, <2>2 DEF Has
    <3>2. matches_tcp_reply(id, frame)
      BY <1>1, <1>2, <1>5, <3>1 DEF matches_tcp_reply
    <3> QED
      BY <1>1, <1>3, <2>2, <3>1, <3>2 DEF BareReset
  <2>3. CASE "ACK" \in f.flags
    <3>1. frame.ack = after_sequence(c)
      BY <1>1, <1>4, <1>5, <2>3 DEF matches_tcp_reply, Has
    <3>2. /\ after_sequence(c) = after_sequence(id) => c = id
          /\ after_sequence(c) # sequence_of(id)
      BY <1>3, <1>4, <1>5, AnswersIdentify
    <3> QED
      BY <1>1, <2>1, <2>3, <3>1, <3>2
  <2> QED
    BY <2>1, <2>2, <2>3
<1>6. CASE Submission[id].probe = "TcpAck"
  <2>1. frame.seq = acknowledgment_for(c)
    BY <1>4, <1>6 DEF matches_tcp_reply
  <2>2. (f.seq = acknowledgment_for(id) /\ f.origin = id) \/ f.seq = 0
    BY <1>6 DEF Segments, Segment
  <2>3. acknowledgment_for(c) # 0
    BY AcknowledgmentNotZero
  <2> QED
    BY <1>1, <1>3, <2>1, <2>2, <2>3, AcknowledgmentsIdentify
<1> QED
  BY <1>5, <1>6, RawScanAssumption

(***************************************************************************)
(* Evidence that one probe alone could claim.                              *)
(***************************************************************************)
LEMMA OnlyOne ==
  ASSUME NEW S, IsFiniteSet(S), S \subseteq Ids, only(S) # None
  PROVE  S = {only(S)}
<1>1. Cardinality(S) = 1 /\ only(S) = CHOOSE id \in S : TRUE
  BY DEF only
<1>2. PICK x : S = {x}
  BY <1>1, FS_Singleton
<1> QED
  BY <1>1, <1>2

LEMMA ScanMatch ==
  ASSUME CountersTyped, NEW id \in Ids, NEW frame \in Frames(id),
         NEW c, c = matched_scan(frame), c # None
  PROVE  /\ c \in DOMAIN pending
         /\ frame.origin = c \/ (BareReset(frame, c) /\ frame.origin = id /\ id \notin DOMAIN pending)
<1> DEFINE S == {i \in DOMAIN pending : matches_tcp_reply(i, frame)}
<1>1. IsFiniteSet(S) /\ S \subseteq Ids /\ only(S) = c
  BY FS_Subset DEF CountersTyped, matched_scan
<1>2. S = {c}
  BY <1>1, OnlyOne
<1>3. c \in DOMAIN pending /\ c \in Ids /\ matches_tcp_reply(c, frame)
  BY <1>1, <1>2
<1>4. id \in DOMAIN pending /\ matches_tcp_reply(id, frame) => id = c
  BY <1>2
<1> QED
  BY <1>3, <1>4, SegmentMatches

LEMMA CorrelationMatch ==
  ASSUME CountersTyped, NEW id \in Ids, NEW frame \in Frames(id), Has(frame, "ACK"),
         NEW c, c = matched_correlation(frame), c # None
  PROVE  c \in DOMAIN pending /\ frame.origin = c
<1>1. c \in DOMAIN pending /\ matches_tcp_reply(c, frame)
  BY DEF matched_correlation
<1>2. c \in Ids
  BY <1>1 DEF CountersTyped
<1> QED
  BY <1>1, <1>2, SegmentMatches

LEMMA UnreachableMatch ==
  ASSUME CountersTyped, NEW id \in Ids, NEW frame \in Frames(id), frame.kind = "icmp",
         NEW c, c = matched_unreachable(frame), c # None
  PROVE  c \in DOMAIN pending /\ frame.origin = c
<1> DEFINE S == {i \in DOMAIN pending : matches_tcp_unreachable(i, frame)}
<1>1. IsFiniteSet(S) /\ S \subseteq Ids
  BY FS_Subset DEF CountersTyped
<1>2. c = only(S)
  BY DEF matched_unreachable
<1>3. S = {c}
  BY <1>1, <1>2, OnlyOne
<1>4. c \in DOMAIN pending /\ c \in Ids /\ frame.quote = correlation_key(c)
  BY <1>1, <1>3 DEF matches_tcp_unreachable
<1>5. frame.quote = correlation_key(id) /\ frame.origin = id
  BY FrameShape
<1> QED
  BY <1>4, <1>5, KeysIdentify

(***************************************************************************)
(* What dispatch_observation() makes of a frame.                           *)
(***************************************************************************)
LEMMA DispatchFindsProbe ==
  ASSUME CountersTyped, NEW id \in Ids, NEW frame \in Frames(id),
         NEW c, c = dispatch_observation(frame), c # None
  PROVE  /\ c \in DOMAIN pending
         /\ frame.body = "whole" /\ frame.tags < 2
         /\ frame.origin = c \/ (BareReset(frame, c) /\ frame.origin = id /\ id \notin DOMAIN pending)
<1>1. parse(frame) = "Valid"
  BY DEF dispatch_observation
<1>2. frame.body = "whole" /\ frame.tags < 2
  BY <1>1, ParsedIsWhole
<1>3. CASE frame.kind = "icmp"
  <2>1. c = matched_unreachable(frame)
    BY <1>1, <1>3 DEF dispatch_observation
  <2> QED
    BY <1>2, <1>3, <2>1, UnreachableMatch
<1>4. CASE frame.kind # "icmp"
  <2>1. \/ c = matched_scan(frame)
        \/ Has(frame, "ACK") /\ c = matched_correlation(frame)
    BY <1>1, <1>4 DEF dispatch_observation
  <2> QED
    BY <1>2, <2>1, ScanMatch, CorrelationMatch
<1> QED
  BY <1>3, <1>4

LEMMA EvidenceKept ==
  ASSUME EvidenceUsed, AnswerReachesItsProbe, UNCHANGED <<evidence, calling>>,
         used \subseteq used', NEW new, new \cap used = {},
         DOMAIN pending' \subseteq DOMAIN pending \cup new
  PROVE  EvidenceUsed' /\ AnswerReachesItsProbe'
BY DEF EvidenceUsed, AnswerReachesItsProbe

LEMMA EvidenceQuiet ==
  ASSUME EvidenceUsed, AnswerReachesItsProbe, UNCHANGED <<evidence, calling, used>>,
         DOMAIN pending' \subseteq DOMAIN pending
  PROVE  EvidenceUsed' /\ AnswerReachesItsProbe'
BY DEF EvidenceUsed, AnswerReachesItsProbe

LEMMA EvidenceStep ==
  ASSUME CountersTyped, SessionAccounts, WireVisible, EvidenceUsed, AnswerReachesItsProbe,
         [RawNext]_rawVars
  PROVE  EvidenceUsed' /\ AnswerReachesItsProbe'
<1>1. ASSUME NEW fault, NEW stuck, Open(fault, stuck) \/ Close(stuck)
      PROVE  EvidenceUsed' /\ AnswerReachesItsProbe'
  <2>1. pending' = EmptyMap /\ UNCHANGED <<evidence, calling, used>>
    BY <1>1 DEF Open, Close, loopVars, historyVars
  <2>2. DOMAIN pending' \subseteq DOMAIN pending
    BY <2>1 DEF EmptyMap
  <2> QED
    BY <2>1, <2>2, EvidenceQuiet
<1>2. ASSUME NEW id \in Ids, NEW fault, Submit(id, fault)
      PROVE  EvidenceUsed' /\ AnswerReachesItsProbe'
  <2>1. /\ id \notin used /\ used' = used \cup {id} /\ UNCHANGED <<evidence, calling>>
        /\ DOMAIN pending' \subseteq DOMAIN pending \cup {id}
    BY <1>2 DEF Submit, With, loopVars
  <2>2. {id} \cap used = {}
    BY <2>1
  <2> QED
    BY <2>1, <2>2, EvidenceKept
<1>3. ASSUME NEW id \in Ids, CancelProbe(id)
      PROVE  EvidenceUsed' /\ AnswerReachesItsProbe'
  <2>1. DOMAIN pending' \subseteq DOMAIN pending /\ UNCHANGED <<evidence, calling, used>>
    BY <1>3 DEF CancelProbe, Erase, Without, loopVars, historyVars
  <2> QED
    BY <2>1, EvidenceQuiet
<1>4. ASSUME evidence' = NoFrame
      PROVE  EvidenceUsed' /\ AnswerReachesItsProbe'
  BY <1>4 DEF EvidenceUsed, AnswerReachesItsProbe
<1>5. CASE Receive
  <2>1. CASE UNCHANGED <<evidence, calling>>
    <3>1. DOMAIN pending' \subseteq DOMAIN pending /\ used' = used
      BY <1>5 DEF Receive, historyVars
    <3> QED
      BY <2>1, <3>1, EvidenceQuiet
  <2>2. CASE ~UNCHANGED <<evidence, calling>>
    <3> DEFINE frame == Head(wire)  c == dispatch_observation(frame)
    <3>1. /\ wire # <<>> /\ capture_status(frame) = "Success" /\ c # None
          /\ calling' = c /\ evidence' = frame /\ DOMAIN pending' = DOMAIN pending /\ used' = used
      BY <1>5, <2>2 DEF Receive, historyVars
    <3>2. frame \in Visible
      BY <3>1 DEF WireVisible
    <3>3. PICK id \in sent : frame \in Frames(id)
      <4>1. frame # Oversized
        BY <3>1 DEF capture_status, Oversized
      <4> HIDE DEF frame
      <4> QED
        BY <3>2, <4>1 DEF Visible
    <3>4. id \in used /\ id \in Ids /\ DOMAIN pending \subseteq used
      BY DEF CountersTyped
    <3> HIDE DEF frame, c
    <3>5. c = dispatch_observation(frame)
      BY DEF c
    <3>6. /\ c \in DOMAIN pending
          /\ frame.body = "whole" /\ frame.tags < 2
          /\ frame.origin = c \/ (BareReset(frame, c) /\ frame.origin = id /\ id \notin DOMAIN pending)
      BY <3>1, <3>3, <3>4, <3>5, DispatchFindsProbe
    <3>7. EvidenceUsed'
      BY <3>1, <3>4, <3>6 DEF EvidenceUsed
    <3>8. id # None
      BY <3>4, RawScanAssumption
    <3> QED
      BY <3>1, <3>6, <3>7, <3>8 DEF AnswerReachesItsProbe, BareReset
  <2> QED
    BY <2>1, <2>2
<1>6. CASE CaptureEvent \/ EventEnds \/ ReceiveFails \/ DrainEnds \/ UNCHANGED rawVars
  <2>1. UNCHANGED <<pending, used, evidence, calling>>
    BY <1>6 DEF CaptureEvent, EventEnds, ReceiveFails, DrainEnds, rawVars, transportVars, loopVars, historyVars
  <2>2. DOMAIN pending' \subseteq DOMAIN pending
    BY <2>1
  <2> QED
    BY <2>1, <2>2, EvidenceQuiet
<1>7. ASSUME NEW frame, Arrive(frame)
      PROVE  EvidenceUsed' /\ AnswerReachesItsProbe'
  <2>1. UNCHANGED <<pending, used, evidence, calling>>
    BY <1>7 DEF Arrive, transportVars, loopVars, historyVars
  <2>2. DOMAIN pending' \subseteq DOMAIN pending
    BY <2>1
  <2> QED
    BY <2>1, <2>2, EvidenceQuiet
<1>8. ASSUME CallbackReturns \/ \E id \in Ids : Drain(id)
      PROVE  EvidenceUsed' /\ AnswerReachesItsProbe'
  BY <1>4, <1>8 DEF CallbackReturns, Drain
<1> QED
  BY <1>1, <1>2, <1>3, <1>5, <1>6, <1>7, <1>8 DEF RawNext

(***************************************************************************)
(* What is sent stays sent, so what waits in the capture stays visible.    *)
(***************************************************************************)
LEMMA WireStep ==
  ASSUME CountersTyped, WireVisible, [RawNext]_rawVars
  PROVE  WireVisible'
<1>1. ASSUME NEW fault, NEW stuck, Open(fault, stuck) \/ Close(stuck)
      PROVE  UNCHANGED <<wire, sent>>
  BY <1>1 DEF Open, Close, historyVars
<1>2. ASSUME NEW id \in Ids, CancelProbe(id) \/ Drain(id)
      PROVE  UNCHANGED <<wire, sent>>
  BY <1>2 DEF CancelProbe, Drain, historyVars
<1>3. ASSUME CaptureEvent \/ EventEnds \/ ReceiveFails \/ DrainEnds \/ CallbackReturns \/ UNCHANGED rawVars
      PROVE  UNCHANGED <<wire, sent>>
  BY <1>3 DEF CaptureEvent, EventEnds, ReceiveFails, DrainEnds, CallbackReturns, rawVars, historyVars
<1>4. ASSUME UNCHANGED <<wire, sent>>
      PROVE  WireVisible'
  BY <1>4 DEF WireVisible, Visible
<1>5. ASSUME NEW id \in Ids, NEW fault, Submit(id, fault)
      PROVE  WireVisible'
  <2>1. sent \subseteq sent' /\ wire' = wire
    BY <1>5 DEF Submit
  <2>2. Visible \subseteq Visible'
    BY <2>1 DEF Visible
  <2>3. wire \in Seq(Visible')
    BY <2>2 DEF WireVisible
  <2> QED
    BY <2>1, <2>3 DEF WireVisible
<1>6. CASE Receive
  <2>1. wire # <<>> /\ wire' = Tail(wire) /\ sent' = sent
    BY <1>6 DEF Receive, historyVars
  <2>2. Visible' = Visible
    BY <2>1 DEF Visible
  <2> QED
    BY <2>1, <2>2 DEF WireVisible
<1>7. ASSUME NEW frame \in Visible, Arrive(frame)
      PROVE  WireVisible'
  <2>1. wire' = Append(wire, frame) /\ sent' = sent
    BY <1>7 DEF Arrive, historyVars
  <2>2. Visible' = Visible
    BY <2>1 DEF Visible
  <2> QED
    BY <2>1, <2>2 DEF WireVisible
<1>8. ASSUME \E id \in sent : \E frame \in Frames(id) : Arrive(frame)
      PROVE  WireVisible'
  BY <1>7, <1>8 DEF Visible
<1>9. ASSUME Arrive(Oversized)
      PROVE  WireVisible'
  <2>1. Oversized \in Visible
    BY DEF Visible
  <2> QED
    BY <1>7, <1>9, <2>1
<1> QED
  BY <1>1, <1>2, <1>3, <1>4, <1>5, <1>6, <1>8, <1>9 DEF RawNext

(***************************************************************************)
(* A callback hears only of its own probe: however answers are delayed,    *)
(* duplicated, reordered or damaged, and whatever is cancelled meanwhile,  *)
(* the frame answers the probe whose callback runs, or is a bare reset for *)
(* a probe of the same ports that is no longer out.                        *)
(***************************************************************************)
THEOREM AnswersReachTheirProbe == RawSpec => []AnswerReachesItsProbe
<1>1. RawInit => TransportInv
  BY AccountsInitially DEF RawInit, TransportInv, WireVisible, EvidenceUsed, AnswerReachesItsProbe
<1>2. TransportInv /\ [RawNext]_rawVars => TransportInv'
  BY AccountsStep, WireStep, EvidenceStep DEF TransportInv
<1>3. TransportInv => AnswerReachesItsProbe
  BY DEF TransportInv
<1> QED
  BY <1>1, <1>2, <1>3, PTL DEF RawSpec

=============================================================================
