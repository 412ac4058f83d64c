--------------------------- MODULE UdpScanProofs ---------------------------
(***************************************************************************)
(* Invariance proofs for UdpScan, for every list of pairs, every pool of   *)
(* source ports, every limit and every way a step can fail.                *)
(***************************************************************************)
EXTENDS UdpScanRefinement, FiniteSetTheorems, SequenceTheorems, WellFoundedInduction, TLAPS

-----------------------------------------------------------------------------
(* The inductive invariant.                                                *)

(***************************************************************************)
(* What receive() can retain: one kind of evidence, or a conflict.         *)
(***************************************************************************)
Judgements == {[state |-> "Open", reason |-> "UdpResponse"],
               [state |-> "Closed", reason |-> "IcmpPortUnreachable"],
               [state |-> "Filtered", reason |-> "IcmpAdministrativelyProhibited"],
               [state |-> "Unreachable", reason |-> "IcmpNetworkUnreachable"]}
Conflict == [state |-> "Unknown", reason |-> "ConflictingEvidence"]
Heard == [work : Work, state : {j.state : j \in Judgements}]
Attempt == [item : Item, port : 0..(PoolSize - 1),
            candidate : Judgements \cup {NoCandidate, Conflict}, heard : SUBSET Heard]
Reasons == ScanReason \cup {"UdpResponse", "UdpTimeout"}
Verdict == [state : PortState, reason : Reasons, attempts : Nat, heard : SUBSET Heard]

Types ==
  /\ queue \in Seq(Item)
  /\ pending \in [DOMAIN pending -> Attempt]
  /\ next_id \in Nat \ {0} /\ DOMAIN pending \subseteq 1..(next_id - 1)
  /\ next_source_port \in 0..(PoolSize - 1)
  /\ results \in [Work -> Seq(Verdict)]
  /\ pumping \in {"no", "submit", "handler"}

(***************************************************************************)
(* Pool, timers and the transport's table are images of pending_.          *)
(***************************************************************************)
Entry(p) == [work |-> p.item.work, port |-> p.port]

Tables ==
  /\ source_ports = {pending[id].port : id \in DOMAIN pending}
  /\ \A i, j \in DOMAIN pending : pending[i].port = pending[j].port => i = j
  /\ timers = DOMAIN pending
  /\ wire = [id \in DOMAIN pending |-> Entry(pending[id])]

(***************************************************************************)
(* Where the pairs are: each in one place, but for those in gap, which a   *)
(* handler has in its hands.                                               *)
(***************************************************************************)
InQueue(q, w) == \E i \in DOMAIN q : q[i].work = w
InFlight(m, w) == \E id \in DOMAIN m : m[id].item.work = w

Placed(q, m, r, gap) ==
  /\ \A i, j \in DOMAIN q : q[i].work = q[j].work => i = j
  /\ \A i, j \in DOMAIN m : m[i].item.work = m[j].item.work => i = j
  /\ \A w \in Work : /\ InQueue(q, w) => ~InFlight(m, w) /\ r[w] = <<>>
                     /\ InFlight(m, w) => r[w] = <<>>
                     /\ Len(r[w]) <= 1
                     /\ w \in gap => ~InQueue(q, w) /\ ~InFlight(m, w) /\ r[w] = <<>>
                     /\ w \notin gap => InQueue(q, w) \/ InFlight(m, w) \/ r[w] # <<>>

Active == {"submitting", "submitted", "running", "returned"}

Placement == phase \in Active => Placed(queue, pending, results, {})

(***************************************************************************)
(* How the phases of the stage and of pump() go together.  A reactor that  *)
(* was stopped in run() has nothing left to do.                            *)
(***************************************************************************)
Control ==
  /\ pumping = "submit" <=> phase = "submitting"
  /\ pumping = "handler" => phase = "running"
  /\ draining => phase = "running"
  /\ phase \in {"closed", "failed", "opened"} =>
       queue = <<>> /\ pending = EmptyMap /\ results = [w \in Work |-> <<>>]
  /\ phase \in {"closed", "failed", "destroyed"} => held = {}
  /\ phase = "destroyed" => pending = EmptyMap
  /\ phase = "refused" => status # "Ok"
  /\ (phase = "running" /\ stopped) \/ (phase = "returned" /\ status = "Ok") =>
       queue = <<>> /\ pending = EmptyMap

(***************************************************************************)
(* What an attempt retains, and what a result says, is what was heard.     *)
(***************************************************************************)
Retained(p) ==
  /\ \A h \in p.heard : h.work = p.item.work
  /\ p.candidate = NoCandidate => p.heard = {}
  /\ p.candidate \in Judgements => {h.state : h \in p.heard} = {p.candidate.state}
  /\ p.candidate = Conflict => \E g, h \in p.heard : g.state # h.state

Sound(w, r) ==
  /\ \A h \in r.heard : h.work = w
  /\ \/ r.state = "Error"
     \/ r.heard = {} /\ r.state = "OpenOrFiltered" /\ r.attempts = MaxRetries + 1
     \/ {h.state : h \in r.heard} = {r.state}
     \/ (\E g, h \in r.heard : g.state # h.state) /\ r.state = "Unknown"
  /\ valid_port_result_semantics("Udp", r.state, r.reason)

Evidential ==
  /\ \A id \in DOMAIN pending : Retained(pending[id])
  /\ \A w \in Work : \A i \in DOMAIN results[w] : Sound(w, results[w][i])

UdpInv == Types /\ Tables /\ Placement /\ Control /\ Evidential

-----------------------------------------------------------------------------
(* The operators of the model.                                             *)

(***************************************************************************)
(* A queue without its head.                                               *)
(***************************************************************************)
LEMMA TailFacts ==
  ASSUME NEW S, NEW q \in Seq(S), q # <<>>
  PROVE  /\ Head(q) \in S /\ Tail(q) \in Seq(S)
         /\ Len(q) \in Nat \ {0} /\ DOMAIN q = 1..Len(q) /\ Head(q) = q[1]
         /\ DOMAIN Tail(q) = 1..(Len(q) - 1)
         /\ \A i \in 1..(Len(q) - 1) : Tail(q)[i] = q[i + 1]
<1>1. Len(q) \in Nat \ {0} /\ DOMAIN q = 1..Len(q)
  BY EmptySeq
<1>2. Head(q) \in S /\ Tail(q) \in Seq(S) /\ Len(Tail(q)) = Len(q) - 1
  BY HeadTailProperties
<1>3. Head(q) = q[1]
  BY HeadTailProperties, SMT
<1>4. \A i \in 1..(Len(q) - 1) : Tail(q)[i] = q[i + 1]
  BY <1>1, SMT
<1> QED
  BY <1>1, <1>2, <1>3, <1>4

(***************************************************************************)
(* The work at the head of a queue is in the rest of it no more.           *)
(***************************************************************************)
LEMMA TailPlaces ==
  ASSUME NEW q \in Seq(Item), q # <<>>,
         \A i, j \in DOMAIN q : q[i].work = q[j].work => i = j
  PROVE  /\ \A i, j \in DOMAIN Tail(q) : Tail(q)[i].work = Tail(q)[j].work => i = j
         /\ ~InQueue(Tail(q), Head(q).work)
         /\ \A w : InQueue(q, w) <=> w = Head(q).work \/ InQueue(Tail(q), w)
<1> DEFINE n == Len(q)
           r == Tail(q)
<1>1. /\ n \in Nat \ {0} /\ DOMAIN q = 1..n /\ Head(q) = q[1] /\ DOMAIN r = 1..(n - 1)
      /\ \A i \in 1..(n - 1) : r[i] = q[i + 1]
  BY TailFacts
<1> HIDE DEF n, r
<1>2. \A i \in 1..(n - 1) : i + 1 \in 1..n /\ i + 1 # 1
  BY <1>1
<1>3. \A i \in 1..n : i = 1 \/ (i - 1 \in 1..(n - 1) /\ (i - 1) + 1 = i)
  BY <1>1
<1>5. ASSUME NEW i \in 1..(n - 1), NEW j \in 1..(n - 1), r[i].work = r[j].work PROVE i = j
  <2>1. q[i + 1].work = q[j + 1].work
    BY <1>1, <1>5
  <2>2. i + 1 = j + 1
    BY <1>1, <1>2, <2>1
  <2> QED
    BY <1>1, <2>2
<1>6. ~InQueue(r, Head(q).work)
  BY <1>1, <1>2 DEF InQueue
<1>7. ASSUME NEW w PROVE InQueue(q, w) <=> w = Head(q).work \/ InQueue(r, w)
  <2>1. ASSUME NEW i \in 1..n, q[i].work = w, i # 1 PROVE InQueue(r, w)
    <3>1. i - 1 \in DOMAIN r /\ r[i - 1] = q[i]
      BY <1>1, <1>3, <2>1
    <3> QED
      BY <2>1, <3>1 DEF InQueue
  <2>2. ASSUME NEW i \in 1..(n - 1), r[i].work = w PROVE InQueue(q, w)
    BY <1>1, <1>2, <2>2 DEF InQueue
  <2> QED
    BY <1>1, <2>1, <2>2 DEF InQueue
<1> QED
  BY <1>1, <1>5, <1>6, <1>7 DEF r

(***************************************************************************)
(* Work that is put in front of a queue.                                   *)
(***************************************************************************)
LEMMA FrontPlaces ==
  ASSUME NEW q \in Seq(Item), NEW x \in Item, ~InQueue(q, x.work),
         \A i, j \in DOMAIN q : q[i].work = q[j].work => i = j
  PROVE  /\ <<x>> \o q \in Seq(Item)
         /\ \A i, j \in DOMAIN (<<x>> \o q) : (<<x>> \o q)[i].work = (<<x>> \o q)[j].work => i = j
         /\ \A w : InQueue(<<x>> \o q, w) <=> w = x.work \/ InQueue(q, w)
<1> DEFINE r == <<x>> \o q
           n == Len(q)
<1>1. /\ n \in Nat /\ DOMAIN q = 1..n /\ DOMAIN r = 1..(n + 1) /\ r \in Seq(Item)
      /\ r[1] = x /\ \A i \in 1..n : r[i + 1] = q[i]
  OBVIOUS
<1> HIDE DEF n, r
<1>2. \A i \in 1..n : i + 1 \in 1..(n + 1)
  BY <1>1
<1>3. \A i \in 1..(n + 1) : i = 1 \/ (i - 1 \in 1..n /\ (i - 1) + 1 = i)
  BY <1>1
<1>4. \A i \in DOMAIN r : \/ i = 1 /\ r[i] = x
                          \/ i - 1 \in DOMAIN q /\ r[i] = q[i - 1]
  BY <1>1, <1>3
<1>5. ASSUME NEW i \in DOMAIN r, NEW j \in DOMAIN r, r[i].work = r[j].work PROVE i = j
  <2>1. CASE i = 1 \/ j = 1
    BY <1>4, <1>5, <2>1 DEF InQueue
  <2>2. CASE i # 1 /\ j # 1
    <3>1. i - 1 = j - 1
      BY <1>4, <1>5, <2>2
    <3> QED
      BY <1>1, <3>1
  <2> QED
    BY <2>1, <2>2
<1>6. ASSUME NEW w PROVE InQueue(r, w) <=> w = x.work \/ InQueue(q, w)
  <2>1. InQueue(r, w) => w = x.work \/ InQueue(q, w)
    BY <1>4 DEF InQueue
  <2>2. w = x.work => InQueue(r, w)
    BY <1>1 DEF InQueue
  <2>3. InQueue(q, w) => InQueue(r, w)
    BY <1>1, <1>2 DEF InQueue
  <2> QED
    BY <2>1, <2>2, <2>3
<1> QED
  BY <1>1, <1>5, <1>6 DEF r

(***************************************************************************)
(* A result is added to those of its pair.                                 *)
(***************************************************************************)
LEMMA AppendFacts ==
  ASSUME NEW S, NEW s \in Seq(S), NEW e \in S
  PROVE  /\ Append(s, e) \in Seq(S) /\ Len(Append(s, e)) = Len(s) + 1
         /\ Append(s, e) # <<>> /\ DOMAIN Append(s, e) = 1..(Len(s) + 1)
         /\ Append(s, e)[Len(s) + 1] = e
         /\ DOMAIN s = 1..Len(s) /\ Len(s) \in Nat
         /\ \A i \in 1..Len(s) : Append(s, e)[i] = s[i]
BY AppendProperties, SMT

(***************************************************************************)
(* The round robin finds a free source port whenever there is one.         *)
(***************************************************************************)
LEMMA PortAllocated ==
  ASSUME FreePorts # {}, next_source_port \in 0..(PoolSize - 1)
  PROVE  /\ allocate_source_port \in FreePorts
         /\ allocate_source_port \in 0..(PoolSize - 1)
         /\ (allocate_source_port + 1) % PoolSize \in 0..(PoolSize - 1)
<1> DEFINE T == {Distance(p) : p \in FreePorts}
           R == OpToRel(<, Nat)
<1>1. PoolSize \in Nat \ {0} /\ FreePorts \subseteq 0..(PoolSize - 1)
  BY UdpAssumption DEF FreePorts
<1>2. \A p \in FreePorts : Distance(p) \in Nat
  BY <1>1 DEF Distance
<1>3. T \subseteq Nat /\ T # {}
  BY <1>2
<1>4. \E x \in T : \A y \in T : ~(<<y, x>> \in R)
  BY <1>3, NatLessThanWellFounded, WFMin
<1>5. \E x \in T : \A y \in T : ~(y < x)
  BY <1>3, <1>4 DEF OpToRel
<1>6. PICK p \in FreePorts : \A y \in T : ~(y < Distance(p))
  BY <1>5
<1>7. \A q \in FreePorts : Distance(q) \in T
  OBVIOUS
<1> HIDE DEF T
<1>8. \A q \in FreePorts : Distance(p) <= Distance(q)
  BY <1>2, <1>6, <1>7
<1>9. allocate_source_port \in FreePorts
  BY <1>8 DEF allocate_source_port
<1> QED
  BY <1>1, <1>9

(***************************************************************************)
(* A function on 1..n is a sequence.                                       *)
(***************************************************************************)
LEMMA FunctionIsSeq ==
  ASSUME NEW S, NEW n \in Nat, NEW f \in [1..n -> S]
  PROVE  f \in Seq(S)
<1>1. f \in UNION {[1..m -> S] : m \in Nat}
  OBVIOUS
<1>2. Seq(S) = UNION {[1..m -> S] : m \in Nat}
  BY SeqDef
<1> QED
  BY <1>1, <1>2, Zenon

(***************************************************************************)
(* An attempt enters or leaves pending_.                                   *)
(***************************************************************************)
LEMMA WithMap ==
  ASSUME NEW m, m \in [DOMAIN m -> Attempt], NEW id, id \notin DOMAIN m, NEW v \in Attempt
  PROVE  /\ With(m, id, v) \in [DOMAIN With(m, id, v) -> Attempt]
         /\ DOMAIN With(m, id, v) = DOMAIN m \cup {id}
         /\ With(m, id, v)[id] = v
         /\ \A x \in DOMAIN m : With(m, id, v)[x] = m[x]
BY DEF With

LEMMA WithoutMap ==
  ASSUME NEW m, m \in [DOMAIN m -> Attempt], NEW id \in DOMAIN m
  PROVE  /\ Without(m, id) \in [DOMAIN Without(m, id) -> Attempt]
         /\ DOMAIN Without(m, id) = DOMAIN m \ {id}
         /\ \A x \in DOMAIN m \ {id} : Without(m, id)[x] = m[x]
BY DEF Without

-----------------------------------------------------------------------------
(* A handler takes a pair from its place, and puts it into another.        *)

(***************************************************************************)
(* pump() takes the pair at the head of the queue.                         *)
(***************************************************************************)
LEMMA TakeHead ==
  ASSUME NEW q \in Seq(Item), q # <<>>, NEW m, NEW r, Placed(q, m, r, {})
  PROVE  Placed(Tail(q), m, r, {Head(q).work}) /\ Head(q) \in Item /\ Head(q).work \in Work
<1> DEFINE t == Tail(q)
           x == Head(q)
<1>1. x \in Item /\ x.work \in Work
  <2>1. x \in Item
    BY TailFacts
  <2> QED
    BY <2>1 DEF Item
<1>2. /\ \A i, j \in DOMAIN t : t[i].work = t[j].work => i = j
      /\ ~InQueue(t, x.work)
      /\ \A w : InQueue(q, w) <=> w = x.work \/ InQueue(t, w)
  BY TailPlaces DEF Placed
<1> HIDE DEF t, x
<1>3. Placed(t, m, r, {x.work})
  BY <1>1, <1>2 DEF Placed
<1> QED
  BY <1>1, <1>3 DEF t, x

(***************************************************************************)
(* An attempt ends: its pair leaves pending_.                              *)
(***************************************************************************)
LEMMA TakeOut ==
  ASSUME NEW m, m \in [DOMAIN m -> Attempt], NEW id \in DOMAIN m, NEW q, NEW r,
         Placed(q, m, r, {})
  PROVE  Placed(q, Without(m, id), r, {m[id].item.work})
<1> DEFINE n == Without(m, id)
           x == m[id].item.work
<1>1. /\ DOMAIN n = DOMAIN m \ {id} /\ \A y \in DOMAIN m \ {id} : n[y] = m[y]
  BY WithoutMap
<1>2. \A i, j \in DOMAIN m : m[i].item.work = m[j].item.work => i = j
  BY DEF Placed
<1>3. x \in Work
  <2>1. m[id] \in Attempt
    OBVIOUS
  <2> QED
    BY <2>1 DEF Attempt, Item
<1>4. m[id].item.work = x
  OBVIOUS
<1> HIDE DEF n, x
<1>5. ~InFlight(n, x) /\ \A w : InFlight(m, w) <=> w = x \/ InFlight(n, w)
  BY <1>1, <1>2, <1>4 DEF InFlight
<1>6. \A i, j \in DOMAIN n : n[i].item.work = n[j].item.work => i = j
  BY <1>1, <1>2
<1>7. Placed(q, n, r, {x})
  BY <1>3, <1>5, <1>6 DEF Placed
<1> QED
  BY <1>7 DEF n, x

(***************************************************************************)
(* A retry goes to the front of the queue.                                 *)
(***************************************************************************)
LEMMA PutFront ==
  ASSUME NEW q \in Seq(Item), NEW x \in Item, NEW m, NEW r, Placed(q, m, r, {x.work})
  PROVE  Placed(<<x>> \o q, m, r, {}) /\ <<x>> \o q \in Seq(Item)
<1> DEFINE t == <<x>> \o q
<1>1. x.work \in Work
  BY DEF Item
<1>2. ~InQueue(q, x.work) /\ ~InFlight(m, x.work) /\ r[x.work] = <<>>
  BY <1>1 DEF Placed
<1>3. /\ t \in Seq(Item)
      /\ \A i, j \in DOMAIN t : t[i].work = t[j].work => i = j
      /\ \A w : InQueue(t, w) <=> w = x.work \/ InQueue(q, w)
  BY <1>2, FrontPlaces DEF Placed
<1> HIDE DEF t
<1>4. Placed(t, m, r, {})
  BY <1>2, <1>3 DEF Placed
<1> QED
  BY <1>3, <1>4 DEF t

(***************************************************************************)
(* A pair is transmitted.                                                  *)
(***************************************************************************)
LEMMA PutOut ==
  ASSUME NEW m, m \in [DOMAIN m -> Attempt], NEW id, id \notin DOMAIN m, NEW v \in Attempt,
         NEW q, NEW r, Placed(q, m, r, {v.item.work})
  PROVE  Placed(q, With(m, id, v), r, {})
<1> DEFINE n == With(m, id, v)
<1>1. /\ DOMAIN n = DOMAIN m \cup {id} /\ n[id] = v /\ \A y \in DOMAIN m : n[y] = m[y]
  BY DEF With
<1>2. v.item.work \in Work
  BY DEF Attempt, Item
<1>3. ~InQueue(q, v.item.work) /\ ~InFlight(m, v.item.work) /\ r[v.item.work] = <<>>
  BY <1>2 DEF Placed
<1> HIDE DEF n
<1>4. \A w : InFlight(n, w) <=> w = v.item.work \/ InFlight(m, w)
  BY <1>1 DEF InFlight
<1>5. \A i, j \in DOMAIN n : n[i].item.work = n[j].item.work => i = j
  BY <1>1, <1>3 DEF Placed, InFlight
<1>6. Placed(q, n, r, {})
  BY <1>3, <1>4, <1>5 DEF Placed
<1> QED
  BY <1>6 DEF n

(***************************************************************************)
(* A pair is answered: its result is the first, and as sound as those of   *)
(* the others.                                                             *)
(***************************************************************************)
LEMMA PutResult ==
  ASSUME NEW x \in Item, NEW s \in PortState, NEW c \in Reasons, NEW h \in SUBSET Heard,
         results \in [Work -> Seq(Verdict)], append_terminal_result(x, s, c, h)
  PROVE  /\ results' \in [Work -> Seq(Verdict)]
         /\ \A q, m : Placed(q, m, results, {x.work}) => Placed(q, m, results', {})
         /\ /\ \A w \in Work : \A i \in DOMAIN results[w] : Sound(w, results[w][i])
            /\ Sound(x.work, [state |-> s, reason |-> c, attempts |-> x.retry + 1, heard |-> h])
            => \A w \in Work : \A i \in DOMAIN results'[w] : Sound(w, results'[w][i])
<1> DEFINE e == [state |-> s, reason |-> c, attempts |-> x.retry + 1, heard |-> h]
           old == results[x.work]
           new == Append(old, e)
<1>1. x.work \in Work /\ x.retry \in Nat
  BY UdpAssumption DEF Item
<1>2. e \in Verdict
  BY <1>1 DEF Verdict
<1>3. results' = [results EXCEPT ![x.work] = new]
  BY DEF append_terminal_result
<1>4. old \in Seq(Verdict)
  BY <1>1
<1>5. e = [state |-> s, reason |-> c, attempts |-> x.retry + 1, heard |-> h]
  OBVIOUS
<1> HIDE DEF e
<1>6. /\ new \in Seq(Verdict) /\ Len(new) = Len(old) + 1 /\ new # <<>>
      /\ DOMAIN new = 1..(Len(old) + 1) /\ new[Len(old) + 1] = e
      /\ DOMAIN old = 1..Len(old) /\ Len(old) \in Nat /\ \A i \in 1..Len(old) : new[i] = old[i]
  BY <1>2, <1>4, AppendFacts
<1>7. old = <<>> => Len(old) = 0
  OBVIOUS
<1>8. old = results[x.work]
  OBVIOUS
<1> HIDE DEF new, old
<1>9. /\ results' \in [Work -> Seq(Verdict)] /\ results'[x.work] = new
      /\ \A w \in Work : w # x.work => results'[w] = results[w]
  BY <1>1, <1>3, <1>6
<1>10. ASSUME NEW q, NEW m, Placed(q, m, results, {x.work}) PROVE Placed(q, m, results', {})
  <2>1. ~InQueue(q, x.work) /\ ~InFlight(m, x.work) /\ old = <<>>
    BY <1>1, <1>8, <1>10 DEF Placed
  <2>2. new # <<>> /\ Len(new) <= 1
    BY <1>6, <1>7, <2>1
  <2> QED
    BY <1>9, <1>10, <2>1, <2>2 DEF Placed
<1>11. ASSUME \A w \in Work : \A i \in DOMAIN results[w] : Sound(w, results[w][i]),
              Sound(x.work, e)
       PROVE  \A w \in Work : \A i \in DOMAIN results'[w] : Sound(w, results'[w][i])
  <2>1. \A i \in DOMAIN new : (i \in DOMAIN old /\ new[i] = old[i]) \/ new[i] = e
    BY <1>6
  <2>2. \A i \in DOMAIN new : Sound(x.work, new[i])
    BY <1>1, <1>8, <1>11, <2>1
  <2> QED
    BY <1>9, <1>11, <2>2
<1> QED
  BY <1>5, <1>9, <1>10, <1>11

-----------------------------------------------------------------------------
(* The actions.                                                            *)

(***************************************************************************)
(* Steps that leave the tables, the queue and the results alone.           *)
(***************************************************************************)
LEMMA Rests ==
  ASSUME UdpInv, Control', phase' \in Active => phase \in Active,
         pumping' \in {"no", "submit", "handler"},
         UNCHANGED <<queue, pending, source_ports, next_source_port, next_id, results, wire,
                     timers>>
  PROVE  UdpInv'
<1>1. Types'
  BY DEF UdpInv, Types
<1>2. Tables'
  BY DEF UdpInv, Tables
<1>3. Placement'
  BY DEF UdpInv, Placement
<1>4. Evidential'
  BY DEF UdpInv, Evidential
<1> QED
  BY <1>1, <1>2, <1>3, <1>4 DEF UdpInv

(***************************************************************************)
(* An attempt leaves the tables: what is left still agrees.                *)
(***************************************************************************)
LEMMA ForgetTables ==
  ASSUME UdpInv, NEW id \in DOMAIN pending, Forget(id)
  PROVE  /\ Tables' /\ pending' \in [DOMAIN pending' -> Attempt]
         /\ DOMAIN pending' \subseteq DOMAIN pending
         /\ \A x \in DOMAIN pending' : Retained(pending'[x])
<1>1. /\ pending \in [DOMAIN pending -> Attempt]
      /\ source_ports = {pending[x].port : x \in DOMAIN pending}
      /\ \A i, j \in DOMAIN pending : pending[i].port = pending[j].port => i = j
      /\ timers = DOMAIN pending
      /\ wire = [x \in DOMAIN pending |-> Entry(pending[x])]
  BY DEF UdpInv, Types, Tables
<1>2. /\ pending' \in [DOMAIN pending' -> Attempt]
      /\ DOMAIN pending' = DOMAIN pending \ {id}
      /\ \A x \in DOMAIN pending \ {id} : pending'[x] = pending[x]
  BY <1>1, WithoutMap DEF Forget
<1>3. source_ports' = {pending'[x].port : x \in DOMAIN pending'}
  BY <1>1, <1>2 DEF Forget
<1>4. \A i, j \in DOMAIN pending' : pending'[i].port = pending'[j].port => i = j
  BY <1>1, <1>2
<1>5. timers' = DOMAIN pending'
  BY <1>1, <1>2 DEF Forget
<1>6. wire' = [x \in DOMAIN pending' |-> Entry(pending'[x])]
  BY <1>1, <1>2 DEF Forget, Without
<1>7. \A x \in DOMAIN pending' : Retained(pending'[x])
  BY <1>2 DEF UdpInv, Evidential
<1> QED
  BY <1>2, <1>3, <1>4, <1>5, <1>6, <1>7 DEF Tables

(***************************************************************************)
(* An error says nothing about the pair, and is reportable.                *)
(***************************************************************************)
LEMMA ErrorSound ==
  ASSUME NEW w, NEW r, r.state = "Error", \A h \in r.heard : h.work = w,
         r.reason \in {"SocketError", "InvalidTarget", "CapabilityUnavailable", "InternalError"}
  PROVE  Sound(w, r)
BY DEF Sound, valid_port_result_semantics

(***************************************************************************)
(* open() and submit().                                                    *)
(***************************************************************************)
LEMMA SetupKeeps == UdpInv /\ Setup => UdpInv'
<1> SUFFICES ASSUME UdpInv, Setup PROVE UdpInv'
  OBVIOUS
<1>1. ASSUME NEW step, OpenFails(step) PROVE UdpInv'
  <2>1. Control' /\ pumping' \in {"no", "submit", "handler"}
    BY <1>1 DEF OpenFails, schedulerVars, UdpInv, Control, Types
  <2> QED
    BY <1>1, <2>1, Rests DEF OpenFails, schedulerVars, Active
<1>2. CASE open
  <2>1. Control' /\ pumping' \in {"no", "submit", "handler"}
    BY <1>2 DEF open, schedulerVars, UdpInv, Control, Types
  <2> QED
    BY <1>2, <2>1, Rests DEF open, schedulerVars, Active
<1>3. ASSUME NEW h, SubmitInvalid(h) PROVE UdpInv'
  <2> DEFINE e == [state |-> "Error", reason |-> "InvalidTarget", attempts |-> 1, heard |-> {}]
  <2>1. e \in Verdict
    BY DEF Verdict, PortState, Reasons, ScanReason
  <2>1a. e.state = "Error" /\ e.reason = "InvalidTarget" /\ e.heard = {}
    OBVIOUS
  <2>1b. \A w : Sound(w, e)
    BY <2>1a, ErrorSound
  <2>2. results' = [w \in Work |-> IF w.host = h THEN <<e>> ELSE <<>>]
    BY <1>3 DEF SubmitInvalid
  <2> HIDE DEF e
  <2>3. /\ <<e>> \in Seq(Verdict) /\ <<>> \in Seq(Verdict)
        /\ DOMAIN <<e>> = {1} /\ <<e>>[1] = e /\ DOMAIN <<>> = {}
    BY <2>1
  <2>4. results' \in [Work -> Seq(Verdict)]
    BY <2>2, <2>3
  <2>5. Types'
    BY <1>3, <2>4 DEF SubmitInvalid, UdpInv, Types
  <2>6. Tables'
    BY <1>3 DEF SubmitInvalid, transportVars, UdpInv, Tables
  <2>7. Placement'
    BY <1>3 DEF SubmitInvalid, Placement, Active
  <2>8. Control'
    BY <1>3 DEF SubmitInvalid, UdpInv, Control
  <2>9. \A w \in Work : \A i \in DOMAIN results'[w] : Sound(w, results'[w][i])
    <3> SUFFICES ASSUME NEW w \in Work, NEW i \in DOMAIN results'[w]
                 PROVE  Sound(w, results'[w][i])
      OBVIOUS
    <3>1. results'[w] = <<e>>
      BY <2>2, <2>3
    <3> QED
      BY <2>1b, <2>3, <3>1
  <2>10. Evidential'
    BY <1>3, <2>9 DEF SubmitInvalid, UdpInv, Evidential
  <2> QED
    BY <2>5, <2>6, <2>7, <2>8, <2>10 DEF UdpInv
<1>4. CASE submit
  <2>1. /\ phase = "opened" /\ pending = EmptyMap /\ \A w \in Work : results[w] = <<>>
        /\ pending' = EmptyMap /\ UNCHANGED results
    BY <1>4 DEF submit, UdpInv, Control
  <2>2. /\ Order \in Seq(Work) /\ \A i, j \in DOMAIN Order : Order[i] = Order[j] => i = j
    BY UdpAssumption DEF IsInjective
  <2>3. /\ queue' = [i \in DOMAIN Order |-> [work |-> Order[i], retry |-> 0]]
    BY <1>4 DEF submit
  <2>4. /\ DOMAIN queue' = DOMAIN Order /\ \A i \in DOMAIN Order : queue'[i].work = Order[i]
    BY <2>3
  <2>5. queue' \in Seq(Item)
    <3>1. Len(Order) \in Nat /\ DOMAIN Order = 1..Len(Order) /\ \A i \in DOMAIN Order : Order[i] \in Work
      BY <2>2
    <3>2. \A i \in DOMAIN Order : [work |-> Order[i], retry |-> 0] \in Item
      BY <3>1, UdpAssumption DEF Item
    <3>3. queue' \in [1..Len(Order) -> Item]
      BY <2>3, <3>1, <3>2
    <3> QED
      BY <3>1, <3>3, FunctionIsSeq
  <2>6. Placed(queue', pending', results', {})
    <3>1. \A w \in Work : InQueue(queue', w)
      BY <2>4 DEF Work, InQueue
    <3>2. \A w : ~InFlight(pending', w)
      BY <2>1 DEF EmptyMap, InFlight
    <3>3. \A i, j \in DOMAIN queue' : queue'[i].work = queue'[j].work => i = j
      BY <2>2, <2>4
    <3>4. \A i, j \in DOMAIN pending' : i = j
      BY <2>1 DEF EmptyMap
    <3>5. Len(<<>>) <= 1
      OBVIOUS
    <3> QED
      BY <2>1, <3>1, <3>2, <3>3, <3>4, <3>5 DEF Placed
  <2>7. Types'
    BY <1>4, <2>5 DEF submit, UdpInv, Types
  <2>8. Tables'
    BY <1>4 DEF submit, transportVars, UdpInv, Tables
  <2>9. Placement'
    BY <2>6 DEF Placement
  <2>10. Control'
    BY <1>4 DEF submit, UdpInv, Control
  <2>11. Evidential'
    BY <1>4 DEF submit, UdpInv, Evidential
  <2> QED
    BY <2>7, <2>8, <2>9, <2>10, <2>11 DEF UdpInv
<1> QED
  BY <1>1, <1>2, <1>3, <1>4 DEF Setup

(***************************************************************************)
(* pump().                                                                 *)
(***************************************************************************)
LEMMA PumpFailsKeeps ==
  ASSUME UdpInv, PumpLoops, NEW error, NEW reason \in {"CapabilityUnavailable", "InternalError"},
         PumpFails(error, reason), next_id' \in {next_id, next_id + 1},
         next_source_port' \in 0..(PoolSize - 1), UNCHANGED source_ports
  PROVE  UdpInv'
<1> DEFINE x == Head(queue)
<1>1. /\ queue \in Seq(Item) /\ queue # <<>> /\ pumping # "no" /\ phase \in {"submitting", "running"}
      /\ Placed(queue, pending, results, {}) /\ results \in [Work -> Seq(Verdict)]
  BY DEF UdpInv, Types, PumpLoops, Control, Placement, Active
<1>2. /\ queue' = Tail(queue) /\ append_terminal_result(x, "Error", reason, {})
      /\ UNCHANGED <<phase, pending, wire, held, timers, stopped, pumping, draining>>
  BY DEF PumpFails, transportVars
<1>3. Placed(Tail(queue), pending, results, {x.work}) /\ x \in Item /\ x.work \in Work
  BY <1>1, TakeHead
<1>4. Tail(queue) \in Seq(Item)
  BY <1>1, TailFacts
<1> HIDE DEF x
<1>5. Sound(x.work, [state |-> "Error", reason |-> reason, attempts |-> x.retry + 1, heard |-> {}])
  <2> DEFINE e == [state |-> "Error", reason |-> reason, attempts |-> x.retry + 1, heard |-> {}]
  <2>1. e.state = "Error" /\ e.reason = reason /\ e.heard = {}
    OBVIOUS
  <2> HIDE DEF e
  <2>2. Sound(x.work, e)
    BY <2>1, ErrorSound
  <2> QED
    BY <2>2 DEF e
<1>6. /\ results' \in [Work -> Seq(Verdict)]
      /\ \A q, m : Placed(q, m, results, {x.work}) => Placed(q, m, results', {})
      /\ \A w \in Work : \A i \in DOMAIN results'[w] : Sound(w, results'[w][i])
  <2>1. {} \in SUBSET Heard /\ "Error" \in PortState /\ reason \in Reasons
    BY DEF PortState, Reasons, ScanReason
  <2> QED
    BY <1>1, <1>2, <1>3, <1>5, <2>1, PutResult DEF UdpInv, Evidential
<1>7. Types'
  <2>1. next_id' \in Nat \ {0} /\ DOMAIN pending' \subseteq 1..(next_id' - 1)
    BY <1>2 DEF UdpInv, Types
  <2> QED
    BY <1>2, <1>4, <1>6, <2>1 DEF UdpInv, Types
<1>8. Tables'
  BY <1>2 DEF UdpInv, Tables
<1>9. Placement'
  BY <1>2, <1>3, <1>6 DEF Placement
<1>10. Control'
  BY <1>1, <1>2 DEF UdpInv, Control
<1>11. Evidential'
  BY <1>2, <1>6 DEF UdpInv, Evidential
<1> QED
  BY <1>7, <1>8, <1>9, <1>10, <1>11 DEF UdpInv

LEMMA PumpSubmitsKeeps == UdpInv /\ PumpSubmits => UdpInv'
<1> SUFFICES ASSUME UdpInv, PumpSubmits PROVE UdpInv'
  OBVIOUS
<1> DEFINE x == Head(queue)
           port == allocate_source_port
           v == [item |-> x, port |-> port, candidate |-> NoCandidate, heard |-> {}]
<1>1. /\ queue \in Seq(Item) /\ queue # <<>> /\ pumping # "no" /\ phase \in {"submitting", "running"}
      /\ Placed(queue, pending, results, {}) /\ pending \in [DOMAIN pending -> Attempt]
      /\ next_id \in Nat \ {0} /\ DOMAIN pending \subseteq 1..(next_id - 1)
  BY DEF UdpInv, Types, PumpSubmits, PumpLoops, Control, Placement, Active
<1>2. /\ queue' = Tail(queue) /\ pending' = With(pending, next_id, v)
      /\ source_ports' = source_ports \cup {port} /\ next_source_port' = (port + 1) % PoolSize
      /\ next_id' = next_id + 1 /\ timers' = timers \cup {next_id}
      /\ wire' = With(wire, next_id, [work |-> x.work, port |-> port])
      /\ FreePorts # {}
      /\ UNCHANGED <<phase, results, held, status, stopped, pumping, draining>>
  BY DEF PumpSubmits
<1>3. Placed(Tail(queue), pending, results, {x.work}) /\ x \in Item /\ x.work \in Work
  BY <1>1, TakeHead
<1>4. Tail(queue) \in Seq(Item)
  BY <1>1, TailFacts
<1>5. port \in FreePorts /\ port \in 0..(PoolSize - 1) /\ (port + 1) % PoolSize \in 0..(PoolSize - 1)
  BY <1>2, PortAllocated DEF UdpInv, Types
<1> HIDE DEF x, port
<1>6. /\ v \in Attempt /\ v.item = x /\ v.port = port /\ v.heard = {} /\ v.candidate = NoCandidate
      /\ Entry(v) = [work |-> x.work, port |-> port]
  BY <1>3, <1>5 DEF Attempt, Entry
<1> HIDE DEF v
<1>7. next_id \notin DOMAIN pending
  BY <1>1
<1>8. /\ pending' \in [DOMAIN pending' -> Attempt]
      /\ DOMAIN pending' = DOMAIN pending \cup {next_id} /\ pending'[next_id] = v
      /\ \A y \in DOMAIN pending : pending'[y] = pending[y]
  <2>1. With(pending, next_id, v) \in [DOMAIN With(pending, next_id, v) -> Attempt]
    BY <1>1, <1>6, <1>7, WithMap
  <2> QED
    BY <1>2, <1>7, <2>1 DEF With
<1>9. Types'
  <2>1. next_id' \in Nat \ {0} /\ DOMAIN pending' \subseteq 1..(next_id' - 1)
    BY <1>1, <1>2, <1>8
  <2> QED
    BY <1>2, <1>4, <1>5, <1>8, <2>1 DEF UdpInv, Types
<1>10. Tables'
  <2>1. /\ source_ports = {pending[y].port : y \in DOMAIN pending}
        /\ \A i, j \in DOMAIN pending : pending[i].port = pending[j].port => i = j
        /\ timers = DOMAIN pending
        /\ wire = [y \in DOMAIN pending |-> Entry(pending[y])]
    BY DEF UdpInv, Tables
  <2>2. source_ports' = {pending'[y].port : y \in DOMAIN pending'}
    BY <1>2, <1>6, <1>8, <2>1
  <2>3. port \notin source_ports
    BY <1>5 DEF FreePorts
  <2>4. \A i, j \in DOMAIN pending' : pending'[i].port = pending'[j].port => i = j
    BY <1>6, <1>8, <2>1, <2>3
  <2>5. timers' = DOMAIN pending'
    BY <1>2, <1>8, <2>1
  <2>6. wire' = [y \in DOMAIN pending' |-> Entry(pending'[y])]
    BY <1>2, <1>6, <1>7, <1>8, <2>1 DEF With
  <2> QED
    BY <2>2, <2>4, <2>5, <2>6 DEF Tables
<1>11. Placement'
  <2>1. Placed(Tail(queue), With(pending, next_id, v), results, {})
    BY <1>1, <1>3, <1>6, <1>7, PutOut
  <2> QED
    BY <1>2, <2>1 DEF Placement
<1>12. Control'
  BY <1>1, <1>2 DEF UdpInv, Control
<1>13. Evidential'
  <2>1. Retained(v)
    BY <1>6 DEF Retained, NoCandidate, Judgements, Conflict
  <2> QED
    BY <1>2, <1>8, <2>1 DEF UdpInv, Evidential
<1> QED
  BY <1>9, <1>10, <1>11, <1>12, <1>13 DEF UdpInv

LEMMA PumpKeeps == UdpInv /\ pump => UdpInv'
<1> SUFFICES ASSUME UdpInv, pump PROVE UdpInv'
  OBVIOUS
<1>1. next_id \in Nat /\ next_source_port \in 0..(PoolSize - 1)
  BY DEF UdpInv, Types
<1>2. CASE PumpReturns
  <2>1. /\ phase' = IF pumping = "handler" THEN phase
                    ELSE IF status = "Ok" THEN "submitted" ELSE "refused"
        /\ pumping # "no" /\ pumping' = "no" /\ stopped' = (stopped \/ stop_if_idle)
        /\ UNCHANGED <<status, held, draining>>
        /\ UNCHANGED <<queue, pending, source_ports, next_source_port, next_id, results, wire,
                       timers>>
    BY <1>2 DEF PumpReturns, schedulerVars, transportVars
  <2>2. Control' /\ (phase' \in Active => phase \in Active)
    BY <2>1 DEF UdpInv, Types, Control, Active, stop_if_idle, complete
  <2> QED
    BY <2>1, <2>2, Rests
<1>3. CASE PumpNoPort
  BY <1>1, <1>3, PumpFailsKeeps DEF PumpNoPort
<1>4. CASE PumpTimerFails
  BY <1>1, <1>4, PumpFailsKeeps, PortAllocated DEF PumpTimerFails
<1>5. ASSUME NEW error, PumpSubmitFails(error) PROVE UdpInv'
  <2> DEFINE reason == IF error = "PermissionDenied" THEN "CapabilityUnavailable"
                                                     ELSE "InternalError"
  <2>1. reason \in {"CapabilityUnavailable", "InternalError"}
    OBVIOUS
  <2>2. PumpLoops /\ FreePorts # {} /\ PumpFails(error, reason) /\ next_id' = next_id + 1
        /\ next_source_port' = (allocate_source_port + 1) % PoolSize /\ UNCHANGED source_ports
    BY <1>5 DEF PumpSubmitFails
  <2> HIDE DEF reason
  <2> QED
    BY <1>1, <2>1, <2>2, PumpFailsKeeps, PortAllocated
<1> QED
  BY <1>2, <1>3, <1>4, <1>5, PumpSubmitsKeeps DEF pump

(***************************************************************************)
(* What receive() retains is what was heard, in any order.                 *)
(***************************************************************************)
Extended(p, j) ==
  [p EXCEPT !.candidate = Retain(p.candidate, j),
            !.heard = p.heard \cup {[work |-> p.item.work, state |-> j.state]}]

LEMMA RetainSound ==
  ASSUME NEW p \in Attempt, Retained(p), NEW j \in Judgements
  PROVE  /\ Extended(p, j) \in Attempt /\ Retained(Extended(p, j))
         /\ Entry(Extended(p, j)) = Entry(p)
         /\ Extended(p, j).item = p.item /\ Extended(p, j).port = p.port
<1> DEFINE p1 == Extended(p, j)
           h == [work |-> p.item.work, state |-> j.state]
           c == Retain(p.candidate, j)
<1>1. /\ p.candidate \in Judgements \cup {NoCandidate, Conflict} /\ p.heard \in SUBSET Heard
      /\ p.item \in Item /\ p.item.work \in Work
  BY DEF Attempt, Item
<1>2. h \in Heard /\ h.work = p.item.work /\ h.state = j.state
  BY <1>1 DEF Heard
<1>3. /\ NoCandidate \notin Judgements /\ Conflict \notin Judgements /\ NoCandidate # Conflict
      /\ \A k \in Judgements : k.reason # "ConflictingEvidence"
      /\ Conflict.reason = "ConflictingEvidence"
  BY DEF NoCandidate, Judgements, Conflict
<1>4. /\ p.candidate = NoCandidate => c = j
      /\ p.candidate \in Judgements /\ p.candidate.state = j.state => c = p.candidate
      /\ p.candidate \in Judgements /\ p.candidate.state # j.state => c = Conflict
      /\ p.candidate = Conflict => c = Conflict
  BY <1>3 DEF Retain, Conflict
<1>5. c \in Judgements \cup {NoCandidate, Conflict}
  BY <1>1, <1>4
<1> HIDE DEF h, c
<1>6. p1 = [p EXCEPT !.candidate = c, !.heard = p.heard \cup {h}]
  BY DEF h, c, Extended
<1> HIDE DEF p1
<1>7. p1 \in Attempt /\ p1.candidate = c /\ p1.heard = p.heard \cup {h} /\ p1.item = p.item /\ p1.port = p.port
  <2> DEFINE hs == p.heard \cup {h}
  <2>1. hs \in SUBSET Heard /\ p1 = [p EXCEPT !.candidate = c, !.heard = hs]
    BY <1>1, <1>2, <1>6
  <2> HIDE DEF hs
  <2>2. /\ p1 \in Attempt /\ p1.candidate = c /\ p1.heard = hs
        /\ p1.item = p.item /\ p1.port = p.port
    BY <1>5, <2>1 DEF Attempt
  <2> QED
    BY <2>2 DEF hs
<1>8. \A g \in p1.heard : g.work = p1.item.work
  BY <1>2, <1>7 DEF Retained
<1>9. {g.state : g \in p1.heard} = {g.state : g \in p.heard} \cup {j.state}
  BY <1>2, <1>7
<1>10. Retained(p1)
  <2>1. CASE p.candidate = NoCandidate
    BY <1>3, <1>4, <1>7, <1>8, <1>9, <2>1 DEF Retained
  <2>2. CASE p.candidate \in Judgements /\ p.candidate.state = j.state
    BY <1>3, <1>4, <1>7, <1>8, <1>9, <2>2 DEF Retained
  <2>3. CASE p.candidate \in Judgements /\ p.candidate.state # j.state
    <3>1. PICK g \in p.heard : g.state = p.candidate.state
      BY <2>3 DEF Retained
    <3>2. \E a, b \in p1.heard : a.state # b.state
      BY <1>2, <1>7, <2>3, <3>1
    <3> QED
      BY <1>3, <1>4, <1>7, <1>8, <2>3, <3>2 DEF Retained
  <2>4. CASE p.candidate = Conflict
    <3>1. \E a, b \in p1.heard : a.state # b.state
      BY <1>7, <2>4 DEF Retained
    <3> QED
      BY <1>3, <1>4, <1>7, <1>8, <2>4, <3>1 DEF Retained
  <2> QED
    BY <1>1, <2>1, <2>2, <2>3, <2>4
<1> QED
  BY <1>7, <1>10 DEF Entry, p1

(***************************************************************************)
(* A packet finds its probe, and no packet for another pair does.          *)
(***************************************************************************)
LEMMA NetworkKeeps == UdpInv /\ Network => UdpInv'
<1> SUFFICES ASSUME UdpInv, NEW answered \in sent, NEW packet \in Packets, Arrives(answered, packet)
             PROVE  UdpInv'
  BY DEF Network
<1> DEFINE j == Judge(UDPResponseKind(packet, Family(answered.work.host)), packet)
<1>1. PICK id \in DOMAIN wire : match(answered) = {id} /\ receive(id, j, answered)
  BY DEF Arrives
<1>2. j \in Judgements
  <2>1. j # NoCandidate
    BY <1>1 DEF receive
  <2> QED
    BY <2>1 DEF Judge, Judgements
<1> HIDE DEF j
<1>3. /\ Idle /\ ~stopped
      /\ UNCHANGED <<phase, queue, source_ports, next_source_port, next_id, results, status, wire,
                     held, timers, stopped, pumping, draining>>
  BY DEF Arrives, transportVars
<1>4. /\ pending \in [DOMAIN pending -> Attempt] /\ DOMAIN wire = DOMAIN pending
      /\ wire[id] = Entry(pending[id]) /\ id \in DOMAIN pending
      /\ \A x \in DOMAIN pending : wire[x] = Entry(pending[x])
  BY DEF UdpInv, Types, Tables
<1>5. wire[id] = answered
  BY <1>1 DEF match
<1>6. answered.work = pending[id].item.work
  BY <1>4, <1>5 DEF Entry
<1> DEFINE p == pending[id]
           p1 == Extended(p, j)
<1>7. pending' = [pending EXCEPT ![id] = p1]
  <2>1. pending' = [pending EXCEPT ![id].candidate = Retain(@, j),
                                   ![id].heard = @ \cup {[work |-> answered.work,
                                                          state |-> j.state]}]
    BY <1>1 DEF receive
  <2> QED
    BY <1>4, <1>6, <2>1 DEF Attempt, Extended
<1>8. p \in Attempt /\ Retained(p)
  BY <1>4 DEF UdpInv, Evidential
<1>9. p1 \in Attempt /\ Retained(p1) /\ Entry(p1) = Entry(p) /\ p1.item = p.item /\ p1.port = p.port
  BY <1>2, <1>8, RetainSound
<1> HIDE DEF p1
<1>10. /\ DOMAIN pending' = DOMAIN pending /\ pending' \in [DOMAIN pending' -> Attempt]
       /\ \A x \in DOMAIN pending : /\ pending'[x].item = pending[x].item
                                    /\ pending'[x].port = pending[x].port
                                    /\ Entry(pending'[x]) = Entry(pending[x])
                                    /\ Retained(pending[x]) => Retained(pending'[x])
  BY <1>4, <1>7, <1>9
<1>11. Types'
  BY <1>3, <1>10 DEF UdpInv, Types
<1>12. Tables'
  <2>1. source_ports' = {pending'[x].port : x \in DOMAIN pending'}
    BY <1>3, <1>10 DEF UdpInv, Tables
  <2>2. \A a, b \in DOMAIN pending' : pending'[a].port = pending'[b].port => a = b
    BY <1>10 DEF UdpInv, Tables
  <2>3. wire' = [x \in DOMAIN pending' |-> Entry(pending'[x])]
    BY <1>3, <1>4, <1>10 DEF UdpInv, Tables
  <2> QED
    BY <1>3, <1>10, <2>1, <2>2, <2>3 DEF UdpInv, Tables
<1>13. Placement'
  <2>1. \A w : InFlight(pending', w) <=> InFlight(pending, w)
    BY <1>10 DEF InFlight
  <2>2. Placed(queue, pending, results, {})
    BY <1>3 DEF Idle, UdpInv, Placement, Active
  <2>3. Placed(queue, pending', results, {})
    BY <1>10, <2>1, <2>2 DEF Placed
  <2> QED
    BY <1>3, <2>3 DEF Placement
<1>14. Control'
  BY <1>3 DEF Idle, UdpInv, Control
<1>15. Evidential'
  BY <1>3, <1>10 DEF UdpInv, Evidential
<1> QED
  BY <1>11, <1>12, <1>13, <1>14, <1>15 DEF UdpInv

(***************************************************************************)
(* An attempt ends and its pair is answered, or queued again.              *)
(***************************************************************************)
LEMMA RetireKeeps ==
  ASSUME UdpInv, NEW id \in DOMAIN pending, Forget(id), phase = "running", pumping' = "handler",
         UNCHANGED <<phase, next_source_port, next_id, status, held, stopped, draining>>,
         \/ /\ \E s \in PortState, c \in Reasons :
                 /\ append_terminal_result(pending[id].item, s, c, pending[id].heard)
                 /\ Sound(pending[id].item.work,
                          [state |-> s, reason |-> c, attempts |-> pending[id].item.retry + 1,
                           heard |-> pending[id].heard])
            /\ UNCHANGED queue
         \/ /\ pending[id].item.retry < MaxRetries
            /\ queue' = <<[pending[id].item EXCEPT !.retry = @ + 1]>> \o queue
            /\ UNCHANGED results
  PROVE  UdpInv'
<1> DEFINE p == pending[id]
           x == p.item
<1>1. /\ p \in Attempt /\ queue \in Seq(Item) /\ results \in [Work -> Seq(Verdict)]
      /\ pending \in [DOMAIN pending -> Attempt]
      /\ next_id \in Nat \ {0} /\ DOMAIN pending \subseteq 1..(next_id - 1)
  BY DEF UdpInv, Types
<1>2. x \in Item /\ p.heard \in SUBSET Heard
  BY <1>1 DEF Attempt
<1>3. Placed(queue, Without(pending, id), results, {x.work})
  BY <1>1, TakeOut DEF UdpInv, Placement, Active
<1>4. /\ Tables' /\ pending' \in [DOMAIN pending' -> Attempt]
      /\ DOMAIN pending' \subseteq DOMAIN pending
      /\ \A y \in DOMAIN pending' : Retained(pending'[y])
  BY ForgetTables
<1>5. pending' = Without(pending, id)
  BY DEF Forget
<1> HIDE DEF x
<1> DEFINE Kept == /\ Placed(queue', pending', results', {}) /\ queue' \in Seq(Item)
                   /\ results' \in [Work -> Seq(Verdict)]
                   /\ \A w \in Work : \A i \in DOMAIN results'[w] : Sound(w, results'[w][i])
<1>6. Kept
  <2>1. ASSUME NEW s \in PortState, NEW c \in Reasons,
               append_terminal_result(x, s, c, p.heard), UNCHANGED queue,
               Sound(x.work, [state |-> s, reason |-> c, attempts |-> x.retry + 1,
                              heard |-> p.heard])
        PROVE  Kept
    BY <1>1, <1>2, <1>3, <1>5, <2>1, PutResult DEF UdpInv, Evidential
  <2>2. CASE /\ x.retry < MaxRetries /\ queue' = <<[x EXCEPT !.retry = @ + 1]>> \o queue
             /\ UNCHANGED results
    <3> DEFINE y == [x EXCEPT !.retry = @ + 1]
    <3>1. y \in Item /\ y.work = x.work
      <4>1. x.retry + 1 \in 0..MaxRetries /\ x.work \in Work
        BY <1>2, <2>2, UdpAssumption DEF Item
      <4>2. y = [work |-> x.work, retry |-> x.retry + 1]
        BY <1>2 DEF Item
      <4> QED
        BY <4>1, <4>2 DEF Item
    <3> HIDE DEF y
    <3>2. Placed(<<y>> \o queue, pending', results, {}) /\ <<y>> \o queue \in Seq(Item)
      BY <1>1, <1>3, <1>5, <3>1, PutFront
    <3> QED
      BY <1>1, <2>2, <3>2 DEF y, UdpInv, Evidential
  <2> QED
    BY <2>1, <2>2 DEF x
<1>7. Types'
  BY <1>1, <1>4, <1>6 DEF UdpInv, Types
<1>8. Placement'
  BY <1>6 DEF Placement
<1>9. Control'
  <2>1. ~stopped
    BY DEF UdpInv, Control, EmptyMap
  <2> QED
    BY <2>1 DEF UdpInv, Control
<1>10. Evidential'
  BY <1>4, <1>6 DEF Evidential
<1> QED
  BY <1>4, <1>7, <1>8, <1>9, <1>10 DEF UdpInv

(***************************************************************************)
(* on_timeout(), and the callbacks of a broken capture.                    *)
(***************************************************************************)
LEMMA DeadlineKeeps == UdpInv /\ Deadline => UdpInv'
<1> SUFFICES ASSUME UdpInv, NEW id \in DOMAIN pending, on_timeout(id) PROVE UdpInv'
  BY DEF Deadline
<1> DEFINE p == pending[id]
           e(s, c) == [state |-> s, reason |-> c, attempts |-> p.item.retry + 1, heard |-> p.heard]
<1>1. /\ Forget(id) /\ phase = "running" /\ pumping' = "handler"
      /\ UNCHANGED <<phase, next_source_port, next_id, status, held, stopped, draining>>
  BY DEF on_timeout, Idle
<1>2. p \in Attempt /\ Retained(p)
  BY DEF UdpInv, Types, Evidential
<1>3. p.item \in Item /\ p.candidate \in Judgements \cup {NoCandidate, Conflict}
  BY <1>2 DEF Attempt
<1>4. CASE /\ p.candidate # NoCandidate
           /\ append_terminal_result(p.item, p.candidate.state, p.candidate.reason, p.heard)
           /\ UNCHANGED queue
  <2> DEFINE s == p.candidate.state
             c == p.candidate.reason
             r == e(s, c)
  <2>1. p.candidate \in Judgements \cup {Conflict}
    BY <1>3, <1>4
  <2>2. s \in PortState /\ c \in Reasons /\ valid_port_result_semantics("Udp", s, c)
    BY <2>1 DEF Judgements, Conflict, PortState, Reasons, ScanReason, valid_port_result_semantics
  <2>3. r.state = s /\ r.reason = c /\ r.heard = p.heard
    OBVIOUS
  <2> HIDE DEF r
  <2>4. \/ {h.state : h \in p.heard} = {s}
        \/ (\E g, h \in p.heard : g.state # h.state) /\ s = "Unknown"
    BY <1>2, <2>1 DEF Retained, Conflict
  <2>5. \A h \in p.heard : h.work = p.item.work
    BY <1>2 DEF Retained
  <2> HIDE DEF s, c
  <2>6. Sound(p.item.work, r)
    BY <2>2, <2>3, <2>4, <2>5 DEF Sound
  <2> QED
    BY <1>1, <1>4, <2>2, <2>6, RetireKeeps DEF r, s, c
<1>5. CASE /\ p.candidate = NoCandidate /\ p.item.retry < MaxRetries
           /\ queue' = <<[p.item EXCEPT !.retry = @ + 1]>> \o queue
           /\ UNCHANGED results
  BY <1>1, <1>5, RetireKeeps
<1>6. CASE /\ p.candidate = NoCandidate /\ p.item.retry >= MaxRetries
           /\ append_terminal_result(p.item, "OpenOrFiltered", "UdpTimeout", p.heard)
           /\ UNCHANGED queue
  <2> DEFINE r == e("OpenOrFiltered", "UdpTimeout")
  <2>1. p.heard = {} /\ p.item.retry = MaxRetries
    BY <1>2, <1>3, <1>6, UdpAssumption DEF Retained, Item
  <2>2. /\ r.state = "OpenOrFiltered" /\ r.reason = "UdpTimeout" /\ r.heard = {}
        /\ r.attempts = MaxRetries + 1
    BY <2>1
  <2> HIDE DEF r
  <2>3. Sound(p.item.work, r)
    BY <2>2 DEF Sound, valid_port_result_semantics
  <2>4. "OpenOrFiltered" \in PortState /\ "UdpTimeout" \in Reasons
    BY DEF PortState, Reasons
  <2> QED
    BY <1>1, <1>6, <2>3, <2>4, RetireKeeps DEF r
<1> QED
  BY <1>4, <1>5, <1>6 DEF on_timeout

LEMMA DrainingKeeps == UdpInv /\ Draining => UdpInv'
<1> SUFFICES ASSUME UdpInv, Draining PROVE UdpInv'
  OBVIOUS
<1>1. CASE DrainEnds
  <2>1. Control' /\ pumping' \in {"no", "submit", "handler"}
    BY <1>1 DEF DrainEnds, schedulerVars, transportVars, UdpInv, Control, Types
  <2> QED
    BY <1>1, <2>1, Rests DEF DrainEnds, schedulerVars, transportVars
<1>2. ASSUME NEW id \in DOMAIN wire, Drain(id) PROVE UdpInv'
  <2> DEFINE p == pending[id]
             r == [state |-> "Error", reason |-> "SocketError", attempts |-> p.item.retry + 1,
                   heard |-> p.heard]
  <2>1. id \in DOMAIN pending
    BY DEF UdpInv, Tables
  <2>2. /\ Forget(id) /\ phase = "running" /\ pumping' = "handler"
        /\ append_terminal_result(p.item, "Error", "SocketError", p.heard)
        /\ UNCHANGED <<phase, queue, next_source_port, next_id, status, held, stopped, draining>>
    BY <1>2 DEF Drain, UdpInv, Control
  <2>3. r.state = "Error" /\ r.reason = "SocketError" /\ r.heard = p.heard
    OBVIOUS
  <2>4. \A h \in p.heard : h.work = p.item.work
    BY <2>1 DEF UdpInv, Evidential, Retained
  <2> HIDE DEF r
  <2>5. Sound(p.item.work, r)
    BY <2>3, <2>4, ErrorSound
  <2>6. "Error" \in PortState /\ "SocketError" \in Reasons
    BY DEF PortState, Reasons, ScanReason
  <2> QED
    BY <2>1, <2>2, <2>5, <2>6, RetireKeeps DEF r
<1> QED
  BY <1>1, <1>2 DEF Draining

(***************************************************************************)
(* The destructor, and the reactor.                                        *)
(***************************************************************************)
LEMMA DestroyKeeps == UdpInv /\ Destroy => UdpInv'
<1> SUFFICES ASSUME UdpInv, Destroy PROVE UdpInv'
  OBVIOUS
<1>1. /\ phase' = "destroyed" /\ pending' = EmptyMap /\ DOMAIN pending' = {} /\ queue' = <<>>
      /\ UNCHANGED <<next_source_port, next_id, results, pumping>>
  BY DEF Destroy, EmptyMap
<1>2. Types'
  BY <1>1 DEF UdpInv, Types
<1>3. Tables'
  <2>1. /\ source_ports' = {} /\ timers' = {} /\ wire' = EmptyMap
    BY DEF Destroy, UdpInv, Tables
  <2> QED
    BY <1>1, <2>1 DEF Tables, EmptyMap
<1>4. Placement'
  BY <1>1 DEF Placement, Active
<1>5. Control'
  BY DEF Destroy, UdpInv, Control
<1>6. Evidential'
  BY <1>1 DEF UdpInv, Evidential
<1> QED
  BY <1>2, <1>3, <1>4, <1>5, <1>6 DEF UdpInv

LEMMA ReactorKeeps ==
  UdpInv /\ (Run \/ RunReturns \/ EngineFails \/ CaptureFails \/ UNCHANGED vars) => UdpInv'
<1> SUFFICES ASSUME UdpInv, Run \/ RunReturns \/ EngineFails \/ CaptureFails \/ UNCHANGED vars
             PROVE  UdpInv'
  OBVIOUS
<1> USE DEF UdpInv, Control, schedulerVars, transportVars, Idle
<1>1. /\ UNCHANGED <<queue, pending, source_ports, next_source_port, next_id, results, wire, timers,
                     pumping>>
      /\ phase' \in Active => phase \in Active
  BY DEF Run, RunReturns, EngineFails, CaptureFails, vars, Active
<1>2. Control'
  <2>1. CASE Run
    BY <2>1 DEF Run
  <2>2. CASE RunReturns
    BY <2>2 DEF RunReturns
  <2>3. CASE EngineFails
    BY <2>3 DEF EngineFails
  <2>4. CASE CaptureFails
    BY <2>4 DEF CaptureFails
  <2>5. CASE UNCHANGED vars
    BY <2>5 DEF vars
  <2> QED
    BY <2>1, <2>2, <2>3, <2>4, <2>5
<1>3. pumping' \in {"no", "submit", "handler"}
  BY <1>1 DEF Types
<1> HIDE DEF UdpInv, Control
<1> QED
  BY <1>1, <1>2, <1>3, Rests

(***************************************************************************)
(* The invariant holds in every reachable state.                           *)
(***************************************************************************)
LEMMA InitKeeps == Init => UdpInv
<1> SUFFICES ASSUME Init PROVE UdpInv
  OBVIOUS
<1>1. /\ queue = <<>> /\ pending = EmptyMap /\ DOMAIN pending = {} /\ phase = "closed"
      /\ results = [w \in Work |-> <<>>] /\ DOMAIN <<>> = {} /\ next_id = 1 /\ pumping = "no"
      /\ next_source_port = 0 /\ held = {} /\ ~draining
  BY DEF Init, EmptyMap
<1>2. Types
  BY <1>1, UdpAssumption DEF Types
<1>3. Tables
  BY <1>1 DEF Init, Tables, EmptyMap
<1>4. Placement
  BY <1>1 DEF Placement, Active
<1>5. Control
  BY <1>1 DEF Control
<1>6. Evidential
  BY <1>1 DEF Evidential
<1> QED
  BY <1>2, <1>3, <1>4, <1>5, <1>6 DEF UdpInv

LEMMA InvariantHolds == Spec => []UdpInv
<1>1. UdpInv /\ [Next]_vars => UdpInv'
  BY SetupKeeps, PumpKeeps, NetworkKeeps, DeadlineKeeps, DrainingKeeps, DestroyKeeps, ReactorKeeps
  DEF Next, Terminated
<1> QED
  BY <1>1, InitKeeps, PTL DEF Spec

-----------------------------------------------------------------------------
(* What it means.                                                          *)

(***************************************************************************)
(* A set whose members are all one has at most one of them.                *)
(***************************************************************************)
LEMMA CountOne ==
  ASSUME NEW T, \A i, j \in T : i = j
  PROVE  Cardinality(T) = IF T = {} THEN 0 ELSE 1
<1>1. CASE T = {}
  BY <1>1, FS_EmptySet
<1>2. CASE T # {}
  <2>1. PICK x : x \in T
    BY <1>2
  <2>2. T = {x}
    BY <2>1
  <2> QED
    BY <1>2, <2>2, FS_Singleton
<1> QED
  BY <1>1, <1>2

(***************************************************************************)
(* Every pair is in exactly one place in every reachable state, for every  *)
(* list of pairs, every pool size, limit and retry count and whatever step *)
(* of pump() fails; pool, timers and the transport's table hold exactly    *)
(* what pending_ holds, and a run that returns Ok has answered every pair. *)
(***************************************************************************)
THEOREM UdpWorkAccounted == Spec => []WorkAccounted
<1>1. ASSUME UdpInv PROVE WorkAccounted
  <2>1. ASSUME phase \in {"submitting", "submitted", "running", "returned"}, NEW w \in Work
        PROVE  Places(w) = 1
    <3> DEFINE Q == {i \in DOMAIN queue : queue[i].work = w}
               P == {id \in DOMAIN pending : pending[id].item.work = w}
               n == Len(results[w])
    <3>1. Placed(queue, pending, results, {})
      BY <1>1, <2>1 DEF UdpInv, Placement, Active
    <3>2. \A i, j \in Q : i = j
      BY <3>1 DEF Placed
    <3>3. \A i, j \in P : i = j
      BY <3>1 DEF Placed
    <3>4. (Q # {} <=> InQueue(queue, w)) /\ (P # {} <=> InFlight(pending, w))
      BY DEF InQueue, InFlight
    <3>5. n \in Nat /\ n <= 1 /\ (n = 0 <=> results[w] = <<>>)
      <4>1. results[w] \in Seq(Verdict) /\ n <= 1
        BY <1>1, <3>1 DEF UdpInv, Types, Placed
      <4> QED
        BY <4>1, EmptySeq
    <3> HIDE DEF n
    <3>6. \/ InQueue(queue, w) /\ ~InFlight(pending, w) /\ n = 0
          \/ ~InQueue(queue, w) /\ InFlight(pending, w) /\ n = 0
          \/ ~InQueue(queue, w) /\ ~InFlight(pending, w) /\ n = 1
      BY <3>1, <3>5 DEF Placed
    <3> HIDE DEF P, Q
    <3>7. /\ Cardinality(Q) = IF Q = {} THEN 0 ELSE 1
          /\ Cardinality(P) = IF P = {} THEN 0 ELSE 1
      BY <3>2, <3>3, CountOne
    <3>8. Cardinality(Q) + Cardinality(P) + n = 1
      BY <3>4, <3>6, <3>7
    <3> QED
      BY <3>8 DEF Places, P, Q, n
  <2>2. ASSUME phase = "returned", status = "Ok", NEW w \in Work PROVE results[w] # <<>>
    <3>1. queue = <<>> /\ pending = EmptyMap /\ Placed(queue, pending, results, {})
      BY <1>1, <2>2 DEF UdpInv, Control, Placement, Active
    <3>2. ~InQueue(queue, w) /\ ~InFlight(pending, w)
      BY <3>1 DEF InQueue, InFlight, EmptyMap
    <3> QED
      BY <3>1, <3>2 DEF Placed
  <2>3. phase \in {"closed", "failed", "destroyed"} => held = {} /\ timers = {}
    BY <1>1 DEF UdpInv, Control, Tables, EmptyMap
  <2>4. /\ source_ports = {pending[id].port : id \in DOMAIN pending}
        /\ \A i, j \in DOMAIN pending : pending[i].port = pending[j].port => i = j
        /\ timers = DOMAIN pending /\ wire = [id \in DOMAIN pending |-> Entry(pending[id])]
    BY <1>1 DEF UdpInv, Tables
  <2>5. /\ DOMAIN wire = DOMAIN pending
        /\ \A id \in DOMAIN wire :
             wire[id] = [work |-> pending[id].item.work, port |-> pending[id].port]
    BY <2>4 DEF Entry
  <2> QED
    BY <2>1, <2>2, <2>3, <2>4, <2>5 DEF WorkAccounted
<1> QED
  BY <1>1, InvariantHolds, PTL

(***************************************************************************)
(* Every result says what its own pair answered, in any order of packets,  *)
(* deadlines, duplicates and reuses of a source port: a packet for another *)
(* pair never counts, contradictory answers never become one of the two,   *)
(* and the writers accept every result.                                    *)
(***************************************************************************)
THEOREM UdpEvidenceDecides == Spec => []EvidenceDecides
<1>1. ASSUME UdpInv PROVE EvidenceDecides
  <2> SUFFICES ASSUME NEW w \in Work, NEW i \in DOMAIN results[w]
               PROVE  LET r == results[w][i] states == {h.state : h \in r.heard} IN
                      /\ \A h \in r.heard : h.work = w
                      /\ \/ r.state = "Error"
                         \/ states = {} /\ r.state = "OpenOrFiltered" /\ r.attempts = MaxRetries + 1
                         \/ states = {r.state}
                         \/ Cardinality(states) > 1 /\ r.state = "Unknown"
                      /\ valid_port_result_semantics("Udp", r.state, r.reason)
    BY DEF EvidenceDecides
  <2> DEFINE r == results[w][i]
             states == {h.state : h \in r.heard}
             all == {j.state : j \in Judgements}
  <2>1. Sound(w, r) /\ r \in Verdict
    BY <1>1 DEF UdpInv, Types, Evidential
  <2>2. r.heard \subseteq Heard
    BY <2>1 DEF Verdict
  <2>3. states \subseteq all
    BY <2>2 DEF Heard
  <2>4. ASSUME NEW g \in r.heard, NEW h \in r.heard, g.state # h.state
        PROVE  Cardinality(states) > 1
    <3> DEFINE pair == {g.state, h.state}
    <3>1. IsFiniteSet(all)
      <4>1. all = {"Open", "Closed", "Filtered", "Unreachable"}
        BY DEF Judgements
      <4>2. IsFiniteSet({"Open"} \cup {"Closed"} \cup {"Filtered"} \cup {"Unreachable"})
        BY FS_Singleton, FS_Union
      <4>3. all = {"Open"} \cup {"Closed"} \cup {"Filtered"} \cup {"Unreachable"}
        BY <4>1
      <4> QED
        BY <4>2, <4>3
    <3> HIDE DEF all
    <3>2. IsFiniteSet(states)
      BY <2>3, <3>1, FS_Subset
    <3>3. pair \subseteq states
      OBVIOUS
    <3>4. Cardinality(pair) = 2
      <4>1. IsFiniteSet({h.state}) /\ Cardinality({h.state}) = 1
        BY FS_Singleton
      <4>2. Cardinality({h.state} \cup {g.state}) = Cardinality({h.state}) + 1
        BY <2>4, <4>1, FS_AddElement
      <4>3. {h.state} \cup {g.state} = pair
        OBVIOUS
      <4> QED
        BY <4>1, <4>2, <4>3
    <3> HIDE DEF pair, states
    <3>5. Cardinality(pair) <= Cardinality(states) /\ Cardinality(states) \in Nat
      BY <3>2, <3>3, FS_Subset, FS_CardinalityType
    <3> QED
      BY <3>4, <3>5
  <2> HIDE DEF r
  <2> QED
    BY <2>1, <2>4 DEF Sound, r
<1> QED
  BY <1>1, InvariantHolds, PTL

-----------------------------------------------------------------------------
(* The refinement.                                                         *)

(***************************************************************************)
(* What a step may do to the results: nothing, the first result of a pair, *)
(* or the batch of pairs that submit() cannot address.                     *)
(***************************************************************************)
Decides ==
  \E w \in Work : /\ results[w] = <<>> /\ results'[w] # <<>>
                  /\ results'[w][1].state \in PortState
                  /\ \A o \in Work \ {w} : results'[o] = results[o]

TurnsDown(S) ==
  \A w \in Work : /\ results[w] = <<>>
                  /\ w \in S => results'[w] # <<>> /\ results'[w][1].state = "Error"
                  /\ w \notin S => results'[w] = <<>>

(***************************************************************************)
(* A pair that is queued or out has no result yet.                         *)
(***************************************************************************)
LEMMA FirstResult ==
  ASSUME UdpInv, NEW x \in Item, InQueue(queue, x.work) \/ InFlight(pending, x.work),
         phase \in Active, NEW s \in PortState, NEW c, NEW h, append_terminal_result(x, s, c, h)
  PROVE  Decides
<1> DEFINE e == [state |-> s, reason |-> c, attempts |-> x.retry + 1, heard |-> h]
<1>1. x.work \in Work /\ results[x.work] = <<>> /\ results \in [Work -> Seq(Verdict)]
  BY DEF Item, UdpInv, Types, Placement, Placed
<1>2. results' = [results EXCEPT ![x.work] = Append(<<>>, e)]
  BY <1>1 DEF append_terminal_result
<1>3. e.state = s
  OBVIOUS
<1> HIDE DEF e
<1>4. Append(<<>>, e) # <<>> /\ Append(<<>>, e)[1] = e
  OBVIOUS
<1>5. /\ results'[x.work] = Append(<<>>, e)
      /\ \A o \in Work \ {x.work} : results'[o] = results[o]
  BY <1>1, <1>2
<1> QED
  BY <1>1, <1>3, <1>4, <1>5 DEF Decides

(***************************************************************************)
(* The head of the queue is queued, and what pending_ holds is out.        *)
(***************************************************************************)
LEMMA HeadQueued ==
  ASSUME UdpInv, queue # <<>>
  PROVE  Head(queue) \in Item /\ InQueue(queue, Head(queue).work)
<1>1. queue \in Seq(Item)
  BY DEF UdpInv, Types
<1>2. Head(queue) \in Item /\ 1 \in DOMAIN queue /\ queue[1] = Head(queue)
  BY <1>1, TailFacts
<1> QED
  BY <1>2 DEF InQueue

LEMMA PendingOut ==
  ASSUME UdpInv, NEW id \in DOMAIN pending
  PROVE  /\ pending[id].item \in Item /\ InFlight(pending, pending[id].item.work)
         /\ pending[id].candidate # NoCandidate => pending[id].candidate.state \in PortState
<1>1. pending[id] \in Attempt
  BY DEF UdpInv, Types
<1> QED
  BY <1>1 DEF Attempt, InFlight, Judgements, Conflict, PortState

(***************************************************************************)
(* Every step, by what it does to the results.                             *)
(***************************************************************************)
LEMMA NextResults ==
  ASSUME UdpInv, [Next]_vars
  PROVE  UNCHANGED results \/ Decides \/ \E S \in SUBSET Work : TurnsDown(S)
<1>1. "Error" \in PortState /\ "OpenOrFiltered" \in PortState
  BY DEF PortState
<1>2. CASE Setup
  <2>1. ASSUME NEW h, SubmitInvalid(h) PROVE \E S \in SUBSET Work : TurnsDown(S)
    <3> DEFINE S == {w \in Work : w.host = h}
               e == [state |-> "Error", reason |-> "InvalidTarget", attempts |-> 1, heard |-> {}]
    <3>1. /\ \A w \in Work : results[w] = <<>>
          /\ results' = [w \in Work |-> IF w.host = h THEN <<e>> ELSE <<>>]
      BY <2>1 DEF SubmitInvalid, UdpInv, Control
    <3>2. e.state = "Error"
      OBVIOUS
    <3> HIDE DEF e
    <3>3. <<e>> # <<>> /\ <<e>>[1] = e
      OBVIOUS
    <3>4. TurnsDown(S)
      BY <3>1, <3>2, <3>3 DEF TurnsDown
    <3> QED
      BY <3>4
  <2>2. CASE open \/ submit \/ \E step \in OpenSteps : OpenFails(step)
    BY <2>2 DEF open, submit, OpenFails, schedulerVars
  <2> QED
    BY <1>2, <2>1, <2>2 DEF Setup
<1>3. CASE pump
  <2>1. ASSUME PumpLoops, NEW error, NEW reason, PumpFails(error, reason) PROVE Decides
    <3>1. phase \in Active /\ queue # <<>>
      BY <2>1 DEF PumpLoops, UdpInv, Types, Control, Active
    <3>2. append_terminal_result(Head(queue), "Error", reason, {})
      BY <2>1 DEF PumpFails
    <3> QED
      BY <1>1, <3>1, <3>2, HeadQueued, FirstResult
  <2>2. CASE PumpReturns \/ PumpSubmits
    BY <2>2 DEF PumpReturns, PumpSubmits, schedulerVars
  <2>3. CASE PumpNoPort
    BY <2>1, <2>3 DEF PumpNoPort
  <2>4. CASE PumpTimerFails
    BY <2>1, <2>4 DEF PumpTimerFails
  <2>5. ASSUME NEW error, PumpSubmitFails(error) PROVE Decides
    BY <2>1, <2>5 DEF PumpSubmitFails
  <2> QED
    BY <1>3, <2>2, <2>3, <2>4, <2>5 DEF pump
<1>4. CASE Deadline
  <2> SUFFICES ASSUME NEW id \in DOMAIN pending, on_timeout(id) PROVE UNCHANGED results \/ Decides
    BY <1>4 DEF Deadline
  <2> DEFINE p == pending[id]
  <2>1. phase \in Active
    BY DEF on_timeout, Idle, Active
  <2>2. CASE /\ p.candidate # NoCandidate
             /\ append_terminal_result(p.item, p.candidate.state, p.candidate.reason, p.heard)
    BY <2>1, <2>2, PendingOut, FirstResult
  <2>3. CASE append_terminal_result(p.item, "OpenOrFiltered", "UdpTimeout", p.heard)
    BY <1>1, <2>1, <2>3, PendingOut, FirstResult
  <2> QED
    BY <2>2, <2>3 DEF on_timeout
<1>5. CASE Draining
  <2>1. ASSUME NEW id \in DOMAIN wire, Drain(id) PROVE Decides
    <3>1. phase \in Active /\ id \in DOMAIN pending
      BY <2>1 DEF Drain, UdpInv, Control, Tables, Active
    <3> QED
      BY <1>1, <2>1, <3>1, PendingOut, FirstResult DEF Drain
  <2> QED
    BY <1>5, <2>1 DEF Draining, DrainEnds, schedulerVars
<1>6. CASE Network
  BY <1>6 DEF Network, Arrives
<1>7. CASE Run \/ RunReturns \/ EngineFails \/ CaptureFails \/ Destroy \/ UNCHANGED vars
  BY <1>7 DEF Run, RunReturns, EngineFails, CaptureFails, Destroy, vars, schedulerVars
<1> QED
  BY <1>2, <1>3, <1>4, <1>5, <1>6, <1>7 DEF Next, Terminated

(***************************************************************************)
(* What the stage can see of a step: the scan is alive before and after,   *)
(* or it ends, or nothing changes any more.                                *)
(***************************************************************************)
Alive == phase \notin {"returned", "destroyed"}

Ends == /\ Alive /\ UNCHANGED results
        /\ \/ phase' = "returned"
           \/ phase' = "destroyed" /\ (status' # "Ok" \/ Unopened')

Over == /\ ~Alive /\ ~Alive' /\ UNCHANGED <<results, status>>
        /\ phase = "destroyed" => phase' = "destroyed"

LEMMA NextCourse ==
  ASSUME UdpInv, [Next]_vars
  PROVE  (Alive /\ Alive') \/ Ends \/ Over
<1>1. CASE Setup
  BY <1>1 DEF Setup, OpenFails, open, SubmitInvalid, submit, Alive
<1>2. CASE pump
  <2>1. phase \in {"submitting", "running"}
    BY <1>2 DEF pump, PumpReturns, PumpNoPort, PumpTimerFails, PumpSubmits, PumpSubmitFails,
                PumpLoops, UdpInv, Types, Control
  <2>2. phase' \in {phase, "submitted", "refused"}
    BY <1>2 DEF pump, PumpReturns, PumpNoPort, PumpTimerFails, PumpSubmits, PumpSubmitFails,
                PumpFails
  <2> QED
    BY <2>1, <2>2 DEF Alive
<1>3. CASE Network \/ Deadline \/ CaptureFails
  BY <1>3 DEF Network, Arrives, Deadline, on_timeout, CaptureFails, Idle, Alive
<1>4. CASE Draining
  BY <1>4 DEF Draining, DrainEnds, Drain, UdpInv, Control, Alive
<1>5. CASE Run
  BY <1>5 DEF Run, Alive
<1>6. CASE RunReturns \/ EngineFails
  BY <1>6 DEF RunReturns, EngineFails, Idle, schedulerVars, Alive, Ends
<1>7. CASE Destroy
  <2>1. /\ phase' = "destroyed" /\ UNCHANGED <<results, status>>
        /\ phase \in {"failed", "refused", "returned"}
    BY <1>7 DEF Destroy
  <2>2. CASE phase = "failed"
    <3>1. \A w \in Work : results[w] = <<>>
      BY <2>2 DEF UdpInv, Control
    <3> QED
      BY <2>1, <2>2, <3>1 DEF Ends, Alive, Unopened
  <2>3. CASE phase = "refused"
    BY <2>1, <2>3 DEF UdpInv, Control, Ends, Alive
  <2>4. CASE phase = "returned"
    BY <2>1, <2>4 DEF Over, Alive
  <2> QED
    BY <2>1, <2>2, <2>3, <2>4
<1>8. CASE UNCHANGED vars
  BY <1>8 DEF vars, schedulerVars, Alive, Over
<1> QED
  BY <1>1, <1>2, <1>3, <1>4, <1>5, <1>6, <1>7, <1>8 DEF Next, Terminated

(***************************************************************************)
(* A run that returned Ok has answered every pair, and there is a pair.    *)
(***************************************************************************)
LEMMA OkIsWhole ==
  ASSUME UdpInv, phase = "returned", status = "Ok"
  PROVE  (\A w \in Work : results[w] # <<>>) /\ Work # {}
<1>1. queue = <<>> /\ pending = EmptyMap /\ Placed(queue, pending, results, {})
  BY DEF UdpInv, Control, Placement, Active
<1>2. \A w : ~InQueue(queue, w) /\ ~InFlight(pending, w)
  BY <1>1 DEF InQueue, InFlight, EmptyMap
<1>3. 1 \in DOMAIN Order
  <2>1. Len(Order) \in Nat \ {0} /\ DOMAIN Order = 1..Len(Order)
    BY UdpAssumption, EmptySeq
  <2> QED
    BY <2>1
<1> QED
  BY <1>1, <1>2, <1>3 DEF Placed, Work

Whole == phase = "returned" /\ status = "Ok" => \A w \in Work : VerdictOf(w) # NoVerdict

(***************************************************************************)
(* The verdict the stage sees, as a function of the pairs.                 *)
(***************************************************************************)
VerdictMap == [w \in Work |-> VerdictOf(w)]

LEMMA VerdictIsResult ==
  ASSUME UdpInv, NEW w \in Work, results[w] # <<>>
  PROVE  VerdictOf(w) # NoVerdict
<1>1. results[w] \in Seq(Verdict)
  BY DEF UdpInv, Types
<1>2. Len(results[w]) \in Nat \ {0}
  BY <1>1, EmptySeq
<1>3. results[w][1] \in Verdict
  BY <1>1, <1>2
<1> QED
  BY <1>3 DEF VerdictOf, Verdict, PortState, NoVerdict

(***************************************************************************)
(* A step of a scan that is alive is a verdict, a batch of pairs turned    *)
(* down, or nothing to the stage.                                          *)
(***************************************************************************)
LEMMA AliveStep ==
  ASSUME Alive, Alive', UNCHANGED results \/ Decides \/ \E S \in SUBSET Work : TurnsDown(S)
  PROVE  [Contract!Next]_(Contract!vars)
<1>1. Outcome = "none" /\ Outcome' = "none"
  BY DEF Alive, Outcome
<1>2. CASE UNCHANGED results
  <2>1. VerdictMap' = VerdictMap
    BY <1>2 DEF VerdictMap, VerdictOf
  <2> QED
    BY <1>1, <2>1 DEF Contract!vars, VerdictMap
<1>3. CASE Decides
  <2>1. PICK w \in Work : /\ results[w] = <<>> /\ results'[w] # <<>>
                          /\ results'[w][1].state \in PortState
                          /\ \A o \in Work \ {w} : results'[o] = results[o]
    BY <1>3 DEF Decides
  <2> DEFINE v == results'[w][1].state
  <2>2. VerdictMap[w] = NoVerdict
    BY <2>1 DEF VerdictMap, VerdictOf
  <2>3. VerdictMap' = [VerdictMap EXCEPT ![w] = v]
    BY <2>1 DEF VerdictMap, VerdictOf
  <2>4. v \in PortState
    BY <2>1
  <2> HIDE DEF v
  <2>5. Contract!Decide(w, v)
    BY <1>1, <2>2, <2>3 DEF Contract!Decide, VerdictMap
  <2> QED
    BY <2>4, <2>5 DEF Contract!Next
<1>4. ASSUME NEW S \in SUBSET Work, TurnsDown(S) PROVE Contract!Next
  <2>1. \A w \in Work : VerdictMap[w] = NoVerdict
    BY <1>4 DEF TurnsDown, VerdictMap, VerdictOf
  <2>2. VerdictMap' \in [Work -> {NoVerdict, "Error"}]
    BY <1>4 DEF TurnsDown, VerdictMap, VerdictOf
  <2>3. Contract!TurnDown("Error")
    BY <1>1, <2>1, <2>2 DEF Contract!TurnDown, VerdictMap
  <2>4. "Error" \in PortState
    BY DEF PortState
  <2> QED
    BY <2>3, <2>4 DEF Contract!Next
<1> QED
  BY <1>2, <1>3, <1>4

(***************************************************************************)
(* A scan that ends is complete, with a verdict on every pair, or failed;  *)
(* after that the stage sees nothing change.                               *)
(***************************************************************************)
LEMMA EndStep ==
  ASSUME Whole', Ends
  PROVE  Contract!Next
<1>1. Outcome = "none" /\ VerdictMap' = VerdictMap
  BY DEF Ends, Alive, Outcome, VerdictMap, VerdictOf
<1>2. CASE phase' = "returned" /\ status' = "Ok"
  <2>1. Outcome' = "complete"
    BY <1>2 DEF Outcome, Unopened
  <2>2. \A w \in Work : VerdictMap[w] # NoVerdict
    BY <1>1, <1>2 DEF Whole, VerdictMap
  <2>3. Contract!Complete
    BY <1>1, <2>1, <2>2 DEF Contract!Complete, VerdictMap
  <2> QED
    BY <2>3 DEF Contract!Next
<1>3. CASE ~(phase' = "returned" /\ status' = "Ok")
  <2>1. Outcome' = "failed"
    BY <1>3 DEF Ends, Outcome
  <2>2. Contract!Fail
    BY <1>1, <2>1 DEF Contract!Fail, VerdictMap
  <2> QED
    BY <2>2 DEF Contract!Next
<1> QED
  BY <1>2, <1>3

LEMMA OverStep ==
  ASSUME UdpInv, Over
  PROVE  UNCHANGED Contract!vars
<1>1. VerdictMap' = VerdictMap
  BY DEF Over, VerdictMap, VerdictOf
<1>2. Outcome' = Outcome
  <2>1. CASE phase = "destroyed"
    BY <2>1 DEF Over, Outcome, Unopened
  <2>2. CASE phase = "returned" /\ status = "Ok"
    <3>1. \E w \in Work : results[w] # <<>>
      BY <2>2, OkIsWhole
    <3>2. ~Unopened /\ ~Unopened'
      BY <3>1 DEF Over, Unopened
    <3> QED
      BY <2>2, <3>2 DEF Over, Alive, Outcome
  <2>3. CASE phase = "returned" /\ status # "Ok"
    BY <2>3 DEF Over, Alive, Outcome
  <2> QED
    BY <2>1, <2>2, <2>3 DEF Over, Alive
<1> QED
  BY <1>1, <1>2 DEF Contract!vars, VerdictMap

(***************************************************************************)
(* The UDP scan implements the contract of a port scan: verdicts appear    *)
(* one by one (or, for a host submit() cannot address, together), are      *)
(* final, stop with the end of run(), and a run that ends with Ok has one  *)
(* for every pair, however ports are reused and whatever step fails.       *)
(***************************************************************************)
THEOREM UdpContractKept == Spec => KeepsContract
<1>1. Init => Contract!Init
  <2>1. ASSUME Init PROVE VerdictMap = [w \in Work |-> NoVerdict] /\ Outcome = "none"
    BY <2>1 DEF Init, VerdictMap, VerdictOf, Outcome
  <2> QED
    BY <2>1 DEF Contract!Init, VerdictMap
<1>2. UdpInv /\ Whole' /\ [Next]_vars => [Contract!Next]_(Contract!vars)
  BY NextResults, NextCourse, AliveStep, EndStep, OverStep
<1>3. UdpInv => Whole
  BY OkIsWhole, VerdictIsResult DEF Whole
<1> QED
  BY <1>1, <1>2, <1>3, InvariantHolds, PTL DEF Spec, KeepsContract, Contract!Spec

=============================================================================
