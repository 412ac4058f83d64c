-------------------------- MODULE RawScanTransport --------------------------
(***************************************************************************)
(* LinuxNetworkScanTransport (src/net/network_scan_transport.cpp): the raw *)
(* TCP SYN and ACK transport of the port scan, over PacketReceiver,        *)
(* LinuxCapture, LinuxTransport and CorrelationTable.                      *)
(*                                                                         *)
(* Probes go out on a packet socket; every frame the interface sees comes  *)
(* back through the capture and is matched to the probes that are out.     *)
(* The scheduler's callback runs inside the capture event and may submit,  *)
(* cancel and close from there.  The network may lose, delay, duplicate    *)
(* and reorder answers, answer a probe that is gone, and damage frames.    *)
(***************************************************************************)
EXTENDS Integers, Sequences, FiniteSets, FiniteSetsExt, SequencesExt

CONSTANTS
  Submission,     \* the probes by PortProbeId: probe, family, target, port
  PORT_SPAN,      \* the number of source ports, 20000
  WORD,           \* 2^32
  BATCH,          \* kMaximumCaptureBatch, 256
  MAX_HEADERS,    \* the IPv6 extension headers read, 8
  MAX_BYTES,      \* and their total length, 2048
  MaxOpens,       \* bound: calls of open()
  MaxWire,        \* bound: frames waiting in the capture
  Damages         \* the ways a frame may reach the interface (see Layers)

Ids == DOMAIN Submission
Families == {"IPv4", "IPv6"}
None == 0

ASSUME RawScanAssumption ==
  /\ Ids \subseteq Nat \ {None}
  /\ \A id \in Ids : /\ Submission[id].probe \in {"TcpSyn", "TcpAck"}
                     /\ Submission[id].family \in Families
  /\ PORT_SPAN \in Nat \ {0} /\ BATCH \in Nat \ {0} /\ WORD \in Nat /\ WORD > 6
  /\ MAX_HEADERS \in Nat \ {0} /\ MAX_BYTES \in Nat \ {0}
  /\ MaxOpens \in Nat /\ MaxWire \in Nat
  /\ Damages \subseteq {"vlan", "qinq", "options", "fragment", "long", "damaged", "cut"}

(***************************************************************************)
(* Both spans are even, and the odd factors 5 and 3 have inverses modulo   *)
(* 2^32.  A scan makes fewer than 2^32 attempts, all by one method         *)
(* (PortScanScheduler has one probe_ and counts next_id_).                 *)
(***************************************************************************)
ASSUME NumbersAssumption ==
  /\ PORT_SPAN % 2 = 0 /\ WORD % 2 = 0
  /\ \E m \in 1..WORD : (5 * m) % WORD = 1
  /\ \E m \in 1..WORD : (3 * m) % WORD = 1
  /\ \A i, j \in Ids : i % WORD = j % WORD => i = j
  /\ \A i, j \in Ids : Submission[i].target = Submission[j].target
                       => Submission[i].probe = Submission[j].probe

VARIABLES
  session,        \* session_: active and the counters
  held,           \* the descriptors and the event registered, of Resources
  pending,        \* pending_
  correlation,    \* correlation_: key to token
  wire,           \* frames the capture has not handed out yet
  reading,        \* on_capture_event(): "no", "frames" or "drain"
  frames_left,    \* frames the loop may still read
  calling,        \* the probe whose callback runs, or None
  evidence,       \* history: the frame given to that callback
  used,           \* history: probes submitted, refused ones too
  sent,           \* history: probes that reached the wire
  refused,        \* history: submissions of this session counted as failed
  opens           \* history: calls of open()

transportVars == <<session, held, pending, correlation>>
loopVars == <<reading, frames_left, calling, evidence>>
historyVars == <<used, sent, refused, opens>>
rawVars == <<transportVars, wire, loopVars, historyVars>>

Resources == {"capture", "socket", "event"}
NoFrame == [kind |-> "none"]
EmptyMap == [x \in {} |-> x]
Without(f, x) == [y \in DOMAIN f \ {x} |-> f[y]]
With(f, x, v) == [y \in DOMAIN f \cup {x} |-> IF y = x THEN v ELSE f[y]]
Fresh == [active |-> FALSE, submitted |-> 0, completed |-> 0, timed_out |-> 0, failed |-> 0]

RawInit ==
  /\ session = Fresh /\ held = {} /\ pending = EmptyMap /\ correlation = EmptyMap
  /\ wire = <<>> /\ reading = "no" /\ frames_left = 0 /\ calling = None /\ evidence = NoFrame
  /\ used = {} /\ sent = {} /\ refused = 0 /\ opens = 0

-----------------------------------------------------------------------------
(* The probes: the numbers TcpSynProbe and TcpAckProbe derive from an id.  *)
(* An exclusive or, an odd factor and an addition permute the words.       *)

source_port_for(id) == id % PORT_SPAN
syn_sequence_for(id) == (5 * id + WORD - 6) % WORD
ack_sequence_for(id) == LET v == (5 * id + 3) % WORD IN IF v = 0 THEN 1 ELSE v
acknowledgment_for(id) == LET v == (3 * id + 7) % WORD IN IF v = 0 THEN 1 ELSE v

sequence_of(id) ==
  IF Submission[id].probe = "TcpSyn" THEN syn_sequence_for(id) ELSE ack_sequence_for(id)

correlation_key(id) ==
  <<Submission[id].target, source_port_for(id), Submission[id].port, sequence_of(id)>>

-----------------------------------------------------------------------------
(* PacketReceiver::parse(): from a frame to what was observed.             *)
(*                                                                         *)
(* A frame has VLAN tags, an address family, IPv6 extension headers (kind  *)
(* and length), a length and checksums that hold or not, and a segment.    *)

Offset(exts, k) == FoldLeft(LAMBDA n, e : n + e.length, 0, SubSeq(exts, 1, k - 1))

(***************************************************************************)
(* The first header that is one too many, crosses the budget or ends       *)
(* beyond the packet decides; room is what the packet has.                 *)
(***************************************************************************)
parse_ipv6_extensions(exts, room, terminal) ==
  LET Over(k) == k > MAX_HEADERS \/ Offset(exts, k) >= MAX_BYTES
      TooLong(k) == exts[k].length > MAX_BYTES - Offset(exts, k)
      Cut(k) == exts[k].length > room - Offset(exts, k)
      stops == {k \in DOMAIN exts : Over(k) \/ TooLong(k) \/ Cut(k)}
  IN IF stops # {}
       THEN IF Over(Min(stops)) \/ TooLong(Min(stops)) THEN "LimitExceeded" ELSE "Malformed"
     ELSE IF terminal = "nothing" THEN "NoNextHeader"
     ELSE IF terminal \in {"tcp", "udp", "icmp"} THEN "Complete" ELSE "Unsupported"

transport_status(frame) ==
  IF frame.kind \notin {"tcp", "udp", "icmp"} THEN "UnsupportedIpProtocol"
  ELSE IF frame.body = "cut" THEN "Truncated"
  ELSE IF frame.body = "damaged" THEN "Malformed" ELSE "Valid"

parse_ipv6(frame) ==
  LET status == parse_ipv6_extensions(frame.exts, frame.room, frame.kind) IN
  IF status # "Complete" THEN status
  ELSE IF \E k \in DOMAIN frame.exts : frame.exts[k].kind = "Fragment" THEN "FragmentedIPv6"
  ELSE transport_status(frame)

(* IPv4 options are refused with the damaged headers. *)
parse_ipv4(frame) == transport_status(frame)

(* One VLAN tag is taken off; what a second one hides is another type. *)
parse(frame) ==
  IF frame.tags > 1 THEN "UnsupportedEtherType"
  ELSE IF frame.family = "IPv6" THEN parse_ipv6(frame) ELSE parse_ipv4(frame)

-----------------------------------------------------------------------------
(* Which probe does a frame answer?                                        *)

Has(frame, flag) == flag \in frame.flags
after_sequence(id) == (sequence_of(id) + 1) % WORD

matches_tcp_reply(id, frame) ==
  LET s == Submission[id] IN
  /\ frame.kind = "tcp" /\ frame.family = s.family
  /\ frame.from = s.target /\ frame.to = "us"
  /\ frame.sport = s.port /\ frame.dport = source_port_for(id)
  /\ ~Has(frame, "FIN")
  /\ \/ /\ s.probe = "TcpAck"
        /\ Has(frame, "RST") /\ ~Has(frame, "ACK") /\ ~Has(frame, "SYN")
        /\ frame.seq = acknowledgment_for(id)
     \/ /\ s.probe = "TcpSyn"
        /\ \/ /\ Has(frame, "SYN") /\ ~Has(frame, "RST") /\ Has(frame, "ACK")
              /\ frame.ack = after_sequence(id)
           \/ /\ Has(frame, "RST") /\ ~Has(frame, "SYN")
              /\ (~Has(frame, "ACK") \/ frame.ack = after_sequence(id))

(* The quote holds the addresses, the ports and the sequence number. *)
matches_tcp_unreachable(id, frame) ==
  /\ frame.kind = "icmp" /\ frame.family = Submission[id].family /\ frame.to = "us"
  /\ frame.quote = correlation_key(id)

classify_tcp_unreachable_reason(frame) ==
  CASE frame.family = "IPv4" /\ frame.code \in {0, 1, 5, 6, 7} -> "IcmpNetworkUnreachable"
    [] frame.family = "IPv4" /\ frame.code = 2 -> "IcmpProtocolUnreachable"
    [] frame.family = "IPv4" /\ frame.code = 3 -> "IcmpPortUnreachable"
    [] frame.family = "IPv4" /\ frame.code \in {9, 10, 13} -> "IcmpAdministrativelyProhibited"
    [] frame.family = "IPv6" /\ frame.code \in {0, 2, 3} -> "IcmpNetworkUnreachable"
    [] frame.family = "IPv6" /\ frame.code \in {1, 5, 6} -> "IcmpAdministrativelyProhibited"
    [] frame.family = "IPv6" /\ frame.code = 4 -> "IcmpPortUnreachable"
    [] OTHER -> "none"

(* CorrelationTable::lookup(); no entry of this transport ever expires. *)
lookup(key) == IF key \in DOMAIN correlation THEN correlation[key] ELSE None

(***************************************************************************)
(* Faulty variant, for the sensitivity of the checks: of several probes    *)
(* that a reset may be meant for, the first one found takes it.            *)
(***************************************************************************)
only_or_first(ids) == IF ids = {} THEN None ELSE CHOOSE id \in ids : TRUE

(* Evidence that more than one probe could claim is nobody's. *)
only(ids) == IF Cardinality(ids) = 1 THEN CHOOSE id \in ids : TRUE ELSE None

matched_unreachable(frame) ==
  LET id == only({i \in DOMAIN pending : matches_tcp_unreachable(i, frame)}) IN
  IF id # None /\ classify_tcp_unreachable_reason(frame) # "none" THEN id ELSE None

matched_scan(frame) == only({i \in DOMAIN pending : matches_tcp_reply(i, frame)})

matched_correlation(frame) ==
  LET id == lookup(<<frame.from, frame.dport, frame.sport, (frame.ack + WORD - 1) % WORD>>) IN
  IF id \in DOMAIN pending /\ matches_tcp_reply(id, frame) THEN id ELSE None

dispatch_observation(frame) ==
  IF parse(frame) # "Valid" THEN None
  ELSE IF frame.kind = "icmp" THEN matched_unreachable(frame)
  ELSE IF frame.kind # "tcp" THEN None
  ELSE IF frame.family = "IPv6" THEN matched_scan(frame)
  ELSE IF frame.to # "us" THEN None
  ELSE IF Has(frame, "ACK") THEN matched_correlation(frame) ELSE matched_scan(frame)

-----------------------------------------------------------------------------
(* open(), close().                                                        *)

is_open == session.active /\ {"socket", "capture"} \subseteq held

(***************************************************************************)
(* PacketReceiver::close(): when the reactor does not let the event go,    *)
(* the capture stays open under it.                                        *)
(***************************************************************************)
ReceiverClosed(h, stuck) ==
  IF "event" \in h /\ stuck THEN h ELSE h \ {"event", "capture"}

(* The program's code runs: between two events, or in a callback. *)
ClientRuns == reading = "no" \/ calling # None

Close(stuck) ==
  /\ ClientRuns
  /\ pending' = EmptyMap /\ correlation' = EmptyMap
  /\ held' = ReceiverClosed(held, stuck) \ {"socket"}
  /\ session' = [session EXCEPT !.active = FALSE]
  /\ UNCHANGED <<wire, loopVars, historyVars>>

(* LinuxCapture::open() and LinuxTransport::open() close what they have first. *)
capture_open(h, fault) == (h \ {"capture"}) \cup (IF fault = "capture" THEN {} ELSE {"capture"})
transport_open(h, fault) == (h \ {"socket"}) \cup (IF fault = "socket" THEN {} ELSE {"socket"})

(* An event that could not be removed cannot be attached a second time. *)
attach(h, fault) == IF fault = "attach" \/ "event" \in h THEN h ELSE h \cup {"event"}

(***************************************************************************)
(* open() closes first, then needs an interface with an address, a route   *)
(* and a MAC address (early), the capture, the socket and the reactor, and *)
(* gives back what it took when the next one fails.                        *)
(***************************************************************************)
Open(fault, stuck) ==
  LET closed == ReceiverClosed(held, stuck) \ {"socket"}
      captured == capture_open(closed, fault)
      connected == transport_open(captured, fault)
      attached == "event" \notin closed /\ attach(connected, fault) = Resources
      after == CASE fault = "early" -> closed
                 [] fault = "capture" -> captured
                 [] fault = "socket" -> ReceiverClosed(connected, stuck)
                 [] OTHER -> IF attached THEN attach(connected, fault)
                             ELSE ReceiverClosed(connected \ {"socket"}, stuck)
      opened == fault \in {"none", "attach"} /\ attached
  IN /\ reading = "no" /\ opens < MaxOpens /\ opens' = opens + 1
     /\ pending' = EmptyMap /\ correlation' = EmptyMap /\ held' = after
     /\ session' = IF opened THEN [Fresh EXCEPT !.active = TRUE] ELSE [session EXCEPT !.active = FALSE]
     /\ refused' = IF opened THEN 0 ELSE refused
     /\ UNCHANGED <<wire, loopVars, used, sent>>

-----------------------------------------------------------------------------
(* submit(), cancel().                                                     *)

Count(which) == [session EXCEPT ![which] = @ + 1]

(* CorrelationTable::insert(): a key that is taken is not replaced. *)
insertable(key) == key \notin DOMAIN correlation

(* LinuxTransport::send(): an error, or fewer bytes than the frame has. *)
sends(fault) == fault # "send"

(***************************************************************************)
(* A probe that is out already is refused and not counted.  Afterwards     *)
(* every failure is counted: no address, route, source or link address for *)
(* the target (early), a key that is taken, no memory, a failed send.      *)
(***************************************************************************)
Submit(id, fault) ==
  /\ ClientRuns /\ is_open /\ id \notin used /\ used' = used \cup {id}
  /\ \/ /\ fault \in {"early", "memory"} \/ ~insertable(correlation_key(id)) \/ ~sends(fault)
        /\ session' = Count("failed") /\ refused' = refused + 1
        /\ UNCHANGED <<pending, correlation, sent>>
     \/ /\ fault = "none" /\ insertable(correlation_key(id))
        /\ pending' = With(pending, id, [observed |-> FALSE, failed |-> FALSE])
        /\ correlation' = With(correlation, correlation_key(id), id)
        /\ session' = Count("submitted") /\ sent' = sent \cup {id}
        /\ UNCHANGED refused
  /\ UNCHANGED <<held, wire, loopVars, opens>>

Erase(id) ==
  /\ pending' = Without(pending, id)
  /\ correlation' = Without(correlation, correlation_key(id))

CancelProbe(id) ==
  /\ ClientRuns /\ id \in DOMAIN pending
  /\ session' = Count(IF pending[id].failed THEN "failed"
                      ELSE IF pending[id].observed THEN "completed" ELSE "timed_out")
  /\ Erase(id)
  /\ UNCHANGED <<held, wire, loopVars, historyVars>>

-----------------------------------------------------------------------------
(* on_capture_event().                                                     *)

(* Readable, or in error: the event is reported as long as it is. *)
CaptureEvent ==
  /\ reading = "no" /\ "event" \in held /\ is_open
  /\ reading' = "frames" /\ frames_left' = BATCH
  /\ UNCHANGED <<transportVars, wire, calling, evidence, historyVars>>

(* The end of a batch, a transport closed by a callback, WouldBlock. *)
EventEnds ==
  /\ reading = "frames" /\ calling = None
  /\ frames_left = 0 \/ ~is_open \/ wire = <<>>
  /\ reading' = "no" /\ frames_left' = 0
  /\ UNCHANGED <<transportVars, wire, calling, evidence, historyVars>>

(* LinuxCapture::receive() *)
capture_status(frame) == IF frame.kind = "oversized" THEN "OversizedFrame" ELSE "Success"

Receive ==
  /\ reading = "frames" /\ calling = None /\ frames_left > 0 /\ is_open /\ wire # <<>>
  /\ wire' = Tail(wire)
  /\ LET frame == Head(wire)
         id == IF capture_status(frame) = "Success" THEN dispatch_observation(frame) ELSE None IN
     \/ /\ capture_status(frame) # "Success"         \* Empty, OversizedFrame
        /\ reading' = "no" /\ frames_left' = 0
        /\ UNCHANGED <<pending, calling, evidence>>
     \/ /\ capture_status(frame) = "Success" /\ id = None
        /\ frames_left' = frames_left - 1
        /\ UNCHANGED <<reading, pending, calling, evidence>>
     \/ /\ capture_status(frame) = "Success" /\ id # None
        /\ frames_left' = frames_left - 1 /\ calling' = id /\ evidence' = frame
        /\ pending' = [pending EXCEPT ![id].observed = TRUE]
        /\ UNCHANGED reading
  /\ UNCHANGED <<session, held, correlation, historyVars>>

ReceiveFails ==
  /\ reading = "frames" /\ calling = None /\ frames_left > 0 /\ is_open
  /\ reading' = "drain" /\ frames_left' = 0
  /\ UNCHANGED <<transportVars, wire, calling, evidence, historyVars>>

(* Every probe that is out fails with SocketError, in any order. *)
Drain(id) ==
  /\ reading = "drain" /\ calling = None /\ id \in DOMAIN pending
  /\ pending' = [pending EXCEPT ![id].failed = TRUE]
  /\ calling' = id /\ evidence' = NoFrame
  /\ UNCHANGED <<session, held, correlation, wire, reading, frames_left, historyVars>>

DrainEnds ==
  /\ reading = "drain" /\ calling = None /\ pending = EmptyMap
  /\ reading' = "no"
  /\ UNCHANGED <<transportVars, wire, frames_left, calling, evidence, historyVars>>

(***************************************************************************)
(* Faulty variant, for the sensitivity of the checks: the failure is       *)
(* counted whether or not the callback cancelled the probe.                *)
(***************************************************************************)
returns_counting_twice ==
  /\ calling # None
  /\ \/ /\ reading = "drain" /\ session' = Count("failed") /\ Erase(calling)
     \/ /\ reading # "drain" /\ UNCHANGED <<session, pending, correlation>>
  /\ calling' = None /\ evidence' = NoFrame
  /\ UNCHANGED <<held, wire, reading, frames_left, historyVars>>

(* After a failure, what the callback left in place is taken out here. *)
CallbackReturns ==
  /\ calling # None
  /\ \/ /\ reading = "drain" /\ calling \in DOMAIN pending
        /\ session' = Count("failed") /\ Erase(calling)
     \/ /\ reading # "drain" \/ calling \notin DOMAIN pending
        /\ UNCHANGED <<session, pending, correlation>>
  /\ calling' = None /\ evidence' = NoFrame
  /\ UNCHANGED <<held, wire, reading, frames_left, historyVars>>

-----------------------------------------------------------------------------
(* The network (external): what the interface may see of the probes sent.  *)

Layers(damage) ==
  CASE damage = "plain"    -> [tags |-> 0, exts |-> <<>>, room |-> 9, body |-> "whole"]
    [] damage = "vlan"     -> [tags |-> 1, exts |-> <<>>, room |-> 9, body |-> "whole"]
    [] damage = "qinq"     -> [tags |-> 2, exts |-> <<>>, room |-> 9, body |-> "whole"]
    [] damage = "options"  -> [tags |-> 0, exts |-> <<[kind |-> "Options", length |-> 1]>>,
                               room |-> 9, body |-> "whole"]
    [] damage = "fragment" -> [tags |-> 0, exts |-> <<[kind |-> "Fragment", length |-> 1]>>,
                               room |-> 9, body |-> "whole"]
    [] damage = "long"     -> [tags |-> 0, exts |-> <<[kind |-> "Options", length |-> MAX_BYTES + 1]>>,
                               room |-> 9 + MAX_BYTES, body |-> "whole"]
    [] damage = "damaged"  -> [tags |-> 0, exts |-> <<>>, room |-> 9, body |-> "damaged"]
    [] damage = "cut"      -> [tags |-> 0, exts |-> <<>>, room |-> 9, body |-> "cut"]

Segment(id, flags, seq, ack, origin) ==
  [kind |-> "tcp", from |-> Submission[id].target, sport |-> Submission[id].port,
   dport |-> source_port_for(id), flags |-> flags, seq |-> seq, ack |-> ack, code |-> 0,
   quote |-> <<>>, origin |-> origin]

(* The origin of a segment is the probe it answers; 0 answers none. *)
Segments(id) ==
  IF Submission[id].probe = "TcpSyn"
    THEN {Segment(id, {"SYN", "ACK"}, 0, after_sequence(id), id),
          Segment(id, {"RST", "ACK"}, 0, after_sequence(id), id),
          Segment(id, {"RST"}, 0, 0, id),
          Segment(id, {"SYN", "ACK"}, 0, sequence_of(id), None)}
    ELSE {Segment(id, {"RST"}, acknowledgment_for(id), 0, id),
          Segment(id, {"RST"}, 0, 0, None)}

Unreachables(id) ==
  {[kind |-> "icmp", from |-> "router", code |-> code, quote |-> correlation_key(id),
    flags |-> {}, origin |-> id] : code \in {3, 4}}

Joined(f, g) == [x \in DOMAIN f \cup DOMAIN g |-> IF x \in DOMAIN f THEN f[x] ELSE g[x]]
Frame(id, f, damage) ==
  Joined(f, Joined(Layers(damage), [family |-> Submission[id].family, to |-> "us"]))

(* Extension headers are only in IPv6 packets; what is damaged is a segment. *)
Frames(id) ==
  {Frame(id, f, "plain") : f \in Segments(id) \cup Unreachables(id)} \cup
  {Frame(id, f, damage) :
     f \in {g \in Segments(id) : g.origin = id /\ "RST" \in g.flags},
     damage \in {d \in Damages : Submission[id].family = "IPv6" \/ Layers(d).exts = <<>>}}

Oversized == [kind |-> "oversized"]

Arrive(frame) ==
  /\ Len(wire) < MaxWire /\ wire' = Append(wire, frame)
  /\ UNCHANGED <<transportVars, loopVars, historyVars>>

RawNext ==
  \/ \E fault \in {"none", "early", "capture", "socket", "attach"}, stuck \in BOOLEAN : Open(fault, stuck)
  \/ \E stuck \in BOOLEAN : Close(stuck)
  \/ \E id \in Ids, fault \in {"none", "early", "memory", "send"} : Submit(id, fault)
  \/ \E id \in Ids : CancelProbe(id)
  \/ CaptureEvent
  \/ EventEnds
  \/ Receive
  \/ ReceiveFails
  \/ \E id \in Ids : Drain(id)
  \/ DrainEnds
  \/ CallbackReturns
  \/ \E id \in sent : \E frame \in Frames(id) : Arrive(frame)
  \/ Arrive(Oversized)

RawSpec == RawInit /\ [][RawNext]_rawVars

-----------------------------------------------------------------------------
(***************************************************************************)
(* Whatever the callbacks do while a capture event is being handled, every *)
(* probe with a descriptor behind it is in both tables under its own key,  *)
(* a session that is closed or could not be opened holds no probe and no   *)
(* socket, and a session's counters account for each submission it took    *)
(* (submit(), cancel(), close(), on_capture_event()).                      *)
(***************************************************************************)
SessionAccounts ==
  /\ DOMAIN correlation = {correlation_key(id) : id \in DOMAIN pending}
  /\ \A id \in DOMAIN pending : correlation[correlation_key(id)] = id
  /\ session.active => held = Resources
  /\ ~session.active => pending = EmptyMap /\ "socket" \notin held
  /\ session.active => session.submitted + refused =
       session.completed + session.timed_out + session.failed + Cardinality(DOMAIN pending)

(***************************************************************************)
(* A callback is given a frame only for the probe the frame answers.  The  *)
(* one exception is a reset that acknowledges nothing: it may be late and  *)
(* meant for an earlier probe of the same ports, but never one of several  *)
(* probes that are out (dispatch_observation(), matches_tcp_reply(),       *)
(* matches_tcp_unreachable()).                                             *)
(***************************************************************************)
AnswerReachesItsProbe ==
  evidence # NoFrame =>
    /\ evidence.body = "whole" /\ evidence.tags < 2
    /\ \/ evidence.origin = calling
       \/ /\ evidence.kind = "tcp" /\ evidence.flags = {"RST"} /\ evidence.origin # None
          /\ Submission[evidence.origin].target = Submission[calling].target
          /\ Submission[evidence.origin].port = Submission[calling].port
          /\ source_port_for(evidence.origin) = source_port_for(calling)
          /\ evidence.origin \notin DOMAIN pending

=============================================================================
