------------------------------ MODULE Matching ------------------------------
(***************************************************************************)
(* What the evidence of a scan is taken to mean:                           *)
(*  - OSMatcher (src/osdetect/os_matcher.cpp) scores every fingerprint of  *)
(*    the database against the observations of a host and ranks them;      *)
(*  - ServiceProbeDatabase (src/detect/service_db.cpp) puts the probes of  *)
(*    a port in order, and ServiceMatcher (src/detect/service_matcher.cpp) *)
(*    picks one identity among the rules that a response satisfies.        *)
(*                                                                         *)
(* Weights and confidences are integers, in hundredths; a quotient is      *)
(* compared exactly, where the code divides two doubles.  Names are        *)
(* numbers, in the order of their texts.                                   *)
(***************************************************************************)
EXTENDS Integers, Sequences, FiniteSets, FiniteSetsExt, SequencesExt

-----------------------------------------------------------------------------
(* OSMatcher.                                                              *)
(*                                                                         *)
(* An observation has a status, a family and the fields that were          *)
(* observed; a signature has a field and the set of values it accepts,     *)
(* empty when its record has no value of the right kind.                   *)

TcpFields == {"Ttl", "DontFragment", "Window", "Mss", "WindowScale", "SackPermitted",
              "Timestamps", "TcpOptions", "TcpFlags", "ResponseBehavior"}
IcmpFields == {"IcmpTtl", "IcmpType", "IcmpCode"}
UdpFields == {"UdpPayloadLength", "UdpResponseBehavior"}

weight_for(field) ==
  CASE field = "TcpOptions" -> 20
    [] field = "Window" -> 15
    [] field \in {"Ttl", "Mss", "WindowScale", "SackPermitted", "Timestamps", "ResponseBehavior"} -> 10
    [] field \in {"UdpPayloadLength", "UdpResponseBehavior"} -> 8
    [] field \in {"DontFragment", "TcpFlags", "AckBehavior", "SequenceBehavior", "IcmpTtl",
                  "ResponsePresence"} -> 5
    [] field \in {"IcmpType", "IcmpCode"} -> 2

Unseen == [x \in {} |-> x]

(* first_tcp(), first_icmp(), first_udp(): probes that timed out are skipped. *)
first_received(observations) ==
  LET received == SelectSeq(observations, LAMBDA o : o.status = "ResponseReceived") IN
  IF received = <<>> THEN Unseen ELSE received[1].fields

Seen(observed, field) ==
  first_received(CASE field \in TcpFields -> observed.tcp
                   [] field \in IcmpFields -> observed.icmp
                   [] field \in UdpFields -> observed.udp)

(***************************************************************************)
(* The acknowledgment and sequence behaviours are never available.  That a *)
(* host was heard at all is told by its observations: responses_received   *)
(* grows where append_observation() appends one (os_fingerprint.cpp).      *)
(***************************************************************************)
compare(signature, observed) ==
  LET field == signature.field
      present == observed.tcp \o observed.icmp \o observed.udp # <<>>
  IN CASE field \in {"AckBehavior", "SequenceBehavior"} -> "unavailable"
       [] field = "ResponsePresence" ->
            IF signature.accepts = {} THEN "unavailable"
            ELSE IF present \in signature.accepts THEN "matched" ELSE "mismatched"
       [] OTHER ->
            IF \/ field \notin DOMAIN Seen(observed, field)
               \/ field # "ResponseBehavior" /\ signature.accepts = {} THEN "unavailable"
            ELSE IF Seen(observed, field)[field] \in signature.accepts THEN "matched"
            ELSE "mismatched"

Weight(fingerprint, observed, outcomes) ==
  FoldLeft(LAMBDA n, s : n + IF compare(s, observed) \in outcomes THEN weight_for(s.field) ELSE 0,
           0, fingerprint.signatures)

(* kNoMatchThreshold, kLowConfidenceThreshold, kPossibleMatchThreshold. *)
category(matched, configured) ==
  IF configured = 0 \/ 100 * matched < 30 * configured THEN "NoMatch"
  ELSE IF 100 * matched < 60 * configured THEN "LowConfidence"
  ELSE IF 100 * matched < 85 * configured THEN "PossibleMatch" ELSE "StrongMatch"

(***************************************************************************)
(* Faulty variant, for the sensitivity of the checks: only the evidence    *)
(* that is available is in the denominator.                                *)
(***************************************************************************)
score_available(fingerprint, observed) ==
  LET matched == Weight(fingerprint, observed, {"matched"})
      configured == Weight(fingerprint, observed, {"matched", "mismatched"})
  IN [id |-> fingerprint.id, name |-> fingerprint.name, specificity |-> fingerprint.specificity,
      matched |-> matched, configured |-> configured, category |-> category(matched, configured)]

score(fingerprint, observed) ==
  LET matched == Weight(fingerprint, observed, {"matched"})
      configured == Weight(fingerprint, observed, {"matched", "mismatched", "unavailable"})
  IN [id |-> fingerprint.id, name |-> fingerprint.name, specificity |-> fingerprint.specificity,
      matched |-> matched, configured |-> configured, category |-> category(matched, configured)]

(* confidence = matched / configured, 0 when nothing is configured. *)
more_confident(l, r) ==
  l.configured # 0 /\ l.matched * (IF r.configured = 0 THEN 1 ELSE r.configured) >
                      (IF r.configured = 0 THEN 0 ELSE r.matched) * l.configured

os_match_is_better(l, r) ==
  LET strong(m) == m.category = "StrongMatch" IN
  IF strong(l) # strong(r) THEN strong(l)
  ELSE IF strong(l) /\ l.specificity # r.specificity THEN l.specificity > r.specificity
  ELSE IF more_confident(l, r) \/ more_confident(r, l) THEN more_confident(l, r)
  ELSE IF l.specificity # r.specificity THEN l.specificity > r.specificity
  ELSE IF l.name # r.name THEN l.name < r.name
  ELSE l.id < r.id

(* Evidence of another family than the host's answers nothing. *)
os_match(database, observed, max_results) ==
  LET compatible == \A s \in {observed.tcp, observed.icmp, observed.udp} : \A i \in DOMAIN s :
                       s[i].family \in {"Unknown", observed.family}
      relevant == SelectSeq(database, LAMBDA f : f.family = observed.family)
      ranked == SortSeq([i \in DOMAIN relevant |-> score(relevant[i], observed)], os_match_is_better)
  IN IF observed.family = "Unknown" \/ ~compatible THEN <<>>
     ELSE SubSeq(ranked, 1, Min({max_results, Len(ranked)}))

-----------------------------------------------------------------------------
(* ServiceProbeDatabase: the probes have a name, a protocol, port hints, a *)
(* priority, a rarity and the names of fallback probes.                    *)

Probe(database, name) == SelectInSeq(database, LAMBDA p : p.name = name)

(***************************************************************************)
(* Faulty variant, for the sensitivity of the checks: a fallback may be a  *)
(* probe of the other protocol.                                            *)
(***************************************************************************)
fallbacks_exist(database) ==
  \A i \in DOMAIN database : \A k \in DOMAIN database[i].fallbacks :
    database[i].fallbacks[k] # database[i].name /\ Probe(database, database[i].fallbacks[k]) # 0

(* The check at the end of parse(). *)
fallbacks_valid(database) ==
  \A i \in DOMAIN database :
    LET names == database[i].fallbacks IN
    /\ IsInjective(names)
    /\ \A k \in DOMAIN names :
         /\ names[k] # database[i].name /\ Probe(database, names[k]) # 0
         /\ database[Probe(database, names[k])].protocol = database[i].protocol

has_hint(probe, port) == port.number \in probe.hints

probe_before(database, port, hinted, l, r) ==
  LET lp == database[l] rp == database[r] IN
  IF has_hint(lp, port) # has_hint(rp, port) THEN has_hint(lp, port)
  ELSE IF ~hinted /\ (lp.hints = {}) # (rp.hints = {}) THEN lp.hints = {}
  ELSE IF lp.priority # rp.priority THEN lp.priority > rp.priority
  ELSE IF lp.rarity # rp.rarity THEN lp.rarity < rp.rarity
  ELSE IF lp.name # rp.name THEN lp.name < rp.name
  ELSE l < r

(* Hinted probes, then the fallbacks of those, then the others. *)
ordered_probe_indices(database, port, max_count) ==
  LET eligible == SelectSeq([i \in DOMAIN database |-> i], LAMBDA i : database[i].protocol = port.protocol)
      hinted == \E k \in DOMAIN eligible : has_hint(database[eligible[k]], port)
      indices == SortSeq(eligible, LAMBDA l, r : probe_before(database, port, hinted, l, r))
      first == SelectSeq(indices, LAMBDA i : has_hint(database[i], port))
      Fallbacks(i) == [k \in DOMAIN database[i].fallbacks |-> Probe(database, database[i].fallbacks[k])]
      second == FoldLeft(LAMBDA acc, i : acc \o Fallbacks(i), <<>>, first)
      Once(s) == FoldLeft(LAMBDA acc, x : IF Contains(acc, x) THEN acc ELSE Append(acc, x), <<>>, s)
      all == Once(first \o second \o indices)
  IN SubSeq(all, 1, Min({max_count, Len(all)}))

-----------------------------------------------------------------------------
(* ServiceMatcher: a rule has a service, a type, a strength, a confidence  *)
(* and a specificity; whether its pattern occurs in a response is the      *)
(* rule's field hits.                                                      *)

NoMatch == [matched |-> FALSE]
Soft == 0
Hard == 1

rule_priority(rule) ==
  CASE rule.type = "Exact" -> 4
    [] rule.type \in {"Prefix", "Suffix"} -> 3
    [] rule.type = "Substring" -> 2
    [] rule.type = "Regex" -> IF rule.anchored THEN 4 ELSE 1

(* kMinimumPublishedSoftMatchConfidence *)
service_match_is_publishable(m) == m.matched /\ (m.strength = Hard \/ m.confidence >= 60)

service_match_is_better(c, b) ==
  IF ~c.matched THEN FALSE
  ELSE IF ~b.matched THEN TRUE
  ELSE IF c.strength # b.strength THEN c.strength > b.strength
  ELSE IF service_match_is_publishable(c) # service_match_is_publishable(b)
    THEN service_match_is_publishable(c)
  ELSE IF c.priority # b.priority THEN c.priority > b.priority
  ELSE IF c.confidence # b.confidence THEN c.confidence > b.confidence
  ELSE IF c.specificity # b.specificity THEN c.specificity > b.specificity
  ELSE c.body = "complete" /\ b.body = "partial"

(* evidence->body_complete, when there is evidence. *)
body(response) ==
  CASE response.http = "no" -> "none" [] response.http = "Complete" -> "complete" [] OTHER -> "partial"

(* An identity from a complete HTTP head; the Server header names a product. *)
http_identity(response) ==
  [matched |-> TRUE, service |-> "http", strength |-> Soft,
   confidence |-> IF response.server THEN 90 ELSE 72,
   priority |-> IF response.server THEN 4 ELSE 3, specificity |-> 0, body |-> body(response)]

structured_identity(rule) ==
  [matched |-> TRUE, service |-> rule.service, strength |-> Hard, confidence |-> 97, priority |-> 6,
   specificity |-> 0, body |-> "complete"]

(* A rule of a response whose HTTP body is not complete is only soft. *)
rule_identity(rule, response) ==
  [matched |-> TRUE, service |-> rule.service,
   strength |-> IF response.http \notin {"no", "Complete"} THEN Soft ELSE rule.strength,
   confidence |-> rule.confidence, priority |-> rule_priority(rule), specificity |-> rule.specificity,
   body |-> body(response)]

(***************************************************************************)
(* The response is HTTP ("no", or the state of its parser), names a search *)
(* engine in its JSON root, is a status text of ZooKeeper, is a CONNACK.   *)
(***************************************************************************)
candidate(rule, response) ==
  CASE rule.service = "http" -> IF response.http = "no" THEN NoMatch ELSE http_identity(response)
    [] rule.service \in {"elasticsearch", "opensearch"} ->
         IF response.search = rule.service THEN structured_identity(rule) ELSE NoMatch
    [] rule.service = "zookeeper" ->
         IF response.zookeeper = "srvr" THEN structured_identity(rule)
         ELSE IF response.zookeeper = "imok" /\ rule.hits THEN rule_identity(rule, response) ELSE NoMatch
    [] rule.service = "mqtt" ->
         IF rule.hits /\ response.connack THEN rule_identity(rule, response) ELSE NoMatch
    [] OTHER -> IF rule.hits THEN rule_identity(rule, response) ELSE NoMatch

Identities(rules, response) ==
  IF response.http \in {"Incomplete", "Malformed"} THEN <<>>
  ELSE [i \in DOMAIN rules |-> candidate(rules[i], response)]

service_match(rules, response) ==
  FoldLeft(LAMBDA best, c : IF service_match_is_better(c, best) THEN c ELSE best, NoMatch,
           Identities(rules, response))

=============================================================================
