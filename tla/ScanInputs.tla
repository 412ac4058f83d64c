----------------------------- MODULE ScanInputs -----------------------------
(***************************************************************************)
(* The computations at both ends of a scan, each over every input of a     *)
(* small set: what the user asks for (CommandLine, TargetEngine), where the *)
(* frames go (Routing), and what the answers mean (Matching).  A state is  *)
(* one input.                                                              *)
(***************************************************************************)
EXTENDS CommandLine, Matching, Routing

VARIABLE input

-----------------------------------------------------------------------------
Strictly(s, Less(_, _)) == \A i, j \in DOMAIN s : i < j => Less(s[i], s[j])

(* A specification that is refused although it may be small: see expand_ipv6(). *)
TooWide(spec) ==
  /\ spec.kind \in {"Cidr", "Range"} /\ spec.first.family = 6
  /\ \/ spec.kind = "Cidr" /\ spec.prefix <= HALFBITS
     \/ spec.kind = "Range" /\ spec.first.high # spec.last.high
     \/ spec.kind = "Range" /\ Position(spec.last) - Position(spec.first) = HALF - 1

(***************************************************************************)
(* The targets that are scanned are exactly the addresses the text         *)
(* denotes, each once and in order, and never more than the limit; a text  *)
(* that is well formed and within the limits is never refused, whatever    *)
(* the order and the overlap of its parts (TargetEngine::resolve(),        *)
(* TargetResolver::expand(): masks, wrap-around and counts).  So with the  *)
(* port lists (parse_ports()).                                             *)
(***************************************************************************)
SelectionExact ==
  /\ input.about = "targets" =>
       LET parsed == parse_targets(input.tokens)
           result == resolve(input.tokens, input.limits, input.dns)
           specs == ToSet(parsed.specs)
           asked == UNION {Denotes(s, input.dns) : s \in specs}
           names == {s.name : s \in {t \in specs : t.kind = "Hostname"}}
       IN /\ result.error = "None" =>
               /\ ToSet(result.addresses) = asked
               /\ Strictly(result.addresses, address_less)
               /\ Cardinality(asked) <= input.limits.max_targets
          /\ (/\ input.limits.max_targets \in 1..HARD_MAXIMUM
              /\ input.limits.max_hostname_results \in 1..HARD_MAXIMUM
              /\ parsed.error = "None" /\ Cardinality(asked) <= input.limits.max_targets
              /\ \A n \in names : Cardinality(ToSet(input.dns[n])) \in 1..input.limits.max_hostname_results
              /\ \A s \in specs : ~TooWide(s)) => result.error = "None"
  /\ input.about = "ports" =>
       LET result == parse_ports(input.tokens)
           asked == UNION {t.first..t.last : t \in ToSet(input.tokens)}
       IN /\ result.status = "Ok" => ToSet(result.ports) = asked /\ Strictly(result.ports, <)
          /\ result.status = "Ok" <=>
               /\ input.tokens # <<>> /\ asked \subseteq 1..MAX_PORT
               /\ \A t \in ToSet(input.tokens) : t.first <= t.last

-----------------------------------------------------------------------------
(* The options that say more about the same things: the last one counts. *)
Topics(word) ==
  CASE "name" \notin DOMAIN word -> {"targets"}
    [] word.name \in {"-sn", "-Pn", "--discovery"} -> {"discovery", "default transport"}
    [] word.name \in {"-sT", "-sU"} -> {"default transport"}
    [] word.name \in {"--timing", "--min-parallelism", "--max-parallelism", "--max-outstanding"} -> {"timing"}
    [] OTHER -> {word.name}

Swapped(s, i) == [s EXCEPT ![i] = s[i + 1], ![i + 1] = s[i]]

Values(words, name) ==
  LET given == SelectSeq(words, LAMBDA w : "name" \in DOMAIN w /\ w.name = name)
  IN [i \in DOMAIN given |-> given[i].value]

PortSet(tokens) == UNION {t.first..t.last : t \in ToSet(tokens)}

(* What the last of the options that name ports asks for. *)
AskedPorts(words, udp) ==
  LET p == Values(words, "-p") top == Values(words, "--top-ports")
      own == Values(words, IF udp THEN "--udp-ports" ELSE "--tcp-ports")
  IN CASE p # <<>> -> PortSet(Last(p))
       [] top # <<>> -> ToSet(SubSeq(TopTcpPorts, 1, Last(top)))
       [] own # <<>> -> PortSet(Last(own))
       [] OTHER -> ToSet(IF udp THEN DefaultUdpPorts ELSE DefaultTcpPorts)

Named(words, i, names) == "name" \in DOMAIN words[i] /\ words[i].name \in names

(* The addresses that the tokens denote. *)
Addresses(tokens) == UNION {Denotes(s, input.dns) : s \in ToSet(parse_targets(tokens).specs)}

AskedTargets(words) ==
  LET tokens == SelectSeq(words, LAMBDA w : "name" \notin DOMAIN w)
      wanted == {f \in {4, 6} : Values(words, IF f = 4 THEN "-6" ELSE "-4") = <<>>}
  IN {a \in Addresses(tokens) : a.family \in wanted} \ Addresses(Values(words, "--exclude"))

(* No ports in the configuration stand for the default ones. *)
PortsAsAsked(words, config) ==
  LET ports == ToSet(IF config.udp THEN config.udp_ports ELSE config.ports)
      banned == UNION {PortSet(v) : v \in ToSet(Values(words, "--exclude-ports"))}
  IN ports = AskedPorts(words, config.udp) \ banned \/ (ports = {} /\ banned = {})

TransportAsAsked(words, config) ==
  LET modes == Values(words, "--transport")
  IN /\ ("PortScan" \in config.stages /\ config.method \in Raw) \/ config.udp \/ "Discovery" \in config.stages
          => config.transport # "connect"
     /\ modes # <<>> => config.transport = Last(modes)
     /\ config.stages = {} /\ ~config.udp =>
          \E i, j \in DOMAIN words : i < j /\ Named(words, i, {"-sn"}) /\ Named(words, j, {"-Pn"})

InterfaceReaches(config, targets) ==
  \A a \in targets :
    \/ preflight_interface(input.interfaces, config.interface, a.family, TRUE)
         \in {"Ready", "MtuUnavailable", "CaptureUnavailable"}
    \/ config.interface = "lo" /\ targets \subseteq Loopback

(***************************************************************************)
(* The initial value that the command line fits, to the limits it sets     *)
(* after the last profile, lies outside the limits of a stage, which come  *)
(* from all the options in any place.                                      *)
(***************************************************************************)
ProfileMisfits(words, config) ==
  LET Latest(after, names, default) ==
        LET given == {i \in DOMAIN words : i > after /\ Named(words, i, names)}
        IN IF given = {} THEN default ELSE words[Max(given)].value
      limits == {"--min-parallelism", "--max-parallelism"}
      adaptive == \E i \in DOMAIN words : Named(words, i, limits \cup {"--timing"})
      since == Max({0} \cup {i \in DOMAIN words : Named(words, i, {"--timing"})})
      profile == kProfiles[Latest(0, {"--timing"}, "T3")]
      low == Latest(since, {"--min-parallelism"}, profile.min)
      high == Latest(since, {"--max-parallelism"}, profile.max)
      initial == Min({Max({profile.initial, low}), high})
      min == Latest(0, {"--min-parallelism"}, 1)
      max == Latest(0, {"--max-parallelism", "--max-outstanding"}, 128)
  IN /\ adaptive
     /\ \/ config.stages \cap {"PortScan", "ServiceDetection"} # {} /\ initial \notin min..max
        \/ "OSDetection" \in config.stages /\ initial \notin low..max
        \/ config.udp /\ initial \notin min..Latest(0, {"--udp-max-outstanding"}, 64)

(***************************************************************************)
(* A scan that is carried out is the one the command line asks for: its    *)
(* targets and ports are those named, without those excluded; a raw scan   *)
(* is never carried out over connect(), a transport that is named is used, *)
(* an interface chosen for the user can reach every target, nothing is     *)
(* scanned only when -Pn takes back an earlier -sn; and options about      *)
(* different things mean the same in either order.  A configuration that   *)
(* was accepted is refused by a stage exactly when the initial value of    *)
(* its profile was not fitted to the limits of that stage (run_scan(),     *)
(* ScanConfig::validate(), ScanStage, select_interface_for_target()).      *)
(***************************************************************************)
CommandHonoured ==
  input.about = "command" =>
    LET Run(words) == run_nmap_compatible(words, input.limits, input.dns, input.interfaces)
        words == input.words
    IN \A result \in {Run(words)} :
         /\ result.outcome = "scan" =>
              /\ ToSet(result.targets) = AskedTargets(words)
              /\ PortsAsAsked(words, result.config)
              /\ TransportAsAsked(words, result.config)
              /\ result.config.transport = "linux" /\ Values(words, "-e") = <<>> =>
                   InterfaceReaches(result.config, ToSet(result.targets))
         /\ result.outcome \in {"stage", "scan"} =>
              (result.outcome = "stage" <=> ProfileMisfits(words, result.config))
         /\ \A i \in 1..(Len(words) - 1) : Topics(words[i]) \cap Topics(words[i + 1]) = {} =>
              \A other \in {Run(Swapped(words, i))} :
                "scan" \in {result.outcome, other.outcome} => other = result

(***************************************************************************)
(* A frame for an IPv4 target goes to the link address of the next hop of  *)
(* a route of the interface that no other route of it refines, and only    *)
(* the lack of such a route, of its neighbour or of a source keeps it from *)
(* being sent; one for an IPv6 target goes to a neighbour that answered    *)
(* (compose_frame(), ipv4_next_hop_for(), ipv6_neighbor_mac_for()).        *)
(***************************************************************************)
FrameFindsNextHop ==
  input.about = "frame" =>
    LET frame == compose_frame(input.config, input.tables, input.target)
        to == input.target.address
        mine == {r \in ToSet(input.tables.routes) :
                   /\ r.readable /\ r.flags # 0 /\ r.device = input.config.device
                   /\ SameNetwork(to, r.destination, r.prefix)}
        finest == {r \in mine : \A q \in mine : q.prefix <= r.prefix}
        hops == {IF r.gateway = 0 THEN to ELSE r.gateway : r \in finest}
        Neighbour(table, a) == {e \in ToSet(table) : e.device = input.config.device /\ e.address = a}
        macs == IF input.target.family = "IPv4"
                  THEN {e.mac : e \in {d \in UNION {Neighbour(input.tables.arp, h) : h \in hops} : d.readable}}
                  ELSE {e.mac : e \in {d \in Neighbour(input.tables.neighbours, to) : d.state = "usable"}}
    IN (input.config.destination_mac = "none" /\ input.config.device # "lo") =>
         /\ frame.kind = "frame" => frame.mac \in macs \ {"none"} /\ frame.source = input.target.family
         /\ frame.kind = "none" => \/ macs \subseteq {"none"} \/ input.target.family \notin input.config.sources
                                   \/ input.target.link_local

-----------------------------------------------------------------------------
(* The observations without one field, as when its answer was lost. *)
Lose(observed, field) ==
  LET Drop(s) == [i \in DOMAIN s |-> [s[i] EXCEPT !.fields = [f \in DOMAIN @ \ {field} |-> @[f]]]]
  IN [observed EXCEPT !.tcp = Drop(@), !.icmp = Drop(@), !.udp = Drop(@)]

(* The least score of a category, in hundredths (docs/OS_EVIDENCE_CONFIDENCE.md). *)
Cuts == [NoMatch |-> 0, LowConfidence |-> 30, PossibleMatch |-> 60, StrongMatch |-> 85]

Reaches(m, cut) == m.configured # 0 /\ 100 * m.matched >= cut * m.configured

CategoryEarned(m) ==
  /\ m.category = "NoMatch" \/ Reaches(m, Cuts[m.category])
  /\ \A c \in DOMAIN Cuts : Cuts[c] > Cuts[m.category] => ~Reaches(m, Cuts[c])

(***************************************************************************)
(* The ranking of the operating systems is a matter of the evidence alone: *)
(* it does not depend on the order of the database, what is cut off is     *)
(* never better than what is kept, and evidence that is missing makes no   *)
(* fingerprint look better.  A candidate's category is the one its score   *)
(* reaches, the thresholds included; those with a score of 85 or more come *)
(* first, the most specific of them before broader ones                    *)
(* (OSMatcher::match(), os_match_is_better()).                             *)
(* The service that is reported is one that the response supports, and no  *)
(* other supported one is better (ServiceMatcher::match()).                *)
(***************************************************************************)
RankingSound ==
  /\ input.about = "os" =>
       LET best == os_match(input.database, input.observed, input.max_results)
           all == os_match(input.database, input.observed, Len(input.database))
       IN /\ best = os_match(Reverse(input.database), input.observed, input.max_results)
          /\ \A i \in DOMAIN best, k \in DOMAIN all :
               all[k] \notin ToSet(best) => os_match_is_better(best[i], all[k])
          /\ \A i \in DOMAIN all : CategoryEarned(all[i])
          /\ Strictly(all, LAMBDA l, r :
               Reaches(r, 85) => Reaches(l, 85) /\ l.specificity >= r.specificity)
          /\ \A field \in TcpFields \cup IcmpFields : \A i \in DOMAIN input.database :
               ~more_confident(score(input.database[i], Lose(input.observed, field)),
                               score(input.database[i], input.observed))
  /\ input.about = "service" =>
       LET found == ToSet(Identities(input.rules, input.response))
           best == service_match(input.rules, input.response)
       IN /\ best = NoMatch <=> \A c \in found : ~c.matched
          /\ best # NoMatch => best \in found
          /\ \A c \in found : ~service_match_is_better(c, best)

(***************************************************************************)
(* The probes of a port are all of its protocol, none twice, as many as    *)
(* the limit allows, those that name the port first, their fallbacks next, *)
(* and by priority and rarity within (ordered_probe_indices(), with a      *)
(* database that parse() accepted).                                        *)
(***************************************************************************)
ProbesOrdered ==
  (input.about = "probes" /\ fallbacks_valid(input.database)) =>
    LET db == input.database
        order == ordered_probe_indices(db, input.port, input.max_count)
        eligible == {i \in DOMAIN db : db[i].protocol = input.port.protocol}
        Hinted(i) == has_hint(db[i], input.port)
        Rank(i) == IF Hinted(i) THEN 0
                   ELSE IF \E h \in eligible : Hinted(h) /\ Contains(db[h].fallbacks, db[i].name) THEN 1
                   ELSE 2
    IN /\ ToSet(order) \subseteq eligible /\ IsInjective(order)
       /\ Len(order) = Min({input.max_count, Cardinality(eligible)})
       /\ Strictly(order, LAMBDA i, j :
            /\ Rank(i) <= Rank(j)
            /\ (Rank(i) = Rank(j) /\ Rank(i) # 1 /\ (\E h \in eligible : Hinted(h))) =>
                 \/ db[i].priority > db[j].priority
                 \/ db[i].priority = db[j].priority /\ db[i].rarity <= db[j].rarity)
       /\ \A i \in eligible \ ToSet(order) : \A j \in ToSet(order) : Rank(j) <= Rank(i)

=============================================================================
