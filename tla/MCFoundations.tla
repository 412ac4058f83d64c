---------------------------- MODULE MCFoundations ----------------------------
(***************************************************************************)
(* Two independent parts of the scanner in one run: the raw transport of   *)
(* the port scan, started closed; and the computations of ScanInputs, one  *)
(* initial state for each input.                                           *)
(***************************************************************************)
EXTENDS RawScanTransport, ScanInputs

TransportPart == [about |-> "transport"]

(* Probes 1 and 3 have the same target, port and source port. *)
Probes == <<[probe |-> "TcpSyn", family |-> "IPv4", target |-> "h4", port |-> 80],
            [probe |-> "TcpAck", family |-> "IPv6", target |-> "h6", port |-> 80],
            [probe |-> "TcpSyn", family |-> "IPv4", target |-> "h4", port |-> 80]>>

TopPorts == <<1, 3>>
TcpPorts == <<2, 3>>
UdpPorts == <<2>>
LoopbackAddresses == {V4Addr(7)}

-----------------------------------------------------------------------------
Upto2(S) == {<<x>> : x \in S} \cup {<<x, y>> : x \in S, y \in S}
Address(a) == [text |-> "address", address |-> a]
Name(n) == [text |-> "name", name |-> n]
Dns == ("one" :> <<V4Addr(2)>>) @@ ("many" :> <<V6Addr(1, 1), V4Addr(2), V4Addr(2), V4Addr(5)>>)
       @@ ("none" :> <<>>) @@ ("a-b" :> <<V4Addr(0)>>)

Words == {[form |-> "word", left |-> l] :
            l \in {Address(V4Addr(5)), Address(V6Addr(1, 1)), Name("one"), Name("many"), Name("none"),
                   [text |-> "zone"]}}
Cidrs == {[form |-> "cidr", left |-> l, prefix |-> p, separators |-> 1] :
            l \in {Address(V4Addr(5)), Address(V6Addr(1, 6))}, p \in {-1} \cup 1..5}
(* Every prefix of either family, 0 and the full width included, and one more. *)
AllCidrs == {[form |-> "cidr", left |-> l, prefix |-> p, separators |-> 1] :
               l \in {Address(V4Addr(0)), Address(V4Addr(5)), Address(V6Addr(1, 6)), Address(V6Addr(7, 7))}, p \in 0..7}
Ends == {Address(V4Addr(1)), Address(V4Addr(2)), Address(V6Addr(0, 0)), Address(V6Addr(0, 7)),
         Address(V6Addr(1, 0)), Name("a")}
Ranges == {[form |-> "range", left |-> l, right |-> r, whole |-> Name("a-b"), separators |-> 1] :
             l \in Ends, r \in Ends}
Dashed == {[form |-> "range", left |-> Name("a"), right |-> Name("b-c"), whole |-> Name("a-b-c"), separators |-> 2]}
(* Every pair of bounds, those of different families included. *)
AllAddresses == {Address(a) : a \in {V4Addr(n) : n \in 0..7} \cup {V6Addr(h, l) : h \in 0..7, l \in 0..7}}
AllRanges == {[form |-> "range", left |-> l, right |-> r, whole |-> Name("a-b"), separators |-> 1] :
                l \in AllAddresses, r \in AllAddresses}
TargetInput ==
  \/ \E tokens \in Upto2(Words \cup Cidrs \cup Ranges \cup Dashed),
        limits \in [max_targets : {2, 4}, max_hostname_results : {2, 3}] :
       input = [about |-> "targets", tokens |-> tokens, dns |-> Dns, limits |-> limits]
  \/ \E token \in Words \cup Cidrs \cup Ranges,
        limits \in [max_targets : {0, 1, 8, 9}, max_hostname_results : {0, 8, 9}] :
       input = [about |-> "targets", tokens |-> <<token>>, dns |-> Dns, limits |-> limits]
  \/ \E token \in AllCidrs \cup AllRanges, max_targets \in {1, 4, 8} :
       input = [about |-> "targets", tokens |-> <<token>>, dns |-> Dns,
                limits |-> [max_targets |-> max_targets, max_hostname_results |-> 8]]

PortInput ==
  \E tokens \in {<<>>} \cup Upto2([first : 0..5, last : 0..5]) :
    input = [about |-> "ports", tokens |-> tokens]

-----------------------------------------------------------------------------
Flags == {[name |-> n, value |-> ""] :
            n \in {"-sT", "-sS", "-sA", "-sU", "-sn", "-Pn", "-sV", "-O", "-4", "-6", "--udp", "--discovery", "?"}}
Settings ==
  [name : {"-p", "--exclude-ports", "--tcp-ports", "--udp-ports"},
   value : {<<[first |-> 1, last |-> 2]>>, <<[first |-> 2, last |-> 2]>>}] \cup
  [name : {"--top-ports"}, value : {1, 9}] \cup [name : {"--method"}, value : {"syn", "ack", "connect", "?"}] \cup
  [name : {"--transport"}, value : {"offline", "linux", "connect", "?"}] \cup
  [name : {"--timing"}, value : {"T4"}] \cup [name : {"--max-parallelism", "--max-outstanding"}, value : {4, 0}] \cup
  [name : {"--min-parallelism"}, value : {100}] \cup [name : {"--udp-max-outstanding"}, value : {8}] \cup
  [name : {"-oA", "-oX"}, value : {"f"}] \cup [name : {"-e"}, value : {"lo", ""}] \cup
  [name : {"--exclude"}, value : {[form |-> "word", left |-> Address(V4Addr(5))]}]
Link(name, up, sources, routes, mtu) ==
  [name |-> name, up |-> up, sources |-> sources, routes |-> routes, mtu |-> mtu, raw |-> TRUE]
Links == <<Link("dmz", FALSE, {4, 6}, {4, 6}, TRUE), Link("eth", TRUE, {4, 6}, {4}, TRUE),
           Link("lo", TRUE, {4, 6}, {}, TRUE), Link("wlan", TRUE, {4, 6}, {4, 6}, FALSE)>>
Cidr == [form |-> "cidr", left |-> Address(V4Addr(5)), prefix |-> 2, separators |-> 1]
Word(a) == [form |-> "word", left |-> Address(a)]
Command(words) ==
  input = [about |-> "command", words |-> words, limits |-> [max_targets |-> 4, max_hostname_results |-> 2],
           dns |-> Dns, interfaces |-> Links]
CommandInput ==
  \/ \E flag \in {<<>>} \cup {<<x>> : x \in Flags}, options \in {<<>>} \cup Upto2(Flags \cup Settings) :
       Command(<<Cidr>> \o flag \o options)
  \/ \E targets \in {<<>>, <<Word(V4Addr(7))>>, <<Word(V6Addr(1, 1)), Cidr>>,
                      <<[form |-> "word", left |-> Name("none")]>>},
        options \in Upto2(Flags \cup
                          {o \in Settings : o.name \in {"--transport", "-e", "--exclude", "--method"}}) :
       Command(targets \o options)

-----------------------------------------------------------------------------
Route(device, destination, prefix, gateway) ==
  [readable |-> TRUE, device |-> device, flags |-> 1, destination |-> destination, prefix |-> prefix,
   gateway |-> gateway]
Routes == {Route("eth", 0, 0, 1), Route("eth", 4, 1, 0), Route("eth", 6, 2, 2), Route("eth", 6, 3, 5),
           Route("wlan", 6, 3, 4)}
Entry(device, address, mac) == [readable |-> TRUE, device |-> device, address |-> address, mac |-> mac]
Arp == <<Entry("wlan", 1, "bad"), Entry("eth", 1, "gw"), Entry("eth", 2, "gw2"), Entry("eth", 6, "host")>>
Neighbours(state) == <<[device |-> "eth", address |-> 6, state |-> "failed", mac |-> "old"],
                       [device |-> "eth", address |-> 6, state |-> state, mac |-> "host6"]>>
FrameInput ==
  \E m \in {"none", "fixed"}, sources \in {{"IPv4"}, {"IPv4", "IPv6"}},
     routes \in {<<>>} \cup {<<r, q, t>> : r \in Routes, q \in Routes, t \in Routes},
     state \in {"usable", "failed"}, family \in Families, a \in {2, 6, 7} :
    input = [about |-> "frame", config |-> [device |-> "eth", destination_mac |-> m, sources |-> sources],
             tables |-> [routes |-> routes, arp |-> Arp, neighbours |-> Neighbours(state)],
             target |-> [family |-> family, address |-> a, link_local |-> FALSE, zone |-> "eth"]]

-----------------------------------------------------------------------------
Signatures == {<<>>, <<[field |-> "Ttl", accepts |-> {64}]>>,
               <<[field |-> "Ttl", accepts |-> {64}], [field |-> "TcpOptions", accepts |-> {"mss"}],
                 [field |-> "AckBehavior", accepts |-> {1}]>>,
               <<[field |-> "TcpOptions", accepts |-> {"sack"}], [field |-> "IcmpTtl", accepts |-> {64}],
                 [field |-> "ResponsePresence", accepts |-> {TRUE}]>>}
Prints(id) == [id : {id}, name : {1, 2}, specificity : {1, 2}, family : {"IPv4"}, signatures : Signatures]
Seens(families) ==
  {<<>>} \cup {<<[status |-> s, family |-> f, fields |-> v]>> :
     s \in {"ResponseReceived", "Timeout"}, f \in families,
     v \in {"Ttl" :> 64, ("Ttl" :> 64) @@ ("TcpOptions" :> "mss"), ("Ttl" :> 128) @@ ("TcpOptions" :> "sack")}}
(* Fields whose weights make 100: their subsets reach every threshold exactly. *)
AllWeights == <<"TcpOptions", "Window", "Ttl", "Mss", "WindowScale", "SackPermitted", "Timestamps",
                "ResponseBehavior", "DontFragment">>
Specific == [id |-> 1, name |-> 1, specificity |-> 2, family |-> "IPv4",
             signatures |-> [i \in DOMAIN AllWeights |-> [field |-> AllWeights[i], accepts |-> {1}]]]
Broad == [id |-> 2, name |-> 2, specificity |-> 1, family |-> "IPv4",
          signatures |-> <<[field |-> "ResponsePresence", accepts |-> {TRUE}]>>]
OsInput ==
  \/ \E fit \in SUBSET ToSet(AllWeights), others \in {{}, ToSet(AllWeights)} :
       input = [about |-> "os", max_results |-> 1, database |-> <<Specific, Broad>>,
                observed |-> [family |-> "IPv4", udp |-> <<>>, icmp |-> <<>>,
                              tcp |-> <<[status |-> "ResponseReceived", family |-> "IPv4",
                                         fields |-> [f \in fit \cup others |-> IF f \in fit THEN 1 ELSE 2]]>>]]
  \/ \E f \in Prints(1), g \in Prints(2), tcp \in Seens({"IPv4", "IPv6"}), ttl \in {64, 128} :
       input = [about |-> "os", max_results |-> 1, database |-> <<f, g>>,
                observed |-> [family |-> "IPv4", tcp |-> tcp, udp |-> <<>>,
                              icmp |-> <<[status |-> "ResponseReceived", family |-> "IPv4",
                                          fields |-> "IcmpTtl" :> ttl]>>]]

-----------------------------------------------------------------------------
(* Probe 1 may name the port and a fallback; 2 and 3 may be of either protocol. *)
ProbeInput ==
  \E n \in 0..3, h1 \in {{}, {80}}, h2 \in {{}, {80}, {443}}, h3 \in {{}, {443}}, p1 \in {0, 1},
     r2 \in {1, 3}, pr2 \in {"tcp", "udp"}, pr3 \in {"tcp", "udp"}, fb \in {<<>>, <<3>>, <<3, 2>>, <<1>>, <<4>>} :
    input =
      [about |-> "probes", port |-> [number |-> 80, protocol |-> "tcp"], max_count |-> n,
       database |-> <<[name |-> 1, protocol |-> "tcp", hints |-> h1, priority |-> p1, rarity |-> 2, fallbacks |-> fb],
                      [name |-> 2, protocol |-> pr2, hints |-> h2, priority |-> 1, rarity |-> r2, fallbacks |-> <<>>],
                      [name |-> 3, protocol |-> pr3, hints |-> h3, priority |-> 1, rarity |-> 2, fallbacks |-> <<>>]>>]

Rules == {[service |-> s, type |-> t, anchored |-> FALSE, strength |-> g, confidence |-> c,
           specificity |-> 0, hits |-> TRUE] :
            s \in {"http", "ftp", "opensearch"}, t \in {"Prefix", "Substring"}, g \in {Soft, Hard},
            c \in {50, 80}}
Responses == [http : {"no", "Incomplete", "Headers", "Complete"}, server : BOOLEAN,
              search : {"none", "opensearch"}, zookeeper : {"no"}, connack : {FALSE}]
ServiceInput ==
  \E r \in Rules, s \in Rules, t \in {x \in Rules : x.strength = Hard},
     p \in {q \in Responses : q.search # "none" => q.http = "Complete"} :
    input = [about |-> "service", rules |-> <<r, s, t>>, response |-> p]

-----------------------------------------------------------------------------
Init ==
  /\ RawInit
  /\ \/ input = TransportPart
     \/ CommandInput \/ TargetInput \/ PortInput \/ FrameInput \/ OsInput \/ ProbeInput \/ ServiceInput

Next ==
  \/ input = TransportPart /\ RawNext /\ UNCHANGED input
  \/ input # TransportPart /\ UNCHANGED <<rawVars, input>>

Spec == Init /\ [][Next]_<<rawVars, input>>

=============================================================================
