----------------------------- MODULE CommandLine -----------------------------
(***************************************************************************)
(* What a command line asks for: run_scan() and run_nmap_compatible() of   *)
(* src/main.cpp, the choice of an interface (src/net/interface.cpp), and   *)
(* the two checks that follow, ScanConfig::validate() and the one each     *)
(* scheduler makes of its timing profile.                                  *)
(*                                                                         *)
(* An option is a name and a value.  Texts that no option understands are  *)
(* one unknown name; the options that only concern the layout of the       *)
(* output, file names, databases and time-outs are left out: they are      *)
(* stored and nothing else depends on them.                                *)
(***************************************************************************)
EXTENDS TargetEngine

CONSTANTS
  TopTcpPorts,        \* kTopTcpPorts
  DefaultTcpPorts,    \* default_tcp_ports()
  DefaultUdpPorts,    \* default_udp_ports()
  Loopback            \* the addresses of 127.0.0.0/8 and ::1

ASSUME CommandAssumption ==
  \A ports \in {TopTcpPorts, DefaultTcpPorts, DefaultUdpPorts} : ports # <<>> /\ ToSet(ports) \subseteq 1..MAX_PORT

kProfiles ==
  [T0 |-> [min |-> 1, max |-> 4, initial |-> 1], T1 |-> [min |-> 1, max |-> 8, initial |-> 2],
   T2 |-> [min |-> 1, max |-> 32, initial |-> 4], T3 |-> [min |-> 1, max |-> 64, initial |-> 8],
   T4 |-> [min |-> 2, max |-> 128, initial |-> 16], T5 |-> [min |-> 4, max |-> 256, initial |-> 32]]

DefaultConfig ==
  [method |-> "TcpConnect", transport |-> "", interface |-> "none", stages |-> {"PortScan"}, udp |-> FALSE,
   ports |-> <<>>, udp_ports |-> <<>>, min |-> 1, max |-> 128, udp_max |-> 64,
   profile |-> kProfiles.T3, adaptive |-> FALSE, output_file |-> FALSE]

(* The configuration and the locals of run_scan(); an error ends the parse. *)
Nothing ==
  [config |-> DefaultConfig, error |-> FALSE, explicit_method |-> FALSE, explicit_transport |-> FALSE,
   explicit_ports |-> FALSE, explicit_udp |-> FALSE, families |-> {}, top |-> 0, nmap |-> <<>>, has_nmap |-> FALSE,
   excluded_ports |-> <<>>, excluded |-> <<>>, output_all |-> FALSE]

Error(c) == [c EXCEPT !.error = TRUE]
Transport(c, mode) == IF c.explicit_transport THEN c ELSE [c EXCEPT !.config.transport = mode]

-----------------------------------------------------------------------------
(* The loop over the options.                                              *)

select_tcp_method(c, method, default) ==
  IF c.explicit_method /\ c.config.method # method THEN Error(c)
  ELSE LET chosen == [c EXCEPT !.config.method = method, !.explicit_method = TRUE]
       IN IF default = "" THEN chosen ELSE Transport(chosen, default)

UdpOnly(c) == [c EXCEPT !.config.udp = TRUE, !.config.stages = @ \ {"PortScan"}]

scan_alias(c, o) ==
  CASE o.name = "-sT" -> select_tcp_method(c, "TcpConnect", "connect")
    [] o.name = "-sS" -> select_tcp_method(c, "TcpSyn", "linux")
    [] o.name = "-sA" -> select_tcp_method(c, "TcpAck", "linux")
    [] o.name = "-sU" -> Transport(UdpOnly(c), "linux")
    [] o.name = "-sn" -> Transport([c EXCEPT !.config.stages = (@ \ {"PortScan"}) \cup {"Discovery"}], "linux")
    [] o.name = "-Pn" -> [c EXCEPT !.config.stages = @ \ {"Discovery"}]
    [] o.name = "-sV" -> [c EXCEPT !.config.stages = @ \cup {"ServiceDetection"}]
    [] o.name = "-O" -> [c EXCEPT !.config.stages = @ \cup {"OSDetection"}]
    [] o.name \in {"-4", "-6"} -> [c EXCEPT !.families = @ \cup {IF o.name = "-4" THEN 4 ELSE 6}]

port_option(c, o) ==
  LET selection == parse_ports(o.value) IN
  CASE o.name = "--exclude-ports" -> IF o.value = <<>> THEN Error(c) ELSE [c EXCEPT !.excluded_ports = @ \o o.value]
    [] o.name = "--udp-ports" ->
         IF selection.status # "Ok" THEN Error(c)
         ELSE [UdpOnly(c) EXCEPT !.config.udp_ports = selection.ports, !.explicit_udp = TRUE]
    [] o.name = "--tcp-ports" ->
         IF selection.status # "Ok" THEN Error(c)
         ELSE [c EXCEPT !.config.ports = selection.ports, !.explicit_ports = TRUE]
    [] o.name = "-p" -> IF o.value = <<>> THEN Error(c) ELSE [c EXCEPT !.nmap = o.value, !.has_nmap = TRUE]

top_ports(c, n) == IF n \in 1..Len(TopTcpPorts) THEN [c EXCEPT !.top = n] ELSE Error(c)

method_option(c, method) ==
  CASE method = "connect" -> select_tcp_method(c, "TcpConnect", "")
    [] method = "syn" -> select_tcp_method(c, "TcpSyn", "")
    [] method = "ack" -> select_tcp_method(c, "TcpAck", "linux")
    [] OTHER -> Error(c)

(* A profile replaces the whole of an earlier one; a limit changes a field of it. *)
timing_option(c, o) ==
  CASE o.name = "--timing" -> [c EXCEPT !.config.profile = kProfiles[o.value], !.config.adaptive = TRUE]
    [] o.value = 0 -> Error(c)
    [] o.name = "--min-parallelism" ->
         [c EXCEPT !.config.min = o.value, !.config.profile.min = o.value, !.config.adaptive = TRUE]
    [] o.name = "--max-parallelism" ->
         [c EXCEPT !.config.max = o.value, !.config.profile.max = o.value, !.config.adaptive = TRUE]

outstanding_option(c, o) ==
  IF o.value = 0 THEN Error(c)
  ELSE IF o.name = "--max-outstanding" THEN [c EXCEPT !.config.max = o.value]
  ELSE [c EXCEPT !.config.udp_max = o.value]

transport_option(c, mode) ==
  IF mode \notin {"connect", "offline", "linux"} THEN Error(c)
  ELSE [c EXCEPT !.config.transport = mode, !.explicit_transport = TRUE]

output_option(c, o) ==
  IF o.value = "" THEN Error(c)
  ELSE IF o.name = "-oA" THEN [c EXCEPT !.output_all = TRUE] ELSE [c EXCEPT !.config.output_file = TRUE]

Aliases == {"-sT", "-sS", "-sA", "-sU", "-sn", "-Pn", "-sV", "-O", "-4", "-6"}

parse_option(c, o) ==
  IF c.error THEN c
  ELSE CASE o.name \in Aliases -> scan_alias(c, o)
         [] o.name \in {"--exclude-ports", "--udp-ports", "--tcp-ports", "-p"} -> port_option(c, o)
         [] o.name = "--top-ports" -> top_ports(c, o.value)
         [] o.name = "--udp" -> UdpOnly(c)
         [] o.name = "--discovery" -> [c EXCEPT !.config.stages = @ \cup {"Discovery"}]
         [] o.name = "--method" -> method_option(c, o.value)
         [] o.name \in {"--timing", "--min-parallelism", "--max-parallelism"} -> timing_option(c, o)
         [] o.name \in {"--max-outstanding", "--udp-max-outstanding"} -> outstanding_option(c, o)
         [] o.name = "--transport" -> transport_option(c, o.value)
         [] o.name = "--exclude" -> [c EXCEPT !.excluded = Append(@, o.value)]
         [] o.name = "-e" -> IF o.value = "" THEN Error(c) ELSE [c EXCEPT !.config.interface = o.value]
         [] o.name \in {"-oA", "-oX"} -> output_option(c, o)
         [] OTHER -> Error(c)

-----------------------------------------------------------------------------
(* After the loop.                                                         *)

(* -p is for the protocol of the scan, wherever it stands. *)
apply_nmap_ports(c) ==
  LET selection == parse_ports(c.nmap) IN
  IF c.error \/ ~c.has_nmap THEN c
  ELSE IF c.top # 0 \/ (c.config.udp /\ c.explicit_udp) \/ selection.status # "Ok" THEN Error(c)
  ELSE IF c.config.udp THEN [c EXCEPT !.config.udp_ports = selection.ports, !.explicit_udp = TRUE]
  ELSE [c EXCEPT !.config.ports = selection.ports, !.explicit_ports = TRUE]

apply_top_ports(c) ==
  IF c.error \/ c.top = 0 THEN c
  ELSE IF c.config.udp THEN Error(c)
  ELSE [c EXCEPT !.config.ports = SubSeq(TopTcpPorts, 1, c.top), !.explicit_ports = TRUE]

(***************************************************************************)
(* Faulty variant, for the sensitivity of the checks: what is excluded     *)
(* from an empty list is not taken from the default ports.                 *)
(***************************************************************************)
exclusion_without_defaults(c) ==
  LET excluded == parse_ports(c.excluded_ports)
      Left(ports) == SelectSeq(ports, LAMBDA p : ~Contains(excluded.ports, p))
  IN IF c.error \/ c.excluded_ports = <<>> THEN c
     ELSE IF excluded.status # "Ok" THEN Error(c)
     ELSE [c EXCEPT !.config.udp_ports = IF c.config.udp THEN Left(@) ELSE @,
                    !.config.ports = IF c.config.udp THEN @ ELSE Left(@)]

apply_excluded_ports(c) ==
  LET excluded == parse_ports(c.excluded_ports)
      Left(ports, defaults) ==
        SelectSeq(IF ports = <<>> THEN defaults ELSE ports, LAMBDA p : ~Contains(excluded.ports, p))
      left == IF c.config.udp THEN Left(c.config.udp_ports, DefaultUdpPorts)
              ELSE Left(c.config.ports, DefaultTcpPorts)
  IN IF c.error \/ c.excluded_ports = <<>> THEN c
     ELSE IF excluded.status # "Ok" \/ left = <<>> THEN Error(c)
     ELSE IF c.config.udp THEN [c EXCEPT !.config.udp_ports = left, !.explicit_udp = TRUE]
     ELSE [c EXCEPT !.config.ports = left, !.explicit_ports = TRUE]

(* Of the first limits, the greater, and of these the lesser. *)
apply_timing(c) ==
  IF c.error \/ ~c.config.adaptive THEN c
  ELSE [c EXCEPT !.config.profile.initial =
          LET raised == IF @ < c.config.profile.min THEN c.config.profile.min ELSE @
          IN IF raised > c.config.profile.max THEN c.config.profile.max ELSE raised]

Raw == {"TcpSyn", "TcpAck"}

(* Without a transport the configuration says connect. *)
transport_refused(c) ==
  LET mode == c.config.transport method == c.config.method
      detects == {"ServiceDetection", "OSDetection"} \cap c.config.stages # {}
  IN \/ c.config.udp /\ (c.explicit_method \/ mode = "")
     \/ method \in Raw /\ mode = ""
     \/ mode = "linux" /\ ~c.config.udp /\ method \notin Raw
     \/ method = "TcpAck" /\ (mode \in {"", "connect"} \/ detects)
     \/ "Discovery" \in c.config.stages /\ mode = ""

(* A family given twice is no conflict; two kinds of output file are. *)
check_options(c) ==
  IF c.error \/ c.families = {4, 6} \/ (c.output_all /\ c.config.output_file) \/ transport_refused(c) THEN Error(c)
  ELSE IF c.config.transport = "" THEN [c EXCEPT !.config.transport = "connect"] ELSE c

parse_options(options) ==
  check_options(apply_timing(apply_excluded_ports(apply_top_ports(apply_nmap_ports(
    FoldLeft(parse_option, Nothing, options))))))

-----------------------------------------------------------------------------
(* The targets, the interface and the checks of what was chosen.           *)

(* The addresses, or none at all where a specification is refused. *)
select_targets(c, tokens, limits, dns) ==
  LET resolved == resolve(tokens, limits, dns)
      excluded == [i \in DOMAIN c.excluded |-> resolve(<<c.excluded[i]>>, limits, dns)]
      Kept(a) == /\ c.families = {} \/ a.family \in c.families
                 /\ \A i \in DOMAIN excluded : ~Contains(excluded[i].addresses, a)
  IN IF resolved.error # "None" \/ \E i \in DOMAIN excluded : excluded[i].error # "None" THEN <<>>
     ELSE SelectSeq(resolved.addresses, Kept)

(* The first, by name, that is up and serves every family of the targets. *)
select_interface_for_target(interfaces, families, all_loopback) ==
  LET Serves(i, f) == /\ f \in i.sources
                      /\ f \in i.routes \/ (all_loopback /\ i.name = "lo")
      fit == SelectSeq(interfaces, LAMBDA i : i.up /\ \A f \in families : Serves(i, f))
  IN IF fit = <<>> THEN "none" ELSE fit[1].name

preflight_interface(interfaces, name, family, require_route) ==
  LET found == SelectSeq(interfaces, LAMBDA i : i.name = name) IN
  IF found = <<>> THEN "InvalidInterface"
  ELSE CASE ~found[1].up -> "InterfaceDown"
         [] family \notin found[1].sources -> "NoSourceAddress"
         [] require_route /\ family \notin found[1].routes -> "NoRoute"
         [] ~found[1].mtu -> "MtuUnavailable"
         [] ~found[1].raw -> "CaptureUnavailable"
         [] OTHER -> "Ready"

timing_valid(profile) ==
  /\ profile.min # 0 /\ profile.min <= profile.max
  /\ profile.min <= profile.initial /\ profile.initial <= profile.max

config_valid(config) ==
  /\ config.min <= config.max /\ timing_valid(config.profile)
  /\ "Discovery" \in config.stages \/ config.udp => config.transport # "connect"
  /\ config.transport # "linux" => config.interface = "none"
  /\ "PortScan" \in config.stages =>
       /\ config.transport = "linux" => config.method \in Raw
       /\ config.transport = "connect" => config.method = "TcpConnect"
  /\ config.method = "TcpAck" => {"ServiceDetection", "OSDetection"} \cap config.stages = {}

(* The profile that the stage hands to its scheduler. *)
stage_profile(config, stage) ==
  CASE stage = "UdpScan" -> [config.profile EXCEPT !.min = config.min, !.max = config.udp_max]
    [] stage = "OSDetection" -> [config.profile EXCEPT !.max = config.max]
    [] OTHER -> [config.profile EXCEPT !.min = config.min, !.max = config.max]

(* Without -e, an interface is chosen for a raw scan. *)
with_interface(c, targets, interfaces) ==
  IF c.config.transport # "linux" \/ c.config.interface # "none" THEN c
  ELSE [c EXCEPT !.config.interface =
          select_interface_for_target(interfaces, {targets[i].family : i \in DOMAIN targets},
                                      ToSet(targets) \subseteq Loopback)]

(***************************************************************************)
(* "usage" when run_scan() refuses the command, "config" when the pipeline *)
(* does, "stage" when the scheduler of a stage will refuse its profile.    *)
(***************************************************************************)
run_pipeline(c, targets) ==
  LET Result(outcome) == [outcome |-> outcome, config |-> c.config, targets |-> targets]
      timed == (c.config.stages \ {"Discovery"}) \cup (IF c.config.udp THEN {"UdpScan"} ELSE {})
  IN CASE c.error \/ targets = <<>> \/ (c.config.transport = "linux" /\ c.config.interface = "none") ->
            [outcome |-> "usage"]
       [] ~config_valid(c.config) -> Result("config")
       [] c.config.adaptive /\ \E s \in timed : ~timing_valid(stage_profile(c.config, s)) -> Result("stage")
       [] OTHER -> Result("scan")

scan_targets(c, targets, interfaces) == run_pipeline(with_interface(c, targets, interfaces), targets)

run_scan(options, tokens, limits, dns, interfaces) ==
  LET c == parse_options(options) IN scan_targets(c, select_targets(c, tokens, limits, dns), interfaces)

(* Words that are no option are targets, in any place; -p may carry its value. *)
run_nmap_compatible(words, limits, dns, interfaces) ==
  LET options == SelectSeq(words, LAMBDA w : "name" \in DOMAIN w)
      tokens == SelectSeq(words, LAMBDA w : "name" \notin DOMAIN w)
  IN IF tokens = <<>> THEN [outcome |-> "usage"]
     ELSE run_scan(options, tokens, limits, dns, interfaces)

=============================================================================
