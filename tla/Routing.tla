------------------------------- MODULE Routing -------------------------------
(***************************************************************************)
(* Where a raw frame goes: the helpers of LinuxNetworkScanTransport        *)
(* (src/net/network_scan_transport.cpp) that read the route and neighbour  *)
(* tables of the system and compose a frame.                               *)
(*                                                                         *)
(* A table is the sequence of its lines.  An IPv4 address is a number, and *)
(* a mask is the number of its bits that are set, at the front.            *)
(***************************************************************************)
EXTENDS Integers, Sequences, SequencesExt

CONSTANT ADDRESS_BITS   \* 32

ASSUME RoutingAssumption == ADDRESS_BITS \in Nat \ {0}

NoAddress == -1

SameNetwork(a, b, prefix) == LET block == 2^(ADDRESS_BITS - prefix) IN a \div block = b \div block

(***************************************************************************)
(* Faulty variant, for the sensitivity of the checks: the first route that *)
(* covers the target is taken.                                             *)
(***************************************************************************)
first_route_for(routes, device, target) ==
  FoldLeft(LAMBDA best, r :
             IF /\ r.readable /\ r.device = device /\ r.flags # 0
                /\ SameNetwork(target, r.destination, r.prefix)
                /\ best.hop = NoAddress
               THEN [hop |-> IF r.gateway = 0 THEN target ELSE r.gateway, prefix |-> r.prefix]
               ELSE best,
           [hop |-> NoAddress, prefix |-> 0], routes).hop

(* The longest prefix; the first of several. A gateway 0 is on the link. *)
ipv4_next_hop_for(routes, device, target) ==
  FoldLeft(LAMBDA best, r :
             IF /\ r.readable /\ r.device = device /\ r.flags # 0
                /\ SameNetwork(target, r.destination, r.prefix)
                /\ best.hop = NoAddress \/ r.prefix > best.prefix
               THEN [hop |-> IF r.gateway = 0 THEN target ELSE r.gateway, prefix |-> r.prefix]
               ELSE best,
           [hop |-> NoAddress, prefix |-> 0], routes).hop

(* "none" where parse_mac() fails. *)
neighbor_mac_for(arp, device, address) ==
  LET lines == SelectSeq(arp, LAMBDA e : e.readable /\ e.device = device /\ e.address = address) IN
  IF lines = <<>> THEN "none" ELSE lines[1].mac

(* Entries that are incomplete or failed, or lack an address, are passed over. *)
ipv6_neighbor_mac_for(neighbours, device, address) ==
  LET entries == SelectSeq(neighbours, LAMBDA e : /\ e.device = device /\ e.state = "usable"
                                                  /\ e.address = address /\ e.mac # "none") IN
  IF entries = <<>> THEN "none" ELSE entries[1].mac

destination_mac(config, tables, target) ==
  IF config.destination_mac # "none" THEN config.destination_mac
  ELSE IF config.device = "lo" THEN "zero"
  ELSE IF target.family = "IPv6" THEN ipv6_neighbor_mac_for(tables.neighbours, config.device, target.address)
  ELSE LET hop == ipv4_next_hop_for(tables.routes, config.device, target.address) IN
       IF hop = NoAddress THEN "none" ELSE neighbor_mac_for(tables.arp, config.device, hop)

(* A link-local target must be in the zone of the interface. *)
source_address_for(config, target) ==
  IF \/ target.family \notin config.sources
     \/ target.family = "IPv6" /\ target.link_local /\ target.zone # config.device
    THEN "none" ELSE target.family

compose_frame(config, tables, target) ==
  LET source == source_address_for(config, target)
      mac == destination_mac(config, tables, target)
  IN IF source = "none" \/ mac = "none" THEN [kind |-> "none"]
     ELSE [kind |-> "frame", mac |-> mac, source |-> source]

=============================================================================
