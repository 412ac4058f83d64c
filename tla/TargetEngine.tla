---------------------------- MODULE TargetEngine ----------------------------
(***************************************************************************)
(* What the user asks to scan: TargetEngine (src/target/target_engine.cpp) *)
(* and the port lists (src/portscan/port_types.cpp).                       *)
(*                                                                         *)
(* A text is the list of its comma-separated tokens; a token is cut at its *)
(* first separator and each half is what core::parse_ip_address() and      *)
(* valid_hostname() make of it.  Addresses are narrow: IPv4 has V4BITS     *)
(* bits for 32, IPv6 is a pair of a high half and a low half of HALFBITS   *)
(* bits for 64.                                                            *)
(***************************************************************************)
EXTENDS Integers, Sequences, FiniteSets, FiniteSetsExt, SequencesExt

CONSTANTS
  V4BITS,         \* 32
  HALFBITS,       \* 64
  HARD_MAXIMUM,   \* TargetLimits::kMaximumTargets, kMaximumHostnameResults
  MAX_PORT        \* 65535

ASSUME TargetAssumption ==
  /\ V4BITS \in Nat \ {0} /\ HALFBITS \in Nat \ {0}
  /\ HARD_MAXIMUM \in Nat \ {0} /\ MAX_PORT \in Nat \ {0}

V4 == 2^V4BITS
HALF == 2^HALFBITS

V4Addr(n) == [family |-> 4, high |-> 0, low |-> n]
V6Addr(h, l) == [family |-> 6, high |-> h, low |-> l]

(* IpAddress::operator<: the family first, then the bytes. *)
address_less(a, b) ==
  \/ a.family < b.family
  \/ a.family = b.family /\ a.high < b.high
  \/ a.family = b.family /\ a.high = b.high /\ a.low < b.low

-----------------------------------------------------------------------------
(* A half of a token: an address, a text of digits and dots that is none   *)
(* ("digits"), one with a colon ("colon") or a zone ("zone") that is none, *)
(* a name that is valid ("name") or not ("junk"), or nothing ("empty").    *)

IsAddress(half) == half.text = "address"
looks_like_ipv4(half) == half.text = "digits" \/ (IsAddress(half) /\ half.address.family = 4)
has_colon(half) == half.text \in {"colon", "zone"} \/ (IsAddress(half) /\ half.address.family = 6)

TargetSpec(kind, first, last, prefix) == [error |-> "None", kind |-> kind, first |-> first,
                                    last |-> last, prefix |-> prefix]
Refused(error) == [error |-> error]

(* The prefix is a number, or a text that is none, as -1. *)
parse_cidr(token) ==
  LET bits == IF token.left.address.family = 4 THEN V4BITS ELSE 2 * HALFBITS
  IN IF token.separators > 1 \/ token.prefix < 0 \/ ~IsAddress(token.left) THEN Refused("InvalidCIDR")
     ELSE IF token.prefix > bits THEN Refused("InvalidCIDR")
     ELSE TargetSpec("Cidr", token.left.address, token.left.address, token.prefix)

range_candidate(token) ==
  \/ IsAddress(token.left) \/ IsAddress(token.right)
  \/ looks_like_ipv4(token.left) \/ looks_like_ipv4(token.right)
  \/ has_colon(token.left) \/ has_colon(token.right)

parse_range(token) ==
  IF \/ ~IsAddress(token.left) \/ ~IsAddress(token.right)
     \/ token.left.address.family # token.right.address.family
     \/ address_less(token.right.address, token.left.address)
    THEN Refused("InvalidRange")
    ELSE TargetSpec("Range", token.left.address, token.right.address, 0)

parse_word(half) ==
  CASE half.text = "address" -> TargetSpec("Address", half.address, half.address, 0)
    [] half.text = "digits" -> Refused("InvalidIPv4")
    [] half.text = "zone" -> Refused("InvalidScope")
    [] half.text = "colon" -> Refused("InvalidTarget")
    [] half.text = "junk" -> Refused("InvalidHostname")
    [] half.text = "empty" -> Refused("InvalidTarget")
    [] half.text = "name" -> [error |-> "None", kind |-> "Hostname", name |-> half.name]

(***************************************************************************)
(* A slash makes a CIDR.  A dash makes a range when one side looks like an *)
(* address, else the token is a name; more than one dash is refused before *)
(* that is asked.                                                          *)
(***************************************************************************)
parse_one(token) ==
  CASE token.form = "word" -> parse_word(token.left)
    [] token.form = "cidr" -> parse_cidr(token)
    [] token.form = "range" ->
         IF token.separators > 1 THEN Refused("InvalidRange")
         ELSE IF range_candidate(token) THEN parse_range(token)
         ELSE parse_word(token.whole)

(* The first token that is refused decides. *)
parse_targets(tokens) ==
  LET specs == [i \in DOMAIN tokens |-> parse_one(tokens[i])]
      bad == {i \in DOMAIN specs : specs[i].error # "None"}
  IN IF tokens = <<>> THEN [error |-> "EmptyTargetSet", specs |-> <<>>]
     ELSE IF bad # {} THEN [error |-> specs[Min(bad)].error, specs |-> <<>>]
     ELSE [error |-> "None", specs |-> specs]

-----------------------------------------------------------------------------
(* From a specification to its addresses: error, and addresses in order.   *)

Found(addresses) == [error |-> "None", addresses |-> addresses]
Fails(error) == [error |-> error, addresses |-> <<>>]

(* The first of each is kept. *)
Uniques(s) == FoldLeft(LAMBDA acc, x : IF Contains(acc, x) THEN acc ELSE Append(acc, x), <<>>, s)

(* The records that are addresses, in the order the platform gives them. *)
resolve_hostname(records, max_results) ==
  LET unique == Uniques(records) IN
  IF Len(unique) > max_results THEN Fails("ResourceExhausted")
  ELSE IF unique = <<>> THEN Fails("ResolutionFailed") ELSE Found(unique)

CountUp(count, AddressAt(_)) == Found([i \in 1..count |-> AddressAt(i - 1)])

(***************************************************************************)
(* Faulty variant, for the sensitivity of the checks: a CIDR starts at the *)
(* address that was written instead of the first one of its network.       *)
(***************************************************************************)
ipv4_from_address(spec, max_targets) ==
  LET count == IF spec.kind = "Cidr" THEN 2^(V4BITS - spec.prefix)
               ELSE spec.last.low - spec.first.low + 1
  IN IF count > max_targets THEN Fails("ResourceExhausted")
     ELSE CountUp(count, LAMBDA k : V4Addr((spec.first.low + k) % V4))

expand_ipv4(spec, max_targets) ==
  LET size == 2^(V4BITS - spec.prefix)
      count == IF spec.kind = "Cidr" THEN size ELSE spec.last.low - spec.first.low + 1
      first == IF spec.kind = "Cidr" THEN spec.first.low - (spec.first.low % size)
                                     ELSE spec.first.low
  IN IF count > max_targets THEN Fails("ResourceExhausted")
     ELSE CountUp(count, LAMBDA k : V4Addr((first + k) % V4))

mask_ipv6(a, prefix) ==
  IF prefix <= HALFBITS
    THEN V6Addr(a.high - (a.high % 2^(HALFBITS - prefix)), 0)
    ELSE V6Addr(a.high, a.low - (a.low % 2^(2 * HALFBITS - prefix)))

add_ipv6_offset(a, offset) == V6Addr(a.high, (a.low + offset) % HALF)

(* 0 stands for "too large": another high half, or all of one. *)
ipv6_range_count(first, last) ==
  IF first.high # last.high THEN 0
  ELSE LET difference == (last.low - first.low) % HALF IN
       IF difference = HALF - 1 THEN 0 ELSE difference + 1

expand_ipv6(spec, max_targets) ==
  LET first == IF spec.kind = "Cidr" THEN mask_ipv6(spec.first, spec.prefix) ELSE spec.first
      host_bits == 2 * HALFBITS - spec.prefix
      count == IF spec.kind = "Cidr" THEN IF host_bits >= HALFBITS THEN 0 ELSE 2^host_bits
               ELSE IF spec.kind = "Range" THEN ipv6_range_count(spec.first, spec.last) ELSE 1
  IN IF count = 0 \/ count > max_targets THEN Fails("ResourceExhausted")
     ELSE CountUp(count, LAMBDA k : add_ipv6_offset(first, k))

(* dns gives the records of a name. *)
expand_one(spec, limits, dns) ==
  IF spec.kind = "Hostname" THEN resolve_hostname(dns[spec.name], limits.max_hostname_results)
  ELSE IF spec.first.family = 4 THEN expand_ipv4(spec, limits.max_targets)
  ELSE expand_ipv6(spec, limits.max_targets)

(***************************************************************************)
(* append(): an address that was seen is passed over; one more than        *)
(* max_targets fails the whole expansion.                                  *)
(***************************************************************************)
append(sofar, more, max_targets) ==
  LET all == Uniques(sofar.addresses \o more.addresses) IN
  IF sofar.error # "None" THEN sofar
  ELSE IF more.error # "None" THEN more
  ELSE IF Len(all) > max_targets THEN Fails("ResourceExhausted") ELSE Found(all)

expand(specs, limits, dns) ==
  IF specs = <<>> THEN Fails("EmptyTargetSet")
  ELSE IF limits.max_targets = 0 \/ limits.max_hostname_results = 0 THEN Fails("InvalidTarget")
  ELSE IF limits.max_targets > HARD_MAXIMUM \/ limits.max_hostname_results > HARD_MAXIMUM
    THEN Fails("ResourceExhausted")
  ELSE FoldLeft(LAMBDA sofar, spec : append(sofar, expand_one(spec, limits, dns), limits.max_targets),
                Found(<<>>), specs)

sort_numeric(addresses) == SortSeq(addresses, address_less)

resolve(tokens, limits, dns) ==
  LET parsed == parse_targets(tokens)
      expanded == expand(parsed.specs, limits, dns)
  IN IF parsed.error # "None" THEN Fails(parsed.error)
     ELSE IF expanded.error # "None" THEN expanded
     ELSE Found(sort_numeric(expanded.addresses))

-----------------------------------------------------------------------------
(* The ports: a token is a number, a range of two, or a text that is none. *)

parse_port_number(n) == n \in 1..MAX_PORT

port_range(token) == [i \in 1..(token.last - token.first + 1) |-> token.first + i - 1]

parse_ports(tokens) ==
  LET Bad(t) == \/ ~parse_port_number(t.first) \/ ~parse_port_number(t.last)
                \/ t.first > t.last
      all == FoldLeft(LAMBDA acc, t : acc \o port_range(t), <<>>, tokens)
  IN IF tokens = <<>> \/ \E i \in DOMAIN tokens : Bad(tokens[i])
       THEN [status |-> "InvalidArgument", ports |-> <<>>]
       ELSE [status |-> "Ok", ports |-> Uniques(SortSeq(all, <))]

-----------------------------------------------------------------------------
(* Reference: what the tokens mean, as sets, with numbers of full width.   *)

Position(a) == a.high * HALF + a.low

Denotes(spec, dns) ==
  CASE spec.kind = "Hostname" -> {dns[spec.name][i] : i \in DOMAIN dns[spec.name]}
    [] spec.kind = "Address" -> {spec.first}
    [] spec.kind = "Range" ->
         {a \in [family : {spec.first.family}, high : 0..(HALF - 1), low : 0..(HALF - 1)] :
            Position(spec.first) <= Position(a) /\ Position(a) <= Position(spec.last)}
    [] spec.kind = "Cidr" ->
         LET width == IF spec.first.family = 4 THEN V4BITS ELSE 2 * HALFBITS
             block == 2^(width - spec.prefix)
         IN {a \in [family : {spec.first.family}, high : 0..(HALF - 1), low : 0..(HALF - 1)] :
               Position(a) \div block = Position(spec.first) \div block}

=============================================================================
