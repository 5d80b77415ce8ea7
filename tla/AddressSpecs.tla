---------------------------- MODULE AddressSpecs ----------------------------
(***************************************************************************)
(* Which addresses a text or the machine's own interfaces stand for        *)
(* (internal/network/address_specs.go, and in scan.go hosts, ParsePorts    *)
(* and LocalIPv4CIDRs).  An IPv4 address is a number of Width bits whose   *)
(* last OctetBits bits are its last octet; text is left out.  An item of   *)
(* the Config form is one of                                               *)
(*   [kind |-> "one", addr]          192.168.0.10                          *)
(*   [kind |-> "octet", from, last]  192.168.0.12-14                       *)
(*   [kind |-> "range", from, to]    192.168.0.250-192.168.1.1             *)
(*   [kind |-> "cidr", addr, ones]   192.168.0.16/30                       *)
(*   [kind |-> "bad"]                what the parsers refuse, also IPv6    *)
(***************************************************************************)
EXTENDS FiniteSets, Integers, Sequences, SequencesExt

CONSTANTS
  Width,           \* bits of an address (32)
  OctetBits,       \* bits of its last octet (8)
  MinOnes,         \* the shortest prefix of a local network (24)
  DefaultMaxHosts, \* the limit when none is given (1024)
  Private          \* the private addresses

ASSUME AddressAssumption ==
  /\ Width \in Nat \ {0}
  /\ OctetBits \in 1 .. Width
  /\ MinOnes \in 0 .. Width
  /\ DefaultMaxHosts \in Nat \ {0}

(* Powers of two. *)
Pow2[n \in 0 .. Width] == IF n = 0 THEN 1 ELSE 2 * Pow2[n - 1]

Address == 0 .. Pow2[Width] - 1

(* What net.ParseCIDR makes of a text, or an interface has. *)
Prefix == [addr : Address, ones : 0 .. Width]

Item == [kind : {"bad"}] \cup [kind : {"one"}, addr : Address]
          \cup [kind : {"octet"}, from : Address, last : Int]
          \cup [kind : {"range"}, from : Address, to : Address]
          \cup [kind : {"cidr"}, addr : Address, ones : 0 .. Width]

InOrder(S) == [k \in 1 .. Cardinality(S) |-> CHOOSE n \in S : Cardinality({m \in S : m < n}) = k - 1]

---------------------------------------------------------------------------
(* Prefixes.                                                               *)

BlockSize(p) == Pow2[Width - p.ones]

Masked(p) == p.addr - (p.addr % BlockSize(p))

AfterBase(p) == [k \in 1 .. BlockSize(p) - 1 |-> Masked(p) + k]

(* The first address is left out, and the last one if there is another. *)
Hosts(p) == IF Len(AfterBase(p)) > 1 THEN Front(AfterBase(p)) ELSE AfterBase(p)

---------------------------------------------------------------------------
(* ParseAddressSpecs: either all items are good, or the whole is refused.  *)

Refusal == [ok |-> FALSE, addresses |-> <<>>]

Expansion(addresses) == [ok |-> TRUE, addresses |-> addresses]

RangeCount(from, to) == to - from + 1

(* The loop of expandRangeSpec counts with a uint32. *)
ValueAt(from, k) == (from + k) % Pow2[Width]

(* Mutant of BreaksAt: the loop has only its condition. *)
NeverBreaks(value, to) == FALSE

(* if value == end { break } *)
BreaksAt(value, to) == value = to

(* How often the loop goes round: once it is back where it began it never   *)
(* ends.                                                                    *)
Rounds(from, to) ==
  Min({Pow2[Width]} \cup {k \in 1 .. Pow2[Width] : \/ BreaksAt(ValueAt(from, k - 1), to)
                                           \/ ValueAt(from, k) > to})

ExpandRange(from, to, maxHosts) ==
  IF to < from \/ RangeCount(from, to) > maxHosts
  THEN Refusal
  ELSE Expansion([k \in 1 .. Rounds(from, to) |-> ValueAt(from, k - 1)])

(* The first three octets of the start, and the last one as given. *)
OctetEnd(item) == item.from - (item.from % Pow2[OctetBits]) + item.last

ExpandItem(item, maxHosts) ==
  CASE item.kind = "bad"   -> Refusal
    [] item.kind = "one"   -> Expansion(<<item.addr>>)
    [] item.kind = "range" -> ExpandRange(item.from, item.to, maxHosts)
    [] item.kind = "octet" -> IF item.last \in 0 .. Pow2[OctetBits] - 1
                              THEN ExpandRange(item.from, OctetEnd(item), maxHosts)
                              ELSE Refusal
    [] item.kind = "cidr"  -> IF Len(Hosts(item)) > maxHosts
                              THEN Refusal ELSE Expansion(Hosts(item))

ParseAddressSpecs(items, limit) ==
  LET maxHosts == IF limit <= 0 THEN DefaultMaxHosts ELSE limit
      parts    == [k \in DOMAIN items |-> ExpandItem(items[k], maxHosts)]
  IN  IF \E k \in DOMAIN parts : ~parts[k].ok
      THEN Refusal
      ELSE Expansion(InOrder(UNION {ToSet(parts[k].addresses) : k \in DOMAIN parts}))

---------------------------------------------------------------------------
(* What a scan may be given: ports as text, 0 for a number out of range or *)
(* no number at all, and the interfaces [up, loopback, prefixes].          *)

PortsRefused(parts) == \E k \in DOMAIN parts : parts[k] = 0

ParsePorts(parts) == InOrder(ToSet(parts))

(* Mutant of LocalIPv4CIDRs: the addresses are not masked before they are  *)
(* compared.                                                               *)
LocalIPv4CIDRsUnmasked(interfaces) ==
  {p \in UNION {i.prefixes : i \in {j \in interfaces : j.up /\ ~j.loopback}} :
     p.addr \in Private /\ p.ones \in MinOnes .. Width - 1}

(* The networks of the private addresses of this machine, each one once;   *)
(* their order (by text) is left to the caller.                            *)
LocalIPv4CIDRs(interfaces) ==
  {[addr |-> Masked(p), ones |-> p.ones] : p \in
    {q \in UNION {i.prefixes : i \in {j \in interfaces : j.up /\ ~j.loopback}} :
       q.addr \in Private /\ q.ones \in MinOnes .. Width - 1}}

---------------------------------------------------------------------------
(* For the properties: the addresses of a prefix that can be a host's, and *)
(* those a user means by an item.                                          *)

InBlock(p) == {a \in Address : a \div BlockSize(p) = p.addr \div BlockSize(p)}

Usable(p) == {a \in InBlock(p) : /\ \E b \in InBlock(p) : b < a
                                 /\ Cardinality(InBlock(p)) > 2 => \E b \in InBlock(p) : a < b}

Meant(item) ==
  CASE item.kind = "bad"   -> {}
    [] item.kind = "one"   -> {item.addr}
    [] item.kind = "range" -> {a \in Address : item.from <= a /\ a <= item.to}
    [] item.kind = "octet" -> {a \in Address : /\ item.from <= a
                                               /\ a \div Pow2[OctetBits] = item.from \div Pow2[OctetBits]
                                               /\ a % Pow2[OctetBits] <= item.last}
    [] item.kind = "cidr"  -> Usable(item)
=============================================================================
