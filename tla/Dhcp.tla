--------------------------------- MODULE Dhcp ---------------------------------
(***************************************************************************)
(* The DHCP configuration of an Ironic: what the webhook and the           *)
(* reconciler accept (pkg/ironic/validation.go) and what dnsmasq is given  *)
(* for it (pkg/ironic/containers.go).  Users edit the stored configuration *)
(* field by field, and every update must pass the validation.              *)
(*                                                                         *)
(* An address is a family and a number, a prefix an address and a length;  *)
(* family 0 stands for a field left empty, family 1 for text that does not *)
(* parse.                                                                  *)
(***************************************************************************)
EXTENDS Integers, Sequences

CONSTANTS
  Bits4,      \* the width of an IPv4 address
  Bits6,      \* the width of an IPv6 address
  MaxExtra,   \* bound on the number of extra ranges
  MaxEdits    \* bound on the number of updates

ASSUME DhcpBounds == {Bits4, Bits6, MaxExtra, MaxEdits} \subseteq Nat

\* A truth of arithmetic that the provers have no rule for.
ASSUME PowersArePositive == \A k \in 0 .. Bits4 + Bits6 : 2^k > 0

Unset == <<0, 0>>
Bad == <<1, 0>>
Width(f) == IF f = 4 THEN Bits4 ELSE Bits6
Addresses == {4} \X (0 .. 2^Bits4 - 1) \cup {6} \X (0 .. 2^Bits6 - 1)
Texts == Addresses \cup {Unset, Bad}
Prefixes == [addr : {4} \X (0 .. 2^Bits4 - 1), bits : 0 .. Bits4]
              \cup [addr : {6} \X (0 .. 2^Bits6 - 1), bits : 0 .. Bits6]
NoPrefix == [addr |-> Unset, bits |-> 0]
BadPrefix == [addr |-> Bad, bits |-> 0]

\* What is stored has been parsed.
Ranges == [cidr : Prefixes \cup {NoPrefix}, begin : Addresses \cup {Unset},
           end : Addresses \cup {Unset}, gateway : Addresses \cup {Unset}]
NoRange == [cidr |-> NoPrefix, begin |-> Unset, end |-> Unset, gateway |-> Unset]

VARIABLES
  networking,   \* spec.networking: ipAddress, and whether an interface or MACs are given
  main,         \* networkCIDR, rangeBegin, rangeEnd and gatewayAddress
  dns,          \* dnsAddress and serveDNS
  extra,        \* extraRanges
  edits         \* updates so far

vars == <<networking, main, dns, extra, edits>>

TypeOK ==
  /\ networking \in [ip : Addresses \cup {Unset}, interface : BOOLEAN]
  /\ main \in Ranges
  /\ dns \in [address : Addresses \cup {Unset}, serve : BOOLEAN]
  /\ DOMAIN extra = 1 .. Len(extra) /\ Len(extra) <= MaxExtra
  /\ \A i \in DOMAIN extra : extra[i] \in Ranges
  /\ edits \in 0 .. MaxEdits

-----------------------------------------------------------------------------
(* Package netip. *)

Parsed(a) == a[1] \in {4, 6}
Compare(a, b) == IF a[1] = b[1] THEN a[2] - b[2] ELSE a[1] - b[1]

\* The prefix need not be in canonical form: what is after its length is masked.
Contains(prefix, a) ==
  LET host == 2^(Width(a[1]) - prefix.bits)
  IN  a[1] = prefix.addr[1] /\ a[2] \div host = prefix.addr[2] \div host

-----------------------------------------------------------------------------
(* Faulty variants of definitions below, one plausible slip each.  Nothing    *)
(* uses them; put in place of the definition they are named after, each one   *)
(* breaks a property.                                                         *)

\* validateDHCPRange without the check of the end.
validateDHCPRangeOpen(r) ==
  /\ Parsed(r.cidr.addr) /\ r.cidr.bits # 0
  /\ Parsed(r.begin) /\ Parsed(r.end)
  /\ Contains(r.cidr, r.begin)
  /\ Compare(r.begin, r.end) <= 0
  /\ r.gateway # Unset => r.cidr.addr[1] # 6 /\ Parsed(r.gateway) /\ Contains(r.cidr, r.gateway)

\* Overlap that lets pools share an address at the end.
OverlapStrict(p, q) == Compare(p.begin, q.end) < 0 /\ Compare(q.begin, p.end) < 0

\* buildDHCPOptions without the options that suppress the main router.
buildDHCPOptionsOwn ==
  {[tag |-> t, router |-> extra[t].gateway] : t \in
     {i \in DOMAIN extra : extra[i].gateway # Unset}}

\* dhcpFamilies that looks at the main range only if there is one.
dhcpFamiliesOfOne ==
  IF main.cidr # NoPrefix THEN {main.cidr.addr[1]}
  ELSE {extra[i].cidr.addr[1] : i \in DOMAIN extra}

-----------------------------------------------------------------------------
(* Validation. *)

validateIP(a) == a = Unset \/ Parsed(a)
validateIPinPrefix(a, prefix) == a = Unset \/ (Parsed(a) /\ Contains(prefix, a))
validateRangeOrder(begin, end) ==
  Parsed(begin) /\ Parsed(end) => Compare(begin, end) <= 0

validateDHCPRange(r) ==
  /\ Parsed(r.cidr.addr) /\ r.cidr.bits # 0
  /\ r.begin # Unset /\ r.end # Unset
  /\ validateIPinPrefix(r.begin, r.cidr)
  /\ validateIPinPrefix(r.end, r.cidr)
  /\ validateRangeOrder(r.begin, r.end)
  /\ r.gateway # Unset => r.cidr.addr[1] # 6 /\ validateIPinPrefix(r.gateway, r.cidr)

MainFieldsSet(m) == {m.cidr.addr, m.begin, m.end} \ {Unset}
HasMainRange(m) == m.cidr # NoPrefix /\ m.begin # Unset /\ m.end # Unset

validateMainRange(n, m) ==
  /\ Parsed(m.cidr.addr)
  /\ validateIPinPrefix(m.begin, m.cidr)
  /\ validateIPinPrefix(m.end, m.cidr)
  /\ validateRangeOrder(m.begin, m.end)
  /\ n.ip # Unset => Contains(m.cidr, n.ip)

Overlap(p, q) == Compare(p.begin, q.end) <= 0 /\ Compare(q.begin, p.end) <= 0

\* Of the main pool, number 0, and the extra ones those with ends that parse.
validateNoPoolOverlap(m, xs) ==
  LET range == [i \in 0 .. Len(xs) |-> IF i = 0 THEN m ELSE xs[i]]
      pools == {i \in 0 .. Len(xs) : Parsed(range[i].begin) /\ Parsed(range[i].end)}
  IN  \A i, j \in pools : j < i => ~Overlap(range[i], range[j])

ValidateDHCP(n, m, d, xs) ==
  /\ n.ip # Unset \/ n.interface
  /\ ~(d.serve /\ d.address # Unset)
  /\ validateIP(d.address)
  /\ validateIP(m.gateway)
  /\ MainFieldsSet(m) # {} => HasMainRange(m)
  /\ HasMainRange(m) \/ xs # <<>>
  /\ HasMainRange(m) => validateMainRange(n, m)
  /\ \A i \in DOMAIN xs : validateDHCPRange(xs[i])
  /\ validateNoPoolOverlap(m, xs)

ValidateIronic(n, m, d, xs) == validateIP(n.ip) /\ ValidateDHCP(n, m, d, xs)

-----------------------------------------------------------------------------
(* What dnsmasq is given.  A tag is the position of an extra range, 0 for the *)
(* main range, which has none.                                                *)

Line(r, tag) == [tag |-> tag, begin |-> r.begin, end |-> r.end, bits |-> r.cidr.bits]

buildDHCPRange ==
  {Line(extra[i], i) : i \in {i \in DOMAIN extra : Parsed(extra[i].cidr.addr)}}
    \cup IF HasMainRange(main) /\ Parsed(main.cidr.addr) THEN {Line(main, 0)} ELSE {}

\* An option without a value suppresses the router of the main range.
buildDHCPOptions ==
  {[tag |-> t, router |-> extra[t].gateway] : t \in
     {i \in DOMAIN extra :
        \/ extra[i].gateway # Unset
        \/ main.gateway # Unset /\ extra[i].cidr.addr[1] # 6}}

dhcpFamilies ==
  LET cidrs == {extra[i].cidr : i \in DOMAIN extra}
                 \cup IF main.cidr = NoPrefix THEN {} ELSE {main.cidr}
  IN  {IF c.addr[1] = 6 THEN 6 ELSE 4 : c \in cidrs}

\* dnsmasq: a tagged option wins over the untagged one; there are no routers
\* in DHCPv6.
Router(line) ==
  LET tagged == {o \in buildDHCPOptions : o.tag = line.tag}
  IN  IF line.begin[1] = 6 THEN Unset
      ELSE IF tagged = {} THEN main.gateway ELSE (CHOOSE o \in tagged : TRUE).router

-----------------------------------------------------------------------------
(* Users: every update passes the webhook. *)

Single(p, a) == [NoRange EXCEPT !.cidr = p, !.begin = a, !.end = a]

Init ==
  /\ networking = [ip |-> Unset, interface |-> TRUE]
  /\ \E p \in Prefixes : main = Single(p, p.addr)
  /\ dns = [address |-> Unset, serve |-> FALSE]
  /\ extra = <<>>
  /\ edits = 0
  /\ ValidateIronic(networking, main, dns, extra)

Accepted ==
  /\ edits < MaxEdits
  /\ edits' = edits + 1
  /\ ValidateIronic(networking', main', dns', extra')

\* A range with one field changed.
FieldEdits(r) ==
  {[r EXCEPT !.cidr = p] : p \in Prefixes \cup {NoPrefix, BadPrefix}}
    \cup UNION {{[r EXCEPT !.begin = a], [r EXCEPT !.end = a], [r EXCEPT !.gateway = a]} :
                 a \in Texts}

EditNetworking ==
  /\ networking' \in [ip : Texts, interface : BOOLEAN]
  /\ UNCHANGED <<main, dns, extra>>
  /\ Accepted

EditMain ==
  /\ \/ main' \in FieldEdits(main)
     \/ main' = [NoRange EXCEPT !.gateway = main.gateway]
     \/ main.cidr = NoPrefix /\ \E p \in Prefixes, a \in Addresses : main' = Single(p, a)
  /\ UNCHANGED <<networking, dns, extra>>
  /\ Accepted

\* One address stands for all: it is compared with nothing.
EditDns ==
  /\ dns' \in [address : {Unset, Bad} \cup {a \in Addresses : a = <<4, 0>>}, serve : BOOLEAN]
  /\ UNCHANGED <<networking, main, extra>>
  /\ Accepted

AddExtra ==
  /\ Len(extra) < MaxExtra
  /\ \E p \in Prefixes, a \in Addresses : extra' = Append(extra, Single(p, a))
  /\ UNCHANGED <<networking, main, dns>>
  /\ Accepted

EditExtra(i) ==
  /\ \E r \in FieldEdits(extra[i]) : extra' = [extra EXCEPT ![i] = r]
  /\ UNCHANGED <<networking, main, dns>>
  /\ Accepted

\* Those behind it move up, and their tags with them.
RemoveExtra(i) ==
  /\ extra' = SubSeq(extra, 1, i - 1) \o SubSeq(extra, i + 1, Len(extra))
  /\ UNCHANGED <<networking, main, dns>>
  /\ Accepted

Next ==
  \/ EditNetworking
  \/ EditMain
  \/ EditDns
  \/ AddExtra
  \/ \E i \in DOMAIN extra : EditExtra(i) \/ RemoveExtra(i)

Spec == Init /\ [][Next]_vars

-----------------------------------------------------------------------------
(* Properties. *)

Pool(line) == {a \in Addresses : Compare(line.begin, a) <= 0 /\ Compare(a, line.end) <= 0}
Subnet(line) == {a \in Addresses : Contains([addr |-> line.begin, bits |-> line.bits], a)}

\* "dnsmasq either refuses to start or allocates leases ambiguously between the
\* overlapping pools": no address is in the pools of two lines.
PoolsDisjoint == \A l, m \in buildDHCPRange : l # m => Pool(l) \cap Pool(m) = {}

\* A line has addresses to give, and all of them are in the subnet its netmask
\* makes of its first address.
PoolsInSubnet == \A l \in buildDHCPRange : Pool(l) # {} /\ Pool(l) \subseteq Subnet(l)

\* "Each ExtraRanges entry advertises a router only when its own gatewayAddress
\* is set", and one that its clients can reach.
OwnRouters ==
  \A l \in buildDHCPRange : l.tag # 0 =>
    /\ Router(l) = extra[l.tag].gateway
    /\ Router(l) # Unset => Router(l) \in Subnet(l)

\* Every range is served, and the probe asks for the ports of exactly the
\* families that are.
AllServed ==
  /\ {l.tag : l \in buildDHCPRange} = DOMAIN extra \cup IF main.begin = Unset THEN {} ELSE {0}
  /\ dhcpFamilies = {l.begin[1] : l \in buildDHCPRange}
=============================================================================
