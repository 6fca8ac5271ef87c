------------------------------ MODULE DhcpProofs ------------------------------
(* Proofs about Dhcp, for address spaces and lists of any size. *)
EXTENDS Dhcp, TLAPS

AnyRange == [cidr : Prefixes \cup {NoPrefix, BadPrefix}, begin : Texts, end : Texts, gateway : Texts]

\* What is stored is a configuration, and was accepted when it was stored.
Stored ==
  /\ networking \in [ip : Texts, interface : BOOLEAN]
  /\ main \in AnyRange
  /\ dns \in [address : Texts, serve : BOOLEAN]
  /\ extra \in Seq(AnyRange)
  /\ Len(extra) <= MaxExtra
  /\ edits \in 0 .. MaxEdits
  /\ ValidateIronic(networking, main, dns, extra)

\* Two parsed addresses are compared like numbers: family first, then value.
LEMMA Comparison ==
  ASSUME NEW a \in Addresses, NEW b \in Addresses
  PROVE  /\ Compare(a, b) \in Int
         /\ Compare(a, b) <= 0 <=> a[1] < b[1] \/ (a[1] = b[1] /\ a[2] <= b[2])
         /\ a[1] \in {4, 6} /\ a[2] \in Int
<1>1. a[1] \in {4, 6} /\ a[2] \in Int
  BY DEF Addresses
<1>2. b[1] \in {4, 6} /\ b[2] \in Int
  BY DEF Addresses
<1> QED
  BY <1>1, <1>2 DEF Compare

\* Pools with an address in common overlap in the sense of the validation.
LEMMA CommonAddress ==
  ASSUME NEW p, NEW q, NEW a \in Addresses,
         p.begin \in Addresses, p.end \in Addresses,
         q.begin \in Addresses, q.end \in Addresses,
         Compare(p.begin, a) <= 0, Compare(a, p.end) <= 0,
         Compare(q.begin, a) <= 0, Compare(a, q.end) <= 0
  PROVE  Overlap(p, q) /\ Overlap(q, p)
<1>1. Compare(p.begin, q.end) <= 0
  BY Comparison
<1>2. Compare(q.begin, p.end) <= 0
  BY Comparison
<1> QED
  BY <1>1, <1>2 DEF Overlap

LEMMA FieldEditsTyped ==
  ASSUME NEW r \in AnyRange, NEW s \in FieldEdits(r)
  PROVE  s \in AnyRange
BY DEF FieldEdits, AnyRange

LEMMA SingleTyped ==
  ASSUME NEW p \in Prefixes, NEW a \in Addresses
  PROVE  Single(p, a) \in AnyRange
BY DEF Single, NoRange, AnyRange, Texts

\* A text that parses is an address.
LEMMA ParsedTexts ==
  ASSUME NEW a \in Texts, Parsed(a)
  PROVE  a \in Addresses
BY DEF Texts, Parsed, Unset, Bad

LEMMA StoredInit == Init => Stored
<1> SUFFICES ASSUME Init PROVE Stored
  OBVIOUS
<1>1. main \in AnyRange
  <2>1. PICK p \in Prefixes : main = Single(p, p.addr)
    BY DEF Init
  <2>2. p.addr \in Addresses
    BY DEF Prefixes, Addresses
  <2> QED
    BY <2>1, <2>2, SingleTyped
<1>2. extra \in Seq(AnyRange) /\ Len(extra) = 0
  BY DEF Init
<1>3. networking \in [ip : Texts, interface : BOOLEAN] /\ dns \in [address : Texts, serve : BOOLEAN]
  BY DEF Init, Texts
<1> QED
  BY <1>1, <1>2, <1>3, DhcpBounds DEF Init, Stored

LEMMA StoredNext == Stored /\ [Next]_vars => Stored'
<1> SUFFICES ASSUME Stored, [Next]_vars PROVE Stored'
  OBVIOUS
<1>1. CASE UNCHANGED vars
  BY <1>1 DEF vars, Stored
<1>2. CASE Next
  <2>1. Accepted
    BY <1>2 DEF Next, EditNetworking, EditMain, EditDns, AddExtra, EditExtra, RemoveExtra
  <2>2. ValidateIronic(networking, main, dns, extra)' /\ edits' \in 0 .. MaxEdits
    BY <2>1, DhcpBounds DEF Accepted, Stored
  <2>3. CASE EditNetworking
    BY <2>2, <2>3 DEF EditNetworking, Stored
  <2>4. CASE EditDns
    <3>1. dns' \in [address : Texts, serve : BOOLEAN]
      BY <2>4 DEF EditDns, Texts
    <3> QED
      BY <2>2, <2>4, <3>1 DEF EditDns, Stored
  <2>5. CASE EditMain
    <3>1. [NoRange EXCEPT !.gateway = main.gateway] \in AnyRange
      BY DEF Stored, AnyRange, NoRange, Texts
    <3>2. main' \in AnyRange
      BY <2>5, <3>1, FieldEditsTyped, SingleTyped DEF EditMain, Stored
    <3> QED
      BY <2>2, <2>5, <3>2 DEF EditMain, Stored
  <2>6. CASE AddExtra
    <3>1. extra' \in Seq(AnyRange) /\ Len(extra') <= MaxExtra
      BY <2>6, SingleTyped, DhcpBounds DEF AddExtra, Stored
    <3> QED
      BY <2>2, <2>6, <3>1 DEF AddExtra, Stored
  <2>7. ASSUME NEW i \in DOMAIN extra, EditExtra(i)
        PROVE  Stored'
    <3>1. PICK r \in FieldEdits(extra[i]) : extra' = [extra EXCEPT ![i] = r]
      BY <2>7 DEF EditExtra
    <3>2. r \in AnyRange
      BY <3>1, FieldEditsTyped DEF Stored
    <3>3. extra' \in Seq(AnyRange) /\ Len(extra') = Len(extra)
      BY <3>1, <3>2 DEF Stored
    <3> QED
      BY <2>2, <2>7, <3>3 DEF EditExtra, Stored
  <2>8. ASSUME NEW i \in DOMAIN extra, RemoveExtra(i)
        PROVE  Stored'
    <3> DEFINE before == SubSeq(extra, 1, i - 1)
               after == SubSeq(extra, i + 1, Len(extra))
    <3>1. /\ before \in Seq(AnyRange) /\ after \in Seq(AnyRange)
          /\ Len(before) = i - 1 /\ Len(after) = Len(extra) - i
      BY DEF Stored
    <3>2. extra' = before \o after
      BY <2>8 DEF RemoveExtra
    <3>3. i \in 1 .. Len(extra) /\ Len(extra) \in Nat
      BY DEF Stored
    <3> HIDE DEF before, after
    <3>4. extra' \in Seq(AnyRange) /\ Len(extra') = Len(extra) - 1
      BY <3>1, <3>2, <3>3
    <3> QED
      BY <2>2, <2>8, <3>3, <3>4, DhcpBounds DEF RemoveExtra, Stored
  <2> QED
    BY <1>2, <2>3, <2>4, <2>5, <2>6, <2>7, <2>8 DEF Next
<1> QED
  BY <1>1, <1>2

\* What is accepted at any time gives dnsmasq disjoint pools: no address is in
\* two of them, for any number of ranges of either family.
LEMMA StoredDisjoint == Stored => PoolsDisjoint
<1> SUFFICES ASSUME Stored, NEW l \in buildDHCPRange, NEW m \in buildDHCPRange, l # m,
                    NEW a \in Pool(l), a \in Pool(m)
             PROVE  FALSE
  BY DEF PoolsDisjoint
<1> DEFINE Range(i) == IF i = 0 THEN main ELSE extra[i]
<1>1. \A n \in buildDHCPRange :
        \E i \in 0 .. Len(extra) :
          /\ n = Line(Range(i), i)
          /\ Range(i).begin \in Addresses /\ Range(i).end \in Addresses
  <2> SUFFICES ASSUME NEW n \in buildDHCPRange
               PROVE  \E i \in 0 .. Len(extra) :
                        /\ n = Line(Range(i), i)
                        /\ Range(i).begin \in Addresses /\ Range(i).end \in Addresses
    OBVIOUS
  <2>1. CASE HasMainRange(main) /\ n = Line(main, 0)
    <3>1. validateMainRange(networking, main)
      BY <2>1 DEF Stored, ValidateIronic, ValidateDHCP
    <3>2. Parsed(main.begin) /\ Parsed(main.end)
      BY <2>1, <3>1 DEF validateMainRange, validateIPinPrefix, HasMainRange
    <3>3. main.begin \in Addresses /\ main.end \in Addresses
      BY <3>2, ParsedTexts DEF Stored, AnyRange
    <3> QED
      BY <2>1, <3>3 DEF Stored
  <2>2. ASSUME NEW i \in DOMAIN extra, n = Line(extra[i], i)
        PROVE  \E j \in 0 .. Len(extra) :
                 /\ n = Line(Range(j), j)
                 /\ Range(j).begin \in Addresses /\ Range(j).end \in Addresses
    <3>1. validateDHCPRange(extra[i])
      BY DEF Stored, ValidateIronic, ValidateDHCP
    <3>2. Parsed(extra[i].begin) /\ Parsed(extra[i].end)
      BY <3>1 DEF validateDHCPRange, validateIPinPrefix
    <3>3. extra[i] \in AnyRange /\ i \in 1 .. Len(extra)
      BY DEF Stored
    <3>4. extra[i].begin \in Addresses /\ extra[i].end \in Addresses
      BY <3>2, <3>3, ParsedTexts DEF AnyRange
    <3> QED
      BY <2>2, <3>3, <3>4
  <2> QED
    BY <2>1, <2>2 DEF buildDHCPRange
<1>2. PICK i \in 0 .. Len(extra) :
        /\ l = Line(Range(i), i)
        /\ Range(i).begin \in Addresses /\ Range(i).end \in Addresses
  BY <1>1
<1>3. PICK j \in 0 .. Len(extra) :
        /\ m = Line(Range(j), j)
        /\ Range(j).begin \in Addresses /\ Range(j).end \in Addresses
  BY <1>1
<1>4. i # j
  BY <1>2, <1>3
<1>5. /\ a \in Addresses
      /\ Compare(Range(i).begin, a) <= 0 /\ Compare(a, Range(i).end) <= 0
      /\ Compare(Range(j).begin, a) <= 0 /\ Compare(a, Range(j).end) <= 0
  BY <1>2, <1>3 DEF Pool, Line
<1>6. Overlap(Range(i), Range(j)) /\ Overlap(Range(j), Range(i))
  BY <1>2, <1>3, <1>5, CommonAddress
<1>7. \A x \in Addresses : Parsed(x)
  BY DEF Addresses, Parsed
<1>8. validateNoPoolOverlap(main, extra)
  BY DEF Stored, ValidateIronic, ValidateDHCP
<1>9. Len(extra) \in Nat
  BY DEF Stored
<1>10. \A k, h \in {i, j} : h < k => ~Overlap(Range(k), Range(h))
  BY <1>2, <1>3, <1>7, <1>8, <1>9 DEF validateNoPoolOverlap
<1>11. i < j \/ j < i
  BY <1>4, <1>9
<1> QED
  BY <1>6, <1>10, <1>11

\* What validation accepts has been parsed: the ends of every range that is
\* served, and the prefix they are in.
LEMMA StoredParsed ==
  ASSUME Stored
  PROVE  /\ \A i \in DOMAIN extra :
              /\ extra[i].cidr \in Prefixes /\ extra[i].begin \in Addresses
              /\ extra[i].end \in Addresses /\ extra[i].gateway \in Addresses \cup {Unset}
              /\ extra[i].begin[1] = extra[i].cidr.addr[1]
              /\ extra[i] \in AnyRange /\ validateDHCPRange(extra[i])
         /\ HasMainRange(main) =>
              /\ main.cidr \in Prefixes /\ main.begin \in Addresses /\ main.end \in Addresses
              /\ main.begin[1] = main.cidr.addr[1]
         /\ ~HasMainRange(main) =>
              main.cidr = NoPrefix /\ main.begin = Unset /\ main.end = Unset
         /\ main.gateway \in Addresses \cup {Unset}
<1>1. \A p \in Prefixes : p.addr[1] \in {4, 6}
  BY DEF Prefixes
<1>2. \A p \in Prefixes \cup {NoPrefix, BadPrefix} : Parsed(p.addr) => p \in Prefixes
  BY DEF NoPrefix, BadPrefix, Unset, Bad, Parsed
<1>3. ASSUME NEW i \in DOMAIN extra
      PROVE  /\ extra[i].cidr \in Prefixes /\ extra[i].begin \in Addresses
             /\ extra[i].end \in Addresses /\ extra[i].gateway \in Addresses \cup {Unset}
             /\ extra[i].begin[1] = extra[i].cidr.addr[1]
             /\ extra[i] \in AnyRange /\ validateDHCPRange(extra[i])
  <2>1. extra[i] \in AnyRange
    BY DEF Stored
  <2>2. validateDHCPRange(extra[i])
    BY DEF Stored, ValidateIronic, ValidateDHCP
  <2>3. extra[i].cidr \in Prefixes
    BY <1>2, <2>1, <2>2 DEF AnyRange, validateDHCPRange
  <2>4. Parsed(extra[i].begin) /\ Contains(extra[i].cidr, extra[i].begin) /\ Parsed(extra[i].end)
    BY <2>2 DEF validateDHCPRange, validateIPinPrefix
  <2>5. extra[i].gateway = Unset \/ Parsed(extra[i].gateway)
    BY <2>2 DEF validateDHCPRange, validateIPinPrefix
  <2>6. /\ extra[i].begin \in Addresses /\ extra[i].end \in Addresses
        /\ extra[i].gateway \in Addresses \cup {Unset}
    BY <2>1, <2>4, <2>5, ParsedTexts DEF AnyRange
  <2> QED
    BY <2>1, <2>2, <2>3, <2>4, <2>6 DEF Contains
<1>4. ASSUME HasMainRange(main)
      PROVE  /\ main.cidr \in Prefixes /\ main.begin \in Addresses /\ main.end \in Addresses
             /\ main.begin[1] = main.cidr.addr[1]
  <2>1. validateMainRange(networking, main)
    BY <1>4 DEF Stored, ValidateIronic, ValidateDHCP
  <2>2. main.cidr \in Prefixes
    BY <1>2, <2>1 DEF Stored, AnyRange, validateMainRange
  <2>3. Parsed(main.begin) /\ Contains(main.cidr, main.begin) /\ Parsed(main.end)
    BY <1>4, <2>1 DEF validateMainRange, validateIPinPrefix, HasMainRange
  <2>4. main.begin \in Addresses /\ main.end \in Addresses
    BY <2>3, ParsedTexts DEF Stored, AnyRange
  <2> QED
    BY <1>4, <2>2, <2>3, <2>4 DEF Contains
<1>5. ASSUME ~HasMainRange(main)
      PROVE  main.cidr = NoPrefix /\ main.begin = Unset /\ main.end = Unset
  <2>1. MainFieldsSet(main) = {}
    BY <1>5 DEF Stored, ValidateIronic, ValidateDHCP
  <2>2. main.cidr.addr = Unset /\ main.begin = Unset /\ main.end = Unset
    BY <2>1 DEF MainFieldsSet
  <2>3. main.cidr \in Prefixes \cup {NoPrefix, BadPrefix}
    BY DEF Stored, AnyRange
  <2>4. main.cidr = NoPrefix
    BY <1>1, <2>2, <2>3 DEF BadPrefix, Unset, Bad
  <2> QED
    BY <1>5, <2>2, <2>4
<1>6. main.gateway \in Addresses \cup {Unset}
  BY ParsedTexts DEF Stored, AnyRange, ValidateIronic, ValidateDHCP, validateIP
<1> QED
  BY <1>3, <1>4, <1>5, <1>6

LEMMA StoredTyped == Stored => TypeOK
<1> SUFFICES ASSUME Stored PROVE TypeOK
  OBVIOUS
<1>1. networking.ip \in Addresses \cup {Unset} /\ dns.address \in Addresses \cup {Unset}
  BY ParsedTexts DEF Stored, ValidateIronic, ValidateDHCP, validateIP
<1>2. networking \in [ip : Addresses \cup {Unset}, interface : BOOLEAN]
  BY <1>1 DEF Stored
<1>3. dns \in [address : Addresses \cup {Unset}, serve : BOOLEAN]
  BY <1>1 DEF Stored
<1>4. main \in Ranges
  BY StoredParsed DEF Stored, AnyRange, Ranges
<1>5. \A i \in DOMAIN extra : extra[i] \in Ranges
  BY StoredParsed DEF AnyRange, Ranges
<1>6. DOMAIN extra = 1 .. Len(extra)
  BY DEF Stored
<1> QED
  BY <1>2, <1>3, <1>4, <1>5, <1>6 DEF Stored, TypeOK

\* Only what has been parsed is ever stored, for any edits.
THEOREM DhcpTypeCorrect == Spec => []TypeOK
BY StoredInit, StoredNext, StoredTyped, PTL DEF Spec

\* Whatever CHOOSE takes of the options of a tag has the router of its range.
LEMMA TaggedRouter ==
  ASSUME NEW i \in DOMAIN extra, NEW o \in buildDHCPOptions, o.tag = i
  PROVE  o.router = extra[i].gateway
BY DEF buildDHCPOptions

LEMMA StoredRouters == Stored => OwnRouters
<1> SUFFICES ASSUME Stored, NEW l \in buildDHCPRange, l.tag # 0
             PROVE  /\ Router(l) = extra[l.tag].gateway
                    /\ Router(l) # Unset => Router(l) \in Subnet(l)
  BY DEF OwnRouters
<1>1. PICK i \in DOMAIN extra : l = Line(extra[i], i)
  BY DEF buildDHCPRange, Line
<1> DEFINE r == extra[i]
<1>2. /\ l.tag = i /\ l.begin = r.begin /\ l.bits = r.cidr.bits
      /\ r.begin \in Addresses /\ r.gateway \in Addresses \cup {Unset}
      /\ r.begin[1] = r.cidr.addr[1] /\ validateDHCPRange(r)
  BY <1>1, StoredParsed DEF Line
<1>3. Router(l) = r.gateway
  <2>1. CASE l.begin[1] = 6
    <3>1. r.gateway = Unset
      BY <1>2, <2>1 DEF validateDHCPRange
    <3> QED
      BY <2>1, <3>1 DEF Router
  <2>2. CASE l.begin[1] # 6
    <3> DEFINE tagged == {o \in buildDHCPOptions : o.tag = l.tag}
    <3>1. Router(l) = IF tagged = {} THEN main.gateway ELSE (CHOOSE o \in tagged : TRUE).router
      BY <2>2 DEF Router
    <3>2. CASE tagged = {}
      <4>1. ~(r.gateway # Unset \/ (main.gateway # Unset /\ r.cidr.addr[1] # 6))
        <5> SUFFICES ASSUME r.gateway # Unset \/ (main.gateway # Unset /\ r.cidr.addr[1] # 6)
                     PROVE  FALSE
          OBVIOUS
        <5>1. [tag |-> i, router |-> r.gateway] \in tagged
          BY <1>2 DEF buildDHCPOptions
        <5> QED
          BY <3>2, <5>1
      <4> QED
        BY <1>2, <2>2, <3>1, <3>2, <4>1
    <3>3. CASE tagged # {}
      <4>1. PICK o \in tagged : o = CHOOSE p \in tagged : TRUE
        BY <3>3
      <4>2. o.router = r.gateway
        BY <1>2, <4>1, TaggedRouter
      <4> QED
        BY <3>1, <3>3, <4>1, <4>2
    <3> QED
      BY <3>2, <3>3
  <2> QED
    BY <2>1, <2>2
<1>4. ASSUME r.gateway # Unset
      PROVE  r.gateway \in Subnet(l)
  <2>1. Contains(r.cidr, r.gateway) /\ Contains(r.cidr, r.begin)
    BY <1>2, <1>4 DEF validateDHCPRange, validateIPinPrefix, Unset, Parsed, Addresses
  <2>2. Contains([addr |-> l.begin, bits |-> l.bits], r.gateway)
    BY <1>2, <2>1 DEF Contains, Width
  <2> QED
    BY <1>2, <1>4, <2>2 DEF Subnet
<1> QED
  BY <1>2, <1>3, <1>4

\* An extra range advertises its own router or none, in whatever order and
\* number ranges come, and its clients can reach it.
THEOREM RoutersAlwaysOwn == Spec => []OwnRouters
BY StoredInit, StoredNext, StoredRouters, PTL DEF Spec

\* The families that the probe looks at are those of the ranges that are served.
LEMMA StoredServed == Stored => AllServed
<1> SUFFICES ASSUME Stored PROVE AllServed
  OBVIOUS
<1> DEFINE mains == IF HasMainRange(main) THEN {Line(main, 0)} ELSE {}
           extras == {Line(extra[i], i) : i \in DOMAIN extra}
<1>1. \A p \in Prefixes : Parsed(p.addr) /\ p.addr[1] \in {4, 6} /\ p # NoPrefix
  BY DEF Prefixes, Parsed, NoPrefix, Unset
<1>2. \A i \in DOMAIN extra : extra[i].cidr \in Prefixes /\ extra[i].begin[1] = extra[i].cidr.addr[1]
  BY StoredParsed
<1>3. /\ HasMainRange(main) => main.cidr \in Prefixes /\ main.begin[1] = main.cidr.addr[1]
      /\ ~HasMainRange(main) => main.cidr = NoPrefix /\ main.begin = Unset
  BY StoredParsed
<1>4. HasMainRange(main) <=> main.begin # Unset
  BY <1>3 DEF HasMainRange
<1>5. buildDHCPRange = extras \cup mains
  <2>1. {i \in DOMAIN extra : Parsed(extra[i].cidr.addr)} = DOMAIN extra
    BY <1>1, <1>2
  <2>2. (HasMainRange(main) /\ Parsed(main.cidr.addr)) = HasMainRange(main)
    BY <1>1, <1>3 DEF HasMainRange
  <2> QED
    BY <2>1, <2>2 DEF buildDHCPRange
<1>6. {l.tag : l \in buildDHCPRange} = DOMAIN extra \cup IF main.begin = Unset THEN {} ELSE {0}
  <2>1. \A i \in DOMAIN extra : Line(extra[i], i) \in buildDHCPRange /\ Line(extra[i], i).tag = i
    <3>1. \A i \in DOMAIN extra : Line(extra[i], i) \in buildDHCPRange
      BY <1>5
    <3> QED
      BY <3>1 DEF Line
  <2>2. HasMainRange(main) => Line(main, 0) \in buildDHCPRange /\ Line(main, 0).tag = 0
    <3>1. HasMainRange(main) => Line(main, 0) \in buildDHCPRange
      BY <1>5
    <3> QED
      BY <3>1 DEF Line
  <2>3. \A l \in buildDHCPRange : l.tag \in DOMAIN extra \/ (HasMainRange(main) /\ l.tag = 0)
    BY <1>5 DEF Line
  <2> QED
    BY <1>4, <2>1, <2>2, <2>3
<1>7. dhcpFamilies = {l.begin[1] : l \in buildDHCPRange}
  <2> DEFINE Family(c) == IF c.addr[1] = 6 THEN 6 ELSE 4
             cidrs == {extra[i].cidr : i \in DOMAIN extra}
                        \cup IF main.cidr = NoPrefix THEN {} ELSE {main.cidr}
  <2>1. dhcpFamilies = {Family(c) : c \in cidrs}
    BY DEF dhcpFamilies
  <2>2. \A i \in DOMAIN extra : Family(extra[i].cidr) = Line(extra[i], i).begin[1]
    BY <1>1, <1>2 DEF Line
  <2>3. HasMainRange(main) => Family(main.cidr) = Line(main, 0).begin[1]
    BY <1>1, <1>3 DEF Line
  <2>4. main.cidr = NoPrefix <=> ~HasMainRange(main)
    BY <1>1, <1>3
  <2> HIDE DEF Family
  <2>5. ASSUME NEW c \in cidrs PROVE \E l \in buildDHCPRange : l.begin[1] = Family(c)
    <3>1. CASE \E i \in DOMAIN extra : c = extra[i].cidr
      BY <1>5, <2>2, <3>1
    <3>2. CASE main.cidr # NoPrefix /\ c = main.cidr
      BY <1>5, <2>3, <2>4, <3>2
    <3> QED
      BY <3>1, <3>2
  <2>6. ASSUME NEW l \in buildDHCPRange PROVE \E c \in cidrs : l.begin[1] = Family(c)
    <3>1. CASE l \in extras
      BY <2>2, <3>1
    <3>2. CASE l \in mains
      BY <2>3, <2>4, <3>2
    <3> QED
      BY <1>5, <3>1, <3>2
  <2> QED
    BY <2>1, <2>5, <2>6
<1> QED
  BY <1>6, <1>7 DEF AllServed

\* Every range that is stored is served, and no other one.
THEOREM RangesAlwaysServed == Spec => []AllServed
BY StoredInit, StoredNext, StoredServed, PTL DEF Spec

\* The DHCP pools given to dnsmasq never overlap, whatever users edit, one
\* field after the other.
THEOREM PoolsAlwaysDisjoint == Spec => []PoolsDisjoint
BY StoredInit, StoredNext, StoredDisjoint, PTL DEF Spec

\* Addresses between two that agree on the part before the host agree with them.
LEMMA SameQuotient ==
  ASSUME NEW h \in Nat, h > 0, NEW a \in Int, NEW b \in Int, NEW c \in Int,
         a <= b, b <= c, a \div h = c \div h
  PROVE  b \div h = a \div h
OBVIOUS

\* A subnet is an interval: with both ends of a range it contains the range.
LEMMA RangeInSubnet ==
  ASSUME NEW p \in Prefixes, NEW b \in Addresses, NEW e \in Addresses, NEW a \in Addresses,
         Contains(p, b), Contains(p, e), Compare(b, a) <= 0, Compare(a, e) <= 0
  PROVE  Contains([addr |-> b, bits |-> p.bits], a)
<1> DEFINE host == 2^(Width(b[1]) - p.bits)
<1>1. b[1] = p.addr[1] /\ e[1] = p.addr[1] /\ a[1] = p.addr[1]
  <2>1. b[1] = p.addr[1] /\ e[1] = p.addr[1]
    BY DEF Contains
  <2> QED
    BY <2>1, Comparison
<1>2. b[2] <= a[2] /\ a[2] <= e[2] /\ {a[2], b[2], e[2]} \subseteq Int
  BY <1>1, Comparison
<1>3. Width(b[1]) - p.bits \in 0 .. Bits4 + Bits6
  <2>1. (p.addr[1] = 4 /\ p.bits \in 0 .. Bits4) \/ (p.addr[1] = 6 /\ p.bits \in 0 .. Bits6)
    BY DEF Prefixes
  <2> QED
    BY <1>1, <2>1, DhcpBounds DEF Width
<1>4. host \in Nat /\ host > 0
  <2>1. host > 0
    BY <1>3, PowersArePositive
  <2>2. host \in Int
    BY <1>3, DhcpBounds
  <2> QED
    BY <2>1, <2>2
<1>5. b[2] \div host = p.addr[2] \div host /\ e[2] \div host = p.addr[2] \div host
  BY <1>1 DEF Contains
<1> HIDE DEF host
<1>6. a[2] \div host = b[2] \div host
  BY <1>2, <1>4, <1>5, SameQuotient
<1> QED
  BY <1>1, <1>6 DEF Contains, host

LEMMA StoredInSubnet == Stored => PoolsInSubnet
<1> SUFFICES ASSUME Stored, NEW l \in buildDHCPRange
             PROVE  Pool(l) # {} /\ Pool(l) \subseteq Subnet(l)
  BY DEF PoolsInSubnet
<1>1. \A x \in Addresses : Parsed(x) /\ x # Unset
  BY DEF Addresses, Parsed, Unset
<1>2. PICK r, tag :
        /\ l = Line(r, tag)
        /\ r.cidr \in Prefixes /\ r.begin \in Addresses /\ r.end \in Addresses
        /\ Contains(r.cidr, r.begin) /\ Contains(r.cidr, r.end)
        /\ Compare(r.begin, r.end) <= 0
  <2>1. ASSUME NEW i \in DOMAIN extra
        PROVE  /\ extra[i].cidr \in Prefixes /\ extra[i].begin \in Addresses
               /\ extra[i].end \in Addresses
               /\ Contains(extra[i].cidr, extra[i].begin)
               /\ Contains(extra[i].cidr, extra[i].end)
               /\ Compare(extra[i].begin, extra[i].end) <= 0
    <3>1. /\ extra[i].cidr \in Prefixes /\ extra[i].begin \in Addresses
          /\ extra[i].end \in Addresses /\ validateDHCPRange(extra[i])
      BY StoredParsed
    <3> QED
      BY <1>1, <3>1 DEF validateDHCPRange, validateIPinPrefix, validateRangeOrder
  <2>2. ASSUME HasMainRange(main)
        PROVE  /\ main.cidr \in Prefixes /\ main.begin \in Addresses /\ main.end \in Addresses
               /\ Contains(main.cidr, main.begin) /\ Contains(main.cidr, main.end)
               /\ Compare(main.begin, main.end) <= 0
    <3>1. main.cidr \in Prefixes /\ main.begin \in Addresses /\ main.end \in Addresses
      BY <2>2, StoredParsed
    <3>2. validateMainRange(networking, main)
      BY <2>2 DEF Stored, ValidateIronic, ValidateDHCP
    <3> QED
      BY <1>1, <3>1, <3>2 DEF validateMainRange, validateIPinPrefix, validateRangeOrder
  <2>3. CASE HasMainRange(main) /\ l = Line(main, 0)
    BY <2>2, <2>3
  <2>4. CASE \E i \in DOMAIN extra : l = Line(extra[i], i)
    BY <2>1, <2>4
  <2> QED
    BY <2>3, <2>4 DEF buildDHCPRange
<1>3. l.begin = r.begin /\ l.end = r.end /\ l.bits = r.cidr.bits
  BY <1>2 DEF Line
<1>4. r.begin \in Pool(l)
  BY <1>2, <1>3, Comparison DEF Pool
<1>5. ASSUME NEW a \in Pool(l)
      PROVE  a \in Subnet(l)
  <2>1. a \in Addresses /\ Compare(r.begin, a) <= 0 /\ Compare(a, r.end) <= 0
    BY <1>3 DEF Pool
  <2>2. Contains([addr |-> r.begin, bits |-> r.cidr.bits], a)
    BY <1>2, <2>1, RangeInSubnet
  <2> QED
    BY <1>3, <2>1, <2>2 DEF Subnet
<1> QED
  BY <1>4, <1>5

\* validateRangeOrder and the two validateIPinPrefix leave dnsmasq with at least
\* one address to give, and with none that its clients' netmask puts elsewhere,
\* for addresses and prefixes of any length.
THEOREM PoolsAlwaysInSubnet == Spec => []PoolsInSubnet
BY StoredInit, StoredNext, StoredInSubnet, PTL DEF Spec
=============================================================================
