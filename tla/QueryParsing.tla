---------------------------- MODULE QueryParsing ----------------------------
(***************************************************************************)
(* What the text of the query field means: ResourceQueryParser of          *)
(* resource_query.cpp and DomainName of domain_name.cpp, with the          *)
(* canonical texts, and the way of one query through them: it is looked    *)
(* up, its canonical text is parsed again when the history stores it,      *)
(* again when state.json is read, and again when it is recalled with the   *)
(* Up key and looked up.                                                   *)
(*                                                                         *)
(* A text is a sequence of characters.  inet_pton is outside the program;  *)
(* its IPv6 notation is modelled by what it accepts.                       *)
(***************************************************************************)
EXTENDS Integers, Sequences, FiniteSets, SequencesExt, FiniteSetsExt

CONSTANTS
  Inputs,     \* the texts the user may type
  OctetBits,  \* bits of an octet: 8 in the code
  MaxAutnum,  \* the largest AS number: 2^32 - 1 in the code
  MaxName,    \* characters of a domain name: 253 in the code
  MaxLabel,   \* characters of a label: 63 in the code
  None        \* std::nullopt, an Error, or no text yet

ASSUME OctetAssumption == OctetBits \in 4 .. 8 /\ OctetBits % 2 = 0
ASSUME LimitsAssumption == MaxAutnum \in Nat /\ MaxName \in Nat /\ MaxLabel \in Nat
ASSUME InputsAssumption == \A s \in Inputs : s \in Seq(ToSet(s))

VARIABLES
  field,   \* the text in the query field
  first,   \* the query that was looked up first
  query,   \* the query looked up last
  stored,  \* its text in the history
  pc       \* where the query is

vars == <<field, first, query, stored, pc>>

-----------------------------------------------------------------------------
(* Characters and numerals. *)
HexDigits == <<"0", "1", "2", "3", "4", "5", "6", "7", "8", "9",
               "a", "b", "c", "d", "e", "f">>
Digits == ToSet(SubSeq(HexDigits, 1, 10))
LowerCase == [A |-> "a", F |-> "f", S |-> "s", X |-> "x"]
Letters == (ToSet(HexDigits) \ Digits) \cup DOMAIN LowerCase \cup {"s", "x"}

ASSUME NoneAssumption ==
  /\ None \notin Nat
  /\ None \notin Seq(Nat) \cup Seq(Letters \cup Digits \cup {"-", ".", ":", "/"})
  /\ None \notin [kind : {"domain"}, name : Seq(Letters \cup Digits \cup {"-", "."})]

Lower(c) == IF c \in DOMAIN LowerCase THEN LowerCase[c] ELSE c
Lowered(s) == [i \in DOMAIN s |-> Lower(s[i])]

DigitValue == [c \in ToSet(HexDigits) |-> (CHOOSE i \in 1 .. 16 : HexDigits[i] = c) - 1]
NumberOf(s, base) == FoldLeft(LAMBDA n, c : n * base + DigitValue[Lower(c)], 0, s)

(* std::to_string and std::hex: no leading zeros. *)
Numeral(n, base) ==
  LET numeral[m \in Nat] ==
        IF m < base THEN <<HexDigits[m + 1]>>
        ELSE Append(numeral[m \div base], HexDigits[(m % base) + 1])
  IN  numeral[n]

Has(s, c) == c \in ToSet(s)
DigitsOnly(s) == s # <<>> /\ ToSet(s) \subseteq Digits
Ipv4Shape(s) == s # <<>> /\ ToSet(s) \subseteq Digits \cup {"."}

Trim(s) ==
  LET solid == {i \in DOMAIN s : s[i] # " "}
  IN  IF solid = {} THEN <<>> ELSE SubSeq(s, Min(solid), Max(solid))

(* The parts between the occurrences of c. *)
Split(s, c) ==
  FoldLeft(LAMBDA parts, x : IF x = c THEN Append(parts, <<>>)
                             ELSE [parts EXCEPT ![Len(parts)] = Append(@, x)],
           << <<>> >>, s)

-----------------------------------------------------------------------------
(* Addresses as sequences of octets, most significant first. *)
OctetLimit == 2 ^ OctetBits

(* valid_ipv4_text. *)
ValidOctet(part) ==
  /\ DigitsOnly(part) /\ (Len(part) > 1 => part[1] # "0")
  /\ NumberOf(part, 10) < OctetLimit
ValidIpv4Text(s) ==
  LET parts == Split(s, ".")
  IN  Len(parts) = 4 /\ \A i \in 1 .. 4 : ValidOctet(parts[i])
Ipv4Octets(s) == [i \in 1 .. 4 |-> NumberOf(Split(s, ".")[i], 10)]

(* inet_pton(AF_INET6): eight groups of hexadecimal digits, of which one   *)
(* run of zeros may be left out, and the last two may be an IPv4 address.  *)
ValidGroup(g) ==
  /\ Len(g) \in 1 .. (2 * OctetBits) \div 4
  /\ ToSet(Lowered(g)) \subseteq ToSet(HexDigits)
Groups(s) == IF s = <<>> THEN <<>> ELSE Split(s, ":")
ValidGroups(gs, final) ==
  \A i \in DOMAIN gs : ValidGroup(gs[i]) \/ (final /\ i = Len(gs) /\ ValidIpv4Text(gs[i]))
GroupOctets(g) ==
  IF Has(g, ".") THEN Ipv4Octets(g)
  ELSE <<NumberOf(g, 16) \div OctetLimit, NumberOf(g, 16) % OctetLimit>>
OctetsOf(gs) == FlattenSeq([i \in DOMAIN gs |-> GroupOctets(gs[i])])

Gaps(s) == {i \in 1 .. Len(s) - 1 : s[i] = ":" /\ s[i + 1] = ":"}
Ipv6Octets(s) ==
  IF Gaps(s) = {}
  THEN LET gs == Groups(s)
       IN  IF ValidGroups(gs, TRUE) /\ Len(OctetsOf(gs)) = 16 THEN OctetsOf(gs) ELSE None
  ELSE LET gap == Min(Gaps(s))
           left == Groups(SubSeq(s, 1, gap - 1))
           right == Groups(SubSeq(s, gap + 2, Len(s)))
       IN  IF ~ValidGroups(left, FALSE) \/ ~ValidGroups(right, TRUE) THEN None
           ELSE LET missing == 16 - Len(OctetsOf(left)) - Len(OctetsOf(right))
                IN  IF missing <= 0 THEN None
                    ELSE OctetsOf(left) \o [i \in 1 .. missing |-> 0] \o OctetsOf(right)

(* apply_prefix: the octet a prefix ends in keeps its upper bits.          *)
(* (MaskWholeOctets: only whole octets are cleared.)                       *)
MaskWholeOctets(octets, prefix) ==
  [i \in DOMAIN octets |-> IF (i - 1) * OctetBits >= prefix THEN 0 ELSE octets[i]]
ApplyPrefix(octets, prefix) ==
  [i \in DOMAIN octets |->
     LET remaining == prefix - (i - 1) * OctetBits
         unit == 2 ^ (OctetBits - remaining)
     IN  IF remaining <= 0 THEN 0
         ELSE IF remaining < OctetBits THEN (octets[i] \div unit) * unit
         ELSE octets[i]]

FormatIpv4(octets) ==
  Numeral(octets[1], 10) \o <<".">> \o Numeral(octets[2], 10) \o <<".">>
    \o Numeral(octets[3], 10) \o <<".">> \o Numeral(octets[4], 10)

(* format_ipv6: the longest run of two or more zero groups, the first of   *)
(* them, becomes "::".  (LastLongestRun: the last of them.)                *)
ZeroRuns(groups) ==
  {r \in [start : 1 .. 8, length : 2 .. 8] :
     /\ r.start + r.length <= 9
     /\ \A i \in r.start .. r.start + r.length - 1 : groups[i] = 0}
NoRun == [start |-> 9, length |-> 0]
LastLongestRun(groups) ==
  LET runs == ZeroRuns(groups) \cup {NoRun}
  IN  CHOOSE r \in runs : \A q \in runs :
        q.length < r.length \/ (q.length = r.length /\ q.start <= r.start)
LongestRun(groups) ==
  LET runs == ZeroRuns(groups) \cup {NoRun}
  IN  CHOOSE r \in runs : \A q \in runs :
        q.length < r.length \/ (q.length = r.length /\ r.start <= q.start)

(* What is written for group i: nothing inside the run, and a colon before *)
(* every group but the first and the one after the run.                    *)
GroupText(groups, run, i) ==
  IF i = run.start THEN <<":", ":">>
  ELSE IF i \in run.start .. run.start + run.length - 1 THEN <<>>
  ELSE (IF i \in {1, run.start + run.length} THEN <<>> ELSE <<":">>) \o Numeral(groups[i], 16)

GroupsOf(octets) == [i \in 1 .. 8 |-> octets[2 * i - 1] * OctetLimit + octets[2 * i]]
FormatIpv6(octets) ==
  LET groups == GroupsOf(octets)
      run == LongestRun(groups)
  IN  FlattenSeq([i \in 1 .. 8 |-> GroupText(groups, run, i)])

FormatAddress(octets) == IF Len(octets) = 4 THEN FormatIpv4(octets) ELSE FormatIpv6(octets)

-----------------------------------------------------------------------------
(* The parsers.  An Error is None, whatever its message. *)
Domain(name) == [kind |-> "domain", name |-> name]
Network(octets, prefix) == [kind |-> "network", octets |-> octets, prefix |-> prefix]
Autnum(number) == [kind |-> "autnum", number |-> number]

AddressOctets(s) ==
  IF Has(s, ":") THEN Ipv6Octets(s)
  ELSE IF ValidIpv4Text(s) THEN Ipv4Octets(s) ELSE None

(* IpNetworkQuery::parse.  A text without '/' has one part and no prefix. *)
ParseNetwork(text) ==
  LET parts == Split(Trim(text), "/")
      address == AddressOctets(parts[1])
      prefix == NumberOf(parts[2], 10)
  IN  IF Len(parts) > 2 \/ address = None THEN None
      ELSE IF Len(parts) = 1 THEN Network(address, None)
      ELSE IF ~DigitsOnly(parts[2]) \/ prefix > Len(address) * OctetBits THEN None
      ELSE Network(ApplyPrefix(address, prefix), prefix)

(* (StartsAsTyped: "as" is only recognised in lower case.) *)
StartsAsTyped(s) == Len(s) >= 2 /\ s[1] = "a" /\ s[2] = "s"
StartsAs(s) == Len(s) >= 2 /\ Lower(s[1]) = "a" /\ Lower(s[2]) = "s"

(* AutnumQuery::parse. *)
ParseAutnum(text) ==
  LET s == Trim(text)
      digits == IF StartsAs(s) THEN SubSeq(s, 3, Len(s)) ELSE s
  IN  IF DigitsOnly(digits) /\ NumberOf(digits, 10) <= MaxAutnum
      THEN Autnum(NumberOf(digits, 10)) ELSE None

(* DomainName::parse. *)
ValidLabel(label) ==
  /\ Len(label) \in 1 .. MaxLabel
  /\ Head(label) # "-" /\ Last(label) # "-"
  /\ ToSet(label) \subseteq Letters \cup Digits \cup {"-"}
ParseDomain(text) ==
  LET s == Trim(text)
      name == IF s # <<>> /\ Last(s) = "." THEN Front(s) ELSE s
      labels == Split(name, ".")
  IN  IF Len(name) <= MaxName /\ \A i \in DOMAIN labels : ValidLabel(labels[i])
      THEN Domain(Lowered(name)) ELSE None

(* ResourceQueryParser::parse: which of the three a text is.               *)
(* (AsPrefixAlone: "as" is enough to be an AS number.)                     *)
AsPrefixAlone(s) == StartsAs(s)
AsPrefix(s) == StartsAs(s) /\ (Len(s) = 2 \/ s[3] \in Digits)
ParseQuery(text) ==
  LET s == Trim(text)
  IN  IF s = <<>> THEN None
      ELSE IF AsPrefix(s) \/ DigitsOnly(s) THEN ParseAutnum(s)
      ELSE IF Has(s, ":") \/ Has(s, "/") \/ Ipv4Shape(s) THEN ParseNetwork(s)
      ELSE ParseDomain(s)

(* query_text: the canonical text. *)
QueryText(q) ==
  CASE q.kind = "domain" -> q.name
    [] q.kind = "autnum" -> <<"A", "S">> \o Numeral(q.number, 10)
    [] q.kind = "network" ->
         IF q.prefix = None THEN FormatAddress(q.octets)
         ELSE FormatAddress(q.octets) \o <<"/">> \o Numeral(q.prefix, 10)

-----------------------------------------------------------------------------
Init ==
  /\ field \in Inputs /\ pc = "typed"
  /\ first = None /\ query = None /\ stored = None

(* start_lookup, with the field's text. *)
LookUp ==
  /\ pc = "typed"
  /\ query' = ParseQuery(field)
  /\ first' = IF first = None THEN query' ELSE first
  /\ pc' = IF query' = None THEN "rejected" ELSE "answered"
  /\ UNCHANGED <<field, stored>>

(* normalize_stored_query decides whether and how a text is kept. *)
Keep(text) ==
  LET again == ParseQuery(text)
  IN  /\ stored' = IF again = None THEN None ELSE QueryText(again)
      /\ UNCHANGED <<field, first, query>>

(* add_history, when the lookup succeeded. *)
Remember ==
  /\ pc = "answered" /\ Keep(QueryText(query))
  /\ pc' = IF stored' = None THEN "forgotten" ELSE "stored"

(* AppStateStore::read, when the program is started again. *)
ReadBack ==
  /\ pc = "stored" /\ Keep(stored)
  /\ pc' = IF stored' = None THEN "forgotten" ELSE "read"

(* The Up key puts the text into the query field. *)
Recall ==
  /\ pc \in {"stored", "read"} /\ field' = stored /\ pc' = "typed"
  /\ UNCHANGED <<first, query, stored>>

Next == LookUp \/ Remember \/ ReadBack \/ Recall
Spec == Init /\ [][Next]_vars

-----------------------------------------------------------------------------
(* A query that was looked up means the same for ever: its canonical text, *)
(* stored, read back and recalled, is never rejected and never another     *)
(* query.  The one exception is the domain "as", which can be looked up as *)
(* "as." but not stored.                                                   *)
AsDomain == Domain(<<"a", "s">>)
MeaningIsKept ==
  /\ query # None => query = first
  /\ stored # None => stored = QueryText(first)
  /\ pc = "rejected" => first = None
  /\ pc = "forgotten" => first = AsDomain

(* README: CIDR input is normalized to its network prefix.  Bit by bit,    *)
(* the network is the address that was typed up to the prefix length, and  *)
(* zero from there on, whatever octet the prefix ends in.                  *)
Bit(octets, k) ==
  (octets[(k - 1) \div OctetBits + 1] \div 2 ^ ((OctetBits - 1) - ((k - 1) % OctetBits))) % 2
NetworkIsPrefix ==
  pc = "answered" /\ query.kind = "network" =>
    LET typed == AddressOctets(Split(Trim(field), "/")[1])
        bits == Len(typed) * OctetBits
    IN  \A k \in 1 .. bits :
          Bit(query.octets, k) = IF query.prefix = None \/ k <= query.prefix
                                 THEN Bit(typed, k) ELSE 0

(* README: enter an ASCII domain.  Every name of letters, digits and inner *)
(* hyphens in labels is a domain, with or without the final dot and in any *)
(* case, but for what is numeric and for what begins with "as" and a digit *)
(* (as400.com), which is taken for an AS number.                           *)
IsHostName(s) ==
  LET name == IF Last(s) = "." THEN Front(s) ELSE s
      ends == {0, Len(name) + 1} \cup {i \in DOMAIN name : name[i] = "."}
      OutermostAt(i) == i - 1 \in ends \/ i + 1 \in ends
  IN  /\ Len(name) \in 1 .. MaxName
      /\ \A i \in DOMAIN name :
           name[i] \in Letters \cup Digits \/ (name[i] \in {"-", "."} /\ ~OutermostAt(i))
      /\ \A i, j \in ends : j > i + MaxLabel + 1 => \E k \in ends : i < k /\ k < j
LooksNumeric(s) == ToSet(s) \subseteq Digits \cup {"."}
TakenForAutnum(s) == StartsAs(s) /\ (Len(s) = 2 \/ s[3] \in Digits)
EveryDomainButAs ==
  pc \in {"answered", "rejected"} =>
    LET s == Trim(field)
    IN  (query # None /\ query.kind = "domain")
          <=> s # <<>> /\ IsHostName(s) /\ ~LooksNumeric(s) /\ ~TakenForAutnum(s)

(* RFC 5952: of all the spellings of an IPv6 address that leave out one    *)
(* run of two zero groups or more, or none, the canonical text writes the  *)
(* fewest groups, and of those it leaves out the first run; every spelling *)
(* means the same address.                                                 *)
SpelledWithout(groups, run) == FlattenSeq([i \in 1 .. 8 |-> GroupText(groups, run, i)])
GroupStarts(s) == {i \in DOMAIN s : s[i] # ":" /\ (i = 1 \/ s[i - 1] = ":")}
Written(s) == Cardinality(GroupStarts(s))
GapOf(s) == IF Gaps(s) = {} THEN 0 ELSE Min(Gaps(s))
CanonicalIsShortest ==
  pc = "answered" /\ query.kind = "network" /\ Len(query.octets) = 16 =>
    LET groups == GroupsOf(query.octets)
        canonical == FormatAddress(query.octets)
    IN  \A run \in ZeroRuns(groups) \cup {NoRun} :
          LET other == SpelledWithout(groups, run)
          IN  /\ Ipv6Octets(other) = query.octets
              /\ Written(canonical) <= Written(other)
              /\ Written(canonical) = Written(other) => GapOf(canonical) <= GapOf(other)

=============================================================================
