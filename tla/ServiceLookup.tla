---------------------------- MODULE ServiceLookup ----------------------------
(***************************************************************************)
(* RdapClient::lookup of rdap_client.cpp and the registries it asks, of    *)
(* bootstrap_registry.cpp: which RDAP services are authoritative for a     *)
(* query, and in which order and how far they are tried.                   *)
(*                                                                         *)
(* A domain is the sequence of its labels from the top level down, an      *)
(* address the sequence of its bits, as many as its prefix length says:    *)
(* for both, an entry of a registry matches what it is a prefix of.  An AS *)
(* number matches the ranges it lies in.                                   *)
(***************************************************************************)
EXTENDS Integers, Sequences, FiniteSets, SequencesExt

CONSTANTS
  Lookups,    \* pairs of a registry as IANA sent it and a key to look up
  HttpsUrls,  \* the base URLs that use HTTPS
  None        \* no answer, or no result yet

Outages == {"transport", "too_large", "server_error"}

ASSUME NoneAssumption == None \notin Outages \cup {"bootstrap"}

(* A registry has services, each with its entries and its base URLs; a     *)
(* range has two ends.                                                     *)
IsSequence(s) == s \in Seq(ToSet(s))
IsEntry(kind, entry) == IF kind = "range" THEN entry \in Nat \X Nat ELSE IsSequence(entry)
IsService(kind, service) ==
  /\ IsSequence(service.urls) /\ IsSequence(service.entries)
  /\ \A i \in DOMAIN service.entries : IsEntry(kind, service.entries[i])

ASSUME LookupsAssumption ==
  \A l \in Lookups :
    /\ IsSequence(l.registry.services)
    /\ \A i \in DOMAIN l.registry.services : IsService(l.registry.kind, l.registry.services[i])
    /\ l.registry.kind = "range" => l.key \in Nat

VARIABLES
  registry,   \* kind "tree" or "range", and its services in order
  key,        \* what is looked up
  pc,         \* where the lookup is
  services,   \* the base URLs the registry resolves the key to
  contacted,  \* the requests made, with what became of them
  cancelled,  \* the token was asked to stop
  result      \* what the lookup returned, or None

vars == <<registry, key, pc, services, contacted, cancelled, result>>

Init ==
  /\ \E l \in Lookups : registry = l.registry /\ key = l.key
  /\ pc = "bootstrap" /\ services = <<>> /\ contacted = <<>>
  /\ cancelled = FALSE /\ result = None

-----------------------------------------------------------------------------
(* suffix_matches, prefix_matches and the test of AsnBootstrapRegistry.    *)
InRange(n, range) == range[1] <= n /\ n <= range[2]
Matches(kind, entry, k) == IF kind = "range" THEN InRange(k, entry) ELSE IsPrefix(entry, k)

(* label_count, or the prefix length; all ranges count the same. *)
Specificity(kind, entry) == IF kind = "range" THEN 0 ELSE Len(entry)

(* append_https_urls. *)
AppendHttpsUrls(target, urls) ==
  FoldLeft(LAMBDA acc, url : IF url \in HttpsUrls \ ToSet(acc) THEN Append(acc, url) ELSE acc,
           target, urls)

(* One entry of one service: a more specific match starts over.            *)
(* (ConsiderAll: the less specific candidates are kept.                    *)
(* ConsiderRestarting: an equally specific match starts over as well.)     *)
NoMatch == [longest |-> 0, candidates |-> <<>>]
ConsiderAll(kind, k, urls, acc, entry) ==
  IF ~Matches(kind, entry, k) THEN acc
  ELSE [longest |-> Specificity(kind, entry),
        candidates |-> AppendHttpsUrls(acc.candidates, urls)]
ConsiderRestarting(kind, k, urls, acc, entry) ==
  LET length == Specificity(kind, entry)
  IN  IF ~Matches(kind, entry, k) \/ length < acc.longest THEN acc
      ELSE [longest |-> length, candidates |-> AppendHttpsUrls(<<>>, urls)]
Consider(kind, k, urls, acc, entry) ==
  LET length == Specificity(kind, entry)
      sofar  == IF length > acc.longest THEN <<>> ELSE acc.candidates
  IN  IF ~Matches(kind, entry, k) \/ length < acc.longest THEN acc
      ELSE [longest |-> length, candidates |-> AppendHttpsUrls(sofar, urls)]

(* resolve, before it turns a lack of candidates into an error. *)
ConsiderService(kind, k, acc, service) ==
  FoldLeft(LAMBDA sofar, entry : Consider(kind, k, service.urls, sofar, entry),
           acc, service.entries)
Resolve(r, k) ==
  FoldLeft(LAMBDA acc, service : ConsiderService(r.kind, k, acc, service), NoMatch, r.services)

(* AsnBootstrapRegistry::parse refuses a document in which a range         *)
(* overlaps an earlier one.                                                *)
(* (OverlapsInside: ranges that share only an end are let through.)        *)
OverlapsInside(a, b) == a[1] < b[2] /\ b[1] < a[2]
Overlaps(a, b) == a[1] <= b[2] /\ b[1] <= a[2]
AllEntries(r) == FlattenSeq([i \in DOMAIN r.services |-> r.services[i].entries])
Accepts(r) ==
  r.kind = "range" =>
    \A i, j \in DOMAIN AllEntries(r) : i < j => ~Overlaps(AllEntries(r)[j], AllEntries(r)[i])

-----------------------------------------------------------------------------
Return(answer) == pc' = "done" /\ result' = answer

(* The registry is obtained (see BootstrapLoad) and asked for services. *)
LoadRegistry ==
  /\ pc = "bootstrap"
  /\ \/ Accepts(registry)
        /\ LET resolved == Resolve(registry, key)
           IN  \/ /\ resolved.candidates # <<>>
                  /\ services' = resolved.candidates /\ pc' = "query" /\ UNCHANGED result
               \/ resolved.candidates = <<>> /\ Return("bootstrap") /\ UNCHANGED services
     \/ ~Accepts(registry) /\ Return("bootstrap") /\ UNCHANGED services
     \/ Return("no_registry") /\ UNCHANGED services
     \/ cancelled /\ Return("cancelled") /\ UNCHANGED services
  /\ UNCHANGED <<registry, key, contacted, cancelled>>

(* The next service in turn, if one is left. *)
Send ==
  /\ pc = "query" /\ Len(contacted) < Len(services) /\ pc' = "wait"
  /\ contacted' = Append(contacted, [url |-> services[Len(contacted) + 1], answer |-> None])
  /\ UNCHANGED <<registry, key, services, cancelled, result>>

(* What CurlHttpClient::get makes of a request (see HttpTransfer).  Once   *)
(* the token was asked to stop, no outage is reported any more, unless the *)
(* transfer could not be set up; a response or a body beyond the limit     *)
(* may still be.                                                           *)
Responses == {"ok", "not_json", "server_error", "client_error"}
Errors == {"transport", "too_large"} \cup (IF cancelled THEN {"cancelled"} ELSE {})

(* After which answers the next service is tried.                          *)
(* (RetryableAlways: after every error.  RetryableOffline: only when there *)
(* was no response.)                                                       *)
RetryableAlways(answer) == answer # "ok"
RetryableOffline(answer) == answer \in {"transport", "too_large"}
Retryable(answer) == answer \in Outages

Receive ==
  /\ pc = "wait"
  /\ \E answer \in Responses \cup Errors :
        /\ contacted' = [contacted EXCEPT ![Len(contacted)].answer = answer]
        /\ \/ Retryable(answer) /\ pc' = "query" /\ UNCHANGED result
           \/ ~Retryable(answer) /\ Return(answer)
  /\ UNCHANGED <<registry, key, services, cancelled>>

(* No service is left: the error of the last one tried is returned. *)
GiveUp ==
  /\ pc = "query" /\ Len(contacted) = Len(services)
  /\ Return(Last(contacted).answer)
  /\ UNCHANGED <<registry, key, services, contacted, cancelled>>

(* The user quits while the lookup is under way. *)
Cancel ==
  /\ ~cancelled /\ pc # "done" /\ cancelled' = TRUE
  /\ UNCHANGED <<registry, key, pc, services, contacted, result>>

Next == LoadRegistry \/ Send \/ Receive \/ GiveUp \/ Cancel
Spec == Init /\ [][Next]_vars

-----------------------------------------------------------------------------
(* The reference: the services with a match that no other match beats.     *)
MatchesOf(s) ==
  {s.entries[i] : i \in {j \in DOMAIN s.entries : Matches(registry.kind, s.entries[j], key)}}
AllMatches == UNION {MatchesOf(registry.services[i]) : i \in DOMAIN registry.services}
Authoritative(s) ==
  \E e \in MatchesOf(s) :
    \A other \in AllMatches : Specificity(registry.kind, other) <= Specificity(registry.kind, e)
AuthoritativeUrls ==
  UNION {ToSet(registry.services[i].urls) :
           i \in {j \in DOMAIN registry.services : Authoritative(registry.services[j])}}

(* architecture.md: the longest match decides and only HTTPS services are  *)
(* returned.  Whatever the order of services and entries, resolve finds    *)
(* all HTTPS URLs of the authoritative services, each once, and no other.  *)
ResolvesToAuthoritative ==
  services # <<>> =>
    ToSet(services) = AuthoritativeUrls \cap HttpsUrls /\ IsInjective(services)

(* When the registry resolves to nothing, no authoritative HTTPS URL was   *)
(* missed: a lookup gives up without a request only if nobody can answer,  *)
(* IANA could not be asked, or the document is refused.                    *)
NothingOverlooked ==
  result = "bootstrap" => ~Accepts(registry) \/ AuthoritativeUrls \cap HttpsUrls = {}

(* An AS number has one holder: the services asked are those of a single   *)
(* entry of the registry.                                                  *)
OneHolder ==
  registry.kind = "range" /\ services # <<>> =>
    Cardinality({i \in DOMAIN AllEntries(registry) : InRange(key, AllEntries(registry)[i])}) = 1

(* architecture.md: another service is tried after a transport error or a  *)
(* 5xx only, never after a 4xx, and no endpoint is asked twice.            *)
RetriesOnlyOutages ==
  /\ \A i \in 1 .. Len(contacted) - 1 : contacted[i].answer \in Outages
  /\ \A i, j \in DOMAIN contacted : contacted[i].url = contacted[j].url => i = j

(* A lookup reports an outage only when every service was tried.           *)
EveryServiceTried ==
  result \in Outages => Len(contacted) = Len(services)

=============================================================================
