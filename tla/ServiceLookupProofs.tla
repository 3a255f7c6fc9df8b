------------------------ MODULE ServiceLookupProofs ------------------------
(***************************************************************************)
(* Theorems about the loop of RdapClient::lookup over the services of a    *)
(* query, for any number of services and any sequence of answers.          *)
(***************************************************************************)
EXTENDS ServiceLookup, FoldInduction, FiniteSetTheorems, SequenceTheorems

(* A list of services without a double. *)
HttpsLists == {list \in Seq(HttpsUrls) : IsInjective(list)}

-----------------------------------------------------------------------------
(* append_https_urls: one URL, and the function its loop goes through.     *)
AppendHttpsUrl(list, url) == IF url \in HttpsUrls \ ToSet(list) THEN Append(list, url) ELSE list
IsAppending(iter, target, urls) ==
  iter = [s \in SUBSET DOMAIN urls |->
            IF s = {} THEN target
            ELSE LET x == Max(s) IN AppendHttpsUrl(iter[s \ {x}], urls[x])]

LEMMA AppendHttpsUrlType ==
  ASSUME NEW list \in HttpsLists, NEW url
  PROVE  /\ AppendHttpsUrl(list, url) \in HttpsLists
         /\ ToSet(AppendHttpsUrl(list, url)) = ToSet(list) \cup ({url} \cap HttpsUrls)
<1> DEFINE longer == Append(list, url)
<1>1. list \in Seq(HttpsUrls) /\ \A i, j \in 1 .. Len(list) : list[i] = list[j] => i = j
  BY DEF HttpsLists, IsInjective
<1>2. CASE url \in HttpsUrls \ ToSet(list)
  <2>1. /\ longer \in Seq(HttpsUrls) /\ Len(longer) = Len(list) + 1
        /\ \A i \in 1 .. Len(list) : longer[i] = list[i]
        /\ longer[Len(list) + 1] = url
    BY <1>1, <1>2
  <2>2. \A i \in 1 .. Len(list) : list[i] # url
    BY <1>1, <1>2 DEF ToSet
  <2>3. AppendHttpsUrl(list, url) = longer
    BY <1>2 DEF AppendHttpsUrl
  <2> HIDE DEF longer
  <2>4. IsInjective(longer)
    BY <1>1, <2>1, <2>2 DEF IsInjective
  <2>5. ToSet(longer) = ToSet(list) \cup {url}
    BY <1>1, <2>1 DEF ToSet
  <2> QED
    BY <1>2, <2>1, <2>3, <2>4, <2>5 DEF HttpsLists
<1>3. CASE url \notin HttpsUrls \ ToSet(list)
  <2>1. AppendHttpsUrl(list, url) = list
    BY <1>3 DEF AppendHttpsUrl
  <2>2. {url} \cap HttpsUrls \subseteq ToSet(list)
    BY <1>3
  <2> QED
    BY <2>1, <2>2
<1> QED
  BY <1>2, <1>3

LEMMA AppendUnfolds ==
  \A target, urls :
    AppendHttpsUrls(target, urls) = (CHOOSE iter : IsAppending(iter, target, urls))[DOMAIN urls]
BY DEF AppendHttpsUrls, FoldLeft, MapThenFoldSet, IsAppending, AppendHttpsUrl

(* The loop of append_https_urls, after each of the URLs. *)
LEMMA AppendIsLoop ==
  ASSUME NEW target \in HttpsLists, NEW U, NEW urls \in Seq(U)
  PROVE  \E list \in [0 .. Len(urls) -> HttpsLists] :
           /\ list[0] = target
           /\ \A i \in 1 .. Len(urls) : list[i] = AppendHttpsUrl(list[i - 1], urls[i])
           /\ AppendHttpsUrls(target, urls) = list[Len(urls)]
<1> DEFINE n == Len(urls)
           step == [p \in (1 .. n) \X HttpsLists |-> AppendHttpsUrl(p[2], urls[p[1]])]
<1>1. n \in Nat /\ DOMAIN urls = 1 .. n
  OBVIOUS
<1>2. IsStep(step, n, HttpsLists)
  BY AppendHttpsUrlType DEF IsStep
<1>3. \A i \in 1 .. n, list \in HttpsLists : step[<<i, list>>] = AppendHttpsUrl(list, urls[i])
  OBVIOUS
<1> HIDE DEF n, step
<1>4. \E iter : IsAppending(iter, target, urls)
  <2>1. PICK iter : IsFold(iter, n, HttpsLists, target, step)
    BY <1>1, <1>2, FoldExists
  <2>2. \A s \in SUBSET DOMAIN urls :
          iter[s] = IF s = {} THEN target
                    ELSE AppendHttpsUrl(iter[s \ {Max(s)}], urls[Max(s)])
    BY <1>1, <1>3, <2>1 DEF IsFold
  <2>3. DOMAIN iter = SUBSET DOMAIN urls /\ iter = [s \in DOMAIN iter |-> iter[s]]
    BY <1>1, <2>1 DEF IsFold
  <2>4. IsAppending(iter, target, urls)
    BY <2>2, <2>3 DEF IsAppending
  <2> QED
    BY <2>4
<1>5. PICK iter : /\ IsAppending(iter, target, urls)
                  /\ AppendHttpsUrls(target, urls) = iter[1 .. n]
  BY <1>1, <1>4, AppendUnfolds
<1>6. Follows(iter, n, HttpsLists, target, step)
  <2>1. iter[{}] = target
    BY <1>5 DEF IsAppending
  <2>2. \A s \in SUBSET (1 .. n) :
          s # {} => iter[s] = AppendHttpsUrl(iter[s \ {Max(s)}], urls[Max(s)])
    BY <1>1, <1>5 DEF IsAppending
  <2> QED
    BY <1>3, <2>1, <2>2 DEF Follows
<1>7. PICK list : IsLoop(list, n, HttpsLists, target, step) /\ list[n] = iter[1 .. n]
  BY <1>1, <1>2, <1>6, FoldIsLoop
<1>8. \A i \in 1 .. n : list[i] = AppendHttpsUrl(list[i - 1], urls[i])
  <2> TAKE i \in 1 .. n
  <2>1. i - 1 \in 0 .. n
    BY <1>1
  <2>2. list[i - 1] \in HttpsLists /\ list[i] = step[<<i, list[i - 1]>>]
    BY <1>7, <2>1 DEF IsLoop
  <2> QED
    BY <1>3, <2>2
<1> QED
  BY <1>5, <1>7, <1>8 DEF IsLoop, n

(* What it makes of a list: the HTTPS URLs it is given are in it, beside   *)
(* those it had, and none is there twice.                                  *)
LEMMA AppendHttpsUrlsType ==
  ASSUME NEW target \in HttpsLists, NEW U, NEW urls \in Seq(U)
  PROVE  /\ AppendHttpsUrls(target, urls) \in HttpsLists
         /\ ToSet(AppendHttpsUrls(target, urls)) = ToSet(target) \cup (ToSet(urls) \cap HttpsUrls)
<1> DEFINE n == Len(urls)
<1>1. n \in Nat /\ DOMAIN urls = 1 .. n
  OBVIOUS
<1>2. PICK list \in [0 .. n -> HttpsLists] :
        /\ list[0] = target
        /\ \A i \in 1 .. n : list[i] = AppendHttpsUrl(list[i - 1], urls[i])
        /\ AppendHttpsUrls(target, urls) = list[n]
  BY AppendIsLoop
<1> DEFINE UpTo(i) == ToSet(target) \cup ({urls[j] : j \in 1 .. i} \cap HttpsUrls)
           S == {i \in 0 .. n : ToSet(list[i]) = UpTo(i)}
<1>3. 0 \in S
  BY <1>1, <1>2
<1>4. ASSUME NEW i \in 0 .. n - 1, i \in S
      PROVE  i + 1 \in S
  <2>1. i + 1 \in 1 .. n /\ (i + 1) - 1 = i /\ i \in 0 .. n
    BY <1>1
  <2>2. list[i + 1] = AppendHttpsUrl(list[i], urls[i + 1]) /\ list[i] \in HttpsLists
    BY <1>2, <2>1
  <2>3. ToSet(list[i + 1]) = ToSet(list[i]) \cup ({urls[i + 1]} \cap HttpsUrls)
    BY <2>2, AppendHttpsUrlType
  <2>4. 1 .. i + 1 = (1 .. i) \cup {i + 1}
    BY <2>1
  <2>5. UpTo(i + 1) = UpTo(i) \cup ({urls[i + 1]} \cap HttpsUrls)
    BY <2>4
  <2> QED
    BY <1>4, <2>1, <2>3, <2>5
<1>5. n \in S
  <2> HIDE DEF S, n
  <2>1. 0 .. n \subseteq S
    BY <1>1, <1>3, <1>4, InductUpTo
  <2> QED
    BY <1>1, <2>1
<1>6. UpTo(n) = ToSet(target) \cup (ToSet(urls) \cap HttpsUrls)
  BY <1>1 DEF ToSet
<1> QED
  BY <1>1, <1>2, <1>5, <1>6

-----------------------------------------------------------------------------
(* resolve: what it has found, once the offers of some entries have been   *)
(* considered, each with the URLs of its service.                          *)
Found == [longest : Nat, candidates : HttpsLists]
Offers(service) == {<<service.entries[i], service.urls>> : i \in DOMAIN service.entries}
Matching(kind, k, offers) == {offer \in offers : Matches(kind, offer[1], k)}
UrlsOf(kind, k, offers, length) ==
  {url \in HttpsUrls : \E offer \in Matching(kind, k, offers) :
                          Specificity(kind, offer[1]) = length /\ url \in ToSet(offer[2])}
FoundBest(kind, k, offers, acc) ==
  /\ acc \in Found
  /\ \A offer \in Matching(kind, k, offers) : Specificity(kind, offer[1]) \in 0 .. acc.longest
  /\ Matching(kind, k, offers) = {} => acc.longest = 0
  /\ Matching(kind, k, offers) # {} =>
       \E offer \in Matching(kind, k, offers) : Specificity(kind, offer[1]) = acc.longest
  /\ ToSet(acc.candidates) = UrlsOf(kind, k, offers, acc.longest)

LEMMA EmptyList == <<>> \in HttpsLists /\ ToSet(<<>>) = {}
BY DEF HttpsLists, IsInjective, ToSet

LEMMA SpecificityType ==
  ASSUME NEW kind, NEW entry, IsEntry(kind, entry)
  PROVE  Specificity(kind, entry) \in Nat
BY DEF Specificity, IsEntry, IsSequence

LEMMA ConsiderType ==
  ASSUME NEW kind, NEW k, NEW urls, IsSequence(urls), NEW acc \in Found,
         NEW entry, IsEntry(kind, entry)
  PROVE  Consider(kind, k, urls, acc, entry) \in Found
<1> DEFINE sofar == IF Specificity(kind, entry) > acc.longest THEN <<>> ELSE acc.candidates
<1>1. sofar \in HttpsLists
  BY EmptyList DEF Found
<1>2. AppendHttpsUrls(sofar, urls) \in HttpsLists
  <2> HIDE DEF sofar
  <2> QED
    BY <1>1, AppendHttpsUrlsType DEF IsSequence
<1> QED
  BY <1>2, SpecificityType DEF Consider, Found

(* One entry more keeps it so. *)
LEMMA ConsiderFindsBest ==
  ASSUME NEW kind, NEW k, NEW urls, IsSequence(urls), NEW offers, NEW acc,
         FoundBest(kind, k, offers, acc), NEW entry, IsEntry(kind, entry)
  PROVE  FoundBest(kind, k, offers \cup {<<entry, urls>>}, Consider(kind, k, urls, acc, entry))
<1> DEFINE new == <<entry, urls>>
           all == offers \cup {new}
           length == Specificity(kind, entry)
           next == Consider(kind, k, urls, acc, entry)
<1>1. /\ acc \in Found /\ acc.longest \in Nat /\ acc.candidates \in HttpsLists
      /\ length \in Nat /\ next \in Found
      /\ new[1] = entry /\ new[2] = urls
  BY ConsiderType, SpecificityType DEF FoundBest, Found
<1>2. CASE ~Matches(kind, entry, k)
  <2>1. Matching(kind, k, all) = Matching(kind, k, offers) /\ next = acc
    BY <1>1, <1>2 DEF Matching, Consider
  <2> QED
    BY <2>1 DEF FoundBest, UrlsOf
<1>3. CASE Matches(kind, entry, k)
  <2>1. Matching(kind, k, all) = Matching(kind, k, offers) \cup {new}
    BY <1>1, <1>3 DEF Matching
  <2> DEFINE old == Matching(kind, k, offers)
  <2>2. /\ \A o \in old : Specificity(kind, o[1]) \in 0 .. acc.longest
        /\ old = {} => acc.longest = 0
        /\ old # {} => \E o \in old : Specificity(kind, o[1]) = acc.longest
        /\ ToSet(acc.candidates) = UrlsOf(kind, k, offers, acc.longest)
    BY DEF FoundBest
  <2>3. Specificity(kind, new[1]) = length /\ new[2] = urls
    BY <1>1
  <2>4. ASSUME NEW l
        PROVE  UrlsOf(kind, k, all, l) =
                 UrlsOf(kind, k, offers, l) \cup (IF l = length THEN ToSet(urls) \cap HttpsUrls ELSE {})
    <3> HIDE DEF new, all, length, old
    <3> QED
      BY <2>1, <2>3 DEF UrlsOf, old
  <2> DEFINE Better ==
               /\ \A o \in old \cup {new} : Specificity(kind, o[1]) \in 0 .. next.longest
               /\ \E o \in old \cup {new} : Specificity(kind, o[1]) = next.longest
               /\ ToSet(next.candidates) = UrlsOf(kind, k, all, next.longest)
  <2>5. ASSUME length < acc.longest PROVE Better
    <3>1. next = acc
      BY <2>5 DEF Consider
    <3>2. acc.longest # length /\ acc.longest # 0
      BY <1>1, <2>5
    <3> HIDE DEF new, all, length, next, old
    <3>3. UrlsOf(kind, k, all, acc.longest) = UrlsOf(kind, k, offers, acc.longest)
      BY <2>4, <3>2
    <3>4. \A o \in old \cup {new} : Specificity(kind, o[1]) \in 0 .. acc.longest
      BY <1>1, <2>2, <2>3, <2>5
    <3>5. \E o \in old : Specificity(kind, o[1]) = acc.longest
      BY <2>2, <3>2
    <3> QED
      BY <2>2, <3>1, <3>3, <3>4, <3>5
  <2>6. ASSUME length = acc.longest PROVE Better
    <3>1. next = [longest |-> length, candidates |-> AppendHttpsUrls(acc.candidates, urls)]
      BY <1>1, <1>3, <2>6 DEF Consider
    <3>2. /\ ToSet(next.candidates) = ToSet(acc.candidates) \cup (ToSet(urls) \cap HttpsUrls)
          /\ next.longest = length
      BY <1>1, <3>1, AppendHttpsUrlsType DEF IsSequence
    <3> HIDE DEF new, all, length, next, old
    <3>3. ToSet(next.candidates) = UrlsOf(kind, k, all, length)
      BY <2>2, <2>4, <2>6, <3>2
    <3>4. \A o \in old \cup {new} : Specificity(kind, o[1]) \in 0 .. length
      BY <1>1, <2>2, <2>3, <2>6
    <3> QED
      BY <2>3, <3>2, <3>3, <3>4
  <2>7. ASSUME length > acc.longest PROVE Better
    <3>1. next = [longest |-> length, candidates |-> AppendHttpsUrls(<<>>, urls)]
      BY <1>1, <1>3, <2>7 DEF Consider
    <3>2. ToSet(next.candidates) = ToSet(urls) \cap HttpsUrls /\ next.longest = length
      BY <3>1, EmptyList, AppendHttpsUrlsType DEF IsSequence
    <3> HIDE DEF new, all, length, next, old
    <3>3. \A o \in old : Specificity(kind, o[1]) \in 0 .. length /\ Specificity(kind, o[1]) # length
      BY <1>1, <2>2, <2>7
    <3>4. UrlsOf(kind, k, offers, length) = {}
      BY <3>3 DEF UrlsOf, old
    <3>5. ToSet(next.candidates) = UrlsOf(kind, k, all, length)
      BY <2>4, <3>2, <3>4
    <3>6. length \in 0 .. length
      BY <1>1
    <3> QED
      BY <2>3, <3>2, <3>3, <3>5, <3>6
  <2>8. Better
    <3> HIDE DEF Better
    <3> QED
      BY <1>1, <2>5, <2>6, <2>7
  <2>9. FoundBest(kind, k, all, next)
    <3>1. Matching(kind, k, all) = old \cup {new}
      BY <2>1
    <3> HIDE DEF new, all, length, next, old
    <3> QED
      BY <1>1, <2>8, <3>1 DEF FoundBest
  <2> QED
    BY <2>9
<1> QED
  BY <1>2, <1>3

(* The loop over the entries of one service, after each of them. *)
IsConsidering(iter, kind, k, acc, service) ==
  iter = [s \in SUBSET DOMAIN service.entries |->
            IF s = {} THEN acc
            ELSE LET x == Max(s)
                 IN  Consider(kind, k, service.urls, iter[s \ {x}], service.entries[x])]

LEMMA ConsiderUnfolds ==
  \A kind, k, acc, service :
    ConsiderService(kind, k, acc, service) =
      (CHOOSE iter : IsConsidering(iter, kind, k, acc, service))[DOMAIN service.entries]
BY DEF ConsiderService, FoldLeft, MapThenFoldSet, IsConsidering

Considered(found, kind, k, acc, service) ==
  LET n == Len(service.entries)
  IN  /\ found \in [0 .. n -> Found]
      /\ found[0] = acc
      /\ \A i \in 1 .. n :
           found[i] = Consider(kind, k, service.urls, found[i - 1], service.entries[i])
      /\ ConsiderService(kind, k, acc, service) = found[n]

LEMMA ConsiderIsLoop ==
  ASSUME NEW kind, NEW k, NEW acc \in Found, NEW service, IsService(kind, service)
  PROVE  \E found : Considered(found, kind, k, acc, service)
<1> DEFINE n == Len(service.entries)
           One(before, i) == Consider(kind, k, service.urls, before, service.entries[i])
           step == [p \in (1 .. n) \X Found |-> One(p[2], p[1])]
<1>1. n \in Nat /\ DOMAIN service.entries = 1 .. n
  BY DEF IsService, IsSequence
<1>2. \A i \in 1 .. n, before \in Found : One(before, i) \in Found
  BY <1>1, ConsiderType DEF IsService
<1>3. IsStep(step, n, Found)
  <2> HIDE DEF One, n
  <2> QED
    BY <1>2 DEF IsStep
<1>4. \A i \in 1 .. n, before \in Found : step[<<i, before>>] = One(before, i)
  OBVIOUS
<1> HIDE DEF n, step
<1>5. \E iter : IsConsidering(iter, kind, k, acc, service)
  <2>1. PICK iter : IsFold(iter, n, Found, acc, step)
    BY <1>1, <1>3, FoldExists
  <2>2. \A s \in SUBSET DOMAIN service.entries :
          iter[s] = IF s = {} THEN acc ELSE One(iter[s \ {Max(s)}], Max(s))
    <3> HIDE DEF One
    <3> QED
      BY <1>1, <1>4, <2>1 DEF IsFold
  <2>3. /\ DOMAIN iter = SUBSET DOMAIN service.entries
        /\ iter = [s \in DOMAIN iter |-> iter[s]]
    BY <1>1, <2>1 DEF IsFold
  <2>4. IsConsidering(iter, kind, k, acc, service)
    BY <2>2, <2>3 DEF IsConsidering
  <2> QED
    BY <2>4
<1>6. PICK iter : /\ IsConsidering(iter, kind, k, acc, service)
                  /\ ConsiderService(kind, k, acc, service) = iter[1 .. n]
  BY <1>1, <1>5, ConsiderUnfolds
<1>7. Follows(iter, n, Found, acc, step)
  <2>1. iter[{}] = acc
    BY <1>6 DEF IsConsidering
  <2>2. \A s \in SUBSET (1 .. n) : s # {} => iter[s] = One(iter[s \ {Max(s)}], Max(s))
    BY <1>1, <1>6 DEF IsConsidering
  <2> HIDE DEF One
  <2> QED
    BY <1>4, <2>1, <2>2 DEF Follows
<1>8. PICK found : IsLoop(found, n, Found, acc, step) /\ found[n] = iter[1 .. n]
  BY <1>1, <1>3, <1>7, FoldIsLoop
<1>9. \A i \in 1 .. n : found[i] = One(found[i - 1], i)
  <2> TAKE i \in 1 .. n
  <2>1. i - 1 \in 0 .. n
    BY <1>1
  <2>2. found[i - 1] \in Found /\ found[i] = step[<<i, found[i - 1]>>]
    BY <1>8, <2>1 DEF IsLoop
  <2> HIDE DEF One
  <2> QED
    BY <1>4, <2>2
<1>10. Considered(found, kind, k, acc, service)
  BY <1>6, <1>8, <1>9 DEF IsLoop, Considered, n
<1> QED
  BY <1>10

(* A whole service keeps it so. *)
LEMMA ServiceFindsBest ==
  ASSUME NEW kind, NEW k, NEW offers, NEW acc, FoundBest(kind, k, offers, acc),
         NEW service, IsService(kind, service)
  PROVE  FoundBest(kind, k, offers \cup Offers(service), ConsiderService(kind, k, acc, service))
<1> DEFINE n == Len(service.entries)
<1>1. n \in Nat /\ DOMAIN service.entries = 1 .. n /\ acc \in Found
  BY DEF IsService, IsSequence, FoundBest
<1>2. PICK found : Considered(found, kind, k, acc, service)
  BY <1>1, ConsiderIsLoop
<1> DEFINE UpTo(i) == offers \cup {<<service.entries[j], service.urls>> : j \in 1 .. i}
           S == {i \in 0 .. n : FoundBest(kind, k, UpTo(i), found[i])}
<1>3. 0 \in S
  <2>1. UpTo(0) = offers
    OBVIOUS
  <2> QED
    <3> HIDE DEF UpTo, n
    <3>1. 0 \in 0 .. n
      BY <1>1
    <3> QED
      BY <1>2, <2>1, <3>1 DEF Considered
<1>4. ASSUME NEW i \in 0 .. n - 1, i \in S
      PROVE  i + 1 \in S
  <2> DEFINE new == <<service.entries[i + 1], service.urls>>
  <2>1. i + 1 \in 1 .. n /\ (i + 1) - 1 = i
    BY <1>1
  <2>2. 1 .. i + 1 = (1 .. i) \cup {i + 1}
    BY <2>1
  <2>3. UpTo(i + 1) = UpTo(i) \cup {new}
    BY <2>2
  <2>4. found[i + 1] = Consider(kind, k, service.urls, found[i], service.entries[i + 1])
    BY <1>2, <2>1 DEF Considered
  <2>5. IsEntry(kind, service.entries[i + 1]) /\ IsSequence(service.urls)
    BY <1>1, <2>1 DEF IsService
  <2>6. FoundBest(kind, k, UpTo(i), found[i])
    BY <1>4
  <2>7. FoundBest(kind, k, UpTo(i) \cup {new}, found[i + 1])
    <3> HIDE DEF UpTo, n
    <3> QED
      BY <2>4, <2>5, <2>6, ConsiderFindsBest
  <2> QED
    <3>1. i + 1 \in 0 .. n
      BY <1>1, <2>1
    <3> HIDE DEF UpTo, n, new
    <3> QED
      BY <2>3, <2>7, <3>1
<1>5. n \in S
  <2> HIDE DEF S, n
  <2>1. 0 .. n \subseteq S
    BY <1>1, <1>3, <1>4, InductUpTo
  <2> QED
    BY <1>1, <2>1
<1>6. UpTo(n) = offers \cup Offers(service)
  BY <1>1 DEF Offers
<1> QED
  BY <1>2, <1>5, <1>6 DEF Considered

(* The loop over the services of a registry, after each of them. *)
IsResolving(iter, r, k) ==
  iter = [s \in SUBSET DOMAIN r.services |->
            IF s = {} THEN NoMatch
            ELSE LET x == Max(s) IN ConsiderService(r.kind, k, iter[s \ {x}], r.services[x])]

LEMMA ResolveUnfolds ==
  \A r, k : Resolve(r, k) = (CHOOSE iter : IsResolving(iter, r, k))[DOMAIN r.services]
BY DEF Resolve, FoldLeft, MapThenFoldSet, IsResolving

IsRegistry(r) ==
  /\ IsSequence(r.services)
  /\ \A i \in DOMAIN r.services : IsService(r.kind, r.services[i])
Resolved(found, r, k) ==
  LET n == Len(r.services)
  IN  /\ found \in [0 .. n -> Found]
      /\ found[0] = NoMatch
      /\ \A i \in 1 .. n : found[i] = ConsiderService(r.kind, k, found[i - 1], r.services[i])
      /\ Resolve(r, k) = found[n]

LEMMA NoMatchType == NoMatch \in Found
BY EmptyList DEF NoMatch, Found

LEMMA ConsiderServiceType ==
  ASSUME NEW kind, NEW k, NEW acc \in Found, NEW service, IsService(kind, service)
  PROVE  ConsiderService(kind, k, acc, service) \in Found
<1>1. PICK found : Considered(found, kind, k, acc, service)
  BY ConsiderIsLoop
<1>2. Len(service.entries) \in Nat
  BY DEF IsService, IsSequence
<1> QED
  BY <1>1, <1>2 DEF Considered

LEMMA ResolveIsLoop ==
  ASSUME NEW r, NEW k, IsRegistry(r)
  PROVE  \E found : Resolved(found, r, k)
<1> DEFINE n == Len(r.services)
           One(before, i) == ConsiderService(r.kind, k, before, r.services[i])
           step == [p \in (1 .. n) \X Found |-> One(p[2], p[1])]
<1>1. n \in Nat /\ DOMAIN r.services = 1 .. n /\ NoMatch \in Found
  BY NoMatchType DEF IsRegistry, IsSequence
<1>2. \A i \in 1 .. n, before \in Found : One(before, i) \in Found
  BY <1>1, ConsiderServiceType DEF IsRegistry
<1>3. IsStep(step, n, Found)
  <2> HIDE DEF One, n
  <2> QED
    BY <1>2 DEF IsStep
<1>4. \A i \in 1 .. n, before \in Found : step[<<i, before>>] = One(before, i)
  OBVIOUS
<1> HIDE DEF n, step
<1>5. \E iter : IsResolving(iter, r, k)
  <2>1. PICK iter : IsFold(iter, n, Found, NoMatch, step)
    BY <1>1, <1>3, FoldExists
  <2>2. \A s \in SUBSET DOMAIN r.services :
          iter[s] = IF s = {} THEN NoMatch ELSE One(iter[s \ {Max(s)}], Max(s))
    <3> HIDE DEF One
    <3> QED
      BY <1>1, <1>4, <2>1 DEF IsFold
  <2>3. DOMAIN iter = SUBSET DOMAIN r.services /\ iter = [s \in DOMAIN iter |-> iter[s]]
    BY <1>1, <2>1 DEF IsFold
  <2>4. IsResolving(iter, r, k)
    BY <2>2, <2>3 DEF IsResolving
  <2> QED
    BY <2>4
<1>6. PICK iter : IsResolving(iter, r, k) /\ Resolve(r, k) = iter[1 .. n]
  BY <1>1, <1>5, ResolveUnfolds
<1>7. Follows(iter, n, Found, NoMatch, step)
  <2>1. iter[{}] = NoMatch
    BY <1>6 DEF IsResolving
  <2>2. \A s \in SUBSET (1 .. n) : s # {} => iter[s] = One(iter[s \ {Max(s)}], Max(s))
    BY <1>1, <1>6 DEF IsResolving
  <2> HIDE DEF One
  <2> QED
    BY <1>4, <2>1, <2>2 DEF Follows
<1>8. PICK found : IsLoop(found, n, Found, NoMatch, step) /\ found[n] = iter[1 .. n]
  BY <1>1, <1>3, <1>7, FoldIsLoop
<1>9. \A i \in 1 .. n : found[i] = One(found[i - 1], i)
  <2> TAKE i \in 1 .. n
  <2>1. i - 1 \in 0 .. n
    BY <1>1
  <2>2. found[i - 1] \in Found /\ found[i] = step[<<i, found[i - 1]>>]
    BY <1>8, <2>1 DEF IsLoop
  <2> HIDE DEF One
  <2> QED
    BY <1>4, <2>2
<1>10. Resolved(found, r, k)
  BY <1>6, <1>8, <1>9 DEF IsLoop, Resolved, n
<1> QED
  BY <1>10

(* Hence resolve finds the best of everything the registry offers. *)
AllOffers(r) == UNION {Offers(r.services[i]) : i \in DOMAIN r.services}

LEMMA ResolveFindsBest ==
  ASSUME NEW r, NEW k, IsRegistry(r)
  PROVE  FoundBest(r.kind, k, AllOffers(r), Resolve(r, k))
<1> DEFINE n == Len(r.services)
<1>1. n \in Nat /\ DOMAIN r.services = 1 .. n
  BY DEF IsRegistry, IsSequence
<1>2. PICK found : Resolved(found, r, k)
  BY ResolveIsLoop
<1> DEFINE UpTo(i) == UNION {Offers(r.services[j]) : j \in 1 .. i}
           S == {i \in 0 .. n : FoundBest(r.kind, k, UpTo(i), found[i])}
<1>3. 0 \in S
  <2>1. UpTo(0) = {}
    OBVIOUS
  <2>2. FoundBest(r.kind, k, {}, NoMatch)
    BY NoMatchType, EmptyList DEF FoundBest, Matching, UrlsOf, NoMatch
  <2>3. 0 \in 0 .. n
    BY <1>1
  <2> HIDE DEF UpTo, n
  <2> QED
    BY <1>2, <2>1, <2>2, <2>3 DEF Resolved
<1>4. ASSUME NEW i \in 0 .. n - 1, i \in S
      PROVE  i + 1 \in S
  <2>1. i + 1 \in 1 .. n /\ i + 1 \in 0 .. n /\ (i + 1) - 1 = i
    BY <1>1
  <2>2. 1 .. i + 1 = (1 .. i) \cup {i + 1}
    BY <2>1
  <2>3. UpTo(i + 1) = UpTo(i) \cup Offers(r.services[i + 1])
    BY <2>2
  <2>4. found[i + 1] = ConsiderService(r.kind, k, found[i], r.services[i + 1])
    BY <1>2, <2>1 DEF Resolved
  <2>5. IsService(r.kind, r.services[i + 1])
    BY <1>1, <2>1 DEF IsRegistry
  <2>6. FoundBest(r.kind, k, UpTo(i), found[i])
    BY <1>4
  <2> HIDE DEF UpTo, n
  <2>7. FoundBest(r.kind, k, UpTo(i) \cup Offers(r.services[i + 1]), found[i + 1])
    BY <2>4, <2>5, <2>6, ServiceFindsBest
  <2> QED
    BY <2>1, <2>3, <2>7
<1>5. n \in S
  <2> HIDE DEF S, n
  <2>1. 0 .. n \subseteq S
    BY <1>1, <1>3, <1>4, InductUpTo
  <2> QED
    BY <1>1, <2>1
<1>6. UpTo(n) = AllOffers(r)
  BY <1>1 DEF AllOffers
<1> QED
  BY <1>2, <1>5, <1>6 DEF Resolved

-----------------------------------------------------------------------------
(* The best of what the registry offers are the URLs of its authoritative  *)
(* services.                                                               *)
LEMMA ResolveIsAuthoritative ==
  ASSUME IsRegistry(registry)
  PROVE  LET found == Resolve(registry, key).candidates
         IN  found \in HttpsLists /\ ToSet(found) = AuthoritativeUrls \cap HttpsUrls
<1> DEFINE kind == registry.kind
           matching == Matching(kind, key, AllOffers(registry))
           found == Resolve(registry, key)
           Service(i) == registry.services[i]
<1>1. FoundBest(kind, key, AllOffers(registry), found)
  BY ResolveFindsBest
<1>2. /\ found.candidates \in HttpsLists /\ found.longest \in Nat
      /\ \A o \in matching : Specificity(kind, o[1]) \in 0 .. found.longest
      /\ matching # {} => \E o \in matching : Specificity(kind, o[1]) = found.longest
      /\ ToSet(found.candidates) = UrlsOf(kind, key, AllOffers(registry), found.longest)
  BY <1>1 DEF FoundBest, Found
<1>3. ASSUME NEW o \in matching
      PROVE  \E i \in DOMAIN registry.services :
               o[1] \in MatchesOf(Service(i)) /\ o[2] = Service(i).urls
  <2>1. PICK i \in DOMAIN registry.services : o \in Offers(Service(i))
    BY DEF Matching, AllOffers
  <2>2. PICK j \in DOMAIN Service(i).entries : o = <<Service(i).entries[j], Service(i).urls>>
    BY <2>1 DEF Offers
  <2>3. Matches(kind, Service(i).entries[j], key)
    BY <2>2 DEF Matching
  <2> QED
    BY <2>2, <2>3 DEF MatchesOf
<1>4. ASSUME NEW i \in DOMAIN registry.services, NEW e \in MatchesOf(Service(i))
      PROVE  <<e, Service(i).urls>> \in matching
  <2>1. PICK j \in DOMAIN Service(i).entries :
          e = Service(i).entries[j] /\ Matches(kind, Service(i).entries[j], key)
    BY DEF MatchesOf
  <2>2. <<e, Service(i).urls>> \in AllOffers(registry)
    BY <2>1 DEF AllOffers, Offers
  <2> QED
    BY <2>1, <2>2 DEF Matching
<1>5. ASSUME NEW e \in AllMatches
      PROVE  Specificity(kind, e) \in 0 .. found.longest
  <2>1. PICK i \in DOMAIN registry.services : e \in MatchesOf(Service(i))
    BY DEF AllMatches
  <2>2. <<e, Service(i).urls>> \in matching
    BY <1>4, <2>1
  <2> HIDE DEF matching, found, kind
  <2> QED
    BY <1>2, <2>2
<1>6. ASSUME NEW url \in ToSet(found.candidates)
      PROVE  url \in AuthoritativeUrls /\ url \in HttpsUrls
  <2>1. PICK o \in matching : Specificity(kind, o[1]) = found.longest /\ url \in ToSet(o[2])
    BY <1>2 DEF UrlsOf
  <2>2. PICK i \in DOMAIN registry.services :
          o[1] \in MatchesOf(Service(i)) /\ o[2] = Service(i).urls
    BY <1>3
  <2>3. \A other \in AllMatches : Specificity(kind, other) <= Specificity(kind, o[1])
    <3> HIDE DEF kind, found
    <3> QED
      BY <1>2, <1>5, <2>1
  <2>4. Authoritative(Service(i))
    BY <2>2, <2>3 DEF Authoritative
  <2>5. url \in HttpsUrls
    BY <1>2 DEF UrlsOf
  <2> QED
    BY <2>1, <2>2, <2>4, <2>5 DEF AuthoritativeUrls
<1>7. ASSUME NEW url \in AuthoritativeUrls, url \in HttpsUrls
      PROVE  url \in ToSet(found.candidates)
  <2>1. PICK i \in DOMAIN registry.services : Authoritative(Service(i)) /\ url \in ToSet(Service(i).urls)
    BY DEF AuthoritativeUrls
  <2>2. PICK e \in MatchesOf(Service(i)) :
          \A other \in AllMatches : Specificity(kind, other) <= Specificity(kind, e)
    BY <2>1 DEF Authoritative
  <2>3. <<e, Service(i).urls>> \in matching
    BY <1>4, <2>2
  <2>4. PICK o \in matching : Specificity(kind, o[1]) = found.longest
    BY <1>2, <2>3
  <2>5. o[1] \in AllMatches /\ e \in AllMatches
    BY <1>3, <2>2 DEF AllMatches
  <2>6. Specificity(kind, e) = found.longest
    <3> HIDE DEF kind, found, matching
    <3>1. found.longest <= Specificity(kind, e) /\ Specificity(kind, e) \in 0 .. found.longest
      BY <1>5, <2>2, <2>4, <2>5
    <3> QED
      BY <1>2, <3>1
  <2> DEFINE best == <<e, Service(i).urls>>
  <2>7. best \in matching /\ Specificity(kind, best[1]) = found.longest /\ url \in ToSet(best[2])
    BY <2>1, <2>3, <2>6
  <2> HIDE DEF best, found
  <2> QED
    BY <1>2, <1>7, <2>7 DEF UrlsOf
<1> QED
  BY <1>2, <1>6, <1>7

Requests == [url : HttpsUrls, answer : Responses \cup {"transport", "too_large", "cancelled", None}]

(* The inductive invariant: what was contacted is a prefix of the services *)
(* and what has come of it, but for a request under way, is an outage as   *)
(* long as the loop goes on.                                               *)
ServicesResolved ==
  /\ services # <<>> => Accepts(registry) /\ services = Resolve(registry, key).candidates
  /\ result = "bootstrap" => ~Accepts(registry) \/ Resolve(registry, key).candidates = <<>>
FailedUpTo(n) == \A i \in 1 .. n : contacted[i].answer \in Outages
LoopInv ==
  /\ pc \in {"bootstrap", "query", "wait", "done"}
  /\ \E l \in Lookups : registry = l.registry /\ key = l.key
  /\ services \in Seq(HttpsUrls) /\ IsInjective(services)
  /\ contacted \in Seq(Requests) /\ Len(contacted) <= Len(services)
  /\ \A i \in 1 .. Len(contacted) : contacted[i].url = services[i]
  /\ pc = "bootstrap" => services = <<>>
  /\ pc # "done" => result = None
  /\ pc \in {"query", "wait"} => services # <<>>
  /\ pc = "query" => FailedUpTo(Len(contacted))
  /\ pc = "wait" => contacted # <<>>
  /\ FailedUpTo(Len(contacted) - 1)
  /\ EveryServiceTried
  /\ ServicesResolved

LEMMA RegistryType ==
  ASSUME NEW l \in Lookups, registry = l.registry
  PROVE  IsRegistry(registry)
BY LookupsAssumption DEF IsRegistry

LEMMA LoopInit == Init => LoopInv
BY EmptyList, NoneAssumption
DEF Init, LoopInv, HttpsLists, FailedUpTo, EveryServiceTried, ServicesResolved

LEMMA LoadRegistryInv == LoopInv /\ LoadRegistry => LoopInv'
<1> SUFFICES ASSUME LoopInv, LoadRegistry PROVE LoopInv'
  OBVIOUS
<1>1. /\ pc = "bootstrap" /\ services = <<>> /\ contacted = <<>>
      /\ UNCHANGED <<registry, key, contacted>>
  BY DEF LoadRegistry, LoopInv
<1>2. CASE /\ Accepts(registry) /\ services' = Resolve(registry, key).candidates /\ services' # <<>>
           /\ pc' = "query" /\ UNCHANGED result
  <2>1. services' \in Seq(HttpsUrls) /\ IsInjective(services')
    <3>1. IsRegistry(registry)
      BY RegistryType DEF LoopInv
    <3> QED
      BY <1>2, <3>1, ResolveIsAuthoritative DEF HttpsLists
  <2>2. ServicesResolved'
    BY <1>1, <1>2, NoneAssumption DEF LoopInv, ServicesResolved
  <2> QED
    BY <1>1, <1>2, <2>1, <2>2, NoneAssumption DEF LoopInv, FailedUpTo, EveryServiceTried
<1>3. ASSUME NEW answer \in {"bootstrap", "no_registry", "cancelled"},
             Return(answer), UNCHANGED services,
             answer = "bootstrap" => ~Accepts(registry) \/ Resolve(registry, key).candidates = <<>>
      PROVE  LoopInv'
  <2>1. ServicesResolved'
    BY <1>1, <1>3 DEF Return, ServicesResolved
  <2> QED
    BY <1>1, <1>3, <2>1 DEF LoopInv, Return, FailedUpTo, EveryServiceTried, Outages
<1> QED
  BY <1>2, <1>3 DEF LoadRegistry

LEMMA SendInv == LoopInv /\ Send => LoopInv'
<1> SUFFICES ASSUME LoopInv, Send PROVE LoopInv'
  OBVIOUS
<1> DEFINE n == Len(contacted)
           new == [url |-> services[n + 1], answer |-> None]
<1>1. n \in Nat /\ n + 1 \in 1 .. Len(services) /\ contacted' = Append(contacted, new)
  BY DEF LoopInv, Send
<1>2. new \in Requests
  BY <1>1 DEF LoopInv, Requests
<1>3. /\ contacted' \in Seq(Requests) /\ Len(contacted') = n + 1
      /\ \A i \in 1 .. n : contacted'[i] = contacted[i]
      /\ contacted'[n + 1].url = services[n + 1]
  BY <1>1, <1>2 DEF LoopInv
<1>4. \A i \in 1 .. n + 1 : contacted'[i].url = services[i]
  BY <1>1, <1>3 DEF LoopInv
<1>5. \A i \in 1 .. n : contacted'[i].answer \in Outages
  BY <1>3 DEF LoopInv, Send, FailedUpTo
<1> QED
  BY <1>1, <1>3, <1>4, <1>5, NoneAssumption
  DEF LoopInv, Send, FailedUpTo, EveryServiceTried, ServicesResolved

LEMMA ReceiveInv == LoopInv /\ Receive => LoopInv'
<1> SUFFICES ASSUME LoopInv, Receive PROVE LoopInv'
  OBVIOUS
<1> DEFINE n == Len(contacted)
<1>1. PICK answer \in Responses \cup Errors :
        /\ contacted' = [contacted EXCEPT ![n].answer = answer]
        /\ \/ Retryable(answer) /\ pc' = "query" /\ UNCHANGED result
           \/ ~Retryable(answer) /\ Return(answer)
  BY DEF Receive
<1>2. contacted \in Seq(Requests) /\ n \in 1 .. n
  BY DEF LoopInv, Receive
<1>3. answer \in Responses \cup {"transport", "too_large", "cancelled"}
  BY DEF Errors
<1>4. /\ contacted' \in Seq(Requests) /\ Len(contacted') = n
      /\ \A i \in 1 .. n : contacted'[i].url = contacted[i].url
      /\ \A i \in 1 .. n - 1 : contacted'[i].answer = contacted[i].answer
      /\ contacted'[n].answer = answer
  <2> DEFINE new == [contacted[n] EXCEPT !.answer = answer]
  <2>1. contacted[n] \in Requests
    BY <1>2
  <2>2. new \in Requests /\ new.url = contacted[n].url /\ new.answer = answer
    BY <1>3, <2>1 DEF Requests
  <2>3. contacted' = [contacted EXCEPT ![n] = new]
    BY <1>1
  <2> HIDE DEF new
  <2> QED
    BY <1>2, <2>2, <2>3
<1>5. CASE Retryable(answer) /\ pc' = "query" /\ UNCHANGED result
  <2>1. \A i \in 1 .. n : contacted'[i].answer \in Outages
    BY <1>2, <1>4, <1>5 DEF LoopInv, FailedUpTo, Retryable
  <2> QED
    BY <1>2, <1>4, <1>5, <2>1, NoneAssumption DEF LoopInv, Receive, FailedUpTo, EveryServiceTried, ServicesResolved
<1>6. CASE ~Retryable(answer) /\ Return(answer)
  <2>1. answer # "bootstrap"
    BY <1>3 DEF Responses
  <2> QED
    BY <1>2, <1>4, <1>6, <2>1
    DEF LoopInv, Receive, FailedUpTo, Retryable, Return, EveryServiceTried, ServicesResolved
<1> QED
  BY <1>1, <1>5, <1>6

LEMMA GiveUpInv == LoopInv /\ GiveUp => LoopInv'
<1> SUFFICES ASSUME LoopInv, GiveUp PROVE LoopInv'
  OBVIOUS
<1>1. Len(contacted) \in 1 .. Len(contacted)
  BY DEF LoopInv, GiveUp
<1>2. Last(contacted).answer \in Outages
  BY <1>1 DEF LoopInv, GiveUp, FailedUpTo, Last
<1>3. Last(contacted).answer # "bootstrap"
  BY <1>2 DEF Outages
<1>4. ServicesResolved'
  BY <1>3 DEF LoopInv, GiveUp, Return, ServicesResolved
<1> QED
  BY <1>4 DEF LoopInv, GiveUp, Return, FailedUpTo, EveryServiceTried

LEMMA LoopNext ==
  LoopInv /\ [Next]_vars => LoopInv'
<1> SUFFICES ASSUME LoopInv, [Next]_vars PROVE LoopInv'
  OBVIOUS
<1>1. CASE Cancel \/ UNCHANGED vars
  BY <1>1 DEF LoopInv, Cancel, FailedUpTo, EveryServiceTried, ServicesResolved, vars
<1> QED
  BY <1>1, LoadRegistryInv, SendInv, ReceiveInv, GiveUpInv DEF Next

-----------------------------------------------------------------------------
(* Another service is asked after outages only, and none is asked twice,   *)
(* whatever the services answer and whenever the user quits.               *)
THEOREM RetriesAreForOutages ==
  Spec => []RetriesOnlyOutages
<1>1. LoopInv => RetriesOnlyOutages
  <2> SUFFICES ASSUME LoopInv PROVE RetriesOnlyOutages
    OBVIOUS
  <2>1. ASSUME NEW i \in DOMAIN contacted, NEW j \in DOMAIN contacted,
               contacted[i].url = contacted[j].url
        PROVE  i = j
    <3>1. /\ i \in 1 .. Len(services) /\ j \in 1 .. Len(services)
          /\ contacted[i].url = services[i] /\ contacted[j].url = services[j]
      BY DEF LoopInv
    <3>2. IsInjective(services) /\ DOMAIN services = 1 .. Len(services)
      BY DEF LoopInv
    <3> QED
      BY <2>1, <3>1, <3>2 DEF IsInjective
  <2> QED
    BY <2>1 DEF LoopInv, FailedUpTo, RetriesOnlyOutages
<1>2. LoopInv /\ [Next]_vars => LoopInv'
  BY LoopNext
<1> QED
  BY <1>1, <1>2, LoopInit, PTL DEF Spec

(* An outage is reported only after every service had its turn.            *)
THEOREM OutageMeansAllTried ==
  Spec => []EveryServiceTried
<1>1. LoopInv => EveryServiceTried
  BY DEF LoopInv
<1>2. LoopInv /\ [Next]_vars => LoopInv'
  BY LoopNext
<1> QED
  BY <1>1, <1>2, LoopInit, PTL DEF Spec

(* The services asked are those of the longest match: all their HTTPS      *)
(* URLs, each once, and no other, whatever the order of the document.      *)
THEOREM AsksTheAuthoritative ==
  Spec => []ResolvesToAuthoritative
<1>1. LoopInv => ResolvesToAuthoritative
  <2> SUFFICES ASSUME LoopInv, services # <<>> PROVE ResolvesToAuthoritative
    BY DEF ResolvesToAuthoritative
  <2>1. IsRegistry(registry)
    BY RegistryType DEF LoopInv
  <2>2. services = Resolve(registry, key).candidates
    BY DEF LoopInv, ServicesResolved
  <2> QED
    BY <2>1, <2>2, ResolveIsAuthoritative DEF ResolvesToAuthoritative, HttpsLists
<1>2. LoopInv /\ [Next]_vars => LoopInv'
  BY LoopNext
<1> QED
  BY <1>1, <1>2, LoopInit, PTL DEF Spec

(* A lookup gives up without a request only if there is nobody to ask.     *)
THEOREM GivesUpForAReason ==
  Spec => []NothingOverlooked
<1>1. LoopInv => NothingOverlooked
  <2> SUFFICES ASSUME LoopInv, result = "bootstrap", Accepts(registry)
               PROVE  AuthoritativeUrls \cap HttpsUrls = {}
    BY DEF NothingOverlooked
  <2>1. IsRegistry(registry)
    BY RegistryType DEF LoopInv
  <2>2. Resolve(registry, key).candidates = <<>>
    BY DEF LoopInv, ServicesResolved
  <2> QED
    BY <2>1, <2>2, ResolveIsAuthoritative, EmptyList
<1>2. LoopInv /\ [Next]_vars => LoopInv'
  BY LoopNext
<1> QED
  BY <1>1, <1>2, LoopInit, PTL DEF Spec

(* What one entry offers stands in AllEntries. *)
LEMMA EntriesAreListed ==
  ASSUME IsRegistry(registry), registry.kind = "range",
         NEW i \in DOMAIN registry.services, NEW j \in DOMAIN registry.services[i].entries
  PROVE  /\ AllEntries(registry) \in Seq(Nat \X Nat)
         /\ registry.services[i].entries[j] \in ToSet(AllEntries(registry))
<1> DEFINE n == Len(registry.services)
           lists == [k \in DOMAIN registry.services |-> registry.services[k].entries]
<1>1. n \in Nat /\ DOMAIN registry.services = 1 .. n /\ i \in 1 .. n
  BY DEF IsRegistry, IsSequence
<1>2. ASSUME NEW k \in 1 .. n
      PROVE  registry.services[k].entries \in Seq(Nat \X Nat)
  <2> DEFINE s == registry.services[k].entries
  <2>1. s \in Seq(ToSet(s)) /\ \A l \in DOMAIN s : s[l] \in Nat \X Nat
    BY <1>1 DEF IsRegistry, IsService, IsSequence, IsEntry
  <2> HIDE DEF s
  <2>2. s \in Seq(Nat \X Nat)
    BY <2>1
  <2> QED
    BY <2>2 DEF s
<1>3. lists \in Seq(Seq(Nat \X Nat)) /\ lists # <<>> /\ i \in DOMAIN lists
  <2>1. lists \in [1 .. n -> Seq(Nat \X Nat)]
    BY <1>1, <1>2
  <2>2. DOMAIN lists = 1 .. n
    BY <1>1
  <2> DEFINE T == Seq(Nat \X Nat)
  <2> HIDE DEF lists, T, n
  <2>3. lists \in Seq(T)
    BY <1>1, <2>1, <2>2 DEF T
  <2>4. lists # <<>>
    BY <1>1, <2>2
  <2> QED
    BY <1>1, <2>2, <2>3, <2>4 DEF T
<1>4. AllEntries(registry) = FlattenSeq(lists)
  BY DEF AllEntries
<1>5. lists[i] = registry.services[i].entries
  OBVIOUS
<1>6. registry.services[i].entries[j] \in ToSet(lists[i])
  BY <1>5 DEF ToSet
<1> HIDE DEF lists
<1> QED
  BY <1>3, <1>4, <1>6, FlattenRange

(* An AS number has one holder. *)
THEOREM AsksOneHolder ==
  Spec => []OneHolder
<1>1. LoopInv => OneHolder
  <2> SUFFICES ASSUME LoopInv, registry.kind = "range", services # <<>>
               PROVE  Cardinality({i \in DOMAIN AllEntries(registry) :
                                     InRange(key, AllEntries(registry)[i])}) = 1
    BY DEF OneHolder
  <2> DEFINE all == AllEntries(registry)
             holders == {i \in DOMAIN all : InRange(key, all[i])}
             found == Resolve(registry, key)
  <2>1. IsRegistry(registry) /\ key \in Nat
    BY RegistryType, LookupsAssumption DEF LoopInv
  <2>2. Accepts(registry) /\ found.candidates # <<>> /\ found.candidates \in Seq(HttpsUrls)
    BY DEF LoopInv, ServicesResolved
  <2>3. FoundBest(registry.kind, key, AllOffers(registry), found)
    BY <2>1, ResolveFindsBest
  <2>4. PICK offer \in AllOffers(registry) : Matches(registry.kind, offer[1], key)
    <3>1. found.candidates[1] \in ToSet(found.candidates)
      BY <2>2 DEF ToSet
    <3>2. Matching(registry.kind, key, AllOffers(registry)) # {}
      BY <2>3, <3>1 DEF FoundBest, UrlsOf
    <3> QED
      BY <3>2 DEF Matching
  <2>5. PICK i \in DOMAIN registry.services : offer \in Offers(registry.services[i])
    BY DEF AllOffers
  <2>6. PICK j \in DOMAIN registry.services[i].entries :
           offer = <<registry.services[i].entries[j], registry.services[i].urls>>
    BY <2>5 DEF Offers
  <2>7. InRange(key, registry.services[i].entries[j])
    BY <2>4, <2>6 DEF Matches
  <2>8. all \in Seq(Nat \X Nat) /\ registry.services[i].entries[j] \in ToSet(all)
    BY <2>1, EntriesAreListed
  <2>9. PICK p \in DOMAIN all : InRange(key, all[p])
    BY <2>7, <2>8 DEF ToSet
  <2> HIDE DEF all
  <2>10. ASSUME NEW q \in holders
        PROVE  q = p
    <3>1. \A a, b \in DOMAIN all : a < b => ~Overlaps(all[b], all[a])
      BY <2>2 DEF Accepts, all
    <3>2. Overlaps(all[p], all[q]) /\ Overlaps(all[q], all[p])
      <4>1. all[p] \in Nat \X Nat /\ all[q] \in Nat \X Nat
        BY <2>8
      <4>2. InRange(key, all[p]) /\ InRange(key, all[q])
        BY <2>9
      <4> QED
        BY <2>1, <4>1, <4>2 DEF InRange, Overlaps
    <3>3. p \in 1 .. Len(all) /\ q \in 1 .. Len(all) /\ Len(all) \in Nat
      BY <2>8
    <3> QED
      BY <3>1, <3>2, <3>3
  <2>11. holders = {p}
    BY <2>9, <2>10
  <2>12. Cardinality(holders) = 1
    BY <2>11, FS_Singleton
  <2> QED
    BY <2>12 DEF all
<1>2. LoopInv /\ [Next]_vars => LoopInv'
  BY LoopNext
<1> QED
  BY <1>1, <1>2, LoopInit, PTL DEF Spec

=============================================================================
