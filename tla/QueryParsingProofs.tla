------------------------- MODULE QueryParsingProofs -------------------------
(***************************************************************************)
(* Theorems about QueryParsing, for every text and every limit.            *)
(*                                                                         *)
(* What the parsers return comes first: the parts of Split, names and      *)
(* labels, Numeral and NumberOf, addresses, and the query as a whole, as   *)
(* far as DomainsAreHostNames and NetworksArePrefixes need it.             *)
(*                                                                         *)
(* Then every canonical text is parsed again (RoundTrips): AS numbers,     *)
(* domains, networks, IPv4 addresses, and the spellings of an IPv6         *)
(* address, group by group.  This gives QueriesKeepTheirMeaning, and with  *)
(* the groups that a spelling writes, CanonicalTextsAreShortest.           *)
(***************************************************************************)
EXTENDS QueryParsing, FoldInduction, SequenceTheorems, FiniteSetTheorems

(* Parts of a text. *)
LEMMA PartOfText ==
  ASSUME NEW C, NEW s \in Seq(C), NEW m \in 1 .. Len(s) + 1, NEW n \in m - 1 .. Len(s)
  PROVE  /\ SubSeq(s, m, n) \in Seq(C) /\ Len(SubSeq(s, m, n)) = n - m + 1
         /\ \A i \in 1 .. n - m + 1 : SubSeq(s, m, n)[i] = s[m + i - 1]
<1>1. m \in Int /\ n \in Int /\ \A i \in m .. n : s[i] \in C
  OBVIOUS
<1>2. /\ SubSeq(s, m, n) \in Seq(C)
      /\ Len(SubSeq(s, m, n)) = IF m <= n THEN n - m + 1 ELSE 0
      /\ \A i \in 1 .. n - m + 1 : SubSeq(s, m, n)[i] = s[m + i - 1]
  BY <1>1, SubSeqProperties
<1>3. (IF m <= n THEN n - m + 1 ELSE 0) = n - m + 1
  BY <1>1
<1> QED
  BY <1>2, <1>3

LEMMA MinIsIn ==
  ASSUME NEW S \in SUBSET Nat, S # {}
  PROVE  Min(S) \in S /\ \A n \in S : Min(S) <= n
BY Least DEF Min

(* Trim leaves a text that neither begins nor ends with a blank, and       *)
(* leaves such a text alone.                                               *)
IsTrimmed(s) == s # <<>> => s[1] # " " /\ s[Len(s)] # " "

LEMMA TrimIsTrimmed ==
  ASSUME NEW C, NEW s \in Seq(C)
  PROVE  Trim(s) \in Seq(C) /\ IsTrimmed(Trim(s))
<1> DEFINE solid == {i \in DOMAIN s : s[i] # " "}
<1>0. Len(s) \in Nat
  OBVIOUS
<1>1. solid \in SUBSET (1 .. Len(s)) /\ solid \in SUBSET Nat
  <2>1. Len(s) \in Nat /\ DOMAIN s = 1 .. Len(s)
    OBVIOUS
  <2>2. \A i \in 1 .. Len(s) : i \in Nat
    BY <2>1
  <2>3. \A i \in solid : i \in 1 .. Len(s)
    BY <2>1
  <2> QED
    BY <2>1, <2>2, <2>3
<1>2. CASE solid = {}
  <2>1. Trim(s) = <<>>
    BY <1>2 DEF Trim
  <2> QED
    BY <2>1 DEF IsTrimmed
<1>3. CASE solid # {}
  <2> DEFINE a == Min(solid)  b == Max(solid)
  <2>1. a \in solid /\ b \in solid /\ a <= b
    <3> HIDE DEF solid
    <3>1. a \in solid /\ b \in solid /\ \A n \in solid : a <= n
      BY <1>0, <1>1, <1>3, MinIsIn, MaxIsIn
    <3> HIDE DEF a, b
    <3> QED
      BY <3>1
  <2>2. Trim(s) = SubSeq(s, a, b)
    BY <1>3 DEF Trim
  <2>3. s[a] # " " /\ s[b] # " "
    BY <2>1
  <2>6. a \in 1 .. Len(s) /\ b \in 1 .. Len(s)
    BY <1>1, <2>1
  <2> HIDE DEF a, b, solid
  <2>7. a \in 1 .. Len(s) + 1 /\ b \in a - 1 .. Len(s)
    BY <1>0, <2>1, <2>6
  <2>4. /\ Trim(s) \in Seq(C) /\ Len(Trim(s)) = b - a + 1
        /\ \A i \in 1 .. b - a + 1 : Trim(s)[i] = s[a + i - 1]
    BY <2>2, <2>7, PartOfText
  <2>5. Trim(s)[1] = s[a] /\ Trim(s)[Len(Trim(s))] = s[b]
    <3>1. /\ 1 \in 1 .. b - a + 1 /\ b - a + 1 \in 1 .. b - a + 1
          /\ a + 1 - 1 = a /\ a + (b - a + 1) - 1 = b
      BY <1>0, <2>1, <2>6
    <3>2. Trim(s)[1] = s[a + 1 - 1] /\ Trim(s)[b - a + 1] = s[a + (b - a + 1) - 1]
      BY <2>4, <3>1
    <3> QED
      BY <2>4, <3>1, <3>2
  <2> QED
    BY <2>3, <2>4, <2>5 DEF IsTrimmed
<1> QED
  BY <1>2, <1>3

LEMMA TrimmedStays ==
  ASSUME NEW C, NEW s \in Seq(C), IsTrimmed(s)
  PROVE  Trim(s) = s
<1> DEFINE solid == {i \in DOMAIN s : s[i] # " "}
<1>0. Len(s) \in Nat
  OBVIOUS
<1>1. solid \in SUBSET (1 .. Len(s)) /\ solid \in SUBSET Nat
  <2>1. Len(s) \in Nat /\ DOMAIN s = 1 .. Len(s)
    OBVIOUS
  <2>2. \A i \in 1 .. Len(s) : i \in Nat
    BY <2>1
  <2>3. \A i \in solid : i \in 1 .. Len(s)
    BY <2>1
  <2> QED
    BY <2>1, <2>2, <2>3
<1>2. CASE s = <<>>
  BY <1>2 DEF Trim
<1>3. CASE s # <<>>
  <2>1. 1 \in solid /\ Len(s) \in solid
    <3>1. 1 \in DOMAIN s /\ Len(s) \in DOMAIN s
      BY <1>3
    <3> QED
      BY <1>3, <3>1 DEF IsTrimmed
  <2> HIDE DEF solid
  <2>2. Min(solid) \in solid /\ Min(solid) <= 1 /\ Max(solid) \in solid /\ Len(s) <= Max(solid)
    BY <1>1, <2>1, MinIsIn, MaxIsIn
  <2>3. Min(solid) = 1 /\ Max(solid) = Len(s)
    <3>1. Min(solid) \in 1 .. Len(s) /\ Max(solid) \in 1 .. Len(s)
      BY <1>1, <2>2
    <3> QED
      BY <1>0, <2>2, <3>1
  <2>4. Trim(s) = SubSeq(s, 1, Len(s))
    BY <2>1, <2>3 DEF Trim, solid
  <2>5. 1 \in 1 .. Len(s) + 1 /\ Len(s) \in 1 - 1 .. Len(s) /\ Len(s) - 1 + 1 = Len(s)
    BY <1>0
  <2>6. /\ Trim(s) \in Seq(C) /\ Len(Trim(s)) = Len(s)
        /\ \A i \in 1 .. Len(s) : Trim(s)[i] = s[1 + i - 1]
    BY <2>4, <2>5, PartOfText
  <2>7. \A i \in 1 .. Len(s) : Trim(s)[i] = s[i]
    BY <1>0, <2>6
  <2> QED
    BY <2>6, <2>7, SeqEqual
<1> QED
  BY <1>2, <1>3

LEMMA TrimTwice ==
  ASSUME NEW C, NEW s \in Seq(C)
  PROVE  Trim(Trim(s)) = Trim(s)
BY TrimIsTrimmed, TrimmedStays

-----------------------------------------------------------------------------
(* Split: its loop, after each character, and where it cuts.               *)
SplitAt(parts, x, c) ==
  IF x = c THEN Append(parts, <<>>) ELSE [parts EXCEPT ![Len(parts)] = Append(@, x)]
IsSplitting(iter, s, c) ==
  iter = [S \in SUBSET DOMAIN s |->
            IF S = {} THEN << <<>> >> ELSE SplitAt(iter[S \ {Max(S)}], s[Max(S)], c)]
PartLists(C) == {parts \in Seq(Seq(C)) : parts # <<>>}

LEMMA SplitUnfolds ==
  \A s, c : Split(s, c) = (CHOOSE iter : IsSplitting(iter, s, c))[DOMAIN s]
BY DEF Split, FoldLeft, MapThenFoldSet, IsSplitting, SplitAt

LEMMA SplitAtType ==
  ASSUME NEW C, NEW x \in C, NEW c, NEW parts \in PartLists(C)
  PROVE  /\ SplitAt(parts, x, c) \in PartLists(C) /\ Len(parts) \in Nat /\ Len(parts) > 0
         /\ \A k \in 1 .. Len(parts) : parts[k] \in Seq(C)
         /\ x = c => /\ Len(SplitAt(parts, x, c)) = Len(parts) + 1
                     /\ \A k \in 1 .. Len(parts) : SplitAt(parts, x, c)[k] = parts[k]
                     /\ SplitAt(parts, x, c)[Len(parts) + 1] = <<>>
         /\ x # c => /\ Len(SplitAt(parts, x, c)) = Len(parts)
                     /\ \A k \in 1 .. Len(parts) - 1 : SplitAt(parts, x, c)[k] = parts[k]
                     /\ SplitAt(parts, x, c)[Len(parts)] = Append(parts[Len(parts)], x)
<1>1. /\ parts \in Seq(Seq(C)) /\ Len(parts) \in Nat /\ Len(parts) > 0
      /\ \A k \in 1 .. Len(parts) : parts[k] \in Seq(C)
  BY DEF PartLists
<1>2. CASE x = c
  <2>1. SplitAt(parts, x, c) = Append(parts, <<>>) /\ <<>> \in Seq(C)
    BY <1>2 DEF SplitAt
  <2>2. /\ Append(parts, <<>>) \in Seq(Seq(C)) /\ Len(Append(parts, <<>>)) = Len(parts) + 1
        /\ \A k \in 1 .. Len(parts) : Append(parts, <<>>)[k] = parts[k]
        /\ Append(parts, <<>>)[Len(parts) + 1] = <<>> /\ Append(parts, <<>>) # <<>>
    BY <1>1, <2>1, AppendProperties
  <2> QED
    BY <1>1, <1>2, <2>1, <2>2 DEF PartLists
<1>3. CASE x # c
  <2> DEFINE last == Append(parts[Len(parts)], x)
  <2>1. last \in Seq(C)
    BY <1>1
  <2> HIDE DEF last
  <2>2. SplitAt(parts, x, c) = [parts EXCEPT ![Len(parts)] = last]
    BY <1>3 DEF SplitAt, last
  <2>3. /\ [parts EXCEPT ![Len(parts)] = last] \in Seq(Seq(C))
        /\ Len([parts EXCEPT ![Len(parts)] = last]) = Len(parts)
        /\ \A k \in 1 .. Len(parts) - 1 : [parts EXCEPT ![Len(parts)] = last][k] = parts[k]
        /\ [parts EXCEPT ![Len(parts)] = last][Len(parts)] = last
    <3>1. Len(parts) \in 1 .. Len(parts) /\ \A k \in 1 .. Len(parts) - 1 : k \in 1 .. Len(parts) /\ k # Len(parts)
      BY <1>1
    <3>2. /\ [parts EXCEPT ![Len(parts)] = last] \in Seq(Seq(C))
          /\ Len([parts EXCEPT ![Len(parts)] = last]) = Len(parts)
          /\ \A k \in 1 .. Len(parts) : [parts EXCEPT ![Len(parts)] = last][k] =
                                         IF k = Len(parts) THEN last ELSE parts[k]
      BY <1>1, <2>1, <3>1, ExceptSeq
    <3> QED
      BY <3>1, <3>2
  <2>4. [parts EXCEPT ![Len(parts)] = last] # <<>>
    <3> DEFINE changed == [parts EXCEPT ![Len(parts)] = last]
    <3>1. Len(changed) > 0
      BY <1>1, <2>3
    <3> HIDE DEF changed
    <3>2. changed # <<>>
      BY <3>1
    <3> QED
      BY <3>2 DEF changed
  <2> QED
    BY <1>1, <1>3, <2>2, <2>3, <2>4 DEF PartLists, last
<1> QED
  BY <1>2, <1>3

(* What Split returns after each character: a fold is a loop. *)
IsSplitLoop(list, C, s, c) ==
  /\ list \in [0 .. Len(s) -> PartLists(C)]
  /\ list[0] = << <<>> >>
  /\ \A i \in 1 .. Len(s) : list[i] = SplitAt(list[i - 1], s[i], c)
  /\ Split(s, c) = list[Len(s)]

LEMMA SplitIsLoop ==
  ASSUME NEW C, NEW s \in Seq(C), NEW c
  PROVE  \E list : IsSplitLoop(list, C, s, c)
<1> DEFINE n == Len(s)
           V == PartLists(C)
           step == [p \in (1 .. n) \X V |-> SplitAt(p[2], s[p[1]], c)]
<1>1. n \in Nat /\ DOMAIN s = 1 .. n /\ \A i \in 1 .. n : s[i] \in C
  OBVIOUS
<1>2. IsStep(step, n, V)
  <2>1. \A p \in (1 .. n) \X V : SplitAt(p[2], s[p[1]], c) \in V
    BY <1>1, SplitAtType
  <2> QED
    BY <2>1 DEF IsStep
<1>3. \A i \in 1 .. n, list \in V : step[<<i, list>>] = SplitAt(list, s[i], c)
  OBVIOUS
<1>4. << <<>> >> \in V
  BY DEF PartLists
<1> HIDE DEF n, step, V
<1>5. \E iter : IsSplitting(iter, s, c)
  <2>1. PICK iter : IsFold(iter, n, V, << <<>> >>, step)
    BY <1>1, <1>2, <1>4, FoldExists
  <2>2. \A S \in SUBSET DOMAIN s :
          iter[S] = IF S = {} THEN << <<>> >> ELSE SplitAt(iter[S \ {Max(S)}], s[Max(S)], c)
    BY <1>1, <1>3, <2>1 DEF IsFold
  <2>3. DOMAIN iter = SUBSET DOMAIN s /\ iter = [S \in DOMAIN iter |-> iter[S]]
    BY <1>1, <2>1 DEF IsFold
  <2>4. IsSplitting(iter, s, c)
    BY <2>2, <2>3 DEF IsSplitting
  <2> QED
    BY <2>4
<1>6. PICK iter : IsSplitting(iter, s, c) /\ Split(s, c) = iter[1 .. n]
  BY <1>1, <1>5, SplitUnfolds
<1>7. Follows(iter, n, V, << <<>> >>, step)
  <2>1. iter[{}] = << <<>> >>
    BY <1>6 DEF IsSplitting
  <2>2. \A S \in SUBSET (1 .. n) : S # {} => iter[S] = SplitAt(iter[S \ {Max(S)}], s[Max(S)], c)
    BY <1>1, <1>6 DEF IsSplitting
  <2> QED
    BY <1>3, <2>1, <2>2 DEF Follows
<1>8. PICK list : IsLoop(list, n, V, << <<>> >>, step) /\ list[n] = iter[1 .. n]
  BY <1>1, <1>2, <1>4, <1>7, FoldIsLoop
<1>9. \A i \in 1 .. n : list[i] = SplitAt(list[i - 1], s[i], c)
  <2> TAKE i \in 1 .. n
  <2>1. i - 1 \in 0 .. n
    BY <1>1
  <2>2. list[i - 1] \in V /\ list[i] = step[<<i, list[i - 1]>>]
    BY <1>8, <2>1 DEF IsLoop
  <2> QED
    BY <1>3, <2>2
<1>10. list \in [0 .. n -> V] /\ list[0] = << <<>> >> /\ Split(s, c) = list[n]
  BY <1>6, <1>8 DEF IsLoop
<1>11. IsSplitLoop(list, C, s, c)
  BY <1>9, <1>10 DEF IsSplitLoop, n, V
<1> QED
  BY <1>11

(* Where the first n characters of a text are cut: in front, behind, and   *)
(* at every c; the parts are what is between two cuts.                     *)
IsCut(cut, m, s, n, c) ==
  /\ cut \in [0 .. m -> Nat] /\ cut[0] = 0 /\ cut[m] = n + 1
  /\ \A j, k \in 0 .. m : j < k => cut[j] < cut[k]
  /\ \A k \in 1 .. m - 1 : s[cut[k]] = c
  /\ \A i \in 1 .. n : s[i] = c => \E k \in 1 .. m - 1 : cut[k] = i
IsPart(part, s, a, b) == Len(part) = b - a - 1 /\ \A i \in 1 .. b - a - 1 : part[i] = s[a + i]
AreParts(parts, m, cut, s) ==
  m = Len(parts) /\ \A k \in 1 .. m : IsPart(parts[k], s, cut[k - 1], cut[k])
IsSplit(parts, s, n, c) ==
  \E m \in Nat \ {0} : \E cut \in [0 .. m -> Nat] : IsCut(cut, m, s, n, c) /\ AreParts(parts, m, cut, s)

(* One more character keeps the parts what stands between the cuts. *)
LEMMA SplitStep ==
  ASSUME NEW C, NEW s \in Seq(C), NEW c, NEW n \in Nat, n + 1 \in 1 .. Len(s),
         NEW parts \in PartLists(C), IsSplit(parts, s, n, c)
  PROVE  IsSplit(SplitAt(parts, s[n + 1], c), s, n + 1, c)
<1> DEFINE x == s[n + 1]
           next == SplitAt(parts, x, c)
<1>1. PICK m \in Nat \ {0} : \E cut \in [0 .. m -> Nat] : IsCut(cut, m, s, n, c) /\ AreParts(parts, m, cut, s)
  BY DEF IsSplit
<1>2. PICK cut \in [0 .. m -> Nat] : IsCut(cut, m, s, n, c) /\ AreParts(parts, m, cut, s)
  BY <1>1
<1>3. x \in C
  OBVIOUS
<1>4. m = Len(parts) /\ m \in Nat /\ m > 0 /\ \A k \in 1 .. m : parts[k] \in Seq(C)
  BY <1>2, <1>3, SplitAtType DEF AreParts
<1>5. /\ cut[0] = 0 /\ cut[m] = n + 1
      /\ \A j, k \in 0 .. m : j < k => cut[j] < cut[k]
  BY <1>2 DEF IsCut
<1>6. \A k \in 1 .. m - 1 : s[cut[k]] = c
  BY <1>2 DEF IsCut
<1>7. \A i \in 1 .. n : s[i] = c => \E k \in 1 .. m - 1 : cut[k] = i
  BY <1>2 DEF IsCut
<1>8. \A k \in 1 .. m : IsPart(parts[k], s, cut[k - 1], cut[k])
  BY <1>2 DEF AreParts
<1> HIDE DEF x
<1>9. CASE x = c
  <2> DEFINE new == [k \in 0 .. m + 1 |-> IF k <= m THEN cut[k] ELSE n + 2]
  <2>1. m + 1 \in Nat \ {0} /\ \A k \in 0 .. m + 1 : k \in 0 .. m \/ k = m + 1
    BY <1>4
  <2>2. \A k \in 0 .. m : k <= m /\ k \in 0 .. m + 1
    BY <1>4
  <2>3. ~(m + 1 <= m) /\ m + 1 \in 0 .. m + 1
    BY <1>4
  <2>4. new[m + 1] = n + 2 /\ \A k \in 0 .. m : new[k] = cut[k]
    BY <2>2, <2>3
  <2>5. new \in [0 .. m + 1 -> Nat]
    OBVIOUS
  <2> HIDE DEF new
  <2>6. \A j, k \in 0 .. m + 1 : j < k => new[j] < new[k]
    <3>1. ASSUME NEW j \in 0 .. m PROVE cut[j] <= n + 1 /\ cut[j] \in Nat
      BY <1>4, <1>5
    <3>2. ASSUME NEW j \in 0 .. m + 1, NEW k \in 0 .. m + 1, j < k PROVE new[j] < new[k]
      <4>1. CASE k = m + 1
        <5>1. j \in 0 .. m
          BY <1>4, <3>2, <4>1
        <5> QED
          BY <2>4, <3>1, <4>1, <5>1
      <4>2. CASE k # m + 1
        <5>1. j \in 0 .. m /\ k \in 0 .. m
          BY <1>4, <3>2, <4>2
        <5> QED
          BY <1>5, <2>4, <3>2, <5>1
      <4> QED
        BY <4>1, <4>2
    <3> QED
      BY <3>2
  <2>7. \A k \in 1 .. (m + 1) - 1 : s[new[k]] = c
    <3>1. \A k \in 1 .. (m + 1) - 1 : k \in 0 .. m /\ (k \in 1 .. m - 1 \/ k = m)
      BY <1>4
    <3>2. m \in 0 .. m
      BY <1>4
    <3>3. s[new[m]] = c
      BY <1>5, <1>9, <2>4, <3>2 DEF x
    <3>4. \A k \in 1 .. m - 1 : s[new[k]] = c
      <4>1. \A k \in 1 .. m - 1 : k \in 0 .. m
        BY <1>4
      <4> QED
        BY <1>6, <2>4, <4>1
    <3> QED
      BY <3>1, <3>3, <3>4
  <2>8. \A i \in 1 .. n + 1 : s[i] = c => \E k \in 1 .. (m + 1) - 1 : new[k] = i
    <3>1. m \in 1 .. (m + 1) - 1 /\ m \in 0 .. m /\ \A k \in 1 .. m - 1 : k \in 1 .. (m + 1) - 1 /\ k \in 0 .. m
      BY <1>4
    <3>2. \A i \in 1 .. n + 1 : i \in 1 .. n \/ i = n + 1
      OBVIOUS
    <3> QED
      BY <1>5, <1>7, <2>4, <3>1, <3>2
  <2>9. IsCut(new, m + 1, s, n + 1, c)
    <3>1. new[0] = 0 /\ new[m + 1] = (n + 1) + 1
      BY <1>4, <1>5, <2>4
    <3> QED
      BY <2>5, <2>6, <2>7, <2>8, <3>1 DEF IsCut
  <2>10. AreParts(next, m + 1, new, s)
    <3>1. Len(next) = m + 1 /\ next[m + 1] = <<>> /\ \A k \in 1 .. m : next[k] = parts[k]
      BY <1>3, <1>4, <1>9, SplitAtType
    <3> HIDE DEF next
    <3>2. IsPart(next[m + 1], s, new[(m + 1) - 1], new[m + 1])
      <4>1. (m + 1) - 1 = m /\ m \in 0 .. m
        BY <1>4
      <4>2. new[(m + 1) - 1] = n + 1 /\ new[m + 1] = n + 2 /\ Len(next[m + 1]) = 0
        BY <1>5, <2>4, <3>1, <4>1
      <4> QED
        BY <4>2 DEF IsPart
    <3>3. \A k \in 1 .. m : IsPart(next[k], s, new[k - 1], new[k])
      <4>1. \A k \in 1 .. m : k \in 0 .. m /\ k - 1 \in 0 .. m
        BY <1>4
      <4> QED
        BY <1>8, <2>4, <3>1, <4>1
    <3>4. \A k \in 1 .. m + 1 : k \in 1 .. m \/ k = m + 1
      BY <1>4
    <3> QED
      BY <3>1, <3>2, <3>3, <3>4 DEF AreParts
  <2> QED
    BY <2>1, <2>5, <2>9, <2>10 DEF IsSplit, x
<1>10. CASE x # c
  <2> DEFINE new == [k \in 0 .. m |-> IF k < m THEN cut[k] ELSE n + 2]
  <2>1. m \in 0 .. m /\ ~(m < m) /\ \A k \in 0 .. m - 1 : k \in 0 .. m /\ k < m
    BY <1>4
  <2>2. new[m] = n + 2 /\ \A k \in 0 .. m - 1 : new[k] = cut[k]
    BY <2>1
  <2>3. new \in [0 .. m -> Nat]
    OBVIOUS
  <2> HIDE DEF new
  <2>4. \A j, k \in 0 .. m : j < k => new[j] < new[k]
    <3>1. ASSUME NEW j \in 0 .. m PROVE cut[j] <= n + 1 /\ cut[j] \in Nat
      BY <1>4, <1>5
    <3>2. ASSUME NEW j \in 0 .. m, NEW k \in 0 .. m, j < k PROVE new[j] < new[k]
      <4>1. j \in 0 .. m - 1 /\ (k = m \/ k \in 0 .. m - 1)
        BY <1>4, <3>2
      <4> QED
        BY <1>5, <2>2, <3>1, <3>2, <4>1
    <3> QED
      BY <3>2
  <2>5. \A k \in 1 .. m - 1 : k \in 0 .. m - 1
    BY <1>4
  <2>6. \A k \in 1 .. m - 1 : s[new[k]] = c
    BY <1>6, <2>2, <2>5
  <2>7. \A i \in 1 .. n + 1 : s[i] = c => \E k \in 1 .. m - 1 : new[k] = i
    <3>1. \A i \in 1 .. n + 1 : i \in 1 .. n \/ i = n + 1
      OBVIOUS
    <3>2. s[n + 1] # c
      BY <1>10 DEF x
    <3> QED
      BY <1>7, <2>2, <2>5, <3>1, <3>2
  <2>8. IsCut(new, m, s, n + 1, c)
    <3>1. 0 \in 0 .. m - 1 /\ n + 2 = (n + 1) + 1
      BY <1>4
    <3>2. new[0] = 0 /\ new[m] = (n + 1) + 1
      BY <1>5, <2>2, <3>1
    <3> QED
      BY <2>3, <2>4, <2>6, <2>7, <3>2 DEF IsCut
  <2>9. AreParts(next, m, new, s)
    <3>1. Len(next) = m /\ next[m] = Append(parts[m], x) /\ \A k \in 1 .. m - 1 : next[k] = parts[k]
      BY <1>3, <1>4, <1>10, SplitAtType
    <3> HIDE DEF next
    <3>2. IsPart(next[m], s, new[m - 1], new[m])
      <4> DEFINE last == parts[m]  a == cut[m - 1]
      <4>1. m \in 1 .. m /\ m - 1 \in 0 .. m - 1 /\ m - 1 \in 0 .. m
        BY <1>4
      <4>2. a \in Nat /\ new[m - 1] = a /\ new[m] = n + 2 /\ cut[m] = n + 1 /\ a < n + 1
        BY <1>5, <2>1, <2>2, <4>1
      <4>3. last \in Seq(C) /\ Len(last) = (n + 1) - a - 1 /\ \A i \in 1 .. (n + 1) - a - 1 : last[i] = s[a + i]
        BY <1>4, <1>8, <4>1, <4>2 DEF IsPart
      <4>4. /\ Len(next[m]) = Len(last) + 1 /\ next[m][Len(last) + 1] = x
            /\ \A i \in 1 .. Len(last) : next[m][i] = last[i]
        BY <1>3, <3>1, <4>3, AppendProperties
      <4> HIDE DEF last, a
      <4>5. Len(next[m]) = (n + 2) - a - 1 /\ Len(last) + 1 = (n + 2) - a - 1 /\ a + ((n + 2) - a - 1) = n + 1
        BY <4>2, <4>3, <4>4
      <4>6. \A i \in 1 .. (n + 2) - a - 1 : i \in 1 .. Len(last) \/ i = (n + 2) - a - 1
        BY <4>2, <4>5
      <4>7. next[m][(n + 2) - a - 1] = s[a + ((n + 2) - a - 1)]
        BY <4>4, <4>5 DEF x
      <4>8. \A i \in 1 .. Len(last) : next[m][i] = s[a + i]
        BY <4>3, <4>4
      <4>9. \A i \in 1 .. (n + 2) - a - 1 : next[m][i] = s[a + i]
        BY <4>6, <4>7, <4>8
      <4> QED
        BY <4>2, <4>5, <4>9 DEF IsPart
    <3>3. \A k \in 1 .. m - 1 : IsPart(next[k], s, new[k - 1], new[k])
      <4>1. \A k \in 1 .. m - 1 : k \in 1 .. m /\ k \in 0 .. m - 1 /\ k - 1 \in 0 .. m - 1
        BY <1>4
      <4> QED
        BY <1>8, <2>2, <3>1, <4>1
    <3>4. \A k \in 1 .. m : k \in 1 .. m - 1 \/ k = m
      BY <1>4
    <3> QED
      BY <3>1, <3>2, <3>3, <3>4 DEF AreParts
  <2> QED
    BY <1>4, <2>3, <2>8, <2>9 DEF IsSplit, x
<1> QED
  BY <1>9, <1>10

(* The parts are what stands between two separators, all of them in order. *)
LEMMA SplitCuts ==
  ASSUME NEW C, NEW s \in Seq(C), NEW c
  PROVE  Split(s, c) \in PartLists(C) /\ IsSplit(Split(s, c), s, Len(s), c)
<1> PICK list : IsSplitLoop(list, C, s, c)
  BY SplitIsLoop
<1>1. /\ list \in [0 .. Len(s) -> PartLists(C)]
      /\ list[0] = << <<>> >>
      /\ \A i \in 1 .. Len(s) : list[i] = SplitAt(list[i - 1], s[i], c)
      /\ Split(s, c) = list[Len(s)]
  BY DEF IsSplitLoop
<1>2. Len(s) \in Nat
  OBVIOUS
<1> DEFINE S == {i \in 0 .. Len(s) : IsSplit(list[i], s, i, c)}
<1>3. 0 \in S
  <2> DEFINE cut == [k \in 0 .. 1 |-> k]
  <2>1. cut \in [0 .. 1 -> Nat] /\ cut[0] = 0 /\ cut[1] = 0 + 1
    OBVIOUS
  <2>2. \A j, k \in 0 .. 1 : j < k => cut[j] < cut[k]
    OBVIOUS
  <2> HIDE DEF cut
  <2>3. IsCut(cut, 1, s, 0, c)
    BY <2>1, <2>2 DEF IsCut
  <2>4. Len(list[0]) = 1 /\ list[0][1] = <<>> /\ Len(<<>>) = 0
    BY <1>1
  <2>5. AreParts(list[0], 1, cut, s)
    BY <2>1, <2>4 DEF AreParts, IsPart
  <2>6. IsSplit(list[0], s, 0, c)
    <3>1. \E m \in Nat \ {0} : \E x \in [0 .. m -> Nat] :
            IsCut(x, m, s, 0, c) /\ AreParts(list[0], m, x, s)
      <4>1. 1 \in Nat \ {0}
        OBVIOUS
      <4>2. cut \in [0 .. 1 -> Nat]
        BY <2>1
      <4> WITNESS 1 \in Nat \ {0}
      <4> WITNESS cut \in [0 .. 1 -> Nat]
      <4> QED
        BY <2>3, <2>5
    <3> QED
      BY <3>1 DEF IsSplit
  <2> QED
    BY <1>2, <2>6
<1>4. ASSUME NEW i \in 0 .. Len(s) - 1, i \in S
      PROVE  i + 1 \in S
  <2>1. i \in Nat /\ i + 1 \in 1 .. Len(s) /\ i + 1 \in 0 .. Len(s) /\ (i + 1) - 1 = i /\ i \in 0 .. Len(s)
    BY <1>2
  <2>2. list[i] \in PartLists(C) /\ list[i + 1] = SplitAt(list[i], s[i + 1], c)
    BY <1>1, <2>1
  <2>3. IsSplit(list[i + 1], s, i + 1, c)
    BY <1>4, <2>1, <2>2, SplitStep
  <2> QED
    BY <2>1, <2>3
<1>5. 0 .. Len(s) \subseteq S
  <2> HIDE DEF S
  <2> QED
    BY <1>2, <1>3, <1>4, InductUpTo
<1>6. Len(s) \in 0 .. Len(s)
  BY <1>2
<1> QED
  BY <1>1, <1>5, <1>6

-----------------------------------------------------------------------------
(* Which texts are names: the labels, that is the parts between the dots,  *)
(* are valid if and only if the characters are, each by its neighbours.    *)
EndsOf(name) == {0, Len(name) + 1} \cup {i \in DOMAIN name : name[i] = "."}
Outermost(name, i) == i - 1 \in EndsOf(name) \/ i + 1 \in EndsOf(name)
IsName(name) ==
  /\ Len(name) \in 1 .. MaxName
  /\ \A i \in DOMAIN name :
       name[i] \in Letters \cup Digits \/ (name[i] \in {"-", "."} /\ ~Outermost(name, i))
  /\ \A i, j \in EndsOf(name) : j > i + MaxLabel + 1 => \E k \in EndsOf(name) : i < k /\ k < j

LEMMA HostNameUnfolds ==
  \A s : IsHostName(s) = IsName(IF Last(s) = "." THEN Front(s) ELSE s)
BY DEF IsHostName, IsName, EndsOf, Outermost

ValidBetween(name, a, b) ==
  /\ b - a - 1 \in 1 .. MaxLabel /\ name[a + 1] # "-" /\ name[b - 1] # "-"
  /\ \A i \in a + 1 .. b - 1 : name[i] \in Letters \cup Digits \cup {"-"}

LEMMA LabelIsPart ==
  ASSUME NEW C, NEW label \in Seq(C), NEW name, NEW a \in Nat, NEW b \in Nat, a < b,
         IsPart(label, name, a, b)
  PROVE  ValidLabel(label) <=> ValidBetween(name, a, b)
<1> DEFINE n == b - a - 1
<1>1. n \in Nat /\ Len(label) = n /\ \A i \in 1 .. n : label[i] = name[a + i]
  BY DEF IsPart
<1>2. n \in 1 .. MaxLabel => /\ Head(label) = name[a + 1] /\ Last(label) = name[b - 1]
  <2>1. n \in 1 .. MaxLabel => 1 \in 1 .. n /\ n \in 1 .. n /\ a + n = b - 1
    BY <1>1
  <2>2. n \in 1 .. MaxLabel => label # <<>>
    BY <1>1
  <2>3. label # <<>> => Head(label) = label[1]
    OBVIOUS
  <2> QED
    BY <1>1, <2>1, <2>2, <2>3 DEF Last
<1>3. ToSet(label) \subseteq Letters \cup Digits \cup {"-"}
        <=> \A i \in a + 1 .. b - 1 : name[i] \in Letters \cup Digits \cup {"-"}
  <2>1. DOMAIN label = 1 .. n
    BY <1>1
  <2>2. \A i \in 1 .. n : a + i \in a + 1 .. b - 1
    BY <1>1
  <2>3. \A i \in a + 1 .. b - 1 : i - a \in 1 .. n /\ a + (i - a) = i
    BY <1>1
  <2>4. \A i \in a + 1 .. b - 1 : name[i] = label[i - a]
    BY <1>1, <2>3
  <2> DEFINE D == Letters \cup Digits \cup {"-"}
  <2> HIDE DEF D, n
  <2>5. ToSet(label) \subseteq D <=> \A i \in 1 .. n : label[i] \in D
    BY <2>1 DEF ToSet
  <2>6. (\A i \in 1 .. n : label[i] \in D) <=> \A i \in a + 1 .. b - 1 : name[i] \in D
    BY <1>1, <2>2, <2>3, <2>4
  <2> QED
    BY <2>5, <2>6 DEF D
<1> HIDE DEF n
<1>4. ValidBetween(name, a, b) <=>
        /\ n \in 1 .. MaxLabel /\ name[a + 1] # "-" /\ name[b - 1] # "-"
        /\ \A i \in a + 1 .. b - 1 : name[i] \in Letters \cup Digits \cup {"-"}
  BY DEF ValidBetween, n
<1>5. ValidLabel(label) <=>
        /\ n \in 1 .. MaxLabel /\ Head(label) # "-" /\ Last(label) # "-"
        /\ ToSet(label) \subseteq Letters \cup Digits \cup {"-"}
  BY <1>1 DEF ValidLabel
<1> QED
  BY <1>2, <1>3, <1>4, <1>5

LEMMA DotIsNoLetter == "." \notin Letters \cup Digits /\ "-" \notin Letters \cup Digits
BY DEF Letters, Digits, LowerCase, HexDigits, ToSet

LEMMA EndsOfName ==
  ASSUME NEW C, NEW name \in Seq(C)
  PROVE  /\ EndsOf(name) \subseteq 0 .. Len(name) + 1
         /\ 0 \in EndsOf(name) /\ Len(name) + 1 \in EndsOf(name)
         /\ \A i \in 1 .. Len(name) : i \in EndsOf(name) <=> name[i] = "."
<1>1. Len(name) \in Nat /\ DOMAIN name = 1 .. Len(name)
  OBVIOUS
<1>2. \A i \in 1 .. Len(name) : i # 0 /\ i # Len(name) + 1 /\ i \in 0 .. Len(name) + 1
  BY <1>1
<1>3. 0 \in 0 .. Len(name) + 1 /\ Len(name) + 1 \in 0 .. Len(name) + 1
  BY <1>1
<1> QED
  BY <1>1, <1>2, <1>3 DEF EndsOf

(* The cuts of a name are its ends, and no end is between two cuts.        *)
LEMMA CutsAreEnds ==
  ASSUME NEW C, NEW name \in Seq(C), NEW m \in Nat \ {0}, NEW cut \in [0 .. m -> Nat],
         IsCut(cut, m, name, Len(name), ".")
  PROVE  /\ \A k \in 0 .. m : cut[k] \in EndsOf(name)
         /\ \A i \in EndsOf(name) : \E k \in 0 .. m : cut[k] = i
         /\ \A k \in 1 .. m : /\ cut[k - 1] \in Nat /\ cut[k] \in Nat /\ cut[k - 1] < cut[k]
                              /\ \A i \in EndsOf(name) : i <= cut[k - 1] \/ i >= cut[k]
<1> DEFINE n == Len(name)
<1>1. n \in Nat
  OBVIOUS
<1>2. cut[0] = 0 /\ cut[m] = n + 1 /\ \A j, k \in 0 .. m : j < k => cut[j] < cut[k]
  BY DEF IsCut
<1>3. \A k \in 1 .. m - 1 : name[cut[k]] = "."
  BY DEF IsCut
<1>4. \A i \in 1 .. n : name[i] = "." => \E k \in 1 .. m - 1 : cut[k] = i
  BY DEF IsCut
<1> HIDE DEF n
<1>5. ASSUME NEW k \in 0 .. m PROVE cut[k] \in EndsOf(name)
  <2>1. k = 0 \/ k = m \/ k \in 1 .. m - 1
    OBVIOUS
  <2>2. CASE k = 0 \/ k = m
    BY <1>2, <2>2, EndsOfName DEF n
  <2>3. CASE k \in 1 .. m - 1
    <3>1. 0 \in 0 .. m /\ m \in 0 .. m /\ 0 < k /\ k < m
      BY <2>3
    <3>2. cut[k] \in 1 .. n
      BY <1>1, <1>2, <3>1
    <3> QED
      BY <1>3, <2>3, <3>2, EndsOfName DEF n
  <2> QED
    BY <2>1, <2>2, <2>3
<1>6. ASSUME NEW i \in EndsOf(name) PROVE \E k \in 0 .. m : cut[k] = i
  <2>1. 0 \in 0 .. m /\ m \in 0 .. m /\ \A k \in 1 .. m - 1 : k \in 0 .. m
    OBVIOUS
  <2>2. i \in 0 .. n + 1
    BY EndsOfName DEF n
  <2>3. i = 0 \/ i = n + 1 \/ i \in 1 .. n
    BY <1>1, <2>2
  <2>4. i \in 1 .. n => name[i] = "."
    BY EndsOfName DEF n
  <2> QED
    BY <1>2, <1>4, <2>1, <2>3, <2>4
<1>7. ASSUME NEW k \in 1 .. m
      PROVE  /\ cut[k - 1] \in Nat /\ cut[k] \in Nat /\ cut[k - 1] < cut[k]
             /\ \A i \in EndsOf(name) : i <= cut[k - 1] \/ i >= cut[k]
  <2>1. k \in 0 .. m /\ k - 1 \in 0 .. m /\ k - 1 < k
    OBVIOUS
  <2>2. ASSUME NEW j \in 0 .. m PROVE cut[j] <= cut[k - 1] \/ cut[j] >= cut[k]
    <3>1. j < k - 1 \/ j = k - 1 \/ j = k \/ k < j
      OBVIOUS
    <3>2. cut[j] \in Nat /\ cut[k] \in Nat /\ cut[k - 1] \in Nat
      BY <2>1
    <3> QED
      BY <1>2, <2>1, <3>1, <3>2
  <2> QED
    BY <1>2, <1>6, <2>1, <2>2
<1> QED
  BY <1>5, <1>6, <1>7

(* Valid labels between the dots make a name. *)
LEMMA NameOfLabels ==
  ASSUME NEW C, NEW name \in Seq(C), Len(name) <= MaxName,
         NEW m \in Nat \ {0}, NEW cut \in [0 .. m -> Nat], IsCut(cut, m, name, Len(name), "."),
         \A k \in 1 .. m : ValidBetween(name, cut[k - 1], cut[k])
  PROVE  IsName(name)
<1> DEFINE n == Len(name)  ends == EndsOf(name)
<1>1. n \in Nat /\ MaxName \in Nat /\ MaxLabel \in Nat /\ DOMAIN name = 1 .. n
  BY LimitsAssumption
<1>2. /\ ends \subseteq 0 .. n + 1 /\ 0 \in ends /\ n + 1 \in ends
      /\ \A i \in 1 .. n : i \in ends <=> name[i] = "."
  BY EndsOfName
<1>3. /\ \A k \in 0 .. m : cut[k] \in ends
      /\ \A i \in ends : \E k \in 0 .. m : cut[k] = i
      /\ \A k \in 1 .. m : /\ cut[k - 1] \in Nat /\ cut[k] \in Nat /\ cut[k - 1] < cut[k]
                           /\ \A i \in ends : i <= cut[k - 1] \/ i >= cut[k]
  BY CutsAreEnds
<1>4. cut[0] = 0 /\ cut[m] = n + 1
  BY DEF IsCut
<1> HIDE DEF n, ends
<1>5. \A k \in 1 .. m : cut[k] - cut[k - 1] - 1 \in 1 .. MaxLabel
  BY DEF ValidBetween
<1>6. n \in 1 .. MaxName
  <2>1. 1 \in 1 .. m /\ 1 - 1 = 0 /\ 1 \in 0 .. m
    OBVIOUS
  <2>2. cut[1] - cut[0] - 1 \in 1 .. MaxLabel
    BY <1>5, <2>1
  <2>3. cut[1] \in 0 .. n + 1
    BY <1>2, <1>3, <2>1
  <2> QED
    BY <1>1, <1>4, <2>2, <2>3 DEF n
<1>7. ASSUME NEW i \in 1 .. n, i \in ends
      PROVE  i - 1 \notin ends /\ i + 1 \notin ends
  <2>1. PICK k \in 0 .. m : cut[k] = i
    BY <1>3, <1>7
  <2>2. k \in 1 .. m - 1
    BY <1>1, <1>4, <2>1
  <2>3. k \in 1 .. m /\ k + 1 \in 1 .. m /\ (k + 1) - 1 = k
    BY <2>2
  <2>4. /\ cut[k] - cut[k - 1] - 1 \in 1 .. MaxLabel /\ cut[k + 1] - cut[k] - 1 \in 1 .. MaxLabel
        /\ cut[k - 1] \in Nat /\ cut[k + 1] \in Nat
    BY <1>3, <1>5, <2>3
  <2>5. i - 1 \notin ends
    <3> DEFINE a == cut[k - 1]
    <3>1. i - 1 \in ends => i - 1 <= a \/ i - 1 >= i
      BY <1>3, <2>1, <2>3
    <3>2. i - a - 1 \in 1 .. MaxLabel /\ a \in Nat
      BY <2>1, <2>4
    <3> HIDE DEF a
    <3>3. ~(i - 1 <= a \/ i - 1 >= i)
      BY <1>1, <3>2
    <3> QED
      BY <3>1, <3>3
  <2>6. i + 1 \notin ends
    <3> DEFINE b == cut[k + 1]
    <3>1. i + 1 \in ends => i + 1 <= i \/ i + 1 >= b
      BY <1>3, <2>1, <2>3
    <3>2. b - i - 1 \in 1 .. MaxLabel /\ b \in Nat
      BY <2>1, <2>4
    <3> HIDE DEF b
    <3>3. ~(i + 1 <= i \/ i + 1 >= b)
      BY <1>1, <3>2
    <3> QED
      BY <3>1, <3>3
  <2> QED
    BY <2>5, <2>6
<1>8. ASSUME NEW i \in 1 .. n, i \notin ends
      PROVE  name[i] \in Letters \cup Digits \/ (name[i] = "-" /\ i - 1 \notin ends /\ i + 1 \notin ends)
  <2> DEFINE above == {k \in 0 .. m : cut[k] > i}
  <2>1. above \in SUBSET Nat /\ above # {}
    <3>1. m \in 0 .. m /\ n + 1 > i
      BY <1>1
    <3>2. cut[m] > i
      BY <1>4, <3>1
    <3>3. \A k \in 0 .. m : k \in Nat
      OBVIOUS
    <3>4. m \in above
      BY <3>1, <3>2
    <3>5. \A k \in above : k \in 0 .. m
      OBVIOUS
    <3> HIDE DEF above
    <3> QED
      BY <3>3, <3>4, <3>5
  <2>2. PICK k \in above : \A j \in above : k <= j
    <3> HIDE DEF above
    <3> QED
      BY <2>1, Least
  <2>3. k \in 1 .. m
    BY <1>4, <2>2
  <2>4. k - 1 \in 0 .. m /\ k - 1 \notin above /\ cut[k - 1] \in ends
    <3>1. k - 1 \in 0 .. m /\ ~(k <= k - 1)
      BY <2>3
    <3>2. k - 1 \notin above
      BY <2>2, <3>1
    <3> QED
      BY <1>3, <3>1, <3>2
  <2>5. ~(cut[k - 1] > i) /\ cut[k] > i /\ cut[k - 1] # i
    BY <1>8, <2>2, <2>4
  <2>6. /\ cut[k - 1] \in Nat /\ cut[k] \in Nat
        /\ \A j \in ends : j <= cut[k - 1] \/ j >= cut[k]
    BY <1>3, <2>3
  <2> DEFINE a == cut[k - 1]  b == cut[k]
  <2>7. a \in Nat /\ b \in Nat /\ ~(a > i) /\ b > i /\ a # i /\ \A j \in ends : j <= a \/ j >= b
    BY <2>5, <2>6
  <2> HIDE DEF a, b
  <2>11. i \in a + 1 .. b - 1
    BY <1>1, <2>7
  <2>8. /\ name[i] \in Letters \cup Digits \cup {"-"}
        /\ name[a + 1] # "-" /\ name[b - 1] # "-"
    <3>1. ValidBetween(name, a, b)
      BY <2>3 DEF a, b
    <3> QED
      BY <2>11, <3>1 DEF ValidBetween
  <2>9. ASSUME i - 1 \in ends PROVE i = a + 1
    <3>1. i - 1 <= a \/ i - 1 >= b
      BY <2>7, <2>9
    <3> QED
      BY <1>1, <2>7, <2>11, <3>1
  <2>10. ASSUME i + 1 \in ends PROVE i = b - 1
    <3>1. i + 1 <= a \/ i + 1 >= b
      BY <2>7, <2>10
    <3> QED
      BY <1>1, <2>7, <2>11, <3>1
  <2> QED
    BY <2>8, <2>9, <2>10
<1>9. ASSUME NEW i \in ends, NEW j \in ends, j > i + MaxLabel + 1
      PROVE  \E k \in ends : i < k /\ k < j
  <2>1. PICK k \in 0 .. m : cut[k] = i
    BY <1>3
  <2>2. i \in 0 .. n + 1 /\ j \in 0 .. n + 1
    BY <1>2
  <2>3. k \in 0 .. m - 1
    BY <1>1, <1>4, <1>9, <2>1, <2>2
  <2>4. k + 1 \in 1 .. m /\ (k + 1) - 1 = k /\ k + 1 \in 0 .. m
    BY <2>3
  <2> DEFINE next == cut[k + 1]
  <2>5. next - i - 1 \in 1 .. MaxLabel /\ next \in ends
    BY <1>3, <1>5, <2>1, <2>4
  <2>6. next \in Nat
    BY <1>3, <2>4
  <2> HIDE DEF next
  <2>7. i < next /\ next < j
    BY <1>1, <1>9, <2>2, <2>5, <2>6
  <2> QED
    BY <2>5, <2>7
<1>10. \A i \in DOMAIN name :
         name[i] \in Letters \cup Digits \/ (name[i] \in {"-", "."} /\ ~Outermost(name, i))
  <2> TAKE i \in DOMAIN name
  <2>1. i \in 1 .. n
    BY <1>1
  <2>2. CASE i \in ends
    BY <1>2, <1>7, <2>1, <2>2 DEF Outermost, ends
  <2>3. CASE i \notin ends
    BY <1>8, <2>1, <2>3 DEF Outermost, ends
  <2> QED
    BY <2>2, <2>3
<1> QED
  BY <1>6, <1>9, <1>10 DEF IsName, n, ends

(* What stands between two neighbouring ends of a name is a valid label. *)
LEMMA LabelsOfName ==
  ASSUME NEW C, NEW name \in Seq(C), IsName(name),
         NEW a \in EndsOf(name), NEW b \in EndsOf(name), a < b,
         \A i \in EndsOf(name) : i <= a \/ i >= b
  PROVE  ValidBetween(name, a, b)
<1> DEFINE n == Len(name)  ends == EndsOf(name)
<1>1. n \in Nat /\ MaxLabel \in Nat /\ DOMAIN name = 1 .. n /\ n >= 1
  BY LimitsAssumption DEF IsName
<1>2. /\ ends \subseteq 0 .. n + 1 /\ 0 \in ends /\ n + 1 \in ends
      /\ \A i \in 1 .. n : i \in ends <=> name[i] = "."
  BY EndsOfName
<1>3. \A i \in 1 .. n :
         name[i] \in Letters \cup Digits \/ (name[i] \in {"-", "."} /\ i - 1 \notin ends /\ i + 1 \notin ends)
  BY <1>1 DEF IsName, Outermost
<1>4. \A i, j \in ends : j > i + MaxLabel + 1 => \E k \in ends : i < k /\ k < j
  BY DEF IsName
<1>5. a \in ends /\ b \in ends /\ \A i \in ends : i <= a \/ i >= b
  OBVIOUS
<1> HIDE DEF n, ends
<1>6. a \in 0 .. n + 1 /\ b \in 0 .. n + 1
  BY <1>2, <1>5
<1>7. ASSUME NEW i \in 1 .. n, i \in ends PROVE i - 1 \notin ends /\ i + 1 \notin ends
  BY <1>2, <1>3, <1>7, DotIsNoLetter
<1>8. b # a + 1
  <2>1. ASSUME b = a + 1 PROVE FALSE
    <3>1. a \in 1 .. n \/ b \in 1 .. n
      BY <1>1, <1>6, <2>1
    <3>2. a = b - 1
      BY <1>6, <2>1
    <3> QED
      BY <1>5, <1>7, <2>1, <3>1, <3>2
  <2> QED
    BY <2>1
<1>9. b - a - 1 \in 1 .. MaxLabel
  <2>1. ~(b > a + MaxLabel + 1)
    <3>1. \A k \in ends : k \in Nat
      BY <1>1, <1>2
    <3>2. \A k \in ends : ~(a < k /\ k < b)
      BY <1>5, <1>6, <3>1
    <3> QED
      BY <1>4, <1>5, <3>2
  <2> QED
    BY <1>1, <1>6, <1>8, <2>1
<1>10. ASSUME NEW i \in a + 1 .. b - 1
       PROVE  name[i] \in Letters \cup Digits \cup {"-"}
  <2>1. i \in 1 .. n /\ ~(i <= a) /\ ~(i >= b)
    BY <1>1, <1>6
  <2>2. i \notin ends
    BY <1>5, <2>1
  <2> QED
    BY <1>2, <1>3, <2>1, <2>2
<1>11. name[a + 1] # "-" /\ name[b - 1] # "-"
  <2>1. a + 1 \in 1 .. n /\ b - 1 \in 1 .. n /\ (a + 1) - 1 = a /\ (b - 1) + 1 = b
    BY <1>1, <1>6, <1>9
  <2>2. name[a + 1] = "-" => (a + 1) - 1 \notin ends
    BY <1>3, <2>1, DotIsNoLetter
  <2>3. name[b - 1] = "-" => (b - 1) + 1 \notin ends
    BY <1>3, <2>1, DotIsNoLetter
  <2> QED
    BY <1>5, <2>1, <2>2, <2>3
<1> QED
  BY <1>9, <1>10, <1>11 DEF ValidBetween

(* A text is made of valid labels and not too long if and only if it is a  *)
(* name.                                                                   *)
LEMMA LabelsMakeName ==
  ASSUME NEW C, NEW name \in Seq(C)
  PROVE  (Len(name) <= MaxName /\ \A i \in DOMAIN Split(name, ".") : ValidLabel(Split(name, ".")[i]))
           <=> IsName(name)
<1> DEFINE labels == Split(name, ".")
<1>1. labels \in PartLists(C) /\ IsSplit(labels, name, Len(name), ".")
  BY SplitCuts
<1>2. PICK m \in Nat \ {0} : \E cut \in [0 .. m -> Nat] :
         IsCut(cut, m, name, Len(name), ".") /\ AreParts(labels, m, cut, name)
  BY <1>1 DEF IsSplit
<1>3. PICK cut \in [0 .. m -> Nat] :
         IsCut(cut, m, name, Len(name), ".") /\ AreParts(labels, m, cut, name)
  BY <1>2
<1> HIDE DEF labels
<1>4. DOMAIN labels = 1 .. m /\ \A k \in 1 .. m : labels[k] \in Seq(C)
  BY <1>1, <1>3 DEF AreParts, PartLists
<1>5. /\ \A k \in 0 .. m : cut[k] \in EndsOf(name)
      /\ \A k \in 1 .. m : /\ cut[k - 1] \in Nat /\ cut[k] \in Nat /\ cut[k - 1] < cut[k]
                           /\ \A i \in EndsOf(name) : i <= cut[k - 1] \/ i >= cut[k]
  BY <1>3, CutsAreEnds
<1>6. ASSUME NEW k \in 1 .. m
      PROVE  ValidLabel(labels[k]) <=> ValidBetween(name, cut[k - 1], cut[k])
  <2>1. IsPart(labels[k], name, cut[k - 1], cut[k])
    BY <1>3 DEF AreParts
  <2> QED
    BY <1>4, <1>5, <2>1, LabelIsPart
<1>7. ASSUME Len(name) <= MaxName, \A k \in 1 .. m : ValidLabel(labels[k])
      PROVE  IsName(name)
  BY <1>3, <1>6, <1>7, NameOfLabels
<1>8. ASSUME IsName(name)
      PROVE  Len(name) <= MaxName /\ \A k \in 1 .. m : ValidLabel(labels[k])
  <2>1. Len(name) <= MaxName
    BY <1>8, LimitsAssumption DEF IsName
  <2>2. ASSUME NEW k \in 1 .. m PROVE ValidBetween(name, cut[k - 1], cut[k])
    <3>1. k - 1 \in 0 .. m /\ k \in 0 .. m
      OBVIOUS
    <3> QED
      BY <1>5, <1>8, <3>1, LabelsOfName
  <2> QED
    BY <1>6, <2>1, <2>2
<1> QED
  BY <1>4, <1>7, <1>8 DEF labels

-----------------------------------------------------------------------------
(* What is a domain. *)
IsText(s) == s \in Seq(ToSet(s))

LEMMA TextOver == ASSUME NEW C, NEW s \in Seq(C) PROVE IsText(s) /\ ToSet(s) \subseteq C
<1>1. DOMAIN s = 1 .. Len(s) /\ Len(s) \in Nat /\ \A i \in 1 .. Len(s) : s[i] \in C
  OBVIOUS
<1>2. \A i \in 1 .. Len(s) : s[i] \in ToSet(s)
  BY <1>1 DEF ToSet
<1>3. s = [i \in 1 .. Len(s) |-> s[i]]
  BY <1>1
<1>4. s \in Seq(ToSet(s))
  BY <1>1, <1>2, <1>3, IsASeq
<1> QED
  BY <1>1, <1>4 DEF IsText, ToSet

NameChars == Letters \cup Digits \cup {"-", "."}

LEMMA NameCharsAreLetters ==
  /\ ":" \notin NameChars /\ "/" \notin NameChars
  /\ \A c \in NameChars : Lower(c) \in NameChars
<1>1. ":" \notin NameChars /\ "/" \notin NameChars
  BY DEF NameChars, Letters, Digits, LowerCase, HexDigits, ToSet
<1>2. \A c \in DOMAIN LowerCase : LowerCase[c] \in {"a", "f", "s", "x"}
  BY DEF LowerCase
<1>3. "a" \in ToSet(HexDigits) /\ "f" \in ToSet(HexDigits)
  <2>1. HexDigits[11] = "a" /\ HexDigits[16] = "f" /\ 11 \in DOMAIN HexDigits /\ 16 \in DOMAIN HexDigits
    BY DEF HexDigits
  <2> QED
    BY <2>1 DEF ToSet
<1>4. "a" \notin Digits /\ "f" \notin Digits
  BY DEF HexDigits, Digits, ToSet
<1>5. {"a", "f", "s", "x"} \subseteq NameChars
  BY <1>3, <1>4 DEF NameChars, Letters
<1> QED
  BY <1>1, <1>2, <1>5 DEF Lower

LEMMA NameIsString ==
  ASSUME NEW C, NEW name \in Seq(C), IsName(name)
  PROVE  ToSet(name) \subseteq NameChars /\ Lowered(name) \in Seq(NameChars)
<1>1. Len(name) \in Nat /\ DOMAIN name = 1 .. Len(name)
  OBVIOUS
<1>2. \A i \in 1 .. Len(name) : name[i] \in NameChars
  BY <1>1 DEF IsName, NameChars
<1>3. \A i \in 1 .. Len(name) : Lower(name[i]) \in NameChars
  BY <1>2, NameCharsAreLetters
<1>4. Lowered(name) = [i \in 1 .. Len(name) |-> Lower(name[i])]
  BY <1>1 DEF Lowered
<1>5. Lowered(name) \in Seq(NameChars)
  BY <1>1, <1>3, <1>4, IsASeq
<1> QED
  BY <1>1, <1>2, <1>5 DEF ToSet

(* The name of a text: without the final dot. *)
NameOf(s) == IF Last(s) = "." THEN Front(s) ELSE s

LEMMA NameOfText ==
  ASSUME NEW C, NEW s \in Seq(C), s # <<>>
  PROVE  /\ NameOf(s) \in Seq(C) /\ ToSet(NameOf(s)) \subseteq ToSet(s)
         /\ ToSet(s) \subseteq ToSet(NameOf(s)) \cup {"."}
<1>1. Len(s) \in Nat /\ Len(s) >= 1 /\ DOMAIN s = 1 .. Len(s)
  OBVIOUS
<1>2. CASE Last(s) = "."
  <2>1. NameOf(s) = SubSeq(s, 1, Len(s) - 1)
    BY <1>2 DEF NameOf, Front
  <2>2. 1 \in 1 .. Len(s) + 1 /\ Len(s) - 1 \in 1 - 1 .. Len(s) /\ (Len(s) - 1) - 1 + 1 = Len(s) - 1
    BY <1>1
  <2>3. /\ NameOf(s) \in Seq(C) /\ Len(NameOf(s)) = Len(s) - 1
        /\ \A i \in 1 .. Len(s) - 1 : NameOf(s)[i] = s[1 + i - 1]
    BY <2>1, <2>2, PartOfText
  <2>4. \A i \in 1 .. Len(s) - 1 : NameOf(s)[i] = s[i] /\ i \in 1 .. Len(s)
    BY <1>1, <2>3
  <2> DEFINE name == NameOf(s)
  <2>8. name \in Seq(C) /\ Len(name) = Len(s) - 1
    BY <2>3
  <2> HIDE DEF name
  <2>9. DOMAIN name = 1 .. Len(name)
    BY <2>8
  <2>5. DOMAIN NameOf(s) = 1 .. Len(s) - 1
    <3>1. DOMAIN name = 1 .. Len(s) - 1
      BY <2>8, <2>9
    <3> QED
      BY <3>1 DEF name
  <2>6. \A i \in 1 .. Len(s) : i \in 1 .. Len(s) - 1 \/ i = Len(s)
    <3> DEFINE n == Len(s)
    <3>1. n \in Nat
      BY <1>1
    <3> HIDE DEF n
    <3>2. \A i \in 1 .. n : i \in 1 .. n - 1 \/ i = n
      BY <3>1
    <3> QED
      BY <3>2 DEF n
  <2>7. s[Len(s)] = "."
    BY <1>2 DEF Last
  <2> QED
    BY <1>1, <2>3, <2>4, <2>5, <2>6, <2>7 DEF ToSet
<1>3. CASE Last(s) # "."
  BY <1>3 DEF NameOf
<1> QED
  BY <1>2, <1>3

LEMMA OthersAreNoDomains ==
  ASSUME NEW s
  PROVE  /\ ParseAutnum(s) # None => ParseAutnum(s).kind = "autnum"
         /\ ParseNetwork(s) # None => ParseNetwork(s).kind = "network"
BY DEF ParseAutnum, ParseNetwork, Autnum, Network

LEMMA DomainsAreNames ==
  ASSUME NEW C, NEW s \in Seq(C), s # <<>>, IsTrimmed(s)
  PROVE  /\ ParseDomain(s) = IF IsHostName(s) THEN Domain(Lowered(NameOf(s))) ELSE None
         /\ IsHostName(s) => Domain(Lowered(NameOf(s))) # None
<1>1. Trim(s) = s
  BY TrimmedStays
<1>2. NameOf(s) \in Seq(C)
  BY NameOfText
<1> DEFINE name == NameOf(s)
           Valid == Len(name) <= MaxName /\ \A i \in DOMAIN Split(name, ".") : ValidLabel(Split(name, ".")[i])
<1>3. ParseDomain(s) = IF Valid THEN Domain(Lowered(name)) ELSE None
  BY <1>1 DEF ParseDomain, NameOf
<1>4. Valid <=> IsName(name)
  BY <1>2, LabelsMakeName
<1>5. IsHostName(s) <=> IsName(name)
  BY HostNameUnfolds DEF NameOf
<1>6. IsName(name) => Lowered(name) \in Seq(NameChars)
  BY <1>2, NameIsString
<1>7. IsName(name) => Domain(Lowered(name)) # None
  BY <1>6, NoneAssumption DEF Domain, NameChars
<1> QED
  BY <1>3, <1>4, <1>5, <1>7

LEMMA DomainsButAs ==
  ASSUME NEW text, IsText(text)
  PROVE  (ParseQuery(text) # None /\ ParseQuery(text).kind = "domain")
           <=> /\ Trim(text) # <<>> /\ IsHostName(Trim(text))
               /\ ~LooksNumeric(Trim(text)) /\ ~TakenForAutnum(Trim(text))
<1> DEFINE s == Trim(text)  q == ParseQuery(text)  C == ToSet(text)
<1>1. s \in Seq(C) /\ IsTrimmed(s)
  BY TrimIsTrimmed DEF IsText
<1> HIDE DEF C
<1>2. q = IF s = <<>> THEN None
          ELSE IF AsPrefix(s) \/ DigitsOnly(s) THEN ParseAutnum(s)
          ELSE IF Has(s, ":") \/ Has(s, "/") \/ Ipv4Shape(s) THEN ParseNetwork(s)
          ELSE ParseDomain(s)
  BY DEF ParseQuery
<1> HIDE DEF s, q
<1>3. AsPrefix(s) <=> TakenForAutnum(s)
  BY DEF AsPrefix, TakenForAutnum
<1>4. DigitsOnly(s) => LooksNumeric(s)
  BY DEF DigitsOnly, LooksNumeric
<1>5. s # <<>> => (Ipv4Shape(s) <=> LooksNumeric(s))
  BY DEF Ipv4Shape, LooksNumeric
<1>6. s # <<>> /\ IsHostName(s) => ~Has(s, ":") /\ ~Has(s, "/")
  <2> SUFFICES ASSUME s # <<>>, IsHostName(s) PROVE ~Has(s, ":") /\ ~Has(s, "/")
    OBVIOUS
  <2>1. NameOf(s) \in Seq(C) /\ IsName(NameOf(s)) /\ ToSet(s) \subseteq ToSet(NameOf(s)) \cup {"."}
    BY <1>1, NameOfText, HostNameUnfolds DEF NameOf
  <2>2. ToSet(s) \subseteq NameChars
    BY <2>1, NameIsString DEF NameChars
  <2> QED
    BY <2>2, NameCharsAreLetters DEF Has
<1>7. s # <<>> => /\ ParseDomain(s) = IF IsHostName(s) THEN Domain(Lowered(NameOf(s))) ELSE None
                  /\ IsHostName(s) => Domain(Lowered(NameOf(s))) # None
  BY <1>1, DomainsAreNames
<1>8. Domain(Lowered(NameOf(s))).kind = "domain"
  BY DEF Domain
<1>9. CASE s = <<>>
  BY <1>2, <1>9 DEF s, q
<1>10. CASE s # <<>> /\ (AsPrefix(s) \/ DigitsOnly(s))
  BY <1>2, <1>3, <1>4, <1>10, OthersAreNoDomains DEF s, q
<1>11. CASE s # <<>> /\ ~(AsPrefix(s) \/ DigitsOnly(s)) /\ (Has(s, ":") \/ Has(s, "/") \/ Ipv4Shape(s))
  BY <1>2, <1>5, <1>6, <1>11, OthersAreNoDomains DEF s, q
<1>12. CASE s # <<>> /\ ~(AsPrefix(s) \/ DigitsOnly(s)) /\ ~(Has(s, ":") \/ Has(s, "/") \/ Ipv4Shape(s))
  BY <1>2, <1>3, <1>5, <1>7, <1>8, <1>12 DEF s, q
<1> QED
  BY <1>9, <1>10, <1>11, <1>12
-----------------------------------------------------------------------------
(* Numerals: there is one function like the recursive one, and its values  *)
(* are texts of hexadecimal digits.                                        *)
Bases == {10, 16}
NumeralTexts == Seq(ToSet(HexDigits))
NumeralStep(f, m, base) ==
  IF m < base THEN <<HexDigits[m + 1]>> ELSE Append(f[m \div base], HexDigits[(m % base) + 1])
IsNumerals(f, base) == f = [m \in Nat |-> NumeralStep(f, m, base)]
(* A function on the numbers up to k that satisfies the equations of a numeral. *)
NumeralsUpTo(f, k, base) ==
  f \in [0 .. k -> NumeralTexts] /\ \A m \in 0 .. k : f[m] = NumeralStep(f, m, base)

LEMMA NumeralUnfolds ==
  \A n, base : Numeral(n, base) = (CHOOSE f : IsNumerals(f, base))[n]
BY DEF Numeral, IsNumerals, NumeralStep

LEMMA Quotients ==
  ASSUME NEW base \in Bases, NEW m \in Nat
  PROVE  /\ m % base \in 0 .. base - 1 /\ base \in 2 .. 16
         /\ m >= base => m \div base \in 0 .. m - 1 /\ m \div base < m
<1>1. CASE base = 10
  BY <1>1
<1>2. CASE base = 16
  BY <1>2
<1> QED
  BY <1>1, <1>2 DEF Bases

LEMMA HexDigitsAre ==
  /\ DOMAIN HexDigits = 1 .. 16
  /\ \A i \in 0 .. 15 : HexDigits[i + 1] \in ToSet(HexDigits)
<1>1. DOMAIN HexDigits = 1 .. 16
  BY DEF HexDigits
<1>2. \A i \in 0 .. 15 : i + 1 \in 1 .. 16
  OBVIOUS
<1>3. ToSet(HexDigits) = {HexDigits[i] : i \in 1 .. 16}
  BY <1>1 DEF ToSet
<1> QED
  BY <1>1, <1>2, <1>3

LEMMA NumeralStepType ==
  ASSUME NEW base \in Bases, NEW m \in Nat, NEW f,
         m >= base => f[m \div base] \in NumeralTexts
  PROVE  NumeralStep(f, m, base) \in NumeralTexts
<1>1. CASE m < base
  <2>1. m \in 0 .. 15
    BY <1>1, Quotients
  <2>2. HexDigits[m + 1] \in ToSet(HexDigits)
    BY <2>1, HexDigitsAre
  <2> DEFINE c == HexDigits[m + 1]
  <2>3. NumeralStep(f, m, base) = <<c>>
    BY <1>1 DEF NumeralStep
  <2> HIDE DEF c
  <2>4. <<c>> \in NumeralTexts
    BY <2>2 DEF NumeralTexts, c
  <2> QED
    BY <2>3, <2>4
<1>2. CASE ~(m < base)
  <2> DEFINE r == m % base
  <2>5. r \in 0 .. base - 1 /\ base \in 2 .. 16
    BY Quotients
  <2> HIDE DEF r
  <2>6. r \in 0 .. 15 /\ m >= base
    BY <1>2, <2>5
  <2>1. m % base \in 0 .. 15 /\ m >= base
    BY <2>6 DEF r
  <2>2. HexDigits[(m % base) + 1] \in ToSet(HexDigits)
    BY <2>1, HexDigitsAre
  <2> DEFINE c == HexDigits[(m % base) + 1]  s == f[m \div base]
  <2>3. s \in NumeralTexts /\ c \in ToSet(HexDigits)
    BY <2>1, <2>2
  <2> HIDE DEF c, s
  <2>4. Append(s, c) \in NumeralTexts
    BY <2>3 DEF NumeralTexts
  <2> QED
    BY <1>2, <2>4 DEF NumeralStep, c, s
<1> QED
  BY <1>1, <1>2

(* Two of them have the same values, by induction. *)
LEMMA NumeralsAgree ==
  ASSUME NEW base \in Bases, NEW k \in Nat, NEW l \in Nat, NEW f, NEW g,
         NumeralsUpTo(f, k, base), NumeralsUpTo(g, l, base), NEW m \in Nat, m <= k, m <= l
  PROVE  f[m] = g[m]
<1> DEFINE Differ == {i \in Nat : i <= k /\ i <= l /\ f[i] # g[i]}
<1> SUFFICES ASSUME Differ # {} PROVE FALSE
  OBVIOUS
<1>1. PICK i \in Differ : \A j \in Differ : i <= j
  <2>1. Differ \in SUBSET Nat
    OBVIOUS
  <2> HIDE DEF Differ
  <2> QED
    BY <2>1, Least
<1>2. i \in 0 .. k /\ i \in 0 .. l /\ f[i] # g[i]
  BY <1>1
<1>3. f[i] = NumeralStep(f, i, base) /\ g[i] = NumeralStep(g, i, base)
  BY <1>2 DEF NumeralsUpTo
<1>4. CASE i < base
  BY <1>2, <1>3, <1>4 DEF NumeralStep
<1>5. CASE ~(i < base)
  <2> DEFINE j == i \div base
  <2>1. j \in 0 .. i - 1
    BY <1>2, <1>5, Quotients
  <2>2. f[j] = g[j]
    <3> HIDE DEF j
    <3>1. j \in Nat /\ j <= k /\ j <= l /\ ~(i <= j)
      BY <1>2, <2>1
    <3> QED
      BY <1>1, <3>1
  <2> QED
    BY <1>2, <1>3, <1>5, <2>2 DEF NumeralStep
<1> QED
  BY <1>4, <1>5

(* There is one for every k, by induction. *)
LEMMA NumeralsUpToExist ==
  ASSUME NEW base \in Bases, NEW k \in Nat
  PROVE  \E f : NumeralsUpTo(f, k, base)
<1> DEFINE S == {i \in Nat : \E f : NumeralsUpTo(f, i, base)}
<1>1. 0 \in S
  <2> DEFINE f == [i \in 0 .. 0 |-> <<HexDigits[1]>>]
  <2>1. \A i \in 0 .. 0 : NumeralStep(f, i, base) = <<HexDigits[1]>>
    <3>1. 0 < base
      BY Quotients
    <3> QED
      BY <3>1 DEF NumeralStep
  <2>2. f \in [0 .. 0 -> NumeralTexts]
    <3>1. HexDigits[0 + 1] \in ToSet(HexDigits)
      BY HexDigitsAre
    <3> QED
      BY <3>1 DEF NumeralTexts
  <2>3. NumeralsUpTo(f, 0, base)
    BY <2>1, <2>2 DEF NumeralsUpTo
  <2> QED
    BY <2>3
<1>2. ASSUME NEW i \in Nat, i \in S PROVE i + 1 \in S
  <2>1. PICK f : NumeralsUpTo(f, i, base)
    BY <1>2
  <2> DEFINE n == i + 1
             new == NumeralStep(f, n, base)
             g == [m \in 0 .. n |-> IF m <= i THEN f[m] ELSE new]
  <2>2. \A m \in 0 .. n : m >= base => m \div base \in 0 .. i
    <3>1. \A m \in 0 .. n : m \in Nat /\ m - 1 <= i
      OBVIOUS
    <3>2. \A m \in 0 .. n : m >= base => m \div base \in 0 .. m - 1
      BY <3>1, Quotients
    <3> HIDE DEF n
    <3> QED
      BY <3>1, <3>2
  <2>3. f \in [0 .. i -> NumeralTexts] /\ \A m \in 0 .. i : f[m] = NumeralStep(f, m, base)
    BY <2>1 DEF NumeralsUpTo
  <2>4. new \in NumeralTexts
    <3>1. n \in 0 .. n /\ n \in Nat
      OBVIOUS
    <3> HIDE DEF n
    <3>2. n >= base => f[n \div base] \in NumeralTexts
      BY <2>2, <2>3, <3>1
    <3> QED
      BY <3>1, <3>2, NumeralStepType
  <2>5. n \in 0 .. n /\ ~(n <= i) /\ \A m \in 0 .. n : m = n \/ (m \in 0 .. i /\ m <= i)
    OBVIOUS
  <2>6. \A m \in 0 .. i : m <= i /\ m \in 0 .. n
    OBVIOUS
  <2> HIDE DEF new, n
  <2>7. g \in [0 .. n -> NumeralTexts] /\ g[n] = new /\ \A m \in 0 .. i : g[m] = f[m]
    BY <2>3, <2>4, <2>5, <2>6
  <2> HIDE DEF g
  <2>8. \A m \in 0 .. n : NumeralStep(g, m, base) = NumeralStep(f, m, base)
    <3> TAKE m \in 0 .. n
    <3>1. CASE m < base
      BY <3>1 DEF NumeralStep
    <3>2. CASE ~(m < base)
      <4>1. m \div base \in 0 .. i
        <5>1. m \in Nat /\ base \in Nat
          BY Quotients DEF n
        <5> QED
          BY <2>2, <3>2, <5>1
      <4> QED
        BY <2>7, <3>2, <4>1 DEF NumeralStep
    <3> QED
      BY <3>1, <3>2
  <2>9. \A m \in 0 .. n : g[m] = NumeralStep(f, m, base)
    BY <2>3, <2>5, <2>7 DEF new
  <2>10. NumeralsUpTo(g, n, base)
    BY <2>7, <2>8, <2>9 DEF NumeralsUpTo
  <2> QED
    BY <1>2, <2>10 DEF n
<1>3. Nat \subseteq S
  <2> HIDE DEF S
  <2> QED
    BY <1>1, <1>2, Induct
<1> QED
  BY <1>3

(* So the recursive function of Numeral exists, and yields texts of digits. *)
LEMMA NumeralIs ==
  ASSUME NEW base \in Bases, NEW n \in Nat
  PROVE  /\ Numeral(n, base) \in NumeralTexts
         /\ n < base => Numeral(n, base) = <<HexDigits[n + 1]>>
         /\ n >= base => Numeral(n, base) = Append(Numeral(n \div base, base), HexDigits[(n % base) + 1])
<1> DEFINE Up(k) == CHOOSE f : NumeralsUpTo(f, k, base)
           all == [m \in Nat |-> Up(m)[m]]
<1>1. \A k \in Nat : NumeralsUpTo(Up(k), k, base)
  BY NumeralsUpToExist
<1> HIDE DEF Up
<1>2. \A m \in Nat : all[m] \in NumeralTexts /\ all[m] = NumeralStep(all, m, base)
  <2> TAKE m \in Nat
  <2>1. m \in 0 .. m
    OBVIOUS
  <2>2. Up(m)[m] \in NumeralTexts /\ Up(m)[m] = NumeralStep(Up(m), m, base)
    BY <1>1, <2>1 DEF NumeralsUpTo
  <2>3. NumeralStep(Up(m), m, base) = NumeralStep(all, m, base)
    <3>1. CASE m < base
      BY <3>1 DEF NumeralStep
    <3>2. CASE ~(m < base)
      <4> DEFINE j == m \div base
      <4>1. j \in Nat /\ j <= m /\ j <= j
        BY <3>2, Quotients
      <4> HIDE DEF j
      <4>2. Up(m)[j] = Up(j)[j]
        BY <1>1, <4>1, NumeralsAgree
      <4>3. Up(m)[j] = all[j]
        BY <4>1, <4>2
      <4> QED
        BY <3>2, <4>3 DEF NumeralStep, j
    <3> QED
      BY <3>1, <3>2
  <2> QED
    BY <2>2, <2>3
<1>3. DOMAIN all = Nat /\ all = [m \in Nat |-> all[m]]
  OBVIOUS
<1> HIDE DEF all
<1>4. IsNumerals(all, base)
  BY <1>2, <1>3 DEF IsNumerals
<1> DEFINE f == CHOOSE f : IsNumerals(f, base)
<1>5. IsNumerals(f, base)
  BY <1>4
<1>6. \A m \in Nat : Numeral(m, base) = f[m]
  BY NumeralUnfolds
<1> HIDE DEF f
<1>7. \A m \in Nat : f[m] = NumeralStep(f, m, base)
  BY <1>5 DEF IsNumerals
<1>8. \A m \in Nat : f[m] \in NumeralTexts
  <2> DEFINE Bad == {m \in Nat : f[m] \notin NumeralTexts}
  <2> SUFFICES ASSUME Bad # {} PROVE FALSE
    OBVIOUS
  <2>1. PICK m \in Bad : \A j \in Bad : m <= j
    <3>1. Bad \in SUBSET Nat
      OBVIOUS
    <3> HIDE DEF Bad
    <3> QED
      BY <3>1, Least
  <2>2. m >= base => f[m \div base] \in NumeralTexts
    <3> SUFFICES ASSUME m >= base PROVE f[m \div base] \in NumeralTexts
      OBVIOUS
    <3> DEFINE j == m \div base
    <3>1. j \in 0 .. m - 1
      BY Quotients
    <3> HIDE DEF j
    <3>2. j \in Nat /\ ~(m <= j)
      BY <3>1
    <3>3. f[j] \in NumeralTexts
      BY <2>1, <3>2
    <3> QED
      BY <3>3 DEF j
  <2>3. NumeralStep(f, m, base) \in NumeralTexts
    BY <2>2, NumeralStepType
  <2> QED
    BY <1>7, <2>3
<1>9. n >= base => n \div base \in Nat
  BY Quotients
<1>10. ~(n >= base) <=> n < base
  BY Quotients
<1> QED
  BY <1>6, <1>7, <1>8, <1>9, <1>10 DEF NumeralStep
-----------------------------------------------------------------------------
(* The number a text of digits stands for: its loop, after each digit.     *)
IsHexText(s) == ToSet(Lowered(s)) \subseteq ToSet(HexDigits)
IsNumbering(iter, s, base) ==
  iter = [S \in SUBSET DOMAIN s |->
            IF S = {} THEN 0 ELSE iter[S \ {Max(S)}] * base + DigitValue[Lower(s[Max(S)])]]

LEMMA NumberUnfolds ==
  \A s, base : NumberOf(s, base) = (CHOOSE iter : IsNumbering(iter, s, base))[DOMAIN s]
BY DEF NumberOf, FoldLeft, MapThenFoldSet, IsNumbering

LEMMA DigitValueIs == \A c \in ToSet(HexDigits) : DigitValue[c] \in 0 .. 15 /\ HexDigits[DigitValue[c] + 1] = c
<1> TAKE c \in ToSet(HexDigits)
<1>1. \E i \in 1 .. 16 : HexDigits[i] = c
  BY HexDigitsAre DEF ToSet
<1> DEFINE i == CHOOSE i \in 1 .. 16 : HexDigits[i] = c
<1>2. i \in 1 .. 16 /\ HexDigits[i] = c
  BY <1>1
<1>3. DigitValue[c] = i - 1
  BY DEF DigitValue
<1> HIDE DEF i
<1>4. i - 1 \in 0 .. 15 /\ (i - 1) + 1 = i
  BY <1>2
<1> QED
  BY <1>2, <1>3, <1>4

(* What NumberOf has computed after each digit. *)
LEMMA NumberIsLoop ==
  ASSUME NEW C, NEW s \in Seq(C), IsHexText(s), NEW base \in Bases
  PROVE  \E list \in [0 .. Len(s) -> Nat] :
           /\ list[0] = 0
           /\ \A i \in 1 .. Len(s) : list[i] = list[i - 1] * base + DigitValue[Lower(s[i])]
           /\ NumberOf(s, base) = list[Len(s)]
<1> DEFINE n == Len(s)
           value == [i \in 1 .. n |-> DigitValue[Lower(s[i])]]
           step == [p \in (1 .. n) \X Nat |-> p[2] * base + value[p[1]]]
<1>1. n \in Nat /\ DOMAIN s = 1 .. n
  OBVIOUS
<1>2. \A i \in 1 .. n : value[i] \in Nat
  <2> TAKE i \in 1 .. n
  <2>1. Lowered(s)[i] = Lower(s[i]) /\ i \in DOMAIN Lowered(s)
    BY <1>1 DEF Lowered
  <2>2. Lower(s[i]) \in ToSet(HexDigits)
    BY <2>1 DEF IsHexText, ToSet
  <2>3. DigitValue[Lower(s[i])] \in 0 .. 15
    BY <2>2, DigitValueIs
  <2> QED
    BY <2>3
<1>3. \A i \in 1 .. n : value[i] = DigitValue[Lower(s[i])]
  OBVIOUS
<1> HIDE DEF value, n
<1>4. \A a \in Nat, b \in Nat : a * base + b \in Nat
  <2>1. CASE base = 10
    BY <2>1
  <2>2. CASE base = 16
    BY <2>2
  <2> QED
    BY <2>1, <2>2 DEF Bases
<1>5. IsStep(step, n, Nat)
  <2>1. \A p \in (1 .. n) \X Nat : p[2] * base + value[p[1]] \in Nat
    <3> TAKE p \in (1 .. n) \X Nat
    <3> DEFINE a == p[2]  b == value[p[1]]
    <3>1. a \in Nat /\ b \in Nat
      BY <1>2
    <3> HIDE DEF a, b
    <3>2. a * base + b \in Nat
      BY <1>4, <3>1
    <3> QED
      BY <3>2 DEF a, b
  <2> QED
    BY <2>1 DEF IsStep
<1>6. \A i \in 1 .. n, list \in Nat : step[<<i, list>>] = list * base + value[i]
  OBVIOUS
<1> HIDE DEF step
<1>7. \E iter : IsNumbering(iter, s, base)
  <2>1. PICK iter : IsFold(iter, n, Nat, 0, step)
    BY <1>1, <1>5, FoldExists
  <2>2. \A S \in SUBSET DOMAIN s :
          iter[S] = IF S = {} THEN 0 ELSE iter[S \ {Max(S)}] * base + DigitValue[Lower(s[Max(S)])]
    <3> TAKE S \in SUBSET DOMAIN s
    <3>1. CASE S = {}
      BY <2>1, <3>1 DEF IsFold
    <3>2. CASE S # {}
      <4>1. /\ Max(S) \in 1 .. n /\ iter[S \ {Max(S)}] \in Nat
            /\ iter[S] = step[<<Max(S), iter[S \ {Max(S)}]>>]
        BY <1>1, <2>1, <3>2 DEF IsFold
      <4>2. iter[S] = iter[S \ {Max(S)}] * base + value[Max(S)]
        BY <1>6, <4>1
      <4> QED
        BY <1>3, <3>2, <4>1, <4>2
    <3> QED
      BY <3>1, <3>2
  <2>3. DOMAIN iter = SUBSET DOMAIN s /\ iter = [S \in DOMAIN iter |-> iter[S]]
    BY <1>1, <2>1 DEF IsFold
  <2>4. IsNumbering(iter, s, base)
    BY <2>2, <2>3 DEF IsNumbering
  <2> QED
    BY <2>4
<1>8. PICK iter : IsNumbering(iter, s, base) /\ NumberOf(s, base) = iter[1 .. n]
  BY <1>1, <1>7, NumberUnfolds
<1>9. Follows(iter, n, Nat, 0, step)
  <2>1. iter[{}] = 0
    BY <1>8 DEF IsNumbering
  <2>2. ASSUME NEW S \in SUBSET (1 .. n), S # {}, Max(S) \in 1 .. n, iter[S \ {Max(S)}] \in Nat
        PROVE  iter[S] = step[<<Max(S), iter[S \ {Max(S)}]>>]
    <3>1. iter[S] = iter[S \ {Max(S)}] * base + DigitValue[Lower(s[Max(S)])]
      BY <1>1, <1>8, <2>2 DEF IsNumbering
    <3>2. step[<<Max(S), iter[S \ {Max(S)}]>>] = iter[S \ {Max(S)}] * base + value[Max(S)]
      BY <1>6, <2>2
    <3> QED
      BY <1>3, <2>2, <3>1, <3>2
  <2> QED
    BY <2>1, <2>2 DEF Follows
<1> DEFINE V == Nat
<1>12. 0 \in V /\ Follows(iter, n, V, 0, step) /\ IsStep(step, n, V)
  BY <1>5, <1>9
<1> HIDE DEF V
<1>13. \E list : IsLoop(list, n, V, 0, step) /\ list[n] = iter[1 .. n]
  BY <1>1, <1>12, FoldIsLoop
<1>10. PICK list : IsLoop(list, n, Nat, 0, step) /\ list[n] = iter[1 .. n]
  BY <1>13 DEF V
<1>11. \A i \in 1 .. n : list[i] = list[i - 1] * base + DigitValue[Lower(s[i])]
  <2> TAKE i \in 1 .. n
  <2>1. i - 1 \in 0 .. n
    BY <1>1
  <2>2. list[i - 1] \in Nat /\ list[i] = step[<<i, list[i - 1]>>]
    BY <1>10, <2>1 DEF IsLoop
  <2> QED
    BY <1>3, <1>6, <2>2
<1> QED
  BY <1>8, <1>10, <1>11 DEF IsLoop, n

LEMMA NumberIsNat ==
  ASSUME NEW C, NEW s \in Seq(C), IsHexText(s), NEW base \in Bases
  PROVE  NumberOf(s, base) \in Nat
<1>1. PICK list \in [0 .. Len(s) -> Nat] : NumberOf(s, base) = list[Len(s)]
  BY NumberIsLoop
<1>2. Len(s) \in 0 .. Len(s)
  OBVIOUS
<1> QED
  BY <1>1, <1>2

LEMMA DigitsAre ==
  /\ Digits \subseteq ToSet(HexDigits)
  /\ \A c \in Digits : Lower(c) = c
<1>1. Digits \subseteq ToSet(HexDigits)
  BY DEF Digits, HexDigits, ToSet
<1>2. \A c \in Digits : c \notin DOMAIN LowerCase
  BY DEF Digits, HexDigits, ToSet, LowerCase
<1> QED
  BY <1>1, <1>2 DEF Lower

LEMMA DigitsAreHex ==
  ASSUME NEW C, NEW s \in Seq(C), ToSet(s) \subseteq Digits
  PROVE  IsHexText(s)
<1>1. DOMAIN Lowered(s) = DOMAIN s /\ \A i \in DOMAIN s : Lowered(s)[i] = Lower(s[i])
  BY DEF Lowered
<1>2. \A i \in DOMAIN s : Lowered(s)[i] \in ToSet(HexDigits)
  <2>1. \A i \in DOMAIN s : s[i] \in Digits
    BY DEF ToSet
  <2> QED
    BY <1>1, <2>1, DigitsAre
<1> QED
  BY <1>1, <1>2 DEF IsHexText, ToSet
-----------------------------------------------------------------------------
(* What an address text is: four or sixteen octets.                        *)
LEMMA SequenceIs ==
  ASSUME NEW n \in Nat, NEW S, NEW f \in [1 .. n -> S]
  PROVE  f \in Seq(S) /\ Len(f) = n
OBVIOUS

LEMMA JoinIs ==
  ASSUME NEW S, NEW s \in Seq(S), NEW t \in Seq(S)
  PROVE  /\ s \o t \in Seq(S) /\ Len(s \o t) = Len(s) + Len(t) /\ <<>> \in Seq(S)
         /\ \A i \in 1 .. Len(s) : (s \o t)[i] = s[i]
         /\ \A i \in 1 .. Len(t) : (s \o t)[Len(s) + i] = t[i]
OBVIOUS

LEMMA OctetLimitIs == OctetLimit \in {16, 64, 256}
<1>1. OctetBits \in {4, 6, 8}
  BY OctetAssumption
<1>2. CASE OctetBits = 4
  <2>1. OctetLimit = 2 ^ 4
    BY <1>2 DEF OctetLimit
  <2>2. 2 ^ 4 = 16
    OBVIOUS
  <2> QED
    BY <2>1, <2>2
<1>3. CASE OctetBits = 6
  <2>1. OctetLimit = 2 ^ 6
    BY <1>3 DEF OctetLimit
  <2>2. 2 ^ 6 = 64
    OBVIOUS
  <2> QED
    BY <2>1, <2>2
<1>4. CASE OctetBits = 8
  <2>1. OctetLimit = 2 ^ 8
    BY <1>4 DEF OctetLimit
  <2>2. 2 ^ 8 = 256
    OBVIOUS
  <2> QED
    BY <2>1, <2>2
<1> QED
  BY <1>1, <1>2, <1>3, <1>4

LEMMA SplitAlone ==
  ASSUME NEW C, NEW s \in Seq(C), NEW c, ~Has(s, c)
  PROVE  Len(Split(s, c)) = 1
<1>1. PICK m \in Nat \ {0} : \E cut \in [0 .. m -> Nat] :
         IsCut(cut, m, s, Len(s), c) /\ AreParts(Split(s, c), m, cut, s)
  BY SplitCuts DEF IsSplit
<1>2. PICK cut \in [0 .. m -> Nat] :
         IsCut(cut, m, s, Len(s), c) /\ AreParts(Split(s, c), m, cut, s)
  BY <1>1
<1>3. m = 1
  <2> SUFFICES ASSUME m # 1 PROVE FALSE
    OBVIOUS
  <2>1. 0 \in 0 .. m /\ 1 \in 0 .. m /\ m \in 0 .. m /\ 1 \in 1 .. m - 1 /\ 0 < 1 /\ 1 < m
    OBVIOUS
  <2>2. /\ cut[0] = 0 /\ cut[m] = Len(s) + 1
        /\ cut[0] < cut[1] /\ cut[1] < cut[m] /\ s[cut[1]] = c
    BY <1>2, <2>1 DEF IsCut
  <2> DEFINE i == cut[1]  n == Len(s)
  <2>3. i \in Nat /\ n \in Nat /\ 0 < i /\ i < n + 1 /\ DOMAIN s = 1 .. n
    BY <2>1, <2>2
  <2> HIDE DEF i, n
  <2>4. i \in DOMAIN s
    BY <2>3
  <2> QED
    BY <2>2, <2>4 DEF Has, ToSet, i
<1> QED
  BY <1>2, <1>3 DEF AreParts

LEMMA PartsAreTexts ==
  ASSUME NEW C, NEW s \in Seq(C), NEW c
  PROVE  /\ Split(s, c) \in Seq(Seq(C)) /\ Len(Split(s, c)) \in Nat /\ Len(Split(s, c)) > 0
         /\ \A i \in 1 .. Len(Split(s, c)) : Split(s, c)[i] \in Seq(C)
<1> DEFINE parts == Split(s, c)
<1>1. parts \in Seq(Seq(C)) /\ parts # <<>>
  BY SplitCuts DEF PartLists
<1> HIDE DEF parts
<1>2. parts \in Seq(Seq(C)) /\ Len(parts) \in Nat /\ Len(parts) > 0 /\ \A i \in 1 .. Len(parts) : parts[i] \in Seq(C)
  BY <1>1
<1> QED
  BY <1>2 DEF parts

(* The octets of an address. *)
Octets == 0 .. OctetLimit - 1

LEMMA Ipv4OctetsType ==
  ASSUME NEW C, NEW s \in Seq(C), ValidIpv4Text(s)
  PROVE  Ipv4Octets(s) \in Seq(Octets) /\ Len(Ipv4Octets(s)) = 4
<1> DEFINE parts == Split(s, ".")
<1>1. /\ Len(parts) = 4 /\ \A i \in 1 .. 4 : parts[i] \in Seq(C)
      /\ \A i \in 1 .. 4 : DigitsOnly(parts[i]) /\ NumberOf(parts[i], 10) < OctetLimit
  BY PartsAreTexts DEF ValidIpv4Text, ValidOctet
<1> DEFINE octets == [i \in 1 .. 4 |-> NumberOf(parts[i], 10)]
<1>2. Ipv4Octets(s) = octets
  BY DEF Ipv4Octets
<1> HIDE DEF parts
<1>3. \A i \in 1 .. 4 : NumberOf(parts[i], 10) \in Nat
  <2>1. 10 \in Bases
    BY DEF Bases
  <2> QED
    BY <1>1, <2>1, DigitsAreHex, NumberIsNat DEF DigitsOnly
<1>4. octets \in Seq(Octets) /\ Len(octets) = 4
  <2> DEFINE n == 4  V == Octets
  <2>3. \A k \in Nat : k < OctetLimit => k \in Octets
    BY OctetLimitIs DEF Octets
  <2>4. \A i \in 1 .. 4 : NumberOf(parts[i], 10) \in Octets
    BY <1>1, <1>3, <2>3
  <2>1. n \in Nat /\ octets \in [1 .. n -> V]
    BY <2>4
  <2> HIDE DEF n, V, octets
  <2>2. octets \in Seq(V) /\ Len(octets) = n
    BY <2>1, SequenceIs
  <2> QED
    BY <2>2 DEF n, V, octets
<1> QED
  BY <1>2, <1>4

LEMMA WiderTexts ==
  ASSUME NEW A, NEW B, A \subseteq B, NEW s \in Seq(A)
  PROVE  s \in Seq(B)
<1> DEFINE n == Len(s)
<1>1. n \in Nat /\ s \in [1 .. n -> A]
  OBVIOUS
<1> HIDE DEF n
<1>2. s \in [1 .. n -> B]
  BY <1>1
<1> QED
  BY <1>1, <1>2, SequenceIs

LEMMA GroupLimit ==
  \/ OctetBits = 4 /\ OctetLimit = 16
  \/ OctetBits = 6 /\ OctetLimit = 64
  \/ OctetBits = 8 /\ OctetLimit = 256
<1>1. OctetBits \in {4, 6, 8}
  BY OctetAssumption
<1>2. 2 ^ 4 = 16 /\ 2 ^ 6 = 64 /\ 2 ^ 8 = 256
  OBVIOUS
<1>3. OctetLimit = 2 ^ OctetBits
  BY DEF OctetLimit
<1>4. CASE OctetBits = 4
  BY <1>2, <1>3, <1>4
<1>5. CASE OctetBits = 6
  BY <1>2, <1>3, <1>5
<1>6. CASE OctetBits = 8
  BY <1>2, <1>3, <1>6
<1> QED
  BY <1>1, <1>4, <1>5, <1>6

LEMMA NextDigit ==
  ASSUME NEW a \in Nat, NEW v \in 0 .. 15
  PROVE  /\ a * 16 + v \in Nat
         /\ a < 1 => a * 16 + v < 16
         /\ a < 16 => a * 16 + v < 256
         /\ a < 256 => a * 16 + v < 4096
         /\ a < 4096 => a * 16 + v < 65536
OBVIOUS

LEMMA TwoOctets ==
  ASSUME NEW l \in {16, 64, 256}, NEW k \in Nat, k < l * l
  PROVE  k \div l \in 0 .. l - 1 /\ k % l \in 0 .. l - 1
<1>1. \A q, r \in Nat : k = q * 16 + r /\ k < 256 => q <= 15
  OBVIOUS
<1>2. \A q, r \in Nat : k = q * 64 + r /\ k < 4096 => q <= 63
  OBVIOUS
<1>3. \A q, r \in Nat : k = q * 256 + r /\ k < 65536 => q <= 255
  OBVIOUS
<1>4. CASE l = 16
  <2>1. k = (k \div 16) * 16 + (k % 16) /\ k \div 16 \in Nat /\ k % 16 \in 0 .. 15
    OBVIOUS
  <2>2. k < 256
    BY <1>4
  <2> QED
    BY <1>1, <1>4, <2>1, <2>2
<1>5. CASE l = 64
  <2>1. k = (k \div 64) * 64 + (k % 64) /\ k \div 64 \in Nat /\ k % 64 \in 0 .. 63
    OBVIOUS
  <2>2. k < 4096
    BY <1>5
  <2> QED
    BY <1>2, <1>5, <2>1, <2>2
<1>6. CASE l = 256
  <2>1. k = (k \div 256) * 256 + (k % 256) /\ k \div 256 \in Nat /\ k % 256 \in 0 .. 255
    OBVIOUS
  <2>2. k < 65536
    BY <1>6
  <2> QED
    BY <1>3, <1>6, <2>1, <2>2
<1> QED
  BY <1>4, <1>5, <1>6

LEMMA GroupIsTwoOctets ==
  ASSUME NEW C, NEW g \in Seq(C), ValidGroup(g)
  PROVE  NumberOf(g, 16) \div OctetLimit \in Octets /\ NumberOf(g, 16) % OctetLimit \in Octets
<1> DEFINE n == Len(g)  k == NumberOf(g, 16)  value(i) == DigitValue[Lower(g[i])]
<1>1. n \in Nat /\ n \in 1 .. (2 * OctetBits) \div 4 /\ IsHexText(g) /\ 16 \in Bases
  BY DEF ValidGroup, IsHexText, Bases
<1>2. PICK list \in [0 .. n -> Nat] :
         /\ list[0] = 0
         /\ \A i \in 1 .. n : list[i] = list[i - 1] * 16 + value(i)
         /\ k = list[n]
  BY <1>1, NumberIsLoop
<1>3. \A i \in 1 .. n : value(i) \in 0 .. 15
  <2> TAKE i \in 1 .. n
  <2>1. i \in DOMAIN g
    OBVIOUS
  <2>2. Lower(g[i]) \in ToSet(Lowered(g))
    BY <2>1 DEF Lowered, ToSet
  <2> QED
    BY <1>1, <2>2, DigitValueIs DEF IsHexText
<1> HIDE DEF n, k, value
<1>4. \A i \in 0 .. n : list[i] \in Nat
  OBVIOUS
<1>5. \A i \in 1 .. n :
        /\ list[i - 1] < 1 => list[i] < 16
        /\ list[i - 1] < 16 => list[i] < 256
        /\ list[i - 1] < 256 => list[i] < 4096
        /\ list[i - 1] < 4096 => list[i] < 65536
  <2> TAKE i \in 1 .. n
  <2> DEFINE a == list[i - 1]  v == value(i)
  <2>1. i - 1 \in 0 .. n
    BY <1>1
  <2>2. a \in Nat /\ v \in 0 .. 15 /\ list[i] = a * 16 + v
    BY <1>2, <1>3, <1>4, <2>1
  <2> HIDE DEF a, v
  <2>3. /\ a < 1 => list[i] < 16
        /\ a < 16 => list[i] < 256
        /\ a < 256 => list[i] < 4096
        /\ a < 4096 => list[i] < 65536
    BY <2>2, NextDigit
  <2> QED
    BY <2>3 DEF a
<1>6. k \in Nat
  <2>1. n \in 0 .. n
    BY <1>1
  <2> QED
    BY <1>2, <1>4, <2>1
<1>7. /\ n >= 1 => list[1] < 16
      /\ n >= 2 => list[2] < 256
      /\ n >= 3 => list[3] < 4096
      /\ n >= 4 => list[4] < 65536
  <2>1. 1 - 1 = 0 /\ 2 - 1 = 1 /\ 3 - 1 = 2 /\ 4 - 1 = 3
    OBVIOUS
  <2>2. n >= 1 => list[1] < 16
    <3>1. n >= 1 => 1 \in 1 .. n
      BY <1>1
    <3>2. list[0] < 1
      BY <1>2
    <3> QED
      BY <1>5, <2>1, <3>1, <3>2
  <2>3. n >= 2 => list[2] < 256
    <3>1. n >= 2 => 2 \in 1 .. n /\ n >= 1
      BY <1>1
    <3> QED
      BY <1>5, <2>1, <2>2, <3>1
  <2>4. n >= 3 => list[3] < 4096
    <3>1. n >= 3 => 3 \in 1 .. n /\ n >= 2
      BY <1>1
    <3> QED
      BY <1>5, <2>1, <2>3, <3>1
  <2>5. n >= 4 => list[4] < 65536
    <3>1. n >= 4 => 4 \in 1 .. n /\ n >= 3
      BY <1>1
    <3> QED
      BY <1>5, <2>1, <2>4, <3>1
  <2> QED
    BY <2>2, <2>3, <2>4, <2>5
<1>8. /\ n = 1 => k < 16
      /\ n = 2 => k < 256
      /\ n = 3 => k < 4096
      /\ n = 4 => k < 65536
  BY <1>2, <1>7
<1>9. k < OctetLimit * OctetLimit
  <2>1. CASE OctetBits = 4
    <3>1. n = 1 \/ n = 2
      BY <1>1, <2>1
    <3>2. k < 256
      BY <1>6, <1>8, <3>1
    <3> QED
      BY <1>6, <2>1, <3>2, GroupLimit
  <2>2. CASE OctetBits = 6
    <3>1. n = 1 \/ n = 2 \/ n = 3
      BY <1>1, <2>2
    <3>2. k < 4096
      BY <1>6, <1>8, <3>1
    <3> QED
      BY <1>6, <2>2, <3>2, GroupLimit
  <2>3. CASE OctetBits = 8
    <3>1. n = 1 \/ n = 2 \/ n = 3 \/ n = 4
      BY <1>1, <2>3
    <3>2. k < 65536
      BY <1>6, <1>8, <3>1
    <3> QED
      BY <1>6, <2>3, <3>2, GroupLimit
  <2> QED
    BY <2>1, <2>2, <2>3, GroupLimit
<1>10. k \div OctetLimit \in Octets /\ k % OctetLimit \in Octets
  BY <1>6, <1>9, OctetLimitIs, TwoOctets DEF Octets
<1> QED
  BY <1>10 DEF k

LEMMA OctetsAreNumbers == Octets \subseteq Nat /\ 0 \in Octets /\ Seq(Octets) \subseteq Seq(Nat)
<1>1. Octets \subseteq Nat /\ 0 \in Octets
  BY OctetLimitIs DEF Octets
<1> QED
  BY <1>1, WiderTexts

LEMMA GroupOctetsType ==
  ASSUME NEW C, NEW g \in Seq(C), ValidGroup(g) \/ ValidIpv4Text(g)
  PROVE  GroupOctets(g) \in Seq(Octets)
<1>1. CASE Has(g, ".")
  <2>1. ~ValidGroup(g)
    <3>1. PICK i \in DOMAIN g : g[i] = "."
      BY <1>1 DEF Has, ToSet
    <3>2. Lowered(g)[i] = Lower(".") /\ i \in DOMAIN Lowered(g)
      BY <3>1 DEF Lowered
    <3>3. Lower(".") = "."
      BY DEF Lower, LowerCase
    <3>4. "." \notin ToSet(HexDigits)
      BY DEF HexDigits, ToSet
    <3>5. "." \in ToSet(Lowered(g))
      BY <3>2, <3>3 DEF ToSet
    <3> QED
      BY <3>4, <3>5 DEF ValidGroup
  <2> QED
    BY <1>1, <2>1, Ipv4OctetsType DEF GroupOctets
<1>2. CASE ~Has(g, ".")
  <2>1. ~ValidIpv4Text(g)
    BY <1>2, SplitAlone DEF ValidIpv4Text
  <2> DEFINE n == NumberOf(g, 16)
  <2>3. n \div OctetLimit \in Octets /\ n % OctetLimit \in Octets
    BY <2>1, GroupIsTwoOctets
  <2>4. GroupOctets(g) = <<n \div OctetLimit, n % OctetLimit>>
    BY <1>2 DEF GroupOctets
  <2> HIDE DEF n
  <2> DEFINE a == n \div OctetLimit  b == n % OctetLimit
  <2>6. a \in Octets /\ b \in Octets /\ GroupOctets(g) = <<a, b>>
    BY <2>3, <2>4
  <2> HIDE DEF a, b
  <2> QED
    BY <2>6
<1> QED
  BY <1>1, <1>2

LEMMA OctetsOfType ==
  ASSUME NEW C, NEW gs \in Seq(Seq(C)), NEW final, ValidGroups(gs, final)
  PROVE  OctetsOf(gs) \in Seq(Octets)
<1> DEFINE n == Len(gs)
           seqs == [i \in 1 .. n |-> GroupOctets(gs[i])]
<1>1. n \in Nat /\ DOMAIN gs = 1 .. n /\ \A i \in 1 .. n : gs[i] \in Seq(C)
  OBVIOUS
<1>2. OctetsOf(gs) = FlattenSeq(seqs)
  BY <1>1 DEF OctetsOf
<1>3. \A i \in 1 .. n : GroupOctets(gs[i]) \in Seq(Octets)
  <2> TAKE i \in 1 .. n
  <2>1. ValidGroup(gs[i]) \/ ValidIpv4Text(gs[i])
    BY <1>1 DEF ValidGroups
  <2> QED
    BY <1>1, <2>1, GroupOctetsType
<1> HIDE DEF n
<1>4. seqs \in Seq(Seq(Octets)) /\ DOMAIN seqs = 1 .. n
  BY <1>1, <1>3, IsASeq
<1> HIDE DEF seqs
<1>5. CASE seqs = <<>>
  <2>1. FlattenSeq(seqs) = seqs
    BY <1>5 DEF FlattenSeq
  <2>2. \A V : <<>> \in Seq(V)
    OBVIOUS
  <2> QED
    BY <1>2, <1>5, <2>1, <2>2
<1>6. CASE seqs # <<>>
  BY <1>2, <1>4, <1>6, FlattenRange
<1> QED
  BY <1>5, <1>6

LEMMA GroupsType ==
  ASSUME NEW C, NEW s \in Seq(C)
  PROVE  Groups(s) \in Seq(Seq(C))
<1>1. CASE s = <<>>
  BY <1>1 DEF Groups
<1>2. CASE s # <<>>
  BY <1>2, PartsAreTexts DEF Groups
<1> QED
  BY <1>1, <1>2

(* The sides of a gap. *)
LEMMA GapSides ==
  ASSUME NEW C, NEW s \in Seq(C), Gaps(s) # {}
  PROVE  LET gap == Min(Gaps(s))
         IN  /\ gap \in 1 .. Len(s) - 1
             /\ SubSeq(s, 1, gap - 1) \in Seq(C) /\ SubSeq(s, gap + 2, Len(s)) \in Seq(C)
<1> DEFINE gap == Min(Gaps(s))  n == Len(s)
<1>1. Gaps(s) \in SUBSET Nat /\ Gaps(s) \subseteq 1 .. n - 1 /\ n \in Nat
  <2>1. n \in Nat /\ Gaps(s) \subseteq 1 .. n - 1
    BY DEF Gaps
  <2> HIDE DEF n
  <2> QED
    BY <2>1
<1>2. gap \in 1 .. n - 1
  <2>1. gap \in Gaps(s)
    BY <1>1, MinIsIn
  <2> QED
    BY <1>1, <2>1
<1> HIDE DEF gap
<1>3. /\ 1 \in 1 .. n + 1 /\ gap - 1 \in 1 - 1 .. n
      /\ gap + 2 \in 1 .. n + 1 /\ n \in gap + 2 - 1 .. n
  <2> HIDE DEF n
  <2> QED
    BY <1>1, <1>2
<1>4. SubSeq(s, 1, gap - 1) \in Seq(C) /\ SubSeq(s, gap + 2, n) \in Seq(C)
  BY <1>3, PartOfText
<1> QED
  BY <1>2, <1>4 DEF gap

LEMMA Ipv6OctetsType ==
  ASSUME NEW C, NEW s \in Seq(C), Ipv6Octets(s) # None
  PROVE  Ipv6Octets(s) \in Seq(Octets) /\ Len(Ipv6Octets(s)) = 16
<1>1. CASE Gaps(s) = {}
  <2> DEFINE gs == Groups(s)
  <2>1. Ipv6Octets(s) = OctetsOf(gs) /\ ValidGroups(gs, TRUE) /\ Len(OctetsOf(gs)) = 16
    BY <1>1 DEF Ipv6Octets
  <2>2. OctetsOf(gs) \in Seq(Octets)
    BY <2>1, GroupsType, OctetsOfType
  <2> QED
    BY <2>1, <2>2
<1>2. CASE Gaps(s) # {}
  <2> DEFINE gap == Min(Gaps(s))
             left == Groups(SubSeq(s, 1, gap - 1))
             right == Groups(SubSeq(s, gap + 2, Len(s)))
             missing == 16 - Len(OctetsOf(left)) - Len(OctetsOf(right))
             a == OctetsOf(left)
             b == [i \in 1 .. missing |-> 0]
             c == OctetsOf(right)
  <2>1. Ipv6Octets(s) = IF ~ValidGroups(left, FALSE) \/ ~ValidGroups(right, TRUE) THEN None
                        ELSE IF missing <= 0 THEN None ELSE a \o b \o c
    BY <1>2 DEF Ipv6Octets
  <2>2. left \in Seq(Seq(C)) /\ right \in Seq(Seq(C))
    BY <1>2, GapSides, GroupsType
  <2>3. ValidGroups(left, FALSE) /\ ValidGroups(right, TRUE) /\ ~(missing <= 0)
    BY <2>1
  <2>4. a \in Seq(Octets) /\ c \in Seq(Octets)
    BY <2>2, <2>3, OctetsOfType
  <2>5. Ipv6Octets(s) = a \o b \o c /\ missing = 16 - Len(a) - Len(c)
    BY <2>1, <2>3
  <2> HIDE DEF a, c, missing
  <2>6. missing \in Nat /\ Len(a) \in Nat /\ Len(c) \in Nat
    BY <2>3, <2>4, <2>5
  <2>12. 0 \in Octets
    BY OctetsAreNumbers
  <2> DEFINE V == Octets
  <2>7. missing \in Nat /\ b \in [1 .. missing -> V] /\ a \in Seq(V) /\ c \in Seq(V)
    BY <2>4, <2>6, <2>12
  <2> HIDE DEF b, V
  <2>8. b \in Seq(V) /\ Len(b) = missing
    BY <2>7, SequenceIs
  <2> DEFINE d == a \o b
  <2>9. d \in Seq(V) /\ Len(d) = Len(a) + missing
    BY <2>7, <2>8, JoinIs
  <2> HIDE DEF d
  <2>10. d \o c \in Seq(V) /\ Len(d \o c) = Len(d) + Len(c)
    BY <2>7, <2>9, JoinIs
  <2>11. Len(d \o c) = 16
    BY <2>5, <2>6, <2>9, <2>10
  <2> QED
    BY <2>5, <2>10, <2>11 DEF d, V
<1> QED
  BY <1>1, <1>2

IsAddress(octets) == octets \in Seq(Octets) /\ Len(octets) \in {4, 16}

LEMMA AddressType ==
  ASSUME NEW C, NEW s \in Seq(C), AddressOctets(s) # None
  PROVE  IsAddress(AddressOctets(s))
BY Ipv4OctetsType, Ipv6OctetsType DEF AddressOctets, IsAddress
-----------------------------------------------------------------------------
(* What a parsed query is. *)
Powers == {1, 2, 4, 8, 16, 32, 64, 128}

LEMMA PowersAre ==
  /\ 2 ^ 0 = 1 /\ 2 ^ 1 = 2 /\ 2 ^ 2 = 4 /\ 2 ^ 3 = 8
  /\ 2 ^ 4 = 16 /\ 2 ^ 5 = 32 /\ 2 ^ 6 = 64 /\ 2 ^ 7 = 128
<1>1. 2 ^ 0 = 1 /\ 2 ^ 1 = 2 /\ 2 ^ 2 = 4 /\ 2 ^ 3 = 8
  OBVIOUS
<1>2. 2 ^ 4 = 16 /\ 2 ^ 5 = 32 /\ 2 ^ 6 = 64 /\ 2 ^ 7 = 128
  OBVIOUS
<1> QED
  BY <1>1, <1>2

PowerAt(k, power) ==
  <<k, power>> \in {<<0, 1>>, <<1, 2>>, <<2, 4>>, <<3, 8>>, <<4, 16>>, <<5, 32>>, <<6, 64>>, <<7, 128>>}

LEMMA PowerIs == ASSUME NEW k \in 0 .. 7 PROVE 2 ^ k \in Powers /\ PowerAt(k, 2 ^ k)
<1> DEFINE p == 2 ^ k
<1>1. k = 0 \/ k = 1 \/ k = 2 \/ k = 3 \/ k = 4 \/ k = 5 \/ k = 6 \/ k = 7
  OBVIOUS
<1>2. CASE k = 0
  <2>1. p = 2 ^ 0
    BY <1>2
  <2>2. p = 1
    BY <2>1, PowersAre
  <2> HIDE DEF p
  <2>3. p \in Powers /\ PowerAt(k, p)
    BY <1>2, <2>2 DEF Powers, PowerAt
  <2> QED
    BY <2>3 DEF p
<1>3. CASE k = 1
  <2>1. p = 2 ^ 1
    BY <1>3
  <2>2. p = 2
    BY <2>1, PowersAre
  <2> HIDE DEF p
  <2>3. p \in Powers /\ PowerAt(k, p)
    BY <1>3, <2>2 DEF Powers, PowerAt
  <2> QED
    BY <2>3 DEF p
<1>4. CASE k = 2
  <2>1. p = 2 ^ 2
    BY <1>4
  <2>2. p = 4
    BY <2>1, PowersAre
  <2> HIDE DEF p
  <2>3. p \in Powers /\ PowerAt(k, p)
    BY <1>4, <2>2 DEF Powers, PowerAt
  <2> QED
    BY <2>3 DEF p
<1>5. CASE k = 3
  <2>1. p = 2 ^ 3
    BY <1>5
  <2>2. p = 8
    BY <2>1, PowersAre
  <2> HIDE DEF p
  <2>3. p \in Powers /\ PowerAt(k, p)
    BY <1>5, <2>2 DEF Powers, PowerAt
  <2> QED
    BY <2>3 DEF p
<1>6. CASE k = 4
  <2>1. p = 2 ^ 4
    BY <1>6
  <2>2. p = 16
    BY <2>1, PowersAre
  <2> HIDE DEF p
  <2>3. p \in Powers /\ PowerAt(k, p)
    BY <1>6, <2>2 DEF Powers, PowerAt
  <2> QED
    BY <2>3 DEF p
<1>7. CASE k = 5
  <2>1. p = 2 ^ 5
    BY <1>7
  <2>2. p = 32
    BY <2>1, PowersAre
  <2> HIDE DEF p
  <2>3. p \in Powers /\ PowerAt(k, p)
    BY <1>7, <2>2 DEF Powers, PowerAt
  <2> QED
    BY <2>3 DEF p
<1>8. CASE k = 6
  <2>1. p = 2 ^ 6
    BY <1>8
  <2>2. p = 64
    BY <2>1, PowersAre
  <2> HIDE DEF p
  <2>3. p \in Powers /\ PowerAt(k, p)
    BY <1>8, <2>2 DEF Powers, PowerAt
  <2> QED
    BY <2>3 DEF p
<1>9. CASE k = 7
  <2>1. p = 2 ^ 7
    BY <1>9
  <2>2. p = 128
    BY <2>1, PowersAre
  <2> HIDE DEF p
  <2>3. p \in Powers /\ PowerAt(k, p)
    BY <1>9, <2>2 DEF Powers, PowerAt
  <2> QED
    BY <2>3 DEF p
<1> QED
  BY <1>1, <1>2, <1>3, <1>4, <1>5, <1>6, <1>7, <1>8, <1>9

Remaining(prefix, i) == prefix - (i - 1) * OctetBits
Kept(octet, unit) == (octet \div unit) * unit

LEMMA KeptIs ==
  ASSUME NEW octet \in Nat, NEW unit \in Powers
  PROVE  Kept(octet, unit) \in Nat /\ Kept(octet, unit) <= octet
<1>1. \/ unit = 1 \/ unit = 2 \/ unit = 4 \/ unit = 8
      \/ unit = 16 \/ unit = 32 \/ unit = 64 \/ unit = 128
  BY DEF Powers
<1> QED
  BY <1>1 DEF Kept

LEMMA KeptIsOctet ==
  ASSUME NEW octet \in Octets, NEW unit \in Powers
  PROVE  Kept(octet, unit) \in Octets
<1> DEFINE kept == Kept(octet, unit)
<1>1. kept \in Nat /\ kept <= octet
  BY OctetsAreNumbers, KeptIs
<1> HIDE DEF kept
<1>2. kept \in Octets
  BY <1>1, OctetLimitIs DEF Octets
<1> QED
  BY <1>2 DEF kept

LEMMA RemainingIs == ASSUME NEW prefix \in Nat, NEW i \in Nat PROVE Remaining(prefix, i) \in Int
<1>1. OctetBits \in {4, 6, 8}
  BY OctetAssumption
<1>2. CASE OctetBits = 4
  BY <1>2 DEF Remaining
<1>3. CASE OctetBits = 6
  BY <1>3 DEF Remaining
<1>4. CASE OctetBits = 8
  BY <1>4 DEF Remaining
<1> QED
  BY <1>1, <1>2, <1>3, <1>4

(* Masking an address octet by octet yields an address as long. *)
LEMMA ApplyPrefixIs ==
  ASSUME NEW octets, IsAddress(octets), NEW prefix \in Nat
  PROVE  /\ IsAddress(ApplyPrefix(octets, prefix))
         /\ Len(ApplyPrefix(octets, prefix)) = Len(octets)
         /\ \A i \in 1 .. Len(octets) :
              ApplyPrefix(octets, prefix)[i] =
                IF Remaining(prefix, i) <= 0 THEN 0
                ELSE IF Remaining(prefix, i) < OctetBits
                     THEN Kept(octets[i], 2 ^ (OctetBits - Remaining(prefix, i)))
                ELSE octets[i]
<1> DEFINE n == Len(octets)
           V == Octets
           value(i) == IF Remaining(prefix, i) <= 0 THEN 0
                       ELSE IF Remaining(prefix, i) < OctetBits
                            THEN Kept(octets[i], 2 ^ (OctetBits - Remaining(prefix, i)))
                       ELSE octets[i]
           result == [i \in 1 .. n |-> value(i)]
<1>1. octets \in Seq(Octets) /\ n \in {4, 16}
  BY DEF IsAddress
<1>2. n \in Nat /\ DOMAIN octets = 1 .. n /\ \A i \in 1 .. n : octets[i] \in Octets
  BY <1>1
<1>3. ApplyPrefix(octets, prefix) = result
  BY <1>2 DEF ApplyPrefix, Remaining, Kept
<1>4. \A i \in 1 .. n : value(i) \in Octets
  <2> TAKE i \in 1 .. n
  <2> DEFINE r == Remaining(prefix, i)
  <2>1. i \in Nat
    BY <1>2
  <2>2. r \in Int
    BY <2>1, RemainingIs
  <2> HIDE DEF r
  <2>3. ASSUME ~(r <= 0), r < OctetBits PROVE 2 ^ (OctetBits - r) \in Powers
    <3> DEFINE k == OctetBits - r
    <3>1. OctetBits \in 4 .. 8
      BY OctetAssumption
    <3>2. k \in 0 .. 7
      BY <2>2, <2>3, <3>1
    <3> HIDE DEF k
    <3>3. 2 ^ k \in Powers
      BY <3>2, PowerIs
    <3> QED
      BY <3>3 DEF k
  <2>4. ASSUME ~(r <= 0), r < OctetBits PROVE Kept(octets[i], 2 ^ (OctetBits - r)) \in Octets
    BY <1>2, <2>3, <2>4, KeptIsOctet
  <2>5. value(i) = IF r <= 0 THEN 0 ELSE IF r < OctetBits THEN Kept(octets[i], 2 ^ (OctetBits - r)) ELSE octets[i]
    BY DEF r
  <2> HIDE DEF value
  <2>6. CASE r <= 0
    BY <2>5, <2>6, OctetsAreNumbers
  <2>7. CASE ~(r <= 0) /\ r < OctetBits
    BY <2>4, <2>5, <2>7
  <2>8. CASE ~(r <= 0) /\ ~(r < OctetBits)
    BY <1>2, <2>5, <2>8
  <2> QED
    BY <2>6, <2>7, <2>8
<1> HIDE DEF value
<1>5. result \in [1 .. n -> V] /\ \A i \in 1 .. n : result[i] = value(i)
  BY <1>4
<1> HIDE DEF result, n, V
<1>6. result \in Seq(V) /\ Len(result) = n
  BY <1>2, <1>5, SequenceIs
<1> QED
  BY <1>1, <1>3, <1>5, <1>6 DEF IsAddress, n, V, value

LEMMA NetworkIs ==
  ASSUME NEW C, NEW text \in Seq(C), ParseNetwork(text) # None
  PROVE  LET parts == Split(Trim(text), "/")
             address == AddressOctets(parts[1])
             prefix == NumberOf(parts[2], 10)
         IN  /\ IsAddress(address)
             /\ \/ ParseNetwork(text) = Network(address, None)
                \/ /\ prefix \in Nat /\ ~(prefix > Len(address) * OctetBits)
                   /\ ParseNetwork(text) = Network(ApplyPrefix(address, prefix), prefix)
<1> DEFINE parts == Split(Trim(text), "/")
           address == AddressOctets(parts[1])
           prefix == NumberOf(parts[2], 10)
<1>1. ParseNetwork(text) =
        IF Len(parts) > 2 \/ address = None THEN None
        ELSE IF Len(parts) = 1 THEN Network(address, None)
        ELSE IF ~DigitsOnly(parts[2]) \/ prefix > Len(address) * OctetBits THEN None
        ELSE Network(ApplyPrefix(address, prefix), prefix)
  BY DEF ParseNetwork
<1>2. /\ Len(parts) \in Nat /\ Len(parts) > 0
      /\ \A i \in 1 .. Len(parts) : parts[i] \in Seq(C)
  <2>1. Trim(text) \in Seq(C)
    BY TrimIsTrimmed
  <2> QED
    BY <2>1, PartsAreTexts
<1>3. IsAddress(address)
  <2>1. 1 \in 1 .. Len(parts)
    BY <1>2
  <2> HIDE DEF parts
  <2>2. parts[1] \in Seq(C) /\ address # None
    BY <1>1, <1>2, <2>1
  <2> QED
    BY <2>2, AddressType
<1>4. CASE Len(parts) = 1
  BY <1>1, <1>3, <1>4
<1>5. CASE Len(parts) # 1
  <2>1. 2 \in 1 .. Len(parts)
    <3> DEFINE n == Len(parts)
    <3>1. n \in Nat /\ n > 0 /\ n # 1
      BY <1>2, <1>5
    <3> HIDE DEF n
    <3>2. 2 \in 1 .. n
      BY <3>1
    <3> QED
      BY <3>2 DEF n
  <2>2. parts[2] \in Seq(C) /\ DigitsOnly(parts[2]) /\ 10 \in Bases
    BY <1>1, <1>2, <1>5, <2>1 DEF Bases
  <2> HIDE DEF parts
  <2>3. prefix \in Nat
    BY <2>2, DigitsAreHex, NumberIsNat DEF DigitsOnly
  <2> QED
    BY <1>1, <1>3, <1>5, <2>3 DEF parts
<1> QED
  BY <1>4, <1>5

LEMMA AutnumIs ==
  ASSUME NEW C, NEW text \in Seq(C), ParseAutnum(text) # None
  PROVE  \E n \in Nat : n <= MaxAutnum /\ ParseAutnum(text) = Autnum(n)
<1> DEFINE s == Trim(text)
           digits == IF StartsAs(s) THEN SubSeq(s, 3, Len(s)) ELSE s
           n == NumberOf(digits, 10)
<1>1. DigitsOnly(digits) /\ ParseAutnum(text) = Autnum(n) /\ n <= MaxAutnum
  BY DEF ParseAutnum
<1>2. s \in Seq(C)
  BY TrimIsTrimmed
<1> HIDE DEF s
<1>3. digits \in Seq(C)
  <2>1. CASE StartsAs(s)
    <3>1. Len(s) \in Nat /\ Len(s) >= 2
      BY <1>2, <2>1 DEF StartsAs
    <3>2. 3 \in 1 .. Len(s) + 1 /\ Len(s) \in 3 - 1 .. Len(s)
      BY <3>1
    <3>3. SubSeq(s, 3, Len(s)) \in Seq(C)
      BY <1>2, <3>2, PartOfText
    <3> QED
      BY <2>1, <3>3
  <2> QED
    BY <1>2, <2>1
<1>4. 10 \in Bases
  BY DEF Bases
<1> HIDE DEF digits
<1>5. n \in Nat
  BY <1>1, <1>3, <1>4, DigitsAreHex, NumberIsNat DEF DigitsOnly
<1> QED
  BY <1>1, <1>5

IsNetworkOf(q, octets, prefix) ==
  IsAddress(octets) /\ prefix \in Nat \cup {None} /\ q = Network(octets, prefix)

(* What is parsed at all is a domain, an AS number or a network. *)
LEMMA QueryIs ==
  ASSUME NEW text, IsText(text), ParseQuery(text) # None
  PROVE  \/ \E name \in Seq(NameChars) : ParseQuery(text) = Domain(name)
         \/ \E n \in Nat : ParseQuery(text) = Autnum(n)
         \/ \E octets, prefix : IsNetworkOf(ParseQuery(text), octets, prefix)
<1> DEFINE s == Trim(text)  q == ParseQuery(text)  C == ToSet(text)
<1>1. s \in Seq(C) /\ IsTrimmed(s)
  BY TrimIsTrimmed DEF IsText
<1> HIDE DEF C
<1>2. q = IF s = <<>> THEN None
          ELSE IF AsPrefix(s) \/ DigitsOnly(s) THEN ParseAutnum(s)
          ELSE IF Has(s, ":") \/ Has(s, "/") \/ Ipv4Shape(s) THEN ParseNetwork(s)
          ELSE ParseDomain(s)
  BY DEF ParseQuery
<1> HIDE DEF s
<1>3. q # None /\ s # <<>>
  BY <1>2
<1> HIDE DEF q
<1>4. CASE q = ParseAutnum(s)
  BY <1>1, <1>3, <1>4, AutnumIs DEF q
<1>5. CASE q = ParseNetwork(s)
  <2> DEFINE parts == Split(Trim(s), "/")
             address == AddressOctets(parts[1])
             prefix == NumberOf(parts[2], 10)
  <2>1. /\ IsAddress(address)
        /\ \/ q = Network(address, None)
           \/ prefix \in Nat /\ q = Network(ApplyPrefix(address, prefix), prefix)
    BY <1>1, <1>3, <1>5, NetworkIs
  <2> HIDE DEF address, prefix
  <2>2. CASE q = Network(address, None)
    BY <2>1, <2>2 DEF IsNetworkOf, q
  <2>3. CASE prefix \in Nat /\ q = Network(ApplyPrefix(address, prefix), prefix)
    BY <2>1, <2>3, ApplyPrefixIs DEF IsNetworkOf, q
  <2> QED
    BY <2>1, <2>2, <2>3
<1>6. CASE q = ParseDomain(s)
  <2>1. q = IF IsHostName(s) THEN Domain(Lowered(NameOf(s))) ELSE None
    BY <1>1, <1>3, <1>6, DomainsAreNames
  <2>2. IsHostName(s) /\ q = Domain(Lowered(NameOf(s)))
    BY <1>3, <2>1
  <2>3. NameOf(s) \in Seq(C) /\ IsName(NameOf(s))
    BY <1>1, <1>3, <2>2, NameOfText, HostNameUnfolds DEF NameOf
  <2>4. Lowered(NameOf(s)) \in Seq(NameChars)
    BY <2>3, NameIsString
  <2> QED
    BY <2>2, <2>4 DEF q
<1> QED
  BY <1>2, <1>3, <1>4, <1>5, <1>6
-----------------------------------------------------------------------------
(* The canonical text of a query is a text. *)
TextChars == ToSet(HexDigits) \cup {".", ":", "/", "A", "S"}
Texts == Seq(TextChars)

LEMMA MarksAreTexts ==
  /\ <<".">> \in Texts /\ <<":">> \in Texts /\ <<"/">> \in Texts
  /\ <<":", ":">> \in Texts /\ <<"A", "S">> \in Texts /\ <<>> \in Texts
<1> DEFINE T == TextChars
<1>1. "." \in T /\ ":" \in T /\ "/" \in T /\ "A" \in T /\ "S" \in T
  BY DEF TextChars
<1> HIDE DEF T
<1>2. \A a \in T, b \in T : <<a>> \in Seq(T) /\ <<a, b>> \in Seq(T) /\ <<>> \in Seq(T)
  OBVIOUS
<1> QED
  BY <1>1, <1>2 DEF Texts, T

LEMMA NumeralIsText ==
  ASSUME NEW n \in Nat, NEW base \in Bases
  PROVE  Numeral(n, base) \in Texts
<1>1. Numeral(n, base) \in Seq(ToSet(HexDigits))
  BY NumeralIs DEF NumeralTexts
<1>2. ToSet(HexDigits) \subseteq TextChars
  BY DEF TextChars
<1> QED
  BY <1>1, <1>2, WiderTexts DEF Texts

LEMMA JoinedTexts ==
  ASSUME NEW s \in Texts, NEW t \in Texts
  PROVE  s \o t \in Texts
BY JoinIs DEF Texts

LEMMA ElementsAreIn == ASSUME NEW S, NEW s \in Seq(S) PROVE \A k \in 1 .. Len(s) : s[k] \in S
OBVIOUS

LEMMA Ipv4IsText ==
  ASSUME NEW octets \in Seq(Nat), Len(octets) = 4
  PROVE  FormatIpv4(octets) \in Texts
<1>0. octets[1] \in Nat /\ octets[2] \in Nat /\ octets[3] \in Nat /\ octets[4] \in Nat
  <2>1. \A k \in 1 .. Len(octets) : octets[k] \in Nat
    BY ElementsAreIn
  <2>2. 1 \in 1 .. 4 /\ 2 \in 1 .. 4 /\ 3 \in 1 .. 4 /\ 4 \in 1 .. 4
    OBVIOUS
  <2> QED
    BY <2>1, <2>2
<1> DEFINE a == Numeral(octets[1], 10)  b == Numeral(octets[2], 10)
           c == Numeral(octets[3], 10)  d == Numeral(octets[4], 10)
           dot == <<".">>
<1>1. a \in Texts /\ b \in Texts /\ c \in Texts /\ d \in Texts /\ dot \in Texts
  <2>1. 10 \in Bases
    BY DEF Bases
  <2> QED
    BY <1>0, <2>1, NumeralIsText, MarksAreTexts
<1>2. FormatIpv4(octets) = a \o dot \o b \o dot \o c \o dot \o d
  BY DEF FormatIpv4
<1> HIDE DEF a, b, c, d, dot
<1>3. a \o dot \in Texts
  BY <1>1, JoinedTexts
<1>4. a \o dot \o b \in Texts
  BY <1>1, <1>3, JoinedTexts
<1>5. a \o dot \o b \o dot \in Texts
  BY <1>1, <1>4, JoinedTexts
<1>6. a \o dot \o b \o dot \o c \in Texts
  BY <1>1, <1>5, JoinedTexts
<1>7. a \o dot \o b \o dot \o c \o dot \in Texts
  BY <1>1, <1>6, JoinedTexts
<1>8. a \o dot \o b \o dot \o c \o dot \o d \in Texts
  BY <1>1, <1>7, JoinedTexts
<1> QED
  BY <1>2, <1>8

LEMMA GroupsAreNumbers ==
  ASSUME NEW octets \in Seq(Nat), Len(octets) = 16
  PROVE  GroupsOf(octets) \in [1 .. 8 -> Nat]
<1>1. \A i \in 1 .. 8 : 2 * i - 1 \in 1 .. 16 /\ 2 * i \in 1 .. 16
  OBVIOUS
<1>2. \A i \in 1 .. 8 : octets[2 * i - 1] \in Nat /\ octets[2 * i] \in Nat
  <2> DEFINE n == Len(octets)
  <2>2. \A k \in 1 .. n : octets[k] \in Nat
    BY ElementsAreIn
  <2>3. n = 16
    OBVIOUS
  <2> HIDE DEF n
  <2>1. \A k \in 1 .. 16 : octets[k] \in Nat
    BY <2>2, <2>3
  <2> QED
    BY <1>1, <2>1
<1>3. \A a \in Nat, b \in Nat : a * OctetLimit + b \in Nat
  <2>1. CASE OctetLimit = 16
    BY <2>1
  <2>2. CASE OctetLimit = 64
    BY <2>2
  <2>3. CASE OctetLimit = 256
    BY <2>3
  <2> QED
    BY <2>1, <2>2, <2>3, OctetLimitIs
<1>4. \A i \in 1 .. 8 : octets[2 * i - 1] * OctetLimit + octets[2 * i] \in Nat
  <2> TAKE i \in 1 .. 8
  <2> DEFINE a == octets[2 * i - 1]  b == octets[2 * i]
  <2>1. a \in Nat /\ b \in Nat
    BY <1>2
  <2> HIDE DEF a, b
  <2>2. a * OctetLimit + b \in Nat
    BY <1>3, <2>1
  <2> QED
    BY <2>2 DEF a, b
<1> QED
  BY <1>4 DEF GroupsOf

LEMMA Ipv6IsText ==
  ASSUME NEW octets \in Seq(Nat), Len(octets) = 16
  PROVE  FormatIpv6(octets) \in Texts
<1> DEFINE groups == GroupsOf(octets)
           run == LongestRun(groups)
           parts == [i \in 1 .. 8 |-> GroupText(groups, run, i)]
<1>1. FormatIpv6(octets) = FlattenSeq(parts)
  BY DEF FormatIpv6
<1>2. groups \in [1 .. 8 -> Nat]
  BY GroupsAreNumbers
<1> HIDE DEF groups, run
<1>3. \A i \in 1 .. 8 : GroupText(groups, run, i) \in Texts
  <2> TAKE i \in 1 .. 8
  <2>1. Numeral(groups[i], 16) \in Texts
    BY <1>2, NumeralIsText DEF Bases
  <2> DEFINE mark == IF i \in {1, run.start + run.length} THEN <<>> ELSE <<":">>
             numeral == Numeral(groups[i], 16)
  <2>2. mark \in Texts
    BY MarksAreTexts
  <2>3. GroupText(groups, run, i) = IF i = run.start THEN <<":", ":">>
                                    ELSE IF i \in run.start .. run.start + run.length - 1 THEN <<>>
                                    ELSE mark \o numeral
    BY DEF GroupText
  <2> HIDE DEF mark, numeral
  <2>4. mark \o numeral \in Texts
    BY <2>1, <2>2, JoinedTexts DEF numeral
  <2> QED
    BY <2>3, <2>4, MarksAreTexts
<1> DEFINE n == 8
<1>4. n \in Nat /\ n # 0 /\ parts \in [1 .. n -> Texts]
  BY <1>3
<1> HIDE DEF n, parts
<1>5. parts \in Seq(Texts) /\ Len(parts) = n
  BY <1>4, SequenceIs
<1>6. parts # <<>>
  BY <1>4, <1>5
<1> QED
  BY <1>1, <1>5, <1>6, FlattenRange DEF Texts

CanonicalChars == Letters \cup Digits \cup {"-", ".", ":", "/"}
IsCanonical(t) == IsText(t) /\ t \in Seq(CanonicalChars)

LEMMA CanonicalCharsAre == \A t \in Seq(NameChars) \cup Texts : IsCanonical(t)
<1>1. NameChars \subseteq CanonicalChars
  BY DEF NameChars, CanonicalChars
<1>2. TextChars \subseteq CanonicalChars
  <2>1. ToSet(HexDigits) \subseteq Letters \cup Digits
    BY DEF Letters
  <2>2. {"A", "S"} \subseteq Letters
    BY DEF Letters, LowerCase
  <2> QED
    BY <2>1, <2>2 DEF TextChars, CanonicalChars
<1> TAKE t \in Seq(NameChars) \cup Texts
<1>3. t \in Seq(CanonicalChars)
  BY <1>1, <1>2, WiderTexts DEF Texts
<1> QED
  BY <1>3, TextOver DEF IsCanonical

(* The canonical text of whatever was parsed is a text. *)
LEMMA CanonicalIsText ==
  ASSUME NEW text, IsText(text), ParseQuery(text) # None
  PROVE  IsCanonical(QueryText(ParseQuery(text)))
<1> DEFINE q == ParseQuery(text)
<1>1. \/ \E name \in Seq(NameChars) : q = Domain(name)
      \/ \E n \in Nat : q = Autnum(n)
      \/ \E octets, prefix : IsNetworkOf(q, octets, prefix)
  BY QueryIs
<1> HIDE DEF q
<1>2. ASSUME NEW name \in Seq(NameChars), q = Domain(name)
      PROVE  IsCanonical(QueryText(q))
  <2>1. QueryText(q) = name
    BY <1>2 DEF Domain, QueryText
  <2> QED
    BY <2>1, CanonicalCharsAre
<1>3. ASSUME NEW n \in Nat, q = Autnum(n)
      PROVE  IsCanonical(QueryText(q))
  <2>1. QueryText(q) = <<"A", "S">> \o Numeral(n, 10)
    BY <1>3 DEF Autnum, QueryText
  <2>2. Numeral(n, 10) \in Texts /\ <<"A", "S">> \in Texts
    BY NumeralIsText, MarksAreTexts DEF Bases
  <2>3. QueryText(q) \in Texts
    BY <2>1, <2>2, JoinedTexts
  <2> QED
    BY <2>3, CanonicalCharsAre
<1>4. ASSUME NEW octets, NEW prefix, IsNetworkOf(q, octets, prefix)
      PROVE  IsCanonical(QueryText(q))
  <2>1. IsAddress(octets) /\ prefix \in Nat \cup {None} /\ q = Network(octets, prefix)
    BY <1>4 DEF IsNetworkOf
  <2> DEFINE a == FormatAddress(octets)  slash == <<"/">>  p == Numeral(prefix, 10)
  <2>2. QueryText(q) = IF prefix = None THEN a ELSE a \o slash \o p
    BY <2>1 DEF Network, QueryText
  <2>3. a \in Texts
    BY <2>1, Ipv4IsText, Ipv6IsText, OctetsAreNumbers DEF FormatAddress, IsAddress
  <2>4. slash \in Texts /\ (prefix # None => p \in Texts)
    BY <2>1, NumeralIsText, MarksAreTexts DEF Bases
  <2> HIDE DEF a, slash, p
  <2>5. a \o slash \in Texts
    BY <2>3, <2>4, JoinedTexts
  <2>6. prefix # None => a \o slash \o p \in Texts
    BY <2>4, <2>5, JoinedTexts
  <2>7. QueryText(q) \in Texts
    BY <2>2, <2>3, <2>6
  <2> QED
    BY <2>7, CanonicalCharsAre
<1> QED
  BY <1>1, <1>2, <1>3, <1>4 DEF q

-----------------------------------------------------------------------------
(* The inductive invariant: what is in the field, and what is stored, is a *)
(* text, and the query looked up last is what the text in the field means. *)
TextInv ==
  /\ IsText(field)
  /\ pc \in {"answered", "rejected"} => query = ParseQuery(field)
  /\ pc = "answered" => query # None
  /\ pc \in {"stored", "read"} => IsText(stored)

LEMMA TextInit == Init => TextInv
BY InputsAssumption DEF Init, TextInv, IsText

LEMMA TextNext == TextInv /\ [Next]_vars => TextInv'
<1> SUFFICES ASSUME TextInv, [Next]_vars PROVE TextInv'
  OBVIOUS
<1>1. CASE LookUp
  BY <1>1 DEF LookUp, TextInv
<1>2. CASE Remember
  <2>1. query = ParseQuery(field) /\ query # None /\ IsText(field)
    BY <1>2 DEF Remember, TextInv
  <2> DEFINE kept == QueryText(query)
             again == ParseQuery(kept)
  <2>2. IsText(kept)
    BY <2>1, CanonicalIsText DEF IsCanonical
  <2>3. again # None => IsText(QueryText(again))
    BY <2>2, CanonicalIsText DEF IsCanonical
  <2>4. /\ stored' = (IF again = None THEN None ELSE QueryText(again))
        /\ field' = field /\ pc' = (IF stored' = None THEN "forgotten" ELSE "stored")
    BY <1>2 DEF Remember, Keep
  <2> HIDE DEF again
  <2>5. pc' \in {"forgotten", "stored"} /\ (pc' = "stored" => IsText(stored'))
    BY <2>3, <2>4
  <2> QED
    BY <2>1, <2>4, <2>5 DEF TextInv
<1>3. CASE ReadBack
  <2>1. IsText(stored) /\ IsText(field)
    BY <1>3 DEF ReadBack, TextInv
  <2> DEFINE again == ParseQuery(stored)
  <2>2. again # None => IsText(QueryText(again))
    BY <2>1, CanonicalIsText DEF IsCanonical
  <2>3. /\ stored' = (IF again = None THEN None ELSE QueryText(again))
        /\ field' = field /\ pc' = (IF stored' = None THEN "forgotten" ELSE "read")
    BY <1>3 DEF ReadBack, Keep
  <2> HIDE DEF again
  <2>4. pc' \in {"forgotten", "read"} /\ (pc' = "read" => IsText(stored'))
    BY <2>2, <2>3
  <2> QED
    BY <2>1, <2>3, <2>4 DEF TextInv
<1>4. CASE Recall
  BY <1>4 DEF Recall, TextInv
<1>5. CASE UNCHANGED vars
  BY <1>5 DEF TextInv, vars
<1> QED
  BY <1>1, <1>2, <1>3, <1>4, <1>5 DEF Next

(* README: enter an ASCII domain.  Whatever is typed, read back or         *)
(* recalled, a text is looked up as a domain if and only if it is a host   *)
(* name that is neither numeric nor taken for an AS number.                *)
THEOREM DomainsAreHostNames == Spec => []EveryDomainButAs
<1>1. TextInv => EveryDomainButAs
  BY DomainsButAs DEF TextInv, EveryDomainButAs
<1> QED
  BY <1>1, TextInit, TextNext, PTL DEF Spec
-----------------------------------------------------------------------------
(* The bits of a network.  Clearing the lower bits of an octet leaves the  *)
(* upper ones as they are.                                                 *)
LEMMA KeptBits ==
  ASSUME NEW octet \in Nat, NEW u \in Powers, NEW v \in Powers
  PROVE  (Kept(octet, u) \div v) % 2 = IF u <= v THEN (octet \div v) % 2 ELSE 0
<1>1. ASSUME u <= v PROVE Kept(octet, u) \div v = octet \div v
  BY <1>1 DEF Kept, Powers
<1>2. ASSUME ~(u <= v) PROVE (Kept(octet, u) \div v) % 2 = 0
  BY <1>2 DEF Kept, Powers
<1> QED
  BY <1>1, <1>2 DEF Powers

LEMMA PowerOrder ==
  ASSUME NEW e \in 0 .. 7, NEW f \in 0 .. 7
  PROVE  2 ^ e \in Powers /\ 2 ^ f \in Powers /\ (2 ^ e <= 2 ^ f <=> e <= f)
<1> DEFINE p == 2 ^ e  q == 2 ^ f
<1>2. PowerAt(e, p) /\ PowerAt(f, q)
  BY PowerIs
<1>3. p \in Powers /\ q \in Powers
  BY PowerIs
<1> HIDE DEF p, q
<1>4. p <= q <=> e <= f
  BY <1>2 DEF PowerAt
<1> QED
  BY <1>3, <1>4 DEF p, q

(* The octet of a bit, and its place in it. *)
OctetOf(k) == (k - 1) \div OctetBits + 1
PlaceOf(k) == (OctetBits - 1) - ((k - 1) % OctetBits)

LEMMA BitPlace ==
  ASSUME NEW size \in Nat, NEW k \in 1 .. size * OctetBits, NEW prefix \in Nat
  PROVE  /\ OctetOf(k) \in 1 .. size /\ PlaceOf(k) \in 0 .. OctetBits - 1
         /\ Remaining(prefix, OctetOf(k)) \in Int
         /\ k <= prefix <=> OctetBits - Remaining(prefix, OctetOf(k)) <= PlaceOf(k)
<1>1. OctetBits \in {4, 6, 8}
  BY OctetAssumption
<1>2. CASE OctetBits = 4
  BY <1>2 DEF OctetOf, PlaceOf, Remaining
<1>3. CASE OctetBits = 6
  BY <1>3 DEF OctetOf, PlaceOf, Remaining
<1>4. CASE OctetBits = 8
  BY <1>4 DEF OctetOf, PlaceOf, Remaining
<1> QED
  BY <1>1, <1>2, <1>3, <1>4

LEMMA BitUnfolds ==
  \A octets, k : Bit(octets, k) = (octets[OctetOf(k)] \div 2 ^ PlaceOf(k)) % 2
BY DEF Bit, OctetOf, PlaceOf

(* Bit k of the masked address is that of the address up to the prefix, then 0. *)
LEMMA PrefixBits ==
  ASSUME NEW octets, IsAddress(octets), NEW prefix \in Nat, NEW k \in 1 .. Len(octets) * OctetBits
  PROVE  Bit(ApplyPrefix(octets, prefix), k) = IF k <= prefix THEN Bit(octets, k) ELSE 0
<1> DEFINE network == ApplyPrefix(octets, prefix)
           i == OctetOf(k)
           e == PlaceOf(k)
           r == Remaining(prefix, i)
           n == Len(octets)
<1>1. octets \in Seq(Nat) /\ n \in Nat /\ \A j \in 1 .. n : octets[j] \in Nat
  <2>1. octets \in Seq(Nat)
    BY OctetsAreNumbers DEF IsAddress
  <2>2. n \in Nat
    BY <2>1
  <2> QED
    BY <2>1, <2>2, ElementsAreIn
<1>2. /\ i \in 1 .. n /\ e \in 0 .. OctetBits - 1 /\ r \in Int
      /\ k <= prefix <=> OctetBits - r <= e
  BY <1>1, BitPlace
<1>3. network[i] = IF r <= 0 THEN 0
                   ELSE IF r < OctetBits THEN Kept(octets[i], 2 ^ (OctetBits - r))
                   ELSE octets[i]
  BY <1>2, ApplyPrefixIs
<1>4. /\ Bit(network, k) = (network[i] \div 2 ^ e) % 2
      /\ Bit(octets, k) = (octets[i] \div 2 ^ e) % 2
  BY BitUnfolds
<1>5. octets[i] \in Nat /\ OctetBits \in 4 .. 8
  BY <1>1, <1>2, OctetAssumption
<1> DEFINE o == octets[i]  f == OctetBits - r  v == 2 ^ e  u == 2 ^ f
<1>6. o \in Nat
  BY <1>5
<1> HIDE DEF network, i, r, n, o
<1>7. e \in 0 .. 7 /\ v \in Powers
  <2>1. e \in 0 .. 7
    BY <1>2, <1>5
  <2> HIDE DEF e
  <2> QED
    BY <2>1, PowerIs
<1>8. CASE r <= 0
  <2>1. ~(k <= prefix)
    BY <1>2, <1>5, <1>8
  <2>2. \A w \in Powers : (0 \div w) % 2 = 0
    BY DEF Powers
  <2> QED
    BY <1>3, <1>4, <1>7, <1>8, <2>1, <2>2 DEF network
<1>9. CASE ~(r <= 0) /\ ~(r < OctetBits)
  <2>1. k <= prefix
    BY <1>2, <1>5, <1>9
  <2> QED
    BY <1>3, <1>4, <1>9, <2>1 DEF network
<1>10. CASE ~(r <= 0) /\ r < OctetBits
  <2>1. f \in 0 .. 7 /\ (k <= prefix <=> f <= e)
    BY <1>2, <1>5, <1>10
  <2> HIDE DEF e, f
  <2>2. u \in Powers /\ (u <= v <=> f <= e)
    BY <1>7, <2>1, PowerOrder
  <2>3. network[i] = Kept(o, u)
    BY <1>3, <1>10 DEF o, f
  <2> HIDE DEF u, v
  <2>4. (Kept(o, u) \div v) % 2 = IF u <= v THEN (o \div v) % 2 ELSE 0
    BY <1>6, <1>7, <2>2, KeptBits
  <2>5. /\ Bit(network, k) = (network[i] \div v) % 2
        /\ Bit(octets, k) = (o \div v) % 2
    BY <1>4 DEF o, v
  <2> QED
    BY <2>1, <2>2, <2>3, <2>4, <2>5 DEF network
<1> QED
  BY <1>2, <1>5, <1>8, <1>9, <1>10

(* README: CIDR input is normalized to its network prefix.  Bit by bit,    *)
(* the network looked up is the address typed as far as the prefix goes,   *)
(* and zero from there on, for every address, prefix and width of an octet.*)
THEOREM NetworksArePrefixes == Spec => []NetworkIsPrefix
<1>1. ASSUME TextInv PROVE NetworkIsPrefix
  <2> SUFFICES ASSUME pc = "answered", query.kind = "network" PROVE NetworkIsPrefix
    BY DEF NetworkIsPrefix
  <2> DEFINE s == Trim(field)  parts == Split(s, "/")  typed == AddressOctets(parts[1])
             prefix == NumberOf(parts[2], 10)  C == ToSet(field)
  <2>1. query = ParseQuery(field) /\ query # None /\ field \in Seq(C)
    BY <1>1 DEF TextInv, IsText
  <2> HIDE DEF C
  <2>2. s \in Seq(C) /\ Trim(s) = s
    BY <2>1, TrimIsTrimmed, TrimTwice
  <2>3. query = IF s = <<>> THEN None
                ELSE IF AsPrefix(s) \/ DigitsOnly(s) THEN ParseAutnum(s)
                ELSE IF Has(s, ":") \/ Has(s, "/") \/ Ipv4Shape(s) THEN ParseNetwork(s)
                ELSE ParseDomain(s)
    BY <2>1 DEF ParseQuery
  <2> HIDE DEF s
  <2>4. query # ParseAutnum(s) /\ query # ParseDomain(s)
    <3>1. ParseAutnum(s) # None => ParseAutnum(s).kind = "autnum"
      BY OthersAreNoDomains
    <3>2. ParseDomain(s) # None => ParseDomain(s).kind = "domain"
      BY DEF ParseDomain, Domain
    <3> QED
      BY <2>1, <3>1, <3>2
  <2>5. query = ParseNetwork(s)
    BY <2>1, <2>3, <2>4
  <2>6. /\ IsAddress(typed)
        /\ \/ query = Network(typed, None)
           \/ prefix \in Nat /\ query = Network(ApplyPrefix(typed, prefix), prefix)
    BY <2>1, <2>2, <2>5, NetworkIs
  <2> HIDE DEF parts, typed, prefix
  <2>7. CASE query = Network(typed, None)
    <3>1. query.octets = typed /\ query.prefix = None
      BY <2>7 DEF Network
    <3> QED
      BY <3>1 DEF NetworkIsPrefix, typed, parts, s
  <2>8. CASE prefix \in Nat /\ query = Network(ApplyPrefix(typed, prefix), prefix)
    <3>1. query.octets = ApplyPrefix(typed, prefix) /\ query.prefix = prefix /\ prefix # None
      BY <2>8, NoneAssumption DEF Network
    <3>2. \A k \in 1 .. Len(typed) * OctetBits :
            Bit(query.octets, k) = IF query.prefix = None \/ k <= query.prefix THEN Bit(typed, k) ELSE 0
      BY <2>6, <2>8, <3>1, PrefixBits
    <3> QED
      BY <3>2 DEF NetworkIsPrefix, typed, parts, s
  <2> QED
    BY <2>6, <2>7, <2>8
<1> QED
  BY <1>1, TextInit, TextNext, PTL DEF Spec

-----------------------------------------------------------------------------
(* Parsing undoes formatting.  First, what Split makes of joined texts.    *)
LEMMA AppendIs ==
  ASSUME NEW S, NEW s \in Seq(S), NEW x \in S
  PROVE  /\ Append(s, x) \in Seq(S) /\ Len(s) \in Nat /\ Len(Append(s, x)) = Len(s) + 1
         /\ Append(s, x)[Len(s) + 1] = x /\ \A i \in 1 .. Len(s) : Append(s, x)[i] = s[i]
         /\ Append(s, x) = s \o <<x>> /\ Append(s, x) # <<>>
<1>1. /\ Append(s, x) \in Seq(S) /\ Len(s) \in Nat /\ Len(Append(s, x)) = Len(s) + 1
      /\ Append(s, x)[Len(s) + 1] = x /\ \A i \in 1 .. Len(s) : Append(s, x)[i] = s[i]
  OBVIOUS
<1>2. Append(s, x) = s \o <<x>>
  OBVIOUS
<1>3. Append(s, x) # <<>>
  <2> DEFINE t == Append(s, x)  n == Len(s)
  <2>1. Len(t) = n + 1 /\ n \in Nat
    BY <1>1
  <2> HIDE DEF t, n
  <2>2. Len(t) # 0 /\ Len(<<>>) = 0
    BY <2>1
  <2>3. t # <<>>
    BY <2>2
  <2> QED
    BY <2>3 DEF t
<1> QED
  BY <1>1, <1>2, <1>3

(* Splitting a text and one more character. *)
LEMMA SplitAppend ==
  ASSUME NEW C, NEW s \in Seq(C), NEW x \in C, NEW c
  PROVE  Split(Append(s, x), c) = SplitAt(Split(s, c), x, c)
<1> DEFINE n == Len(s)  t == Append(s, x)
<1>1. n \in Nat /\ t \in Seq(C) /\ Len(t) = n + 1 /\ t[n + 1] = x /\ \A i \in 1 .. n : t[i] = s[i]
  BY AppendIs
<1> HIDE DEF n, t
<1>8. PICK a : IsSplitLoop(a, C, s, c)
  BY SplitIsLoop
<1>9. PICK b : IsSplitLoop(b, C, t, c)
  BY <1>1, SplitIsLoop
<1>2. /\ a[0] = << <<>> >> /\ \A i \in 1 .. n : a[i] = SplitAt(a[i - 1], s[i], c)
      /\ Split(s, c) = a[n]
  BY <1>8 DEF IsSplitLoop, n
<1>3. /\ b[0] = << <<>> >> /\ \A i \in 1 .. n + 1 : b[i] = SplitAt(b[i - 1], t[i], c)
      /\ Split(t, c) = b[n + 1]
  BY <1>1, <1>9 DEF IsSplitLoop
<1> DEFINE S == {i \in 0 .. n : a[i] = b[i]}
<1>4. 0 \in S
  <2>1. a[0] = b[0]
    BY <1>2, <1>3
  <2>2. 0 \in 0 .. n
    BY <1>1
  <2> QED
    BY <2>1, <2>2
<1>5. ASSUME NEW i \in 0 .. n - 1, i \in S PROVE i + 1 \in S
  <2>1. i + 1 \in 1 .. n /\ i + 1 \in 1 .. n + 1 /\ (i + 1) - 1 = i /\ i + 1 \in 0 .. n
    BY <1>1
  <2>2. a[i + 1] = SplitAt(a[i], s[i + 1], c) /\ b[i + 1] = SplitAt(b[i], t[i + 1], c)
    BY <1>2, <1>3, <2>1
  <2> QED
    BY <1>1, <1>5, <2>1, <2>2
<1>6. a[n] = b[n]
  <2>1. 0 .. n \subseteq S
    <3> HIDE DEF S
    <3> QED
      BY <1>1, <1>4, <1>5, InductUpTo
  <2>2. n \in 0 .. n
    BY <1>1
  <2> QED
    BY <2>1, <2>2
<1>7. b[n + 1] = SplitAt(b[n], x, c)
  <2>1. n + 1 \in 1 .. n + 1 /\ (n + 1) - 1 = n
    BY <1>1
  <2> QED
    BY <1>1, <1>3, <2>1
<1> QED
  BY <1>2, <1>3, <1>6, <1>7 DEF t

LEMMA SplitEmpty == \A c : Split(<<>>, c) = << <<>> >>
<1> TAKE c
<1> DEFINE C == {1}  s == <<>>
<1>1. s \in Seq(C) /\ Len(s) = 0
  OBVIOUS
<1> HIDE DEF s, C
<1>2. PICK list : IsSplitLoop(list, C, s, c)
  BY <1>1, SplitIsLoop
<1>3. Split(s, c) = << <<>> >>
  BY <1>1, <1>2 DEF IsSplitLoop
<1> QED
  BY <1>3 DEF s

(* Text without the separator lengthens the last part. *)
Longer(parts, t) == [parts EXCEPT ![Len(parts)] = @ \o t]

(* The last part of parts, continued with the text t. *)
IsLonger(longer, C, parts, t) ==
  /\ longer \in PartLists(C) /\ Len(longer) = Len(parts)
  /\ Len(parts) \in Nat /\ Len(parts) > 0
  /\ \A k \in 1 .. Len(parts) - 1 : longer[k] = parts[k]
  /\ longer[Len(parts)] = parts[Len(parts)] \o t
  /\ parts[Len(parts)] \in Seq(C)

LEMMA LongerIs ==
  ASSUME NEW C, NEW parts \in PartLists(C), NEW t \in Seq(C)
  PROVE  IsLonger(Longer(parts, t), C, parts, t)
<1> DEFINE n == Len(parts)  last == parts[n] \o t  longer == [parts EXCEPT ![n] = last]
<1>1. /\ parts \in Seq(Seq(C)) /\ n \in Nat /\ n > 0
      /\ \A k \in 1 .. n : parts[k] \in Seq(C)
  BY DEF PartLists
<1>2. n \in 1 .. n
  BY <1>1
<1>3. last \in Seq(C)
  BY <1>1, <1>2, JoinIs
<1>4. Longer(parts, t) = longer
  BY DEF Longer
<1> HIDE DEF last
<1>5. /\ longer \in Seq(Seq(C)) /\ Len(longer) = n
      /\ \A k \in 1 .. n : longer[k] = IF k = n THEN last ELSE parts[k]
  BY <1>1, <1>2, <1>3, ExceptSeq
<1> HIDE DEF longer, n
<1>6. longer # <<>>
  BY <1>1, <1>5
<1>7. \A k \in 1 .. n - 1 : k \in 1 .. n /\ k # n
  BY <1>1
<1>8. /\ longer \in PartLists(C) /\ longer[n] = last
      /\ \A k \in 1 .. n - 1 : longer[k] = parts[k]
  BY <1>2, <1>5, <1>6, <1>7 DEF PartLists
<1> QED
  BY <1>1, <1>2, <1>4, <1>5, <1>8 DEF n, last, IsLonger

IsSplitAt(next, C, parts, x) ==
  /\ next \in PartLists(C) /\ Len(next) = Len(parts)
  /\ \A k \in 1 .. Len(parts) - 1 : next[k] = parts[k]
  /\ next[Len(parts)] = Append(parts[Len(parts)], x)

LEMMA SplitAtIs ==
  ASSUME NEW C, NEW x \in C, NEW c, NEW parts \in PartLists(C), x # c
  PROVE  IsSplitAt(SplitAt(parts, x, c), C, parts, x)
BY SplitAtType DEF IsSplitAt

Associate(a, b, c) == (a \o b) \o c = a \o (b \o c)

LEMMA JoinAssociates ==
  ASSUME NEW S, NEW a \in Seq(S), NEW b \in Seq(S), NEW c \in Seq(S)
  PROVE  Associate(a, b, c)
BY DEF Associate

IsJoinAppended(a, b, x, ab, bx) == ab = a \o b /\ bx = Append(b, x) => Append(ab, x) = a \o bx

LEMMA JoinAppend ==
  ASSUME NEW S, NEW a \in Seq(S), NEW b \in Seq(S), NEW x \in S, NEW ab, NEW bx
  PROVE  IsJoinAppended(a, b, x, ab, bx)
<1>1. a \o b \in Seq(S) /\ <<x>> \in Seq(S)
  OBVIOUS
<1>2. Append(a \o b, x) = (a \o b) \o <<x>> /\ Append(b, x) = b \o <<x>>
  BY <1>1, AppendIs
<1>3. Append(a \o b, x) = a \o Append(b, x)
  <2>1. Associate(a, b, <<x>>)
    BY <1>1, JoinAssociates
  <2> QED
    BY <1>2, <2>1 DEF Associate
<1> QED
  BY <1>3 DEF IsJoinAppended

LEMMA SameParts ==
  ASSUME NEW C, NEW p \in PartLists(C), NEW q \in PartLists(C), Len(p) = Len(q),
         \A k \in 1 .. Len(p) : p[k] = q[k]
  PROVE  p = q
BY SeqEqual DEF PartLists

(* Text without the separator lengthens the last part. *)
LEMMA SplitLonger ==
  ASSUME NEW C, NEW s \in Seq(C), NEW t \in Seq(C), NEW c, ~Has(t, c)
  PROVE  Split(s \o t, c) = Longer(Split(s, c), t)
<1> DEFINE n == Len(t)
           Front_(i) == SubSeq(t, 1, i)
           S == {i \in 0 .. n : Split(s \o Front_(i), c) = Longer(Split(s, c), Front_(i))}
           parts == Split(s, c)
<1>1. n \in Nat /\ DOMAIN t = 1 .. n /\ \A i \in 1 .. n : t[i] \in C
  OBVIOUS
<1>2. parts \in PartLists(C)
  BY SplitCuts
<1>3. \A i \in 0 .. n : Front_(i) \in Seq(C) /\ Len(Front_(i)) = i /\ \A j \in 1 .. i : Front_(i)[j] = t[j]
  <2> TAKE i \in 0 .. n
  <2>1. 1 \in 1 .. n + 1 /\ i \in 1 - 1 .. n /\ i - 1 + 1 = i /\ \A j \in 1 .. i : 1 + j - 1 = j
    BY <1>1
  <2>2. /\ Front_(i) \in Seq(C) /\ Len(Front_(i)) = i - 1 + 1
        /\ \A j \in 1 .. i - 1 + 1 : Front_(i)[j] = t[1 + j - 1]
    BY <2>1, PartOfText
  <2> QED
    BY <2>1, <2>2
<1> HIDE DEF Front_
<1>4. 0 \in S
  <2>1. 0 \in 0 .. n
    BY <1>1
  <2>2. Front_(0) = <<>>
    BY <1>3, <2>1
  <2>3. s \o <<>> = s
    OBVIOUS
  <2>4. Longer(parts, <<>>) = parts
    <3>1. <<>> \in Seq(C)
      OBVIOUS
    <3> HIDE DEF parts
    <3>6. IsLonger(Longer(parts, <<>>), C, parts, <<>>)
      BY <1>2, <3>1, LongerIs
    <3>2. /\ Longer(parts, <<>>) \in PartLists(C) /\ Len(Longer(parts, <<>>)) = Len(parts)
          /\ Len(parts) \in Nat /\ Len(parts) > 0
          /\ \A k \in 1 .. Len(parts) - 1 : Longer(parts, <<>>)[k] = parts[k]
          /\ Longer(parts, <<>>)[Len(parts)] = parts[Len(parts)] \o <<>>
          /\ parts[Len(parts)] \in Seq(C)
      BY <3>6 DEF IsLonger
    <3>3. parts[Len(parts)] \o <<>> = parts[Len(parts)]
      BY <3>2
    <3>4. \A k \in 1 .. Len(parts) : k \in 1 .. Len(parts) - 1 \/ k = Len(parts)
      BY <3>2
    <3>5. \A k \in 1 .. Len(parts) : parts[k] = Longer(parts, <<>>)[k]
      BY <3>2, <3>3, <3>4
    <3> QED
      BY <1>2, <3>2, <3>5, SameParts
  <2> QED
    BY <2>1, <2>2, <2>3, <2>4
<1>5. ASSUME NEW i \in 0 .. n - 1, i \in S PROVE i + 1 \in S
  <2> DEFINE f == Front_(i)  x == t[i + 1]  g == Front_(i + 1)
  <2>1. i \in 0 .. n /\ i + 1 \in 0 .. n /\ i + 1 \in 1 .. n /\ \A j \in 1 .. i : j \in 1 .. i + 1
    BY <1>1
  <2>2. f \in Seq(C) /\ Len(f) = i /\ g \in Seq(C) /\ Len(g) = i + 1 /\ x \in C
    BY <1>1, <1>3, <2>1
  <2>3. g = Append(f, x)
    <3>1. i + 1 \in 1 .. i + 1 /\ i \in Nat /\ \A j \in 1 .. i + 1 : j \in 1 .. i \/ j = i + 1
      BY <1>1
    <3>2. /\ \A j \in 1 .. i + 1 : g[j] = t[j]
          /\ \A j \in 1 .. i : f[j] = t[j]
      BY <1>3, <2>1
    <3>3. Append(f, x) \in Seq(C) /\ Len(Append(f, x)) = i + 1
          /\ Append(f, x)[i + 1] = x /\ \A j \in 1 .. i : Append(f, x)[j] = f[j]
      <4> HIDE DEF f, x
      <4> QED
        BY <2>2, AppendIs
    <3> HIDE DEF f, g
    <3>4. \A j \in 1 .. i + 1 : g[j] = Append(f, x)[j]
      BY <2>1, <3>1, <3>2, <3>3
    <3> QED
      BY <2>2, <3>3, <3>4, SeqEqual
  <2>4. x # c
    <3>1. x \in ToSet(t)
      BY <1>1, <2>1 DEF ToSet
    <3> QED
      BY <3>1 DEF Has
  <2>5. Split(s \o f, c) = Longer(parts, f)
    BY <1>5
  <2> HIDE DEF f, g, x, parts
  <2>6. s \o g = Append(s \o f, x) /\ s \o f \in Seq(C)
    BY <2>2, <2>3
  <2>7. Split(s \o g, c) = SplitAt(Longer(parts, f), x, c)
    BY <2>2, <2>5, <2>6, SplitAppend
  <2>8. SplitAt(Longer(parts, f), x, c) = Longer(parts, g)
    <3> DEFINE p == Longer(parts, f)  q == Longer(parts, g)  m == Len(parts)  r == SplitAt(p, x, c)
    <3>8. IsLonger(p, C, parts, f) /\ IsLonger(q, C, parts, g)
      BY <1>2, <2>2, LongerIs
    <3> HIDE DEF p, q
    <3>1. /\ p \in PartLists(C) /\ Len(p) = m /\ m \in Nat /\ m > 0
          /\ \A k \in 1 .. m - 1 : p[k] = parts[k]
          /\ p[m] = parts[m] \o f /\ parts[m] \in Seq(C)
      BY <3>8 DEF IsLonger
    <3>2. /\ q \in PartLists(C) /\ Len(q) = m
          /\ \A k \in 1 .. m - 1 : q[k] = parts[k]
          /\ q[m] = parts[m] \o g
      BY <3>8 DEF IsLonger
    <3>9. IsSplitAt(r, C, p, x)
      BY <2>2, <2>4, <3>1, SplitAtIs
    <3> HIDE DEF m, r
    <3>3. /\ r \in PartLists(C) /\ Len(r) = m
          /\ \A k \in 1 .. m - 1 : r[k] = p[k]
          /\ r[m] = Append(p[m], x)
      BY <3>1, <3>9 DEF IsSplitAt
    <3>4. r[m] = q[m]
      <4> DEFINE l == parts[m]
             joined == p[m]
      <4>1. l \in Seq(C) /\ joined = l \o f /\ q[m] = l \o g
        BY <3>1, <3>2
      <4> HIDE DEF l, joined
      <4>2. Append(joined, x) = l \o g
        <5>1. IsJoinAppended(l, f, x, joined, g)
          BY <2>2, <4>1, JoinAppend
        <5> QED
          BY <2>3, <4>1, <5>1 DEF IsJoinAppended
      <4> QED
        BY <3>3, <4>1, <4>2 DEF joined
    <3>5. \A k \in 1 .. m : k \in 1 .. m - 1 \/ k = m
      BY <3>1
    <3>6. \A k \in 1 .. m : r[k] = q[k]
      BY <3>1, <3>2, <3>3, <3>4, <3>5
    <3>7. r = q
      BY <3>2, <3>3, <3>6, SameParts
    <3> QED
      BY <3>7 DEF r, p, q
  <2> QED
    BY <2>1, <2>7, <2>8 DEF g, parts
<1>6. n \in S
  <2> HIDE DEF S
  <2>1. 0 .. n \subseteq S
    BY <1>1, <1>4, <1>5, InductUpTo
  <2> QED
    BY <1>1, <2>1
<1>7. Front_(n) = t
  <2>1. n \in 0 .. n
    BY <1>1
  <2>2. Front_(n) \in Seq(C) /\ Len(Front_(n)) = n /\ \A j \in 1 .. n : Front_(n)[j] = t[j]
    BY <1>3, <2>1
  <2> QED
    BY <2>2, SeqEqual
<1> QED
  BY <1>6, <1>7

(* A text without the separator is one part. *)
LEMMA SplitWhole ==
  ASSUME NEW C, NEW t \in Seq(C), NEW c, ~Has(t, c)
  PROVE  Split(t, c) = <<t>>
<1> DEFINE e == <<>>  one == <<e>>
<1>1. e \in Seq(C) /\ e \o t = t
  OBVIOUS
<1>2. Split(e, c) = one
  BY SplitEmpty
<1>3. one \in PartLists(C) /\ Len(one) = 1 /\ one[1] = e
  BY <1>1 DEF PartLists
<1> HIDE DEF e, one
<1>4. Split(t, c) = Longer(one, t)
  <2>1. Split(e \o t, c) = Longer(Split(e, c), t)
    BY <1>1, SplitLonger
  <2> QED
    BY <1>1, <1>2, <2>1
<1>9. IsLonger(Longer(one, t), C, one, t)
  BY <1>3, LongerIs
<1>5. Longer(one, t) \in PartLists(C) /\ Len(Longer(one, t)) = 1 /\ Longer(one, t)[1] = t
  BY <1>1, <1>3, <1>9 DEF IsLonger
<1>6. <<t>> \in PartLists(C) /\ Len(<<t>>) = 1 /\ <<t>>[1] = t
  BY DEF PartLists
<1>7. \A k \in 1 .. 1 : k = 1
  OBVIOUS
<1>8. Longer(one, t) = <<t>>
  BY <1>5, <1>6, <1>7, SameParts
<1> QED
  BY <1>4, <1>8

(* Splitting s, the separator and a text t without it yields the parts of s, then t. *)
LEMMA SplitJoined ==
  ASSUME NEW C, NEW s \in Seq(C), NEW t \in Seq(C), NEW c \in C, ~Has(t, c)
  PROVE  Split(s \o <<c>> \o t, c) = Append(Split(s, c), t)
<1> DEFINE parts == Split(s, c)  n == Len(parts)  cut == Append(parts, <<>>)  result == Longer(cut, t)
<1>1. parts \in PartLists(C)
  BY SplitCuts
<1>2. s \o <<c>> \in Seq(C) /\ s \o <<c>> = Append(s, c)
  OBVIOUS
<1>3. Split(s \o <<c>>, c) = cut
  <2>1. Split(Append(s, c), c) = SplitAt(parts, c, c)
    BY SplitAppend
  <2>2. SplitAt(parts, c, c) = cut
    BY DEF SplitAt
  <2> QED
    BY <1>2, <2>1, <2>2
<1>4. Split(s \o <<c>> \o t, c) = result
  <2> DEFINE u == s \o <<c>>
  <2>1. u \in Seq(C) /\ Split(u, c) = cut
    BY <1>2, <1>3
  <2> HIDE DEF u, cut
  <2>2. Split(u \o t, c) = Longer(Split(u, c), t)
    BY <2>1, SplitLonger
  <2> QED
    BY <2>1, <2>2 DEF u
<1> HIDE DEF parts
<1>5. parts \in Seq(Seq(C)) /\ n \in Nat /\ t \in Seq(C) /\ <<>> \in Seq(C)
  BY <1>1 DEF PartLists
<1> DEFINE V == Seq(C)  e == <<>>
<1>6. parts \in Seq(V) /\ e \in V /\ t \in V /\ n \in Nat
  BY <1>5
<1> HIDE DEF V, e
<1>7. /\ Append(parts, e) \in Seq(V) /\ Len(Append(parts, e)) = n + 1
      /\ Append(parts, e)[n + 1] = e /\ \A i \in 1 .. n : Append(parts, e)[i] = parts[i]
      /\ Append(parts, e) # <<>>
  BY <1>6, AppendIs
<1>8. /\ Append(parts, t) \in Seq(V) /\ Len(Append(parts, t)) = n + 1
      /\ Append(parts, t)[n + 1] = t /\ \A i \in 1 .. n : Append(parts, t)[i] = parts[i]
      /\ Append(parts, t) # <<>>
  BY <1>6, AppendIs
<1>9. cut \in PartLists(C) /\ Len(cut) = n + 1 /\ cut[n + 1] = e /\ \A i \in 1 .. n : cut[i] = parts[i]
  BY <1>7 DEF PartLists, V, e
<1> HIDE DEF cut, n
<1>16. IsLonger(result, C, cut, t)
  BY <1>9, LongerIs
<1> HIDE DEF result
<1>10. /\ result \in PartLists(C) /\ Len(result) = n + 1
       /\ \A k \in 1 .. (n + 1) - 1 : result[k] = cut[k]
       /\ result[n + 1] = cut[n + 1] \o t
  BY <1>9, <1>16 DEF IsLonger
<1>11. (n + 1) - 1 = n /\ \A k \in 1 .. n + 1 : k \in 1 .. n \/ k = n + 1
  BY <1>6
<1>12. e \o t = t
  BY DEF e
<1> DEFINE joined == Append(parts, t)
<1>13. joined \in PartLists(C) /\ Len(joined) = n + 1
  BY <1>8 DEF PartLists, V
<1>14. \A k \in 1 .. n + 1 : result[k] = joined[k]
  BY <1>8, <1>9, <1>10, <1>11, <1>12
<1> HIDE DEF result, joined
<1>15. result = joined
  BY <1>10, <1>13, <1>14, SameParts
<1> QED
  BY <1>4, <1>15 DEF joined, parts

LEMMA TupleIs ==
  ASSUME NEW S, NEW p \in Seq(S), NEW q \in Seq(S), NEW x \in S, NEW n \in Nat,
         Len(p) = n, Len(q) = n + 1, q[n + 1] = x, \A i \in 1 .. n : q[i] = p[i]
  PROVE  Append(p, x) = q
<1> DEFINE r == Append(p, x)
<1>1. r \in Seq(S) /\ Len(r) = n + 1 /\ r[n + 1] = x /\ \A i \in 1 .. n : r[i] = p[i]
  BY AppendIs
<1> HIDE DEF r
<1>2. \A i \in 1 .. n + 1 : i \in 1 .. n \/ i = n + 1
  OBVIOUS
<1>3. \A i \in 1 .. n + 1 : r[i] = q[i]
  BY <1>1, <1>2
<1> QED
  BY <1>1, <1>3, SeqEqual DEF r

LEMMA AppendToOne == \A s, t : Append(<<s>>, t) = <<s, t>>
<1> TAKE s, t
<1> DEFINE S == {s, t}  n == 1  p == <<s>>  q == <<s, t>>
<1>1. s \in S /\ t \in S
  OBVIOUS
<1> HIDE DEF S
<1>2. /\ p \in Seq(S) /\ q \in Seq(S) /\ Len(p) = n /\ Len(q) = n + 1 /\ n \in Nat
      /\ q[n + 1] = t /\ \A i \in 1 .. n : q[i] = p[i]
  BY <1>1
<1> HIDE DEF n, p, q
<1>3. Append(p, t) = q
  BY <1>1, <1>2, TupleIs
<1> QED
  BY <1>3 DEF p, q

LEMMA AppendToTwo == \A s, t, u : Append(<<s, t>>, u) = <<s, t, u>>
<1> TAKE s, t, u
<1> DEFINE S == {s, t, u}  n == 2  p == <<s, t>>  q == <<s, t, u>>
<1>1. s \in S /\ t \in S /\ u \in S
  OBVIOUS
<1> HIDE DEF S
<1>2. /\ p \in Seq(S) /\ q \in Seq(S) /\ Len(p) = n /\ Len(q) = n + 1 /\ n \in Nat
      /\ q[n + 1] = u /\ \A i \in 1 .. n : q[i] = p[i]
  BY <1>1
<1> HIDE DEF n, p, q
<1>3. Append(p, u) = q
  BY <1>1, <1>2, TupleIs
<1> QED
  BY <1>3 DEF p, q

LEMMA AppendToThree == \A s, t, u, v : Append(<<s, t, u>>, v) = <<s, t, u, v>>
<1> TAKE s, t, u, v
<1> DEFINE S == {s, t, u, v}  n == 3  p == <<s, t, u>>  q == <<s, t, u, v>>
<1>1. s \in S /\ t \in S /\ u \in S /\ v \in S
  OBVIOUS
<1> HIDE DEF S
<1>2. /\ p \in Seq(S) /\ q \in Seq(S) /\ Len(p) = n /\ Len(q) = n + 1 /\ n \in Nat
      /\ q[n + 1] = v /\ \A i \in 1 .. n : q[i] = p[i]
  BY <1>1
<1> HIDE DEF n, p, q
<1>3. Append(p, v) = q
  BY <1>1, <1>2, TupleIs
<1> QED
  BY <1>3 DEF p, q

SplitsJoined(s, c, t) == Split(s \o <<c>> \o t, c) = Append(Split(s, c), t)

LEMMA SplitIsJoined ==
  ASSUME NEW C, NEW s \in Seq(C), NEW t \in Seq(C), NEW c \in C, ~Has(t, c)
  PROVE  SplitsJoined(s, c, t)
BY SplitJoined DEF SplitsJoined

-----------------------------------------------------------------------------
(* The number of a numeral.                                                *)
IsNumberLoop(list, s, base) ==
  /\ list \in [0 .. Len(s) -> Nat]
  /\ list[0] = 0
  /\ \A i \in 1 .. Len(s) : list[i] = list[i - 1] * base + DigitValue[Lower(s[i])]
  /\ NumberOf(s, base) = list[Len(s)]

LEMMA NumberHasLoop ==
  ASSUME NEW C, NEW s \in Seq(C), IsHexText(s), NEW base \in Bases
  PROVE  \E list : IsNumberLoop(list, s, base)
<1>1. PICK list \in [0 .. Len(s) -> Nat] :
           /\ list[0] = 0
           /\ \A i \in 1 .. Len(s) : list[i] = list[i - 1] * base + DigitValue[Lower(s[i])]
           /\ NumberOf(s, base) = list[Len(s)]
  BY NumberIsLoop
<1> QED
  BY <1>1 DEF IsNumberLoop

LEMMA HexTextIs ==
  ASSUME NEW C, NEW s \in Seq(C)
  PROVE  IsHexText(s) <=> \A i \in 1 .. Len(s) : Lower(s[i]) \in ToSet(HexDigits)
<1>1. DOMAIN s = 1 .. Len(s)
  OBVIOUS
<1>2. DOMAIN Lowered(s) = DOMAIN s /\ \A i \in DOMAIN s : Lowered(s)[i] = Lower(s[i])
  BY DEF Lowered
<1>3. ToSet(Lowered(s)) = {Lower(s[i]) : i \in DOMAIN s}
  BY <1>2 DEF ToSet
<1> QED
  BY <1>1, <1>3 DEF IsHexText

(* The number of a text and one more digit. *)
LEMMA NumberAppend ==
  ASSUME NEW C, NEW s \in Seq(C), NEW x \in C, NEW base \in Bases,
         IsHexText(s), Lower(x) \in ToSet(HexDigits)
  PROVE  /\ IsHexText(Append(s, x))
         /\ NumberOf(Append(s, x), base) = NumberOf(s, base) * base + DigitValue[Lower(x)]
<1> DEFINE n == Len(s)  t == Append(s, x)
<1>1. n \in Nat /\ t \in Seq(C) /\ Len(t) = n + 1 /\ t[n + 1] = x /\ \A i \in 1 .. n : t[i] = s[i]
  BY AppendIs
<1> HIDE DEF n, t
<1>2. IsHexText(t)
  <2>1. \A i \in 1 .. n : Lower(s[i]) \in ToSet(HexDigits)
    BY HexTextIs DEF n
  <2>2. \A i \in 1 .. n + 1 : i \in 1 .. n \/ i = n + 1
    BY <1>1
  <2>3. \A i \in 1 .. Len(t) : Lower(t[i]) \in ToSet(HexDigits)
    BY <1>1, <2>1, <2>2
  <2> QED
    BY <1>1, <2>3, HexTextIs
<1>3. PICK a : IsNumberLoop(a, s, base)
  BY NumberHasLoop
<1>4. PICK b : IsNumberLoop(b, t, base)
  BY <1>1, <1>2, NumberHasLoop
<1>5. /\ a[0] = 0 /\ \A i \in 1 .. n : a[i] = a[i - 1] * base + DigitValue[Lower(s[i])]
      /\ NumberOf(s, base) = a[n]
  BY <1>3 DEF IsNumberLoop, n
<1>6. /\ b[0] = 0 /\ \A i \in 1 .. n + 1 : b[i] = b[i - 1] * base + DigitValue[Lower(t[i])]
      /\ NumberOf(t, base) = b[n + 1]
  BY <1>1, <1>4 DEF IsNumberLoop
<1> DEFINE S == {i \in 0 .. n : a[i] = b[i]}
<1>7. 0 \in S
  <2>1. a[0] = b[0]
    BY <1>5, <1>6
  <2>2. 0 \in 0 .. n
    BY <1>1
  <2> QED
    BY <2>1, <2>2
<1>8. ASSUME NEW i \in 0 .. n - 1, i \in S PROVE i + 1 \in S
  <2>1. i + 1 \in 1 .. n /\ i + 1 \in 1 .. n + 1 /\ (i + 1) - 1 = i /\ i + 1 \in 0 .. n
    BY <1>1
  <2>2. /\ a[i + 1] = a[i] * base + DigitValue[Lower(s[i + 1])]
        /\ b[i + 1] = b[i] * base + DigitValue[Lower(t[i + 1])]
    BY <1>5, <1>6, <2>1
  <2>3. a[i] = b[i] /\ s[i + 1] = t[i + 1]
    BY <1>1, <1>8, <2>1
  <2>4. a[i + 1] = b[i + 1]
    BY <2>2, <2>3
  <2> QED
    BY <2>1, <2>4
<1>9. a[n] = b[n]
  <2>1. 0 .. n \subseteq S
    <3> HIDE DEF S
    <3> QED
      BY <1>1, <1>7, <1>8, InductUpTo
  <2>2. n \in 0 .. n
    BY <1>1
  <2> QED
    BY <2>1, <2>2
<1>10. b[n + 1] = b[n] * base + DigitValue[Lower(x)]
  <2>1. n + 1 \in 1 .. n + 1 /\ (n + 1) - 1 = n
    BY <1>1
  <2>2. b[n + 1] = b[(n + 1) - 1] * base + DigitValue[Lower(t[n + 1])]
    BY <1>6, <2>1
  <2> QED
    BY <1>1, <2>1, <2>2
<1>11. NumberOf(t, base) = NumberOf(s, base) * base + DigitValue[Lower(x)]
  BY <1>5, <1>6, <1>9, <1>10
<1> QED
  BY <1>2, <1>11 DEF t

LEMMA NumberEmpty ==
  ASSUME NEW base \in Bases
  PROVE  IsHexText(<<>>) /\ NumberOf(<<>>, base) = 0
<1> DEFINE C == {1}  s == <<>>
<1>1. s \in Seq(C) /\ Len(s) = 0
  OBVIOUS
<1> HIDE DEF s, C
<1>2. IsHexText(s)
  <2>1. \A i \in 1 .. Len(s) : Lower(s[i]) \in ToSet(HexDigits)
    BY <1>1
  <2> QED
    BY <1>1, <2>1, HexTextIs
<1>3. PICK list : IsNumberLoop(list, s, base)
  BY <1>1, <1>2, NumberHasLoop
<1>4. NumberOf(s, base) = 0
  BY <1>1, <1>3 DEF IsNumberLoop
<1> QED
  BY <1>2, <1>4 DEF s

LEMMA HexDigitsDiffer == \A i, j \in 1 .. 16 : HexDigits[i] = HexDigits[j] => i = j
BY DEF HexDigits

LEMMA HexDigitIs ==
  ASSUME NEW i \in 0 .. 15
  PROVE  /\ HexDigits[i + 1] \in ToSet(HexDigits) /\ Lower(HexDigits[i + 1]) = HexDigits[i + 1]
         /\ DigitValue[HexDigits[i + 1]] = i
<1> DEFINE c == HexDigits[i + 1]
<1>1. c \in ToSet(HexDigits)
  BY HexDigitsAre
<1>2. \A d \in ToSet(HexDigits) : d \notin DOMAIN LowerCase
  BY DEF HexDigits, ToSet, LowerCase
<1>3. DigitValue[c] \in 0 .. 15 /\ HexDigits[DigitValue[c] + 1] = c
  BY <1>1, DigitValueIs
<1>4. DigitValue[c] = i
  <2> DEFINE k == DigitValue[c]
  <2>1. k + 1 \in 1 .. 16 /\ i + 1 \in 1 .. 16 /\ HexDigits[k + 1] = HexDigits[i + 1]
    BY <1>3
  <2> HIDE DEF k
  <2>2. k + 1 = i + 1
    BY <2>1, HexDigitsDiffer
  <2>3. k \in 0 .. 15
    BY <1>3 DEF k
  <2> QED
    BY <2>2, <2>3 DEF k
<1> QED
  BY <1>1, <1>2, <1>4 DEF Lower

LEMMA Euclid ==
  ASSUME NEW base \in Bases, NEW n \in Nat, NEW q, NEW r, q = n \div base, r = n % base
  PROVE  q * base + r = n
<1>1. CASE base = 10
  <2>1. (n \div 10) * 10 + (n % 10) = n
    OBVIOUS
  <2> QED
    BY <1>1, <2>1
<1>2. CASE base = 16
  <2>1. (n \div 16) * 16 + (n % 16) = n
    OBVIOUS
  <2> QED
    BY <1>2, <2>1
<1> QED
  BY <1>1, <1>2 DEF Bases

LEMMA NoQuotient ==
  ASSUME NEW base \in Bases, NEW n \in Nat
  PROVE  0 * base + n = n
<1>1. base \in Nat
  BY DEF Bases
<1> QED
  BY <1>1

LEMMA NumeralIsHex ==
  ASSUME NEW base \in Bases, NEW n \in Nat
  PROVE  IsHexText(Numeral(n, base))
<1> DEFINE s == Numeral(n, base)
<1>1. s \in Seq(ToSet(HexDigits))
  BY NumeralIs DEF NumeralTexts
<1> HIDE DEF s
<1>2. \A i \in 1 .. Len(s) : s[i] \in ToSet(HexDigits)
  BY <1>1, ElementsAreIn
<1>3. \A d \in ToSet(HexDigits) : d \notin DOMAIN LowerCase
  BY DEF HexDigits, ToSet, LowerCase
<1>4. \A i \in 1 .. Len(s) : Lower(s[i]) \in ToSet(HexDigits)
  BY <1>2, <1>3 DEF Lower
<1> QED
  BY <1>1, <1>4, HexTextIs DEF s

(* Reading a numeral yields the number it was written for. *)
LEMMA NumberOfNumeral ==
  ASSUME NEW base \in Bases, NEW n \in Nat
  PROVE  NumberOf(Numeral(n, base), base) = n
<1> DEFINE Bad == {m \in Nat : NumberOf(Numeral(m, base), base) # m}
<1> SUFFICES ASSUME Bad # {} PROVE FALSE
  OBVIOUS
<1>1. PICK m \in Bad : \A j \in Bad : m <= j
  <2>1. Bad \in SUBSET Nat
    OBVIOUS
  <2> HIDE DEF Bad
  <2> QED
    BY <2>1, Least
<1>2. m \in Nat /\ NumberOf(Numeral(m, base), base) # m
  BY <1>1
<1> DEFINE C == ToSet(HexDigits)
<1>3. CASE m < base
  <2> DEFINE x == HexDigits[m + 1]  e == <<>>
  <2>1. m \in 0 .. 15
    BY <1>2, <1>3, Quotients
  <2>2. x \in C /\ Lower(x) = x /\ DigitValue[x] = m
    BY <2>1, HexDigitIs
  <2>3. e \in Seq(C) /\ IsHexText(e) /\ NumberOf(e, base) = 0
    BY NumberEmpty
  <2>4. Numeral(m, base) = Append(e, x)
    BY <1>2, <1>3, NumeralIs
  <2> HIDE DEF x, e, C
  <2>5. NumberOf(Append(e, x), base) = NumberOf(e, base) * base + DigitValue[Lower(x)]
    <3>1. Lower(x) \in ToSet(HexDigits)
      BY <2>2 DEF C
    <3> QED
      BY <2>2, <2>3, <3>1, NumberAppend
  <2>6. NumberOf(Numeral(m, base), base) = 0 * base + m
    BY <2>2, <2>3, <2>4, <2>5
  <2> QED
    BY <1>2, <2>6, NoQuotient
<1>4. CASE ~(m < base)
  <2> DEFINE q == m \div base  r == m % base  x == HexDigits[r + 1]  s == Numeral(q, base)
  <2>1. q \in 0 .. m - 1 /\ r \in 0 .. base - 1 /\ base \in 2 .. 16
    BY <1>2, <1>4, Quotients
  <2>8. q * base + r = m
    BY <1>2, Euclid
  <2>9. Numeral(m, base) = Append(s, x)
    <3>1. m >= base
      BY <1>2, <1>4, <2>1
    <3> QED
      BY <1>2, <3>1, NumeralIs
  <2> HIDE DEF q, r
  <2>2. q \in Nat /\ ~(m <= q) /\ r \in 0 .. 15
    BY <1>2, <2>1
  <2>3. NumberOf(s, base) = q
    BY <1>1, <2>2
  <2>4. x \in C /\ Lower(x) = x /\ DigitValue[x] = r
    BY <2>2, HexDigitIs
  <2>5. s \in Seq(C) /\ IsHexText(s)
    BY <2>2, NumeralIs, NumeralIsHex DEF NumeralTexts
  <2> HIDE DEF x, s, C
  <2>6. NumberOf(Append(s, x), base) = NumberOf(s, base) * base + DigitValue[Lower(x)]
    <3>1. Lower(x) \in ToSet(HexDigits)
      BY <2>4 DEF C
    <3> QED
      BY <2>4, <2>5, <3>1, NumberAppend
  <2>7. NumberOf(Numeral(m, base), base) = q * base + r
    BY <2>3, <2>4, <2>6, <2>9
  <2> QED
    BY <1>2, <2>7, <2>8
<1> QED
  BY <1>3, <1>4

(* What a numeral looks like. *)
IsNumeral(s, n, base) ==
  /\ Len(s) \in Nat /\ Len(s) > 0
  /\ s[1] = "0" => n = 0
  /\ \A i \in 1 .. Len(s) : \E d \in 0 .. base - 1 : s[i] = HexDigits[d + 1]

LEMMA ZeroDigit == \A d \in 0 .. 15 : HexDigits[d + 1] = "0" => d = 0
<1>1. HexDigits[1] = "0"
  BY DEF HexDigits
<1> TAKE d \in 0 .. 15
<1>2. d + 1 \in 1 .. 16 /\ 1 \in 1 .. 16
  OBVIOUS
<1>3. HexDigits[d + 1] = HexDigits[1] => d + 1 = 1
  BY <1>2, HexDigitsDiffer
<1>4. d + 1 = 1 => d = 0
  OBVIOUS
<1> QED
  BY <1>1, <1>3, <1>4

LEMMA LastDigit ==
  ASSUME NEW base \in Bases, NEW n \in Nat, n < base
  PROVE  IsNumeral(Numeral(n, base), n, base) /\ Len(Numeral(n, base)) = 1
<1> DEFINE x == HexDigits[n + 1]
<1>1. Numeral(n, base) = <<x>>
  BY NumeralIs
<1>2. n \in 0 .. 15 /\ n \in 0 .. base - 1
  BY Quotients
<1>3. x = "0" => n = 0
  BY <1>2, ZeroDigit
<1>4. \E d \in 0 .. base - 1 : x = HexDigits[d + 1]
  BY <1>2
<1> HIDE DEF x
<1>5. Len(<<x>>) = 1 /\ <<x>>[1] = x /\ \A i \in 1 .. 1 : i = 1
  OBVIOUS
<1> QED
  BY <1>1, <1>3, <1>4, <1>5 DEF IsNumeral

LEMMA MoreDigits ==
  ASSUME NEW base \in Bases, NEW n \in Nat, n >= base,
         IsNumeral(Numeral(n \div base, base), n \div base, base)
  PROVE  /\ IsNumeral(Numeral(n, base), n, base)
         /\ Len(Numeral(n, base)) = Len(Numeral(n \div base, base)) + 1
<1> DEFINE q == n \div base  r == n % base  x == HexDigits[r + 1]  s == Numeral(q, base)
           t == Numeral(n, base)  k == Len(s)
<1>1. q \in Nat /\ r \in 0 .. base - 1 /\ r \in 0 .. 15 /\ base \in 2 .. 16
  <2>1. q \in 0 .. n - 1 /\ r \in 0 .. base - 1 /\ base \in 2 .. 16
    BY Quotients
  <2> HIDE DEF q, r
  <2> QED
    BY <2>1
<1>2. q # 0
  <2>1. q * base + r = n
    BY Euclid
  <2> HIDE DEF q, r
  <2>2. q = 0 => n = r
    BY <1>1, <2>1
  <2> QED
    BY <1>1, <2>2
<1>3. t = Append(s, x)
  BY NumeralIs
<1> DEFINE C == ToSet(HexDigits)
<1>4. s \in Seq(C) /\ x \in C
  <2>1. s \in NumeralTexts
    BY <1>1, NumeralIs
  <2> QED
    BY <1>1, <2>1, HexDigitsAre DEF NumeralTexts
<1>5. IsNumeral(s, q, base)
  OBVIOUS
<1>6. \E d \in 0 .. base - 1 : x = HexDigits[d + 1]
  BY <1>1
<1> HIDE DEF s, t, x, C, q
<1>7. k \in Nat /\ Len(t) = k + 1 /\ t[k + 1] = x /\ \A i \in 1 .. k : t[i] = s[i]
  BY <1>3, <1>4, AppendIs
<1>8. /\ k > 0 /\ (s[1] = "0" => q = 0)
      /\ \A i \in 1 .. k : \E d \in 0 .. base - 1 : s[i] = HexDigits[d + 1]
  BY <1>5 DEF IsNumeral
<1> HIDE DEF k
<1>9. 1 \in 1 .. k /\ \A i \in 1 .. k + 1 : i \in 1 .. k \/ i = k + 1
  BY <1>7, <1>8
<1>10. t[1] # "0"
  BY <1>2, <1>7, <1>8, <1>9
<1>11. \A i \in 1 .. Len(t) : \E d \in 0 .. base - 1 : t[i] = HexDigits[d + 1]
  BY <1>6, <1>7, <1>8, <1>9
<1>12. Len(t) \in Nat /\ Len(t) > 0
  BY <1>7
<1>13. IsNumeral(t, n, base)
  BY <1>10, <1>11, <1>12 DEF IsNumeral
<1> QED
  BY <1>7, <1>13 DEF t, s, q, k

(* A numeral is not empty and starts with 0 only for the number 0. *)
LEMMA NumeralLooks ==
  ASSUME NEW base \in Bases, NEW n \in Nat
  PROVE  IsNumeral(Numeral(n, base), n, base)
<1> DEFINE Bad == {m \in Nat : ~IsNumeral(Numeral(m, base), m, base)}
<1> SUFFICES ASSUME Bad # {} PROVE FALSE
  OBVIOUS
<1>1. PICK m \in Bad : \A j \in Bad : m <= j
  <2>1. Bad \in SUBSET Nat
    OBVIOUS
  <2> HIDE DEF Bad
  <2> QED
    BY <2>1, Least
<1>2. m \in Nat /\ ~IsNumeral(Numeral(m, base), m, base)
  BY <1>1
<1>3. CASE m < base
  BY <1>2, <1>3, LastDigit
<1>4. CASE ~(m < base)
  <2> DEFINE q == m \div base
  <2>1. m >= base
    BY <1>2, <1>4 DEF Bases
  <2>2. q \in 0 .. m - 1
    BY <1>2, <2>1, Quotients
  <2> HIDE DEF q
  <2>3. q \in Nat /\ ~(m <= q)
    BY <1>2, <2>2
  <2>4. IsNumeral(Numeral(q, base), q, base)
    BY <1>1, <2>3
  <2> QED
    BY <1>2, <2>1, <2>4, MoreDigits DEF q
<1> QED
  BY <1>3, <1>4

LEMMA FirstTenDigits == \A d \in 0 .. 9 : HexDigits[d + 1] \in Digits
<1> DEFINE s == SubSeq(HexDigits, 1, 10)  C == ToSet(HexDigits)
<1>1. HexDigits \in Seq(C) /\ Len(HexDigits) = 16
  BY DEF HexDigits, ToSet
<1>2. Len(s) = 10 /\ s \in Seq(C) /\ \A i \in 1 .. 10 : s[i] = HexDigits[i]
  <2> HIDE DEF C
  <2>1. 1 \in 1 .. Len(HexDigits) + 1 /\ 10 \in 1 - 1 .. Len(HexDigits)
    BY <1>1
  <2>2. 10 - 1 + 1 = 10 /\ \A i \in 1 .. 10 : 1 + i - 1 = i
    OBVIOUS
  <2>3. /\ s \in Seq(C) /\ Len(s) = 10 - 1 + 1
        /\ \A i \in 1 .. 10 - 1 + 1 : s[i] = HexDigits[1 + i - 1]
    BY <1>1, <2>1, PartOfText
  <2> HIDE DEF s
  <2> QED
    BY <2>2, <2>3
<1> HIDE DEF s, C
<1>3. DOMAIN s = 1 .. 10
  BY <1>2
<1> TAKE d \in 0 .. 9
<1>4. d + 1 \in 1 .. 10
  OBVIOUS
<1> QED
  BY <1>2, <1>3, <1>4 DEF Digits, ToSet, s

(* Decimal numerals are numbers as they are typed. *)
LEMMA DecimalIs ==
  ASSUME NEW n \in Nat
  PROVE  /\ DigitsOnly(Numeral(n, 10)) /\ NumberOf(Numeral(n, 10), 10) = n
         /\ Len(Numeral(n, 10)) > 1 => Numeral(n, 10)[1] # "0"
<1> DEFINE s == Numeral(n, 10)  C == ToSet(HexDigits)
<1>1. 10 \in Bases
  BY DEF Bases
<1>2. IsNumeral(s, n, 10) /\ NumberOf(s, 10) = n
  BY <1>1, NumeralLooks, NumberOfNumeral
<1>3. s \in Seq(C)
  BY <1>1, NumeralIs DEF NumeralTexts
<1>4. n = 0 => Len(s) = 1
  BY <1>1, LastDigit
<1> HIDE DEF s, C
<1>5. Len(s) > 0 /\ Len(s) \in Nat /\ \A i \in 1 .. Len(s) : s[i] \in Digits
  <2>1. /\ Len(s) > 0 /\ Len(s) \in Nat
        /\ \A i \in 1 .. Len(s) : \E d \in 0 .. 10 - 1 : s[i] = HexDigits[d + 1]
    BY <1>2 DEF IsNumeral
  <2>2. \A d \in 0 .. 10 - 1 : d \in 0 .. 9
    OBVIOUS
  <2> QED
    BY <2>1, <2>2, FirstTenDigits
<1>6. s # <<>> /\ DOMAIN s = 1 .. Len(s)
  BY <1>3, <1>5
<1>7. DigitsOnly(s)
  BY <1>5, <1>6 DEF DigitsOnly, ToSet
<1>8. Len(s) > 1 => s[1] # "0"
  BY <1>2, <1>4, <1>5 DEF IsNumeral
<1> QED
  BY <1>2, <1>7, <1>8 DEF s

-----------------------------------------------------------------------------
(* Parsing undoes formatting.  AS numbers and domains.                     *)
RoundTrips(q) ==
  ParseQuery(QueryText(q)) = IF q = AsDomain THEN None ELSE q

HasBlank(C) == " " \in C

LEMMA NoBlanks ==
  ASSUME NEW C, ~HasBlank(C), NEW t \in Seq(C)
  PROVE  Trim(t) = t
<1> DEFINE n == Len(t)  blank == " "
<1>1. n \in Nat /\ \A i \in 1 .. n : t[i] \in C
  BY ElementsAreIn
<1>4. t # <<>> => n > 0
  OBVIOUS
<1>5. blank \notin C
  BY DEF HasBlank
<1> HIDE DEF n, blank
<1>2. t # <<>> => 1 \in 1 .. n /\ n \in 1 .. n
  BY <1>1, <1>4
<1>6. t # <<>> => t[1] # blank /\ t[n] # blank
  BY <1>1, <1>2, <1>5
<1>3. IsTrimmed(t)
  BY <1>6, Zenon DEF IsTrimmed, n, blank
<1> QED
  BY <1>3, TrimmedStays

LEMMA HexDigitsSet ==
  ToSet(HexDigits) = {"0", "1", "2", "3", "4", "5", "6", "7", "8", "9", "a", "b", "c", "d", "e", "f"}
BY DEF HexDigits, ToSet

LEMMA TextHasNoBlank == ~HasBlank(TextChars)
BY HexDigitsSet, Zenon DEF HasBlank, TextChars

(* A canonical text has no blanks, so trimming leaves it as it is. *)
LEMMA TextIsTrimmed == ASSUME NEW t \in Texts PROVE Trim(t) = t
BY TextHasNoBlank, NoBlanks DEF Texts

IsJoin(j, S, s, t) ==
  /\ j \in Seq(S) /\ Len(s) \in Nat /\ Len(t) \in Nat /\ Len(j) = Len(s) + Len(t)
  /\ \A i \in 1 .. Len(s) : j[i] = s[i]
  /\ \A i \in 1 .. Len(t) : j[Len(s) + i] = t[i]

LEMMA Joined == ASSUME NEW S, NEW s \in Seq(S), NEW t \in Seq(S) PROVE IsJoin(s \o t, S, s, t)
BY JoinIs DEF IsJoin

(* What is behind the first two characters. *)
LEMMA BehindTwo ==
  ASSUME NEW C, NEW a \in C, NEW b \in C, NEW s \in Seq(C)
  PROVE  LET t == <<a, b>> \o s
         IN  /\ t \in Seq(C) /\ Len(t) = Len(s) + 2 /\ t[1] = a /\ t[2] = b
             /\ s # <<>> => t[3] = s[1]
             /\ SubSeq(t, 3, Len(t)) = s
<1> DEFINE u == <<a, b>>  t == u \o s  n == Len(s)  v == SubSeq(t, 3, Len(t))
<1>1. u \in Seq(C) /\ Len(u) = 2 /\ u[1] = a /\ u[2] = b /\ n \in Nat
  OBVIOUS
<1> HIDE DEF u
<1>2. /\ t \in Seq(C) /\ Len(t) = 2 + n
      /\ \A i \in 1 .. 2 : t[i] = u[i]
      /\ \A i \in 1 .. n : t[2 + i] = s[i]
  <2>1. /\ t \in Seq(C) /\ Len(t) = Len(u) + n
        /\ \A i \in 1 .. Len(u) : t[i] = u[i]
        /\ \A i \in 1 .. n : t[Len(u) + i] = s[i]
    <3>1. IsJoin(t, C, u, s)
      BY <1>1, Joined
    <3> QED
      BY <3>1 DEF IsJoin
  <2> HIDE DEF t, n
  <2> QED
    BY <1>1, <2>1
<1>3. s # <<>> => t[3] = s[1]
  <2>1. s # <<>> => 1 \in 1 .. n
    OBVIOUS
  <2>2. 2 + 1 = 3
    OBVIOUS
  <2> HIDE DEF t, n
  <2> QED
    BY <1>2, <2>1, <2>2
<1> HIDE DEF t
<1>4. v \in Seq(C) /\ Len(v) = n /\ \A i \in 1 .. n : v[i] = s[i]
  <2>1. 3 \in 1 .. Len(t) + 1 /\ Len(t) \in 3 - 1 .. Len(t) /\ Len(t) - 3 + 1 = n
    BY <1>1, <1>2
  <2>2. v \in Seq(C) /\ Len(v) = n /\ \A i \in 1 .. n : v[i] = t[3 + i - 1]
    <3>1. /\ v \in Seq(C) /\ Len(v) = Len(t) - 3 + 1
          /\ \A i \in 1 .. Len(t) - 3 + 1 : v[i] = t[3 + i - 1]
      BY <1>2, <2>1, PartOfText
    <3> HIDE DEF v
    <3> QED
      BY <2>1, <3>1
  <2>3. \A i \in 1 .. n : 3 + i - 1 = 2 + i
    OBVIOUS
  <2> HIDE DEF v, n
  <2> QED
    BY <1>2, <2>2, <2>3
<1>5. v = s
  <2> HIDE DEF v
  <2> QED
    BY <1>4, SeqEqual
<1>6. Len(t) = n + 2
  BY <1>1, <1>2
<1>7. 1 \in 1 .. 2 /\ 2 \in 1 .. 2
  OBVIOUS
<1> QED
  BY <1>1, <1>2, <1>3, <1>5, <1>6, <1>7 DEF u, t, v

(* "AS" and the number are parsed as that AS number again. *)
LEMMA AutnumAgain ==
  ASSUME NEW n \in Nat, n <= MaxAutnum
  PROVE  RoundTrips(Autnum(n))
<1> DEFINE s == Numeral(n, 10)  t == <<"A", "S">> \o s
<1>1. QueryText(Autnum(n)) = t
  BY DEF Autnum, QueryText
<1>2. s \in Texts /\ DigitsOnly(s) /\ NumberOf(s, 10) = n
  BY NumeralIsText, DecimalIs DEF Bases
<1>3. "A" \in TextChars /\ "S" \in TextChars
  BY DEF TextChars
<1>4. s # <<>> /\ s[1] \in Digits
  <2>1. s # <<>> /\ ToSet(s) \subseteq Digits
    BY <1>2 DEF DigitsOnly
  <2> HIDE DEF s
  <2>2. 1 \in DOMAIN s
    BY <1>2, <2>1 DEF Texts
  <2> QED
    BY <2>1, <2>2 DEF ToSet
<1> HIDE DEF s
<1>5. /\ t \in Texts /\ Len(t) = Len(s) + 2 /\ t[1] = "A" /\ t[2] = "S" /\ t[3] = s[1]
      /\ SubSeq(t, 3, Len(t)) = s
  BY <1>2, <1>3, <1>4, BehindTwo DEF Texts
<1> HIDE DEF t
<1>6. Len(s) \in Nat /\ Len(t) >= 2 /\ t # <<>>
  <2>1. Len(s) \in Nat
    BY <1>2 DEF Texts
  <2>2. Len(t) >= 2
    BY <1>5, <2>1
  <2>3. Len(<<>>) = 0
    OBVIOUS
  <2> QED
    BY <2>1, <2>2, <2>3
<1>7. Lower("A") = "a" /\ Lower("S") = "s"
  BY DEF Lower, LowerCase
<1>8. StartsAs(t) /\ AsPrefix(t)
  BY <1>4, <1>5, <1>6, <1>7 DEF StartsAs, AsPrefix
<1>9. Trim(t) = t
  BY <1>5, TextIsTrimmed
<1>10. ParseQuery(t) = ParseAutnum(t)
  BY <1>6, <1>8, <1>9 DEF ParseQuery
<1>11. ParseAutnum(t) = Autnum(n)
  BY <1>2, <1>5, <1>8, <1>9 DEF ParseAutnum
<1>12. Autnum(n) # AsDomain
  BY DEF Autnum, AsDomain, Domain
<1> QED
  BY <1>1, <1>10, <1>11, <1>12 DEF RoundTrips

(* The domain "as" is the one query whose canonical text is rejected. *)
LEMMA AsIsNoAutnum == RoundTrips(AsDomain)
<1> DEFINE t == <<"a", "s">>
<1>1. QueryText(AsDomain) = t
  BY DEF AsDomain, Domain, QueryText
<1>2. t \in Seq({"a", "s"}) /\ Len(t) = 2 /\ t[1] = "a" /\ t[2] = "s" /\ t # <<>>
  OBVIOUS
<1> HIDE DEF t
<1>3. ~HasBlank({"a", "s"})
  BY Zenon DEF HasBlank
<1>4. Trim(t) = t
  BY <1>2, <1>3, NoBlanks
<1>5. Lower("a") = "a" /\ Lower("s") = "s"
  BY DEF Lower, LowerCase
<1>6. StartsAs(t) /\ AsPrefix(t)
  BY <1>2, <1>5 DEF StartsAs, AsPrefix
<1>7. SubSeq(t, 3, Len(t)) = <<>>
  <2>1. SubSeq(t, 3, 2) = <<>>
    BY <1>2
  <2> QED
    BY <1>2, <2>1
<1>8. ParseQuery(t) = ParseAutnum(t)
  BY <1>2, <1>4, <1>6 DEF ParseQuery
<1>9. ParseAutnum(t) = None
  BY <1>4, <1>6, <1>7 DEF ParseAutnum, DigitsOnly
<1> QED
  BY <1>1, <1>8, <1>9 DEF RoundTrips

(* Lower case changes nothing that a name is judged by. *)
LEMMA LowerIs ==
  /\ \A c : Lower(Lower(c)) = Lower(c)
  /\ \A c : c = "." <=> Lower(c) = "."
  /\ \A c : c = "-" <=> Lower(c) = "-"
  /\ \A c : Lower(c) \in Digits => c = Lower(c)
  /\ \A c \in Letters \cup Digits : Lower(c) \in Letters \cup Digits
<1> DEFINE small == {"a", "f", "s", "x"}
<1>1. \A c : Lower(c) = c \/ (c \in DOMAIN LowerCase /\ Lower(c) \in small)
  BY DEF Lower, LowerCase
<1>2. \A c \in small : c \notin DOMAIN LowerCase /\ c # "." /\ c # "-"
  BY DEF LowerCase
<1>3. "." \notin DOMAIN LowerCase /\ "-" \notin DOMAIN LowerCase
  BY DEF LowerCase
<1>4. \A c \in small : c \notin Digits
  BY DEF Digits, HexDigits, ToSet
<1>5. \A c \in small : c \in Letters
  <2>1. \A c \in small : c \in ToSet(HexDigits) \/ c \in {"s", "x"}
    BY DEF HexDigits, ToSet
  <2> QED
    BY <1>4, <2>1 DEF Letters
<1> HIDE DEF small
<1>6. \A c : c \notin DOMAIN LowerCase => Lower(c) = c
  BY DEF Lower
<1>7. \A c : Lower(Lower(c)) = Lower(c)
  BY <1>1, <1>2, <1>6
<1>8. \A c : (c = "." <=> Lower(c) = ".") /\ (c = "-" <=> Lower(c) = "-")
  BY <1>1, <1>2, <1>3
<1>9. \A c : Lower(c) \in Digits => c = Lower(c)
  BY <1>1, <1>4
<1>10. \A c \in Letters \cup Digits : Lower(c) \in Letters \cup Digits
  BY <1>1, <1>5
<1> QED
  BY <1>7, <1>8, <1>9, <1>10

LEMMA LoweredIs ==
  ASSUME NEW C, NEW s \in Seq(C)
  PROVE  /\ Len(Lowered(s)) = Len(s) /\ Len(s) \in Nat
         /\ DOMAIN Lowered(s) = 1 .. Len(s) /\ DOMAIN s = 1 .. Len(s)
         /\ \A i \in 1 .. Len(s) : Lowered(s)[i] = Lower(s[i])
<1> DEFINE S == {Lower(c) : c \in C}  n == Len(s)  t == [i \in 1 .. n |-> Lower(s[i])]
<1>1. n \in Nat /\ DOMAIN s = 1 .. n /\ \A i \in 1 .. n : s[i] \in C
  OBVIOUS
<1>2. Lowered(s) = t
  BY <1>1 DEF Lowered
<1>3. t \in [1 .. n -> S] /\ DOMAIN t = 1 .. n /\ \A i \in 1 .. n : t[i] = Lower(s[i])
  BY <1>1
<1> HIDE DEF t, S, n
<1>4. t \in Seq(S) /\ Len(t) = n
  BY <1>1, <1>3, SequenceIs
<1> QED
  BY <1>1, <1>2, <1>3, <1>4 DEF n

LEMMA LoweredName ==
  ASSUME NEW C, NEW name \in Seq(C), IsName(name)
  PROVE  LET t == Lowered(name)
         IN  /\ t \in Seq(NameChars) /\ t # <<>> /\ Last(t) # "."
             /\ IsName(t) /\ Lowered(t) = t
<1> DEFINE t == Lowered(name)  n == Len(name)
<1>1. /\ Len(t) = n /\ n \in Nat /\ DOMAIN t = 1 .. n /\ DOMAIN name = 1 .. n
      /\ \A i \in 1 .. n : t[i] = Lower(name[i])
  BY LoweredIs
<1>2. t \in Seq(NameChars)
  BY NameIsString
<1> HIDE DEF t
<1>3. \A i \in 1 .. n : t[i] = "." <=> name[i] = "."
  BY <1>1, LowerIs
<1>4. EndsOf(t) = EndsOf(name)
  BY <1>1, <1>3 DEF EndsOf
<1>5. \A i : Outermost(t, i) <=> Outermost(name, i)
  BY <1>4 DEF Outermost
<1>6. n \in 1 .. MaxName
  BY DEF IsName
<1>7. \A i \in 1 .. n : name[i] \in Letters \cup Digits \/ (name[i] \in {"-", "."} /\ ~Outermost(name, i))
  BY <1>1 DEF IsName
<1>8. \A i \in 1 .. n : t[i] \in Letters \cup Digits \/ (t[i] \in {"-", "."} /\ ~Outermost(t, i))
  <2> TAKE i \in 1 .. n
  <2>1. CASE name[i] \in Letters \cup Digits
    BY <1>1, <2>1, LowerIs
  <2>2. CASE name[i] \in {"-", "."} /\ ~Outermost(name, i)
    BY <1>1, <1>5, <2>2, LowerIs
  <2> QED
    BY <1>7, <2>1, <2>2
<1>9. \A i, j \in EndsOf(t) : j > i + MaxLabel + 1 => \E k \in EndsOf(t) : i < k /\ k < j
  BY <1>4 DEF IsName
<1>10. IsName(t)
  BY <1>1, <1>6, <1>8, <1>9 DEF IsName
<1>11. n \in 1 .. n /\ t # <<>>
  <2>1. n > 0
    BY <1>6, LimitsAssumption
  <2> QED
    BY <1>1, <2>1
<1>12. Last(t) # "."
  <2>1. Outermost(t, n)
    <3>1. n + 1 \in EndsOf(t)
      BY <1>1 DEF EndsOf
    <3> QED
      BY <3>1 DEF Outermost
  <2>2. t[n] \in Letters \cup Digits
    BY <1>8, <1>11, <2>1
  <2> QED
    BY <1>1, <2>2, DotIsNoLetter DEF Last
<1>13. Lowered(t) = t
  <2> DEFINE u == Lowered(t)
  <2>1. Len(u) = Len(t) /\ DOMAIN u = 1 .. Len(t) /\ \A i \in 1 .. Len(t) : u[i] = Lower(t[i])
    BY <1>2, LoweredIs
  <2>2. u = [i \in 1 .. n |-> Lower(t[i])]
    BY <1>1 DEF Lowered
  <2>3. t = [i \in 1 .. n |-> t[i]]
    BY <1>1, <1>2
  <2>4. \A i \in 1 .. n : Lower(t[i]) = t[i]
    BY <1>1, LowerIs
  <2> QED
    BY <2>2, <2>3, <2>4
<1> QED
  BY <1>2, <1>10, <1>11, <1>12, <1>13 DEF t

LEMMA NameStarts ==
  ASSUME NEW C, NEW s \in Seq(C), s # <<>>
  PROVE  /\ Len(s) \in Nat /\ Len(NameOf(s)) \in Nat /\ Len(NameOf(s)) <= Len(s)
         /\ \A i \in 1 .. Len(NameOf(s)) : NameOf(s)[i] = s[i]
<1>1. Len(s) \in Nat /\ Len(s) >= 1
  OBVIOUS
<1>2. CASE Last(s) = "."
  <2> DEFINE n == Len(s)  name == NameOf(s)
  <2>1. name = SubSeq(s, 1, n - 1)
    BY <1>2 DEF NameOf, Front
  <2>2. n \in Nat /\ n >= 1
    BY <1>1
  <2> HIDE DEF n
  <2>3. 1 \in 1 .. n + 1 /\ n - 1 \in 1 - 1 .. n /\ (n - 1) - 1 + 1 = n - 1 /\ \A i \in 1 .. n - 1 : 1 + i - 1 = i
    BY <2>2
  <2>4. /\ SubSeq(s, 1, n - 1) \in Seq(C) /\ Len(SubSeq(s, 1, n - 1)) = (n - 1) - 1 + 1
        /\ \A i \in 1 .. (n - 1) - 1 + 1 : SubSeq(s, 1, n - 1)[i] = s[1 + i - 1]
    BY <2>3, PartOfText DEF n
  <2> HIDE DEF name
  <2>5. Len(name) = n - 1 /\ \A i \in 1 .. n - 1 : name[i] = s[i]
    BY <2>1, <2>3, <2>4
  <2>6. Len(name) \in Nat /\ Len(name) <= n
    BY <2>2, <2>5
  <2> QED
    BY <1>1, <2>5, <2>6 DEF n, name
<1>3. CASE Last(s) # "."
  BY <1>1, <1>3 DEF NameOf
<1> QED
  BY <1>2, <1>3

(* A name that was no AS number is none in lower case, unless it is "as". *)
LEMMA NamesAreNotAs ==
  ASSUME NEW C, NEW s \in Seq(C), s # <<>>, ~AsPrefix(s), IsName(NameOf(s))
  PROVE  \/ Lowered(NameOf(s)) = <<"a", "s">>
         \/ ~AsPrefix(Lowered(NameOf(s)))
<1> DEFINE name == NameOf(s)  t == Lowered(name)  n == Len(name)
<1>1. name \in Seq(C)
  BY NameOfText
<1>2. Len(s) \in Nat /\ n \in Nat /\ n <= Len(s) /\ \A i \in 1 .. n : name[i] = s[i]
  BY NameStarts
<1>3. Len(t) = n /\ \A i \in 1 .. n : t[i] = Lower(name[i])
  BY <1>1, LoweredIs
<1>4. t \in Seq(NameChars)
  BY <1>1, NameIsString
<1> HIDE DEF name, t
<1>5. SUFFICES ASSUME AsPrefix(t) PROVE t = <<"a", "s">>
  BY DEF name, t
<1>6. StartsAs(t) /\ n >= 2 /\ Lower(t[1]) = "a" /\ Lower(t[2]) = "s"
  BY <1>3, <1>5 DEF AsPrefix, StartsAs
<1> HIDE DEF n
<1>7. 1 \in 1 .. n /\ 2 \in 1 .. n
  BY <1>2, <1>6
<1>8. t[1] = "a" /\ t[2] = "s" /\ Lower(s[1]) = "a" /\ Lower(s[2]) = "s"
  BY <1>2, <1>3, <1>6, <1>7, LowerIs
<1>9. Len(s) >= 2
  BY <1>2, <1>6
<1>10. StartsAs(s)
  BY <1>8, <1>9 DEF StartsAs
<1>11. n = 2
  <2> SUFFICES ASSUME n # 2 PROVE FALSE
    OBVIOUS
  <2>1. 3 \in 1 .. n /\ Len(s) # 2
    BY <1>2, <1>6
  <2>2. t[3] \in Digits
    BY <1>3, <1>5 DEF AsPrefix
  <2>3. name[3] = t[3] /\ name[3] = s[3]
    BY <1>2, <1>3, <2>1, <2>2, LowerIs
  <2>4. s[3] \in Digits
    BY <2>2, <2>3
  <2> QED
    BY <1>10, <2>4 DEF AsPrefix
<1>12. t = <<t[1], t[2]>>
  BY <1>3, <1>4, <1>11
<1> QED
  BY <1>8, <1>12

(* A name that does not look numeric does not in lower case. *)
LEMMA NotNumericAgain ==
  ASSUME NEW C, NEW s \in Seq(C), s # <<>>, ~Ipv4Shape(s), IsName(NameOf(s))
  PROVE  ~Ipv4Shape(Lowered(NameOf(s)))
<1> DEFINE name == NameOf(s)  t == Lowered(name)  n == Len(name)
<1>1. name \in Seq(C) /\ ToSet(s) \subseteq ToSet(name) \cup {"."}
  BY NameOfText
<1>2. /\ DOMAIN t = 1 .. n /\ DOMAIN name = 1 .. n
      /\ \A i \in 1 .. n : t[i] = Lower(name[i])
  BY <1>1, LoweredIs
<1> HIDE DEF name, t, n
<1> SUFFICES ASSUME Ipv4Shape(t) PROVE FALSE
  BY DEF name, t
<1>3. \A i \in 1 .. n : t[i] \in Digits \cup {"."}
  BY <1>2 DEF Ipv4Shape, ToSet
<1>4. \A i \in 1 .. n : name[i] \in Digits \cup {"."}
  BY <1>2, <1>3, LowerIs
<1>5. ToSet(name) \subseteq Digits \cup {"."}
  BY <1>2, <1>4 DEF ToSet
<1> QED
  BY <1>1, <1>5 DEF Ipv4Shape

(* A name in lower case and without its last dot is parsed as the same domain again. *)
LEMMA DomainAgain ==
  ASSUME NEW C, NEW s \in Seq(C), s # <<>>, IsTrimmed(s), ~AsPrefix(s), ~Ipv4Shape(s),
         ParseDomain(s) # None
  PROVE  RoundTrips(ParseDomain(s))
<1> DEFINE name == NameOf(s)  t == Lowered(name)
<1>1. ParseDomain(s) = Domain(t) /\ IsHostName(s)
  BY DomainsAreNames
<1>2. name \in Seq(C) /\ IsName(name)
  BY <1>1, NameOfText, HostNameUnfolds DEF NameOf
<1>3. /\ t \in Seq(NameChars) /\ t # <<>> /\ Last(t) # "."
      /\ IsName(t) /\ Lowered(t) = t
  BY <1>2, LoweredName
<1>4. t = <<"a", "s">> \/ ~AsPrefix(t)
  BY <1>2, NamesAreNotAs
<1>5. ~Ipv4Shape(t)
  BY <1>2, NotNumericAgain
<1> HIDE DEF t
<1>6. CASE t = <<"a", "s">>
  <2>1. Domain(t) = AsDomain
    BY <1>6 DEF AsDomain
  <2> QED
    BY <1>1, <2>1, AsIsNoAutnum
<1>7. CASE t # <<"a", "s">>
  <2>1. ~HasBlank(NameChars)
    <3>1. ~HasBlank(ToSet(HexDigits))
      BY HexDigitsSet, Zenon DEF HasBlank
    <3>2. NameChars \subseteq ToSet(HexDigits) \cup {"A", "F", "S", "X", "s", "x", "-", "."}
      BY DigitsAre DEF NameChars, Letters, LowerCase
    <3>3. ~HasBlank({"A", "F", "S", "X", "s", "x", "-", "."})
      BY Zenon DEF HasBlank
    <3> QED
      BY <3>1, <3>2, <3>3, Zenon DEF HasBlank
  <2>2. Trim(t) = t
    BY <1>3, <2>1, NoBlanks
  <2>3. ~DigitsOnly(t)
    BY <1>5 DEF DigitsOnly, Ipv4Shape
  <2>4. ~Has(t, ":") /\ ~Has(t, "/")
    <3>1. ToSet(t) \subseteq NameChars
      BY <1>3, TextOver
    <3> QED
      BY <3>1, NameCharsAreLetters DEF Has
  <2>5. ParseQuery(t) = ParseDomain(t)
    BY <1>3, <1>4, <1>5, <1>7, <2>2, <2>3, <2>4 DEF ParseQuery
  <2>6. NameOf(t) = t
    BY <1>3 DEF NameOf
  <2>7. IsTrimmed(t)
    <3>1. Trim(t) \in Seq(NameChars) /\ IsTrimmed(Trim(t))
      BY <1>3, TrimIsTrimmed
    <3> QED
      BY <2>2, <3>1
  <2>8. IsHostName(t)
    BY <1>3, <2>6, HostNameUnfolds DEF NameOf
  <2>9. ParseDomain(t) = Domain(t)
    BY <1>3, <2>6, <2>7, <2>8, DomainsAreNames
  <2>10. QueryText(Domain(t)) = t
    BY DEF QueryText, Domain
  <2>11. Domain(t) # AsDomain
    BY <1>7 DEF AsDomain, Domain
  <2> QED
    BY <1>1, <2>5, <2>9, <2>10, <2>11 DEF RoundTrips
<1> QED
  BY <1>6, <1>7
-----------------------------------------------------------------------------
(* Networks: their texts are parsed as networks.                           *)
NetChars == ToSet(HexDigits) \cup {".", ":", "/"}

LEMMA NetCharsAre ==
  /\ Digits \subseteq NetChars /\ "." \in NetChars /\ ":" \in NetChars /\ "/" \in NetChars
  /\ ~HasBlank(NetChars) /\ NetChars \subseteq TextChars
  /\ \A c \in NetChars : Lower(c) # "s"
  /\ "/" \notin Digits /\ ":" \notin Digits /\ "." \notin Digits
<1>1. Digits \subseteq NetChars /\ "." \in NetChars /\ ":" \in NetChars /\ "/" \in NetChars
  BY DigitsAre DEF NetChars
<1>2. NetChars \subseteq TextChars
  BY DEF NetChars, TextChars
<1>3. ~HasBlank(NetChars)
  BY <1>2, TextHasNoBlank, Zenon DEF HasBlank
<1>4. \A c \in NetChars : c \notin DOMAIN LowerCase /\ c # "s"
  BY HexDigitsSet DEF NetChars, LowerCase
<1>5. "/" \notin Digits /\ ":" \notin Digits /\ "." \notin Digits
  <2>1. "/" \notin ToSet(HexDigits) /\ ":" \notin ToSet(HexDigits) /\ "." \notin ToSet(HexDigits)
    BY HexDigitsSet
  <2> QED
    BY <2>1, DigitsAre
<1> QED
  BY <1>1, <1>2, <1>3, <1>4, <1>5 DEF Lower

LEMMA NumeralOver ==
  ASSUME NEW n \in Nat
  PROVE  Numeral(n, 10) \in Seq(Digits) /\ Numeral(n, 10) \in Seq(NetChars)
<1> DEFINE s == Numeral(n, 10)
<1>1. s \in Texts /\ ToSet(s) \subseteq Digits
  BY NumeralIsText, DecimalIs DEF Bases, DigitsOnly
<1> HIDE DEF s
<1>2. s \in Seq(ToSet(s))
  BY <1>1, TextOver DEF Texts, IsText
<1>3. s \in Seq(Digits)
  BY <1>1, <1>2, WiderTexts
<1>4. s \in Seq(NetChars)
  BY <1>3, NetCharsAre, WiderTexts
<1> QED
  BY <1>3, <1>4 DEF s

LEMMA NotStartsAs ==
  ASSUME NEW u \in Seq(NetChars)
  PROVE  ~StartsAs(u)
<1> SUFFICES ASSUME StartsAs(u) PROVE FALSE
  OBVIOUS
<1>1. Len(u) \in Nat /\ Len(u) >= 2 /\ Lower(u[2]) = "s"
  BY DEF StartsAs
<1>2. 2 \in 1 .. Len(u)
  BY <1>1
<1>3. u[2] \in NetChars
  BY <1>2, ElementsAreIn
<1> QED
  BY <1>1, <1>3, NetCharsAre

LEMMA NetworkDispatch ==
  ASSUME NEW u \in Seq(NetChars), u # <<>>, ~DigitsOnly(u),
         Has(u, ":") \/ Has(u, "/") \/ Ipv4Shape(u)
  PROVE  ParseQuery(u) = ParseNetwork(u) /\ Trim(u) = u
<1>1. Trim(u) = u
  BY NetCharsAre, NoBlanks
<1>2. ~AsPrefix(u)
  BY NotStartsAs DEF AsPrefix
<1> QED
  BY <1>1, <1>2 DEF ParseQuery

(* A text that is parsed as a network and denotes the octets. *)
IsAddressText(t, octets) ==
  /\ t \in Seq(NetChars) /\ t # <<>> /\ ~DigitsOnly(t) /\ ~Has(t, "/")
  /\ Has(t, ":") \/ Ipv4Shape(t)
  /\ AddressOctets(t) = octets

LEMMA AddressIsNotNone ==
  ASSUME NEW octets, IsAddress(octets)
  PROVE  octets # None /\ octets \in Seq(Nat) /\ Len(octets) \in {4, 16}
<1>1. octets \in Seq(Nat)
  BY OctetsAreNumbers DEF IsAddress
<1> QED
  BY <1>1, NoneAssumption DEF IsAddress

(* An address without prefix, given that its text denotes it. *)
LEMMA WholeNetworkAgain ==
  ASSUME NEW octets, IsAddress(octets), IsAddressText(FormatAddress(octets), octets)
  PROVE  RoundTrips(Network(octets, None))
<1> DEFINE t == FormatAddress(octets)
<1>1. QueryText(Network(octets, None)) = t
  BY DEF Network, QueryText
<1>2. IsAddressText(t, octets)
  OBVIOUS
<1> HIDE DEF t
<1>3. ParseQuery(t) = ParseNetwork(t) /\ Trim(t) = t
  BY <1>2, NetworkDispatch DEF IsAddressText
<1>4. Split(t, "/") = <<t>>
  BY <1>2, SplitWhole DEF IsAddressText
<1> DEFINE parts == Split(t, "/")
<1>5. Len(parts) = 1 /\ parts[1] = t
  BY <1>4
<1> HIDE DEF parts
<1>6. ~(Len(parts) > 2)
  BY <1>5
<1>7. AddressOctets(parts[1]) = octets /\ octets # None
  BY <1>2, <1>5, AddressIsNotNone DEF IsAddressText
<1>8. ParseNetwork(t) = Network(octets, None)
  BY <1>3, <1>5, <1>6, <1>7 DEF ParseNetwork, parts
<1>9. Network(octets, None) # AsDomain
  BY DEF Network, AsDomain, Domain
<1> QED
  BY <1>1, <1>3, <1>8, <1>9 DEF RoundTrips

(* A network with a prefix: reading it masks the address again, which changes nothing. *)
LEMMA PrefixAgain ==
  ASSUME NEW octets, IsAddress(octets), IsAddressText(FormatAddress(octets), octets),
         NEW prefix \in Nat, ~(prefix > Len(octets) * OctetBits),
         ApplyPrefix(octets, prefix) = octets
  PROVE  RoundTrips(Network(octets, prefix))
<1> DEFINE t == FormatAddress(octets)  s == Numeral(prefix, 10)  slash == <<"/">>
           u == t \o slash \o s
<1>1. QueryText(Network(octets, prefix)) = u
  <2>1. prefix # None
    BY NoneAssumption
  <2> QED
    BY <2>1 DEF Network, QueryText
<1>2. IsAddressText(t, octets)
  OBVIOUS
<1>3. DigitsOnly(s) /\ NumberOf(s, 10) = prefix /\ s \in Seq(NetChars)
  BY DecimalIs, NumeralOver
<1> HIDE DEF t, s
<1>4. t \in Seq(NetChars) /\ ~Has(t, "/") /\ AddressOctets(t) = octets
  BY <1>2 DEF IsAddressText
<1>5. ~Has(s, "/")
  BY <1>3, NetCharsAre DEF DigitsOnly, Has
<1>6. Split(u, "/") = <<t, s>>
  <2>1. Split(t, "/") = <<t>>
    BY <1>4, SplitWhole
  <2>2. Split(u, "/") = Append(Split(t, "/"), s)
    <3>1. SplitsJoined(t, "/", s)
      BY <1>3, <1>4, <1>5, NetCharsAre, SplitIsJoined
    <3> QED
      BY <3>1 DEF SplitsJoined
  <2>3. Append(<<t>>, s) = <<t, s>>
    BY AppendToOne
  <2> QED
    BY <2>1, <2>2, <2>3
<1>7. u \in Seq(NetChars) /\ Has(u, "/") /\ u # <<>>
  <2> DEFINE n == Len(t)  v == t \o slash
  <2>1. slash \in Seq(NetChars) /\ Len(slash) = 1 /\ slash[1] = "/"
    BY NetCharsAre
  <2> HIDE DEF slash
  <2>2. IsJoin(v, NetChars, t, slash)
    BY <1>4, <2>1, Joined
  <2> HIDE DEF v
  <2>3. v \in Seq(NetChars) /\ n \in Nat /\ Len(v) = n + 1 /\ v[n + 1] = "/"
    <3>1. 1 \in 1 .. 1
      OBVIOUS
    <3> QED
      BY <2>1, <2>2, <3>1 DEF IsJoin
  <2>4. IsJoin(v \o s, NetChars, v, s)
    BY <1>3, <2>3, Joined
  <2>5. u = v \o s
    BY DEF v
  <2> HIDE DEF u, n
  <2>6. n + 1 \in 1 .. Len(v)
    BY <2>3
  <2>7. u[n + 1] = "/" /\ u \in Seq(NetChars) /\ Len(u) = (n + 1) + Len(s) /\ Len(s) \in Nat
    BY <2>3, <2>4, <2>5, <2>6 DEF IsJoin
  <2>8. n + 1 \in DOMAIN u
    BY <2>3, <2>7
  <2>9. u # <<>>
    BY <2>8
  <2> QED
    BY <2>7, <2>8, <2>9 DEF Has, ToSet
<1>8. ~DigitsOnly(u)
  BY <1>7, NetCharsAre DEF DigitsOnly, Has
<1> HIDE DEF u
<1>9. ParseQuery(u) = ParseNetwork(u) /\ Trim(u) = u
  BY <1>7, <1>8, NetworkDispatch
<1> DEFINE parts == Split(u, "/")
<1>10. Len(parts) = 2 /\ parts[1] = t /\ parts[2] = s
  BY <1>6
<1> HIDE DEF parts
<1>11. ~(Len(parts) > 2) /\ Len(parts) # 1
  BY <1>10
<1>12. AddressOctets(parts[1]) = octets /\ octets # None
  BY <1>4, <1>10, AddressIsNotNone
<1>13. ParseNetwork(u) = Network(octets, prefix)
  <2>1. ParseNetwork(u) = Network(ApplyPrefix(octets, NumberOf(parts[2], 10)), NumberOf(parts[2], 10))
    BY <1>3, <1>9, <1>10, <1>11, <1>12 DEF ParseNetwork, parts
  <2> QED
    BY <1>3, <1>10, <2>1
<1>14. Network(octets, prefix) # AsDomain
  BY DEF Network, AsDomain, Domain
<1> QED
  BY <1>1, <1>9, <1>13, <1>14 DEF RoundTrips

LEMMA KeptTwice == ASSUME NEW octet \in Nat, NEW unit \in Powers PROVE Kept(Kept(octet, unit), unit) = Kept(octet, unit)
<1>1. \/ unit = 1 \/ unit = 2 \/ unit = 4 \/ unit = 8
      \/ unit = 16 \/ unit = 32 \/ unit = 64 \/ unit = 128
  BY DEF Powers
<1> QED
  BY <1>1 DEF Kept

(* Masking twice with one prefix is masking once. *)
LEMMA ApplyTwice ==
  ASSUME NEW octets, IsAddress(octets), NEW prefix \in Nat
  PROVE  ApplyPrefix(ApplyPrefix(octets, prefix), prefix) = ApplyPrefix(octets, prefix)
<1> DEFINE n == Len(octets)  a == ApplyPrefix(octets, prefix)  b == ApplyPrefix(a, prefix)
<1>1. /\ IsAddress(a) /\ Len(a) = n
      /\ \A i \in 1 .. n :
           a[i] = IF Remaining(prefix, i) <= 0 THEN 0
                  ELSE IF Remaining(prefix, i) < OctetBits
                       THEN Kept(octets[i], 2 ^ (OctetBits - Remaining(prefix, i)))
                  ELSE octets[i]
  BY ApplyPrefixIs
<1> HIDE DEF a
<1>2. /\ IsAddress(b) /\ Len(b) = Len(a)
      /\ \A i \in 1 .. Len(a) :
           b[i] = IF Remaining(prefix, i) <= 0 THEN 0
                  ELSE IF Remaining(prefix, i) < OctetBits
                       THEN Kept(a[i], 2 ^ (OctetBits - Remaining(prefix, i)))
                  ELSE a[i]
  BY <1>1, ApplyPrefixIs
<1> HIDE DEF b
<1>3. n \in Nat /\ \A i \in 1 .. n : octets[i] \in Nat
  <2>1. octets \in Seq(Nat)
    BY AddressIsNotNone
  <2> QED
    BY <2>1, ElementsAreIn
<1> HIDE DEF n
<1>4. \A i \in 1 .. n : b[i] = a[i]
  <2> TAKE i \in 1 .. n
  <2> DEFINE r == Remaining(prefix, i)  unit == 2 ^ (OctetBits - r)
  <2>1. r \in Int
    BY <1>3, RemainingIs
  <2>2. /\ a[i] = IF r <= 0 THEN 0 ELSE IF r < OctetBits THEN Kept(octets[i], unit) ELSE octets[i]
        /\ b[i] = IF r <= 0 THEN 0 ELSE IF r < OctetBits THEN Kept(a[i], unit) ELSE a[i]
    BY <1>1, <1>2
  <2> HIDE DEF r
  <2>3. ASSUME ~(r <= 0), r < OctetBits PROVE unit \in Powers
    <3> DEFINE k == OctetBits - r
    <3>1. OctetBits \in 4 .. 8
      BY OctetAssumption
    <3>2. k \in 0 .. 7
      BY <2>1, <2>3, <3>1
    <3> HIDE DEF k
    <3>3. 2 ^ k \in Powers
      BY <3>2, PowerIs
    <3> QED
      BY <3>3 DEF k
  <2> HIDE DEF unit
  <2>4. CASE r <= 0
    BY <2>2, <2>4
  <2>5. CASE ~(r <= 0) /\ r < OctetBits
    BY <1>3, <2>2, <2>3, <2>5, KeptTwice
  <2>6. CASE ~(r <= 0) /\ ~(r < OctetBits)
    BY <2>2, <2>6
  <2> QED
    BY <2>4, <2>5, <2>6
<1>5. a \in Seq(Octets) /\ b \in Seq(Octets)
  BY <1>1, <1>2 DEF IsAddress
<1> QED
  BY <1>1, <1>2, <1>4, <1>5, SeqEqual DEF a, b
-----------------------------------------------------------------------------
(* IPv4 addresses. *)
LEMMA OctetAgain ==
  ASSUME NEW n \in Octets
  PROVE  /\ ValidOctet(Numeral(n, 10)) /\ NumberOf(Numeral(n, 10), 10) = n
         /\ Numeral(n, 10) \in Seq(Digits) /\ ~Has(Numeral(n, 10), ".")
<1>1. n \in Nat
  BY OctetsAreNumbers
<1> DEFINE s == Numeral(n, 10)
<1>2. DigitsOnly(s) /\ NumberOf(s, 10) = n /\ (Len(s) > 1 => s[1] # "0") /\ s \in Seq(Digits)
  BY <1>1, DecimalIs, NumeralOver
<1> HIDE DEF s
<1>3. n < OctetLimit
  BY OctetLimitIs DEF Octets
<1>4. ValidOctet(s)
  BY <1>2, <1>3 DEF ValidOctet
<1>5. ~Has(s, ".")
  BY <1>2, NetCharsAre DEF DigitsOnly, Has
<1> QED
  BY <1>2, <1>4, <1>5 DEF s

LEMMA FourOctets ==
  ASSUME NEW octets \in Seq(Octets), Len(octets) = 4
  PROVE  /\ octets[1] \in Octets /\ octets[2] \in Octets /\ octets[3] \in Octets /\ octets[4] \in Octets
         /\ octets = [i \in 1 .. 4 |-> octets[i]]
<1>1. DOMAIN octets = 1 .. 4 /\ \A i \in 1 .. 4 : octets[i] \in Octets
  <2> DEFINE n == Len(octets)
  <2>1. DOMAIN octets = 1 .. n /\ \A i \in 1 .. n : octets[i] \in Octets
    BY ElementsAreIn
  <2>2. n = 4
    OBVIOUS
  <2> HIDE DEF n
  <2> QED
    BY <2>1, <2>2
<1>2. octets = [i \in DOMAIN octets |-> octets[i]]
  OBVIOUS
<1>3. 1 \in 1 .. 4 /\ 2 \in 1 .. 4 /\ 3 \in 1 .. 4 /\ 4 \in 1 .. 4
  OBVIOUS
<1> QED
  BY <1>1, <1>2, <1>3

LEMMA Ipv4Parts ==
  ASSUME NEW a \in Seq(Digits), NEW b \in Seq(Digits), NEW c \in Seq(Digits), NEW d \in Seq(Digits),
         ~Has(a, "."), ~Has(b, "."), ~Has(c, "."), ~Has(d, ".")
  PROVE  LET t == a \o <<".">> \o b \o <<".">> \o c \o <<".">> \o d
         IN  t \in Seq(Digits \cup {"."}) /\ Split(t, ".") = <<a, b, c, d>>
<1> DEFINE D == Digits \cup {"."}  dot == "."
           u == a \o <<dot>> \o b  v == u \o <<dot>> \o c  t == v \o <<dot>> \o d
<1>1. dot \in D /\ Digits \subseteq D
  OBVIOUS
<1>2. a \in Seq(D) /\ b \in Seq(D) /\ c \in Seq(D) /\ d \in Seq(D)
  <2> HIDE DEF D
  <2> QED
    BY <1>1, WiderTexts
<1>3. ~Has(a, dot) /\ ~Has(b, dot) /\ ~Has(c, dot) /\ ~Has(d, dot)
  OBVIOUS
<1> HIDE DEF D, dot
<1>4. \A x, y \in Seq(D) : x \o <<dot>> \o y \in Seq(D)
  <2> TAKE x, y \in Seq(D)
  <2> DEFINE p == <<dot>>
  <2>1. p \in Seq(D)
    BY <1>1
  <2> HIDE DEF p
  <2>2. x \o p \in Seq(D)
    BY <2>1, JoinIs
  <2>3. x \o p \o y \in Seq(D)
    BY <2>2, JoinIs
  <2> QED
    BY <2>3 DEF p
<1>5. u \in Seq(D)
  BY <1>2, <1>4
<1>6. Split(a, dot) = <<a>>
  BY <1>2, <1>3, SplitWhole
<1>7. SplitsJoined(a, dot, b)
  BY <1>1, <1>2, <1>3, SplitIsJoined
<1>8. Split(u, dot) = <<a, b>>
  BY <1>6, <1>7, AppendToOne DEF SplitsJoined
<1> HIDE DEF u
<1>9. v \in Seq(D)
  BY <1>2, <1>4, <1>5
<1>10. SplitsJoined(u, dot, c)
  BY <1>1, <1>2, <1>3, <1>5, SplitIsJoined
<1>11. Split(v, dot) = <<a, b, c>>
  BY <1>8, <1>10, AppendToTwo DEF SplitsJoined
<1> HIDE DEF v
<1>12. t \in Seq(D)
  BY <1>2, <1>4, <1>9
<1>13. SplitsJoined(v, dot, d)
  BY <1>1, <1>2, <1>3, <1>9, SplitIsJoined
<1>14. Split(t, dot) = <<a, b, c, d>>
  BY <1>11, <1>13, AppendToThree DEF SplitsJoined
<1> HIDE DEF t
<1> QED
  BY <1>12, <1>14 DEF t, v, u, dot, D

(* Four octets written in decimal are read as the same octets. *)
LEMMA Ipv4Again ==
  ASSUME NEW octets \in Seq(Octets), Len(octets) = 4
  PROVE  IsAddressText(FormatAddress(octets), octets)
<1> DEFINE a == Numeral(octets[1], 10)  b == Numeral(octets[2], 10)
           c == Numeral(octets[3], 10)  d == Numeral(octets[4], 10)
           t == FormatAddress(octets)  D == Digits \cup {"."}
<1>1. /\ octets[1] \in Octets /\ octets[2] \in Octets /\ octets[3] \in Octets /\ octets[4] \in Octets
      /\ octets = [i \in 1 .. 4 |-> octets[i]]
  BY FourOctets
<1>2. /\ ValidOctet(a) /\ NumberOf(a, 10) = octets[1] /\ a \in Seq(Digits) /\ ~Has(a, ".")
      /\ ValidOctet(b) /\ NumberOf(b, 10) = octets[2] /\ b \in Seq(Digits) /\ ~Has(b, ".")
      /\ ValidOctet(c) /\ NumberOf(c, 10) = octets[3] /\ c \in Seq(Digits) /\ ~Has(c, ".")
      /\ ValidOctet(d) /\ NumberOf(d, 10) = octets[4] /\ d \in Seq(Digits) /\ ~Has(d, ".")
  BY <1>1, OctetAgain
<1>3. t = a \o <<".">> \o b \o <<".">> \o c \o <<".">> \o d
  BY DEF FormatAddress, FormatIpv4
<1> HIDE DEF a, b, c, d, t
<1>4. t \in Seq(D) /\ Split(t, ".") = <<a, b, c, d>>
  BY <1>2, <1>3, Ipv4Parts
<1> DEFINE parts == Split(t, ".")
<1>5. Len(parts) = 4 /\ parts[1] = a /\ parts[2] = b /\ parts[3] = c /\ parts[4] = d
  BY <1>4
<1> HIDE DEF parts
<1>6. \A i \in 1 .. 4 : i = 1 \/ i = 2 \/ i = 3 \/ i = 4
  OBVIOUS
<1>7. \A i \in 1 .. 4 : ValidOctet(parts[i]) /\ NumberOf(parts[i], 10) = octets[i]
  BY <1>2, <1>5, <1>6
<1>8. ValidIpv4Text(t)
  BY <1>5, <1>7 DEF ValidIpv4Text, parts
<1>9. Ipv4Octets(t) = octets
  <2>1. Ipv4Octets(t) = [i \in 1 .. 4 |-> NumberOf(parts[i], 10)]
    BY DEF Ipv4Octets, parts
  <2>2. [i \in 1 .. 4 |-> NumberOf(parts[i], 10)] = [i \in 1 .. 4 |-> octets[i]]
    BY <1>7
  <2>3. [i \in 1 .. 4 |-> octets[i]] = octets
    BY <1>1
  <2> QED
    BY <2>1, <2>2, <2>3
<1>10. Has(t, ".")
  <2> SUFFICES ASSUME ~Has(t, ".") PROVE FALSE
    OBVIOUS
  <2>1. t \in Seq(D)
    BY <1>4
  <2>2. Len(Split(t, ".")) = 1
    <3> HIDE DEF D
    <3> QED
      BY <2>1, SplitAlone
  <2> QED
    BY <1>5, <2>2 DEF parts
<1>11. D \subseteq NetChars /\ ":" \notin D /\ "/" \notin D
  BY NetCharsAre
<1>12. t \in Seq(NetChars) /\ ToSet(t) \subseteq D
  <2> HIDE DEF D
  <2> QED
    BY <1>4, <1>11, WiderTexts, TextOver
<1>13. ~Has(t, ":") /\ ~Has(t, "/") /\ ~DigitsOnly(t)
  BY <1>10, <1>11, <1>12, NetCharsAre DEF Has, DigitsOnly
<1>14. t # <<>>
  <2>1. ToSet(<<>>) = {}
    BY DEF ToSet
  <2> QED
    BY <1>10, <2>1 DEF Has
<1>15. Ipv4Shape(t)
  BY <1>12, <1>14 DEF Ipv4Shape
<1>16. AddressOctets(t) = octets
  BY <1>8, <1>9, <1>13 DEF AddressOctets
<1> QED
  BY <1>12, <1>13, <1>14, <1>15, <1>16 DEF IsAddressText, t

-----------------------------------------------------------------------------
(* IPv6 addresses.  What is made of sequences, one after the other.        *)
IsFlattened(list, T, seqs) ==
  /\ list \in [0 .. Len(seqs) -> Seq(T)]
  /\ list[0] = <<>>
  /\ \A i \in 1 .. Len(seqs) : list[i] = list[i - 1] \o seqs[i]
  /\ list[Len(seqs)] = FlattenSeq(seqs)

LEMMA FlattenSteps ==
  ASSUME NEW T, NEW seqs \in Seq(Seq(T))
  PROVE  \E list : IsFlattened(list, T, seqs)
<1> DEFINE n == Len(seqs)
<1>1. n \in Nat /\ DOMAIN seqs = 1 .. n /\ \A i \in 1 .. n : seqs[i] \in Seq(T)
  OBVIOUS
<1>2. PICK flat : IsFlattening(flat, seqs) /\ (n # 0 => FlattenSeq(seqs) = flat[n])
  BY FlattenExists, FlattenUnfolds
<1> DEFINE e == <<>>
           value(i) == IF i = 0 THEN e ELSE flat[i]
           list == [i \in 0 .. n |-> value(i)]
           S == {i \in 0 .. n : value(i) \in Seq(T)}
<1>3. e \in Seq(T) /\ \A s \in Seq(T) : e \o s = s
  OBVIOUS
<1>4. \A i \in 1 .. n : flat[i] = IF i = 1 THEN seqs[i] ELSE flat[i - 1] \o seqs[i]
  BY <1>2 DEF IsFlattening
<1> HIDE DEF n, e
<1>5. \A i \in 1 .. n : i \in 0 .. n /\ i - 1 \in 0 .. n /\ i # 0 /\ (i - 1 = 0 => i = 1) /\ (i = 1 => i - 1 = 0)
  BY <1>1
<1>6. \A i \in 1 .. n : value(i) = value(i - 1) \o seqs[i]
  <2> TAKE i \in 1 .. n
  <2>1. CASE i = 1
    <3>1. value(i) = seqs[i] /\ value(i - 1) = e /\ seqs[i] \in Seq(T)
      BY <1>1, <1>4, <1>5, <2>1
    <3> HIDE DEF value
    <3> QED
      BY <1>3, <3>1
  <2>2. CASE i # 1
    BY <1>4, <1>5, <2>2
  <2> QED
    BY <2>1, <2>2
<1>7. 0 \in S
  BY <1>1, <1>3
<1> HIDE DEF value
<1>8. ASSUME NEW i \in 0 .. n - 1, i \in S PROVE i + 1 \in S
  <2>1. i + 1 \in 1 .. n /\ i + 1 \in 0 .. n /\ (i + 1) - 1 = i
    BY <1>1
  <2> DEFINE a == value(i)  b == seqs[i + 1]
  <2>2. a \in Seq(T) /\ b \in Seq(T) /\ value(i + 1) = a \o b
    BY <1>1, <1>6, <1>8, <2>1
  <2> HIDE DEF a, b
  <2>3. value(i + 1) \in Seq(T)
    BY <2>2, JoinIs
  <2> QED
    BY <2>1, <2>3
<1>9. \A i \in 0 .. n : value(i) \in Seq(T)
  <2> HIDE DEF S
  <2>1. 0 .. n \subseteq S
    BY <1>1, <1>7, <1>8, InductUpTo
  <2> QED
    BY <2>1 DEF S
<1>10. list \in [0 .. n -> Seq(T)] /\ \A i \in 0 .. n : list[i] = value(i)
  BY <1>9
<1> HIDE DEF list
<1>11. 0 \in 0 .. n /\ n \in 0 .. n
  BY <1>1
<1>12. list[n] = FlattenSeq(seqs)
  <2>1. CASE n = 0
    <3>1. FlattenSeq(seqs) = seqs
      BY <2>1 DEF FlattenSeq, n
    <3>2. seqs = <<>>
      BY <2>1 DEF n
    <3>3. list[n] = e
      BY <1>10, <1>11, <2>1 DEF value
    <3> QED
      BY <3>1, <3>2, <3>3 DEF e
  <2>2. CASE n # 0
    BY <1>2, <1>10, <1>11, <2>2 DEF value
  <2> QED
    BY <2>1, <2>2
<1>13. list[0] = <<>>
  BY <1>10, <1>11 DEF value, e
<1>14. \A i \in 1 .. n : list[i] = list[i - 1] \o seqs[i]
  BY <1>5, <1>6, <1>10
<1> QED
  BY <1>10, <1>12, <1>13, <1>14 DEF IsFlattened, n

-----------------------------------------------------------------------------
(* The text of a group. *)
GroupMax == OctetLimit * OctetLimit

(* Numbers below the limit take at most k hexadecimal digits. *)
Shorter(limit, k) == \A m \in Nat : m < limit => Len(Numeral(m, 16)) <= k

LEMMA OneDigit == Shorter(16, 1)
<1> SUFFICES ASSUME NEW m \in Nat, m < 16 PROVE Len(Numeral(m, 16)) <= 1
  BY DEF Shorter
<1> DEFINE l == Len(Numeral(m, 16))
<1>1. l = 1
  BY LastDigit DEF Bases
<1> HIDE DEF l
<1>2. l <= 1
  BY <1>1
<1> QED
  BY <1>2 DEF l

LEMMA OneDigitMore ==
  ASSUME NEW limit \in {16, 256, 4096}, NEW k \in Nat, k > 0, Shorter(limit, k)
  PROVE  Shorter(limit * 16, k + 1)
<1> SUFFICES ASSUME NEW m \in Nat, m < limit * 16 PROVE Len(Numeral(m, 16)) <= k + 1
  BY DEF Shorter
<1> DEFINE l == Len(Numeral(m, 16))
<1>1. 16 \in Bases
  BY DEF Bases
<1>2. CASE m < 16
  <2>1. l = 1
    BY <1>1, <1>2, LastDigit
  <2> HIDE DEF l
  <2>2. l <= k + 1
    BY <2>1
  <2> QED
    BY <2>2 DEF l
<1>3. CASE ~(m < 16)
  <2> DEFINE q == m \div 16  r == m % 16
  <2>1. q \in Nat /\ r \in 0 .. 15 /\ m = q * 16 + r
    OBVIOUS
  <2>2. m >= 16
    BY <1>3
  <2>3. IsNumeral(Numeral(q, 16), q, 16)
    BY <1>1, <2>1, NumeralLooks
  <2>4. Len(Numeral(m, 16)) = Len(Numeral(q, 16)) + 1
    BY <1>1, <2>2, <2>3, MoreDigits
  <2> HIDE DEF q, r
  <2>5. q < limit
    <3>1. CASE limit = 16
      BY <2>1, <3>1
    <3>2. CASE limit = 256
      BY <2>1, <3>2
    <3>3. CASE limit = 4096
      BY <2>1, <3>3
    <3> QED
      BY <3>1, <3>2, <3>3
  <2> DEFINE j == Len(Numeral(q, 16))
  <2>6. j <= k
    BY <2>1, <2>5 DEF Shorter
  <2>7. j \in Nat
    BY <2>3 DEF IsNumeral
  <2>8. l = j + 1
    BY <2>4
  <2> HIDE DEF j, l
  <2>9. l <= k + 1
    BY <2>6, <2>7, <2>8
  <2> QED
    BY <2>9 DEF l
<1> QED
  BY <1>2, <1>3

(* So a group takes no more digits than inet_pton reads. *)
LEMMA GroupLength ==
  ASSUME NEW n \in Nat, n < GroupMax
  PROVE  Len(Numeral(n, 16)) <= (2 * OctetBits) \div 4
<1>1. 16 * 16 = 256 /\ 256 * 16 = 4096 /\ 4096 * 16 = 65536 /\ 1 + 1 = 2 /\ 2 + 1 = 3 /\ 3 + 1 = 4
  OBVIOUS
<1>2. Shorter(256, 2)
  <2>1. Shorter(16 * 16, 1 + 1)
    BY OneDigit, OneDigitMore
  <2> QED
    BY <1>1, <2>1
<1>3. Shorter(4096, 3)
  <2>1. Shorter(256 * 16, 2 + 1)
    BY <1>2, OneDigitMore
  <2> QED
    BY <1>1, <2>1
<1>4. Shorter(65536, 4)
  <2>1. Shorter(4096 * 16, 3 + 1)
    BY <1>3, OneDigitMore
  <2> QED
    BY <1>1, <2>1
<1>6. CASE OctetBits = 4
  <2>1. OctetLimit = 16 /\ (2 * OctetBits) \div 4 = 2
    BY <1>6, GroupLimit
  <2>2. n < 256
    BY <2>1 DEF GroupMax
  <2> QED
    BY <1>2, <2>1, <2>2 DEF Shorter
<1>7. CASE OctetBits = 6
  <2>1. OctetLimit = 64 /\ (2 * OctetBits) \div 4 = 3
    BY <1>7, GroupLimit
  <2>2. n < 4096
    BY <2>1 DEF GroupMax
  <2> QED
    BY <1>3, <2>1, <2>2 DEF Shorter
<1>8. CASE OctetBits = 8
  <2>1. OctetLimit = 256 /\ (2 * OctetBits) \div 4 = 4
    BY <1>8, GroupLimit
  <2>2. n < 65536
    BY <2>1 DEF GroupMax
  <2> QED
    BY <1>4, <2>1, <2>2 DEF Shorter
<1> QED
  BY <1>6, <1>7, <1>8, GroupLimit

(* A text that is read as the group n. *)
IsGroupText(h, n) ==
  /\ h \in Seq(ToSet(HexDigits)) /\ Len(h) \in Nat /\ Len(h) > 0
  /\ ValidGroup(h) /\ NumberOf(h, 16) = n

(* The numeral of a group is. *)
LEMMA GroupAgain ==
  ASSUME NEW n \in Nat, n < GroupMax
  PROVE  IsGroupText(Numeral(n, 16), n)
<1> DEFINE h == Numeral(n, 16)
<1>1. 16 \in Bases
  BY DEF Bases
<1>2. h \in Seq(ToSet(HexDigits)) /\ NumberOf(h, 16) = n /\ IsHexText(h)
  BY <1>1, NumeralIs, NumberOfNumeral, NumeralIsHex DEF NumeralTexts
<1>3. Len(h) \in Nat /\ Len(h) > 0
  BY <1>1, NumeralLooks DEF IsNumeral
<1>4. Len(h) <= (2 * OctetBits) \div 4
  BY GroupLength
<1> HIDE DEF h
<1>5. Len(h) \in 1 .. (2 * OctetBits) \div 4
  <2>1. (2 * OctetBits) \div 4 \in Nat
    BY GroupLimit
  <2> HIDE DEF h
  <2> QED
    BY <1>3, <1>4, <2>1
<1>6. ValidGroup(h)
  BY <1>2, <1>5 DEF ValidGroup, IsHexText
<1> QED
  BY <1>2, <1>3, <1>6 DEF IsGroupText, h
-----------------------------------------------------------------------------
(* Groups with colons between them. *)
GroupChars == ToSet(HexDigits) \cup {":"}
GroupLists == [1 .. 8 -> 0 .. GroupMax - 1]
GroupTexts(groups, m, n) == [k \in 1 .. n - m + 1 |-> Numeral(groups[m + k - 1], 16)]

(* The groups m to n, written with single colons between them. *)
IsSpelling(t, groups, m, n) ==
  /\ t \in Seq(GroupChars)
  /\ Groups(t) = GroupTexts(groups, m, n)
  /\ Gaps(t) = {}
  /\ n < m => t = <<>>
  /\ n >= m => Len(t) > 0 /\ t[1] # ":" /\ t[Len(t)] # ":"

LEMMA GroupCharsAre ==
  /\ ":" \notin ToSet(HexDigits) /\ ":" \in GroupChars /\ ToSet(HexDigits) \subseteq GroupChars
  /\ "/" \notin GroupChars /\ "." \notin GroupChars /\ GroupChars \subseteq NetChars
BY HexDigitsSet DEF GroupChars, NetChars

LEMMA GapsUnfold ==
  ASSUME NEW C, NEW t \in Seq(C)
  PROVE  /\ Len(t) \in Nat
         /\ Gaps(t) = {} <=> \A i \in 1 .. Len(t) - 1 : ~(t[i] = ":" /\ t[i + 1] = ":")
<1>1. Len(t) \in Nat
  OBVIOUS
<1> DEFINE I == 1 .. Len(t) - 1  pair(i) == t[i] = ":" /\ t[i + 1] = ":"
<1>2. Gaps(t) = {i \in I : pair(i)}
  BY DEF Gaps
<1> HIDE DEF I, pair
<1>3. Gaps(t) = {} <=> \A i \in I : ~pair(i)
  BY <1>2
<1> QED
  BY <1>1, <1>3 DEF I, pair

LEMMA GroupTextIs ==
  ASSUME NEW groups \in GroupLists, NEW i \in 1 .. 8
  PROVE  LET h == Numeral(groups[i], 16)
         IN  /\ IsGroupText(h, groups[i]) /\ h \in Seq(GroupChars) /\ h # <<>>
             /\ Len(h) \in Nat /\ Len(h) > 0
             /\ ~Has(h, ":") /\ \A k \in 1 .. Len(h) : h[k] # ":"
<1> DEFINE h == Numeral(groups[i], 16)
<1>1. groups[i] \in Nat /\ groups[i] < GroupMax
  <2>1. GroupMax \in Nat
    BY GroupLimit DEF GroupMax
  <2>2. groups[i] \in 0 .. GroupMax - 1
    BY DEF GroupLists
  <2> QED
    BY <2>1, <2>2
<1>2. IsGroupText(h, groups[i])
  BY <1>1, GroupAgain
<1> HIDE DEF h
<1>3. h \in Seq(ToSet(HexDigits)) /\ Len(h) \in Nat /\ Len(h) > 0
  BY <1>2 DEF IsGroupText
<1>4. h \in Seq(GroupChars)
  BY <1>3, GroupCharsAre, WiderTexts
<1>5. ToSet(h) \subseteq ToSet(HexDigits)
  BY <1>3, TextOver
<1>6. \A k \in 1 .. Len(h) : h[k] # ":"
  <2>1. \A k \in 1 .. Len(h) : h[k] \in ToSet(HexDigits)
    BY <1>3, ElementsAreIn
  <2> QED
    BY <2>1, GroupCharsAre
<1>7. ~Has(h, ":")
  BY <1>5, GroupCharsAre DEF Has
<1>8. h # <<>>
  BY <1>3
<1> QED
  BY <1>2, <1>3, <1>4, <1>6, <1>7, <1>8 DEF h

LEMMA SpellNone ==
  ASSUME NEW groups, NEW m \in 1 .. 9
  PROVE  IsSpelling(<<>>, groups, m, m - 1)
<1>1. Groups(<<>>) = <<>> /\ <<>> \in Seq(GroupChars)
  BY DEF Groups
<1>2. Gaps(<<>>) = {}
  BY DEF Gaps
<1>3. GroupTexts(groups, m, m - 1) = <<>>
  <2>1. m - 1 - m + 1 = 0
    OBVIOUS
  <2>2. GroupTexts(groups, m, m - 1) = [k \in 1 .. 0 |-> Numeral(groups[m + k - 1], 16)]
    BY <2>1 DEF GroupTexts
  <2>3. 1 .. 0 = {}
    OBVIOUS
  <2> QED
    BY <2>2, <2>3
<1>4. ~(m - 1 >= m)
  OBVIOUS
<1> QED
  BY <1>1, <1>2, <1>3, <1>4 DEF IsSpelling

LEMMA SpellFirst ==
  ASSUME NEW groups \in GroupLists, NEW m \in 1 .. 8
  PROVE  IsSpelling(Numeral(groups[m], 16), groups, m, m)
<1> DEFINE h == Numeral(groups[m], 16)
<1>1. /\ h \in Seq(GroupChars) /\ h # <<>> /\ Len(h) \in Nat /\ Len(h) > 0
      /\ ~Has(h, ":") /\ \A k \in 1 .. Len(h) : h[k] # ":"
  BY GroupTextIs
<1>3. GroupTexts(groups, m, m) = [k \in 1 .. 1 |-> h]
  <2>1. m - m + 1 = 1 /\ \A k \in 1 .. 1 : m + k - 1 = m
    OBVIOUS
  <2>2. GroupTexts(groups, m, m) = [k \in 1 .. 1 |-> Numeral(groups[m + k - 1], 16)]
    BY <2>1 DEF GroupTexts
  <2> QED
    BY <2>1, <2>2
<1> HIDE DEF h
<1>2. Groups(h) = <<h>>
  BY <1>1, SplitWhole DEF Groups
<1>4. [k \in 1 .. 1 |-> h] = <<h>>
  OBVIOUS
<1>5. 1 \in 1 .. Len(h) /\ Len(h) \in 1 .. Len(h) /\ \A i \in 1 .. Len(h) - 1 : i \in 1 .. Len(h)
  BY <1>1
<1>6. Gaps(h) = {}
  BY <1>1, <1>5, GapsUnfold
<1>7. ~(m < m)
  OBVIOUS
<1> QED
  BY <1>1, <1>2, <1>3, <1>4, <1>5, <1>6, <1>7 DEF IsSpelling, h

(* A text and another without a gap, and not two colons where they meet.   *)
LEMMA JoinedGaps ==
  ASSUME NEW C, NEW s \in Seq(C), NEW t \in Seq(C), Gaps(s) = {}, Gaps(t) = {},
         Len(s) > 0 /\ Len(t) > 0 => s[Len(s)] # ":" \/ t[1] # ":"
  PROVE  Gaps(s \o t) = {}
<1> DEFINE j == s \o t  m == Len(s)  n == Len(t)
<1>1. IsJoin(j, C, s, t)
  BY Joined
<1> HIDE DEF j
<1>2. /\ j \in Seq(C) /\ m \in Nat /\ n \in Nat /\ Len(j) = m + n
      /\ \A i \in 1 .. m : j[i] = s[i]
      /\ \A i \in 1 .. n : j[m + i] = t[i]
  BY <1>1 DEF IsJoin
<1>3. /\ \A i \in 1 .. m - 1 : ~(s[i] = ":" /\ s[i + 1] = ":")
      /\ \A i \in 1 .. n - 1 : ~(t[i] = ":" /\ t[i + 1] = ":")
  BY GapsUnfold
<1>4. m > 0 /\ n > 0 => s[m] # ":" \/ t[1] # ":"
  OBVIOUS
<1> HIDE DEF m, n
<1>5. \A i \in 1 .. Len(j) - 1 : ~(j[i] = ":" /\ j[i + 1] = ":")
  <2> TAKE i \in 1 .. Len(j) - 1
  <2>1. i \in 1 .. m + n - 1
    BY <1>2
  <2>2. CASE i < m
    <3>1. i \in 1 .. m - 1 /\ i \in 1 .. m /\ i + 1 \in 1 .. m
      BY <1>2, <2>1, <2>2
    <3> QED
      BY <1>2, <1>3, <3>1
  <2>3. CASE i = m
    <3>1. i \in 1 .. m /\ 1 \in 1 .. n /\ m > 0 /\ n > 0
      BY <1>2, <2>1, <2>3
    <3> QED
      BY <1>2, <1>4, <2>3, <3>1
  <2>4. CASE i > m
    <3> DEFINE k == i - m
    <3>1. k \in 1 .. n - 1 /\ k \in 1 .. n /\ k + 1 \in 1 .. n /\ i = m + k /\ i + 1 = m + (k + 1)
      BY <1>2, <2>1, <2>4
    <3> HIDE DEF k
    <3>2. j[m + k] = t[k] /\ j[m + (k + 1)] = t[k + 1]
      BY <1>2, <3>1
    <3>3. ~(t[k] = ":" /\ t[k + 1] = ":")
      BY <1>3, <3>1
    <3> QED
      BY <3>1, <3>2, <3>3
  <2> QED
    BY <1>2, <2>1, <2>2, <2>3, <2>4
<1> QED
  BY <1>2, <1>5, GapsUnfold DEF j

(* A colon and the next group continue a spelling. *)
LEMMA SpellNext ==
  ASSUME NEW groups \in GroupLists, NEW m \in 1 .. 8, NEW n \in m .. 7,
         NEW t, IsSpelling(t, groups, m, n)
  PROVE  IsSpelling(t \o (<<":">> \o Numeral(groups[n + 1], 16)), groups, m, n + 1)
<1> DEFINE h == Numeral(groups[n + 1], 16)  c == <<":">>  ch == c \o h  u == t \o ch
<1>1. n + 1 \in 1 .. 8 /\ n \in Nat /\ m \in Nat /\ n >= m
  OBVIOUS
<1>2. /\ h \in Seq(GroupChars) /\ h # <<>> /\ Len(h) \in Nat /\ Len(h) > 0
      /\ ~Has(h, ":") /\ \A k \in 1 .. Len(h) : h[k] # ":"
  BY <1>1, GroupTextIs
<1>3. /\ t \in Seq(GroupChars) /\ Groups(t) = GroupTexts(groups, m, n) /\ Gaps(t) = {}
      /\ Len(t) > 0 /\ t[1] # ":" /\ t[Len(t)] # ":"
  BY <1>1 DEF IsSpelling
<1>4. c \in Seq(GroupChars) /\ Len(c) = 1 /\ c[1] = ":"
  BY GroupCharsAre
<1> DEFINE tail == GroupTexts(groups, m, n)
<1>5. GroupTexts(groups, m, n + 1) = Append(tail, h)
  <2> DEFINE V == Seq(GroupChars)  l == n - m + 1  full == GroupTexts(groups, m, n + 1)
  <2>1. l \in Nat /\ (n + 1) - m + 1 = l + 1 /\ \A k \in 1 .. l + 1 : m + k - 1 \in 1 .. 8
    BY <1>1
  <2>2. \A k \in 1 .. l + 1 : Numeral(groups[m + k - 1], 16) \in V
    BY <2>1, GroupTextIs
  <2>3. tail = [k \in 1 .. l |-> Numeral(groups[m + k - 1], 16)] /\ full = [k \in 1 .. l + 1 |-> Numeral(groups[m + k - 1], 16)]
    BY <2>1 DEF GroupTexts
  <2>4. m + (l + 1) - 1 = n + 1 /\ \A k \in 1 .. l : k \in 1 .. l + 1
    BY <1>1
  <2>5. h \in V
    BY <1>2
  <2> HIDE DEF V, tail, full
  <2>6. tail \in [1 .. l -> V] /\ full \in [1 .. l + 1 -> V]
    BY <2>2, <2>3, <2>4
  <2>7. full[l + 1] = h /\ \A k \in 1 .. l : full[k] = tail[k]
    <3>1. l + 1 \in 1 .. l + 1
      BY <2>1
    <3> HIDE DEF l
    <3> QED
      BY <2>3, <2>4, <3>1
  <2> HIDE DEF l, h
  <2>8. tail \in Seq(V) /\ Len(tail) = l /\ full \in Seq(V) /\ Len(full) = l + 1
    <3>1. l + 1 \in Nat
      BY <2>1
    <3> QED
      BY <2>1, <2>6, <3>1, SequenceIs
  <2>9. Append(tail, h) = full
    BY <2>1, <2>5, <2>7, <2>8, TupleIs
  <2> QED
    BY <2>9 DEF full
<1> HIDE DEF h, c, tail
<1>6. IsJoin(ch, GroupChars, c, h)
  BY <1>2, <1>4, Joined
<1>7. ch \in Seq(GroupChars)
  BY <1>6 DEF IsJoin
<1>8. u = t \o c \o h
  <2>1. Associate(t, c, h)
    BY <1>2, <1>3, <1>4, JoinAssociates
  <2> QED
    BY <2>1 DEF Associate
<1>9. Split(u, ":") = Append(Split(t, ":"), h)
  <2>1. SplitsJoined(t, ":", h)
    BY <1>2, <1>3, GroupCharsAre, SplitIsJoined
  <2> QED
    BY <1>8, <2>1 DEF SplitsJoined, c
<1>10. IsJoin(u, GroupChars, t, ch)
  BY <1>3, <1>7, Joined
<1>11. /\ Len(ch) = 1 + Len(h) /\ ch[1] = ":" /\ \A k \in 1 .. Len(h) : ch[1 + k] = h[k]
  <2>1. 1 \in 1 .. 1
    OBVIOUS
  <2> QED
    BY <1>4, <1>6, <2>1 DEF IsJoin
<1> HIDE DEF ch
<1>12. Gaps(ch) = {}
  <2>1. \A i \in 1 .. Len(ch) - 1 : i \in 1 .. Len(h) /\ i + 1 = 1 + i
    BY <1>2, <1>11
  <2>2. \A i \in 1 .. Len(ch) - 1 : ch[i + 1] # ":"
    BY <1>2, <1>11, <2>1
  <2> QED
    BY <1>7, <2>2, GapsUnfold
<1>13. Gaps(u) = {}
  BY <1>3, <1>7, <1>12, JoinedGaps
<1> HIDE DEF u
<1>14. /\ u \in Seq(GroupChars) /\ Len(t) \in Nat /\ Len(u) = Len(t) + (1 + Len(h))
       /\ \A i \in 1 .. Len(t) : u[i] = t[i]
       /\ \A i \in 1 .. 1 + Len(h) : u[Len(t) + i] = ch[i]
  BY <1>10, <1>11 DEF IsJoin
<1>15. Len(u) > 0 /\ u[1] # ":" /\ u[Len(u)] # ":"
  <2> DEFINE l == Len(t)  k == Len(h)
  <2>1. l \in Nat /\ l > 0 /\ k \in Nat /\ k > 0 /\ Len(u) = l + (1 + k)
    BY <1>2, <1>3, <1>14
  <2> HIDE DEF l, k
  <2>2. Len(u) > 0 /\ 1 \in 1 .. l /\ 1 + k \in 1 .. 1 + k /\ k \in 1 .. k /\ Len(u) = l + (1 + k)
    BY <2>1
  <2>3. u[1] = t[1]
    BY <1>14, <2>2 DEF l
  <2>4. u[l + (1 + k)] = ch[1 + k] /\ ch[1 + k] = h[k]
    BY <1>11, <1>14, <2>2 DEF l, k
  <2>5. h[k] # ":"
    BY <1>2, <2>2 DEF k
  <2> QED
    BY <1>3, <2>2, <2>3, <2>4, <2>5
<1>16. Groups(u) = GroupTexts(groups, m, n + 1)
  <2>1. u # <<>> /\ t # <<>>
    BY <1>3, <1>15
  <2> QED
    BY <1>3, <1>5, <1>9, <2>1 DEF Groups, tail
<1>17. ~(n + 1 < m)
  BY <1>1
<1> QED
  BY <1>13, <1>14, <1>15, <1>16, <1>17 DEF IsSpelling, u, ch, c, h

-----------------------------------------------------------------------------
(* The octets of the groups, one group after the other. *)
IsPair(value, a, b) ==
  /\ value \in 0 .. GroupMax - 1 /\ value \div OctetLimit = a /\ value % OctetLimit = b
  /\ value = 0 => a = 0 /\ b = 0

LEMMA PairsBack ==
  ASSUME NEW a \in Octets, NEW b \in Octets
  PROVE  IsPair(a * OctetLimit + b, a, b)
<1>1. CASE OctetLimit = 16
  BY <1>1 DEF IsPair, GroupMax, Octets
<1>2. CASE OctetLimit = 64
  BY <1>2 DEF IsPair, GroupMax, Octets
<1>3. CASE OctetLimit = 256
  <2> DEFINE v == a * 256 + b  max == 65536
  <2>1. a \in 0 .. 255 /\ b \in 0 .. 255
    BY <1>3 DEF Octets
  <2>2. v \in Nat /\ v < max /\ max \in Nat /\ GroupMax = max
    BY <1>3, <2>1 DEF GroupMax
  <2>3. v \div 256 = a
    BY <2>1
  <2>4. v % 256 = b
    BY <2>1
  <2>5. v = 0 => a = 0 /\ b = 0
    BY <2>1
  <2> HIDE DEF v, max
  <2>6. v \div OctetLimit = a /\ v % OctetLimit = b
    BY <1>3, <2>3, <2>4, SMT
  <2>7. v \in 0 .. GroupMax - 1
    BY <2>2
  <2>8. IsPair(v, a, b)
    BY <2>5, <2>6, <2>7, Zenon DEF IsPair
  <2> QED
    BY <1>3, <2>8 DEF v
<1> QED
  BY <1>1, <1>2, <1>3, OctetLimitIs

LEMMA PairsOfOctets ==
  ASSUME NEW octets \in Seq(Octets), Len(octets) = 16
  PROVE  /\ GroupsOf(octets) \in GroupLists
         /\ \A i \in 1 .. 8 :
              /\ 2 * i - 1 \in 1 .. 16 /\ 2 * i \in 1 .. 16
              /\ octets[2 * i - 1] \in Octets /\ octets[2 * i] \in Octets
              /\ IsPair(GroupsOf(octets)[i], octets[2 * i - 1], octets[2 * i])
<1>1. \A i \in 1 .. 8 : 2 * i - 1 \in 1 .. 16 /\ 2 * i \in 1 .. 16
  OBVIOUS
<1>2. \A k \in 1 .. 16 : octets[k] \in Octets
  <2> DEFINE n == Len(octets)
  <2>1. n = 16 /\ \A k \in 1 .. n : octets[k] \in Octets
    BY ElementsAreIn
  <2> HIDE DEF n
  <2> QED
    BY <2>1
<1> DEFINE value(i) == octets[2 * i - 1] * OctetLimit + octets[2 * i]
<1>3. \A i \in 1 .. 8 : octets[2 * i - 1] \in Octets /\ octets[2 * i] \in Octets
  BY <1>1, <1>2
<1>4. \A i \in 1 .. 8 : IsPair(value(i), octets[2 * i - 1], octets[2 * i])
  BY <1>3, PairsBack
<1>5. GroupsOf(octets) = [i \in 1 .. 8 |-> value(i)]
  BY DEF GroupsOf
<1> HIDE DEF value
<1>6. \A i \in 1 .. 8 : value(i) \in 0 .. GroupMax - 1
  BY <1>4 DEF IsPair
<1>7. GroupsOf(octets) \in GroupLists /\ \A i \in 1 .. 8 : GroupsOf(octets)[i] = value(i)
  BY <1>5, <1>6 DEF GroupLists
<1> QED
  BY <1>1, <1>3, <1>4, <1>7

AreOctetsBetween(o, octets, m, n) ==
  /\ o \in Seq(Octets) /\ Len(o) = 2 * (n - m + 1)
  /\ \A j \in 1 .. 2 * (n - m + 1) : o[j] = octets[2 * (m - 1) + j]

AreTwoMore(t, k, octets, begin) ==
  /\ Len(t) = 2 * (k + 1)
  /\ \A j \in 1 .. 2 * (k + 1) : t[j] = octets[begin + j]

LEMMA TwoMore ==
  ASSUME NEW k \in Nat, NEW V, NEW s \in Seq(V), Len(s) = 2 * k, NEW a \in V, NEW b \in V,
         NEW octets, NEW begin \in Nat, \A j \in 1 .. 2 * k : s[j] = octets[begin + j],
         a = octets[begin + 2 * k + 1], b = octets[begin + 2 * k + 2]
  PROVE  AreTwoMore(s \o <<a, b>>, k, octets, begin)
<1> DEFINE p == <<a, b>>  t == s \o p  l == 2 * k
<1>1. p \in Seq(V) /\ Len(p) = 2 /\ p[1] = a /\ p[2] = b
  OBVIOUS
<1> HIDE DEF p
<1>2. IsJoin(t, V, s, p)
  BY <1>1, Joined
<1> HIDE DEF t
<1>3. l \in Nat /\ 2 * (k + 1) = l + 2
  OBVIOUS
<1>4. Len(t) = l + 2 /\ (\A j \in 1 .. l : t[j] = s[j]) /\ \A j \in 1 .. 2 : t[l + j] = p[j]
  BY <1>1, <1>2 DEF IsJoin
<1>5. \A j \in 1 .. l : t[j] = octets[begin + j]
  BY <1>4
<1>6. a = octets[begin + (l + 1)] /\ b = octets[begin + (l + 2)]
  <2>1. begin + l + 1 = begin + (l + 1) /\ begin + l + 2 = begin + (l + 2)
    BY <1>3
  <2> QED
    BY <2>1
<1> HIDE DEF l
<1>7. t[l + 1] = a /\ t[l + 2] = b
  BY <1>1, <1>4
<1>8. \A j \in 1 .. l + 2 : t[j] = octets[begin + j]
  <2> TAKE j \in 1 .. l + 2
  <2>1. j \in 1 .. l \/ j = l + 1 \/ j = l + 2
    BY <1>3
  <2> QED
    BY <1>5, <1>6, <1>7, <2>1
<1> QED
  BY <1>3, <1>4, <1>8 DEF AreTwoMore, t, p, l

(* The octets read from the groups m to n are the octets they were made from. *)
LEMMA OctetsOfTexts ==
  ASSUME NEW octets \in Seq(Octets), Len(octets) = 16, NEW m \in 1 .. 9, NEW n \in m - 1 .. 8
  PROVE  LET gs == GroupTexts(GroupsOf(octets), m, n)
         IN  /\ AreOctetsBetween(OctetsOf(gs), octets, m, n)
             /\ ValidGroups(gs, TRUE) /\ ValidGroups(gs, FALSE)
<1> DEFINE groups == GroupsOf(octets)  gs == GroupTexts(groups, m, n)
           l == n - m + 1  start == 2 * (m - 1)
<1>1. l \in Nat /\ start \in Nat /\ \A k \in 1 .. l : m + k - 1 \in 1 .. 8
  OBVIOUS
<1>2. groups \in GroupLists
  BY PairsOfOctets
<1>3. gs = [k \in 1 .. l |-> Numeral(groups[m + k - 1], 16)]
  BY DEF GroupTexts
<1> HIDE DEF groups, gs
<1>4. DOMAIN gs = 1 .. l /\ \A k \in 1 .. l : gs[k] = Numeral(groups[m + k - 1], 16)
  BY <1>3
<1>5. \A k \in 1 .. l : IsGroupText(gs[k], groups[m + k - 1])
  BY <1>1, <1>2, <1>4, GroupTextIs
<1>6. ValidGroups(gs, TRUE) /\ ValidGroups(gs, FALSE)
  BY <1>4, <1>5 DEF ValidGroups, IsGroupText
<1> DEFINE pair(k) == <<octets[start + 2 * (k - 1) + 1], octets[start + 2 * (k - 1) + 2]>>
           seqs == [k \in 1 .. l |-> pair(k)]
<1>7. \A k \in 1 .. l : /\ GroupOctets(gs[k]) = pair(k)
                        /\ octets[start + 2 * (k - 1) + 1] \in Octets
                        /\ octets[start + 2 * (k - 1) + 2] \in Octets
  <2> TAKE k \in 1 .. l
  <2> DEFINE i == m + k - 1  v == groups[i]
  <2>1. i \in 1 .. 8 /\ start + 2 * (k - 1) + 1 = 2 * i - 1 /\ start + 2 * (k - 1) + 2 = 2 * i
    BY <1>1
  <2>2. IsPair(v, octets[2 * i - 1], octets[2 * i]) /\ octets[2 * i - 1] \in Octets /\ octets[2 * i] \in Octets
    BY <2>1, PairsOfOctets DEF groups
  <2>3. IsGroupText(gs[k], v)
    BY <1>5
  <2>4. ~Has(gs[k], ".")
    <3>1. gs[k] \in Seq(ToSet(HexDigits))
      BY <2>3 DEF IsGroupText
    <3>2. ToSet(gs[k]) \subseteq ToSet(HexDigits)
      BY <3>1, TextOver
    <3>3. "." \notin ToSet(HexDigits)
      BY GroupCharsAre
    <3> QED
      BY <3>2, <3>3 DEF Has
  <2> HIDE DEF i, v
  <2>5. GroupOctets(gs[k]) = <<v \div OctetLimit, v % OctetLimit>>
    BY <2>3, <2>4 DEF GroupOctets, IsGroupText
  <2>6. v \div OctetLimit = octets[2 * i - 1] /\ v % OctetLimit = octets[2 * i]
    BY <2>2 DEF IsPair
  <2> QED
    BY <2>1, <2>2, <2>5, <2>6
<1>8. OctetsOf(gs) = FlattenSeq(seqs)
  <2>1. OctetsOf(gs) = FlattenSeq([k \in 1 .. l |-> GroupOctets(gs[k])])
    BY <1>4 DEF OctetsOf
  <2>2. [k \in 1 .. l |-> GroupOctets(gs[k])] = seqs
    BY <1>7
  <2> QED
    BY <2>1, <2>2
<1> HIDE DEF l, start
<1>9. \A k \in 1 .. l : pair(k) \in Seq(Octets)
  BY <1>7
<1> DEFINE V == Seq(Octets)
<1>10. seqs \in [1 .. l -> V]
  BY <1>9
<1>11. seqs \in Seq(V) /\ Len(seqs) = l
  <2> HIDE DEF seqs, V
  <2> QED
    BY <1>1, <1>10, SequenceIs
<1>12. \A k \in 1 .. l : seqs[k] = pair(k)
  OBVIOUS
<1> HIDE DEF seqs
<1>13. PICK list : IsFlattened(list, Octets, seqs)
  BY <1>11, FlattenSteps DEF V
<1>14. /\ list \in [0 .. l -> Seq(Octets)] /\ list[0] = <<>>
       /\ \A i \in 1 .. l : list[i] = list[i - 1] \o pair(i)
       /\ list[l] = FlattenSeq(seqs)
  BY <1>11, <1>12, <1>13 DEF IsFlattened
<1> DEFINE Upto(k) == Len(list[k]) = 2 * k /\ \A j \in 1 .. 2 * k : list[k][j] = octets[start + j]
           S == {k \in 0 .. l : Upto(k)}
<1>15. 0 \in S
  <2>1. Len(list[0]) = 0 /\ 0 \in 0 .. l /\ 2 * 0 = 0 /\ 1 .. 0 = {}
    BY <1>1, <1>14
  <2> QED
    BY <2>1
<1>16. ASSUME NEW k \in 0 .. l - 1, k \in S PROVE k + 1 \in S
  <2>1. k \in Nat /\ k \in 0 .. l /\ k + 1 \in 1 .. l /\ k + 1 \in 0 .. l /\ (k + 1) - 1 = k
    BY <1>1
  <2> DEFINE s == list[k]  a == octets[start + 2 * k + 1]  b == octets[start + 2 * k + 2]
  <2>2. s \in Seq(Octets) /\ Len(s) = 2 * k /\ \A j \in 1 .. 2 * k : s[j] = octets[start + j]
    BY <1>14, <1>16, <2>1
  <2>3. a \in Octets /\ b \in Octets /\ pair(k + 1) = <<a, b>>
    BY <1>7, <2>1
  <2>4. list[k + 1] = s \o <<a, b>>
    BY <1>14, <2>1, <2>3
  <2> HIDE DEF s
  <2>5. AreTwoMore(s \o <<a, b>>, k, octets, start)
    BY <1>1, <2>1, <2>2, <2>3, TwoMore
  <2> DEFINE t == s \o <<a, b>>
  <2>6. list[k + 1] = t /\ Len(t) = 2 * (k + 1) /\ \A j \in 1 .. 2 * (k + 1) : t[j] = octets[start + j]
    BY <2>4, <2>5 DEF AreTwoMore
  <2> HIDE DEF t
  <2>7. Upto(k + 1)
    BY <2>6
  <2> HIDE DEF Upto
  <2> QED
    BY <2>1, <2>7
<1>17. l \in S
  <2> HIDE DEF S
  <2>1. 0 .. l \subseteq S
    BY <1>1, <1>15, <1>16, InductUpTo
  <2>2. l \in 0 .. l
    BY <1>1
  <2> QED
    BY <2>1, <2>2
<1>18. Upto(l) /\ list[l] \in Seq(Octets)
  <2>1. l \in 0 .. l
    BY <1>1
  <2> QED
    BY <1>14, <1>17, <2>1
<1>19. AreOctetsBetween(OctetsOf(gs), octets, m, n)
  <2>1. OctetsOf(gs) = list[l]
    BY <1>8, <1>14
  <2> QED
    BY <1>18, <2>1 DEF AreOctetsBetween, l, start
<1> QED
  BY <1>6, <1>19 DEF gs, groups

-----------------------------------------------------------------------------
(* What is written for a group, before, in and behind the run. *)
IsRun(run) ==
  run.start \in 1 .. 8 /\ run.length \in 2 .. 8 /\ run.start + run.length <= 9

LEMMA NoRunIs == NoRun.start = 9 /\ NoRun.length = 0
BY DEF NoRun

LEMMA EmptyJoins == \A S : \A s \in Seq(S) : <<>> \in Seq(S) /\ <<>> \o s = s /\ s \o <<>> = s
OBVIOUS

LEMMA TextBefore ==
  ASSUME NEW groups \in GroupLists, NEW run, IsRun(run) \/ run = NoRun,
         NEW i \in 1 .. 8, i < run.start
  PROVE  GroupText(groups, run, i) =
           IF i = 1 THEN Numeral(groups[i], 16) ELSE <<":">> \o Numeral(groups[i], 16)
<1> DEFINE h == Numeral(groups[i], 16)  start == run.start  after == run.start + run.length
           mark == IF i \in {1, after} THEN <<>> ELSE <<":">>
<1>1. h \in Seq(GroupChars)
  BY GroupTextIs
<1>2. <<>> \o h = h
  BY <1>1, EmptyJoins
<1>3. start \in Nat /\ after \in Nat /\ start <= after /\ run.start + run.length - 1 = after - 1
  BY NoRunIs DEF IsRun
<1>4. GroupText(groups, run, i) =
        IF i = start THEN <<":", ":">>
        ELSE IF i \in start .. run.start + run.length - 1 THEN <<>>
        ELSE mark \o h
  BY DEF GroupText
<1>5. i # start /\ i \notin start .. run.start + run.length - 1 /\ i # after
  <2>1. i < start
    OBVIOUS
  <2> HIDE DEF start, after
  <2> QED
    BY <1>3, <2>1
<1>6. mark = IF i = 1 THEN <<>> ELSE <<":">>
  BY <1>5
<1> HIDE DEF h, start, after, mark
<1> QED
  BY <1>2, <1>4, <1>5, <1>6 DEF h

LEMMA TextInRun ==
  ASSUME NEW groups, NEW run, IsRun(run),
         NEW i \in run.start .. run.start + run.length - 1
  PROVE  GroupText(groups, run, i) = IF i = run.start THEN <<":", ":">> ELSE <<>>
BY DEF GroupText

LEMMA TextBehind ==
  ASSUME NEW groups \in GroupLists, NEW run, IsRun(run),
         NEW i \in 1 .. 8, i >= run.start + run.length
  PROVE  GroupText(groups, run, i) =
           IF i = run.start + run.length THEN Numeral(groups[i], 16)
           ELSE <<":">> \o Numeral(groups[i], 16)
<1> DEFINE h == Numeral(groups[i], 16)  start == run.start  after == run.start + run.length
           mark == IF i \in {1, after} THEN <<>> ELSE <<":">>
<1>1. h \in Seq(GroupChars)
  BY GroupTextIs
<1>2. <<>> \o h = h
  BY <1>1, EmptyJoins
<1>3. start \in Nat /\ after \in Nat /\ start >= 1 /\ start + 2 <= after /\ run.start + run.length - 1 = after - 1
  <2> DEFINE length == run.length
  <2>1. start \in 1 .. 8 /\ length \in 2 .. 8
    BY DEF IsRun
  <2>2. after = start + length /\ run.start + run.length - 1 = start + (length - 1)
    OBVIOUS
  <2> HIDE DEF start, length, after
  <2> QED
    BY <2>1, <2>2
<1>4. GroupText(groups, run, i) =
        IF i = start THEN <<":", ":">>
        ELSE IF i \in start .. run.start + run.length - 1 THEN <<>>
        ELSE mark \o h
  BY DEF GroupText
<1>5. i # start /\ i \notin start .. run.start + run.length - 1 /\ i # 1
  <2>1. i >= after
    OBVIOUS
  <2> HIDE DEF start, after
  <2> QED
    BY <1>3, <2>1
<1>6. mark = IF i = after THEN <<>> ELSE <<":">>
  BY <1>5
<1> HIDE DEF h, start, after, mark
<1> QED
  BY <1>2, <1>4, <1>5, <1>6 DEF h, after

(* Two colons. *)
LEMMA GapText == <<":", ":">> \in Seq(GroupChars) /\ <<":">> \in Seq(GroupChars)
BY GroupCharsAre

LEMMA GroupTextType ==
  ASSUME NEW groups \in GroupLists, NEW run, IsRun(run) \/ run = NoRun, NEW i \in 1 .. 8
  PROVE  GroupText(groups, run, i) \in Seq(GroupChars)
<1> DEFINE h == Numeral(groups[i], 16)
           mark == IF i \in {1, run.start + run.length} THEN <<>> ELSE <<":">>
<1>1. h \in Seq(GroupChars)
  BY GroupTextIs
<1>2. mark \in Seq(GroupChars) /\ <<>> \in Seq(GroupChars)
  BY GapText, EmptyJoins
<1>3. GroupText(groups, run, i) =
        IF i = run.start THEN <<":", ":">>
        ELSE IF i \in run.start .. run.start + run.length - 1 THEN <<>>
        ELSE mark \o h
  BY DEF GroupText
<1> HIDE DEF h, mark
<1>4. mark \o h \in Seq(GroupChars)
  BY <1>1, <1>2, JoinIs
<1> QED
  BY <1>2, <1>3, <1>4, GapText

(* The texts of the groups, joined from the first on. *)
IsSpelledList(list, groups, run) ==
  /\ list \in [0 .. 8 -> Seq(GroupChars)]
  /\ list[0] = <<>>
  /\ \A i \in 1 .. 8 : list[i] = list[i - 1] \o GroupText(groups, run, i)
  /\ list[8] = SpelledWithout(groups, run)

(* What has been written after each of the eight groups. *)
LEMMA SpelledList ==
  ASSUME NEW groups \in GroupLists, NEW run, IsRun(run) \/ run = NoRun
  PROVE  \E list : IsSpelledList(list, groups, run)
<1> DEFINE n == 8  V == Seq(GroupChars)  seqs == [i \in 1 .. n |-> GroupText(groups, run, i)]
<1>1. seqs \in [1 .. n -> V] /\ n \in Nat
  BY GroupTextType
<1>2. SpelledWithout(groups, run) = FlattenSeq(seqs) /\ \A i \in 1 .. n : seqs[i] = GroupText(groups, run, i)
  BY DEF SpelledWithout
<1> HIDE DEF seqs, V, n
<1>3. seqs \in Seq(V) /\ Len(seqs) = n
  BY <1>1, SequenceIs
<1>4. PICK list : IsFlattened(list, GroupChars, seqs)
  BY <1>3, FlattenSteps DEF V
<1>5. IsSpelledList(list, groups, run)
  BY <1>2, <1>3, <1>4 DEF IsFlattened, IsSpelledList, n
<1> QED
  BY <1>5

(* As far as the run the text spells the groups from the first on. *)
LEMMA SpelledBefore ==
  ASSUME NEW groups \in GroupLists, NEW run, IsRun(run) \/ run = NoRun,
         NEW list, IsSpelledList(list, groups, run)
  PROVE  IsSpelling(list[run.start - 1], groups, 1, run.start - 1)
<1> DEFINE n == run.start - 1
           S == {i \in 0 .. n : IsSpelling(list[i], groups, 1, i)}
<1>1. n \in 0 .. 8
  BY NoRunIs DEF IsRun
<1>2. 0 \in S
  <2>1. IsSpelling(<<>>, groups, 1, 1 - 1)
    BY SpellNone
  <2>2. list[0] = <<>> /\ 1 - 1 = 0
    BY DEF IsSpelledList
  <2>3. IsSpelling(list[0], groups, 1, 0)
    BY <2>1, <2>2
  <2> QED
    BY <1>1, <2>3
<1>3. \A i \in 1 .. 8 : i <= n => i < run.start
  BY NoRunIs DEF IsRun
<1> HIDE DEF n
<1>4. ASSUME NEW i \in 0 .. n - 1, i \in S PROVE i + 1 \in S
  <2>1. i \in Nat /\ i + 1 \in 1 .. 8 /\ i + 1 \in 0 .. n /\ i + 1 <= n /\ (i + 1) - 1 = i
    BY <1>1
  <2>2. IsSpelling(list[i], groups, 1, i)
    BY <1>4
  <2> DEFINE h == Numeral(groups[i + 1], 16)
  <2>3. list[i + 1] = list[i] \o GroupText(groups, run, i + 1)
    BY <2>1 DEF IsSpelledList
  <2>4. GroupText(groups, run, i + 1) = IF i + 1 = 1 THEN h ELSE <<":">> \o h
    BY <1>3, <2>1, TextBefore
  <2>5. h \in Seq(GroupChars)
    BY <2>1, GroupTextIs
  <2>6. CASE i = 0
    <3>1. i + 1 = 1
      BY <2>6
    <3>2. list[i] = <<>>
      BY <2>6 DEF IsSpelledList
    <3> HIDE DEF h
    <3>3. list[i + 1] = h
      BY <2>3, <2>4, <2>5, <3>1, <3>2, EmptyJoins
    <3>4. IsSpelling(Numeral(groups[1], 16), groups, 1, 1)
      BY SpellFirst
    <3>5. IsSpelling(list[i + 1], groups, 1, i + 1)
      BY <3>1, <3>3, <3>4 DEF h
    <3> QED
      BY <2>1, <3>5
  <2>7. CASE i # 0
    <3>1. i \in 1 .. 7 /\ i + 1 # 1
      BY <2>1, <2>7
    <3>2. IsSpelling(list[i] \o (<<":">> \o h), groups, 1, i + 1)
      BY <2>2, <3>1, SpellNext
    <3>3. list[i + 1] = list[i] \o (<<":">> \o h)
      BY <2>3, <2>4, <3>1
    <3> QED
      BY <2>1, <3>2, <3>3
  <2> QED
    BY <2>6, <2>7
<1>5. n \in S
  <2> HIDE DEF S
  <2>1. 0 .. n \subseteq S
    BY <1>1, <1>2, <1>4, InductUpTo
  <2> QED
    BY <1>1, <2>1
<1> QED
  BY <1>5 DEF n

-----------------------------------------------------------------------------
(* A run adds two colons, wherever it ends. *)
LEMMA SpelledRun ==
  ASSUME NEW groups \in GroupLists, NEW run, IsRun(run),
         NEW list, IsSpelledList(list, groups, run)
  PROVE  list[run.start + run.length - 1] = list[run.start - 1] \o <<":", ":">>
<1> DEFINE start == run.start  n == run.length - 1
           left == list[start - 1] \o <<":", ":">>
           S == {k \in 0 .. n : list[start + k] = left}
<1>1. /\ n \in 1 .. 7 /\ start \in 1 .. 8 /\ start + n <= 8
      /\ run.start + run.length - 1 = start + n
  <2> DEFINE length == run.length
  <2>1. start \in 1 .. 8 /\ length \in 2 .. 8 /\ start + length <= 9 /\ n = length - 1
    BY DEF IsRun
  <2> HIDE DEF start, length, n
  <2>2. n \in 1 .. 7 /\ start \in 1 .. 8 /\ start + n <= 8
    BY <2>1
  <2> QED
    BY <2>2 DEF start, n
<1>2. /\ list \in [0 .. 8 -> Seq(GroupChars)]
      /\ \A i \in 1 .. 8 : list[i] = list[i - 1] \o GroupText(groups, run, i)
  BY DEF IsSpelledList
<1>3. \A i \in start .. start + n : GroupText(groups, run, i) = IF i = start THEN <<":", ":">> ELSE <<>>
  BY <1>1, TextInRun
<1> HIDE DEF start, n
<1>4. left \in Seq(GroupChars)
  <2>1. list[start - 1] \in Seq(GroupChars)
    <3>1. start - 1 \in 0 .. 8
      BY <1>1
    <3> QED
      BY <1>2, <3>1
  <2> QED
    BY <2>1, GapText, JoinIs
<1>5. 0 \in S
  <2>1. start + 0 = start /\ start \in 1 .. 8 /\ start \in start .. start + n /\ 0 \in 0 .. n
    BY <1>1
  <2>2. list[start] = left
    BY <1>2, <1>3, <2>1
  <2> QED
    BY <2>1, <2>2
<1> HIDE DEF left
<1>6. ASSUME NEW k \in 0 .. n - 1, k \in S PROVE k + 1 \in S
  <2>1. /\ start + (k + 1) \in 1 .. 8 /\ start + (k + 1) - 1 = start + k /\ k + 1 \in 0 .. n
        /\ start + (k + 1) \in start .. start + n /\ start + (k + 1) # start
    BY <1>1
  <2>2. list[start + k] = left
    BY <1>6
  <2> DEFINE i == start + (k + 1)
  <2>3. GroupText(groups, run, i) = <<>>
    BY <1>3, <2>1
  <2>4. list[i] = list[start + k] \o <<>>
    <3>1. i - 1 = start + k /\ i \in 1 .. 8
      BY <1>1, <2>1
    <3> HIDE DEF i
    <3> QED
      BY <1>2, <2>3, <3>1
  <2> HIDE DEF i
  <2>5. list[i] = left
    BY <1>4, <2>2, <2>4, EmptyJoins
  <2> QED
    BY <2>1, <2>5 DEF i
<1>7. n \in S
  <2> HIDE DEF S
  <2>1. 0 .. n \subseteq S /\ n \in 0 .. n
    BY <1>1, <1>5, <1>6, InductUpTo
  <2> QED
    BY <2>1
<1>8. list[start + n] = left
  BY <1>7
<1> QED
  BY <1>1, <1>8 DEF left, start

(* Behind the run the text spells the groups from there on. *)
SpelledBehind(text, left, groups, m, n) ==
  \E right : text = left \o right /\ IsSpelling(right, groups, m, n)

(* Behind the run, the remaining groups follow with single colons between them. *)
LEMMA SpelledRest ==
  ASSUME NEW groups \in GroupLists, NEW run, IsRun(run),
         NEW list, IsSpelledList(list, groups, run)
  PROVE  SpelledBehind(list[8], list[run.start + run.length - 1], groups, run.start + run.length, 8)
<1> DEFINE m == run.start + run.length  n == 9 - m
           left == list[m - 1]
           S == {k \in 0 .. n : SpelledBehind(list[m - 1 + k], left, groups, m, m - 1 + k)}
<1>1. m \in 3 .. 9 /\ n \in 0 .. 6 /\ run.start + run.length - 1 = m - 1
  <2> DEFINE start == run.start  length == run.length
  <2>1. start \in 1 .. 8 /\ length \in 2 .. 8 /\ start + length <= 9 /\ m = start + length
    BY DEF IsRun
  <2>2. run.start + run.length - 1 = start + (length - 1)
    OBVIOUS
  <2> HIDE DEF start, length, m
  <2> QED
    BY <2>1, <2>2
<1>2. /\ list \in [0 .. 8 -> Seq(GroupChars)]
      /\ \A i \in 1 .. 8 : list[i] = list[i - 1] \o GroupText(groups, run, i)
  BY DEF IsSpelledList
<1>3. \A i \in m .. 8 : GroupText(groups, run, i) = IF i = m THEN Numeral(groups[i], 16)
                                                    ELSE <<":">> \o Numeral(groups[i], 16)
  <2> TAKE i \in m .. 8
  <2>1. i \in 1 .. 8 /\ i >= run.start + run.length
    BY <1>1
  <2> QED
    BY <2>1, TextBehind
<1> HIDE DEF m
<1>4. left \in Seq(GroupChars)
  <2>1. m - 1 \in 0 .. 8
    BY <1>1
  <2> QED
    BY <1>2, <2>1
<1> HIDE DEF left
<1>5. 0 \in S
  <2>1. m - 1 + 0 = m - 1 /\ 0 \in 0 .. n /\ m \in 1 .. 9
    BY <1>1
  <2>2. IsSpelling(<<>>, groups, m, m - 1)
    BY <2>1, SpellNone
  <2>3. list[m - 1] = left \o <<>>
    BY <1>4, EmptyJoins DEF left
  <2>4. SpelledBehind(list[m - 1 + 0], left, groups, m, m - 1 + 0)
    BY <2>1, <2>2, <2>3 DEF SpelledBehind
  <2> QED
    BY <2>1, <2>4
<1>6. ASSUME NEW k \in 0 .. n - 1, k \in S PROVE k + 1 \in S
  <2> DEFINE j == m - 1 + k  h == Numeral(groups[j + 1], 16)  c == <<":">>
  <2>1. /\ j + 1 = m - 1 + (k + 1) /\ k + 1 \in 0 .. n /\ j \in 2 .. 7
        /\ j + 1 \in 1 .. 8 /\ j + 1 \in m .. 8 /\ (j + 1) - 1 = j /\ m \in 1 .. 8
        /\ (k = 0 => j = m - 1 /\ j + 1 = m) /\ (k # 0 => j \in m .. 7 /\ j + 1 # m)
    BY <1>1
  <2>2. PICK right : list[j] = left \o right /\ IsSpelling(right, groups, m, j)
    BY <1>6 DEF SpelledBehind
  <2>3. right \in Seq(GroupChars)
    BY <2>2 DEF IsSpelling
  <2> HIDE DEF j
  <2>4. list[j + 1] = list[j] \o GroupText(groups, run, j + 1)
    BY <1>2, <2>1
  <2>5. GroupText(groups, run, j + 1) = IF j + 1 = m THEN h ELSE c \o h
    BY <1>3, <2>1
  <2>6. h \in Seq(GroupChars) /\ c \in Seq(GroupChars)
    BY <2>1, GroupTextIs, GapText
  <2> DEFINE more == GroupText(groups, run, j + 1)
  <2>7. more \in Seq(GroupChars)
    <3> HIDE DEF h, c
    <3>1. c \o h \in Seq(GroupChars)
      BY <2>6, JoinIs
    <3> QED
      BY <2>5, <2>6, <3>1
  <2>8. list[j + 1] = left \o (right \o more)
    <3> HIDE DEF more
    <3>1. (left \o right) \o more = left \o (right \o more)
      <4>1. Associate(left, right, more)
        BY <1>4, <2>3, <2>7, JoinAssociates
      <4> QED
        BY <4>1 DEF Associate
    <3> QED
      BY <2>2, <2>4, <3>1 DEF more
  <2>9. IsSpelling(right \o more, groups, m, j + 1)
    <3>1. CASE k = 0
      <4>1. right = <<>>
        BY <2>1, <2>2, <3>1 DEF IsSpelling
      <4>2. more = h /\ h = Numeral(groups[m], 16)
        BY <2>1, <2>5, <3>1
      <4>3. IsSpelling(h, groups, m, m)
        BY <2>1, <4>2, SpellFirst
      <4> HIDE DEF h, more
      <4>4. right \o more = h
        BY <2>6, <4>1, <4>2, EmptyJoins
      <4> QED
        BY <2>1, <3>1, <4>3, <4>4
    <3>2. CASE k # 0
      <4>1. more = c \o h
        BY <2>1, <2>5, <3>2
      <4>2. IsSpelling(right \o (c \o h), groups, m, j + 1)
        BY <2>1, <2>2, <3>2, SpellNext
      <4> QED
        BY <4>1, <4>2
    <3> QED
      BY <3>1, <3>2
  <2> HIDE DEF more
  <2>10. SpelledBehind(list[j + 1], left, groups, m, j + 1)
    BY <2>8, <2>9 DEF SpelledBehind
  <2> QED
    BY <2>1, <2>10
<1>7. n \in S
  <2> HIDE DEF S
  <2>1. n \in Nat /\ n \in 0 .. n
    BY <1>1
  <2> HIDE DEF n
  <2>2. 0 .. n \subseteq S
    BY <1>5, <1>6, <2>1, InductUpTo
  <2> QED
    BY <2>1, <2>2
<1>8. m - 1 + n = 8
  BY <1>1
<1>9. SpelledBehind(list[8], left, groups, m, 8)
  <2>1. SpelledBehind(list[m - 1 + n], left, groups, m, m - 1 + n)
    BY <1>7
  <2> QED
    BY <1>8, <2>1
<1> QED
  BY <1>1, <1>9 DEF left, m

-----------------------------------------------------------------------------
(* The text is cut where the run was left out. *)
IsCutAtGap(t, left, right) ==
  /\ Gaps(t) # {} /\ Min(Gaps(t)) = Len(left) + 1
  /\ SubSeq(t, 1, Min(Gaps(t)) - 1) = left
  /\ SubSeq(t, Min(Gaps(t)) + 2, Len(t)) = right

(* The text on the left has no two colons, so those in between come first. *)
LEMMA CutAtGap ==
  ASSUME NEW C, ":" \in C, NEW left \in Seq(C), NEW right \in Seq(C), Gaps(left) = {},
         Len(left) > 0 => left[Len(left)] # ":"
  PROVE  IsCutAtGap((left \o <<":", ":">>) \o right, left, right)
<1> DEFINE cc == <<":", ":">>  u == left \o cc  t == u \o right  l == Len(left)  r == Len(right)
           gap == Min(Gaps(t))
<1>1. cc \in Seq(C) /\ Len(cc) = 2 /\ cc[1] = ":" /\ cc[2] = ":"
  OBVIOUS
<1> HIDE DEF cc
<1>2. IsJoin(u, C, left, cc)
  BY <1>1, Joined
<1>3. u \in Seq(C)
  BY <1>2 DEF IsJoin
<1> HIDE DEF u
<1>4. IsJoin(t, C, u, right)
  BY <1>3, Joined
<1> HIDE DEF t
<1>5. l \in Nat /\ r \in Nat /\ Len(u) = l + 2 /\ Len(t) = l + 2 + r /\ t \in Seq(C)
  BY <1>1, <1>2, <1>4 DEF IsJoin
<1>6. /\ \A i \in 1 .. l : u[i] = left[i]
      /\ \A i \in 1 .. 2 : u[l + i] = cc[i]
      /\ \A i \in 1 .. l + 2 : t[i] = u[i]
      /\ \A i \in 1 .. r : t[l + 2 + i] = right[i]
  BY <1>1, <1>2, <1>4, <1>5 DEF IsJoin
<1>7. /\ \A i \in 1 .. l - 1 : ~(left[i] = ":" /\ left[i + 1] = ":")
      /\ l > 0 => left[l] # ":"
  BY GapsUnfold
<1> HIDE DEF l, r
<1>8. t[l + 1] = ":" /\ t[l + 2] = ":"
  <2>1. l + 1 \in 1 .. l + 2 /\ l + 2 \in 1 .. l + 2 /\ 1 \in 1 .. 2 /\ 2 \in 1 .. 2
    BY <1>5
  <2>2. t[l + 1] = u[l + 1] /\ t[l + 2] = u[l + 2]
    BY <1>6, <2>1
  <2>3. u[l + 1] = cc[1] /\ u[l + 2] = cc[2]
    BY <1>6, <2>1
  <2> QED
    BY <1>1, <2>2, <2>3
<1>9. \A i \in 1 .. l : t[i] = left[i]
  <2> TAKE i \in 1 .. l
  <2>1. i \in 1 .. l + 2
    BY <1>5
  <2> QED
    BY <1>6, <2>1
<1>10. Gaps(t) = {i \in 1 .. Len(t) - 1 : t[i] = ":" /\ t[i + 1] = ":"}
  BY DEF Gaps
<1>11. l + 1 \in Gaps(t) /\ Gaps(t) \in SUBSET Nat
  <2>1. l + 1 \in 1 .. Len(t) - 1 /\ (l + 1) + 1 = l + 2 /\ 1 .. Len(t) - 1 \subseteq Nat
    BY <1>5
  <2> QED
    BY <1>8, <1>10, <2>1
<1>12. gap \in Gaps(t) /\ \A i \in Gaps(t) : gap <= i
  BY <1>11, MinIsIn
<1> HIDE DEF gap
<1>13. gap \in Nat /\ gap >= 1 /\ t[gap] = ":" /\ t[gap + 1] = ":" /\ gap <= l + 1
  <2>1. gap \in 1 .. Len(t) - 1 /\ t[gap] = ":" /\ t[gap + 1] = ":"
    BY <1>10, <1>12
  <2>2. gap \in Nat /\ gap >= 1
    BY <1>5, <2>1
  <2> QED
    BY <1>11, <1>12, <2>1, <2>2
<1>14. ~(gap < l)
  <2> SUFFICES ASSUME gap < l PROVE FALSE
    OBVIOUS
  <2>1. gap \in 1 .. l /\ gap + 1 \in 1 .. l /\ gap \in 1 .. l - 1
    BY <1>5, <1>13
  <2>2. left[gap] = ":" /\ left[gap + 1] = ":"
    BY <1>9, <1>13, <2>1
  <2> QED
    BY <1>7, <2>1, <2>2
<1>15. gap # l
  <2> SUFFICES ASSUME gap = l PROVE FALSE
    OBVIOUS
  <2>1. l \in 1 .. l /\ l > 0
    BY <1>5, <1>13
  <2>2. left[l] = ":"
    BY <1>9, <1>13, <2>1
  <2> QED
    BY <1>7, <2>1, <2>2
<1>16. gap = l + 1
  BY <1>5, <1>13, <1>14, <1>15
<1>17. gap - 1 = l /\ gap + 2 = l + 3
  BY <1>5, <1>16
<1>18. SubSeq(t, 1, l) = left
  <2>1. 1 \in 1 .. Len(t) + 1 /\ l \in 1 - 1 .. Len(t) /\ l - 1 + 1 = l
    BY <1>5
  <2> DEFINE v == SubSeq(t, 1, l)
  <2>2. v \in Seq(C) /\ Len(v) = l - 1 + 1 /\ \A i \in 1 .. l - 1 + 1 : v[i] = t[1 + i - 1]
    BY <1>5, <2>1, PartOfText
  <2> HIDE DEF v
  <2>3. \A i \in 1 .. l : v[i] = left[i]
    <3> TAKE i \in 1 .. l
    <3>1. 1 + i - 1 = i
      BY <1>5
    <3> QED
      BY <1>9, <2>1, <2>2, <3>1
  <2>4. Len(v) = l
    BY <2>1, <2>2
  <2> QED
    BY <2>2, <2>3, <2>4, SeqEqual DEF v, l
<1>19. SubSeq(t, l + 3, Len(t)) = right
  <2> DEFINE n == Len(t)  m == l + 3
  <2>1. m \in 1 .. n + 1 /\ n \in m - 1 .. n /\ n - m + 1 = r
    BY <1>5
  <2> DEFINE v == SubSeq(t, m, n)
  <2>2. v \in Seq(C) /\ Len(v) = n - m + 1 /\ \A i \in 1 .. n - m + 1 : v[i] = t[m + i - 1]
    BY <1>5, <2>1, PartOfText
  <2> HIDE DEF v
  <2>3. \A i \in 1 .. r : v[i] = right[i]
    <3> TAKE i \in 1 .. r
    <3>1. m + i - 1 = l + 2 + i
      BY <1>5
    <3> QED
      BY <1>6, <2>1, <2>2, <3>1
  <2>4. Len(v) = r
    BY <2>1, <2>2
  <2> QED
    BY <2>2, <2>3, <2>4, SeqEqual DEF v, r
<1>20. IsCutAtGap(t, left, right)
  <2>1. Gaps(t) # {} /\ gap = Min(Gaps(t))
    BY <1>11 DEF gap
  <2> HIDE DEF gap
  <2> QED
    BY <1>16, <1>17, <1>18, <1>19, <2>1 DEF IsCutAtGap, l
<1> QED
  BY <1>20 DEF t, u, cc

-----------------------------------------------------------------------------
(* The octets on both sides of the gap, and zeros between them. *)
PutTogether(a, size, c) == a \o [i \in 1 .. size |-> 0] \o c

IsPiece(o, octets, begin, size) ==
  o \in Seq(Octets) /\ Len(o) = size /\ \A j \in 1 .. size : o[j] = octets[begin + j]
AreZeros(octets, begin, size) == \A j \in 1 .. size : octets[begin + j] = 0

(* Octets that are zero between two pieces are these pieces and zeros. *)
LEMMA SidesAndZeros ==
  ASSUME NEW octets \in Seq(Octets), NEW n \in Nat, NEW size \in Nat, NEW r \in Nat,
         Len(octets) = n + size + r,
         NEW a, IsPiece(a, octets, 0, n), AreZeros(octets, n, size),
         NEW c, IsPiece(c, octets, n + size, r)
  PROVE  PutTogether(a, size, c) = octets
<1> DEFINE total == n + size + r
<1>0. /\ a \in Seq(Octets) /\ Len(a) = n /\ \A j \in 1 .. n : a[j] = octets[j]
      /\ c \in Seq(Octets) /\ Len(c) = r /\ \A j \in 1 .. r : c[j] = octets[n + size + j]
      /\ \A j \in 1 .. size : octets[n + j] = 0
  <2>1. \A j \in 1 .. n : 0 + j = j
    OBVIOUS
  <2> QED
    BY <2>1 DEF IsPiece, AreZeros
<1> DEFINE V == Octets  b == [i \in 1 .. size |-> 0]  d == a \o b  e == d \o c
<1>1. b \in [1 .. size -> V] /\ \A i \in 1 .. size : b[i] = 0
  BY OctetsAreNumbers
<1> HIDE DEF b, V
<1>2. b \in Seq(V) /\ Len(b) = size
  BY <1>1, SequenceIs
<1>3. a \in Seq(V) /\ c \in Seq(V) /\ octets \in Seq(V)
  BY <1>0 DEF V
<1>4. IsJoin(d, V, a, b)
  BY <1>2, <1>3, Joined
<1>5. d \in Seq(V)
  BY <1>4 DEF IsJoin
<1> HIDE DEF d
<1>6. IsJoin(e, V, d, c)
  BY <1>3, <1>5, Joined
<1> HIDE DEF e
<1>7. Len(d) = n + size /\ e \in Seq(V) /\ Len(e) = n + size + r
  BY <1>0, <1>2, <1>4, <1>6 DEF IsJoin
<1>8. /\ \A j \in 1 .. n : d[j] = a[j]
      /\ \A j \in 1 .. size : d[n + j] = b[j]
      /\ \A j \in 1 .. n + size : e[j] = d[j]
      /\ \A j \in 1 .. r : e[n + size + j] = c[j]
  BY <1>0, <1>2, <1>4, <1>6, <1>7 DEF IsJoin
<1>9. \A j \in 1 .. total : e[j] = octets[j]
  <2> TAKE j \in 1 .. total
  <2>1. CASE j <= n
    <3>1. j \in 1 .. n /\ j \in 1 .. n + size
      BY <2>1
    <3> QED
      BY <1>0, <1>8, <3>1
  <2>2. CASE n < j /\ j <= n + size
    <3> DEFINE k == j - n
    <3>1. k \in 1 .. size /\ j \in 1 .. n + size /\ j = n + k
      BY <2>2
    <3> HIDE DEF k
    <3>2. e[j] = d[j] /\ d[n + k] = b[k] /\ b[k] = 0 /\ octets[n + k] = 0
      BY <1>0, <1>1, <1>8, <3>1
    <3> QED
      BY <3>1, <3>2
  <2>3. CASE n + size < j
    <3> DEFINE k == j - (n + size)
    <3>1. k \in 1 .. r /\ j = n + size + k
      BY <2>3
    <3> HIDE DEF k
    <3>2. e[n + size + k] = c[k] /\ c[k] = octets[n + size + k]
      BY <1>0, <1>8, <3>1
    <3> QED
      BY <3>1, <3>2
  <2> QED
    BY <2>1, <2>2, <2>3
<1>10. Len(e) = Len(octets) /\ \A j \in 1 .. Len(e) : e[j] = octets[j]
  BY <1>7, <1>9
<1>11. e = octets
  BY <1>3, <1>7, <1>10, SeqEqual
<1> QED
  BY <1>11 DEF PutTogether, e, d, b

(* An address is read back from every text that leaves out one of its runs *)
(* or none.                                                                *)
IsAddressGroups(t, octets) ==
  t \in Seq(GroupChars) /\ t # <<>> /\ Has(t, ":") /\ Ipv6Octets(t) = octets

(* A spelling that leaves nothing out is read as the address. *)
LEMMA WholeAgain ==
  ASSUME NEW octets \in Seq(Octets), Len(octets) = 16
  PROVE  IsAddressGroups(SpelledWithout(GroupsOf(octets), NoRun), octets)
<1> DEFINE groups == GroupsOf(octets)  t == SpelledWithout(groups, NoRun)
           gs == GroupTexts(groups, 1, 8)  o == OctetsOf(gs)
<1>1. groups \in GroupLists
  BY PairsOfOctets
<1> HIDE DEF groups
<1>2. PICK list : IsSpelledList(list, groups, NoRun)
  BY <1>1, SpelledList
<1>3. IsSpelling(t, groups, 1, 8)
  <2>1. IsSpelling(list[NoRun.start - 1], groups, 1, NoRun.start - 1)
    BY <1>1, <1>2, SpelledBefore
  <2>2. NoRun.start - 1 = 8
    BY NoRunIs
  <2>3. list[8] = t
    BY <1>2 DEF IsSpelledList
  <2> QED
    BY <2>1, <2>2, <2>3
<1> HIDE DEF t
<1>4. t \in Seq(GroupChars) /\ Groups(t) = gs /\ Gaps(t) = {} /\ Len(t) > 0
  <2>1. 8 >= 1
    OBVIOUS
  <2> QED
    BY <1>3, <2>1 DEF IsSpelling
<1>5. t # <<>>
  BY <1>4
<1>6. /\ AreOctetsBetween(o, octets, 1, 8) /\ ValidGroups(gs, TRUE)
  <2>1. 1 \in 1 .. 9 /\ 8 \in 1 - 1 .. 8
    OBVIOUS
  <2> QED
    BY <2>1, OctetsOfTexts DEF groups
<1>7. DOMAIN gs = 1 .. 8
  <2>1. 8 - 1 + 1 = 8
    OBVIOUS
  <2> QED
    BY <2>1 DEF GroupTexts
<1> HIDE DEF gs, o
<1>8. o = octets
  <2>1. o \in Seq(Octets) /\ Len(o) = 16 /\ \A j \in 1 .. 16 : o[j] = octets[j]
    <3>1. 2 * (8 - 1 + 1) = 16 /\ \A j \in 1 .. 16 : 2 * (1 - 1) + j = j
      OBVIOUS
    <3> QED
      BY <1>6, <3>1 DEF AreOctetsBetween
  <2> QED
    BY <2>1, SeqEqual
<1>9. Ipv6Octets(t) = octets
  <2>1. Ipv6Octets(t) = IF ValidGroups(gs, TRUE) /\ Len(o) = 16 THEN o ELSE None
    BY <1>4 DEF Ipv6Octets, o
  <2> QED
    BY <1>6, <1>8, <2>1
<1>10. Has(t, ":")
  <2> SUFFICES ASSUME ~Has(t, ":") PROVE FALSE
    OBVIOUS
  <2>1. Split(t, ":") = <<t>>
    BY <1>4, SplitWhole
  <2>2. gs = <<t>>
    BY <1>4, <1>5, <2>1 DEF Groups
  <2>3. DOMAIN <<t>> = 1 .. 1
    OBVIOUS
  <2>4. 8 \in 1 .. 8 /\ 8 \notin 1 .. 1
    OBVIOUS
  <2> QED
    BY <1>7, <2>2, <2>3, <2>4
<1> QED
  BY <1>4, <1>5, <1>9, <1>10 DEF IsAddressGroups, t, groups

(* A spelling that leaves out a run of zeros is read as the address. *)
LEMMA RunAgain ==
  ASSUME NEW octets \in Seq(Octets), Len(octets) = 16, NEW run, IsRun(run),
         \A i \in run.start .. run.start + run.length - 1 : GroupsOf(octets)[i] = 0
  PROVE  IsAddressGroups(SpelledWithout(GroupsOf(octets), run), octets)
<1> DEFINE groups == GroupsOf(octets)  t == SpelledWithout(groups, run)
           start == run.start  length == run.length  after == run.start + run.length
           gs == GroupTexts(groups, 1, start - 1)  hs == GroupTexts(groups, after, 8)
           a == OctetsOf(gs)  c == OctetsOf(hs)
<1>1. groups \in GroupLists
  BY PairsOfOctets
<1>2. /\ start \in 1 .. 8 /\ length \in 2 .. 8 /\ after = start + length /\ after <= 9
      /\ run.start + run.length - 1 = start + (length - 1)
  BY DEF IsRun
<1>3. \A i \in start .. start + (length - 1) : groups[i] = 0
  BY <1>2
<1> HIDE DEF groups
<1>4. PICK list : IsSpelledList(list, groups, run)
  BY <1>1, SpelledList
<1> DEFINE left == list[start - 1]  cc == <<":", ":">>
<1>5. IsSpelling(left, groups, 1, start - 1)
  BY <1>1, <1>4, SpelledBefore
<1>6. list[run.start + run.length - 1] = left \o cc
  BY <1>1, <1>4, SpelledRun
<1>7. PICK right : list[8] = list[run.start + run.length - 1] \o right /\ IsSpelling(right, groups, after, 8)
  BY <1>1, <1>4, SpelledRest DEF SpelledBehind
<1>8. t = (left \o cc) \o right
  <2>1. t = list[8]
    BY <1>4 DEF IsSpelledList
  <2> QED
    BY <1>6, <1>7, <2>1
<1> HIDE DEF left, start, length, after
<1>9. /\ left \in Seq(GroupChars) /\ Groups(left) = gs /\ Gaps(left) = {}
      /\ Len(left) > 0 => left[Len(left)] # ":"
  <2>1. start - 1 >= 1 \/ start - 1 < 1
    BY <1>2
  <2>2. <<>> \in Seq(GroupChars) /\ Len(<<>>) = 0
    OBVIOUS
  <2> QED
    BY <1>5, <2>1, <2>2 DEF IsSpelling
<1>10. right \in Seq(GroupChars) /\ Groups(right) = hs
  BY <1>7 DEF IsSpelling
<1>11. IsCutAtGap(t, left, right)
  <2>1. ":" \in GroupChars
    BY GroupCharsAre
  <2> QED
    BY <1>8, <1>9, <1>10, <2>1, CutAtGap
<1>12. t \in Seq(GroupChars)
  <2> DEFINE u == left \o cc
  <2>1. u \in Seq(GroupChars)
    <3> HIDE DEF cc
    <3>1. cc \in Seq(GroupChars)
      BY GapText DEF cc
    <3> QED
      BY <1>9, <3>1, JoinIs
  <2> HIDE DEF u
  <2> QED
    BY <1>8, <1>10, <2>1, JoinIs DEF u
<1> HIDE DEF t
<1>13. /\ AreOctetsBetween(a, octets, 1, start - 1) /\ ValidGroups(gs, FALSE)
       /\ AreOctetsBetween(c, octets, after, 8) /\ ValidGroups(hs, TRUE)
  <2>1. 1 \in 1 .. 9 /\ start - 1 \in 1 - 1 .. 8 /\ after \in 1 .. 9 /\ 8 \in after - 1 .. 8
    BY <1>2
  <2> QED
    BY <2>1, OctetsOfTexts DEF groups
<1> HIDE DEF gs, hs, a, c
<1> DEFINE missing == 16 - Len(a) - Len(c)  n == 2 * (start - 1)  size == 2 * length  r == 2 * (9 - after)
<1>14. /\ n \in Nat /\ size \in Nat /\ r \in Nat /\ n + size + r = 16 /\ size > 0
       /\ 2 * (start - 1 - 1 + 1) = n /\ 2 * (8 - after + 1) = r
       /\ (\A j \in 1 .. n : 2 * (1 - 1) + j = j) /\ 2 * (after - 1) = n + size
  BY <1>2
<1>15. IsPiece(a, octets, 0, n) /\ Len(a) = n
  <2>1. /\ a \in Seq(Octets) /\ Len(a) = n /\ \A j \in 1 .. n : a[j] = octets[j]
    BY <1>13, <1>14 DEF AreOctetsBetween
  <2>2. \A j \in 1 .. n : 0 + j = j
    OBVIOUS
  <2> QED
    BY <2>1, <2>2 DEF IsPiece
<1>16. IsPiece(c, octets, n + size, r) /\ Len(c) = r
  BY <1>13, <1>14 DEF AreOctetsBetween, IsPiece
<1>17. missing = size
  <2> HIDE DEF n, size, r
  <2> QED
    BY <1>14, <1>15, <1>16
<1>18. \A j \in 1 .. size : octets[n + j] = 0
  <2> TAKE j \in 1 .. size
  <2> DEFINE k == (j - 1) \div 2  i == start + k
  <2>1. k \in 0 .. length - 1 /\ (j = 2 * k + 1 \/ j = 2 * k + 2)
    BY <1>2
  <2> HIDE DEF k
  <2>2. /\ i \in 1 .. 8 /\ i \in start .. start + (length - 1)
        /\ n + j = 2 * i - 1 \/ n + j = 2 * i
    BY <1>2, <2>1
  <2>3. groups[i] = 0 /\ IsPair(groups[i], octets[2 * i - 1], octets[2 * i])
    BY <1>3, <2>2, PairsOfOctets DEF groups
  <2>4. octets[2 * i - 1] = 0 /\ octets[2 * i] = 0
    BY <2>3 DEF IsPair
  <2> HIDE DEF i, n
  <2> QED
    BY <2>2, <2>4
<1>19. PutTogether(a, missing, c) = octets
  <2> HIDE DEF n, size, r, missing
  <2>1. AreZeros(octets, n, size) /\ Len(octets) = n + size + r
    BY <1>14, <1>18 DEF AreZeros
  <2>2. PutTogether(a, size, c) = octets
    BY <1>14, <1>15, <1>16, <2>1, SidesAndZeros
  <2> QED
    BY <1>17, <2>2
<1>20. Ipv6Octets(t) = octets
  <2> DEFINE gap == Min(Gaps(t))
  <2>1. Gaps(t) # {} /\ SubSeq(t, 1, gap - 1) = left /\ SubSeq(t, gap + 2, Len(t)) = right
    BY <1>11 DEF IsCutAtGap
  <2>2. ~(missing <= 0)
    BY <1>14, <1>17
  <2>3. Ipv6Octets(t) = IF ~ValidGroups(gs, FALSE) \/ ~ValidGroups(hs, TRUE) THEN None
                        ELSE IF missing <= 0 THEN None ELSE PutTogether(a, missing, c)
    BY <1>9, <1>10, <2>1 DEF Ipv6Octets, PutTogether, a, c
  <2> HIDE DEF missing
  <2> QED
    BY <1>13, <1>19, <2>2, <2>3
<1>21. Has(t, ":") /\ t # <<>>
  <2>1. PICK i \in 1 .. Len(t) - 1 : t[i] = ":"
    BY <1>11 DEF IsCutAtGap, Gaps
  <2>2. i \in DOMAIN t
    BY <1>12, <2>1
  <2>3. Has(t, ":")
    BY <2>1, <2>2 DEF Has, ToSet
  <2> QED
    BY <2>2, <2>3
<1> QED
  BY <1>12, <1>20, <1>21 DEF IsAddressGroups, t, groups

-----------------------------------------------------------------------------
(* The longest run is one of the runs, or there is none. *)
IsLongest(r, groups) ==
  /\ r \in ZeroRuns(groups) \cup {NoRun}
  /\ \A q \in ZeroRuns(groups) \cup {NoRun} :
       q.length < r.length \/ (q.length = r.length /\ r.start <= q.start)

(* LongestRun yields the first of the longest runs, or NoRun. *)
LEMMA LongestRunIs ==
  ASSUME NEW groups
  PROVE  IsLongest(LongestRun(groups), groups)
<1> DEFINE runs == ZeroRuns(groups) \cup {NoRun}
           Best(r) == \A q \in runs : q.length < r.length \/ (q.length = r.length /\ r.start <= q.start)
           key(r) == (8 - r.length) * 16 + r.start
           keys == {key(r) : r \in runs}
<1>1. LongestRun(groups) = CHOOSE r \in runs : Best(r)
  BY DEF LongestRun
<1>2. \A r \in runs : r.start \in 1 .. 9 /\ r.length \in 0 .. 8
  BY NoRunIs DEF ZeroRuns
<1>3. NoRun \in runs
  OBVIOUS
<1> HIDE DEF runs
<1>4. \A r \in runs : key(r) \in Nat
  BY <1>2
<1>5. keys \in SUBSET Nat /\ keys # {}
  BY <1>3, <1>4
<1>6. Min(keys) \in keys /\ \A k \in keys : Min(keys) <= k
  BY <1>5, MinIsIn
<1>7. PICK r \in runs : \A q \in runs : key(r) <= key(q)
  BY <1>6
<1>8. \A q \in runs : q.length < r.length \/ (q.length = r.length /\ r.start <= q.start)
  <2> TAKE q \in runs
  <2> DEFINE a == r.start  b == r.length  c == q.start  d == q.length
  <2>1. a \in 1 .. 9 /\ b \in 0 .. 8 /\ c \in 1 .. 9 /\ d \in 0 .. 8
    BY <1>2
  <2>2. (8 - b) * 16 + a <= (8 - d) * 16 + c
    BY <1>7
  <2> HIDE DEF a, b, c, d
  <2>3. d < b \/ (d = b /\ a <= c)
    BY <2>1, <2>2
  <2> QED
    BY <2>3 DEF a, b, c, d
<1>9. Best(r)
  BY <1>8
<1> HIDE DEF Best
<1>10. LongestRun(groups) \in runs /\ Best(LongestRun(groups))
  BY <1>1, <1>7, <1>9
<1> QED
  BY <1>10 DEF IsLongest, Best, runs

(* Every run LongestRun chooses from is a run of at least two zero groups. *)
LEMMA RunsAreRuns ==
  ASSUME NEW groups, NEW run \in ZeroRuns(groups)
  PROVE  IsRun(run) /\ \A i \in run.start .. run.start + run.length - 1 : groups[i] = 0
BY DEF ZeroRuns, IsRun

(* Every spelling of an IPv6 address means the address. *)
LEMMA SpellingsAgain ==
  ASSUME NEW octets \in Seq(Octets), Len(octets) = 16,
         NEW run \in ZeroRuns(GroupsOf(octets)) \cup {NoRun}
  PROVE  IsAddressGroups(SpelledWithout(GroupsOf(octets), run), octets)
<1>1. CASE run \in ZeroRuns(GroupsOf(octets))
  <2>1. IsRun(run) /\ \A i \in run.start .. run.start + run.length - 1 : GroupsOf(octets)[i] = 0
    BY <1>1, RunsAreRuns
  <2> QED
    BY <2>1, RunAgain
<1>2. CASE run = NoRun
  BY <1>2, WholeAgain
<1> QED
  BY <1>1, <1>2

(* Sixteen octets written as RFC 5952 wants are read as the same octets. *)
LEMMA Ipv6Again ==
  ASSUME NEW octets \in Seq(Octets), Len(octets) = 16
  PROVE  IsAddressText(FormatAddress(octets), octets)
<1> DEFINE t == FormatAddress(octets)  groups == GroupsOf(octets)
<1>1. t = SpelledWithout(groups, LongestRun(groups))
  <2>1. t = FormatIpv6(octets)
    BY DEF FormatAddress
  <2> QED
    BY <2>1 DEF FormatIpv6, SpelledWithout
<1>2. IsAddressGroups(t, octets)
  BY <1>1, LongestRunIs, SpellingsAgain DEF IsLongest
<1> HIDE DEF t, groups
<1>3. t \in Seq(GroupChars) /\ t # <<>> /\ Has(t, ":") /\ Ipv6Octets(t) = octets
  BY <1>2 DEF IsAddressGroups
<1>4. t \in Seq(NetChars) /\ ToSet(t) \subseteq GroupChars
  BY <1>3, GroupCharsAre, WiderTexts, TextOver
<1>5. ~Has(t, "/") /\ ~DigitsOnly(t)
  BY <1>3, <1>4, GroupCharsAre, NetCharsAre DEF Has, DigitsOnly
<1>6. AddressOctets(t) = octets
  BY <1>3 DEF AddressOctets
<1> QED
  BY <1>3, <1>4, <1>5, <1>6 DEF IsAddressText, t

(* Every canonical text of an address denotes it. *)
LEMMA AddressAgain ==
  ASSUME NEW octets, IsAddress(octets)
  PROVE  IsAddressText(FormatAddress(octets), octets)
<1>1. octets \in Seq(Octets) /\ (Len(octets) = 4 \/ Len(octets) = 16)
  BY DEF IsAddress
<1> QED
  BY <1>1, Ipv4Again, Ipv6Again

-----------------------------------------------------------------------------
(* The canonical text of a query means the query. *)
LEMMA QueryAgain ==
  ASSUME NEW text, IsText(text), ParseQuery(text) # None
  PROVE  RoundTrips(ParseQuery(text))
<1> DEFINE s == Trim(text)  q == ParseQuery(text)  C == ToSet(text)
<1>1. s \in Seq(C) /\ IsTrimmed(s)
  BY TrimIsTrimmed DEF IsText
<1> HIDE DEF C
<1>2. q = IF s = <<>> THEN None
          ELSE IF AsPrefix(s) \/ DigitsOnly(s) THEN ParseAutnum(s)
          ELSE IF Has(s, ":") \/ Has(s, "/") \/ Ipv4Shape(s) THEN ParseNetwork(s)
          ELSE ParseDomain(s)
  BY DEF ParseQuery
<1> HIDE DEF s
<1>3. q # None /\ s # <<>>
  BY <1>2
<1> HIDE DEF q
<1>4. CASE q = ParseAutnum(s)
  <2>1. PICK n \in Nat : n <= MaxAutnum /\ q = Autnum(n)
    BY <1>1, <1>3, <1>4, AutnumIs
  <2> QED
    BY <2>1, AutnumAgain DEF q
<1>5. CASE q = ParseNetwork(s)
  <2> DEFINE parts == Split(Trim(s), "/")
             address == AddressOctets(parts[1])
             prefix == NumberOf(parts[2], 10)
  <2>1. /\ IsAddress(address)
        /\ \/ q = Network(address, None)
           \/ /\ prefix \in Nat /\ ~(prefix > Len(address) * OctetBits)
              /\ q = Network(ApplyPrefix(address, prefix), prefix)
    BY <1>1, <1>3, <1>5, NetworkIs
  <2> HIDE DEF address, prefix
  <2>2. CASE q = Network(address, None)
    <3>1. RoundTrips(Network(address, None))
      BY <2>1, AddressAgain, WholeNetworkAgain
    <3> QED
      BY <2>2, <3>1 DEF q
  <2>3. CASE /\ prefix \in Nat /\ ~(prefix > Len(address) * OctetBits)
             /\ q = Network(ApplyPrefix(address, prefix), prefix)
    <3> DEFINE network == ApplyPrefix(address, prefix)
    <3>1. IsAddress(network) /\ Len(network) = Len(address)
      BY <2>1, <2>3, ApplyPrefixIs
    <3>2. ApplyPrefix(network, prefix) = network
      BY <2>1, <2>3, ApplyTwice
    <3> HIDE DEF network
    <3>3. ~(prefix > Len(network) * OctetBits) /\ prefix \in Nat
      BY <2>3, <3>1
    <3>4. RoundTrips(Network(network, prefix))
      BY <3>1, <3>2, <3>3, AddressAgain, PrefixAgain
    <3> QED
      BY <2>3, <3>4 DEF q, network
  <2> QED
    BY <2>1, <2>2, <2>3
<1>6. CASE q = ParseDomain(s) /\ ~AsPrefix(s) /\ ~Ipv4Shape(s)
  BY <1>1, <1>3, <1>6, DomainAgain DEF q
<1> QED
  BY <1>2, <1>3, <1>4, <1>5, <1>6

(* What normalize_stored_query makes of a text settles at once: made again *)
(* of what it made, it is the same text, or nothing if that was "as".      *)
(* AppState assumes this of the saved texts.                               *)
Normalized(text) == IF ParseQuery(text) = None THEN None ELSE QueryText(ParseQuery(text))
THEOREM SavedTextsSettle ==
  ASSUME NEW text, IsText(text), Normalized(text) # None
  PROVE  Normalized(Normalized(text)) \in {Normalized(text), None}
<1> DEFINE q == ParseQuery(text)
<1>1. q # None /\ Normalized(text) = QueryText(q)
  BY DEF Normalized
<1>2. ParseQuery(QueryText(q)) = IF q = AsDomain THEN None ELSE q
  BY <1>1, QueryAgain DEF RoundTrips
<1> HIDE DEF q
<1> QED
  BY <1>1, <1>2 DEF Normalized

-----------------------------------------------------------------------------
(* The inductive invariant of the round trip.  The text that comes back to *)
(* the field is the canonical text of the query that was looked up first,  *)
(* which means that query again; only "as" does not, and is not stored.    *)
IsKeepable(q) == q # None /\ q # AsDomain
MeaningInv ==
  /\ TextInv
  /\ first # None => RoundTrips(first) /\ QueryText(first) # None
  /\ pc = "typed" => \/ first = None /\ query = None /\ stored = None
                     \/ IsKeepable(first) /\ query = first /\ field = QueryText(first)
  /\ pc \in {"answered", "stored", "read"} => first # None /\ query = first
  /\ pc \in {"stored", "read"} => IsKeepable(first) /\ stored = QueryText(first)
  /\ MeaningIsKept

(* No canonical text is the missing one. *)
LEMMA CanonicalIsNotNone ==
  ASSUME NEW text, IsText(text), ParseQuery(text) # None
  PROVE  QueryText(ParseQuery(text)) # None
BY CanonicalIsText, NoneAssumption DEF IsCanonical, CanonicalChars

(* The invariant holds at first, when nothing was looked up. *)
LEMMA MeaningInit == Init => MeaningInv
<1>1. ASSUME Init PROVE TextInv
  BY <1>1, TextInit
<1> QED
  BY <1>1 DEF Init, MeaningInv, MeaningIsKept

(* Every step keeps it: what is parsed again is what was formatted. *)
LEMMA MeaningNext == MeaningInv /\ [Next]_vars => MeaningInv'
<1> SUFFICES ASSUME MeaningInv, [Next]_vars PROVE MeaningInv'
  OBVIOUS
<1>1. TextInv /\ TextInv'
  BY TextNext DEF MeaningInv
<1>2. CASE LookUp
  <2> DEFINE q == ParseQuery(field)
  <2>1. /\ query' = q /\ first' = (IF first = None THEN q ELSE first)
        /\ pc' = (IF q = None THEN "rejected" ELSE "answered")
        /\ stored' = stored /\ pc = "typed"
    BY <1>2 DEF LookUp
  <2>2. q # None => RoundTrips(q) /\ QueryText(q) # None
    BY <1>1, QueryAgain, CanonicalIsNotNone DEF TextInv
  <2>3. CASE first = None
    <3>1. stored = None
      BY <2>1, <2>3 DEF MeaningInv, IsKeepable
    <3> HIDE DEF q
    <3>2. first' = q /\ query' = q /\ stored' = None
      BY <2>1, <2>3, <3>1
    <3> QED
      BY <1>1, <2>1, <2>2, <3>2 DEF MeaningInv, MeaningIsKept
  <2>4. CASE first # None
    <3>1. IsKeepable(first) /\ field = QueryText(first) /\ RoundTrips(first)
      BY <2>1, <2>4 DEF MeaningInv
    <3>2. q = first
      BY <3>1 DEF RoundTrips, IsKeepable
    <3> HIDE DEF q
    <3>3. first' = first /\ query' = first /\ pc' = "answered" /\ stored' = stored
      BY <2>1, <2>4, <3>2
    <3> QED
      BY <1>1, <2>4, <3>3 DEF MeaningInv, MeaningIsKept
  <2> QED
    BY <2>3, <2>4
<1>3. CASE Remember
  <2> DEFINE again == ParseQuery(QueryText(query))
  <2>1. /\ stored' = (IF again = None THEN None ELSE QueryText(again))
        /\ pc' = (IF stored' = None THEN "forgotten" ELSE "stored")
        /\ field' = field /\ first' = first /\ query' = query /\ pc = "answered"
    BY <1>3 DEF Remember, Keep
  <2>2. first # None /\ query = first /\ RoundTrips(first) /\ QueryText(first) # None
    BY <2>1 DEF MeaningInv
  <2>3. again = IF first = AsDomain THEN None ELSE first
    BY <2>2 DEF RoundTrips
  <2> HIDE DEF again
  <2>4. CASE first = AsDomain
    <3>1. stored' = None /\ pc' = "forgotten"
      BY <2>1, <2>3, <2>4
    <3> QED
      BY <1>1, <2>1, <2>2, <2>4, <3>1 DEF MeaningInv, MeaningIsKept
  <2>5. CASE first # AsDomain
    <3>1. stored' = QueryText(first) /\ pc' = "stored"
      BY <2>1, <2>2, <2>3, <2>5
    <3> QED
      BY <1>1, <2>1, <2>2, <2>5, <3>1 DEF MeaningInv, MeaningIsKept, IsKeepable
  <2> QED
    BY <2>4, <2>5
<1>4. CASE ReadBack
  <2> DEFINE again == ParseQuery(stored)
  <2>1. /\ stored' = (IF again = None THEN None ELSE QueryText(again))
        /\ pc' = (IF stored' = None THEN "forgotten" ELSE "read")
        /\ field' = field /\ first' = first /\ query' = query /\ pc = "stored"
    BY <1>4 DEF ReadBack, Keep
  <2>2. /\ first # None /\ query = first /\ RoundTrips(first) /\ QueryText(first) # None
        /\ IsKeepable(first) /\ stored = QueryText(first)
    BY <2>1 DEF MeaningInv
  <2>3. again = first
    BY <2>2 DEF RoundTrips, IsKeepable
  <2> HIDE DEF again
  <2>4. stored' = QueryText(first) /\ pc' = "read"
    BY <2>1, <2>2, <2>3
  <2> QED
    BY <1>1, <2>1, <2>2, <2>4 DEF MeaningInv, MeaningIsKept
<1>5. CASE Recall
  <2>1. /\ pc \in {"stored", "read"} /\ field' = stored /\ pc' = "typed"
        /\ first' = first /\ query' = query /\ stored' = stored
    BY <1>5 DEF Recall
  <2>2. /\ first # None /\ query = first /\ RoundTrips(first) /\ QueryText(first) # None
        /\ IsKeepable(first) /\ stored = QueryText(first)
    BY <2>1 DEF MeaningInv
  <2> QED
    BY <1>1, <2>1, <2>2 DEF MeaningInv, MeaningIsKept
<1>6. CASE UNCHANGED vars
  BY <1>1, <1>6 DEF MeaningInv, MeaningIsKept, vars
<1> QED
  BY <1>2, <1>3, <1>4, <1>5, <1>6 DEF Next

(* A query that was looked up means the same for ever: its canonical text, *)
(* stored, read back and recalled, is never rejected and never another     *)
(* query; only the domain "as" cannot be stored.  So it is for every text, *)
(* every width of an octet and every limit of a name and a number.         *)
THEOREM QueriesKeepTheirMeaning == Spec => []MeaningIsKept
<1>1. MeaningInv => MeaningIsKept
  BY DEF MeaningInv
<1> QED
  BY <1>1, MeaningInit, MeaningNext, PTL DEF Spec

-----------------------------------------------------------------------------
(* How many groups a text writes. *)
IsWritten(t, n) == t \in Seq(GroupChars) /\ IsFiniteSet(GroupStarts(t)) /\ Written(t) = n

LEMMA WrittenNone == IsWritten(<<>>, 0)
<1>1. GroupStarts(<<>>) = {}
  BY DEF GroupStarts
<1>2. <<>> \in Seq(GroupChars)
  OBVIOUS
<1> QED
  BY <1>1, <1>2, FS_EmptySet DEF IsWritten, Written

(* A group starts at the beginning and behind every colon. *)
LEMMA StartsUnfold ==
  ASSUME NEW C, NEW t \in Seq(C)
  PROVE  \A i : i \in GroupStarts(t) <=> i \in 1 .. Len(t) /\ t[i] # ":" /\ (i = 1 \/ t[i - 1] = ":")
<1>1. DOMAIN t = 1 .. Len(t)
  OBVIOUS
<1> QED
  BY <1>1 DEF GroupStarts

(* Colons write no group. *)
LEMMA ColonsWriteNone ==
  ASSUME NEW t, NEW n, IsWritten(t, n), NEW u \in Seq(GroupChars), \A i \in 1 .. Len(u) : u[i] = ":"
  PROVE  IsWritten(t \o u, n)
<1> DEFINE j == t \o u  l == Len(t)  r == Len(u)
<1>1. t \in Seq(GroupChars)
  BY DEF IsWritten
<1>2. IsJoin(j, GroupChars, t, u)
  BY <1>1, Joined
<1> HIDE DEF j
<1>3. /\ j \in Seq(GroupChars) /\ l \in Nat /\ r \in Nat /\ Len(j) = l + r
      /\ \A i \in 1 .. l : j[i] = t[i]
      /\ \A i \in 1 .. r : j[l + i] = u[i]
  BY <1>2 DEF IsJoin
<1>4. \A i : i \in GroupStarts(j) <=> i \in 1 .. l + r /\ j[i] # ":" /\ (i = 1 \/ j[i - 1] = ":")
  BY <1>3, StartsUnfold
<1>5. \A i : i \in GroupStarts(t) <=> i \in 1 .. l /\ t[i] # ":" /\ (i = 1 \/ t[i - 1] = ":")
  BY <1>1, StartsUnfold
<1>6. \A i \in 1 .. r : u[i] = ":"
  OBVIOUS
<1> HIDE DEF l, r
<1>7. \A i \in 1 .. l + r : ~(i \in 1 .. l) => j[i] = ":"
  <2> TAKE i \in 1 .. l + r
  <2> HAVE ~(i \in 1 .. l)
  <2> DEFINE k == i - l
  <2>1. k \in 1 .. r /\ i = l + k
    BY <1>3
  <2> HIDE DEF k
  <2> QED
    BY <1>3, <1>6, <2>1
<1>8. \A i \in 1 .. l : i \in 1 .. l + r /\ (i = 1 \/ i - 1 \in 1 .. l)
  BY <1>3
<1>9. GroupStarts(j) = GroupStarts(t)
  BY <1>3, <1>4, <1>5, <1>7, <1>8
<1> QED
  BY <1>3, <1>9 DEF IsWritten, Written, j

(* The text of a group, at the start of the text or behind a colon, is one *)
(* group more.                                                             *)
LEMMA GroupWritesOne ==
  ASSUME NEW t, NEW n \in Nat, IsWritten(t, n), Len(t) = 0 \/ t[Len(t)] = ":",
         NEW h \in Seq(GroupChars), Len(h) > 0, \A i \in 1 .. Len(h) : h[i] # ":"
  PROVE  IsWritten(t \o h, n + 1)
<1> DEFINE j == t \o h  l == Len(t)  r == Len(h)
<1>1. t \in Seq(GroupChars) /\ (l = 0 \/ t[l] = ":")
  BY DEF IsWritten
<1>2. IsJoin(j, GroupChars, t, h)
  BY <1>1, Joined
<1> HIDE DEF j
<1>3. /\ j \in Seq(GroupChars) /\ l \in Nat /\ r \in Nat /\ Len(j) = l + r /\ r > 0
      /\ \A i \in 1 .. l : j[i] = t[i]
      /\ \A i \in 1 .. r : j[l + i] = h[i]
  BY <1>2 DEF IsJoin
<1>4. \A i : i \in GroupStarts(j) <=> i \in 1 .. l + r /\ j[i] # ":" /\ (i = 1 \/ j[i - 1] = ":")
  BY <1>3, StartsUnfold
<1>5. \A i : i \in GroupStarts(t) <=> i \in 1 .. l /\ t[i] # ":" /\ (i = 1 \/ t[i - 1] = ":")
  BY <1>1, StartsUnfold
<1>6. \A i \in 1 .. r : h[i] # ":"
  OBVIOUS
<1> HIDE DEF l, r
<1>7. \A i \in 1 .. l + r : ~(i \in 1 .. l) => j[i] # ":"
  <2> TAKE i \in 1 .. l + r
  <2> HAVE ~(i \in 1 .. l)
  <2> DEFINE k == i - l
  <2>1. k \in 1 .. r /\ i = l + k
    BY <1>3
  <2> HIDE DEF k
  <2> QED
    BY <1>3, <1>6, <2>1
<1>8. \A i \in 1 .. l : i \in 1 .. l + r /\ (i = 1 \/ i - 1 \in 1 .. l)
  BY <1>3
<1>9. l + 1 \in GroupStarts(j)
  <2>1. l + 1 \in 1 .. l + r /\ l + 1 \notin 1 .. l
    BY <1>3
  <2>2. l + 1 = 1 \/ j[(l + 1) - 1] = ":"
    <3>1. CASE l = 0
      BY <3>1
    <3>2. CASE l # 0
      <4>1. l \in 1 .. l /\ (l + 1) - 1 = l
        BY <1>3, <3>2
      <4> QED
        BY <1>1, <1>3, <3>2, <4>1
    <3> QED
      BY <3>1, <3>2
  <2> QED
    BY <1>4, <1>7, <2>1, <2>2
<1>10. \A i \in GroupStarts(j) : i \in GroupStarts(t) \/ i = l + 1
  <2> TAKE i \in GroupStarts(j)
  <2>1. i \in 1 .. l + r /\ j[i] # ":" /\ (i = 1 \/ j[i - 1] = ":")
    BY <1>4
  <2>2. CASE i \in 1 .. l
    BY <1>3, <1>5, <1>8, <2>1, <2>2
  <2>3. CASE i \notin 1 .. l
    <3>1. i = l + 1 \/ (i - 1 \in 1 .. l + r /\ i - 1 \notin 1 .. l /\ i # 1)
      BY <1>3, <2>1, <2>3
    <3> QED
      BY <1>7, <2>1, <3>1
  <2> QED
    BY <2>2, <2>3
<1>11. \A i \in GroupStarts(t) : i \in GroupStarts(j)
  <2> TAKE i \in GroupStarts(t)
  <2>1. i \in 1 .. l /\ t[i] # ":" /\ (i = 1 \/ t[i - 1] = ":")
    BY <1>5
  <2>2. i \in 1 .. l + r /\ j[i] = t[i] /\ (i = 1 \/ j[i - 1] = t[i - 1])
    BY <1>3, <1>8, <2>1
  <2> QED
    BY <1>4, <2>1, <2>2
<1>12. l + 1 \notin GroupStarts(t)
  BY <1>3, <1>5
<1>13. GroupStarts(j) = GroupStarts(t) \cup {l + 1}
  BY <1>9, <1>10, <1>11
<1>14. IsFiniteSet(GroupStarts(t)) /\ Cardinality(GroupStarts(t)) = n
  BY DEF IsWritten, Written
<1>15. IsFiniteSet(GroupStarts(j)) /\ Cardinality(GroupStarts(j)) = n + 1
  BY <1>12, <1>13, <1>14, FS_AddElement
<1> QED
  BY <1>3, <1>15 DEF IsWritten, Written, j

LEMMA OneColon ==
  /\ <<":">> \in Seq(GroupChars) /\ \A i \in 1 .. Len(<<":">>) : <<":">>[i] = ":"
  /\ <<":", ":">> \in Seq(GroupChars) /\ \A i \in 1 .. Len(<<":", ":">>) : <<":", ":">>[i] = ":"
<1>1. Len(<<":">>) = 1 /\ <<":">>[1] = ":"
  OBVIOUS
<1>2. Len(<<":", ":">>) = 2 /\ <<":", ":">>[1] = ":" /\ <<":", ":">>[2] = ":"
  OBVIOUS
<1>3. \A i \in 1 .. 1 : i = 1
  OBVIOUS
<1>4. \A i \in 1 .. 2 : i = 1 \/ i = 2
  OBVIOUS
<1> QED
  BY <1>1, <1>2, <1>3, <1>4, GapText

(* What ends in a colon. *)
EndsInColon(t) == Len(t) = 0 \/ t[Len(t)] = ":"

LEMMA ColonsEnd ==
  ASSUME NEW t \in Seq(GroupChars), NEW u \in Seq(GroupChars), Len(u) > 0, u[Len(u)] = ":"
  PROVE  EndsInColon(t \o u)
<1> DEFINE j == t \o u  l == Len(t)  r == Len(u)
<1>1. IsJoin(j, GroupChars, t, u)
  BY Joined
<1> HIDE DEF j
<1>2. l \in Nat /\ r \in Nat /\ Len(j) = l + r /\ \A i \in 1 .. r : j[l + i] = u[i]
  BY <1>1 DEF IsJoin
<1>3. r \in 1 .. r
  BY <1>2
<1>4. j[l + r] = ":"
  BY <1>2, <1>3
<1> QED
  BY <1>2, <1>4 DEF EndsInColon, j

(* A colon and a group are one group more. *)
LEMMA ColonAndGroup ==
  ASSUME NEW groups \in GroupLists, NEW i \in 1 .. 8, NEW t, NEW n \in Nat, IsWritten(t, n)
  PROVE  IsWritten(t \o (<<":">> \o Numeral(groups[i], 16)), n + 1)
<1> DEFINE h == Numeral(groups[i], 16)  c == <<":">>  u == t \o c
<1>1. h \in Seq(GroupChars) /\ Len(h) > 0 /\ \A k \in 1 .. Len(h) : h[k] # ":"
  BY GroupTextIs
<1>2. c \in Seq(GroupChars) /\ (\A k \in 1 .. Len(c) : c[k] = ":") /\ Len(c) > 0 /\ c[Len(c)] = ":"
  BY OneColon
<1>3. t \in Seq(GroupChars)
  BY DEF IsWritten
<1> HIDE DEF h, c
<1>4. IsWritten(u, n)
  BY <1>2, ColonsWriteNone
<1>5. EndsInColon(u)
  BY <1>2, <1>3, ColonsEnd
<1>6. u \o h = t \o (c \o h)
  <2>1. Associate(t, c, h)
    BY <1>1, <1>2, <1>3, JoinAssociates
  <2> QED
    BY <2>1 DEF Associate
<1> HIDE DEF u
<1>7. IsWritten(u \o h, n + 1)
  BY <1>1, <1>4, <1>5, GroupWritesOne DEF EndsInColon
<1> QED
  BY <1>6, <1>7 DEF h, c

(* A group behind a colon, or at the beginning, is one more. *)
LEMMA FirstGroup ==
  ASSUME NEW groups \in GroupLists, NEW i \in 1 .. 8, NEW t, NEW n \in Nat, IsWritten(t, n), EndsInColon(t)
  PROVE  IsWritten(t \o Numeral(groups[i], 16), n + 1)
<1> DEFINE h == Numeral(groups[i], 16)
<1>1. h \in Seq(GroupChars) /\ Len(h) > 0 /\ \A k \in 1 .. Len(h) : h[k] # ":"
  BY GroupTextIs
<1> HIDE DEF h
<1>2. IsWritten(t \o h, n + 1)
  BY <1>1, GroupWritesOne DEF EndsInColon
<1> QED
  BY <1>2 DEF h

-----------------------------------------------------------------------------
(* A spelling writes the groups outside its run. *)
LEMMA WrittenBefore ==
  ASSUME NEW groups \in GroupLists, NEW run, IsRun(run) \/ run = NoRun,
         NEW list, IsSpelledList(list, groups, run)
  PROVE  IsWritten(list[run.start - 1], run.start - 1)
<1> DEFINE n == run.start - 1
           S == {i \in 0 .. n : IsWritten(list[i], i)}
<1>1. n \in 0 .. 8
  BY NoRunIs DEF IsRun
<1>2. 0 \in S
  <2>1. list[0] = <<>>
    BY DEF IsSpelledList
  <2>2. IsWritten(list[0], 0)
    BY <2>1, WrittenNone
  <2> QED
    BY <1>1, <2>2
<1>3. \A i \in 1 .. 8 : i <= n => i < run.start
  BY NoRunIs DEF IsRun
<1> HIDE DEF n
<1>4. ASSUME NEW i \in 0 .. n - 1, i \in S PROVE i + 1 \in S
  <2>1. i \in Nat /\ i + 1 \in 1 .. 8 /\ i + 1 \in 0 .. n /\ i + 1 <= n /\ (i + 1) - 1 = i
    BY <1>1
  <2>2. IsWritten(list[i], i)
    BY <1>4
  <2> DEFINE h == Numeral(groups[i + 1], 16)
  <2>3. list[i + 1] = list[i] \o GroupText(groups, run, i + 1)
    BY <2>1 DEF IsSpelledList
  <2>4. GroupText(groups, run, i + 1) = IF i + 1 = 1 THEN h ELSE <<":">> \o h
    BY <1>3, <2>1, TextBefore
  <2>6. CASE i = 0
    <3>1. i + 1 = 1
      BY <2>6
    <3>2. EndsInColon(list[i])
      <4>1. list[0] = <<>> /\ Len(<<>>) = 0
        BY DEF IsSpelledList
      <4> QED
        BY <2>6, <4>1 DEF EndsInColon
    <3>3. IsWritten(list[i] \o h, i + 1)
      BY <2>1, <2>2, <3>2, FirstGroup
    <3> QED
      BY <2>1, <2>3, <2>4, <3>1, <3>3
  <2>7. CASE i # 0
    <3>1. i + 1 # 1
      BY <2>1, <2>7
    <3>2. IsWritten(list[i] \o (<<":">> \o h), i + 1)
      BY <2>1, <2>2, ColonAndGroup
    <3> QED
      BY <2>1, <2>3, <2>4, <3>1, <3>2
  <2> QED
    BY <2>6, <2>7
<1>5. n \in S
  <2> HIDE DEF S
  <2>1. 0 .. n \subseteq S /\ n \in 0 .. n
    BY <1>1, <1>2, <1>4, InductUpTo
  <2> QED
    BY <2>1
<1> QED
  BY <1>5 DEF n

LEMMA WrittenRest ==
  ASSUME NEW groups \in GroupLists, NEW run, IsRun(run),
         NEW list, IsSpelledList(list, groups, run)
  PROVE  IsWritten(list[8], 8 - run.length)
<1> DEFINE m == run.start + run.length  n == 9 - m  begin == run.start - 1  length == run.length
           S == {k \in 0 .. n : IsWritten(list[m - 1 + k], begin + k)}
<1>1. /\ m \in 3 .. 9 /\ n \in 0 .. 6 /\ run.start + run.length - 1 = m - 1 /\ begin \in 0 .. 7
      /\ m = begin + 1 + length /\ length \in 2 .. 8
  <2> DEFINE start == run.start
  <2>1. start \in 1 .. 8 /\ length \in 2 .. 8 /\ start + length <= 9 /\ m = start + length /\ begin = start - 1
    BY DEF IsRun
  <2>2. run.start + run.length - 1 = start + (length - 1)
    OBVIOUS
  <2> HIDE DEF start, length, m, begin
  <2> QED
    BY <2>1, <2>2
<1>2. /\ list \in [0 .. 8 -> Seq(GroupChars)]
      /\ \A i \in 1 .. 8 : list[i] = list[i - 1] \o GroupText(groups, run, i)
  BY DEF IsSpelledList
<1>3. \A i \in m .. 8 : GroupText(groups, run, i) = IF i = m THEN Numeral(groups[i], 16)
                                                    ELSE <<":">> \o Numeral(groups[i], 16)
  <2> TAKE i \in m .. 8
  <2>1. i \in 1 .. 8 /\ i >= run.start + run.length
    BY <1>1
  <2> QED
    BY <2>1, TextBehind
<1>4. IsWritten(list[m - 1], begin) /\ EndsInColon(list[m - 1])
  <2> DEFINE left == list[begin]  cc == <<":", ":">>
  <2>1. IsWritten(left, begin)
    BY WrittenBefore
  <2>2. list[m - 1] = left \o cc
    BY <1>1, SpelledRun
  <2> HIDE DEF left
  <2>3. cc \in Seq(GroupChars) /\ (\A i \in 1 .. Len(cc) : cc[i] = ":") /\ Len(cc) > 0 /\ cc[Len(cc)] = ":"
    BY OneColon
  <2>4. left \in Seq(GroupChars)
    BY <2>1 DEF IsWritten
  <2> HIDE DEF cc
  <2>5. IsWritten(left \o cc, begin) /\ EndsInColon(left \o cc)
    BY <2>1, <2>3, <2>4, ColonsWriteNone, ColonsEnd
  <2> HIDE DEF begin, m
  <2> QED
    BY <2>2, <2>5
<1> HIDE DEF m, begin, length
<1>5. 0 \in S
  <2>1. m - 1 + 0 = m - 1 /\ begin + 0 = begin /\ 0 \in 0 .. n
    BY <1>1
  <2> QED
    BY <1>4, <2>1
<1>6. ASSUME NEW k \in 0 .. n - 1, k \in S PROVE k + 1 \in S
  <2> DEFINE j == m - 1 + k  h == Numeral(groups[j + 1], 16)  c == <<":">>  b == begin + k
  <2>1. /\ j + 1 = m - 1 + (k + 1) /\ k + 1 \in 0 .. n /\ j \in 2 .. 7
        /\ j + 1 \in 1 .. 8 /\ j + 1 \in m .. 8 /\ (j + 1) - 1 = j /\ m \in 1 .. 8
        /\ (k = 0 => j = m - 1 /\ j + 1 = m) /\ (k # 0 => j \in m .. 7 /\ j + 1 # m)
        /\ b \in Nat /\ b + 1 = begin + (k + 1)
    BY <1>1
  <2>2. IsWritten(list[j], b)
    BY <1>6
  <2> HIDE DEF j, b
  <2>4. list[j + 1] = list[j] \o GroupText(groups, run, j + 1)
    BY <1>2, <2>1
  <2>5. GroupText(groups, run, j + 1) = IF j + 1 = m THEN h ELSE c \o h
    BY <1>3, <2>1
  <2>6. IsWritten(list[j + 1], b + 1)
    <3>1. CASE k = 0
      <4>1. EndsInColon(list[j])
        BY <1>4, <2>1, <3>1
      <4>2. IsWritten(list[j] \o h, b + 1)
        BY <2>1, <2>2, <4>1, FirstGroup
      <4> QED
        BY <2>1, <2>4, <2>5, <3>1, <4>2
    <3>2. CASE k # 0
      <4>1. IsWritten(list[j] \o (c \o h), b + 1)
        BY <2>1, <2>2, ColonAndGroup
      <4> QED
        BY <2>1, <2>4, <2>5, <3>2, <4>1
    <3> QED
      BY <3>1, <3>2
  <2>7. IsWritten(list[m - 1 + (k + 1)], begin + (k + 1))
    BY <2>1, <2>6
  <2> QED
    BY <2>1, <2>7
<1>7. n \in S
  <2> HIDE DEF S
  <2>1. n \in Nat /\ n \in 0 .. n
    BY <1>1
  <2> HIDE DEF n
  <2>2. 0 .. n \subseteq S
    BY <1>5, <1>6, <2>1, InductUpTo
  <2> QED
    BY <2>1, <2>2
<1>8. m - 1 + n = 8 /\ begin + n = 8 - length
  BY <1>1
<1>9. IsWritten(list[m - 1 + n], begin + n)
  BY <1>7
<1> QED
  BY <1>8, <1>9 DEF length

(* A spelling writes the eight groups without those of its run. *)
LEMMA SpellingWrites ==
  ASSUME NEW groups \in GroupLists, NEW run, IsRun(run) \/ run = NoRun
  PROVE  Written(SpelledWithout(groups, run)) = 8 - run.length
<1>1. PICK list : IsSpelledList(list, groups, run)
  BY SpelledList
<1>2. list[8] = SpelledWithout(groups, run)
  BY <1>1 DEF IsSpelledList
<1>3. CASE IsRun(run)
  <2>1. IsWritten(list[8], 8 - run.length)
    BY <1>1, <1>3, WrittenRest
  <2> QED
    BY <1>2, <2>1 DEF IsWritten
<1>4. CASE run = NoRun
  <2>1. IsWritten(list[run.start - 1], run.start - 1)
    BY <1>1, <1>4, WrittenBefore
  <2>2. run.start - 1 = 8 /\ 8 - run.length = 8
    BY <1>4, NoRunIs
  <2> QED
    BY <1>2, <2>1, <2>2 DEF IsWritten
<1> QED
  BY <1>3, <1>4

-----------------------------------------------------------------------------
(* The later a run starts, the later the text has its gap. *)
LEMMA TextsGrow ==
  ASSUME NEW groups \in GroupLists, NEW run, IsRun(run) \/ run = NoRun,
         NEW list, IsSpelledList(list, groups, run), NEW a \in 0 .. 8, NEW b \in a .. 8
  PROVE  Len(list[a]) \in Nat /\ Len(list[b]) \in Nat /\ Len(list[a]) <= Len(list[b])
<1> DEFINE n == b - a
           S == {k \in 0 .. n : Len(list[a]) <= Len(list[a + k])}
<1>1. n \in 0 .. 8 /\ a \in Nat /\ a + n = b
  OBVIOUS
<1>2. /\ list \in [0 .. 8 -> Seq(GroupChars)]
      /\ \A i \in 1 .. 8 : list[i] = list[i - 1] \o GroupText(groups, run, i)
  BY DEF IsSpelledList
<1>3. \A i \in 0 .. 8 : Len(list[i]) \in Nat
  BY <1>2
<1>4. 0 \in S
  <2>1. 0 \in 0 .. n /\ a + 0 = a
    BY <1>1
  <2> QED
    BY <1>3, <2>1
<1>5. ASSUME NEW k \in 0 .. n - 1, k \in S PROVE k + 1 \in S
  <2> DEFINE i == a + k  u == GroupText(groups, run, i + 1)  t == list[i]
  <2>1. k + 1 \in 0 .. n /\ i + 1 \in 1 .. 8 /\ (i + 1) - 1 = i /\ i \in 0 .. 8 /\ a + (k + 1) = i + 1
    BY <1>1
  <2>2. list[i + 1] = t \o u /\ t \in Seq(GroupChars)
    BY <1>2, <2>1
  <2>3. u \in Seq(GroupChars)
    BY <2>1, GroupTextType
  <2>4. Len(list[a]) <= Len(t)
    BY <1>5
  <2> HIDE DEF u, t
  <2>5. Len(t \o u) = Len(t) + Len(u) /\ Len(t) \in Nat /\ Len(u) \in Nat
    BY <2>2, <2>3, JoinIs
  <2>6. Len(list[i + 1]) >= Len(t)
    BY <2>2, <2>5
  <2>7. Len(list[a]) <= Len(list[i + 1])
    <3> DEFINE x == Len(list[a])  y == Len(t)  z == Len(list[i + 1])
    <3>1. x \in Nat /\ y \in Nat /\ z \in Nat /\ x <= y /\ z >= y
      BY <1>3, <2>1, <2>4, <2>5, <2>6
    <3> HIDE DEF x, y, z
    <3>2. x <= z
      BY <3>1
    <3> QED
      BY <3>2 DEF x, z
  <2> QED
    BY <2>1, <2>7
<1>6. n \in S
  <2> HIDE DEF S
  <2>1. 0 .. n \subseteq S /\ n \in 0 .. n
    BY <1>1, <1>4, <1>5, InductUpTo
  <2> QED
    BY <2>1
<1>7. Len(list[a]) <= Len(list[a + n])
  <2> HIDE DEF n
  <2> QED
    BY <1>6
<1>8. a \in 0 .. 8 /\ b \in 0 .. 8
  OBVIOUS
<1> QED
  <2> HIDE DEF n
  <2> QED
    BY <1>1, <1>3, <1>7, <1>8

(* Up to the earlier of two runs both spellings write the same. *)
LEMMA SameBefore ==
  ASSUME NEW groups \in GroupLists,
         NEW run, IsRun(run), NEW list, IsSpelledList(list, groups, run),
         NEW other, IsRun(other), NEW others, IsSpelledList(others, groups, other),
         run.start <= other.start
  PROVE  list[run.start - 1] = others[run.start - 1]
<1> DEFINE n == run.start - 1
           S == {i \in 0 .. n : list[i] = others[i]}
<1>1. n \in 0 .. 7 /\ \A i \in 1 .. 8 : i <= n => i < run.start /\ i < other.start
  BY DEF IsRun
<1>2. /\ list[0] = <<>> /\ others[0] = <<>>
      /\ \A i \in 1 .. 8 : /\ list[i] = list[i - 1] \o GroupText(groups, run, i)
                           /\ others[i] = others[i - 1] \o GroupText(groups, other, i)
  BY DEF IsSpelledList
<1> HIDE DEF n
<1>3. 0 \in S
  <2>1. 0 \in 0 .. n
    BY <1>1
  <2> QED
    BY <1>2, <2>1
<1>4. ASSUME NEW i \in 0 .. n - 1, i \in S PROVE i + 1 \in S
  <2>1. i + 1 \in 1 .. 8 /\ i + 1 \in 0 .. n /\ i + 1 <= n /\ (i + 1) - 1 = i
    BY <1>1
  <2>2. GroupText(groups, run, i + 1) = GroupText(groups, other, i + 1)
    BY <1>1, <2>1, TextBefore
  <2>3. list[i + 1] = others[i + 1]
    BY <1>2, <1>4, <2>1, <2>2
  <2> QED
    BY <2>1, <2>3
<1>5. n \in S
  <2> HIDE DEF S
  <2>1. 0 .. n \subseteq S /\ n \in 0 .. n
    BY <1>1, <1>3, <1>4, InductUpTo
  <2> QED
    BY <2>1
<1> QED
  BY <1>5 DEF n

-----------------------------------------------------------------------------
(* Where the gap is. *)
LEMMA GapOfRun ==
  ASSUME NEW groups \in GroupLists, NEW run, IsRun(run), NEW list, IsSpelledList(list, groups, run)
  PROVE  GapOf(SpelledWithout(groups, run)) = Len(list[run.start - 1]) + 1
<1> DEFINE left == list[run.start - 1]  t == SpelledWithout(groups, run)
<1>1. IsSpelling(left, groups, 1, run.start - 1)
  BY SpelledBefore
<1>2. list[run.start + run.length - 1] = left \o <<":", ":">>
  BY SpelledRun
<1>3. PICK right : /\ list[8] = list[run.start + run.length - 1] \o right
                   /\ IsSpelling(right, groups, run.start + run.length, 8)
  BY SpelledRest DEF SpelledBehind
<1>4. t = (left \o <<":", ":">>) \o right
  BY <1>2, <1>3 DEF IsSpelledList
<1>5. run.start - 1 >= 1 \/ run.start - 1 < 1
  BY DEF IsRun
<1> HIDE DEF left, t
<1>6. /\ left \in Seq(GroupChars) /\ Gaps(left) = {}
      /\ Len(left) > 0 => left[Len(left)] # ":"
  <2>1. <<>> \in Seq(GroupChars) /\ Len(<<>>) = 0
    OBVIOUS
  <2> QED
    BY <1>1, <1>5, <2>1 DEF IsSpelling, left
<1>7. right \in Seq(GroupChars) /\ ":" \in GroupChars
  BY <1>3, GroupCharsAre DEF IsSpelling
<1>8. IsCutAtGap(t, left, right)
  BY <1>4, <1>6, <1>7, CutAtGap
<1> QED
  BY <1>8 DEF IsCutAtGap, GapOf, t, left

LEMMA GapOfNone ==
  ASSUME NEW groups \in GroupLists
  PROVE  GapOf(SpelledWithout(groups, NoRun)) = 0
<1>1. PICK list : IsSpelledList(list, groups, NoRun)
  BY SpelledList
<1>2. IsSpelling(list[NoRun.start - 1], groups, 1, NoRun.start - 1)
  BY <1>1, SpelledBefore
<1>3. NoRun.start - 1 = 8
  BY NoRunIs
<1>4. list[8] = SpelledWithout(groups, NoRun)
  BY <1>1 DEF IsSpelledList
<1> QED
  BY <1>2, <1>3, <1>4 DEF IsSpelling, GapOf

LEMMA GapOfIsNat ==
  ASSUME NEW groups \in GroupLists, NEW run, IsRun(run) \/ run = NoRun
  PROVE  GapOf(SpelledWithout(groups, run)) \in Nat
<1>1. CASE IsRun(run)
  <2>1. PICK list : IsSpelledList(list, groups, run)
    BY <1>1, SpelledList
  <2>2. run.start - 1 \in 0 .. 8
    BY <1>1 DEF IsRun
  <2>3. list[run.start - 1] \in Seq(GroupChars)
    BY <2>1, <2>2 DEF IsSpelledList
  <2>4. Len(list[run.start - 1]) + 1 \in Nat
    BY <2>3
  <2> QED
    BY <1>1, <2>1, <2>4, GapOfRun
<1>2. CASE run = NoRun
  BY <1>2, GapOfNone
<1> QED
  BY <1>1, <1>2

(* Of two runs, the one that starts first is left out first. *)
LEMMA EarlierGap ==
  ASSUME NEW groups \in GroupLists, NEW run, IsRun(run), NEW other, IsRun(other),
         run.start <= other.start
  PROVE  GapOf(SpelledWithout(groups, run)) <= GapOf(SpelledWithout(groups, other))
<1>1. PICK list : IsSpelledList(list, groups, run)
  BY SpelledList
<1>2. PICK others : IsSpelledList(others, groups, other)
  BY SpelledList
<1> DEFINE a == run.start - 1  b == other.start - 1  x == Len(others[a])  y == Len(others[b])
<1>3. a \in 0 .. 8 /\ b \in a .. 8
  BY DEF IsRun
<1>4. list[a] = others[a]
  BY <1>1, <1>2, SameBefore
<1>5. GapOf(SpelledWithout(groups, run)) = x + 1
  BY <1>1, <1>4, GapOfRun
<1>6. GapOf(SpelledWithout(groups, other)) = y + 1
  BY <1>2, GapOfRun
<1> HIDE DEF a, b
<1>7. x \in Nat /\ y \in Nat /\ x <= y
  BY <1>2, <1>3, TextsGrow
<1> HIDE DEF x, y
<1>8. x + 1 <= y + 1
  BY <1>7
<1> QED
  BY <1>5, <1>6, <1>8

(* The canonical text is shortest, and among the shortest its gap comes first. *)
LEMMA CanonicalIsFirst ==
  ASSUME NEW octets \in Seq(Octets), Len(octets) = 16,
         NEW run \in ZeroRuns(GroupsOf(octets)) \cup {NoRun}
  PROVE  LET canonical == FormatAddress(octets)
             other == SpelledWithout(GroupsOf(octets), run)
         IN  /\ Ipv6Octets(other) = octets
             /\ Written(canonical) <= Written(other)
             /\ Written(canonical) = Written(other) => GapOf(canonical) <= GapOf(other)
<1> DEFINE groups == GroupsOf(octets)  best == LongestRun(groups)
           canonical == FormatAddress(octets)  other == SpelledWithout(groups, run)
<1>1. Ipv6Octets(other) = octets
  BY SpellingsAgain DEF IsAddressGroups
<1>2. canonical = SpelledWithout(groups, best)
  <2>1. canonical = FormatIpv6(octets)
    BY DEF FormatAddress
  <2> QED
    BY <2>1 DEF FormatIpv6, SpelledWithout
<1>3. groups \in GroupLists
  BY PairsOfOctets
<1>4. /\ best \in ZeroRuns(groups) \cup {NoRun}
      /\ run.length < best.length \/ (run.length = best.length /\ best.start <= run.start)
  BY LongestRunIs DEF IsLongest
<1> HIDE DEF best, groups
<1>5. run \in ZeroRuns(groups) \cup {NoRun}
  BY DEF groups
<1>6. IsRun(run) \/ run = NoRun
  BY <1>5, RunsAreRuns
<1>7. IsRun(best) \/ best = NoRun
  BY <1>4, RunsAreRuns
<1> DEFINE x == best.length  y == run.length
<1>8. Written(canonical) = 8 - x /\ Written(other) = 8 - y
  BY <1>2, <1>3, <1>6, <1>7, SpellingWrites
<1>9. x \in 0 .. 8 /\ y \in 0 .. 8
  BY <1>6, <1>7, NoRunIs DEF IsRun
<1>10. y <= x
  <2> HIDE DEF x, y
  <2>1. y < x \/ y = x
    BY <1>4 DEF x, y
  <2> QED
    BY <1>9, <2>1
<1>11. Written(canonical) <= Written(other)
  <2> HIDE DEF x, y, canonical, other
  <2> QED
    BY <1>8, <1>9, <1>10
<1>12. ASSUME Written(canonical) = Written(other) PROVE GapOf(canonical) <= GapOf(other)
  <2>1. x = y
    <3> HIDE DEF x, y, canonical, other
    <3> QED
      BY <1>8, <1>9, <1>12
  <2>2. best.start <= run.start
    <3> HIDE DEF x, y
    <3>1. ~(y < x)
      BY <1>9, <2>1
    <3> QED
      BY <1>4, <3>1 DEF x, y
  <2>3. CASE best = NoRun
    <3> DEFINE g == GapOf(other)
    <3>1. GapOf(canonical) = 0 /\ g \in Nat
      BY <1>2, <1>3, <1>6, <2>3, GapOfNone, GapOfIsNat
    <3> HIDE DEF g
    <3>2. 0 <= g
      BY <3>1
    <3> QED
      BY <3>1, <3>2 DEF g
  <2>4. CASE IsRun(best)
    <3>1. IsRun(run)
      <4>1. best.length \in 2 .. 8
        BY <2>4 DEF IsRun
      <4>2. run # NoRun
        BY <2>1, <4>1, NoRunIs
      <4> QED
        BY <1>6, <4>2
    <3> QED
      BY <1>2, <1>3, <2>2, <2>4, <3>1, EarlierGap
  <2> QED
    BY <1>7, <2>3, <2>4
<1> QED
  BY <1>1, <1>11, <1>12 DEF groups

(* RFC 5952: the canonical text of an IPv6 address is the shortest of its  *)
(* spellings, and of the shortest the one that leaves out the first run;   *)
(* every spelling means the address, whatever the width of an octet.       *)
THEOREM CanonicalTextsAreShortest == Spec => []CanonicalIsShortest
<1>1. ASSUME TextInv PROVE CanonicalIsShortest
  <2> SUFFICES ASSUME pc = "answered", query.kind = "network", Len(query.octets) = 16
               PROVE  CanonicalIsShortest
    BY DEF CanonicalIsShortest
  <2>1. query = ParseQuery(field) /\ query # None /\ IsText(field)
    BY <1>1 DEF TextInv
  <2>2. \/ \E name \in Seq(NameChars) : query = Domain(name)
        \/ \E n \in Nat : query = Autnum(n)
        \/ \E octets, prefix : IsNetworkOf(query, octets, prefix)
    BY <2>1, QueryIs
  <2>3. \A name : Domain(name).kind = "domain"
    BY DEF Domain
  <2>4. \A n : Autnum(n).kind = "autnum"
    BY DEF Autnum
  <2>5. PICK octets, prefix : IsNetworkOf(query, octets, prefix)
    BY <2>2, <2>3, <2>4
  <2>6. query.octets = octets /\ IsAddress(octets)
    BY <2>5 DEF IsNetworkOf, Network
  <2>7. octets \in Seq(Octets) /\ Len(octets) = 16
    BY <2>6 DEF IsAddress
  <2> QED
    BY <2>6, <2>7, CanonicalIsFirst DEF CanonicalIsShortest
<1> QED
  BY <1>1, TextInit, TextNext, PTL DEF Spec

=============================================================================
