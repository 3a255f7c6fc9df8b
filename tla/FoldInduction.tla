--------------------------- MODULE FoldInduction ---------------------------
(***************************************************************************)
(* Induction for the proofs about folds.  The induction theorems of the    *)
(* library take a predicate; these take the set of what satisfies it, and  *)
(* rest on the minimum of a well-founded relation (WFMin).  FoldLeft is    *)
(* the value of a function that CHOOSE picks; FoldExists says there is one *)
(* to pick.                                                                *)
(***************************************************************************)
EXTENDS Integers, Sequences, FiniteSets, SequencesExt, WellFoundedInduction, TLAPS

(* Every set of numbers that is not empty has a least one. *)
LEMMA Least ==
  ASSUME NEW S \in SUBSET Nat, S # {}
  PROVE  \E n \in S : \A m \in S : n <= m
<1>1. IsWellFoundedOn(OpToRel(<, Nat), Nat)
  BY NatLessThanWellFounded
<1>2. PICK n \in S : \A m \in S : <<m, n>> \notin OpToRel(<, Nat)
  BY <1>1, WFMin
<1>3. \A m \in S : ~(m < n)
  BY <1>2 DEF OpToRel
<1> QED
  BY <1>3

(* Induction: what holds of zero and goes over to the next number holds of *)
(* all numbers.                                                            *)
LEMMA Induct ==
  ASSUME NEW S, 0 \in S, \A n \in Nat : n \in S => n + 1 \in S
  PROVE  Nat \subseteq S
<1> SUFFICES ASSUME Nat \ S # {} PROVE FALSE
  OBVIOUS
<1>1. PICK n \in Nat \ S : \A m \in Nat \ S : n <= m
  BY Least
<1>2. n # 0
  OBVIOUS
<1>3. n - 1 \in Nat /\ n - 1 \in S
  BY <1>1, <1>2
<1> QED
  BY <1>1, <1>3

(* The same up to a bound. *)
LEMMA InductUpTo ==
  ASSUME NEW n \in Nat, NEW S, 0 \in S, \A i \in 0 .. n - 1 : i \in S => i + 1 \in S
  PROVE  0 .. n \subseteq S
<1> DEFINE T == {i \in Nat : i <= n => i \in S}
<1>1. 0 \in T
  OBVIOUS
<1>2. \A i \in Nat : i \in T => i + 1 \in T
  OBVIOUS
<1>3. Nat \subseteq T
  <2> HIDE DEF T
  <2> QED
    BY <1>1, <1>2, Induct
<1> QED
  BY <1>3

LEMMA MaxIsIn ==
  ASSUME NEW n \in Nat, NEW s \in SUBSET (1 .. n), s # {}
  PROVE  Max(s) \in s /\ \A x \in s : x <= Max(s)
<1> DEFINE T == {n - x : x \in s}
<1>1. T \in SUBSET Nat /\ T # {}
  <2>1. \A x \in s : x \in 1 .. n /\ n - x \in Nat
    OBVIOUS
  <2>2. T \subseteq Nat
    BY <2>1
  <2>3. \A x \in s : n - x \in T
    OBVIOUS
  <2> QED
    BY <2>2, <2>3
<1>2. PICK d \in T : \A e \in T : d <= e
  <2> HIDE DEF T
  <2> QED
    BY <1>1, Least
<1>3. PICK x \in s : d = n - x
  BY <1>2
<1>4. \A y \in s : x >= y
  <2> TAKE y \in s
  <2>1. n - y \in T
    OBVIOUS
  <2>2. n - x <= n - y
    BY <1>2, <1>3, <2>1
  <2>3. x \in 1 .. n /\ y \in 1 .. n
    OBVIOUS
  <2> HIDE DEF T
  <2> QED
    BY <2>2, <2>3
<1>5. Max(s) \in s /\ \A y \in s : Max(s) >= y
  BY <1>4 DEF Max
<1>6. \A y \in s : y \in Int
  OBVIOUS
<1> QED
  BY <1>5, <1>6

LEMMA MaxUpTo ==
  ASSUME NEW k \in Nat, NEW s \in SUBSET (1 .. k + 1), k + 1 \in s
  PROVE  Max(s) = k + 1
<1>1. \A y \in s : k + 1 >= y
  OBVIOUS
<1>2. \A x \in s : (\A y \in s : x >= y) => x = k + 1
  OBVIOUS
<1> QED
  BY <1>1, <1>2 DEF Max

(* The function a fold over 1 .. n goes through: its value at the empty    *)
(* set is the base, at another set a step from its greatest number.        *)
IsStep(step, n, V) == step \in [(1 .. n) \X V -> V]
IsFold(iter, n, V, base, step) ==
  /\ iter \in [SUBSET (1 .. n) -> V]
  /\ iter[{}] = base
  /\ \A s \in SUBSET (1 .. n) :
       s # {} => /\ Max(s) \in 1 .. n /\ iter[s \ {Max(s)}] \in V
                 /\ iter[s] = step[<<Max(s), iter[s \ {Max(s)}]>>]

LEMMA FoldExists ==
  ASSUME NEW n \in Nat, NEW V, NEW base \in V, NEW step, IsStep(step, n, V)
  PROVE  \E iter : IsFold(iter, n, V, base, step)
<1> USE DEF IsStep
<1> DEFINE Value(iter, s) == IF s = {} THEN base ELSE step[<<Max(s), iter[s \ {Max(s)}]>>]
           Defined(k) == \E iter \in [SUBSET (1 .. k) -> V] :
                           \A s \in SUBSET (1 .. k) : iter[s] = Value(iter, s)
           S == {k \in Nat : Defined(k)}
<1>1. Defined(0)
  <2> DEFINE iter == [s \in SUBSET (1 .. 0) |-> base]
  <2>1. iter \in [SUBSET (1 .. 0) -> V]
    OBVIOUS
  <2>2. \A s \in SUBSET (1 .. 0) : s = {}
    OBVIOUS
  <2>3. \A s \in SUBSET (1 .. 0) : iter[s] = Value(iter, s)
    BY <2>2
  <2> QED
    BY <2>1, <2>3
<1>2. ASSUME NEW k \in 0 .. n - 1, Defined(k)
      PROVE  Defined(k + 1)
  <2>1. PICK iter \in [SUBSET (1 .. k) -> V] : \A s \in SUBSET (1 .. k) : iter[s] = Value(iter, s)
    BY <1>2
  <2> DEFINE next == [s \in SUBSET (1 .. k + 1) |->
                        IF k + 1 \in s THEN step[<<k + 1, iter[s \ {k + 1}]>>] ELSE iter[s]]
  <2>2. ASSUME NEW s \in SUBSET (1 .. k + 1), k + 1 \in s
        PROVE  next[s] \in V /\ next[s] = Value(next, s)
    <3>1. s \ {k + 1} \in SUBSET (1 .. k) /\ k + 1 \in 1 .. n
      BY <2>2
    <3>2. next[s \ {k + 1}] = iter[s \ {k + 1}] /\ iter[s \ {k + 1}] \in V
      BY <3>1
    <3>3. Max(s) = k + 1 /\ s # {}
      BY <2>2, MaxUpTo
    <3>4. next[s] = step[<<k + 1, iter[s \ {k + 1}]>>]
      BY <2>2
    <3>5. next[s] \in V
      BY <3>1, <3>2, <3>4
    <3>6. next[s] = Value(next, s)
      BY <3>2, <3>3, <3>4
    <3> QED
      BY <3>5, <3>6
  <2>3. ASSUME NEW s \in SUBSET (1 .. k + 1), k + 1 \notin s
        PROVE  next[s] \in V /\ next[s] = Value(next, s)
    <3>1. s \in SUBSET (1 .. k) /\ s \ {Max(s)} \in SUBSET (1 .. k)
      <4>1. s \subseteq 1 .. k
        BY <2>3
      <4> QED
        BY <4>1
    <3>2. next[s] = iter[s] /\ next[s \ {Max(s)}] = iter[s \ {Max(s)}]
      <4>1. s \in SUBSET (1 .. k + 1) /\ s \ {Max(s)} \in SUBSET (1 .. k + 1)
        OBVIOUS
      <4>2. k + 1 \notin s \ {Max(s)}
        BY <2>3
      <4> QED
        BY <2>3, <4>1, <4>2
    <3>3. iter[s] \in V /\ iter[s] = Value(iter, s)
      BY <2>1, <3>1
    <3> QED
      BY <3>2, <3>3
  <2>4. next \in [SUBSET (1 .. k + 1) -> V]
    <3>1. \A s \in SUBSET (1 .. k + 1) : next[s] \in V
      BY <2>2, <2>3
    <3> QED
      BY <3>1
  <2>5. \A s \in SUBSET (1 .. k + 1) : next[s] = Value(next, s)
    BY <2>2, <2>3
  <2> HIDE DEF next, Value
  <2> QED
    BY <2>4, <2>5
<1>3. 0 \in S /\ \A k \in 0 .. n - 1 : k \in S => k + 1 \in S
  <2> HIDE DEF Defined
  <2> QED
    BY <1>1, <1>2
<1>4. Defined(n)
  <2> HIDE DEF S, Defined
  <2>1. n \in S
    BY <1>3, InductUpTo
  <2> QED
    BY <2>1 DEF S
<1>5. PICK iter \in [SUBSET (1 .. n) -> V] : \A s \in SUBSET (1 .. n) : iter[s] = Value(iter, s)
  BY <1>4
<1>6. iter[{}] = base
  BY <1>5
<1>7. \A s \in SUBSET (1 .. n) :
        s # {} => /\ Max(s) \in 1 .. n /\ iter[s \ {Max(s)}] \in V
                  /\ iter[s] = step[<<Max(s), iter[s \ {Max(s)}]>>]
  <2> SUFFICES ASSUME NEW s \in SUBSET (1 .. n), s # {}
               PROVE  /\ Max(s) \in 1 .. n /\ iter[s \ {Max(s)}] \in V
                      /\ iter[s] = step[<<Max(s), iter[s \ {Max(s)}]>>]
    OBVIOUS
  <2>1. Max(s) \in s
    BY MaxIsIn
  <2>2. Max(s) \in 1 .. n /\ s \ {Max(s)} \in SUBSET (1 .. n)
    BY <2>1
  <2> QED
    BY <1>5, <2>2
<1> QED
  BY <1>5, <1>6, <1>7 DEF IsFold

(* The sets such a function is asked for on the way to its last value.     *)
LEMMA Initial ==
  ASSUME NEW n \in Nat, NEW i \in 1 .. n
  PROVE  /\ 1 .. i \in SUBSET (1 .. n) /\ 1 .. i # {}
         /\ Max(1 .. i) = i /\ (1 .. i) \ {i} = 1 .. i - 1
<1>1. i - 1 \in Nat /\ (i - 1) + 1 = i /\ i \in 1 .. i
  OBVIOUS
<1>2. Max(1 .. i) = i
  <2> DEFINE k == i - 1
  <2>1. k \in Nat /\ 1 .. i \in SUBSET (1 .. k + 1) /\ k + 1 \in 1 .. i /\ k + 1 = i
    BY <1>1
  <2> HIDE DEF k
  <2>2. Max(1 .. i) = k + 1
    BY <2>1, MaxUpTo
  <2> QED
    BY <2>1, <2>2
<1>3. 1 .. i \in SUBSET (1 .. n) /\ 1 .. i # {}
  BY <1>1
<1>4. (1 .. i) \ {i} = 1 .. i - 1
  OBVIOUS
<1> QED
  BY <1>2, <1>3, <1>4

(* The loop behind a fold: its value after each of the n steps.  It is     *)
(* enough to know a step for values of the type the base and every step    *)
(* have.                                                                   *)
Follows(iter, n, V, base, step) ==
  /\ iter[{}] = base
  /\ \A s \in SUBSET (1 .. n) :
       s # {} /\ Max(s) \in 1 .. n /\ iter[s \ {Max(s)}] \in V =>
         iter[s] = step[<<Max(s), iter[s \ {Max(s)}]>>]
IsLoop(list, n, V, base, step) ==
  /\ list \in [0 .. n -> V]
  /\ list[0] = base
  /\ \A i \in 1 .. n : list[i] = step[<<i, list[i - 1]>>]

LEMMA FoldIsLoop ==
  ASSUME NEW n \in Nat, NEW V, NEW base \in V, NEW step, IsStep(step, n, V),
         NEW iter, Follows(iter, n, V, base, step)
  PROVE  \E list : IsLoop(list, n, V, base, step) /\ list[n] = iter[1 .. n]
<1> DEFINE list == [i \in 0 .. n |-> iter[1 .. i]]
           S == {i \in 0 .. n : list[i] \in V}
<1>1. list[0] = base
  <2>1. 1 .. 0 = {}
    OBVIOUS
  <2> QED
    BY <2>1 DEF Follows
<1>2. ASSUME NEW i \in 1 .. n, list[i - 1] \in V
      PROVE  list[i] \in V /\ list[i] = step[<<i, list[i - 1]>>]
  <2>1. /\ 1 .. i \in SUBSET (1 .. n) /\ 1 .. i # {}
        /\ Max(1 .. i) = i /\ (1 .. i) \ {i} = 1 .. i - 1
    BY Initial
  <2>2. list[i] = iter[1 .. i] /\ list[i - 1] = iter[1 .. i - 1]
    OBVIOUS
  <2> HIDE DEF list
  <2> DEFINE s == 1 .. i
  <2>3. /\ s \in SUBSET (1 .. n) /\ s # {}
        /\ Max(s) = i /\ iter[s \ {Max(s)}] = list[i - 1] /\ iter[s] = list[i]
    BY <2>1, <2>2
  <2> HIDE DEF s
  <2>4. list[i] = step[<<i, list[i - 1]>>]
    BY <1>2, <2>3 DEF Follows
  <2> QED
    BY <1>2, <2>4 DEF IsStep
<1>3. 0 .. n \subseteq S
  <2>1. 0 \in S
    BY <1>1
  <2>2. ASSUME NEW i \in 0 .. n - 1, i \in S
        PROVE  i + 1 \in S
    <3> DEFINE j == i + 1
    <3>1. j \in 1 .. n /\ j - 1 = i
      OBVIOUS
    <3> HIDE DEF j, list
    <3>2. list[j] \in V
      BY <1>2, <2>2, <3>1
    <3> QED
      BY <3>1, <3>2 DEF j
  <2> HIDE DEF S
  <2> QED
    BY <2>1, <2>2, InductUpTo
<1>4. list \in [0 .. n -> V]
  <2>1. \A i \in 0 .. n : list[i] \in V
    BY <1>3
  <2> QED
    BY <2>1
<1>5. list[n] = iter[1 .. n]
  OBVIOUS
<1>6. \A i \in 1 .. n : list[i] = step[<<i, list[i - 1]>>]
  <2> TAKE i \in 1 .. n
  <2>1. i - 1 \in 0 .. n
    OBVIOUS
  <2> HIDE DEF list
  <2> QED
    BY <1>2, <1>4, <2>1
<1> HIDE DEF list
<1> QED
  BY <1>1, <1>4, <1>5, <1>6 DEF IsLoop

-----------------------------------------------------------------------------
(* FlattenSeq: all elements of the sequences, whatever their number.       *)
IsFlattening(flat, seqs) ==
  flat = [i \in 1 .. Len(seqs) |-> IF i = 1 THEN seqs[i] ELSE flat[i - 1] \o seqs[i]]

LEMMA FlattenUnfolds ==
  \A seqs : Len(seqs) # 0 =>
    FlattenSeq(seqs) = (CHOOSE flat : IsFlattening(flat, seqs))[Len(seqs)]
BY DEF FlattenSeq, IsFlattening

(* There is a function like this, and its last value is made of all the    *)
(* sequences.                                                              *)
LEMMA FlattenExists ==
  ASSUME NEW T, NEW seqs \in Seq(Seq(T))
  PROVE  \E flat : IsFlattening(flat, seqs)
<1> DEFINE n == Len(seqs)
           step == [p \in (1 .. n) \X Seq(T) |-> IF p[1] = 1 THEN seqs[1] ELSE p[2] \o seqs[p[1]]]
<1>1. n \in Nat /\ <<>> \in Seq(T) /\ \A i \in 1 .. n : seqs[i] \in Seq(T)
  OBVIOUS
<1>2. IsStep(step, n, Seq(T))
  <2>1. ASSUME NEW p \in (1 .. n) \X Seq(T)
        PROVE  (IF p[1] = 1 THEN seqs[1] ELSE p[2] \o seqs[p[1]]) \in Seq(T)
    <3>1. p[1] \in 1 .. n /\ p[2] \in Seq(T) /\ seqs[p[1]] \in Seq(T)
      BY <1>1
    <3>2. p[2] \o seqs[p[1]] \in Seq(T)
      BY <3>1
    <3> QED
      BY <1>1, <3>1, <3>2
  <2> QED
    BY <2>1 DEF IsStep
<1>3. \A i \in 1 .. n, s \in Seq(T) : step[<<i, s>>] = IF i = 1 THEN seqs[1] ELSE s \o seqs[i]
  OBVIOUS
<1> HIDE DEF n, step
<1>4. PICK iter : IsFold(iter, n, Seq(T), <<>>, step)
  BY <1>1, <1>2, FoldExists
<1> DEFINE flat == [i \in 1 .. n |-> iter[1 .. i]]
<1>5. ASSUME NEW i \in 1 .. n
      PROVE  flat[i] = IF i = 1 THEN seqs[i] ELSE flat[i - 1] \o seqs[i]
  <2>1. /\ 1 .. i \in SUBSET (1 .. n) /\ 1 .. i # {}
        /\ Max(1 .. i) = i /\ (1 .. i) \ {i} = 1 .. i - 1
    BY <1>1, Initial
  <2>2. iter[1 .. i] = step[<<i, iter[1 .. i - 1]>>] /\ iter[1 .. i - 1] \in Seq(T)
    BY <1>4, <2>1 DEF IsFold
  <2>3. iter[1 .. i] = IF i = 1 THEN seqs[1] ELSE iter[1 .. i - 1] \o seqs[i]
    BY <1>3, <2>2
  <2>4. i # 1 => i - 1 \in 1 .. n
    BY <1>1
  <2> QED
    BY <2>3, <2>4
<1>6. IsFlattening(flat, seqs)
  <2>1. DOMAIN flat = 1 .. n /\ flat = [i \in DOMAIN flat |-> flat[i]]
    OBVIOUS
  <2> HIDE DEF flat
  <2> QED
    BY <1>5, <2>1 DEF IsFlattening, n
<1> QED
  BY <1>6

LEMMA FlattenRange ==
  ASSUME NEW T, NEW seqs \in Seq(Seq(T)), seqs # <<>>
  PROVE  /\ FlattenSeq(seqs) \in Seq(T)
         /\ \A i \in DOMAIN seqs : ToSet(seqs[i]) \subseteq ToSet(FlattenSeq(seqs))
<1> DEFINE n == Len(seqs)
<1>1. n \in Nat /\ n # 0 /\ DOMAIN seqs = 1 .. n /\ \A i \in 1 .. n : seqs[i] \in Seq(T)
  OBVIOUS
<1>2. PICK flat : IsFlattening(flat, seqs) /\ FlattenSeq(seqs) = flat[n]
  BY <1>1, FlattenExists, FlattenUnfolds
<1> DEFINE Good(k) == /\ flat[k] \in Seq(T)
                      /\ \A i \in 1 .. k : ToSet(seqs[i]) \subseteq ToSet(flat[k])
           S == {k \in 0 .. n : k # 0 => Good(k)}
<1>3. 0 \in S
  BY <1>1
<1>4. ASSUME NEW k \in 0 .. n - 1, k \in S
      PROVE  k + 1 \in S
  <2>1. k + 1 \in 1 .. n /\ k + 1 \in 0 .. n /\ (k + 1) - 1 = k
    BY <1>1
  <2>2. flat[k + 1] = IF k + 1 = 1 THEN seqs[k + 1] ELSE flat[k] \o seqs[k + 1]
    BY <1>2, <2>1 DEF IsFlattening
  <2>3. CASE k = 0
    <3>1. flat[1] = seqs[1] /\ seqs[1] \in Seq(T)
      BY <1>1, <2>1, <2>2, <2>3
    <3>2. Good(1)
      BY <3>1
    <3> QED
      BY <2>1, <2>3, <3>2
  <2>4. CASE k # 0
    <3>1. Good(k) /\ seqs[k + 1] \in Seq(T) /\ flat[k + 1] = flat[k] \o seqs[k + 1]
      <4>1. Good(k)
        BY <1>4, <2>4
      <4>2. seqs[k + 1] \in Seq(T)
        BY <1>1, <2>1
      <4>3. k + 1 # 1
        BY <2>4
      <4>4. flat[k + 1] = flat[k] \o seqs[k + 1]
        BY <2>2, <4>3
      <4> QED
        BY <4>1, <4>2, <4>4
    <3>2. /\ flat[k + 1] \in Seq(T)
          /\ ToSet(flat[k]) \subseteq ToSet(flat[k + 1])
          /\ ToSet(seqs[k + 1]) \subseteq ToSet(flat[k + 1])
      <4> DEFINE s == flat[k]
                 t == seqs[k + 1]
      <4>1. s \in Seq(T) /\ t \in Seq(T)
        BY <3>1
      <4> HIDE DEF s, t
      <4>2. /\ s \o t \in Seq(T)
            /\ ToSet(s) \subseteq ToSet(s \o t) /\ ToSet(t) \subseteq ToSet(s \o t)
        <5>0. DOMAIN s = 1 .. Len(s) /\ DOMAIN t = 1 .. Len(t)
          BY <4>1
        <5>1. /\ s \o t \in Seq(T) /\ Len(s \o t) = Len(s) + Len(t)
              /\ \A i \in 1 .. Len(s) : (s \o t)[i] = s[i]
              /\ \A i \in 1 .. Len(t) : (s \o t)[Len(s) + i] = t[i]
          BY <4>1
        <5>2. /\ \A i \in 1 .. Len(s) : i \in DOMAIN (s \o t)
              /\ \A i \in 1 .. Len(t) : Len(s) + i \in DOMAIN (s \o t)
          <6>1. Len(s) \in Nat /\ Len(t) \in Nat /\ DOMAIN (s \o t) = 1 .. Len(s) + Len(t)
            BY <4>1, <5>1
          <6> QED
            BY <6>1
        <5>3. ASSUME NEW u \in ToSet(s) PROVE u \in ToSet(s \o t)
          <6>1. PICK i \in 1 .. Len(s) : u = s[i]
            BY <5>0 DEF ToSet
          <6>2. i \in DOMAIN (s \o t)
            BY <5>2, <6>1
          <6>3. u = (s \o t)[i]
            BY <5>1, <6>1
          <6> QED
            BY <6>2, <6>3 DEF ToSet
        <5>4. ASSUME NEW u \in ToSet(t) PROVE u \in ToSet(s \o t)
          <6>1. PICK i \in 1 .. Len(t) : u = t[i]
            BY <5>0 DEF ToSet
          <6>2. Len(s) + i \in DOMAIN (s \o t)
            BY <5>2, <6>1
          <6>3. u = (s \o t)[Len(s) + i]
            BY <5>1, <6>1
          <6> QED
            BY <6>2, <6>3 DEF ToSet
        <5> QED
          BY <5>1, <5>3, <5>4
      <4> QED
        BY <3>1, <4>2 DEF s, t
    <3>3. \A i \in 1 .. k + 1 : i \in 1 .. k \/ i = k + 1
      BY <2>1
    <3>4. Good(k + 1)
      BY <3>1, <3>2, <3>3
    <3> QED
      BY <2>1, <3>4
  <2> QED
    BY <2>3, <2>4
<1>5. n \in S
  <2> HIDE DEF S, n
  <2>1. 0 .. n \subseteq S
    BY <1>1, <1>3, <1>4, InductUpTo
  <2> QED
    BY <1>1, <2>1
<1> QED
  BY <1>1, <1>2, <1>5

-----------------------------------------------------------------------------
(* Recursion over a tree: a node's value is made of the values of the      *)
(* nodes nested in it, whose rank is lower.                                *)
IsTree(nested, rank, bound, T) ==
  /\ nested \in [T -> Seq(T)] /\ rank \in [T -> 0 .. bound]
  /\ \A t \in T : \A i \in DOMAIN nested[t] : rank[nested[t][i]] < rank[t]
ValuesBelow(f, nested, t) == [i \in DOMAIN nested[t] |-> f[nested[t][i]]]
IsTreeFold(f, nested, T, V, step) ==
  f \in [T -> V] /\ \A t \in T : f[t] = step[<<t, ValuesBelow(f, nested, t)>>]

LEMMA ValuesBelowType ==
  ASSUME NEW T, NEW V, NEW nested \in [T -> Seq(T)], NEW f \in [T -> V], NEW t \in T
  PROVE  ValuesBelow(f, nested, t) \in Seq(V)
<1>1. nested[t] \in Seq(T) /\ \A i \in DOMAIN nested[t] : f[nested[t][i]] \in V
  OBVIOUS
<1>2. DOMAIN nested[t] = 1 .. Len(nested[t]) /\ Len(nested[t]) \in Nat
  BY <1>1
<1> QED
  BY <1>1, <1>2 DEF ValuesBelow

LEMMA TreeFoldExists ==
  ASSUME NEW T, NEW V, NEW nested, NEW rank, NEW bound \in Nat, IsTree(nested, rank, bound, T),
         NEW step \in [T \X Seq(V) -> V]
  PROVE  \E f : IsTreeFold(f, nested, T, V, step)
<1> DEFINE Right(f, t) == f[t] = step[<<t, ValuesBelow(f, nested, t)>>]
           RightUpTo(k) == \E f \in [T -> V] : \A t \in T : rank[t] < k => Right(f, t)
           S == {k \in Nat : RightUpTo(k)}
<1>1. nested \in [T -> Seq(T)] /\ \A t \in T : rank[t] \in 0 .. bound
  BY DEF IsTree
<1>2. RightUpTo(0)
  <2> DEFINE f == [t \in T |-> step[<<t, <<>> >>]]
  <2>1. ASSUME NEW t \in T PROVE step[<<t, <<>> >>] \in V
    <3>1. <<>> \in Seq(V)
      OBVIOUS
    <3>2. <<t, <<>> >> \in T \X Seq(V)
      BY <3>1
    <3> QED
      BY <3>2
  <2>2. f \in [T -> V]
    BY <2>1
  <2> HIDE DEF f
  <2>3. \A t \in T : rank[t] < 0 => Right(f, t)
    BY <1>1
  <2> QED
    BY <2>2, <2>3
<1>3. ASSUME NEW k \in Nat, RightUpTo(k)
      PROVE  RightUpTo(k + 1)
  <2>1. PICK f \in [T -> V] : \A t \in T : rank[t] < k => Right(f, t)
    BY <1>3
  <2> DEFINE g == [t \in T |-> step[<<t, ValuesBelow(f, nested, t)>>]]
  <2>2. g \in [T -> V]
    <3>1. \A t \in T : ValuesBelow(f, nested, t) \in Seq(V)
      BY <1>1, ValuesBelowType
    <3>2. \A t \in T : step[<<t, ValuesBelow(f, nested, t)>>] \in V
      BY <3>1
    <3> QED
      BY <3>2
  <2>3. ASSUME NEW t \in T, rank[t] < k + 1
        PROVE  Right(g, t)
    <3>1. ASSUME NEW i \in DOMAIN nested[t]
          PROVE  g[nested[t][i]] = f[nested[t][i]]
      <4>1. nested[t][i] \in T /\ rank[nested[t][i]] < rank[t]
        BY <1>1, <3>1 DEF IsTree
      <4>2. rank[nested[t][i]] < k
        BY <1>1, <2>3, <4>1
      <4>3. Right(f, nested[t][i])
        BY <2>1, <4>1, <4>2
      <4> QED
        BY <4>1, <4>3
    <3>2. ValuesBelow(g, nested, t) = ValuesBelow(f, nested, t)
      <4> HIDE DEF g
      <4> QED
        BY <3>1 DEF ValuesBelow
    <3> QED
      BY <3>2
  <2> HIDE DEF g, Right
  <2> QED
    BY <2>2, <2>3
<1>4. 0 \in S /\ \A k \in Nat : k \in S => k + 1 \in S
  <2> HIDE DEF RightUpTo
  <2> QED
    BY <1>2, <1>3
<1>5. bound + 1 \in S
  <2> HIDE DEF S
  <2> QED
    BY <1>4, Induct
<1>6. PICK f \in [T -> V] : \A t \in T : rank[t] < bound + 1 => Right(f, t)
  BY <1>5
<1>7. \A t \in T : Right(f, t)
  <2> HIDE DEF Right
  <2> QED
    BY <1>1, <1>6
<1> QED
  BY <1>7 DEF IsTreeFold

(* What goes over from the nested nodes to a node holds of all nodes. *)
LEMMA TreeInduct ==
  ASSUME NEW T, NEW nested, NEW rank, NEW bound \in Nat, IsTree(nested, rank, bound, T), NEW S,
         \A t \in T : (\A i \in DOMAIN nested[t] : nested[t][i] \in S) => t \in S
  PROVE  T \subseteq S
<1> SUFFICES ASSUME T \ S # {} PROVE FALSE
  OBVIOUS
<1>1. \A t \in T : rank[t] \in Nat
  BY DEF IsTree
<1> DEFINE ranks == {rank[t] : t \in T \ S}
<1>2. ranks \in SUBSET Nat /\ ranks # {}
  BY <1>1
<1>3. PICK r \in ranks : \A q \in ranks : r <= q
  <2> HIDE DEF ranks
  <2> QED
    BY <1>2, Least
<1>4. PICK t \in T \ S : r = rank[t]
  OBVIOUS
<1>5. PICK i \in DOMAIN nested[t] : nested[t][i] \notin S
  BY <1>4
<1>6. nested[t][i] \in T \ S /\ rank[nested[t][i]] < rank[t]
  BY <1>4, <1>5 DEF IsTree
<1>7. rank[t] <= rank[nested[t][i]]
  BY <1>3, <1>4, <1>6
<1> QED
  BY <1>1, <1>4, <1>6, <1>7

-----------------------------------------------------------------------------
(* FlattenSeq: exactly the elements of the sequences, and sorted when the  *)
(* sequences are, each by itself and one behind the other.                 *)
Sorted(s, R) == \A i, j \in DOMAIN s : i < j => <<s[i], s[j]>> \in R
AllBefore(s, t, R) == \A x \in ToSet(s), y \in ToSet(t) : <<x, y>> \in R

LEMMA ConcatFacts ==
  ASSUME NEW T, NEW s \in Seq(T), NEW t \in Seq(T), NEW R
  PROVE  /\ s \o t \in Seq(T) /\ ToSet(s \o t) = ToSet(s) \cup ToSet(t)
         /\ Sorted(s, R) /\ Sorted(t, R) /\ AllBefore(s, t, R) => Sorted(s \o t, R)
<1>1. /\ s \o t \in Seq(T) /\ Len(s \o t) = Len(s) + Len(t)
      /\ \A i \in 1 .. Len(s) : (s \o t)[i] = s[i]
      /\ \A i \in 1 .. Len(t) : (s \o t)[Len(s) + i] = t[i]
  OBVIOUS
<1> DEFINE m == Len(s)  n == Len(t)  u == s \o t
<1>2. /\ m \in Nat /\ n \in Nat /\ DOMAIN s = 1 .. m /\ DOMAIN t = 1 .. n /\ DOMAIN u = 1 .. m + n
      /\ \A i \in 1 .. m : u[i] = s[i]
      /\ \A i \in 1 .. n : u[m + i] = t[i]
  BY <1>1
<1>3. ToSet(s) = {s[i] : i \in 1 .. m} /\ ToSet(t) = {t[i] : i \in 1 .. n} /\ ToSet(u) = {u[i] : i \in 1 .. m + n}
  BY <1>2 DEF ToSet
<1> HIDE DEF m, n, u
<1>4. ASSUME NEW i \in 1 .. m + n
      PROVE  \/ i \in 1 .. m /\ u[i] = s[i]
             \/ i - m \in 1 .. n /\ u[i] = t[i - m]
  <2>1. CASE i <= m
    BY <1>2, <2>1
  <2>2. CASE ~(i <= m)
    <3>1. i - m \in 1 .. n /\ m + (i - m) = i
      BY <1>2, <2>2
    <3> QED
      BY <1>2, <3>1
  <2> QED
    BY <2>1, <2>2
<1>5. ToSet(u) = ToSet(s) \cup ToSet(t)
  <2>1. ToSet(u) \subseteq ToSet(s) \cup ToSet(t)
    BY <1>3, <1>4
  <2>2. \A i \in 1 .. m : s[i] \in ToSet(u)
    <3>1. \A i \in 1 .. m : i \in 1 .. m + n
      BY <1>2
    <3> QED
      BY <1>2, <1>3, <3>1
  <2>3. \A i \in 1 .. n : t[i] \in ToSet(u)
    <3>1. \A i \in 1 .. n : m + i \in 1 .. m + n
      BY <1>2
    <3> QED
      BY <1>2, <1>3, <3>1
  <2> QED
    BY <1>3, <2>1, <2>2, <2>3
<1>6. ASSUME Sorted(s, R), Sorted(t, R), AllBefore(s, t, R),
             NEW i \in 1 .. m + n, NEW j \in 1 .. m + n, i < j
      PROVE  <<u[i], u[j]>> \in R
  <2>1. CASE j <= m
    <3>1. i \in 1 .. m /\ j \in 1 .. m
      BY <1>2, <1>6, <2>1
    <3> QED
      BY <1>2, <1>6, <3>1 DEF Sorted
  <2>2. CASE m < i
    <3>1. i - m \in 1 .. n /\ j - m \in 1 .. n /\ i - m < j - m /\ m + (i - m) = i /\ m + (j - m) = j
      BY <1>2, <1>6, <2>2
    <3>2. u[i] = t[i - m] /\ u[j] = t[j - m]
      BY <1>2, <3>1
    <3> QED
      BY <1>2, <1>6, <3>1, <3>2 DEF Sorted
  <2>3. CASE i <= m /\ m < j
    <3>1. i \in 1 .. m /\ j - m \in 1 .. n /\ m + (j - m) = j
      BY <1>2, <1>6, <2>3
    <3>2. u[i] = s[i] /\ u[j] = t[j - m]
      BY <1>2, <3>1
    <3>3. u[i] \in ToSet(s) /\ u[j] \in ToSet(t)
      BY <1>3, <3>1, <3>2
    <3> QED
      BY <1>6, <3>3 DEF AllBefore
  <2> QED
    BY <1>2, <2>1, <2>2, <2>3
<1>7. Sorted(s, R) /\ Sorted(t, R) /\ AllBefore(s, t, R) => Sorted(u, R)
  BY <1>2, <1>6 DEF Sorted
<1> QED
  BY <1>1, <1>5, <1>7 DEF u

LEMMA FlattenFacts ==
  ASSUME NEW T, NEW seqs \in Seq(Seq(T)), NEW R
  PROVE  /\ FlattenSeq(seqs) \in Seq(T)
         /\ ToSet(FlattenSeq(seqs)) = UNION {ToSet(seqs[i]) : i \in DOMAIN seqs}
         /\ /\ \A i \in DOMAIN seqs : Sorted(seqs[i], R)
            /\ \A i, j \in DOMAIN seqs : i < j => AllBefore(seqs[i], seqs[j], R)
            => Sorted(FlattenSeq(seqs), R)
<1> DEFINE n == Len(seqs)
<1>1. n \in Nat /\ DOMAIN seqs = 1 .. n /\ \A i \in 1 .. n : seqs[i] \in Seq(T)
  OBVIOUS
<1>2. CASE seqs = <<>>
  <2>1. FlattenSeq(seqs) = <<>>
    BY <1>2 DEF FlattenSeq
  <2>2. <<>> \in Seq(T) /\ DOMAIN seqs = {} /\ DOMAIN FlattenSeq(seqs) = {} /\ ToSet(FlattenSeq(seqs)) = {}
    BY <1>2, <2>1 DEF ToSet
  <2> QED
    BY <2>1, <2>2 DEF Sorted
<1>3. CASE seqs # <<>>
  <2>1. n # 0
    BY <1>3
  <2>2. PICK flat : IsFlattening(flat, seqs) /\ FlattenSeq(seqs) = flat[n]
    BY <2>1, FlattenExists, FlattenUnfolds
  <2>3. \A i \in 1 .. n : flat[i] = IF i = 1 THEN seqs[i] ELSE flat[i - 1] \o seqs[i]
    BY <2>2 DEF IsFlattening
  <2> DEFINE Union(k) == UNION {ToSet(seqs[i]) : i \in 1 .. k}
             SortedUpTo(k) == /\ \A i \in 1 .. k : Sorted(seqs[i], R)
                              /\ \A i, j \in 1 .. k : i < j => AllBefore(seqs[i], seqs[j], R)
             Good(k) == /\ flat[k] \in Seq(T) /\ ToSet(flat[k]) = Union(k)
                        /\ SortedUpTo(k) => Sorted(flat[k], R)
             S == {k \in 0 .. n : k # 0 => Good(k)}
  <2>4. 0 \in S
    BY <1>1
  <2> HIDE DEF n
  <2>5. ASSUME NEW k \in 0 .. n - 1, k \in S
        PROVE  k + 1 \in S
    <3>1. k + 1 \in 1 .. n /\ k + 1 \in 0 .. n /\ (k + 1) - 1 = k /\ k \in Nat
      BY <1>1
    <3>2. flat[k + 1] = IF k + 1 = 1 THEN seqs[k + 1] ELSE flat[k] \o seqs[k + 1]
      BY <2>3, <3>1
    <3>3. CASE k = 0
      <4>1. flat[1] = seqs[1] /\ seqs[1] \in Seq(T)
        BY <1>1, <3>1, <3>2, <3>3
      <4>2. 1 .. 1 = {1}
        OBVIOUS
      <4>3. Union(1) = ToSet(seqs[1])
        BY <4>2
      <4>4. SortedUpTo(1) => Sorted(seqs[1], R)
        BY <4>2
      <4>5. Good(1)
        BY <4>1, <4>3, <4>4
      <4> HIDE DEF Good
      <4>6. k + 1 = 1
        BY <3>3
      <4> QED
        BY <3>1, <4>5, <4>6
    <3>4. CASE k # 0
      <4>1. Good(k) /\ seqs[k + 1] \in Seq(T) /\ flat[k + 1] = flat[k] \o seqs[k + 1]
        <5>1. Good(k)
          BY <2>5, <3>4
        <5>2. seqs[k + 1] \in Seq(T)
          BY <1>1, <3>1
        <5>3. k + 1 # 1
          BY <3>1, <3>4
        <5> QED
          BY <3>2, <5>1, <5>2, <5>3
      <4> DEFINE s == flat[k]
                 t == seqs[k + 1]
      <4>2. s \in Seq(T) /\ t \in Seq(T)
        BY <4>1
      <4>3. /\ flat[k + 1] \in Seq(T) /\ ToSet(flat[k + 1]) = ToSet(s) \cup ToSet(t)
            /\ Sorted(s, R) /\ Sorted(t, R) /\ AllBefore(s, t, R) => Sorted(flat[k + 1], R)
        <5> HIDE DEF s, t
        <5>1. /\ s \o t \in Seq(T) /\ ToSet(s \o t) = ToSet(s) \cup ToSet(t)
              /\ Sorted(s, R) /\ Sorted(t, R) /\ AllBefore(s, t, R) => Sorted(s \o t, R)
          BY <4>2, ConcatFacts
        <5>2. flat[k + 1] = s \o t
          BY <4>1 DEF s, t
        <5> QED
          BY <5>1, <5>2
      <4>4. 1 .. k + 1 = (1 .. k) \cup {k + 1}
        BY <3>1
      <4>5. Union(k + 1) = Union(k) \cup ToSet(seqs[k + 1])
        BY <4>4
      <4>6. ToSet(flat[k + 1]) = Union(k + 1)
        BY <4>1, <4>3, <4>5
      <4>7. ASSUME SortedUpTo(k + 1) PROVE Sorted(flat[k + 1], R)
        <5>1. SortedUpTo(k) /\ Sorted(seqs[k + 1], R)
          BY <4>4, <4>7
        <5>2. \A i \in 1 .. k : i < k + 1
          BY <3>1
        <5>3. \A i \in 1 .. k : AllBefore(seqs[i], seqs[k + 1], R)
          BY <4>4, <4>7, <5>2
        <5>4. AllBefore(flat[k], seqs[k + 1], R)
          BY <4>1, <5>3 DEF AllBefore
        <5> QED
          BY <4>1, <4>3, <5>1, <5>4
      <4>8. Good(k + 1)
        BY <4>3, <4>6, <4>7
      <4> QED
        BY <3>1, <4>8
    <3> QED
      BY <3>3, <3>4
  <2>6. Good(n)
    <3> HIDE DEF S, Good
    <3>1. 0 .. n \subseteq S
      BY <1>1, <2>4, <2>5, InductUpTo
    <3>2. n \in S
      BY <1>1, <3>1
    <3> QED
      BY <2>1, <3>2 DEF S, n
  <2> QED
    BY <1>1, <2>2, <2>6
<1> QED
  BY <1>2, <1>3

(* Two increasing sequences of the same numbers are the same. *)
LEMMA IncreasingUnique ==
  ASSUME NEW s \in Seq(Nat), NEW t \in Seq(Nat), ToSet(s) = ToSet(t),
         \A i, j \in DOMAIN s : i < j => s[i] < s[j],
         \A i, j \in DOMAIN t : i < j => t[i] < t[j]
  PROVE  s = t
<1> DEFINE m == Len(s)  n == Len(t)
           Same(k) == /\ k \in 1 .. m <=> k \in 1 .. n
                      /\ k \in 1 .. m => s[k] = t[k]
           Differ == {k \in Nat \ {0} : ~Same(k)}
<1>1. /\ m \in Nat /\ n \in Nat /\ DOMAIN s = 1 .. m /\ DOMAIN t = 1 .. n
      /\ \A k \in 1 .. m : s[k] \in Nat
      /\ \A k \in 1 .. n : t[k] \in Nat
  OBVIOUS
<1>2. /\ \A i \in 1 .. m : \E j \in 1 .. n : t[j] = s[i]
      /\ \A j \in 1 .. n : \E i \in 1 .. m : s[i] = t[j]
      /\ \A i, j \in 1 .. m : i < j => s[i] < s[j]
      /\ \A i, j \in 1 .. n : i < j => t[i] < t[j]
  <2>1. ToSet(s) = {s[i] : i \in 1 .. m} /\ ToSet(t) = {t[j] : j \in 1 .. n}
    BY <1>1 DEF ToSet
  <2> HIDE DEF m, n
  <2> QED
    BY <1>1, <2>1
<1> HIDE DEF m, n
<1>3. Differ = {}
  <2> SUFFICES ASSUME Differ # {} PROVE FALSE
    OBVIOUS
  <2>1. PICK k \in Differ : \A d \in Differ : k <= d
    <3>1. Differ \in SUBSET Nat
      OBVIOUS
    <3> HIDE DEF Differ
    <3> QED
      BY <3>1, Least
  <2>2. k \in Nat /\ k # 0 /\ ~Same(k) /\ \A j \in 1 .. k - 1 : Same(j)
    <3>1. k \in Nat /\ k # 0 /\ ~Same(k)
      OBVIOUS
    <3>2. ASSUME NEW j \in 1 .. k - 1 PROVE Same(j)
      <4>1. j \in Nat \ {0} /\ ~(k <= j)
        BY <3>1
      <4> QED
        BY <2>1, <4>1
    <3> QED
      BY <3>1, <3>2
  <2> HIDE DEF Differ
  <2>3. ASSUME k \in 1 .. m PROVE k \in 1 .. n /\ t[k] <= s[k]
    <3>1. PICK j \in 1 .. n : t[j] = s[k]
      BY <1>2, <2>3
    <3>2. ~(j < k)
      <4> SUFFICES ASSUME j < k PROVE FALSE
        OBVIOUS
      <4>1. j \in 1 .. k - 1
        BY <1>1, <2>2
      <4>2. j \in 1 .. m /\ s[j] = t[j]
        BY <2>2, <3>1, <4>1
      <4>3. s[j] < s[k] /\ s[j] \in Nat
        BY <1>1, <1>2, <2>3, <4>2
      <4> QED
        BY <3>1, <4>2, <4>3
    <3>3. k \in 1 .. n /\ (k = j \/ k < j)
      BY <1>1, <2>2, <3>2
    <3>4. t[k] = t[j] \/ t[k] < t[j]
      BY <1>2, <3>3
    <3>5. t[k] \in Nat /\ t[j] \in Nat
      BY <1>1, <3>3
    <3> QED
      BY <3>1, <3>3, <3>4, <3>5
  <2>4. ASSUME k \in 1 .. n PROVE k \in 1 .. m /\ s[k] <= t[k]
    <3>1. PICK j \in 1 .. m : s[j] = t[k]
      BY <1>2, <2>4
    <3>2. ~(j < k)
      <4> SUFFICES ASSUME j < k PROVE FALSE
        OBVIOUS
      <4>1. j \in 1 .. k - 1
        BY <1>1, <2>2
      <4>2. j \in 1 .. n /\ s[j] = t[j]
        BY <2>2, <3>1, <4>1
      <4>3. t[j] < t[k] /\ t[j] \in Nat
        BY <1>1, <1>2, <2>4, <4>2
      <4> QED
        BY <3>1, <4>2, <4>3
    <3>3. k \in 1 .. m /\ (k = j \/ k < j)
      BY <1>1, <2>2, <3>2
    <3>4. s[k] = s[j] \/ s[k] < s[j]
      BY <1>2, <3>3
    <3>5. s[k] \in Nat /\ s[j] \in Nat
      BY <1>1, <3>3
    <3> QED
      BY <3>1, <3>3, <3>4, <3>5
  <2>5. k \in 1 .. m => s[k] \in Nat /\ t[k] \in Nat
    BY <1>1, <2>3
  <2> QED
    BY <2>2, <2>3, <2>4, <2>5
<1>4. \A k \in Nat \ {0} : Same(k)
  BY <1>3
<1>5. m = n
  <2>1. m # 0 => m \in 1 .. n
    BY <1>1, <1>4
  <2>2. n # 0 => n \in 1 .. m
    BY <1>1, <1>4
  <2> QED
    BY <1>1, <2>1, <2>2
<1>6. \A k \in 1 .. m : s[k] = t[k]
  BY <1>1, <1>4
<1> QED
  BY <1>1, <1>5, <1>6

=============================================================================
