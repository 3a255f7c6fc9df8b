----------------------- MODULE RecordProjectionProofs -----------------------
(***************************************************************************)
(* Theorems about RecordProjection, for every response and every limit on  *)
(* depth, entities and collections.                                        *)
(***************************************************************************)
EXTENDS RecordView, FoldInduction, SequenceTheorems

(* What is known of the response, at any time. *)
LEMMA DocumentFacts ==
  ASSUME doc \in Documents
  PROVE  /\ doc \in DocumentType
         /\ \A n \in Objects : /\ doc.entities[n] \in Seq(Items)
                               /\ doc.form[n] = "absent" => doc.entities[n] = <<>>
                               /\ doc.kind[n] \in Kinds
                               /\ Members(n) \in Seq(ClassesOf(doc.kind[n]))
<1>1. doc \in DocumentType
  BY DocumentsAssumption
<1>2. \A n \in Objects : /\ doc.entities[n] \in Seq(Items)
                         /\ doc.form[n] = "absent" => doc.entities[n] = <<>>
                         /\ doc.kind[n] \in Kinds
                         /\ doc.members[n] \in Seq(ClassesOf(doc.kind[n]))
  BY <1>1, DocumentsAssumption DEF DocumentType
<1>3. ASSUME NEW n \in Objects PROVE Members(n) \in Seq(ClassesOf(doc.kind[n]))
  <2>1. CASE Members(n) = <<>>
    BY <2>1
  <2>2. CASE Members(n) = doc.members[n]
    BY <1>2, <2>2
  <2> QED
    BY <2>1, <2>2 DEF Members
<1> QED
  BY <1>1, <1>2, <1>3

(* limited_size never goes past the end, and cuts off only what is longer. *)
LEMMA LimitedSizeBounds ==
  ASSUME NEW S, NEW s \in Seq(S)
  PROVE  /\ LimitedSize(s) \in 0 .. Len(s)
         /\ LimitedSize(s) # Len(s) => Len(s) > MaxItems
BY LimitsAssumption DEF LimitedSize

(* The loop of entities() reads an item of the list. *)
LEMMA ItemIsListed ==
  ASSUME doc \in Documents, BudgetKept, HasItem
  PROVE  /\ stack # <<>> /\ Frame = stack[Len(stack)] /\ Frame \in Frames
         /\ Frame.next \in 1 .. Len(Listed)
         /\ Item \in Items
<1>1. stack \in Seq(Frames) /\ stack # <<>> /\ Frame = stack[Len(stack)] /\ Frame \in Frames
  BY DEF HasItem, BudgetKept, Frame, Last
<1>2. Listed \in Seq(Items)
  BY <1>1, DocumentFacts DEF Listed, Frames
<1>3. Frame.next \in 1 .. Len(Listed)
  BY <1>1, <1>2, LimitedSizeBounds DEF HasItem, Frames
<1> QED
  BY <1>1, <1>2, <1>3 DEF Item

LEMMA AdvancedType ==
  ASSUME BudgetKept, stack # <<>>
  PROVE  /\ Advanced \in Seq(Frames) /\ Len(Advanced) = Len(stack)
         /\ \A k \in 1 .. Len(stack) :
              /\ Advanced[k].list = stack[k].list
              /\ Advanced[k].next = IF k = Len(stack) THEN stack[k].next + 1 ELSE stack[k].next
<1>1. stack \in Seq(Frames) /\ Len(stack) \in 1 .. Len(stack)
  BY DEF BudgetKept
<1>2. stack[Len(stack)] \in Frames
  BY <1>1
<1> QED
  BY <1>1, <1>2 DEF Advanced, Frames

LEMMA FrontType ==
  ASSUME BudgetKept, stack # <<>>
  PROVE  /\ Front(stack) \in Seq(Frames) /\ Len(Front(stack)) = Len(stack) - 1
         /\ \A k \in 1 .. Len(stack) - 1 : Front(stack)[k] = stack[k]
<1>1. /\ stack \in Seq(Frames) /\ Len(stack) - 1 \in Nat
      /\ \A i \in 1 .. Len(stack) - 1 : stack[i] \in Frames
  BY DEF BudgetKept
<1>2. /\ Front(stack) \in Seq(Frames)
      /\ Len(Front(stack)) = IF 1 <= Len(stack) - 1 THEN Len(stack) - 1 - 1 + 1 ELSE 0
      /\ \A i \in 1 .. Len(stack) - 1 - 1 + 1 : Front(stack)[i] = stack[1 + i - 1]
  BY <1>1, SubSeqProperties DEF Front
<1> DEFINE size == Len(stack)  front == Front(stack)
<1>3. size \in Nat /\ size >= 1
  BY <1>1
<1>4. /\ Len(front) = IF 1 <= size - 1 THEN size - 1 - 1 + 1 ELSE 0
      /\ \A i \in 1 .. size - 1 - 1 + 1 : front[i] = stack[1 + i - 1]
  BY <1>2
<1> HIDE DEF size, front
<1>5. Len(front) = size - 1
  BY <1>3, <1>4
<1>6. \A k \in 1 .. size - 1 : front[k] = stack[k]
  BY <1>3, <1>4
<1> QED
  BY <1>2, <1>5, <1>6 DEF size, front

LEMMA ProjectMembersType ==
  ASSUME doc \in Documents, BudgetKept, NEW n \in Objects,
         NEW also \in SUBSET (Objects \X Subjects \X Nat), ProjectMembers(n, also)
  PROVE  /\ members' \subseteq Objects \X Nat
         /\ warnings' \subseteq Objects \X Subjects \X Nat
         /\ redacted' \in BOOLEAN
<1>1. Members(n) \in Seq(ClassesOf(doc.kind[n]))
  BY DocumentFacts
<1>2. Projected(n) \subseteq Nat
  BY <1>1, LimitedSizeBounds DEF Projected
<1> QED
  BY <1>1, <1>2 DEF ProjectMembers, BudgetKept, TooLong, Subjects

-----------------------------------------------------------------------------
(* The inductive invariant.  What is reported or kept stays so; what is    *)
(* not yet accounted for is ahead in a list under way, or in the list that *)
(* comes next.                                                             *)
MembersAccounted(n) ==
  \A i \in DOMAIN Members(n) :
    \/ <<n, i>> \in members \/ Reported(n, "member", "members", i)
    \/ PassedOver(doc.kind[n], Members(n)[i])
EntityAccounted(n, i) ==
  doc.entities[n][i] \in ToSet(kept) \/ Reported(n, "entity", "entities", i)
EntitiesAccounted(n) == \A i \in DOMAIN doc.entities[n] : EntityAccounted(n, i)
UnderWay(n) == (pc \in {"start", "entities"} /\ at = n) \/ \E k \in 1 .. Len(stack) : stack[k].list = n

Behind(list, next) ==
  /\ \A i \in DOMAIN doc.entities[list] : i < next => EntityAccounted(list, i)
  /\ Len(doc.entities[list]) > MaxItems => <<list, "entities", 0>> \in warnings
BehindIsAccounted ==
  \A k \in 1 .. Len(stack) : \A list, next :
    stack[k].list = list /\ stack[k].next = next => Behind(list, next)
IInv ==
  /\ doc \in Documents /\ BudgetKept
  /\ pc = "start" => at = Root /\ kept = <<>>
  /\ pc \in {"range", "done"} => stack = <<>>
  /\ pc = "done" /\ doc.network => RangeReported
  /\ pc \notin {"start", "failed"} => \A n \in InRecord : MembersAccounted(n)
  /\ pc # "failed" => \A n \in InRecord : UnderWay(n) \/ EntitiesAccounted(n)
  /\ BehindIsAccounted

LEMMA InitIInv == Init => IInv
<1> SUFFICES ASSUME Init PROVE IInv
  OBVIOUS
<1>1. doc \in DocumentType
  BY DocumentsAssumption DEF Init
<1>2. BudgetKept
  <2>1. members \subseteq Objects \X Nat /\ warnings \subseteq Objects \X Subjects \X Nat
    BY DEF Init
  <2>2. stack \in Seq(Frames) /\ Len(stack) <= MaxDepth /\ kept \in Seq(Items) /\ Len(kept) <= MaxEntities
    BY LimitsAssumption DEF Init
  <2> QED
    BY <1>1, <2>1, <2>2 DEF Init, BudgetKept, Objects
<1>3. \A n \in InRecord : UnderWay(n)
  BY DEF Init, InRecord, UnderWay, ToSet
<1> QED
  BY <1>2, <1>3 DEF Init, IInv, BehindIsAccounted

(* Every item is kept, warned about, or one of the two exceptions. *)
LEMMA KeptOrWarned ==
  ASSUME NEW kind \in Kinds, NEW item \in ClassesOf(kind)
  PROVE  Keeps(kind, item) \/ Warns(kind, item) \/ PassedOver(kind, item)
<1>1. item \in Classes
  BY DEF ClassesOf
<1>2. CASE kind = "strings"
  BY <1>2 DEF ClassesOf, Keeps, Warns, PassedOver
<1>3. CASE kind # "strings"
  BY <1>1, <1>3 DEF ClassesOf, Classes, Keeps, Warns, PassedOver, IsObject, Kinds,
                    KindsOfEntities, KindsOfRoot
<1> QED
  BY <1>2, <1>3

LEMMA ProjectMembersAccounts ==
  ASSUME doc \in Documents, BudgetKept, NEW n \in Objects, NEW also,
         ProjectMembers(n, also), doc' = doc
  PROVE  /\ members \subseteq members' /\ warnings \subseteq warnings'
         /\ also \subseteq warnings'
         /\ MembersAccounted(n)'
<1>1. doc.kind[n] \in Kinds /\ Members(n) \in Seq(ClassesOf(doc.kind[n]))
  BY DocumentFacts
<1>2. members \subseteq members' /\ warnings \subseteq warnings' /\ also \subseteq warnings'
  BY DEF ProjectMembers
<1>3. Members(n)' = Members(n)
  BY DEF Members, Erased
<1>4. ASSUME NEW i \in DOMAIN Members(n)
      PROVE  \/ <<n, i>> \in members' \/ Reported(n, "member", "members", i)'
             \/ PassedOver(doc.kind[n], Members(n)[i])
  <2>1. i \in 1 .. Len(Members(n)) /\ Members(n)[i] \in ClassesOf(doc.kind[n])
    BY <1>1, <1>4
  <2>2. CASE i \in Projected(n)
    <3>1. CASE Keeps(doc.kind[n], Members(n)[i])
      BY <2>2, <3>1 DEF ProjectMembers
    <3>2. CASE Warns(doc.kind[n], Members(n)[i])
      <4>1. <<n, "member", i>> \in warnings'
        BY <2>2, <3>2 DEF ProjectMembers
      <4> QED
        BY <4>1 DEF Reported
    <3> QED
      BY <1>1, <2>1, <3>1, <3>2, KeptOrWarned
  <2>3. CASE i \notin Projected(n)
    <3>1. Len(Members(n)) > MaxItems
      BY <1>1, <2>1, <2>3, LimitedSizeBounds DEF Projected
    <3>2. <<n, "members", 0>> \in warnings'
      BY <3>1 DEF ProjectMembers, TooLong
    <3> QED
      BY <3>2 DEF Reported
  <2> QED
    BY <2>2, <2>3
<1> QED
  BY <1>2, <1>3, <1>4 DEF MembersAccounted

(* A step that only adds to the record and to the warnings. *)
Grows == /\ doc' = doc /\ members \subseteq members' /\ warnings \subseteq warnings'
         /\ ToSet(kept) \subseteq ToSet(kept')

LEMMA AccountedStays ==
  ASSUME Grows
  PROVE  /\ \A n : MembersAccounted(n) => MembersAccounted(n)'
         /\ \A n, i : EntityAccounted(n, i) => EntityAccounted(n, i)'
         /\ \A n : EntitiesAccounted(n) => EntitiesAccounted(n)'
         /\ \A list, next : Behind(list, next) => Behind(list, next)'
<1>1. ASSUME NEW n PROVE Members(n)' = Members(n)
  BY DEF Members, Erased, Grows
<1>2. \A n, what, list, i : Reported(n, what, list, i) => Reported(n, what, list, i)'
  BY DEF Reported, Grows
<1>3. \A n : MembersAccounted(n) => MembersAccounted(n)'
  BY <1>1, <1>2 DEF MembersAccounted, Grows
<1>4. \A n, i : EntityAccounted(n, i) => EntityAccounted(n, i)'
  BY <1>2 DEF EntityAccounted, Grows
<1>5. \A n : EntitiesAccounted(n) => EntitiesAccounted(n)'
  BY <1>4 DEF EntitiesAccounted, Grows
<1>6. \A list, next : Behind(list, next) => Behind(list, next)'
  BY <1>4 DEF Behind, Grows
<1> QED
  BY <1>3, <1>4, <1>5, <1>6

(* Leaving the innermost list once it is accounted for. *)
LEMMA ResumeIInv ==
  ASSUME IInv, Grows, pc = "items", stack # <<>>,
         Resume(Front(stack)), \A n : n = Frame.list => EntitiesAccounted(n)',
         UNCHANGED <<at, kept, members, redacted>>,
         warnings' \subseteq Objects \X Subjects \X Nat
  PROVE  IInv'
<1>1. BudgetKept /\ stack \in Seq(Frames)
  BY DEF IInv, BudgetKept
<1>2. /\ stack' \in Seq(Frames) /\ Len(stack') = Len(stack) - 1
      /\ \A k \in 1 .. Len(stack') : k \in 1 .. Len(stack) /\ stack'[k] = stack[k]
  BY <1>1, FrontType DEF Resume
<1>3. BudgetKept'
  BY <1>1, <1>2, LimitsAssumption DEF BudgetKept, Resume, Grows
<1>4. InRecord' = InRecord
  BY DEF InRecord, Grows
<1>5. ASSUME NEW n \in InRecord PROVE UnderWay(n)' \/ EntitiesAccounted(n)'
  <2>1. CASE EntitiesAccounted(n)
    BY <2>1, AccountedStays
  <2>2. CASE \E k \in 1 .. Len(stack) : stack[k].list = n
    <3>1. PICK k \in 1 .. Len(stack) : stack[k].list = n
      BY <2>2
    <3>2. CASE k = Len(stack)
      BY <3>1, <3>2 DEF Frame, Last
    <3>3. CASE k # Len(stack)
      BY <1>1, <1>2, <3>1, <3>3 DEF UnderWay
    <3> QED
      BY <3>2, <3>3
  <2> QED
    BY <2>1, <2>2 DEF IInv, UnderWay
<1>6. BehindIsAccounted'
  BY <1>2, AccountedStays DEF IInv, BehindIsAccounted, Grows
<1>7. \A n \in InRecord : MembersAccounted(n)'
  BY AccountedStays DEF IInv
<1> QED
  BY <1>2, <1>3, <1>4, <1>5, <1>6, <1>7 DEF IInv, Resume, Grows

LEMMA SkipEntitiesIInv == IInv /\ SkipEntities => IInv'
<1> SUFFICES ASSUME IInv, SkipEntities PROVE IInv'
  OBVIOUS
<1>1. doc \in Documents /\ BudgetKept /\ at \in Objects /\ stack \in Seq(Frames)
  BY DEF IInv, BudgetKept
<1>2. Grows /\ InRecord' = InRecord
  BY DEF SkipEntities, Grows, InRecord
<1>3. BudgetKept'
  BY <1>1 DEF SkipEntities, Resume, BudgetKept, Subjects
<1>4. \A n : n = at => EntitiesAccounted(n)'
  <2>1. CASE doc.form[at] = "absent"
    BY <1>1, <1>2, <2>1, DocumentFacts DEF EntitiesAccounted, Grows
  <2>2. CASE doc.form[at] # "absent"
    BY <2>2 DEF SkipEntities, EntitiesAccounted, EntityAccounted, Reported
  <2> QED
    BY <2>1, <2>2
<1>5. \A n \in InRecord : UnderWay(n)' \/ EntitiesAccounted(n)'
  BY <1>2, <1>4, AccountedStays DEF IInv, UnderWay, SkipEntities, Resume
<1>6. BehindIsAccounted'
  BY <1>2, AccountedStays DEF IInv, BehindIsAccounted, SkipEntities, Resume, Grows
<1>7. \A n \in InRecord : MembersAccounted(n)'
  BY <1>2, AccountedStays DEF IInv, SkipEntities
<1> QED
  BY <1>1, <1>2, <1>3, <1>5, <1>6, <1>7 DEF IInv, SkipEntities, Resume, Grows

LEMMA EnterEntitiesIInv == IInv /\ EnterEntities => IInv'
<1> SUFFICES ASSUME IInv, EnterEntities PROVE IInv'
  OBVIOUS
<1>1. doc \in Documents /\ BudgetKept /\ at \in Objects /\ stack \in Seq(Frames)
  BY DEF IInv, BudgetKept
<1>2. Grows /\ InRecord' = InRecord
  BY DEF EnterEntities, Grows, InRecord
<1> DEFINE new == [list |-> at, next |-> 1]
<1>3. new \in Frames
  BY <1>1 DEF Frames
<1>4. /\ stack' \in Seq(Frames) /\ Len(stack') = Len(stack) + 1
      /\ \A k \in 1 .. Len(stack) : stack'[k] = stack[k]
      /\ stack'[Len(stack) + 1] = new
  BY <1>1, <1>3, AppendProperties DEF EnterEntities
<1>5. BudgetKept'
  <2>1. warnings' \subseteq Objects \X Subjects \X Nat
    BY <1>1 DEF EnterEntities, TooLong, Subjects, BudgetKept
  <2>2. Len(stack') <= MaxDepth
    BY <1>1, <1>4, LimitsAssumption DEF EnterEntities, TooDeep
  <2> QED
    BY <1>1, <1>4, <2>1, <2>2 DEF EnterEntities, BudgetKept
<1>6. ASSUME NEW n \in InRecord PROVE UnderWay(n)' \/ EntitiesAccounted(n)'
  <2>1. CASE EntitiesAccounted(n)
    BY <1>2, <2>1, AccountedStays
  <2>2. CASE at = n
    BY <1>1, <1>4, <2>2 DEF UnderWay
  <2>3. CASE \E k \in 1 .. Len(stack) : stack[k].list = n
    BY <1>1, <1>4, <2>3 DEF UnderWay
  <2> QED
    BY <2>1, <2>2, <2>3 DEF IInv, UnderWay, EnterEntities
<1>7. BehindIsAccounted'
  <2> SUFFICES ASSUME NEW k \in 1 .. Len(stack'), NEW list, NEW next,
                      stack'[k].list = list, stack'[k].next = next
               PROVE  Behind(list, next)'
    BY DEF BehindIsAccounted
  <2>1. CASE k \in 1 .. Len(stack)
    BY <1>2, <1>4, <2>1, AccountedStays DEF IInv, BehindIsAccounted
  <2>2. CASE k = Len(stack) + 1
    <3>1. list = at /\ next = 1
      BY <1>4, <2>2
    <3>2. DOMAIN doc.entities[at] = 1 .. Len(doc.entities[at])
      BY <1>1, DocumentFacts
    <3>3. Len(doc.entities[at]) > MaxItems => <<at, "entities", 0>> \in warnings'
      BY DEF EnterEntities, TooLong
    <3> QED
      BY <1>2, <3>1, <3>2, <3>3 DEF Grows, Behind
  <2> QED
    BY <1>1, <1>4, <2>1, <2>2
<1>8. \A n \in InRecord : MembersAccounted(n)'
  BY <1>2, AccountedStays DEF IInv, EnterEntities
<1> QED
  BY <1>1, <1>2, <1>5, <1>6, <1>7, <1>8 DEF IInv, EnterEntities, Grows

LEMMA StopAtBudgetIInv == IInv /\ StopAtBudget => IInv'
<1> SUFFICES ASSUME IInv, StopAtBudget PROVE IInv'
  OBVIOUS
<1>1. doc \in Documents /\ BudgetKept /\ HasItem
  BY DEF IInv, StopAtBudget
<1>2. Frame \in Frames
  BY <1>1, ItemIsListed
<1>3. Grows
  BY DEF StopAtBudget, Grows
<1>4. warnings' \subseteq Objects \X Subjects \X Nat
  BY <1>1, <1>2 DEF StopAtBudget, BudgetKept, Frames, Subjects
<1>5. \A n : n = Frame.list => EntitiesAccounted(n)'
  BY DEF StopAtBudget, EntitiesAccounted, EntityAccounted, Reported
<1> QED
  BY <1>3, <1>4, <1>5, ResumeIInv DEF StopAtBudget, HasItem

LEMMA LeaveEntitiesIInv == IInv /\ LeaveEntities => IInv'
<1> SUFFICES ASSUME IInv, LeaveEntities PROVE IInv'
  OBVIOUS
<1>1. /\ doc \in Documents /\ BudgetKept /\ stack \in Seq(Frames) /\ stack # <<>>
      /\ pc = "items" /\ ~HasItem
  BY DEF IInv, BudgetKept, LeaveEntities
<1>2. Grows
  BY DEF LeaveEntities, Grows
<1>3. Len(stack) \in 1 .. Len(stack) /\ Frame = stack[Len(stack)] /\ Frame \in Frames
  BY <1>1 DEF Frame, Last
<1>4. Listed \in Seq(Items) /\ Listed = doc.entities[Frame.list]
  BY <1>1, <1>3, DocumentFacts DEF Listed, Frames
<1>5. \A n : n = Frame.list => EntitiesAccounted(n)
  <2>1. CASE Len(Listed) > MaxItems
    <3>1. <<Frame.list, "entities", 0>> \in warnings
      BY <1>3, <1>4, <2>1 DEF IInv, BehindIsAccounted, Behind
    <3> QED
      BY <3>1 DEF EntitiesAccounted, EntityAccounted, Reported
  <2>2. CASE ~(Len(Listed) > MaxItems)
    <3>1. LimitedSize(Listed) = Len(Listed) /\ Frame.next \in Nat
      BY <1>3, <1>4, <2>2, LimitedSizeBounds DEF Frames
    <3>2. \A i \in DOMAIN Listed : i < Frame.next
      BY <1>1, <1>4, <3>1 DEF HasItem
    <3>3. \A i \in DOMAIN doc.entities[Frame.list] : i < Frame.next => EntityAccounted(Frame.list, i)
      BY <1>3 DEF IInv, BehindIsAccounted, Behind
    <3> QED
      BY <1>4, <3>2, <3>3 DEF EntitiesAccounted
  <2> QED
    BY <2>1, <2>2
<1>6. \A n : n = Frame.list => EntitiesAccounted(n)'
  BY <1>2, <1>5, AccountedStays
<1>7. warnings' \subseteq Objects \X Subjects \X Nat
  BY <1>1 DEF LeaveEntities, BudgetKept
<1> QED
  BY <1>1, <1>2, <1>6, <1>7, ResumeIInv DEF LeaveEntities

(* The loop moves on past an item that is accounted for. *)
LEMMA AdvanceBehind ==
  ASSUME IInv, Grows, HasItem, stack' = Advanced,
         \A list, i : list = Frame.list /\ i = Frame.next => EntityAccounted(list, i)'
  PROVE  BehindIsAccounted'
<1>1. doc \in Documents /\ BudgetKept /\ stack # <<>> /\ stack \in Seq(Frames)
  BY DEF IInv, BudgetKept, HasItem
<1>2. Frame = stack[Len(stack)] /\ Frame \in Frames /\ Len(stack) \in 1 .. Len(stack)
  BY <1>1, ItemIsListed
<1>3. /\ Len(stack') = Len(stack)
      /\ \A k \in 1 .. Len(stack) :
           /\ stack'[k].list = stack[k].list
           /\ stack'[k].next = IF k = Len(stack) THEN stack[k].next + 1 ELSE stack[k].next
  BY <1>1, AdvancedType
<1> SUFFICES ASSUME NEW k \in 1 .. Len(stack'), NEW list, NEW next,
                    stack'[k].list = list, stack'[k].next = next
             PROVE  Behind(list, next)'
  BY DEF BehindIsAccounted
<1>4. CASE k # Len(stack)
  <2>1. Behind(list, next)
    BY <1>3, <1>4 DEF IInv, BehindIsAccounted
  <2> QED
    BY <2>1, AccountedStays
<1>5. CASE k = Len(stack)
  <2>1. list = Frame.list /\ next = Frame.next + 1 /\ Frame.next \in Nat
    BY <1>2, <1>3, <1>5 DEF Frames
  <2>2. Behind(list, next - 1)
    BY <1>2, <2>1 DEF IInv, BehindIsAccounted
  <2>3. Behind(list, next - 1)'
    BY <2>2, AccountedStays
  <2>4. EntityAccounted(list, next - 1)'
    BY <2>1
  <2>5. DOMAIN doc'.entities[list] \subseteq Nat
    BY <1>1, <1>2, <2>1, DocumentFacts, SMTT(30) DEF Grows, Frames
  <2> QED
    BY <2>1, <2>3, <2>4, <2>5 DEF Behind
<1> QED
  BY <1>4, <1>5

LEMMA SkipItemIInv == IInv /\ SkipItem => IInv'
<1> SUFFICES ASSUME IInv, SkipItem PROVE IInv'
  OBVIOUS
<1>1. doc \in Documents /\ BudgetKept /\ HasItem /\ stack # <<>>
  BY DEF IInv, SkipItem, HasItem
<1>2. Frame \in Frames
  BY <1>1, ItemIsListed
<1>3. Grows /\ InRecord' = InRecord
  BY DEF SkipItem, Grows, InRecord
<1>4. /\ stack' \in Seq(Frames) /\ Len(stack') = Len(stack)
      /\ \A k \in 1 .. Len(stack) : stack'[k].list = stack[k].list
  BY <1>1, AdvancedType DEF SkipItem
<1>5. BudgetKept'
  BY <1>1, <1>2, <1>4 DEF SkipItem, BudgetKept, Frames, Subjects
<1>6. BehindIsAccounted'
  <2>1. \A list, i : list = Frame.list /\ i = Frame.next => EntityAccounted(list, i)'
    BY DEF SkipItem, EntityAccounted, Reported
  <2> QED
    BY <1>1, <1>3, <2>1, AdvanceBehind DEF SkipItem
<1>7. \A n \in InRecord : UnderWay(n)' \/ EntitiesAccounted(n)'
  BY <1>1, <1>3, <1>4, AccountedStays DEF IInv, UnderWay, SkipItem, HasItem
<1>8. \A n \in InRecord : MembersAccounted(n)'
  BY <1>1, <1>3, AccountedStays DEF IInv, HasItem
<1> QED
  BY <1>1, <1>3, <1>5, <1>6, <1>7, <1>8 DEF IInv, SkipItem, HasItem, Grows

LEMMA ProjectEntityIInv == IInv /\ ProjectEntity => IInv'
<1> SUFFICES ASSUME IInv, ProjectEntity PROVE IInv'
  OBVIOUS
<1>1. doc \in Documents /\ BudgetKept /\ HasItem /\ stack # <<>> /\ kept \in Seq(Items)
  BY DEF IInv, ProjectEntity, HasItem, BudgetKept
<1>2. Item \in Items /\ Item \in Objects /\ Frame \in Frames
  BY <1>1, ItemIsListed DEF Objects
<1>3. /\ kept' \in Seq(Items) /\ Len(kept') = Len(kept) + 1 /\ kept'[Len(kept) + 1] = Item
      /\ \A i \in 1 .. Len(kept) : kept'[i] = kept[i]
  BY <1>1, <1>2, AppendProperties DEF ProjectEntity
<1>4. ToSet(kept') = ToSet(kept) \cup {Item}
  BY <1>1, <1>3 DEF ToSet
<1>5. /\ members \subseteq members' /\ warnings \subseteq warnings'
      /\ \A n : n = Item => MembersAccounted(n)'
  <2> SUFFICES ASSUME NEW n, n = Item
               PROVE  /\ members \subseteq members' /\ warnings \subseteq warnings'
                      /\ MembersAccounted(n)'
    OBVIOUS
  <2>1. ProjectMembers(n, {}) /\ doc' = doc /\ n \in Objects
    BY <1>2 DEF ProjectEntity
  <2> QED
    BY <1>1, <2>1, ProjectMembersAccounts
<1>6. Grows /\ InRecord' = InRecord \cup {Item}
  BY <1>4, <1>5 DEF ProjectEntity, Grows, InRecord
<1>7. /\ stack' \in Seq(Frames) /\ Len(stack') = Len(stack)
      /\ \A k \in 1 .. Len(stack) : stack'[k].list = stack[k].list
  BY <1>1, AdvancedType DEF ProjectEntity
<1>8. BudgetKept'
  <2>1. /\ members' \subseteq Objects \X Nat /\ redacted' \in BOOLEAN
        /\ warnings' \subseteq Objects \X Subjects \X Nat
    BY <1>1, <1>2, ProjectMembersType DEF ProjectEntity
  <2>2. Len(kept') <= MaxEntities
    BY <1>1, <1>3, LimitsAssumption DEF ProjectEntity, BudgetLeft
  <2> QED
    BY <1>1, <1>2, <1>3, <1>7, <2>1, <2>2 DEF ProjectEntity, BudgetKept
<1>9. BehindIsAccounted'
  <2>1. \A list, i : list = Frame.list /\ i = Frame.next => EntityAccounted(list, i)'
    BY <1>4 DEF ProjectEntity, EntityAccounted, Item, Listed
  <2> QED
    BY <1>1, <1>6, <2>1, AdvanceBehind DEF ProjectEntity
<1>10. \A n \in InRecord' : UnderWay(n)' \/ EntitiesAccounted(n)'
  <2>1. \A n : n = Item => UnderWay(n)'
    BY DEF ProjectEntity, UnderWay
  <2>2. \A n \in InRecord : UnderWay(n)' \/ EntitiesAccounted(n)'
    BY <1>1, <1>6, <1>7, AccountedStays DEF IInv, UnderWay, HasItem
  <2> QED
    BY <1>6, <2>1, <2>2
<1>11. \A n \in InRecord' : MembersAccounted(n)'
  BY <1>1, <1>5, <1>6, AccountedStays DEF IInv, HasItem
<1> QED
  BY <1>1, <1>6, <1>8, <1>9, <1>10, <1>11 DEF IInv, ProjectEntity, Grows

LEMMA ProjectDocumentIInv == IInv /\ ProjectDocument => IInv'
<1> SUFFICES ASSUME IInv, ProjectDocument PROVE IInv'
  OBVIOUS
<1> DEFINE also == ClassWarnings \cup ConformanceWarnings
<1>1. doc \in Documents /\ BudgetKept /\ at = Root /\ kept = <<>>
  BY DEF IInv, ProjectDocument
<1>2. Root \in Objects /\ also \in SUBSET (Objects \X Subjects \X Nat)
  BY DEF Objects, Subjects, ClassWarnings, ConformanceWarnings
<1>3. ProjectMembers(Root, also) /\ doc' = doc
  BY DEF ProjectDocument
<1>4. /\ members \subseteq members' /\ warnings \subseteq warnings'
      /\ MembersAccounted(Root)'
  BY <1>1, <1>2, <1>3, ProjectMembersAccounts
<1>5. Grows /\ InRecord = {Root} /\ InRecord' = {Root}
  <2>1. kept' = <<>>
    BY <1>1 DEF ProjectDocument
  <2>2. ASSUME NEW s, s = <<>> PROVE ToSet(s) = {}
    <3>1. DOMAIN s = {}
      BY <2>2
    <3> QED
      BY <3>1 DEF ToSet
  <2> QED
    BY <1>1, <1>3, <1>4, <2>1, <2>2 DEF Grows, InRecord
<1>6. BudgetKept'
  <2>1. /\ members' \subseteq Objects \X Nat /\ redacted' \in BOOLEAN
        /\ warnings' \subseteq Objects \X Subjects \X Nat
    BY <1>1, <1>2, <1>3, ProjectMembersType
  <2> QED
    BY <1>1, <1>2, <2>1 DEF ProjectDocument, BudgetKept
<1>7. BehindIsAccounted'
  BY <1>5, AccountedStays DEF IInv, BehindIsAccounted, ProjectDocument
<1>8. \A n \in InRecord' : UnderWay(n)'
  BY <1>5 DEF ProjectDocument, UnderWay
<1> QED
  BY <1>1, <1>3, <1>4, <1>5, <1>6, <1>7, <1>8 DEF IInv, ProjectDocument

LEMMA RejectDocumentIInv == IInv /\ RejectDocument => IInv'
<1> SUFFICES ASSUME IInv, RejectDocument PROVE IInv'
  OBVIOUS
<1>1. Grows
  BY DEF RejectDocument, Grows
<1>2. BehindIsAccounted'
  BY <1>1, AccountedStays DEF IInv, BehindIsAccounted, RejectDocument
<1> QED
  BY <1>2 DEF IInv, RejectDocument, BudgetKept

(* Of a range of addresses, or of AS numbers, only one that is in order     *)
(* goes without a warning.                                                 *)
LEMMA OnlyOneRangeIsQuiet ==
  ASSUME NEW range \in Ranges, RangeWarnings(range) = {}
  PROVE  IsOneRange(range)
<1>1. /\ range.start.family # "unusable" /\ range.end.family # "unusable"
      /\ ~Disordered(range.start, range.end)
      /\ range.version # "mistyped" /\ ~Disagrees(range)
  BY DEF RangeWarnings
<1>2. CASE range \in [start : Ends({"v4", "v6"}), end : Ends({"v4", "v6"}),
                      version : {"absent", "v4", "v6", "mistyped"}]
  <2>1. /\ range.start.family \in {"absent", "v4", "v6"} /\ range.start.value \in Nat
        /\ range.end.family \in {"absent", "v4", "v6"} /\ range.end.value \in Nat
        /\ range.version \in {"absent", "v4", "v6"}
    BY <1>1, <1>2 DEF Ends
  <2> QED
    BY <1>1, <2>1 DEF IsOneRange, Disordered, Disagrees, Usable
<1>3. CASE range \in [start : Ends({"as"}), end : Ends({"as"}), version : {"absent"}]
  <2>1. /\ range.start.family \in {"absent", "as"} /\ range.start.value \in Nat
        /\ range.end.family \in {"absent", "as"} /\ range.end.value \in Nat
        /\ range.version = "absent"
    BY <1>1, <1>3 DEF Ends
  <2> QED
    BY <1>1, <2>1 DEF IsOneRange, Disordered, Usable
<1> QED
  BY <1>2, <1>3 DEF Ranges

LEMMA ProjectRangeIInv == IInv /\ ProjectRange => IInv'
<1> SUFFICES ASSUME IInv, ProjectRange PROVE IInv'
  OBVIOUS
<1>1. doc \in Documents /\ doc.range \in Ranges /\ BudgetKept
  BY DocumentsAssumption DEF IInv, DocumentType
<1>2. Grows /\ InRecord' = InRecord
  BY DEF ProjectRange, Grows, InRecord
<1>3. RangeWarnings(doc.range) \subseteq {"start", "end", "version"}
  BY DEF RangeWarnings
<1>4. BudgetKept'
  BY <1>1, <1>3 DEF ProjectRange, BudgetKept, Subjects, Objects
<1>5. RangeReported'
  <2>1. CASE RangeWarnings(doc.range) = {}
    BY <1>1, <2>1, OnlyOneRangeIsQuiet DEF ProjectRange, RangeReported
  <2>2. CASE RangeWarnings(doc.range) # {}
    BY <1>3, <2>2 DEF ProjectRange, RangeReported
  <2> QED
    BY <2>1, <2>2
<1>6. BehindIsAccounted'
  BY <1>2, AccountedStays DEF IInv, BehindIsAccounted, ProjectRange
<1>7. \A n \in InRecord : MembersAccounted(n)' /\ EntitiesAccounted(n)'
  BY <1>2, AccountedStays DEF IInv, ProjectRange, UnderWay
<1> QED
  BY <1>1, <1>2, <1>4, <1>5, <1>6, <1>7 DEF IInv, ProjectRange, Grows

LEMMA NextIInv == IInv /\ [Next]_vars => IInv'
<1> SUFFICES ASSUME IInv, [Next]_vars PROVE IInv'
  OBVIOUS
<1>1. CASE UNCHANGED vars
  <2>1. Grows
    BY <1>1 DEF vars, Grows
  <2>2. BehindIsAccounted'
    BY <1>1, <2>1, AccountedStays DEF IInv, BehindIsAccounted, vars
  <2>3. \A n \in InRecord : UnderWay(n) => UnderWay(n)'
    BY <1>1 DEF UnderWay, vars
  <2>4. InRecord' = InRecord /\ BudgetKept'
    BY <1>1 DEF InRecord, IInv, BudgetKept, vars
  <2>5. RangeReported => RangeReported'
    BY <1>1 DEF RangeReported, vars
  <2> QED
    BY <1>1, <2>1, <2>2, <2>3, <2>4, <2>5, AccountedStays DEF IInv, vars
<1> QED
  BY <1>1, RejectDocumentIInv, ProjectDocumentIInv, ProjectRangeIInv, SkipEntitiesIInv, EnterEntitiesIInv,
     StopAtBudgetIInv, SkipItemIInv, ProjectEntityIInv, LeaveEntitiesIInv DEF Next

(* Every behaviour keeps the invariant. *)
LEMMA Invariance == Spec => []IInv
BY InitIInv, NextIInv, PTL DEF Spec

-----------------------------------------------------------------------------
(* maximum_entity_depth and maximum_entities bound the recursion and the   *)
(* record of every response, however it nests and repeats its entities.    *)
THEOREM BudgetIsKept == Spec => []BudgetKept
<1>1. IInv => BudgetKept
  BY DEF IInv
<1> QED
  BY <1>1, Invariance, PTL

(* Whatever a response has and its record has not is warned about, and so  *)
(* is a network whose range is not one.                                    *)
THEOREM LossIsReported == Spec => []NothingLostSilently
<1>1. IInv => NothingLostSilently
  <2> SUFFICES ASSUME IInv, pc = "done", NEW n \in InRecord
               PROVE  MembersAccounted(n) /\ EntitiesAccounted(n)
    BY DEF IInv, NothingLostSilently, MembersAccounted, EntitiesAccounted, EntityAccounted
  <2>1. ~UnderWay(n)
    BY DEF IInv, UnderWay
  <2> QED
    BY <2>1 DEF IInv
<1> QED
  BY <1>1, Invariance, PTL

-----------------------------------------------------------------------------
(* What is left to do, the weightiest first: entities of the budget, stages *)
(* of the object at hand, lists under way, items of the innermost list.    *)
Stage ==
  IF pc = "start" THEN 4 ELSE IF pc = "entities" THEN 3 ELSE IF pc = "items" THEN 2
  ELSE IF pc = "range" THEN 1 ELSE 0
ItemsAhead == IF HasItem THEN LimitedSize(Listed) + 1 - Frame.next ELSE 0
Left == <<MaxEntities - Len(kept), <<Stage, <<Len(stack), ItemsAhead>>>>>>

Number == OpToRel(<, Nat)
ListsThenItems == LexPairOrdering(Number, Number, Nat, Nat)
StageThenLists == LexPairOrdering(Number, ListsThenItems, Nat, Nat \X Nat)
LessLeft == LexPairOrdering(Number, StageThenLists, Nat, Nat \X (Nat \X Nat))
Quantities == Nat \X (Nat \X (Nat \X Nat))
LeavesLess == <<Left', Left>> \in LessLeft

(* Nothing can decrease in this order for ever. *)
LEMMA LessLeftIsWellFounded == IsWellFoundedOn(LessLeft, Quantities)
<1>1. IsWellFoundedOn(Number, Nat)
  BY NatLessThanWellFounded DEF Number
<1>2. IsWellFoundedOn(ListsThenItems, Nat \X Nat)
  BY <1>1, WFLexPairOrdering DEF ListsThenItems
<1>3. IsWellFoundedOn(StageThenLists, Nat \X (Nat \X Nat))
  BY <1>1, <1>2, WFLexPairOrdering DEF StageThenLists
<1> QED
  BY <1>1, <1>3, WFLexPairOrdering DEF LessLeft, Quantities

LEMMA LessInPair ==
  ASSUME NEW R1, NEW R2, NEW S1, NEW S2,
         NEW a1 \in S1, NEW b1 \in S1, NEW a2 \in S2, NEW b2 \in S2,
         <<a1, b1>> \in R1 \/ (a1 = b1 /\ <<a2, b2>> \in R2)
  PROVE  <<<<a1, a2>>, <<b1, b2>>>> \in LexPairOrdering(R1, R2, S1, S2)
BY DEF LexPairOrdering

LEMMA LessInOrder ==
  ASSUME NEW a \in Nat, NEW b \in Nat, NEW c \in Nat, NEW d \in Nat,
         NEW e \in Nat, NEW f \in Nat, NEW g \in Nat, NEW h \in Nat,
         \/ e < a
         \/ e = a /\ f < b
         \/ e = a /\ f = b /\ g < c
         \/ e = a /\ f = b /\ g = c /\ h < d
  PROVE  <<<<e, <<f, <<g, h>>>>>>, <<a, <<b, <<c, d>>>>>>>> \in LessLeft
<1>1. \A m, n \in Nat : m < n => <<m, n>> \in Number
  BY DEF Number, OpToRel
<1>2. g < c \/ (g = c /\ h < d) => <<<<g, h>>, <<c, d>>>> \in ListsThenItems
  BY <1>1, LessInPair DEF ListsThenItems
<1>3. f < b \/ (f = b /\ (g < c \/ (g = c /\ h < d)))
        => <<<<f, <<g, h>>>>, <<b, <<c, d>>>>>> \in StageThenLists
  <2>1. <<g, h>> \in Nat \X Nat /\ <<c, d>> \in Nat \X Nat
    OBVIOUS
  <2>2. f < b \/ (f = b /\ (g < c \/ (g = c /\ h < d)))
          => <<f, b>> \in Number \/ (f = b /\ <<<<g, h>>, <<c, d>>>> \in ListsThenItems)
    BY <1>1, <1>2
  <2> QED
    BY <2>1, <2>2, LessInPair DEF StageThenLists
<1>4. <<f, <<g, h>>>> \in Nat \X (Nat \X Nat) /\ <<b, <<c, d>>>> \in Nat \X (Nat \X Nat)
  OBVIOUS
<1>5. <<e, a>> \in Number \/ (e = a /\ <<<<f, <<g, h>>>>, <<b, <<c, d>>>>>> \in StageThenLists)
  BY <1>1, <1>3
<1> QED
  BY <1>4, <1>5, LessInPair DEF LessLeft

LeftIsNatural ==
  /\ MaxEntities - Len(kept) \in Nat /\ Stage \in Nat
  /\ Len(stack) \in Nat /\ ItemsAhead \in Nat
LEMMA NaturalsLeft ==
  ASSUME IInv
  PROVE  LeftIsNatural
<1>1. /\ kept \in Seq(Items) /\ Len(kept) <= MaxEntities /\ stack \in Seq(Frames)
      /\ doc \in Documents
  BY DEF IInv, BudgetKept
<1>2. ItemsAhead \in Nat
  <2>1. CASE HasItem
    <3>1. Frame.next \in 1 .. Len(Listed) /\ Listed \in Seq(Items)
      BY <1>1, <2>1, ItemIsListed, DocumentFacts DEF IInv, Listed, Frames
    <3>2. LimitedSize(Listed) \in Nat /\ Frame.next <= LimitedSize(Listed)
      BY <2>1, <3>1, LimitedSizeBounds DEF HasItem
    <3> QED
      BY <2>1, <3>1, <3>2 DEF ItemsAhead
  <2>2. CASE ~HasItem
    BY <2>2 DEF ItemsAhead
  <2> QED
    BY <2>1, <2>2
<1> QED
  BY <1>1, <1>2, LimitsAssumption DEF Stage, LeftIsNatural

(* The next item of the innermost list is one item less ahead. *)
LEMMA SkipLeavesLess ==
  ASSUME IInv, SkipItem
  PROVE  /\ Len(kept') = Len(kept) /\ Stage' = Stage /\ Len(stack') = Len(stack)
         /\ ItemsAhead' < ItemsAhead
<1>1. doc \in Documents /\ BudgetKept /\ HasItem /\ stack # <<>> /\ doc' = doc /\ pc' = pc
  BY DEF IInv, SkipItem, HasItem
<1>2. /\ Frame = stack[Len(stack)] /\ Frame \in Frames /\ Frame.next \in 1 .. Len(Listed)
      /\ Listed \in Seq(Items)
  BY <1>1, ItemIsListed, DocumentFacts DEF Listed, Frames
<1>3. stack \in Seq(Frames) /\ Len(stack) \in 1 .. Len(stack)
  BY <1>1 DEF BudgetKept
<1>4. /\ stack' \in Seq(Frames) /\ Len(stack') = Len(stack)
      /\ stack'[Len(stack)].list = Frame.list /\ stack'[Len(stack)].next = Frame.next + 1
  BY <1>1, <1>2, <1>3, AdvancedType DEF SkipItem
<1>5. Frame' = stack'[Len(stack)]
  BY <1>3, <1>4 DEF Frame, Last
<1>6. Listed' = Listed /\ Frame'.next = Frame.next + 1
  BY <1>1, <1>4, <1>5 DEF Listed
<1>7. LimitedSize(Listed)' = LimitedSize(Listed)
  BY <1>6 DEF LimitedSize
<1>8. LimitedSize(Listed) \in Nat /\ Frame.next <= LimitedSize(Listed)
  BY <1>1, <1>2, LimitedSizeBounds DEF HasItem
<1>9. ItemsAhead = LimitedSize(Listed) + 1 - Frame.next
  BY <1>1 DEF ItemsAhead
<1>10. ItemsAhead' = 0 \/ ItemsAhead' = LimitedSize(Listed) + 1 - (Frame.next + 1)
  BY <1>6, <1>7 DEF ItemsAhead
<1>11. ItemsAhead' < ItemsAhead
  BY <1>2, <1>8, <1>9, <1>10
<1> QED
  BY <1>1, <1>4, <1>11 DEF SkipItem, Stage

(* Leaving a list goes on in the one around it, or to a later stage. *)
LEMMA LeaveLeavesLess ==
  ASSUME IInv, pc = "items", stack # <<>>, Resume(Front(stack))
  PROVE  Stage' < Stage \/ (Stage' = Stage /\ Len(stack') < Len(stack))
<1>1. stack \in Seq(Frames) /\ BudgetKept
  BY DEF IInv, BudgetKept
<1>2. Len(stack') = Len(stack) - 1
  BY <1>1, FrontType DEF Resume
<1>3. Stage = 2
  BY DEF Stage
<1>4. pc' \in {"items", "range", "done"}
  BY DEF Resume
<1>5. Stage' < 2 \/ Stage' = 2
  BY <1>4 DEF Stage
<1>6. Len(stack') < Len(stack)
  BY <1>1, <1>2
<1> QED
  BY <1>3, <1>5, <1>6

LEMMA StepLeavesLess ==
  ASSUME IInv, LeftIsNatural, LeftIsNatural', Next
  PROVE  <<Left', Left>> \in LessLeft
<1> DEFINE a == MaxEntities - Len(kept)  b == Stage  c == Len(stack)  d == ItemsAhead
<1>1. /\ a \in Nat /\ b \in Nat /\ c \in Nat /\ d \in Nat
      /\ a' \in Nat /\ b' \in Nat /\ c' \in Nat /\ d' \in Nat
  BY DEF LeftIsNatural
<1>2. \/ a' < a
      \/ a' = a /\ b' < b
      \/ a' = a /\ b' = b /\ c' < c
      \/ a' = a /\ b' = b /\ c' = c /\ d' < d
  <2>1. CASE ProjectEntity
    <3>1. Len(kept') = Len(kept) + 1 /\ Len(kept) \in Nat
      BY <2>1, ItemIsListed DEF ProjectEntity, IInv, BudgetKept
    <3> QED
      BY <3>1, LimitsAssumption
  <2>2. CASE SkipItem
    BY <2>2, SkipLeavesLess
  <2>3. CASE StopAtBudget \/ LeaveEntities
    <3>1. kept' = kept /\ pc = "items" /\ stack # <<>> /\ Resume(Front(stack))
      BY <2>3 DEF StopAtBudget, LeaveEntities, HasItem
    <3> QED
      BY <3>1, LeaveLeavesLess
  <2>4. CASE SkipEntities \/ EnterEntities
    <3>1. kept' = kept /\ pc = "entities" /\ pc' \in {"items", "range", "done"}
      BY <2>4 DEF SkipEntities, EnterEntities, Resume
    <3> QED
      BY <3>1 DEF Stage
  <2>5. CASE RejectDocument \/ ProjectDocument
    <3>1. kept' = kept /\ pc = "start" /\ pc' \in {"failed", "entities"}
      BY <2>5 DEF RejectDocument, ProjectDocument
    <3> QED
      BY <3>1 DEF Stage
  <2>6. CASE ProjectRange
    BY <2>6 DEF ProjectRange, Stage
  <2> QED
    BY <2>1, <2>2, <2>3, <2>4, <2>5, <2>6 DEF Next
<1>3. Left = <<a, <<b, <<c, d>>>>>> /\ Left' = <<a', <<b', <<c', d'>>>>>>
  BY LimitsAssumption DEF Left
<1> HIDE DEF a, b, c, d
<1>4. <<<<a', <<b', <<c', d'>>>>>>, <<a, <<b, <<c, d>>>>>>>> \in LessLeft
  BY <1>1, <1>2, LessInOrder
<1> QED
  BY <1>3, <1>4

(* Until its end the projection has a step to take: it never looks for the *)
(* next item without a list under way.                                     *)
StepIsDue ==
  \/ pc \in {"start", "entities", "range"}
  \/ HasItem
  \/ pc = "items" /\ stack # <<>> /\ ~HasItem
ListIsUnderWay == pc = "items" => stack # <<>>

LEMMA ListStaysUnderWay ==
  ASSUME IInv, ListIsUnderWay, Next
  PROVE  ListIsUnderWay'
<1>1. BudgetKept /\ stack \in Seq(Frames) /\ at \in Objects
  BY DEF IInv, BudgetKept
<1>2. CASE EnterEntities
  <2>1. [list |-> at, next |-> 1] \in Frames
    BY <1>1 DEF Frames
  <2>2. stack' \in Seq(Frames) /\ Len(stack') = Len(stack) + 1
    BY <1>1, <1>2, <2>1, AppendProperties DEF EnterEntities
  <2> QED
    BY <1>1, <2>2 DEF ListIsUnderWay
<1>3. CASE SkipItem
  <2>1. stack # <<>> /\ stack' = Advanced
    BY <1>3 DEF SkipItem, HasItem
  <2>2. stack' \in Seq(Frames) /\ Len(stack') = Len(stack)
    BY <1>1, <2>1, AdvancedType
  <2> QED
    BY <1>1, <2>1, <2>2 DEF ListIsUnderWay
<1>4. CASE RejectDocument \/ ProjectDocument \/ ProjectRange \/ ProjectEntity
  BY <1>4 DEF ListIsUnderWay, RejectDocument, ProjectDocument, ProjectRange, ProjectEntity
<1>5. CASE SkipEntities \/ StopAtBudget \/ LeaveEntities
  BY <1>5 DEF ListIsUnderWay, SkipEntities, StopAtBudget, LeaveEntities, Resume
<1> QED
  BY <1>2, <1>3, <1>4, <1>5 DEF Next

(* Every projection ends: until then a step is due, every step leaves less *)
(* to do, and nothing becomes less for ever.  No response keeps the worker *)
(* busy without end, however it nests or repeats its entities.             *)
THEOREM ProjectionRunsOut ==
  /\ Spec => [](pc \in {"done", "failed"} \/ StepIsDue)
  /\ Spec => [][LeavesLess]_vars
  /\ IsWellFoundedOn(LessLeft, Quantities)
<1>1. Spec => [][LeavesLess]_vars
  <2>1. IInv => LeftIsNatural
    BY NaturalsLeft
  <2>2. ASSUME IInv, LeftIsNatural, LeftIsNatural', [Next]_vars
        PROVE  [LeavesLess]_vars
    BY <2>2, StepLeavesLess DEF LeavesLess
  <2> QED
    BY <2>1, <2>2, Invariance, PTL DEF Spec
<1>2. Spec => []ListIsUnderWay
  <2>1. Init => ListIsUnderWay
    BY DEF Init, ListIsUnderWay
  <2>2. ASSUME IInv, ListIsUnderWay, [Next]_vars PROVE ListIsUnderWay'
    <3>1. CASE UNCHANGED vars
      BY <2>2, <3>1 DEF ListIsUnderWay, vars
    <3> QED
      BY <2>2, <3>1, ListStaysUnderWay
  <2> QED
    BY <2>1, <2>2, Invariance, PTL DEF Spec
<1>3. IInv /\ ListIsUnderWay => pc \in {"done", "failed"} \/ StepIsDue
  BY DEF IInv, BudgetKept, ListIsUnderWay, StepIsDue
<1>4. Spec => [](pc \in {"done", "failed"} \/ StepIsDue)
  BY <1>2, <1>3, Invariance, PTL
<1> QED
  BY <1>1, <1>4, LessLeftIsWellFounded

-----------------------------------------------------------------------------
(* The levels of nesting: what is listed by an object of one level is on   *)
(* the next one.                                                           *)
LEMMA ListedInType ==
  ASSUME NEW d \in Documents, NEW n \in Objects
  PROVE  ListedIn(d, n) \subseteq Items /\ ListedIn(d, n) \subseteq ToSet(d.entities[n])
<1>1. d.entities[n] \in Seq(Items)
  BY DocumentsAssumption DEF DocumentType
<1>2. LimitedSize(d.entities[n]) \in 0 .. Len(d.entities[n])
  BY <1>1, LimitedSizeBounds
<1>3. \A i \in 1 .. LimitedSize(d.entities[n]) : i \in DOMAIN d.entities[n] /\ d.entities[n][i] \in Items
  BY <1>1, <1>2
<1> QED
  BY <1>3 DEF ListedIn, ToSet

AreLevels(level, d) ==
  level = [depth \in 0 .. MaxDepth |->
             IF depth = 0 THEN {Root} ELSE UNION {ListedIn(d, n) : n \in level[depth - 1]}]

LEMMA ReachableUnfolds == \A d : Reachable(d) = CHOOSE level : AreLevels(level, d)
BY DEF Reachable, AreLevels

LEMMA ReachableLevels ==
  ASSUME NEW d \in Documents
  PROVE  /\ Reachable(d)[0] = {Root}
         /\ \A i \in 1 .. MaxDepth :
              Reachable(d)[i] = UNION {ListedIn(d, n) : n \in Reachable(d)[i - 1]}
<1> DEFINE V == SUBSET Objects
           Below(S) == UNION {ListedIn(d, n) : n \in S}
           step == [p \in (1 .. MaxDepth) \X V |-> Below(p[2])]
<1>1. MaxDepth \in Nat
  BY LimitsAssumption
<1>2. IsStep(step, MaxDepth, V)
  <2>1. ASSUME NEW S \in V PROVE Below(S) \in V
    BY ListedInType DEF Objects
  <2> HIDE DEF Below, V
  <2> QED
    BY <2>1 DEF IsStep
<1>3. {Root} \in V
  BY DEF Objects
<1>4. \A i \in 1 .. MaxDepth, S \in V : step[<<i, S>>] = Below(S)
  OBVIOUS
<1> HIDE DEF step, V
<1>5. PICK iter : IsFold(iter, MaxDepth, V, {Root}, step)
  BY <1>1, <1>2, <1>3, FoldExists
<1> DEFINE level == [i \in 0 .. MaxDepth |-> iter[1 .. i]]
<1>6. AreLevels(level, d)
  <2>1. level[0] = {Root}
    <3>1. 1 .. 0 = {}
      OBVIOUS
    <3> QED
      BY <1>1, <1>5, <3>1 DEF IsFold
  <2>2. ASSUME NEW i \in 1 .. MaxDepth
        PROVE  level[i] = Below(level[i - 1])
    <3>1. /\ 1 .. i \in SUBSET (1 .. MaxDepth) /\ 1 .. i # {}
          /\ Max(1 .. i) = i /\ (1 .. i) \ {i} = 1 .. i - 1
      BY <1>1, Initial
    <3>2. iter[1 .. i] = step[<<i, iter[1 .. i - 1]>>] /\ iter[1 .. i - 1] \in V
      BY <1>5, <3>1 DEF IsFold
    <3>3. iter[1 .. i] = Below(iter[1 .. i - 1])
      BY <1>4, <3>2
    <3>4. i \in 0 .. MaxDepth /\ i - 1 \in 0 .. MaxDepth
      BY <1>1
    <3> HIDE DEF Below
    <3> QED
      BY <3>3, <3>4
  <2>3. DOMAIN level = 0 .. MaxDepth /\ level = [i \in DOMAIN level |-> level[i]]
    OBVIOUS
  <2>4. \A i \in 0 .. MaxDepth : level[i] = IF i = 0 THEN {Root} ELSE Below(level[i - 1])
    <3> HIDE DEF level, Below
    <3> QED
      BY <1>1, <2>1, <2>2
  <2> HIDE DEF level
  <2> QED
    BY <2>3, <2>4 DEF AreLevels
<1>7. AreLevels(Reachable(d), d)
  BY <1>6, ReachableUnfolds
<1> QED
  <2> DEFINE reachable == Reachable(d)
  <2> HIDE DEF reachable
  <2>1. AreLevels(reachable, d)
    BY <1>7 DEF reachable
  <2>2. reachable[0] = {Root} /\ \A i \in 1 .. MaxDepth : reachable[i] = Below(reachable[i - 1])
    BY <1>1, <2>1 DEF AreLevels
  <2> QED
    BY <2>2 DEF reachable

LEMMA ReachableType ==
  ASSUME NEW d \in Documents
  PROVE  /\ \A i \in 0 .. MaxDepth : Reachable(d)[i] \subseteq Objects
         /\ \A i \in 1 .. MaxDepth : Reachable(d)[i] \subseteq Items
<1> DEFINE Good(i) == /\ Reachable(d)[i] \subseteq Objects
                      /\ i # 0 => Reachable(d)[i] \subseteq Items
           S == {i \in 0 .. MaxDepth : Good(i)}
<1>1. MaxDepth \in Nat
  BY LimitsAssumption
<1>2. 0 \in S
  BY <1>1, ReachableLevels DEF Objects
<1>3. ASSUME NEW i \in 0 .. MaxDepth - 1, i \in S
      PROVE  i + 1 \in S
  <2>1. i + 1 \in 1 .. MaxDepth /\ (i + 1) - 1 = i
    BY <1>1
  <2>2. Reachable(d)[i + 1] = UNION {ListedIn(d, n) : n \in Reachable(d)[i]}
    BY <2>1, ReachableLevels
  <2>3. \A n \in Reachable(d)[i] : ListedIn(d, n) \subseteq Items
    <3>1. Reachable(d)[i] \subseteq Objects
      BY <1>3
    <3> QED
      BY <3>1, ListedInType
  <2>4. Reachable(d)[i + 1] \subseteq Items
    BY <2>2, <2>3
  <2> QED
    BY <2>1, <2>4 DEF Objects
<1>4. 0 .. MaxDepth \subseteq S
  <2> HIDE DEF S
  <2> QED
    BY <1>1, <1>2, <1>3, InductUpTo
<1>5. \A i \in 1 .. MaxDepth : i \in 0 .. MaxDepth /\ i # 0
  BY <1>1
<1>6. \A i \in 0 .. MaxDepth : Good(i)
  BY <1>4
<1> QED
  BY <1>5, <1>6

(* An object is on one level only, since it stands in one list. *)
LEMMA OneLevel ==
  ASSUME NEW d \in Documents, NEW j \in 0 .. MaxDepth, NEW i \in 0 .. j - 1
  PROVE  Reachable(d)[i] \cap Reachable(d)[j] = {}
<1> DEFINE S == {k \in 0 .. MaxDepth : \A l \in k + 1 .. MaxDepth :
                                       Reachable(d)[k] \cap Reachable(d)[l] = {}}
<1>1. MaxDepth \in Nat /\ Root \notin Items
  BY LimitsAssumption, DocumentsAssumption
<1>2. 0 \in S
  BY <1>1, ReachableLevels, ReachableType
<1>3. ASSUME NEW k \in 0 .. MaxDepth - 1, k \in S
      PROVE  k + 1 \in S
  <2>1. k + 1 \in 1 .. MaxDepth /\ (k + 1) - 1 = k
    BY <1>1
  <2>2. ASSUME NEW l \in k + 2 .. MaxDepth, NEW n \in Reachable(d)[k + 1], n \in Reachable(d)[l]
        PROVE  FALSE
    <3>1. l \in 1 .. MaxDepth /\ l - 1 \in k + 1 .. MaxDepth /\ l - 1 \in 0 .. MaxDepth /\ k \in 0 .. MaxDepth
      BY <1>1
    <3>2. PICK p \in Reachable(d)[k] : n \in ListedIn(d, p)
      BY <2>1, ReachableLevels
    <3>3. PICK q \in Reachable(d)[l - 1] : n \in ListedIn(d, q)
      BY <2>2, <3>1, ReachableLevels
    <3>4. p \in Objects /\ q \in Objects
      BY <3>1, ReachableType
    <3>5. p = q
      <4>1. n \in ToSet(d.entities[p]) /\ n \in ToSet(d.entities[q])
        BY <3>2, <3>3, <3>4, ListedInType
      <4>2. PICK x \in DOMAIN d.entities[p] : n = d.entities[p][x]
        BY <4>1 DEF ToSet
      <4>3. \A m \in Objects \ {p} : n \notin ToSet(d.entities[m])
        BY <3>4, <4>2, OrderAssumption DEF InOrder
      <4> QED
        BY <3>4, <4>1, <4>3
    <3> QED
      BY <1>3, <3>1, <3>5
  <2> QED
    BY <2>1, <2>2
<1>4. 0 .. MaxDepth \subseteq S
  <2> HIDE DEF S
  <2> QED
    BY <1>1, <1>2, <1>3, InductUpTo
<1>5. i \in 0 .. MaxDepth /\ j \in i + 1 .. MaxDepth
  BY <1>1
<1> QED
  BY <1>4, <1>5

-----------------------------------------------------------------------------
(* The invariant behind the order.  A list under way is one of an entity   *)
(* that is kept; what it has passed is kept or junk, what is ahead in it   *)
(* stands behind everything kept.  Of a list that is done with nothing is  *)
(* lost, unless the record is full and the lost stand behind it all.       *)
Full == Len(kept) = MaxEntities
Lost(item) == Full /\ \A n \in ToSet(kept) : n < item
Passed(n, next) ==
  \A i \in 1 .. LimitedSize(doc.entities[n]) :
    i < next => doc.entities[n][i] \in ToSet(kept) \cup doc.junk
Ahead(n, next) ==
  \A i \in DOMAIN doc.entities[n] : i >= next => \A k \in ToSet(kept) : k < doc.entities[n][i]
Open(n) == (pc = "entities" /\ at = n) \/ \E k \in 1 .. Len(stack) : stack[k].list = n
Closed(n) ==
  \A depth \in 0 .. MaxDepth - 1 :
    n \in Reachable(doc)[depth] => \A item \in ListedIn(doc, n) : item \in ToSet(kept) \/ Lost(item)

(* An object in the item that the loop over a list under way is at. *)
InItem(list, next, n) ==
  next - 1 \in 1 .. LimitedSize(doc.entities[list]) /\ doc.entities[list][next - 1] <= n

FramesInOrder ==
  \A k \in 1 .. Len(stack) :
    /\ stack[k].list \in Reachable(doc)[k - 1] /\ stack[k].list \in InRecord
    /\ Passed(stack[k].list, stack[k].next)
    /\ Ahead(stack[k].list, stack[k].next)
    /\ \A l \in k + 1 .. Len(stack) : InItem(stack[k].list, stack[k].next, stack[l].list)
AtInOrder ==
  pc = "entities" =>
    /\ at \in Reachable(doc)[Len(stack)] /\ at \in InRecord
    /\ \A k \in 1 .. Len(stack) : InItem(stack[k].list, stack[k].next, at)
    /\ \A n \in ToSet(kept) : at # Root /\ n <= at
KeptInOrder ==
  /\ \A i, j \in DOMAIN kept : i < j => kept[i] < kept[j]
  /\ ToSet(kept) \subseteq Eligible
NothingOpenLost == pc \notin {"start", "failed"} => \A n \in InRecord : Open(n) \/ Closed(n)
OrderInv ==
  /\ pc = "start" => stack = <<>>
  /\ FramesInOrder /\ AtInOrder /\ KeptInOrder /\ NothingOpenLost

LEMMA DocumentOrder ==
  ASSUME doc \in Documents, NEW n \in Objects, NEW i \in DOMAIN doc.entities[n]
  PROVE  /\ doc.entities[n][i] \in Items /\ doc.entities[n][i] \in Nat
         /\ n # Root => n \in Nat /\ n < doc.entities[n][i]
         /\ \A j \in 1 .. i - 1 :
              /\ doc.entities[n][j] < doc.entities[n][i]
              /\ \A m \in Items : doc.entities[n][j] <= m /\ m < doc.entities[n][i] =>
                   \A nested \in ToSet(doc.entities[m]) : nested < doc.entities[n][i]
<1>1. doc.entities[n] \in Seq(Items)
  BY DocumentFacts
<1>2. doc.entities[n][i] \in Items
  BY <1>1
<1>3. Items \subseteq Nat /\ InOrder(doc)
  BY OrderAssumption
<1> QED
  BY <1>2, <1>3 DEF InOrder, Objects

LEMMA OrderInit == Init => OrderInv
<1> SUFFICES ASSUME Init PROVE OrderInv
  OBVIOUS
<1>1. stack = <<>> /\ kept = <<>> /\ pc = "start"
  BY DEF Init
<1>2. ToSet(kept) = {} /\ DOMAIN kept = {} /\ Len(stack) = 0
  BY <1>1 DEF ToSet
<1> QED
  BY <1>1, <1>2 DEF OrderInv, FramesInOrder, AtInOrder, KeptInOrder, NothingOpenLost

(* A step that only leaves lists. *)
LEMMA OrderStays ==
  ASSUME OrderInv, doc' = doc, kept' = kept, Len(stack) \in Nat,
         Len(stack') \in Nat, Len(stack') <= Len(stack),
         \A k \in 1 .. Len(stack') : stack'[k] = stack[k]
  PROVE  FramesInOrder' /\ KeptInOrder'
<1>1. InRecord' = InRecord /\ Eligible' = Eligible
  BY DEF InRecord, Eligible
<1>2. ASSUME NEW k \in 1 .. Len(stack')
      PROVE  /\ (stack[k].list \in Reachable(doc)[k - 1] /\ stack[k].list \in InRecord)'
             /\ Passed(stack[k].list, stack[k].next)'
             /\ Ahead(stack[k].list, stack[k].next)'
             /\ \A l \in k + 1 .. Len(stack') : InItem(stack[k].list, stack[k].next, stack[l].list)'
  <2>1. k \in 1 .. Len(stack) /\ stack'[k] = stack[k]
    OBVIOUS
  <2>2. /\ stack[k].list \in Reachable(doc)[k - 1] /\ stack[k].list \in InRecord
        /\ Passed(stack[k].list, stack[k].next) /\ Ahead(stack[k].list, stack[k].next)
        /\ \A l \in k + 1 .. Len(stack) : InItem(stack[k].list, stack[k].next, stack[l].list)
    BY <2>1 DEF OrderInv, FramesInOrder
  <2>3. Passed(stack[k].list, stack[k].next)' /\ Ahead(stack[k].list, stack[k].next)'
    BY <2>1, <2>2 DEF Passed, Ahead
  <2>4. \A l \in k + 1 .. Len(stack') : l \in k + 1 .. Len(stack) /\ stack'[l] = stack[l]
    BY <2>1
  <2>5. \A l \in k + 1 .. Len(stack') : InItem(stack[k].list, stack[k].next, stack[l].list)'
    BY <2>1, <2>2, <2>4 DEF InItem
  <2> QED
    BY <1>1, <2>1, <2>2, <2>3, <2>5
<1>3. FramesInOrder'
  BY <1>2 DEF FramesInOrder
<1>4. KeptInOrder'
  BY <1>1 DEF OrderInv, KeptInOrder
<1> QED
  BY <1>3, <1>4

LEMMA ClosedStays ==
  ASSUME doc' = doc, kept' = kept
  PROVE  \A n : Closed(n) => Closed(n)'
BY DEF Closed, Lost, Full

LEMMA KeptItems ==
  ASSUME BudgetKept
  PROVE  \A n \in ToSet(kept) : n \in Items /\ n \in Nat /\ n # Root
<1>1. kept \in Seq(Items)
  BY DEF BudgetKept
<1>2. \A n \in ToSet(kept) : n \in Items
  BY <1>1 DEF ToSet
<1> QED
  BY <1>2, DocumentsAssumption, OrderAssumption

(* A list under way, and the item its loop is at. *)
LEMMA FrameFacts ==
  ASSUME IInv, OrderInv, NEW k \in 1 .. Len(stack)
  PROVE  /\ stack[k] \in Frames /\ stack[k].list \in Objects /\ stack[k].next \in Nat
         /\ k - 1 \in 0 .. MaxDepth - 1 /\ stack[k].list \in Reachable(doc)[k - 1]
         /\ k > 1 => stack[k].list \in ToSet(kept) /\ stack[k].list \in Items
<1>1. doc \in Documents /\ stack \in Seq(Frames) /\ Len(stack) <= MaxDepth /\ MaxDepth \in Nat
  BY LimitsAssumption DEF IInv, BudgetKept
<1>2. stack[k] \in Frames
  BY <1>1
<1>3. k - 1 \in 0 .. MaxDepth - 1 /\ (k > 1 => k - 1 \in 1 .. MaxDepth)
  BY <1>1
<1>4. stack[k].list \in Reachable(doc)[k - 1] /\ stack[k].list \in InRecord
  BY DEF OrderInv, FramesInOrder
<1>5. k > 1 => stack[k].list \in Items
  BY <1>1, <1>3, <1>4, ReachableType
<1>6. k > 1 => stack[k].list \in ToSet(kept)
  BY <1>4, <1>5, DocumentsAssumption DEF InRecord
<1> QED
  BY <1>2, <1>3, <1>4, <1>5, <1>6 DEF Frames

(* Nothing is lost of a list whose loop stops because the record is full,  *)
(* and nothing of one whose loop comes to its end.                         *)
LEMMA ListDone ==
  ASSUME IInv, OrderInv, pc = "items", stack # <<>>, ~(HasItem /\ BudgetLeft)
  PROVE  Closed(Frame.list)
<1>1. /\ stack \in Seq(Frames) /\ Len(stack) \in 1 .. Len(stack) /\ Frame = stack[Len(stack)]
      /\ kept \in Seq(Items) /\ Len(kept) <= MaxEntities /\ MaxEntities \in Nat
  BY LimitsAssumption DEF IInv, BudgetKept, Frame, Last
<1>2. Frame.next \in Nat /\ Frame.list \in Objects /\ doc \in Documents
  BY <1>1, FrameFacts DEF IInv
<1>3. doc.entities[Frame.list] \in Seq(Items)
  BY <1>2, DocumentFacts
<1>4. LimitedSize(doc.entities[Frame.list]) \in 0 .. Len(doc.entities[Frame.list])
  BY <1>3, LimitedSizeBounds
<1>5. Passed(Frame.list, Frame.next) /\ Ahead(Frame.list, Frame.next)
  BY <1>1 DEF OrderInv, FramesInOrder
<1>6. ASSUME NEW i \in 1 .. LimitedSize(doc.entities[Frame.list]), doc.entities[Frame.list][i] \notin doc.junk
      PROVE  doc.entities[Frame.list][i] \in ToSet(kept) \/ Lost(doc.entities[Frame.list][i])
  <2>1. CASE i < Frame.next
    BY <1>5, <1>6, <2>1 DEF Passed
  <2>2. CASE i >= Frame.next
    <3>1. HasItem
      BY <1>2, <1>4, <2>2 DEF HasItem, Listed
    <3>2. Full
      BY <1>1, <3>1 DEF Full, BudgetLeft
    <3>3. i \in DOMAIN doc.entities[Frame.list]
      BY <1>3, <1>4
    <3> QED
      BY <1>5, <2>2, <3>2, <3>3 DEF Ahead, Lost
  <2> QED
    BY <1>2, <2>1, <2>2
<1> QED
  BY <1>6 DEF Closed, ListedIn

LEMMA RejectDocumentOrder == IInv /\ OrderInv /\ RejectDocument => OrderInv'
<1> SUFFICES ASSUME IInv, OrderInv, RejectDocument PROVE OrderInv'
  OBVIOUS
<1>1. FramesInOrder' /\ KeptInOrder'
  <2>1. doc' = doc /\ kept' = kept /\ stack' = stack
    BY DEF RejectDocument
  <2>2. Len(stack) \in Nat
    BY DEF IInv, BudgetKept
  <2> QED
    BY <2>1, <2>2, OrderStays
<1> QED
  BY <1>1 DEF OrderInv, AtInOrder, NothingOpenLost, RejectDocument

LEMMA ProjectDocumentOrder == IInv /\ OrderInv /\ ProjectDocument => OrderInv'
<1> SUFFICES ASSUME IInv, OrderInv, ProjectDocument PROVE OrderInv'
  OBVIOUS
<1>1. FramesInOrder' /\ KeptInOrder'
  <2>1. doc' = doc /\ kept' = kept /\ stack' = stack
    BY DEF ProjectDocument
  <2>2. Len(stack) \in Nat
    BY DEF IInv, BudgetKept
  <2> QED
    BY <2>1, <2>2, OrderStays
<1>2. stack' = <<>> /\ kept' = <<>> /\ at' = Root /\ pc' = "entities" /\ doc' \in Documents
  BY DEF IInv, OrderInv, ProjectDocument
<1>3. ToSet(kept') = {} /\ InRecord' = {Root}
  BY <1>2 DEF ToSet, InRecord
<1>4. AtInOrder'
  <2>1. Len(stack') = 0 /\ Root \in Reachable(doc')[0]
    BY <1>2, ReachableLevels
  <2> QED
    BY <1>2, <1>3, <2>1 DEF AtInOrder
<1>5. NothingOpenLost'
  BY <1>2, <1>3 DEF NothingOpenLost, Open
<1> QED
  BY <1>1, <1>2, <1>4, <1>5 DEF OrderInv

LEMMA ProjectRangeOrder == IInv /\ OrderInv /\ ProjectRange => OrderInv'
<1> SUFFICES ASSUME IInv, OrderInv, ProjectRange PROVE OrderInv'
  OBVIOUS
<1>1. FramesInOrder' /\ KeptInOrder'
  BY OrderStays DEF IInv, BudgetKept, ProjectRange
<1>2. InRecord' = InRecord /\ \A n : Open(n) => Open(n)'
  BY DEF InRecord, Open, ProjectRange
<1>3. NothingOpenLost'
  BY <1>2, ClosedStays DEF OrderInv, NothingOpenLost, ProjectRange
<1> QED
  BY <1>1, <1>3 DEF OrderInv, AtInOrder, ProjectRange

(* Of an object whose entities are not there or too deep nothing can be    *)
(* kept.                                                                   *)
LEMMA SkipEntitiesOrder == IInv /\ OrderInv /\ SkipEntities => OrderInv'
<1> SUFFICES ASSUME IInv, OrderInv, SkipEntities PROVE OrderInv'
  OBVIOUS
<1>1. FramesInOrder' /\ KeptInOrder'
  BY OrderStays DEF IInv, BudgetKept, SkipEntities, Resume
<1>2. Closed(at)
  <2>1. /\ doc \in Documents /\ at \in Objects /\ Len(stack) \in Nat /\ Len(stack) <= MaxDepth
        /\ MaxDepth \in Nat /\ MaxItems \in Nat /\ at \in Reachable(doc)[Len(stack)]
    BY LimitsAssumption DEF IInv, BudgetKept, OrderInv, AtInOrder, SkipEntities
  <2>2. CASE doc.form[at] # "array"
    <3>1. doc.entities[at] = <<>>
      BY <2>1, <2>2, DocumentsAssumption
    <3>2. LimitedSize(doc.entities[at]) = 0
      BY <2>1, <3>1 DEF LimitedSize
    <3> QED
      BY <3>2 DEF Closed, ListedIn
  <2>3. CASE TooDeep(Len(stack))
    <3>1. Len(stack) = MaxDepth /\ MaxDepth \in 0 .. MaxDepth
      BY <2>1, <2>3 DEF TooDeep
    <3>2. \A depth \in 0 .. MaxDepth - 1 : at \notin Reachable(doc)[depth]
      BY <2>1, <3>1, OneLevel
    <3> QED
      BY <3>2 DEF Closed
  <2> QED
    BY <2>2, <2>3 DEF SkipEntities
<1>3. InRecord' = InRecord /\ \A n : Open(n) => Open(n)' \/ n = at
  BY DEF InRecord, Open, SkipEntities, Resume
<1>4. NothingOpenLost'
  BY <1>2, <1>3, ClosedStays DEF OrderInv, NothingOpenLost, SkipEntities
<1> QED
  BY <1>1, <1>4 DEF OrderInv, AtInOrder, SkipEntities, Resume

(* Leaving the innermost list once its loop is done. *)
LEMMA ResumeOrder ==
  ASSUME IInv, OrderInv, pc = "items", stack # <<>>, Closed(Frame.list),
         Resume(Front(stack)), UNCHANGED <<doc, at, kept>>
  PROVE  OrderInv'
<1>1. BudgetKept /\ stack \in Seq(Frames) /\ Frame = stack[Len(stack)]
  BY DEF IInv, BudgetKept, Frame, Last
<1>2. /\ Len(stack') \in Nat /\ Len(stack') = Len(stack) - 1 /\ Len(stack) \in Nat
      /\ \A k \in 1 .. Len(stack') : k \in 1 .. Len(stack) /\ stack'[k] = stack[k]
  BY <1>1, FrontType DEF Resume
<1>3. FramesInOrder' /\ KeptInOrder'
  BY <1>2, OrderStays
<1>4. ASSUME NEW n, Open(n) PROVE Open(n)' \/ n = Frame.list
  <2>1. PICK k \in 1 .. Len(stack) : stack[k].list = n
    BY <1>4 DEF Open
  <2>2. CASE k = Len(stack)
    BY <1>1, <2>1, <2>2
  <2>3. CASE k # Len(stack)
    BY <1>2, <2>1, <2>3 DEF Open
  <2> QED
    BY <2>2, <2>3
<1>5. InRecord' = InRecord
  BY DEF InRecord
<1>6. NothingOpenLost'
  BY <1>4, <1>5, ClosedStays DEF OrderInv, NothingOpenLost
<1> QED
  BY <1>3, <1>6 DEF OrderInv, AtInOrder, Resume

LEMMA StopAtBudgetOrder == IInv /\ OrderInv /\ StopAtBudget => OrderInv'
BY ListDone, ResumeOrder DEF StopAtBudget, HasItem

LEMMA LeaveEntitiesOrder == IInv /\ OrderInv /\ LeaveEntities => OrderInv'
BY ListDone, ResumeOrder DEF LeaveEntities

(* The list that is entered is the innermost one, and nothing of it is     *)
(* kept yet.                                                               *)
LEMMA EnterEntitiesOrder == IInv /\ OrderInv /\ EnterEntities => OrderInv'
<1> SUFFICES ASSUME IInv, OrderInv, EnterEntities PROVE OrderInv'
  OBVIOUS
<1> DEFINE new == [list |-> at, next |-> 1]  depth == Len(stack)
<1>1. doc \in Documents /\ at \in Objects /\ stack \in Seq(Frames) /\ depth \in Nat
  BY DEF IInv, BudgetKept
<1>2. new \in Frames
  BY <1>1 DEF Frames
<1>3. /\ stack' = Append(stack, new) /\ doc' = doc /\ kept' = kept /\ at' = at
      /\ pc = "entities" /\ pc' = "items"
  BY DEF EnterEntities
<1> HIDE DEF new
<1>4. /\ Len(stack') = depth + 1
      /\ \A k \in 1 .. depth : stack'[k] = stack[k]
      /\ stack'[depth + 1] = new
  BY <1>1, <1>2, <1>3
<1>5. new.list = at /\ new.next = 1
  BY DEF new
<1> HIDE DEF depth
<1>6. /\ at \in Reachable(doc)[depth] /\ at \in InRecord
      /\ \A k \in 1 .. depth : InItem(stack[k].list, stack[k].next, at)
      /\ \A n \in ToSet(kept) : at # Root /\ n <= at
  BY <1>3 DEF OrderInv, AtInOrder, depth
<1>7. InRecord' = InRecord
  BY <1>3 DEF InRecord
<1>8. ASSUME NEW k \in 1 .. depth
      PROVE  /\ (stack[k].list \in Reachable(doc)[k - 1] /\ stack[k].list \in InRecord)'
             /\ Passed(stack[k].list, stack[k].next)' /\ Ahead(stack[k].list, stack[k].next)'
             /\ \A l \in k + 1 .. depth + 1 : InItem(stack[k].list, stack[k].next, stack[l].list)'
  <2>1. /\ stack[k].list \in Reachable(doc)[k - 1] /\ stack[k].list \in InRecord
        /\ Passed(stack[k].list, stack[k].next) /\ Ahead(stack[k].list, stack[k].next)
        /\ \A l \in k + 1 .. depth : InItem(stack[k].list, stack[k].next, stack[l].list)
    BY DEF OrderInv, FramesInOrder, depth
  <2>2. stack'[k] = stack[k]
    BY <1>4
  <2>3. Passed(stack[k].list, stack[k].next)' /\ Ahead(stack[k].list, stack[k].next)'
    BY <1>3, <2>1, <2>2 DEF Passed, Ahead
  <2>4. \A l \in k + 1 .. depth : stack'[l] = stack[l]
    BY <1>1, <1>4
  <2>5. ASSUME NEW l \in k + 1 .. depth + 1
        PROVE  InItem(stack[k].list, stack[k].next, stack[l].list)'
    <3>1. CASE l = depth + 1
      BY <1>3, <1>4, <1>5, <1>6, <2>2, <3>1 DEF InItem
    <3>2. CASE l # depth + 1
      <4>1. l \in k + 1 .. depth
        BY <1>1, <3>2
      <4> QED
        BY <1>3, <2>1, <2>2, <2>4, <4>1 DEF InItem
    <3> QED
      BY <3>1, <3>2
  <2> QED
    BY <1>3, <1>7, <2>1, <2>2, <2>3, <2>5
<1>9. ASSUME NEW k, k = depth + 1
      PROVE  /\ (stack[k].list \in Reachable(doc)[k - 1] /\ stack[k].list \in InRecord)'
             /\ Passed(stack[k].list, stack[k].next)' /\ Ahead(stack[k].list, stack[k].next)'
  <2>1. stack'[k] = new /\ k - 1 = depth
    BY <1>1, <1>4, <1>9
  <2>2. Passed(stack[k].list, stack[k].next)'
    BY <1>5, <2>1 DEF Passed
  <2>3. Ahead(stack[k].list, stack[k].next)'
    <3>1. ASSUME NEW i \in DOMAIN doc.entities[at], NEW n \in ToSet(kept)
          PROVE  n < doc.entities[at][i]
      <4>1. n \in Nat
        BY KeptItems DEF IInv
      <4>2. at \in Nat /\ at < doc.entities[at][i] /\ doc.entities[at][i] \in Nat
        BY <1>1, <1>6, DocumentOrder
      <4> QED
        BY <1>6, <4>1, <4>2
    <3> QED
      BY <1>3, <1>5, <2>1, <3>1 DEF Ahead
  <2> QED
    BY <1>3, <1>5, <1>6, <1>7, <2>1, <2>2, <2>3
<1>10. FramesInOrder'
  <2>1. \A k \in 1 .. depth + 1 : k \in 1 .. depth \/ k = depth + 1
    BY <1>1
  <2>2. \A l : l \notin depth + 1 + 1 .. depth + 1
    BY <1>1
  <2> QED
    BY <1>4, <1>8, <1>9, <2>1, <2>2 DEF FramesInOrder
<1>11. KeptInOrder'
  BY <1>3 DEF OrderInv, KeptInOrder, Eligible
<1>12. \A n : Open(n) => Open(n)'
  <2>1. depth + 1 \in 1 .. depth + 1 /\ \A k \in 1 .. depth : k \in 1 .. depth + 1
    BY <1>1
  <2> QED
    BY <1>3, <1>4, <1>5, <2>1 DEF Open, depth
<1>13. NothingOpenLost'
  BY <1>3, <1>7, <1>12, ClosedStays DEF OrderInv, NothingOpenLost
<1> QED
  BY <1>3, <1>10, <1>11, <1>13 DEF OrderInv, AtInOrder

(* The item that the loop is at, and the lists around it. *)
LEMMA ItemFacts ==
  ASSUME IInv, OrderInv, HasItem
  PROVE  /\ Len(stack) \in 1 .. Len(stack) /\ Frame = stack[Len(stack)]
         /\ Frame.next \in 1 .. LimitedSize(doc.entities[Frame.list])
         /\ Frame.next \in DOMAIN doc.entities[Frame.list]
         /\ Item = doc.entities[Frame.list][Frame.next] /\ Item \in Items /\ Item \in Nat
         /\ Passed(Frame.list, Frame.next)
         /\ \A n \in ToSet(kept) : n \in Nat /\ n < Item
<1>1. /\ doc \in Documents /\ stack \in Seq(Frames) /\ Frame = stack[Len(stack)] /\ Len(stack) \in 1 .. Len(stack)
      /\ Frame \in Frames /\ Frame.next \in 1 .. Len(Listed) /\ Item \in Items
  BY ItemIsListed DEF IInv, BudgetKept
<1>2. Frame.next \in 1 .. LimitedSize(Listed)
  BY <1>1 DEF HasItem
<1>3. Frame.next \in DOMAIN doc.entities[Frame.list]
  BY <1>1, DocumentFacts DEF Listed, Frames
<1>4. Passed(Frame.list, Frame.next) /\ Ahead(Frame.list, Frame.next)
  BY <1>1 DEF OrderInv, FramesInOrder
<1>5. \A n \in ToSet(kept) : n \in Nat
  BY KeptItems DEF IInv
<1>6. Frame.next \in Nat /\ Frame.next >= Frame.next
  BY <1>1 DEF Frames
<1>7. \A n \in ToSet(kept) : n < Item
  BY <1>3, <1>4, <1>6 DEF Ahead, Item, Listed
<1> QED
  BY <1>1, <1>2, <1>3, <1>4, <1>5, <1>7, OrderAssumption DEF Item, Listed

LEMMA SkipItemOrder == IInv /\ OrderInv /\ SkipItem => OrderInv'
<1> SUFFICES ASSUME IInv, OrderInv, SkipItem PROVE OrderInv'
  OBVIOUS
<1>1. /\ doc' = doc /\ kept' = kept /\ at' = at /\ pc = "items" /\ pc' = "items"
      /\ stack' = Advanced /\ HasItem /\ stack # <<>> /\ BudgetKept /\ Item \in doc.junk
  BY DEF SkipItem, HasItem, IInv
<1>2. /\ Len(stack') = Len(stack) /\ Len(stack) \in Nat
      /\ \A k \in 1 .. Len(stack) :
           /\ stack'[k].list = stack[k].list
           /\ stack'[k].next = IF k = Len(stack) THEN stack[k].next + 1 ELSE stack[k].next
  BY <1>1, AdvancedType DEF BudgetKept
<1>3. InRecord' = InRecord /\ Eligible' = Eligible
  BY <1>1 DEF InRecord, Eligible
<1>4. ASSUME NEW k \in 1 .. Len(stack)
      PROVE  /\ (stack[k].list \in Reachable(doc)[k - 1] /\ stack[k].list \in InRecord)'
             /\ Passed(stack[k].list, stack[k].next)' /\ Ahead(stack[k].list, stack[k].next)'
             /\ \A l \in k + 1 .. Len(stack) : InItem(stack[k].list, stack[k].next, stack[l].list)'
  <2>1. /\ stack[k].list \in Reachable(doc)[k - 1] /\ stack[k].list \in InRecord
        /\ Passed(stack[k].list, stack[k].next) /\ Ahead(stack[k].list, stack[k].next)
        /\ \A l \in k + 1 .. Len(stack) : InItem(stack[k].list, stack[k].next, stack[l].list)
    BY DEF OrderInv, FramesInOrder
  <2>2. stack[k].list \in Objects /\ stack[k].next \in Nat
    BY FrameFacts
  <2>3. Passed(stack[k].list, stack[k].next)'
    <3>1. CASE k # Len(stack)
      BY <1>1, <1>2, <2>1, <3>1 DEF Passed
    <3>2. CASE k = Len(stack)
      <4>1. stack'[k].next = stack[k].next + 1 /\ doc.entities[stack[k].list][stack[k].next] \in doc.junk
        BY <1>1, <1>2, <3>2, ItemFacts
      <4>2. \A i \in 1 .. LimitedSize(doc.entities[stack[k].list]) :
              i < stack[k].next + 1 => i < stack[k].next \/ i = stack[k].next
        BY <2>2
      <4> QED
        BY <1>1, <1>2, <2>1, <4>1, <4>2 DEF Passed
    <3> QED
      BY <3>1, <3>2
  <2>4. Ahead(stack[k].list, stack[k].next)'
    <3>1. \A i \in DOMAIN doc.entities[stack[k].list] : i >= stack'[k].next => i >= stack[k].next
      <4>1. doc.entities[stack[k].list] \in Seq(Items)
        BY <2>2, DocumentFacts DEF IInv
      <4> QED
        BY <1>2, <2>2, <4>1, SMTT(30)
    <3> QED
      BY <1>1, <1>2, <2>1, <3>1 DEF Ahead
  <2>5. \A l \in k + 1 .. Len(stack) : InItem(stack[k].list, stack[k].next, stack[l].list)'
    <3>1. \A l \in k + 1 .. Len(stack) : l \in 1 .. Len(stack) /\ k # Len(stack)
      BY <1>2
    <3> QED
      BY <1>1, <1>2, <2>1, <3>1 DEF InItem
  <2> QED
    BY <1>1, <1>2, <1>3, <2>1, <2>3, <2>4, <2>5
<1>5. FramesInOrder'
  BY <1>2, <1>4 DEF FramesInOrder
<1>6. KeptInOrder'
  BY <1>1, <1>3 DEF OrderInv, KeptInOrder
<1>7. \A n : Open(n) => Open(n)'
  BY <1>1, <1>2 DEF Open
<1>8. NothingOpenLost'
  BY <1>1, <1>3, <1>7, ClosedStays DEF OrderInv, NothingOpenLost
<1> QED
  BY <1>1, <1>5, <1>6, <1>8 DEF OrderInv, AtInOrder

(* The entity that is kept stands behind everything kept and before        *)
(* everything that the lists under way have ahead.                         *)
LEMMA ProjectEntityOrder == IInv /\ OrderInv /\ ProjectEntity => OrderInv'
<1> SUFFICES ASSUME IInv, OrderInv, ProjectEntity PROVE OrderInv'
  OBVIOUS
<1> DEFINE depth == Len(stack)
<1>1. /\ doc \in Documents /\ doc' = doc /\ kept' = Append(kept, Item) /\ at' = Item
      /\ pc = "items" /\ pc' = "entities" /\ stack' = Advanced
      /\ HasItem /\ BudgetLeft /\ stack # <<>> /\ BudgetKept /\ Item \notin doc.junk
  BY DEF ProjectEntity, HasItem, IInv
<1>2. /\ Len(stack') = depth /\ depth \in 1 .. depth /\ depth \in Nat
      /\ \A k \in 1 .. depth :
           /\ stack'[k].list = stack[k].list
           /\ stack'[k].next = IF k = depth THEN stack[k].next + 1 ELSE stack[k].next
  BY <1>1, AdvancedType, ItemFacts DEF BudgetKept
<1>3. /\ kept \in Seq(Items) /\ kept' \in Seq(Items) /\ Len(kept') = Len(kept) + 1 /\ Len(kept) \in Nat
      /\ \A i \in 1 .. Len(kept) : kept'[i] = kept[i]
      /\ kept'[Len(kept) + 1] = Item
  BY <1>1, ItemFacts DEF BudgetKept
<1>4. ToSet(kept') = ToSet(kept) \cup {Item}
  BY <1>3 DEF ToSet
<1>5. InRecord' = InRecord \cup {Item} /\ Eligible' = Eligible
  BY <1>1, <1>4 DEF InRecord, Eligible
<1> DEFINE list == stack[depth].list  next == stack[depth].next
<1>6. /\ next \in 1 .. LimitedSize(doc.entities[list]) /\ next \in DOMAIN doc.entities[list]
      /\ Item = doc.entities[list][next] /\ Item \in Items /\ Item \in Nat /\ Item # Root
      /\ \A n \in ToSet(kept) : n \in Nat /\ n < Item
  BY ItemFacts, DocumentsAssumption, <1>1
<1>7. Item \in Reachable(doc)[depth] /\ depth \in 1 .. MaxDepth
  <2>1. depth \in 1 .. MaxDepth /\ list \in Reachable(doc)[depth - 1]
    BY <1>1, <1>2, FrameFacts, LimitsAssumption DEF BudgetKept
  <2>2. Item \in ListedIn(doc, list)
    BY <1>1, <1>6 DEF ListedIn
  <2> QED
    BY <1>1, <2>1, <2>2, ReachableLevels
<1> HIDE DEF depth
<1>8. ASSUME NEW k \in 1 .. depth - 1
      PROVE  /\ InItem(stack[k].list, stack[k].next, list)
             /\ list \in ToSet(kept) /\ list \in Items /\ list \in Nat /\ list < Item
  <2>1. k \in 1 .. depth /\ depth > 1 /\ depth \in k + 1 .. depth
    BY <1>2
  <2>2. InItem(stack[k].list, stack[k].next, list)
    BY <2>1 DEF OrderInv, FramesInOrder, depth
  <2>3. list \in ToSet(kept) /\ list \in Items
    BY <1>2, <2>1, FrameFacts DEF depth
  <2> QED
    BY <1>6, <2>2, <2>3, OrderAssumption
<1>9. ASSUME NEW k \in 1 .. depth
      PROVE  InItem(stack'[k].list, stack'[k].next, Item) /\ InItem(stack[k].list, stack[k].next, at)'
  <2>1. CASE k = depth
    <3>1. stack'[k].next - 1 = next /\ stack'[k].list = list
      BY <1>2, <1>6, <2>1
    <3>2. doc.entities[list][next] <= Item
      BY <1>6
    <3> QED
      BY <1>1, <1>6, <3>1, <3>2 DEF InItem
  <2>2. CASE k # depth
    <3>1. k \in 1 .. depth - 1 /\ stack'[k].list = stack[k].list /\ stack'[k].next = stack[k].next
      BY <1>2, <2>2
    <3>2. doc.entities[stack[k].list] \in Seq(Items)
      BY <1>1, FrameFacts, DocumentFacts DEF depth
    <3>3. stack[k].next - 1 \in 1 .. LimitedSize(doc.entities[stack[k].list])
          /\ doc.entities[stack[k].list][stack[k].next - 1] <= list
      BY <1>8, <3>1 DEF InItem
    <3>4. doc.entities[stack[k].list][stack[k].next - 1] \in Nat
      <4>1. stack[k].next - 1 \in 1 .. Len(doc.entities[stack[k].list])
        BY <3>2, <3>3, LimitedSizeBounds
      <4>2. doc.entities[stack[k].list][stack[k].next - 1] \in Items
        BY <3>2, <4>1
      <4> QED
        BY <4>2, OrderAssumption
    <3>5. doc.entities[stack[k].list][stack[k].next - 1] <= Item
      BY <1>6, <1>8, <3>1, <3>3, <3>4, SMTT(30)
    <3> QED
      BY <1>1, <3>1, <3>3, <3>5 DEF InItem
  <2> QED
    BY <2>1, <2>2
<1>10. ASSUME NEW k \in 1 .. depth, NEW i \in DOMAIN doc.entities[stack[k].list], i >= stack'[k].next
       PROVE  \A n \in ToSet(kept') : n < doc.entities[stack[k].list][i]
  <2> DEFINE own == stack[k].list  entities == doc.entities[own]
  <2>1. own \in Objects /\ stack[k].next \in Nat
    BY FrameFacts DEF depth
  <2>2. entities \in Seq(Items) /\ i \in Nat
    BY <1>1, <2>1, DocumentFacts
  <2>3. i >= stack[k].next
    BY <1>2, <1>10, <2>1, <2>2
  <2>4. \A n \in ToSet(kept) : n < entities[i]
    BY <2>3 DEF OrderInv, FramesInOrder, Ahead, depth
  <2>5. CASE k = depth
    <3>1. next \in 1 .. i - 1
      BY <1>2, <1>6, <1>10, <2>2, <2>5
    <3>2. Item < entities[i]
      BY <1>1, <1>6, <2>1, <2>5, <3>1, DocumentOrder
    <3> QED
      BY <1>4, <2>4, <3>2
  <2>6. CASE k # depth
    <3> DEFINE j == stack[k].next - 1
    <3>1. k \in 1 .. depth - 1
      BY <1>2, <2>6
    <3>2. j \in 1 .. LimitedSize(entities) /\ entities[j] <= list
      BY <1>8, <3>1 DEF InItem
    <3>3. j \in 1 .. i - 1
      BY <2>1, <2>2, <2>3, <3>2, LimitedSizeBounds
    <3>4. list \in Items /\ list < entities[i]
      BY <1>8, <2>4, <3>1
    <3>5. Item \in ToSet(doc.entities[list])
      BY <1>6 DEF ToSet
    <3> HIDE DEF j, list
    <3>6. Item < entities[i]
      BY <1>1, <2>1, <3>2, <3>3, <3>4, <3>5, DocumentOrder
    <3> QED
      BY <1>4, <2>4, <3>6
  <2> QED
    BY <2>5, <2>6
<1>11. ASSUME NEW k \in 1 .. depth
       PROVE  /\ (stack[k].list \in Reachable(doc)[k - 1] /\ stack[k].list \in InRecord)'
              /\ Passed(stack[k].list, stack[k].next)' /\ Ahead(stack[k].list, stack[k].next)'
              /\ \A l \in k + 1 .. depth : InItem(stack[k].list, stack[k].next, stack[l].list)'
  <2>1. /\ stack[k].list \in Reachable(doc)[k - 1] /\ stack[k].list \in InRecord
        /\ Passed(stack[k].list, stack[k].next)
        /\ \A l \in k + 1 .. depth : InItem(stack[k].list, stack[k].next, stack[l].list)
    BY DEF OrderInv, FramesInOrder, depth
  <2>2. stack[k].list \in Objects /\ stack[k].next \in Nat /\ stack'[k].list = stack[k].list
    BY <1>2, FrameFacts DEF depth
  <2>3. Passed(stack[k].list, stack[k].next)'
    <3>1. CASE k # depth
      BY <1>1, <1>2, <1>4, <2>1, <3>1 DEF Passed
    <3>2. CASE k = depth
      <4>1. stack'[k].next = stack[k].next + 1 /\ doc.entities[stack[k].list][stack[k].next] = Item
        BY <1>2, <1>6, <3>2
      <4>2. \A i \in 1 .. LimitedSize(doc.entities[stack[k].list]) :
              i < stack[k].next + 1 => i < stack[k].next \/ i = stack[k].next
        BY <2>2
      <4> QED
        BY <1>1, <1>4, <2>1, <2>2, <4>1, <4>2 DEF Passed
    <3> QED
      BY <3>1, <3>2
  <2>4. Ahead(stack[k].list, stack[k].next)'
    BY <1>1, <1>10, <2>2 DEF Ahead
  <2>5. \A l \in k + 1 .. depth : InItem(stack[k].list, stack[k].next, stack[l].list)'
    <3>1. \A l \in k + 1 .. depth : l \in 1 .. depth /\ k # depth
      BY <1>2
    <3>2. \A l \in k + 1 .. depth : stack'[l].list = stack[l].list
      BY <1>2, <3>1
    <3>3. \A l \in k + 1 .. depth : stack'[k].next = stack[k].next
      BY <1>2, <3>1
    <3> QED
      BY <1>1, <2>1, <2>2, <3>2, <3>3 DEF InItem
  <2> QED
    BY <1>1, <1>5, <2>1, <2>2, <2>3, <2>4, <2>5
<1>12. FramesInOrder'
  BY <1>2, <1>11 DEF FramesInOrder
<1>13. AtInOrder'
  <2>1. (at \in Reachable(doc)[Len(stack)] /\ at \in InRecord)'
    <3>1. Item \in InRecord'
      BY <1>5
    <3>2. Len(stack') = depth
      BY <1>2
    <3> QED
      BY <1>1, <1>7, <3>1, <3>2
  <2>2. \A n \in ToSet(kept') : at' # Root /\ n <= at'
    <3>1. \A n \in ToSet(kept) \cup {Item} : Item # Root /\ n <= Item
      BY <1>6, SMTT(30)
    <3> QED
      BY <1>1, <1>4, <3>1
  <2> QED
    BY <1>2, <1>9, <2>1, <2>2 DEF AtInOrder
<1>14. KeptInOrder'
  <2>1. ASSUME NEW i \in DOMAIN kept', NEW j \in DOMAIN kept', i < j
        PROVE  kept'[i] < kept'[j]
    <3>1. i \in 1 .. Len(kept) /\ kept[i] \in ToSet(kept) /\ kept'[i] = kept[i]
      BY <1>3, <2>1 DEF ToSet
    <3>2. CASE j = Len(kept) + 1
      BY <1>3, <1>6, <3>1, <3>2
    <3>3. CASE j # Len(kept) + 1
      <4>1. j \in 1 .. Len(kept) /\ kept'[j] = kept[j]
        BY <1>3, <3>3
      <4> QED
        BY <1>3, <2>1, <3>1, <4>1 DEF OrderInv, KeptInOrder
    <3> QED
      BY <3>2, <3>3
  <2>2. Item \in Eligible
    BY <1>7 DEF Eligible
  <2> QED
    BY <1>4, <1>5, <2>1, <2>2 DEF OrderInv, KeptInOrder
<1>15. \A n : Open(n) => Open(n)'
  BY <1>1, <1>2 DEF Open, depth
<1>16. ASSUME NEW n, Closed(n) PROVE Closed(n)'
  <2>1. ~Full
    BY <1>1, LimitsAssumption DEF BudgetLeft, Full
  <2> QED
    BY <1>1, <1>4, <1>16, <2>1 DEF Closed, Lost
<1>17. \A n : n = Item => Open(n)'
  BY <1>1 DEF Open
<1>18. NothingOpenLost'
  BY <1>1, <1>5, <1>15, <1>16, <1>17 DEF OrderInv, NothingOpenLost
<1> QED
  BY <1>1, <1>12, <1>13, <1>14, <1>18 DEF OrderInv

LEMMA NextOrder == IInv /\ OrderInv /\ [Next]_vars => OrderInv'
<1> SUFFICES ASSUME IInv, OrderInv, [Next]_vars PROVE OrderInv'
  OBVIOUS
<1>1. CASE UNCHANGED vars
  <2>1. doc' = doc /\ kept' = kept /\ stack' = stack /\ pc' = pc /\ at' = at
    BY <1>1 DEF vars
  <2>2. Len(stack) \in Nat
    BY DEF IInv, BudgetKept
  <2>3. FramesInOrder' /\ KeptInOrder'
    BY <2>1, <2>2, OrderStays
  <2>4. InRecord' = InRecord /\ \A n : Open(n) => Open(n)'
    BY <2>1 DEF InRecord, Open
  <2>5. NothingOpenLost'
    BY <2>1, <2>4, ClosedStays DEF OrderInv, NothingOpenLost
  <2>6. AtInOrder'
    BY <2>1, <2>4 DEF OrderInv, AtInOrder, InItem
  <2> QED
    BY <2>1, <2>3, <2>5, <2>6 DEF OrderInv
<1> QED
  BY <1>1, RejectDocumentOrder, ProjectDocumentOrder, ProjectRangeOrder, SkipEntitiesOrder,
     EnterEntitiesOrder, StopAtBudgetOrder, SkipItemOrder, ProjectEntityOrder, LeaveEntitiesOrder DEF Next

(* An object that can be in the record is in it or lost: by induction over *)
(* its depth.  What an object holds is lost with it, and stands behind it. *)
LEMMA LostWithParents ==
  ASSUME IInv, OrderInv, pc = "done", NEW depth \in 0 .. MaxDepth, NEW n \in Reachable(doc)[depth]
  PROVE  n \in InRecord \/ Lost(n)
<1> DEFINE Settled(m) == m \in InRecord \/ Lost(m)
           S == {d \in 0 .. MaxDepth : \A m \in Reachable(doc)[d] : Settled(m)}
<1>1. doc \in Documents /\ MaxDepth \in Nat /\ BudgetKept
  BY LimitsAssumption DEF IInv
<1>2. \A m \in InRecord : Closed(m)
  <2>1. stack = <<>> /\ \A k : k \notin 1 .. Len(<<>>)
    BY DEF IInv
  <2> QED
    BY <2>1 DEF OrderInv, NothingOpenLost, Open
<1>3. 0 \in S
  BY <1>1, ReachableLevels DEF InRecord
<1>4. ASSUME NEW d \in 0 .. MaxDepth - 1, d \in S
      PROVE  d + 1 \in S
  <2>1. d + 1 \in 1 .. MaxDepth /\ (d + 1) - 1 = d /\ d \in 0 .. MaxDepth /\ d + 1 \in 0 .. MaxDepth
    BY <1>1
  <2>2. ASSUME NEW m \in Reachable(doc)[d + 1]
        PROVE  Settled(m)
    <3>1. PICK p \in Reachable(doc)[d] : m \in ListedIn(doc, p)
      BY <1>1, <2>1, ReachableLevels
    <3>2. p \in Objects /\ Settled(p)
      BY <1>1, <1>4, <2>1, ReachableType
    <3>3. CASE p \in InRecord
      BY <1>2, <3>1, <3>3 DEF Closed, InRecord
    <3>4. CASE p \notin InRecord
      <4>1. p # Root /\ Lost(p)
        BY <3>2, <3>4 DEF InRecord
      <4>2. PICK i \in DOMAIN doc.entities[p] : m = doc.entities[p][i]
        BY <1>1, <3>1, <3>2, ListedInType DEF ToSet
      <4>3. p \in Nat /\ p < m /\ m \in Nat
        BY <1>1, <3>2, <4>1, <4>2, DocumentOrder
      <4> QED
        BY <1>1, <4>1, <4>3, KeptItems DEF Lost
    <3> QED
      BY <3>3, <3>4
  <2> HIDE DEF Settled
  <2> QED
    BY <2>1, <2>2
<1>5. 0 .. MaxDepth \subseteq S
  <2> HIDE DEF S
  <2> QED
    BY <1>1, <1>3, <1>4, InductUpTo
<1> QED
  BY <1>5

(* The entities of a record come in the order of the document, and the     *)
(* budget goes to the first of those that can be kept: one is lost only to *)
(* a full record, and stands behind everything in it.                      *)
THEOREM FirstAreKept == Spec => []FirstComeFirstKept
<1>1. IInv /\ OrderInv => FirstComeFirstKept
  <2> SUFFICES ASSUME IInv, OrderInv, pc = "done" PROVE FirstComeFirstKept
    BY DEF FirstComeFirstKept
  <2>1. ASSUME NEW lost \in Eligible \ ToSet(kept)
        PROVE  Len(kept) = MaxEntities /\ \A n \in ToSet(kept) : n < lost
    <3>1. PICK depth \in 1 .. MaxDepth : lost \in Reachable(doc)[depth]
      BY DEF Eligible
    <3>2. depth \in 0 .. MaxDepth /\ lost \in Items
      BY <3>1, LimitsAssumption, ReachableType DEF IInv
    <3>3. lost \notin InRecord
      BY <3>2, DocumentsAssumption DEF InRecord
    <3> QED
      BY <3>1, <3>2, <3>3, LostWithParents DEF Lost, Full
  <2> QED
    BY <2>1 DEF FirstComeFirstKept, OrderInv, KeptInOrder
<1> QED
  BY <1>1, InitIInv, NextIInv, OrderInit, NextOrder, PTL DEF Spec

-----------------------------------------------------------------------------
(* The views of a record that is done.  It is a tree: what stands in it    *)
(* below an object is numbered from the object on, and each item of a list *)
(* stands with all that is below it before the next one.                   *)
Finished == doc \in Documents /\ BudgetKept /\ pc = "done" /\ FirstComeFirstKept

LEMMA ListFacts ==
  ASSUME doc \in Documents, NEW n \in Objects
  PROVE  /\ doc.entities[n] \in Seq(Items) /\ DOMAIN doc.entities[n] = 1 .. Len(doc.entities[n])
         /\ Len(doc.entities[n]) \in Nat
         /\ ToSet(doc.entities[n]) = {doc.entities[n][i] : i \in DOMAIN doc.entities[n]}
<1>1. doc.entities[n] \in Seq(Items)
  BY DocumentFacts
<1> QED
  BY <1>1 DEF ToSet

LEMMA RecordRanks ==
  ASSUME Finished
  PROVE  \E bound \in Nat : \E rank \in [Objects -> 0 .. bound] :
           \A n \in InRecord : \A i \in DOMAIN doc.entities[n] :
             rank[doc.entities[n][i]] < rank[n]
<1>1. doc \in Documents /\ BudgetKept /\ kept \in Seq(Items)
  BY DEF Finished, BudgetKept
<1>2. PICK last \in Nat : \A n \in ToSet(kept) : n <= last
  <2>1. CASE kept = <<>>
    <3>1. ToSet(kept) = {}
      BY <2>1 DEF ToSet
    <3> QED
      BY <3>1
  <2>2. CASE kept # <<>>
    <3>1. Len(kept) \in 1 .. Len(kept) /\ DOMAIN kept = 1 .. Len(kept)
      BY <1>1, <2>2
    <3>2. kept[Len(kept)] \in Nat /\ \A i \in DOMAIN kept : kept[i] \in Nat
      BY <1>1, <3>1, KeptItems DEF ToSet
    <3>3. ASSUME NEW n \in ToSet(kept) PROVE n <= kept[Len(kept)]
      <4>1. PICK i \in DOMAIN kept : n = kept[i]
        BY DEF ToSet
      <4>2. i < Len(kept) => kept[i] < kept[Len(kept)]
        BY <3>1, <4>1 DEF Finished, FirstComeFirstKept
      <4>3. i = Len(kept) \/ i < Len(kept)
        BY <3>1, <4>1
      <4> QED
        BY <3>2, <4>1, <4>2, <4>3
    <3> QED
      BY <3>2, <3>3
  <2> QED
    BY <2>1, <2>2
<1> DEFINE rank == [n \in Objects |-> IF n = Root THEN last + 2
                                      ELSE IF n \in ToSet(kept) THEN last + 1 - n ELSE 0]
<1>3. \A n \in ToSet(kept) : n \in Items /\ n \in Nat /\ n # Root
  BY <1>1, KeptItems
<1>4. ASSUME NEW n \in Objects
      PROVE  /\ rank[n] \in 0 .. last + 2
             /\ n = Root => rank[n] = last + 2
             /\ n \in ToSet(kept) => rank[n] = last + 1 - n /\ rank[n] >= 1
             /\ n # Root => rank[n] <= last + 1
             /\ n # Root /\ n \notin ToSet(kept) => rank[n] = 0
  <2>1. n \in ToSet(kept) => n \in Nat /\ n <= last /\ n # Root
    BY <1>2, <1>3
  <2> QED
    BY <2>1
<1>5. rank \in [Objects -> 0 .. last + 2]
  BY <1>4
<1>6. ASSUME NEW n \in InRecord, NEW i \in DOMAIN doc.entities[n]
      PROVE  rank[doc.entities[n][i]] < rank[n]
  <2> DEFINE c == doc.entities[n][i]
  <2>1. n \in Objects
    BY <1>3 DEF InRecord, Objects
  <2>2. c \in Items /\ c \in Nat /\ (n # Root => n \in Nat /\ n < c)
    BY <1>1, <2>1, DocumentOrder
  <2>3. c \in Objects /\ c # Root
    BY <2>2, DocumentsAssumption DEF Objects
  <2> SUFFICES rank[c] < rank[n]
    OBVIOUS
  <2> HIDE DEF rank, c
  <2>4. rank[c] \in Nat /\ rank[c] <= last + 1
    BY <1>4, <2>3
  <2>5. CASE n = Root
    BY <1>4, <2>1, <2>4, <2>5
  <2>6. CASE n # Root
    <3>1. n \in ToSet(kept)
      BY <2>6 DEF InRecord
    <3>2. rank[n] = last + 1 - n /\ rank[n] >= 1
      BY <1>4, <2>1, <3>1
    <3>3. CASE c \in ToSet(kept)
      <4>1. rank[c] = last + 1 - c
        BY <1>4, <2>3, <3>3
      <4> QED
        BY <2>2, <2>6, <3>2, <4>1
    <3>4. CASE c \notin ToSet(kept)
      <4>1. rank[c] = 0
        BY <1>4, <2>3, <3>4
      <4>2. rank[n] > 0
        BY <2>2, <2>6, <3>2
      <4> QED
        BY <4>1, <4>2
    <3> QED
      BY <3>3, <3>4
  <2> QED
    BY <2>5, <2>6
<1> HIDE DEF rank
<1> QED
  BY <1>5, <1>6

(* The lists that the views go down, of the whole record and of an entity. *)
Nested == [n \in Objects |-> IF n \in InRecord THEN doc.entities[n] ELSE <<>>]
NestedInItem == [n \in Items |-> IF Kept(n) THEN doc.entities[n] ELSE <<>>]
NestedInLine ==
  [p \in Items \X Nat |->
     IF Kept(p[1]) THEN [i \in DOMAIN doc.entities[p[1]] |-> <<doc.entities[p[1]][i], p[2] + 1>>]
     ELSE <<>>]

LEMMA RecordIsTree ==
  ASSUME Finished
  PROVE  \E bound \in Nat : /\ \E rank : IsTree(Nested, rank, bound, Objects)
                            /\ \E rank : IsTree(NestedInItem, rank, bound, Items)
                            /\ \E rank : IsTree(NestedInLine, rank, bound, Items \X Nat)
<1>0. PICK bound \in Nat : \E rank \in [Objects -> 0 .. bound] :
        \A n \in InRecord : \A i \in DOMAIN doc.entities[n] : rank[doc.entities[n][i]] < rank[n]
  BY RecordRanks
<1>1. PICK rank \in [Objects -> 0 .. bound] :
        \A n \in InRecord : \A i \in DOMAIN doc.entities[n] : rank[doc.entities[n][i]] < rank[n]
  BY <1>0
<1>2. \A n \in Objects : /\ doc.entities[n] \in Seq(Items) /\ doc.entities[n] \in Seq(Objects)
                         /\ \A i \in DOMAIN doc.entities[n] : doc.entities[n][i] \in Items
                         /\ DOMAIN doc.entities[n] = 1 .. Len(doc.entities[n]) /\ Len(doc.entities[n]) \in Nat
  BY DocumentFacts DEF Finished, Objects
<1>3. (\A n : Kept(n) => n \in InRecord) /\ \A n \in Items : n \in Objects
  BY DEF Kept, InRecord, Objects
<1>4. IsTree(Nested, rank, bound, Objects)
  <2>1. Nested \in [Objects -> Seq(Objects)]
    BY <1>2 DEF Nested
  <2>2. \A n \in Objects : \A i \in DOMAIN Nested[n] : rank[Nested[n][i]] < rank[n]
    BY <1>1 DEF Nested
  <2> QED
    BY <2>1, <2>2 DEF IsTree
<1>5. IsTree(NestedInItem, [n \in Items |-> rank[n]], bound, Items)
  <2>1. NestedInItem \in [Items -> Seq(Items)]
    BY <1>2, <1>3 DEF NestedInItem
  <2>2. \A n \in Items : \A i \in DOMAIN NestedInItem[n] :
          NestedInItem[n][i] \in Items /\ rank[NestedInItem[n][i]] < rank[n]
    BY <1>1, <1>2, <1>3 DEF NestedInItem
  <2>3. [n \in Items |-> rank[n]] \in [Items -> 0 .. bound]
    BY <1>3
  <2> QED
    BY <2>1, <2>2, <2>3 DEF IsTree
<1>6. IsTree(NestedInLine, [p \in Items \X Nat |-> rank[p[1]]], bound, Items \X Nat)
  <2> DEFINE pairRank == [p \in Items \X Nat |-> rank[p[1]]]
  <2>1. ASSUME NEW p \in Items \X Nat
        PROVE  /\ NestedInLine[p] \in Seq(Items \X Nat)
               /\ pairRank[p] \in 0 .. bound
               /\ \A i \in DOMAIN NestedInLine[p] :
                    NestedInLine[p][i] \in Items \X Nat /\ pairRank[NestedInLine[p][i]] < pairRank[p]
    <3>1. p[1] \in Items /\ p[2] \in Nat /\ p[1] \in Objects
      BY <1>3
    <3>2. pairRank[p] = rank[p[1]] /\ pairRank[p] \in 0 .. bound
      BY <3>1
    <3>3. CASE ~Kept(p[1])
      BY <3>2, <3>3 DEF NestedInLine
    <3>4. CASE Kept(p[1])
      <4> DEFINE list == doc.entities[p[1]]
                 next == [i \in DOMAIN list |-> <<list[i], p[2] + 1>>]
      <4>1. NestedInLine[p] = next
        BY <3>4 DEF NestedInLine
      <4>2. DOMAIN list = 1 .. Len(list) /\ Len(list) \in Nat /\ \A i \in DOMAIN list : list[i] \in Items
        BY <1>2, <3>1
      <4>3. \A i \in DOMAIN list : rank[list[i]] < rank[p[1]]
        BY <1>1, <1>3, <3>4
      <4> HIDE DEF list
      <4>4. \A i \in DOMAIN list : /\ next[i] = <<list[i], p[2] + 1>> /\ next[i] \in Items \X Nat
                                  /\ pairRank[next[i]] = rank[list[i]]
        BY <3>1, <4>2
      <4>5. DOMAIN next = DOMAIN list
        OBVIOUS
      <4>6. next \in Seq(Items \X Nat)
        <5> HIDE DEF pairRank
        <5> QED
          BY <4>2, <4>4
      <4> HIDE DEF next, pairRank
      <4> QED
        BY <3>2, <4>1, <4>3, <4>4, <4>5, <4>6
    <3> QED
      BY <3>3, <3>4
  <2>2. NestedInLine \in [Items \X Nat -> Seq(Items \X Nat)]
    <3>1. NestedInLine = [p \in Items \X Nat |-> NestedInLine[p]]
      BY DEF NestedInLine
    <3> HIDE DEF pairRank
    <3> QED
      BY <2>1, <3>1
  <2>3. pairRank \in [Items \X Nat -> 0 .. bound]
    BY <2>1
  <2> HIDE DEF pairRank
  <2>4. IsTree(NestedInLine, pairRank, bound, Items \X Nat)
    BY <2>1, <2>2, <2>3 DEF IsTree
  <2> QED
    BY <2>4 DEF pairRank
<1> QED
  BY <1>4, <1>5, <1>6

(* What stands in the record below an object, the object included. *)
IsBelow(below) ==
  /\ below \in [Objects -> SUBSET Objects]
  /\ \A n \in Objects :
       below[n] = IF n \notin InRecord THEN {}
                  ELSE {n} \cup UNION {below[doc.entities[n][i]] : i \in DOMAIN doc.entities[n]}

LEMMA BelowExists == Finished => \E below : IsBelow(below)
<1> SUFFICES ASSUME Finished PROVE \E below : IsBelow(below)
  OBVIOUS
<1> DEFINE V == SUBSET Objects
           step == [p \in Objects \X Seq(V) |->
                      IF p[1] \notin InRecord THEN {}
                      ELSE {p[1]} \cup UNION {p[2][i] : i \in DOMAIN p[2]}]
<1>1. PICK bound \in Nat : \E rank : IsTree(Nested, rank, bound, Objects)
  BY RecordIsTree
<1>2. PICK rank : IsTree(Nested, rank, bound, Objects)
  BY <1>1
<1>3. step \in [Objects \X Seq(V) -> V]
  <2>1. ASSUME NEW p \in Objects \X Seq(V)
        PROVE  {p[1]} \cup UNION {p[2][i] : i \in DOMAIN p[2]} \in V
    <3>1. p[1] \in Objects /\ p[2] \in Seq(V)
      OBVIOUS
    <3>2. \A i \in DOMAIN p[2] : p[2][i] \in V
      BY <3>1
    <3> QED
      BY <3>1, <3>2
  <2> QED
    BY <2>1
<1>4. PICK below : IsTreeFold(below, Nested, Objects, V, step)
  <2> HIDE DEF step, V
  <2> QED
    BY <1>2, <1>3, TreeFoldExists
<1>5. below \in [Objects -> SUBSET Objects]
  BY <1>4 DEF IsTreeFold
<1>6. ASSUME NEW n \in Objects
      PROVE  below[n] = IF n \notin InRecord THEN {}
                        ELSE {n} \cup UNION {below[doc.entities[n][i]] : i \in DOMAIN doc.entities[n]}
  <2> DEFINE values == ValuesBelow(below, Nested, n)
  <2>1. below[n] = step[<<n, values>>]
    BY <1>4 DEF IsTreeFold
  <2>2. values \in Seq(V)
    <3>1. Nested \in [Objects -> Seq(Objects)]
      BY <1>2 DEF IsTree
    <3> QED
      BY <1>5, <3>1, ValuesBelowType
  <2>3. n \in InRecord => values = [i \in DOMAIN doc.entities[n] |-> below[doc.entities[n][i]]]
    BY DEF Nested, ValuesBelow
  <2> HIDE DEF values
  <2>4. below[n] = IF n \notin InRecord THEN {} ELSE {n} \cup UNION {values[i] : i \in DOMAIN values}
    BY <2>1, <2>2
  <2>5. n \in InRecord => {values[i] : i \in DOMAIN values}
                          = {below[doc.entities[n][i]] : i \in DOMAIN doc.entities[n]}
    BY <2>3
  <2> QED
    BY <2>4, <2>5
<1> QED
  BY <1>5, <1>6 DEF IsBelow

(* It is kept, it is numbered from the object on, and with an entity it    *)
(* has those of the entity's list that are kept.                           *)
LEMMA BelowIsKept ==
  ASSUME Finished, NEW below, IsBelow(below)
  PROVE  /\ \A n \in Objects : below[n] \subseteq InRecord
         /\ \A n \in Items : \A e \in below[n] : e \in ToSet(kept) /\ n <= e
         /\ \A n \in Objects : \A e \in below[n] : \A i \in DOMAIN doc.entities[e] :
              Kept(doc.entities[e][i]) => doc.entities[e][i] \in below[n]
<1> DEFINE Good(n) ==
             /\ below[n] \subseteq InRecord
             /\ n \in Items => \A e \in below[n] : e \in ToSet(kept) /\ n <= e
             /\ \A e \in below[n] : \A i \in DOMAIN doc.entities[e] :
                  Kept(doc.entities[e][i]) => doc.entities[e][i] \in below[n]
           S == {n \in Objects : Good(n)}
<1>1. PICK bound \in Nat : \E rank : IsTree(Nested, rank, bound, Objects)
  BY RecordIsTree
<1>2. PICK rank : IsTree(Nested, rank, bound, Objects)
  BY <1>1
<1>3. /\ doc \in Documents /\ BudgetKept
      /\ \A n \in ToSet(kept) : n \in Items /\ n \in Nat /\ n # Root
  BY KeptItems DEF Finished
<1>4. ASSUME NEW n \in Objects, \A i \in DOMAIN Nested[n] : Nested[n][i] \in S
      PROVE  n \in S
  <2>1. CASE n \notin InRecord
    <3>1. below[n] = {}
      BY <2>1 DEF IsBelow
    <3> QED
      BY <3>1
  <2>2. CASE n \in InRecord
    <3> DEFINE list == doc.entities[n]
    <3>1. below[n] = {n} \cup UNION {below[list[i]] : i \in DOMAIN list}
      BY <2>2 DEF IsBelow
    <3>2. \A i \in DOMAIN list : list[i] \in Objects /\ Good(list[i])
      <4>1. Nested[n] = list
        BY <2>2 DEF Nested
      <4> HIDE DEF Good, list
      <4> QED
        BY <1>4, <4>1
    <3>3. \A i \in DOMAIN list : /\ list[i] \in Items /\ list[i] \in Nat
                                 /\ n # Root => n \in Nat /\ n < list[i]
      BY <1>3, DocumentOrder
    <3>4. below[n] \subseteq InRecord
      BY <2>2, <3>1, <3>2
    <3>5. ASSUME n \in Items, NEW e \in below[n] PROVE e \in ToSet(kept) /\ n <= e
      <4>1. n # Root /\ n \in ToSet(kept) /\ n \in Nat
        BY <1>3, <2>2, <3>5, DocumentsAssumption, OrderAssumption DEF InRecord
      <4>2. CASE e = n
        BY <4>1, <4>2
      <4>3. CASE e # n
        <5>1. PICK i \in DOMAIN list : e \in below[list[i]]
          BY <3>1, <3>5, <4>3
        <5>2. /\ list[i] \in Items /\ list[i] \in Nat /\ n < list[i]
              /\ \A x \in below[list[i]] : x \in ToSet(kept) /\ list[i] <= x
          <6>1. Good(list[i])
            BY <3>2, <5>1
          <6> HIDE DEF list, Good
          <6>2. list[i] \in Items /\ list[i] \in Nat /\ (n # Root => n < list[i])
            BY <3>3, <5>1
          <6> USE DEF Good
          <6> QED
            BY <4>1, <6>1, <6>2
        <5> DEFINE c == list[i]
        <5>3. c \in Nat /\ n < c /\ e \in ToSet(kept) /\ c <= e
          BY <5>1, <5>2
        <5> HIDE DEF c
        <5>4. e \in Nat
          BY <1>3, <5>3
        <5> QED
          BY <4>1, <5>3, <5>4
      <4> QED
        BY <4>2, <4>3
    <3>6. ASSUME NEW e \in below[n], NEW j \in DOMAIN doc.entities[e], Kept(doc.entities[e][j])
          PROVE  doc.entities[e][j] \in below[n]
      <4>1. CASE e = n
        <5>1. list[j] \in Objects /\ list[j] \in InRecord /\ j \in DOMAIN list
          BY <3>2, <3>6, <4>1 DEF Kept, InRecord
        <5>2. list[j] \in below[list[j]]
          BY <5>1 DEF IsBelow
        <5>3. list[j] \in below[n]
          BY <3>1, <5>1, <5>2
        <5> QED
          BY <4>1, <5>3
      <4>2. CASE e # n
        <5>1. PICK i \in DOMAIN list : e \in below[list[i]]
          BY <3>1, <3>6, <4>2
        <5>2. doc.entities[e][j] \in below[list[i]]
          BY <3>2, <3>6, <5>1
        <5> QED
          BY <3>1, <5>1, <5>2
      <4> QED
        BY <4>1, <4>2
    <3>7. Good(n)
      BY <3>4, <3>5, <3>6
    <3> QED
      BY <3>7
  <2> QED
    BY <2>1, <2>2
<1>5. Objects \subseteq S
  <2> HIDE DEF S
  <2> QED
    BY <1>2, <1>4, TreeInduct
<1>6. \A n \in Objects : Good(n)
  BY <1>5
<1> QED
  BY <1>6 DEF Objects

(* What stands below an item comes before what comes behind the item. *)
StandsBehind(x, n) ==
  /\ n < x
  /\ \A m \in Items : n <= m /\ m < x => \A nested \in ToSet(doc.entities[m]) : nested < x

LEMMA BelowComesBefore ==
  ASSUME Finished, NEW below, IsBelow(below), NEW x \in Nat
  PROVE  \A n \in Items : StandsBehind(x, n) => \A e \in below[n] : e < x
<1> DEFINE Good(n) == StandsBehind(x, n) => \A e \in below[n] : e < x
           S == {n \in Items : Good(n)}
<1>1. PICK bound \in Nat : \E rank : IsTree(NestedInItem, rank, bound, Items)
  BY RecordIsTree
<1>2. PICK rank : IsTree(NestedInItem, rank, bound, Items)
  BY <1>1
<1>3. doc \in Documents /\ Items \subseteq Nat /\ \A n \in Items : n \in Objects /\ n # Root
  BY DocumentsAssumption, OrderAssumption DEF Finished, Objects
<1>4. ASSUME NEW n \in Items, \A i \in DOMAIN NestedInItem[n] : NestedInItem[n][i] \in S
      PROVE  n \in S
  <2> SUFFICES ASSUME StandsBehind(x, n), NEW e \in below[n] PROVE e < x
    OBVIOUS
  <2>1. n \in InRecord /\ Kept(n) /\ n \in Objects
    BY <1>3 DEF IsBelow, InRecord, Kept
  <2>2. CASE e = n
    BY <2>2 DEF StandsBehind
  <2>3. CASE e # n
    <3> DEFINE list == doc.entities[n]
    <3>1. PICK i \in DOMAIN list : e \in below[list[i]]
      BY <2>1, <2>3 DEF IsBelow
    <3> DEFINE c == list[i]
    <3>2. c \in Items /\ c \in Nat /\ n < c /\ n \in Nat /\ c \in ToSet(list)
      BY <1>3, <2>1, <3>1, DocumentOrder, ListFacts
    <3>3. c < x
      BY <3>2 DEF StandsBehind
    <3>4. ASSUME NEW m \in Items, c <= m, m < x
          PROVE  \A nested \in ToSet(doc.entities[m]) : nested < x
      <4> HIDE DEF c
      <4>1. n <= m
        BY <1>3, <3>2, <3>4
      <4> QED
        BY <3>4, <4>1 DEF StandsBehind
    <3>5. StandsBehind(x, c)
      BY <3>3, <3>4 DEF StandsBehind
    <3>6. Good(c)
      <4>1. NestedInItem[n] = list
        BY <2>1 DEF NestedInItem
      <4> HIDE DEF Good, list
      <4> QED
        BY <1>4, <3>1, <4>1
    <3> QED
      BY <3>1, <3>5, <3>6
  <2> QED
    BY <2>2, <2>3
<1>5. Items \subseteq S
  <2> HIDE DEF S
  <2> QED
    BY <1>2, <1>4, TreeInduct
<1> QED
  BY <1>5

LEMMA BelowInOrder ==
  ASSUME Finished, NEW below, IsBelow(below), NEW n \in Objects,
         NEW i \in DOMAIN doc.entities[n], NEW j \in DOMAIN doc.entities[n], i < j,
         NEW x \in below[doc.entities[n][i]], NEW y \in below[doc.entities[n][j]]
  PROVE  x < y
<1> DEFINE list == doc.entities[n]
           c == list[i]
           d == list[j]
<1>1. doc \in Documents /\ BudgetKept
  BY DEF Finished
<1>2. Len(list) \in Nat /\ i \in 1 .. Len(list) /\ j \in 1 .. Len(list)
  BY <1>1, ListFacts
<1>3. i \in 1 .. j - 1
  <2> HIDE DEF list
  <2> QED
    BY <1>2
<1>4. c \in Items /\ d \in Items /\ c \in Nat /\ d \in Nat
  BY <1>1, DocumentOrder
<1>5. StandsBehind(d, c)
  BY <1>1, <1>3, DocumentOrder DEF StandsBehind
<1>6. x \in below[c] /\ y \in below[d]
  OBVIOUS
<1> HIDE DEF list, c, d
<1>7. x < d
  BY <1>4, <1>5, <1>6, BelowComesBefore
<1>8. d <= y /\ x \in ToSet(kept) /\ y \in ToSet(kept)
  BY <1>4, <1>6, BelowIsKept
<1>9. x \in Nat /\ y \in Nat
  BY <1>1, <1>8, KeptItems
<1> QED
  BY <1>4, <1>7, <1>8, <1>9

(* Below the response stands the whole record: what lists an entity of the *)
(* record is in the record itself, since it comes before the entity.       *)
LEMMA ListerInRecord ==
  ASSUME Finished, NEW d \in 1 .. MaxDepth, NEW m \in ToSet(kept), m \in Reachable(doc)[d]
  PROVE  \E p \in InRecord : /\ p \in Objects /\ p \in Reachable(doc)[d - 1]
                             /\ \E i \in DOMAIN doc.entities[p] : m = doc.entities[p][i]
<1>1. doc \in Documents /\ BudgetKept /\ MaxDepth \in Nat
  BY LimitsAssumption DEF Finished
<1>2. d - 1 \in 0 .. MaxDepth /\ d - 1 \in Nat /\ (d - 1 # 0 => d - 1 \in 1 .. MaxDepth)
  BY <1>1
<1>3. PICK p \in Reachable(doc)[d - 1] : m \in ListedIn(doc, p)
  BY <1>1, ReachableLevels
<1>4. p \in Objects
  BY <1>1, <1>2, <1>3, ReachableType
<1>5. PICK i \in DOMAIN doc.entities[p] : m = doc.entities[p][i]
  BY <1>1, <1>3, <1>4, ListedInType DEF ToSet
<1>6. p \in InRecord
  <2> SUFFICES ASSUME p \notin InRecord PROVE FALSE
    OBVIOUS
  <2>1. p # Root /\ p \notin ToSet(kept)
    BY DEF InRecord
  <2>2. d - 1 # 0
    BY <1>1, <1>3, <2>1, ReachableLevels
  <2>3. p \in Eligible
    BY <1>2, <1>3, <2>2 DEF Eligible
  <2>4. m < p
    BY <2>1, <2>3 DEF Finished, FirstComeFirstKept
  <2>5. p \in Nat /\ p < m /\ m \in Nat
    BY <1>1, <1>4, <1>5, <2>1, DocumentOrder
  <2> QED
    BY <2>4, <2>5
<1> QED
  BY <1>3, <1>4, <1>5, <1>6

LEMMA BelowRoot ==
  ASSUME Finished, NEW below, IsBelow(below)
  PROVE  below[Root] = InRecord
<1> DEFINE S == {d \in 0 .. MaxDepth : \A m \in Reachable(doc)[d] : m \in InRecord => m \in below[Root]}
<1>1. doc \in Documents /\ BudgetKept /\ MaxDepth \in Nat /\ Root \in Objects /\ Root \in InRecord
  BY LimitsAssumption DEF Finished, Objects, InRecord
<1>2. Root \in below[Root]
  BY <1>1 DEF IsBelow
<1>3. 0 \in S
  BY <1>1, <1>2, ReachableLevels
<1>4. ASSUME NEW d \in 0 .. MaxDepth - 1, d \in S
      PROVE  d + 1 \in S
  <2>1. d + 1 \in 1 .. MaxDepth /\ (d + 1) - 1 = d /\ d + 1 \in 0 .. MaxDepth
    BY <1>1
  <2>2. ASSUME NEW m \in Reachable(doc)[d + 1], m \in InRecord
        PROVE  m \in below[Root]
    <3>1. m \in Items /\ m \in ToSet(kept)
      BY <1>1, <2>1, <2>2, ReachableType, DocumentsAssumption DEF InRecord
    <3>2. PICK p \in InRecord : /\ p \in Objects /\ p \in Reachable(doc)[(d + 1) - 1]
                                /\ \E i \in DOMAIN doc.entities[p] : m = doc.entities[p][i]
      BY <2>1, <2>2, <3>1, ListerInRecord
    <3>3. p \in below[Root]
      BY <1>4, <2>1, <3>2
    <3>4. Kept(m)
      BY <3>1 DEF Kept
    <3> QED
      BY <1>1, <3>2, <3>3, <3>4, BelowIsKept
  <2> QED
    BY <2>1, <2>2
<1>5. 0 .. MaxDepth \subseteq S
  <2> HIDE DEF S
  <2> QED
    BY <1>1, <1>3, <1>4, InductUpTo
<1>6. ASSUME NEW m \in ToSet(kept) PROVE m \in below[Root]
  <2>1. PICK d \in 1 .. MaxDepth : m \in Reachable(doc)[d]
    BY DEF Finished, FirstComeFirstKept, Eligible
  <2>2. d \in 0 .. MaxDepth
    BY <1>1
  <2> QED
    BY <1>5, <2>1, <2>2 DEF InRecord
<1> QED
  BY <1>1, <1>2, <1>6, BelowIsKept DEF InRecord

(* An entity is indented by one more than the entity it is nested in. *)
LEMMA DepthOnLevel ==
  ASSUME doc \in Documents, NEW d \in 1 .. MaxDepth, NEW n \in Reachable(doc)[d]
  PROVE  DepthOf(n) = d - 1
<1>1. MaxDepth \in Nat
  BY LimitsAssumption
<1>2. ASSUME NEW e \in 1 .. MaxDepth, n \in Reachable(doc)[e] PROVE e = d
  <2>1. d \in 0 .. MaxDepth /\ e \in 0 .. MaxDepth /\ (e < d => e \in 0 .. d - 1) /\ (d < e => d \in 0 .. e - 1)
    BY <1>1
  <2>2. ~(e < d) /\ ~(d < e)
    BY <1>2, <2>1, OneLevel
  <2> QED
    BY <2>1, <2>2
<1>3. (CHOOSE e \in 1 .. MaxDepth : n \in Reachable(doc)[e]) = d
  BY <1>2
<1> QED
  BY <1>3 DEF DepthOf

LEMMA DepthNested ==
  ASSUME Finished, NEW n \in InRecord, NEW i \in DOMAIN doc.entities[n], Kept(doc.entities[n][i])
  PROVE  DepthOf(doc.entities[n][i]) = IF n = Root THEN 0 ELSE DepthOf(n) + 1
<1> DEFINE m == doc.entities[n][i]
<1>1. doc \in Documents /\ BudgetKept /\ MaxDepth \in Nat /\ m \in ToSet(kept)
  BY LimitsAssumption DEF Finished, Kept
<1>2. n \in Objects
  BY <1>1, KeptItems DEF InRecord, Objects
<1>3. PICK d \in 1 .. MaxDepth : m \in Reachable(doc)[d]
  BY <1>1 DEF Finished, FirstComeFirstKept, Eligible
<1>4. PICK p \in Objects : /\ p \in Reachable(doc)[d - 1]
                           /\ \E j \in DOMAIN doc.entities[p] : m = doc.entities[p][j]
  BY <1>1, <1>3, ListerInRecord
<1>5. p = n
  <2>1. m \in ToSet(doc.entities[p])
    BY <1>4 DEF ToSet
  <2>2. \A q \in Objects \ {n} : m \notin ToSet(doc.entities[q])
    BY <1>1, <1>2, OrderAssumption DEF InOrder
  <2> QED
    BY <1>4, <2>1, <2>2
<1>6. DepthOf(m) = d - 1
  BY <1>1, <1>3, DepthOnLevel
<1>7. CASE n = Root
  <2>1. d - 1 = 0
    <3>1. d - 1 # 0 => d - 1 \in 1 .. MaxDepth
      BY <1>1
    <3> QED
      BY <1>1, <1>4, <1>5, <1>7, <3>1, ReachableType, DocumentsAssumption
  <2> QED
    BY <1>6, <1>7, <2>1
<1>8. CASE n # Root
  <2>1. d - 1 # 0
    BY <1>1, <1>4, <1>5, <1>8, ReachableLevels
  <2>2. d - 1 \in 1 .. MaxDepth
    BY <1>1, <2>1
  <2>3. DepthOf(n) = (d - 1) - 1
    BY <1>1, <1>4, <1>5, <2>2, DepthOnLevel
  <2> QED
    BY <1>6, <1>8, <2>3
<1> QED
  BY <1>7, <1>8

-----------------------------------------------------------------------------
(* The contacts.  The recursion over the entities has a value, and it      *)
(* shows what stands below an entity, in order and each at its depth.      *)
Lines == [entity : Items, indent : Nat]
ByEntity == {pair \in Lines \X Lines : pair[1].entity < pair[2].entity}
AreLines(lines) ==
  lines = [p \in Items \X Nat |->
             LET n == p[1]  depth == p[2]
             IN  IF ~Kept(n) THEN <<>>
                 ELSE <<Line(n, depth)>> \o FlattenSeq([i \in DOMAIN doc.entities[n] |->
                                                         lines[<<doc.entities[n][i], depth + 1>>]])]

LEMMA EntityLinesUnfolds ==
  \A entity, depth : EntityLines(entity, depth) = (CHOOSE lines : AreLines(lines))[<<entity, depth>>]
BY DEF EntityLines, AreLines

LEMMA LineType ==
  \A n \in Items, depth \in Nat :
    Line(n, depth) \in Lines /\ Line(n, depth).entity = n /\ Line(n, depth).indent = depth
BY DEF Line, Lines

(* A line put before others. *)
LEMMA LineBefore ==
  ASSUME NEW l \in Lines, NEW s \in Seq(Lines), NEW R
  PROVE  /\ <<l>> \o s \in Seq(Lines) /\ ToSet(<<l>> \o s) = {l} \cup ToSet(s)
         /\ Sorted(s, R) /\ (\A k \in ToSet(s) : <<l, k>> \in R) => Sorted(<<l>> \o s, R)
<1> DEFINE one == <<l>>
<1>1. one \in Seq(Lines) /\ ToSet(one) = {l} /\ Sorted(one, R)
  <2>1. DOMAIN one = {1} /\ one[1] = l
    OBVIOUS
  <2>2. one \in Seq(Lines)
    OBVIOUS
  <2> HIDE DEF one
  <2> QED
    BY <2>1, <2>2 DEF ToSet, Sorted
<1> HIDE DEF one
<1>2. (\A k \in ToSet(s) : <<l, k>> \in R) => AllBefore(one, s, R)
  BY <1>1 DEF AllBefore
<1>3. /\ one \o s \in Seq(Lines) /\ ToSet(one \o s) = ToSet(one) \cup ToSet(s)
      /\ Sorted(one, R) /\ Sorted(s, R) /\ AllBefore(one, s, R) => Sorted(one \o s, R)
  BY <1>1, ConcatFacts
<1>4. /\ one \o s \in Seq(Lines) /\ ToSet(one \o s) = {l} \cup ToSet(s)
      /\ Sorted(s, R) /\ (\A k \in ToSet(s) : <<l, k>> \in R) => Sorted(one \o s, R)
  BY <1>1, <1>2, <1>3
<1> QED
  BY <1>4 DEF one

LEMMA LinesExist == Finished => \E lines : AreLines(lines)
<1> SUFFICES ASSUME Finished PROVE \E lines : AreLines(lines)
  OBVIOUS
<1> DEFINE T == Items \X Nat
           V == Seq(Lines)
           Body(p, values) == IF ~Kept(p[1]) THEN <<>> ELSE <<Line(p[1], p[2])>> \o FlattenSeq(values)
           step == [q \in T \X Seq(V) |-> Body(q[1], q[2])]
<1>1. PICK bound \in Nat : \E rank : IsTree(NestedInLine, rank, bound, T)
  BY RecordIsTree
<1>2. PICK rank : IsTree(NestedInLine, rank, bound, T)
  BY <1>1
<1>3. \A p \in T, values \in Seq(V) : Body(p, values) \in V
  <2> SUFFICES ASSUME NEW p \in T, NEW values \in Seq(Seq(Lines)) PROVE Body(p, values) \in Seq(Lines)
    OBVIOUS
  <2>1. FlattenSeq(values) \in Seq(Lines)
    BY FlattenFacts
  <2>2. p[1] \in Items /\ p[2] \in Nat
    OBVIOUS
  <2>3. Line(p[1], p[2]) \in Lines
    BY <2>2, LineType
  <2>4. <<Line(p[1], p[2])>> \o FlattenSeq(values) \in Seq(Lines)
    BY <2>1, <2>3, LineBefore
  <2> QED
    BY <2>4
<1> HIDE DEF T, V, Body
<1>4. step \in [T \X Seq(V) -> V] /\ \A p \in T, values \in Seq(V) : step[<<p, values>>] = Body(p, values)
  BY <1>3
<1> HIDE DEF step
<1>5. PICK lines : IsTreeFold(lines, NestedInLine, T, V, step)
  BY <1>2, <1>4, TreeFoldExists
<1>6. lines \in [T -> V]
  BY <1>5 DEF IsTreeFold
<1>7. ASSUME NEW p \in T
      PROVE  lines[p] = IF ~Kept(p[1]) THEN <<>>
                        ELSE <<Line(p[1], p[2])>> \o
                             FlattenSeq([i \in DOMAIN doc.entities[p[1]] |->
                                           lines[<<doc.entities[p[1]][i], p[2] + 1>>]])
  <2> DEFINE values == ValuesBelow(lines, NestedInLine, p)
  <2>1. values \in Seq(V)
    <3>1. NestedInLine \in [T -> Seq(T)]
      BY <1>2 DEF IsTree
    <3> QED
      BY <1>6, <3>1, ValuesBelowType
  <2>2. lines[p] = Body(p, values)
    BY <1>4, <1>5, <2>1 DEF IsTreeFold
  <2>3. Kept(p[1]) => values = [i \in DOMAIN doc.entities[p[1]] |->
                                  lines[<<doc.entities[p[1]][i], p[2] + 1>>]]
    BY DEF NestedInLine, ValuesBelow, T
  <2> HIDE DEF values
  <2> QED
    BY <2>2, <2>3 DEF Body
<1>8. AreLines(lines)
  <2>1. lines = [p \in T |-> lines[p]]
    BY <1>6
  <2> QED
    BY <1>7, <2>1 DEF AreLines, T
<1> QED
  BY <1>8

(* What the lines of an entity are, and those of a list of entities. *)
Shown(block) == {l.entity : l \in ToSet(block)}
Indented(block) == \A l \in ToSet(block) : l.indent = DepthOf(l.entity)
IsBlock(block, n, depth, below) ==
  /\ block \in Seq(Lines) /\ Sorted(block, ByEntity)
  /\ Shown(block) = below[n]
  /\ Kept(n) /\ depth = DepthOf(n) => Indented(block)

LEMMA ShownFacts ==
  \A block : /\ \A l \in ToSet(block) : l.entity \in Shown(block)
            /\ \A e \in Shown(block) : \E l \in ToSet(block) : e = l.entity
BY DEF Shown

LEMMA ListOfBlocks ==
  ASSUME Finished, NEW below, IsBelow(below), NEW n \in InRecord, NEW depth \in Nat,
         NEW blocks, DOMAIN blocks = DOMAIN doc.entities[n],
         blocks = [i \in DOMAIN blocks |-> blocks[i]],
         \A i \in DOMAIN blocks : IsBlock(blocks[i], doc.entities[n][i], depth, below)
  PROVE  /\ FlattenSeq(blocks) \in Seq(Lines) /\ Sorted(FlattenSeq(blocks), ByEntity)
         /\ Shown(FlattenSeq(blocks)) = UNION {below[doc.entities[n][i]] : i \in DOMAIN doc.entities[n]}
         /\ depth = (IF n = Root THEN 0 ELSE DepthOf(n) + 1) => Indented(FlattenSeq(blocks))
<1> DEFINE list == doc.entities[n]
<1>1. doc \in Documents /\ BudgetKept /\ n \in Objects
  BY KeptItems DEF Finished, InRecord, Objects
<1>2. DOMAIN blocks = 1 .. Len(list) /\ Len(list) \in Nat
  BY <1>1, ListFacts
<1>3. \A i \in DOMAIN blocks : /\ blocks[i] \in Seq(Lines) /\ Sorted(blocks[i], ByEntity)
                               /\ Shown(blocks[i]) = below[list[i]]
  BY DEF IsBlock
<1>4. blocks \in Seq(Seq(Lines))
  <2> HIDE DEF list
  <2> QED
    BY <1>2, <1>3
<1>5. \A i \in DOMAIN blocks : \A l \in ToSet(blocks[i]) : l \in Lines /\ l.entity \in below[list[i]]
  <2> TAKE i \in DOMAIN blocks
  <2>1. ToSet(blocks[i]) \subseteq Lines
    BY <1>3 DEF ToSet
  <2> QED
    BY <1>3, <2>1, ShownFacts
<1>6. ASSUME NEW i \in DOMAIN blocks, NEW j \in DOMAIN blocks, i < j
      PROVE  AllBefore(blocks[i], blocks[j], ByEntity)
  <2> SUFFICES ASSUME NEW x \in ToSet(blocks[i]), NEW y \in ToSet(blocks[j])
               PROVE  <<x, y>> \in ByEntity
    BY DEF AllBefore
  <2>1. x \in Lines /\ y \in Lines /\ x.entity \in below[list[i]] /\ y.entity \in below[list[j]]
    BY <1>5
  <2>2. x.entity < y.entity
    BY <1>1, <1>6, <2>1, BelowInOrder
  <2> QED
    BY <2>1, <2>2 DEF ByEntity
<1> DEFINE flat == FlattenSeq(blocks)
<1>7. /\ flat \in Seq(Lines) /\ Sorted(flat, ByEntity)
      /\ ToSet(flat) = UNION {ToSet(blocks[i]) : i \in DOMAIN blocks}
  BY <1>3, <1>4, <1>6, FlattenFacts
<1> HIDE DEF flat
<1>8. Shown(flat) = UNION {below[list[i]] : i \in DOMAIN list}
  <2>1. ASSUME NEW e \in Shown(flat)
        PROVE  \E i \in DOMAIN list : e \in below[list[i]]
    <3>1. PICK l \in ToSet(flat) : e = l.entity
      BY ShownFacts
    <3>2. PICK i \in DOMAIN blocks : l \in ToSet(blocks[i])
      BY <1>7
    <3> QED
      BY <1>5, <3>1, <3>2
  <2>2. ASSUME NEW i \in DOMAIN list, NEW e \in below[list[i]]
        PROVE  e \in Shown(flat)
    <3>1. i \in DOMAIN blocks /\ e \in Shown(blocks[i])
      BY <1>3
    <3>2. PICK l \in ToSet(blocks[i]) : e = l.entity
      BY <3>1, ShownFacts
    <3>3. l \in ToSet(flat)
      BY <1>7, <3>1
    <3> QED
      BY <3>2, <3>3, ShownFacts
  <2> QED
    BY <2>1, <2>2
<1>9. ASSUME depth = (IF n = Root THEN 0 ELSE DepthOf(n) + 1), NEW l \in ToSet(flat)
      PROVE  l.indent = DepthOf(l.entity)
  <2>1. PICK i \in DOMAIN blocks : l \in ToSet(blocks[i])
    BY <1>7, <1>9
  <2>2. Kept(list[i])
    <3>1. below[list[i]] # {}
      BY <1>5, <2>1
    <3>2. list[i] \in Items
      BY <1>1, <2>1, DocumentOrder
    <3>3. list[i] \in InRecord /\ list[i] # Root
      BY <3>1, <3>2, DocumentsAssumption DEF IsBelow, Objects
    <3> QED
      BY <3>3 DEF InRecord, Kept
  <2>3. depth = DepthOf(list[i])
    BY <1>9, <2>1, <2>2, DepthNested
  <2> QED
    BY <2>1, <2>2, <2>3 DEF IsBlock, Indented
<1> QED
  BY <1>7, <1>8, <1>9 DEF flat, Indented

LEMMA EntityLinesFacts ==
  ASSUME Finished, NEW below, IsBelow(below), NEW lines, AreLines(lines)
  PROVE  \A n \in Items, depth \in Nat : IsBlock(lines[<<n, depth>>], n, depth, below)
<1> DEFINE T == Items \X Nat
           S == {p \in T : IsBlock(lines[p], p[1], p[2], below)}
<1>1. PICK bound \in Nat : \E rank : IsTree(NestedInLine, rank, bound, T)
  BY RecordIsTree
<1>2. PICK rank : IsTree(NestedInLine, rank, bound, T)
  BY <1>1
<1>3. doc \in Documents /\ BudgetKept /\ Items \subseteq Nat /\ \A n \in Items : n \in Objects /\ n # Root
  BY DocumentsAssumption, OrderAssumption DEF Finished, Objects
<1>4. ASSUME NEW n \in Items, NEW depth \in Nat,
             \A i \in DOMAIN NestedInLine[<<n, depth>>] : NestedInLine[<<n, depth>>][i] \in S
      PROVE  IsBlock(lines[<<n, depth>>], n, depth, below)
  <2>0. <<n, depth>> \in Items \X Nat /\ <<n, depth>>[1] = n /\ <<n, depth>>[2] = depth
    OBVIOUS
  <2>1. CASE ~Kept(n)
    <3>1. lines[<<n, depth>>] = <<>>
      BY <2>0, <2>1 DEF AreLines
    <3>2. below[n] = {}
      BY <1>3, <2>1 DEF IsBelow, InRecord, Kept
    <3>3. <<>> \in Seq(Lines) /\ DOMAIN <<>> = {} /\ ToSet(<<>>) = {}
      BY DEF ToSet
    <3> QED
      BY <2>1, <3>1, <3>2, <3>3 DEF IsBlock, Shown, Sorted
  <2>2. CASE Kept(n)
    <3> DEFINE list == doc.entities[n]
               blocks == [i \in DOMAIN list |-> lines[<<list[i], depth + 1>>]]
               rest == FlattenSeq(blocks)
               l == Line(n, depth)
    <3>1. lines[<<n, depth>>] = <<l>> \o rest
      BY <2>0, <2>2 DEF AreLines
    <3>2. \A i \in DOMAIN list : IsBlock(blocks[i], list[i], depth + 1, below)
      <4> TAKE i \in DOMAIN list
      <4> DEFINE p == <<list[i], depth + 1>>
      <4>1. p \in S
        <5>1. NestedInLine[<<n, depth>>] = [k \in DOMAIN list |-> <<list[k], depth + 1>>]
          BY <2>0, <2>2 DEF NestedInLine
        <5> HIDE DEF S, list
        <5> QED
          BY <1>4, <5>1
      <4>2. p[1] = list[i] /\ p[2] = depth + 1 /\ blocks[i] = lines[p]
        OBVIOUS
      <4> HIDE DEF p, blocks, list
      <4> QED
        BY <4>1, <4>2
    <3>3. DOMAIN blocks = DOMAIN list /\ blocks = [i \in DOMAIN blocks |-> blocks[i]]
      OBVIOUS
    <3>4. n \in InRecord /\ n \in Objects /\ n # Root /\ depth + 1 \in Nat
      BY <1>3, <2>2 DEF Kept, InRecord
    <3> HIDE DEF blocks
    <3>5. /\ rest \in Seq(Lines) /\ Sorted(rest, ByEntity)
          /\ Shown(rest) = UNION {below[list[i]] : i \in DOMAIN list}
          /\ depth + 1 = (IF n = Root THEN 0 ELSE DepthOf(n) + 1) => Indented(rest)
      BY <3>2, <3>3, <3>4, ListOfBlocks
    <3>6. l \in Lines /\ l.entity = n /\ l.indent = depth
      BY LineType
    <3> HIDE DEF rest, l
    <3>7. \A k \in ToSet(rest) : <<l, k>> \in ByEntity
      <4> TAKE k \in ToSet(rest)
      <4>1. k \in Lines
        BY <3>5 DEF ToSet
      <4>2. PICK i \in DOMAIN list : k.entity \in below[list[i]]
        <5>1. k.entity \in Shown(rest)
          BY ShownFacts
        <5> QED
          BY <3>5, <5>1
      <4>3. list[i] \in Items /\ list[i] \in Nat /\ n \in Nat /\ n < list[i]
        BY <1>3, <3>4, <4>2, DocumentOrder
      <4>4. list[i] <= k.entity /\ k.entity \in Nat
        BY <1>3, <4>2, <4>3, BelowIsKept, KeptItems
      <4> HIDE DEF list
      <4>5. n < k.entity
        BY <4>3, <4>4
      <4> QED
        BY <3>6, <4>1, <4>5 DEF ByEntity
    <3>8. /\ <<l>> \o rest \in Seq(Lines) /\ Sorted(<<l>> \o rest, ByEntity)
          /\ ToSet(<<l>> \o rest) = {l} \cup ToSet(rest)
      BY <3>5, <3>6, <3>7, LineBefore
    <3>9. Shown(<<l>> \o rest) = below[n]
      <4>1. below[n] = {n} \cup UNION {below[list[i]] : i \in DOMAIN list}
        BY <3>4 DEF IsBelow
      <4>2. Shown(<<l>> \o rest) = {n} \cup Shown(rest)
        BY <3>6, <3>8 DEF Shown
      <4> QED
        BY <3>5, <4>1, <4>2
    <3>10. ASSUME depth = DepthOf(n) PROVE Indented(<<l>> \o rest)
      <4>1. Indented(rest)
        BY <3>4, <3>5, <3>10
      <4> QED
        BY <3>6, <3>8, <3>10, <4>1 DEF Indented
    <3> QED
      BY <3>1, <3>8, <3>9, <3>10 DEF IsBlock
  <2> QED
    BY <2>1, <2>2
<1>5. ASSUME NEW p \in T, \A i \in DOMAIN NestedInLine[p] : NestedInLine[p][i] \in S
      PROVE  p \in S
  <2>1. PICK n \in Items, depth \in Nat : p = <<n, depth>>
    OBVIOUS
  <2> HIDE DEF S
  <2>2. IsBlock(lines[<<n, depth>>], n, depth, below)
    BY <1>4, <1>5, <2>1
  <2>3. p[1] = n /\ p[2] = depth
    BY <2>1
  <2> QED
    BY <2>1, <2>2, <2>3 DEF S
<1>6. T \subseteq S
  <2> HIDE DEF S, T
  <2> QED
    BY <1>2, <1>5, TreeInduct
<1>7. ASSUME NEW n \in Items, NEW depth \in Nat PROVE IsBlock(lines[<<n, depth>>], n, depth, below)
  <2> DEFINE p == <<n, depth>>
  <2>1. p \in S /\ p[1] = n /\ p[2] = depth
    BY <1>6
  <2> HIDE DEF p
  <2>2. IsBlock(lines[p], n, depth, below)
    BY <2>1
  <2> QED
    BY <2>2 DEF p
<1> QED
  BY <1>7

(* Below the items of the response stands all that is kept. *)
LEMMA BelowItems ==
  ASSUME Finished, NEW below, IsBelow(below)
  PROVE  UNION {below[doc.entities[Root][i]] : i \in DOMAIN doc.entities[Root]} = ToSet(kept)
<1> DEFINE list == doc.entities[Root]
           all == UNION {below[list[i]] : i \in DOMAIN list}
<1>1. doc \in Documents /\ BudgetKept /\ Root \in Objects /\ Root \in InRecord
  BY DEF Finished, Objects, InRecord
<1>2. InRecord = {Root} \cup all
  BY <1>1, BelowRoot DEF IsBelow
<1>3. all \subseteq ToSet(kept)
  <2> SUFFICES ASSUME NEW i \in DOMAIN list, NEW e \in below[list[i]] PROVE e \in ToSet(kept)
    OBVIOUS
  <2>1. list[i] \in Items
    BY <1>1, DocumentOrder
  <2> QED
    BY <2>1, BelowIsKept
<1>4. Root \notin ToSet(kept)
  BY <1>1, KeptItems
<1> HIDE DEF all
<1>5. all = ToSet(kept)
  BY <1>2, <1>3, <1>4 DEF InRecord
<1> QED
  BY <1>5 DEF all

(* Every contact stands once, in the order of the document, at its depth. *)
LEMMA ContactsInOrder ==
  ASSUME Finished
  PROVE  [i \in DOMAIN Contacts |-> <<Contacts[i].entity, Contacts[i].indent>>]
           = [i \in DOMAIN kept |-> <<kept[i], DepthOf(kept[i])>>]
<1>1. PICK below : IsBelow(below)
  BY BelowExists
<1> DEFINE lines == CHOOSE f : AreLines(f)
           blocks == [i \in DOMAIN doc.entities[Root] |-> lines[<<doc.entities[Root][i], 0>>]]
<1>2. AreLines(lines)
  BY LinesExist
<1>3. doc \in Documents /\ BudgetKept /\ Root \in Objects /\ Root \in InRecord /\ 0 \in Nat
  BY DEF Finished, Objects, InRecord
<1>4. Contacts = FlattenSeq(blocks)
  <2>1. \A i \in DOMAIN doc.entities[Root] :
          EntityLines(doc.entities[Root][i], 0) = lines[<<doc.entities[Root][i], 0>>]
    BY EntityLinesUnfolds
  <2> HIDE DEF lines
  <2>2. [i \in DOMAIN doc.entities[Root] |-> EntityLines(doc.entities[Root][i], 0)] = blocks
    BY <2>1
  <2> QED
    BY <2>2 DEF Contacts
<1> HIDE DEF lines
<1>5. \A i \in DOMAIN blocks : IsBlock(blocks[i], doc.entities[Root][i], 0, below)
  <2> TAKE i \in DOMAIN blocks
  <2>1. i \in DOMAIN doc.entities[Root] /\ blocks[i] = lines[<<doc.entities[Root][i], 0>>]
    OBVIOUS
  <2>2. doc.entities[Root][i] \in Items
    BY <1>3, <2>1, DocumentOrder
  <2> QED
    BY <1>1, <1>2, <1>3, <2>1, <2>2, EntityLinesFacts
<1>6. DOMAIN blocks = DOMAIN doc.entities[Root] /\ blocks = [i \in DOMAIN blocks |-> blocks[i]]
  OBVIOUS
<1> HIDE DEF blocks
<1>7. /\ Contacts \in Seq(Lines) /\ Sorted(Contacts, ByEntity) /\ Indented(Contacts)
      /\ Shown(Contacts) = ToSet(kept)
  <2>1. /\ FlattenSeq(blocks) \in Seq(Lines) /\ Sorted(FlattenSeq(blocks), ByEntity)
        /\ Shown(FlattenSeq(blocks))
             = UNION {below[doc.entities[Root][i]] : i \in DOMAIN doc.entities[Root]}
        /\ 0 = (IF Root = Root THEN 0 ELSE DepthOf(Root) + 1) => Indented(FlattenSeq(blocks))
    BY <1>1, <1>3, <1>5, <1>6, ListOfBlocks
  <2>2. UNION {below[doc.entities[Root][i]] : i \in DOMAIN doc.entities[Root]} = ToSet(kept)
    BY <1>1, BelowItems
  <2> QED
    BY <1>4, <2>1, <2>2
<1> DEFINE shown == [i \in DOMAIN Contacts |-> Contacts[i].entity]
<1>8. Items \subseteq Nat /\ kept \in Seq(Nat)
  <2>1. kept \in Seq(Items)
    BY <1>3 DEF BudgetKept
  <2>2. Items \subseteq Nat
    BY OrderAssumption
  <2>3. /\ Len(kept) \in Nat /\ kept = [i \in 1 .. Len(kept) |-> kept[i]]
        /\ \A i \in 1 .. Len(kept) : kept[i] \in Nat
    BY <2>1, <2>2
  <2>4. kept \in Seq(Nat)
    BY <2>3
  <2> QED
    BY <2>2, <2>4
<1>9. DOMAIN Contacts = 1 .. Len(Contacts) /\ \A i \in DOMAIN Contacts : Contacts[i] \in Lines
  BY <1>7
<1>10. shown \in Seq(Nat) /\ DOMAIN shown = DOMAIN Contacts
  <2>1. \A i \in DOMAIN Contacts : Contacts[i].entity \in Nat
    BY <1>8, <1>9 DEF Lines
  <2> QED
    BY <1>7, <1>9, <2>1
<1>11. \A i, j \in DOMAIN shown : i < j => shown[i] < shown[j]
  <2>1. \A i, j \in DOMAIN Contacts : i < j => Contacts[i].entity < Contacts[j].entity
    <3>1. \A i, j \in DOMAIN Contacts : i < j => <<Contacts[i], Contacts[j]>> \in ByEntity
      BY <1>7 DEF Sorted
    <3> QED
      BY <3>1 DEF ByEntity
  <2> QED
    BY <2>1
<1>12. ToSet(shown) = ToSet(kept)
  <2>1. ToSet(shown) = Shown(Contacts)
    BY DEF ToSet, Shown
  <2> QED
    BY <1>7, <2>1
<1>13. \A i, j \in DOMAIN kept : i < j => kept[i] < kept[j]
  BY DEF Finished, FirstComeFirstKept
<1>14. shown = kept
  <2> HIDE DEF shown
  <2> QED
    BY <1>8, <1>10, <1>11, <1>12, <1>13, IncreasingUnique
<1>15. \A i \in DOMAIN Contacts : Contacts[i].entity = kept[i] /\ Contacts[i].indent = DepthOf(Contacts[i].entity)
  BY <1>7, <1>14 DEF Indented, ToSet
<1>16. DOMAIN Contacts = DOMAIN kept
  BY <1>10, <1>14
<1> QED
  BY <1>15, <1>16

-----------------------------------------------------------------------------
(* The registrar: the first of those that stand below an entity. *)
IsFirst(value, found) ==
  \/ found = {} /\ value = <<>>
  \/ \E first \in found : value = <<first>> /\ \A n \in found : first <= n
AreFound(found) ==
  found = [n \in Items |->
             IF ~Kept(n) THEN <<>>
             ELSE IF IsRegistrar(n) THEN <<n>>
             ELSE FirstOf([i \in DOMAIN doc.entities[n] |-> found[doc.entities[n][i]]])]

LEMMA FindRegistrarUnfolds ==
  \A list : FindRegistrar(list)
              = FirstOf([i \in DOMAIN list |-> (CHOOSE found : AreFound(found))[list[i]]])
BY DEF FindRegistrar, AreFound

LEMMA MinIsIn ==
  ASSUME NEW S \in SUBSET Nat, S # {}
  PROVE  Min(S) \in S /\ \A n \in S : Min(S) <= n
<1>1. \E n \in S : \A m \in S : n <= m
  BY Least
<1> QED
  BY <1>1 DEF Min

LEMMA FirstOfType ==
  ASSUME NEW V, NEW values \in Seq(Seq(V))
  PROVE  FirstOf(values) \in Seq(V)
<1> DEFINE hits == {i \in DOMAIN values : values[i] # <<>>}
<1>1. hits \in SUBSET Nat /\ \A i \in hits : values[i] \in Seq(V)
  OBVIOUS
<1>2. CASE hits = {}
  BY <1>2 DEF FirstOf
<1>3. CASE hits # {}
  <2>1. Min(hits) \in hits
    <3> HIDE DEF hits
    <3> QED
      BY <1>1, <1>3, MinIsIn
  <2>2. FirstOf(values) = values[Min(hits)]
    BY <1>3 DEF FirstOf
  <2> HIDE DEF hits
  <2> QED
    BY <1>1, <2>1, <2>2
<1> QED
  BY <1>2, <1>3

LEMMA FirstOfBlocks ==
  ASSUME NEW m \in Nat, NEW values, DOMAIN values = 1 .. m,
         NEW found \in [1 .. m -> SUBSET Nat],
         \A i \in 1 .. m : IsFirst(values[i], found[i]),
         \A i, j \in 1 .. m : i < j => \A x \in found[i], y \in found[j] : x < y
  PROVE  IsFirst(FirstOf(values), UNION {found[i] : i \in 1 .. m})
<1> DEFINE hits == {i \in DOMAIN values : values[i] # <<>>}
           all == UNION {found[i] : i \in 1 .. m}
<1>1. hits \in SUBSET Nat /\ hits \subseteq 1 .. m
  OBVIOUS
<1>2. \A i \in 1 .. m : i \in hits <=> found[i] # {}
  <2> TAKE i \in 1 .. m
  <2>1. i \in hits <=> values[i] # <<>>
    OBVIOUS
  <2>2. \A x : <<x>> # <<>>
    OBVIOUS
  <2> HIDE DEF hits
  <2> QED
    BY <2>1, <2>2 DEF IsFirst
<1>3. CASE hits = {}
  <2>1. FirstOf(values) = <<>>
    BY <1>3 DEF FirstOf
  <2>2. all = {}
    <3> HIDE DEF hits
    <3> QED
      BY <1>2, <1>3
  <2> QED
    BY <2>1, <2>2 DEF IsFirst
<1>4. CASE hits # {}
  <2> DEFINE k == Min(hits)
  <2>1. FirstOf(values) = values[k]
    BY <1>4 DEF FirstOf
  <2>2. k \in hits /\ \A i \in hits : k <= i
    <3> HIDE DEF hits
    <3> QED
      BY <1>1, <1>4, MinIsIn
  <2> HIDE DEF hits, k
  <2>3. k \in 1 .. m /\ found[k] # {}
    BY <1>1, <1>2, <2>2
  <2>4. PICK first \in found[k] : values[k] = <<first>> /\ \A n \in found[k] : first <= n
    BY <2>3 DEF IsFirst
  <2>5. ASSUME NEW n \in all PROVE first <= n
    <3>1. PICK i \in 1 .. m : n \in found[i]
      OBVIOUS
    <3>2. i \in hits /\ k <= i
      BY <1>2, <2>2, <3>1
    <3>3. CASE i = k
      BY <2>4, <3>1, <3>3
    <3>4. CASE k < i
      <4>1. first < n
        BY <2>3, <2>4, <3>1, <3>4
      <4>2. first \in Nat /\ n \in Nat
        BY <2>3, <2>4, <3>1
      <4> QED
        BY <4>1, <4>2
    <3> QED
      BY <2>3, <3>2, <3>3, <3>4
  <2>6. first \in all
    BY <2>3, <2>4
  <2> HIDE DEF all
  <2>7. IsFirst(values[k], all)
    BY <2>4, <2>5, <2>6 DEF IsFirst
  <2> QED
    BY <2>1, <2>7 DEF all
<1> QED
  BY <1>3, <1>4

LEMMA FoundExists == Finished => \E found : AreFound(found)
<1> SUFFICES ASSUME Finished PROVE \E found : AreFound(found)
  OBVIOUS
<1> DEFINE V == Seq(Items)
           Body(n, values) == IF ~Kept(n) THEN <<>> ELSE IF IsRegistrar(n) THEN <<n>> ELSE FirstOf(values)
           step == [q \in Items \X Seq(V) |-> Body(q[1], q[2])]
<1>1. PICK bound \in Nat : \E rank : IsTree(NestedInItem, rank, bound, Items)
  BY RecordIsTree
<1>2. PICK rank : IsTree(NestedInItem, rank, bound, Items)
  BY <1>1
<1>3. \A n \in Items, values \in Seq(V) : Body(n, values) \in V
  BY FirstOfType
<1> HIDE DEF V, Body
<1>4. step \in [Items \X Seq(V) -> V] /\ \A n \in Items, values \in Seq(V) : step[<<n, values>>] = Body(n, values)
  BY <1>3
<1> HIDE DEF step
<1>5. PICK found : IsTreeFold(found, NestedInItem, Items, V, step)
  BY <1>2, <1>4, TreeFoldExists
<1>6. found \in [Items -> V]
  BY <1>5 DEF IsTreeFold
<1>7. ASSUME NEW n \in Items
      PROVE  found[n] = IF ~Kept(n) THEN <<>>
                        ELSE IF IsRegistrar(n) THEN <<n>>
                        ELSE FirstOf([i \in DOMAIN doc.entities[n] |-> found[doc.entities[n][i]]])
  <2> DEFINE values == ValuesBelow(found, NestedInItem, n)
  <2>1. values \in Seq(V)
    <3>1. NestedInItem \in [Items -> Seq(Items)]
      BY <1>2 DEF IsTree
    <3> QED
      BY <1>6, <3>1, ValuesBelowType
  <2>2. found[n] = Body(n, values)
    BY <1>4, <1>5, <2>1 DEF IsTreeFold
  <2>3. Kept(n) => values = [i \in DOMAIN doc.entities[n] |-> found[doc.entities[n][i]]]
    BY DEF NestedInItem, ValuesBelow
  <2> HIDE DEF values
  <2> QED
    BY <2>2, <2>3 DEF Body
<1>8. AreFound(found)
  BY <1>6, <1>7 DEF AreFound
<1> QED
  BY <1>8

(* The value of the recursion at an item. *)
LEMMA FoundFacts ==
  ASSUME Finished, NEW below, IsBelow(below), NEW found, AreFound(found)
  PROVE  \A n \in Items : IsFirst(found[n], {e \in below[n] : IsRegistrar(e)})
<1> DEFINE Regs(n) == {e \in below[n] : IsRegistrar(e)}
           S == {n \in Items : IsFirst(found[n], Regs(n))}
<1>1. PICK bound \in Nat : \E rank : IsTree(NestedInItem, rank, bound, Items)
  BY RecordIsTree
<1>2. PICK rank : IsTree(NestedInItem, rank, bound, Items)
  BY <1>1
<1>3. doc \in Documents /\ BudgetKept /\ Items \subseteq Nat /\ \A n \in Items : n \in Objects /\ n # Root
  BY DocumentsAssumption, OrderAssumption DEF Finished, Objects
<1>4. ASSUME NEW n \in Items, \A i \in DOMAIN NestedInItem[n] : NestedInItem[n][i] \in S
      PROVE  IsFirst(found[n], Regs(n))
  <2>1. CASE ~Kept(n)
    <3>1. found[n] = <<>>
      BY <2>1 DEF AreFound
    <3>2. below[n] = {}
      BY <1>3, <2>1 DEF IsBelow, InRecord, Kept
    <3> QED
      BY <3>1, <3>2 DEF IsFirst
  <2>2. CASE Kept(n) /\ IsRegistrar(n)
    <3>1. found[n] = <<n>>
      BY <2>2 DEF AreFound
    <3>2. n \in below[n]
      BY <1>3, <2>2 DEF IsBelow, InRecord, Kept
    <3>3. \A e \in below[n] : n <= e
      BY BelowIsKept
    <3> QED
      BY <2>2, <3>1, <3>2, <3>3 DEF IsFirst
  <2>3. CASE Kept(n) /\ ~IsRegistrar(n)
    <3> DEFINE list == doc.entities[n]
               values == [i \in DOMAIN list |-> found[list[i]]]
               regs == [i \in DOMAIN list |-> Regs(list[i])]
    <3>1. found[n] = FirstOf(values)
      BY <2>3 DEF AreFound
    <3>2. DOMAIN list = 1 .. Len(list) /\ Len(list) \in Nat
      BY <1>3, ListFacts
    <3>3. \A i \in DOMAIN list : list[i] \in Items
      BY <1>3, DocumentOrder
    <3>4. \A i \in DOMAIN list : IsFirst(values[i], regs[i])
      <4>1. NestedInItem[n] = list
        BY <2>3 DEF NestedInItem
      <4>2. \A i \in DOMAIN list : list[i] \in S
        <5> HIDE DEF S, list
        <5> QED
          BY <1>4, <4>1
      <4> HIDE DEF list, Regs
      <4> QED
        BY <4>2
    <3>5. \A i \in DOMAIN list : regs[i] \in SUBSET Nat
      <4> SUFFICES ASSUME NEW i \in DOMAIN list, NEW e \in below[list[i]] PROVE e \in Nat
        OBVIOUS
      <4> QED
        BY <1>3, <3>3, BelowIsKept, KeptItems
    <3>6. \A i, j \in DOMAIN list : i < j => \A x \in regs[i], y \in regs[j] : x < y
      BY <1>3, BelowInOrder
    <3>7. Regs(n) = UNION {regs[i] : i \in DOMAIN list}
      <4>1. below[n] = {n} \cup UNION {below[list[i]] : i \in DOMAIN list}
        BY <1>3, <2>3 DEF IsBelow, InRecord, Kept
      <4> HIDE DEF list
      <4> QED
        BY <2>3, <4>1
    <3>8. DOMAIN values = DOMAIN list /\ regs = [i \in DOMAIN list |-> regs[i]]
      OBVIOUS
    <3> HIDE DEF list, values, regs, Regs
    <3>9. regs \in [1 .. Len(list) -> SUBSET Nat]
      BY <3>2, <3>5, <3>8
    <3>10. IsFirst(FirstOf(values), UNION {regs[i] : i \in 1 .. Len(list)})
      BY <3>2, <3>4, <3>6, <3>8, <3>9, FirstOfBlocks
    <3> QED
      BY <3>1, <3>2, <3>7, <3>10
  <2> QED
    BY <2>1, <2>2, <2>3
<1>5. Items \subseteq S
  <2>1. \A n \in Items : (\A i \in DOMAIN NestedInItem[n] : NestedInItem[n][i] \in S) => n \in S
    <3> HIDE DEF Regs
    <3> QED
      BY <1>4
  <2> HIDE DEF S
  <2> QED
    BY <1>2, <2>1, TreeInduct
<1> QED
  BY <1>5

(* The registrar shown is the first of the record. *)
LEMMA FirstRegistrarFound == Finished => IsFirst(FindRegistrar(doc.entities[Root]), Registrars)
<1> SUFFICES ASSUME Finished PROVE IsFirst(FindRegistrar(doc.entities[Root]), Registrars)
  OBVIOUS
<1>1. PICK below : IsBelow(below)
  BY BelowExists
<1> DEFINE found == CHOOSE f : AreFound(f)
           list == doc.entities[Root]
           values == [i \in DOMAIN list |-> found[list[i]]]
           regs == [i \in DOMAIN list |-> {e \in below[list[i]] : IsRegistrar(e)}]
<1>2. AreFound(found)
  BY FoundExists
<1>3. doc \in Documents /\ BudgetKept /\ Root \in Objects
  BY DEF Finished, Objects
<1>4. FindRegistrar(list) = FirstOf(values)
  BY FindRegistrarUnfolds
<1>5. DOMAIN list = 1 .. Len(list) /\ Len(list) \in Nat /\ \A i \in DOMAIN list : list[i] \in Items
  BY <1>3, ListFacts, DocumentOrder
<1>6. \A i \in DOMAIN list : IsFirst(values[i], regs[i])
  <2> HIDE DEF found, list
  <2> QED
    BY <1>1, <1>2, <1>5, FoundFacts
<1>7. \A i \in DOMAIN list : regs[i] \in SUBSET Nat
  <2> SUFFICES ASSUME NEW i \in DOMAIN list, NEW e \in below[list[i]] PROVE e \in Nat
    OBVIOUS
  <2> QED
    BY <1>1, <1>3, <1>5, BelowIsKept, KeptItems
<1>8. \A i, j \in DOMAIN list : i < j => \A x \in regs[i], y \in regs[j] : x < y
  BY <1>1, <1>3, BelowInOrder
<1>9. Registrars = UNION {regs[i] : i \in DOMAIN list}
  <2>1. UNION {below[list[i]] : i \in DOMAIN list} = ToSet(kept)
    BY <1>1, BelowItems
  <2> HIDE DEF list
  <2> QED
    BY <2>1 DEF Registrars
<1>10. DOMAIN values = DOMAIN list /\ regs = [i \in DOMAIN list |-> regs[i]]
  OBVIOUS
<1> HIDE DEF values, regs
<1>11. IsFirst(FirstOf(values), UNION {regs[i] : i \in 1 .. Len(list)})
  <2> HIDE DEF list
  <2>1. regs \in [1 .. Len(list) -> SUBSET Nat]
    BY <1>5, <1>7, <1>10
  <2> QED
    BY <1>5, <1>6, <1>8, <1>10, <2>1, FirstOfBlocks
<1> QED
  BY <1>4, <1>5, <1>9, <1>11

-----------------------------------------------------------------------------
(* The remarks.  The items of a record are items of its objects. *)
MembersInRecord == \A m \in members : m[1] \in InRecord /\ m[2] \in DOMAIN Members(m[1])
RemarksOf(objects) == {m \in members : m[1] \in objects /\ doc.kind[m[1]] = "remarks"}
Places == Objects \X Nat
InDocument == {pair \in Places \X Places : StandsBefore(pair[1], pair[2])}

LEMMA TextBlocksFacts ==
  ASSUME Finished, MembersInRecord, NEW n \in Objects
  PROVE  /\ TextBlocks(n) \in Seq(Places) /\ ToSet(TextBlocks(n)) = RemarksOf({n})
         /\ Sorted(TextBlocks(n), InDocument)
<1> DEFINE blocks == [i \in DOMAIN Members(n) |-> IF <<n, i>> \in members THEN <<<<n, i>>>> ELSE <<>>]
<1>1. doc \in Documents /\ Members(n) \in Seq(ClassesOf(doc.kind[n])) /\ members \subseteq Objects \X Nat
  BY DocumentFacts DEF Finished, BudgetKept
<1>2. DOMAIN Members(n) = 1 .. Len(Members(n)) /\ Len(Members(n)) \in Nat
  BY <1>1
<1>3. CASE doc.kind[n] # "remarks"
  <2>1. TextBlocks(n) = <<>> /\ RemarksOf({n}) = {}
    BY <1>3 DEF TextBlocks, RemarksOf
  <2>2. <<>> \in Seq(Places) /\ ToSet(<<>>) = {} /\ Sorted(<<>>, InDocument)
    BY DEF ToSet, Sorted
  <2> QED
    BY <2>1, <2>2
<1>4. CASE doc.kind[n] = "remarks"
  <2>1. TextBlocks(n) = FlattenSeq(blocks)
    BY <1>4 DEF TextBlocks
  <2>2. ASSUME NEW i \in DOMAIN Members(n)
        PROVE  /\ blocks[i] \in Seq(Places) /\ ToSet(blocks[i]) = {<<n, i>>} \cap members
               /\ Sorted(blocks[i], InDocument)
    <3> DEFINE p == <<n, i>>
               one == <<p>>
    <3>1. p \in Places /\ one \in Seq(Places) /\ DOMAIN one = {1} /\ one[1] = p
      BY <1>2 DEF Places
    <3>2. blocks[i] = IF p \in members THEN one ELSE <<>>
      OBVIOUS
    <3> HIDE DEF p, one, blocks
    <3>3. /\ ToSet(one) = {p} /\ Sorted(one, InDocument)
          /\ <<>> \in Seq(Places) /\ ToSet(<<>>) = {} /\ Sorted(<<>>, InDocument)
      BY <3>1 DEF ToSet, Sorted
    <3>4. /\ blocks[i] \in Seq(Places) /\ ToSet(blocks[i]) = {p} \cap members
          /\ Sorted(blocks[i], InDocument)
      BY <3>1, <3>2, <3>3
    <3> QED
      BY <3>4 DEF p
  <2>3. DOMAIN blocks = DOMAIN Members(n) /\ blocks \in Seq(Seq(Places))
    <3>1. DOMAIN blocks = DOMAIN Members(n) /\ blocks = [i \in DOMAIN Members(n) |-> blocks[i]]
      OBVIOUS
    <3> HIDE DEF blocks
    <3> QED
      BY <1>2, <2>2, <3>1
  <2> HIDE DEF blocks
  <2>7. ASSUME NEW i \in DOMAIN blocks, NEW j \in DOMAIN blocks, i < j
        PROVE  AllBefore(blocks[i], blocks[j], InDocument)
    <3>1. ASSUME NEW x \in ToSet(blocks[i]), NEW y \in ToSet(blocks[j])
          PROVE  <<x, y>> \in InDocument
      <4>1. x = <<n, i>> /\ y = <<n, j>> /\ i \in Nat /\ j \in Nat
        BY <1>2, <2>2, <2>3, <3>1
      <4> QED
        BY <2>7, <4>1 DEF InDocument, Places, StandsBefore
    <3> QED
      BY <3>1 DEF AllBefore
  <2>4. /\ FlattenSeq(blocks) \in Seq(Places)
        /\ ToSet(FlattenSeq(blocks)) = UNION {ToSet(blocks[i]) : i \in DOMAIN blocks}
        /\ Sorted(FlattenSeq(blocks), InDocument)
    BY <2>2, <2>3, <2>7, FlattenFacts
  <2>5. RemarksOf({n}) = {<<n, i>> : i \in DOMAIN Members(n)} \cap members
    <3>1. ASSUME NEW m \in RemarksOf({n}) PROVE \E i \in DOMAIN Members(n) : m = <<n, i>>
      <4>1. m \in members /\ m[1] = n
        BY DEF RemarksOf
      <4>2. m = <<m[1], m[2]>> /\ m[2] \in DOMAIN Members(m[1])
        BY <1>1, <4>1 DEF MembersInRecord
      <4> QED
        BY <4>1, <4>2
    <3>2. ASSUME NEW i \in DOMAIN Members(n), <<n, i>> \in members
          PROVE  <<n, i>> \in RemarksOf({n})
      BY <1>4, <3>2 DEF RemarksOf
    <3> QED
      BY <3>1, <3>2 DEF RemarksOf
  <2>6. UNION {ToSet(blocks[i]) : i \in DOMAIN blocks} = {<<n, i>> : i \in DOMAIN Members(n)} \cap members
    BY <2>2, <2>3
  <2> QED
    BY <2>1, <2>4, <2>5, <2>6
<1> QED
  BY <1>3, <1>4

AreRemarks(remarks) ==
  remarks = [n \in Objects |->
               IF n \notin InRecord THEN <<>>
               ELSE TextBlocks(n) \o FlattenSeq([i \in DOMAIN doc.entities[n] |->
                                                 remarks[doc.entities[n][i]]])]

LEMMA ScopedRemarksUnfolds ==
  \A object : ScopedRemarks(object) = (CHOOSE remarks : AreRemarks(remarks))[object]
BY DEF ScopedRemarks, AreRemarks

LEMMA RemarksExist == Finished /\ MembersInRecord => \E remarks : AreRemarks(remarks)
<1> SUFFICES ASSUME Finished, MembersInRecord PROVE \E remarks : AreRemarks(remarks)
  OBVIOUS
<1> DEFINE V == Seq(Places)
           Body(n, values) == IF n \notin InRecord THEN <<>> ELSE TextBlocks(n) \o FlattenSeq(values)
           step == [q \in Objects \X Seq(V) |-> Body(q[1], q[2])]
<1>1. PICK bound \in Nat : \E rank : IsTree(Nested, rank, bound, Objects)
  BY RecordIsTree
<1>2. PICK rank : IsTree(Nested, rank, bound, Objects)
  BY <1>1
<1>3. \A n \in Objects, values \in Seq(V) : Body(n, values) \in V
  <2> SUFFICES ASSUME NEW n \in Objects, NEW values \in Seq(Seq(Places)) PROVE Body(n, values) \in Seq(Places)
    OBVIOUS
  <2>1. FlattenSeq(values) \in Seq(Places) /\ TextBlocks(n) \in Seq(Places)
    BY FlattenFacts, TextBlocksFacts
  <2> DEFINE s == TextBlocks(n)
             u == FlattenSeq(values)
  <2> HIDE DEF s, u
  <2>2. s \o u \in Seq(Places)
    BY <2>1 DEF s, u
  <2> QED
    BY <2>2 DEF s, u
<1> HIDE DEF V, Body
<1>4. step \in [Objects \X Seq(V) -> V] /\ \A n \in Objects, values \in Seq(V) : step[<<n, values>>] = Body(n, values)
  BY <1>3
<1> HIDE DEF step
<1>5. PICK remarks : IsTreeFold(remarks, Nested, Objects, V, step)
  BY <1>2, <1>4, TreeFoldExists
<1>6. remarks \in [Objects -> V]
  BY <1>5 DEF IsTreeFold
<1>7. ASSUME NEW n \in Objects
      PROVE  remarks[n] = IF n \notin InRecord THEN <<>>
                          ELSE TextBlocks(n) \o FlattenSeq([i \in DOMAIN doc.entities[n] |->
                                                            remarks[doc.entities[n][i]]])
  <2> DEFINE values == ValuesBelow(remarks, Nested, n)
  <2>1. values \in Seq(V)
    <3>1. Nested \in [Objects -> Seq(Objects)]
      BY <1>2 DEF IsTree
    <3> QED
      BY <1>6, <3>1, ValuesBelowType
  <2>2. remarks[n] = Body(n, values)
    BY <1>4, <1>5, <2>1 DEF IsTreeFold
  <2>3. n \in InRecord => values = [i \in DOMAIN doc.entities[n] |-> remarks[doc.entities[n][i]]]
    BY DEF Nested, ValuesBelow
  <2> HIDE DEF values
  <2> QED
    BY <2>2, <2>3 DEF Body
<1>8. AreRemarks(remarks)
  BY <1>6, <1>7 DEF AreRemarks
<1> QED
  BY <1>8

(* What stands below an item of an object stands behind that object. *)
LEMMA BelowOfItem ==
  ASSUME Finished, NEW below, IsBelow(below), NEW n \in Objects,
         NEW i \in DOMAIN doc.entities[n], NEW e \in below[doc.entities[n][i]]
  PROVE  e \in Nat /\ e # Root /\ (n # Root => n \in Nat /\ n < e)
<1>1. doc \in Documents /\ BudgetKept
  BY DEF Finished
<1> DEFINE item == doc.entities[n][i]
<1>2. item \in Items /\ item \in Nat /\ (n # Root => n \in Nat /\ n < item)
  BY <1>1, DocumentOrder
<1> HIDE DEF item
<1>3. e \in ToSet(kept) /\ item <= e
  BY <1>2, BelowIsKept DEF item
<1>4. e \in Nat /\ e # Root
  BY <1>1, <1>3, KeptItems
<1> QED
  BY <1>2, <1>3, <1>4

LEMMA RemarksFacts ==
  ASSUME Finished, MembersInRecord, NEW below, IsBelow(below), NEW remarks, AreRemarks(remarks)
  PROVE  \A n \in Objects : /\ remarks[n] \in Seq(Places) /\ ToSet(remarks[n]) = RemarksOf(below[n])
                             /\ Sorted(remarks[n], InDocument)
<1> DEFINE Good(n) == /\ remarks[n] \in Seq(Places) /\ ToSet(remarks[n]) = RemarksOf(below[n])
                      /\ Sorted(remarks[n], InDocument)
           S == {n \in Objects : Good(n)}
<1>1. PICK bound \in Nat : \E rank : IsTree(Nested, rank, bound, Objects)
  BY RecordIsTree
<1>2. PICK rank : IsTree(Nested, rank, bound, Objects)
  BY <1>1
<1>3. doc \in Documents
  BY DEF Finished
<1>4. ASSUME NEW n \in Objects, \A i \in DOMAIN Nested[n] : Nested[n][i] \in S
      PROVE  Good(n)
  <2>1. CASE n \notin InRecord
    <3>1. remarks[n] = <<>> /\ below[n] = {}
      BY <2>1 DEF AreRemarks, IsBelow
    <3>2. <<>> \in Seq(Places) /\ ToSet(<<>>) = {} /\ RemarksOf({}) = {} /\ Sorted(<<>>, InDocument)
      BY DEF ToSet, RemarksOf, Sorted
    <3> QED
      BY <3>1, <3>2
  <2>2. CASE n \in InRecord
    <3> DEFINE list == doc.entities[n]
               values == [i \in DOMAIN list |-> remarks[list[i]]]
               text == TextBlocks(n)
               rest == FlattenSeq(values)
    <3>1. remarks[n] = text \o rest
      BY <2>2 DEF AreRemarks
    <3>2. DOMAIN list = 1 .. Len(list) /\ Len(list) \in Nat
      BY <1>3, ListFacts
    <3>3. \A i \in DOMAIN list : Good(list[i])
      <4>1. Nested[n] = list
        BY <2>2 DEF Nested
      <4> HIDE DEF Good, list
      <4> QED
        BY <1>4, <4>1
    <3>4. DOMAIN values = DOMAIN list /\ \A i \in DOMAIN list : values[i] = remarks[list[i]]
      OBVIOUS
    <3>5. values \in Seq(Seq(Places))
      <4> HIDE DEF list
      <4> QED
        BY <3>2, <3>3
    <3>6. below[n] = {n} \cup UNION {below[list[i]] : i \in DOMAIN list}
      BY <2>2 DEF IsBelow
    <3> HIDE DEF values
    <3>12. ASSUME NEW i \in DOMAIN values, NEW j \in DOMAIN values, i < j
           PROVE  AllBefore(values[i], values[j], InDocument)
      <4>1. ASSUME NEW x \in ToSet(values[i]), NEW y \in ToSet(values[j])
            PROVE  <<x, y>> \in InDocument
        <5>1. x \in RemarksOf(below[list[i]]) /\ y \in RemarksOf(below[list[j]])
          BY <3>3, <3>4, <4>1
        <5>2. x \in Places /\ y \in Places /\ x[1] \in below[list[i]] /\ y[1] \in below[list[j]]
          BY <1>3, <5>1 DEF RemarksOf, Places, Finished, BudgetKept
        <5>3. x[1] < y[1]
          BY <3>4, <3>12, <5>2, BelowInOrder
        <5>4. x[1] \in Nat /\ y[1] \in Nat /\ y[1] # Root
          BY <3>4, <5>2, BelowOfItem
        <5> QED
          BY <5>2, <5>3, <5>4 DEF InDocument, StandsBefore
      <4> QED
        BY <4>1 DEF AllBefore
    <3>7. /\ rest \in Seq(Places)
          /\ ToSet(rest) = UNION {ToSet(values[i]) : i \in DOMAIN values}
          /\ Sorted(rest, InDocument)
      <4>1. \A i \in DOMAIN values : Sorted(values[i], InDocument)
        <5> HIDE DEF list
        <5> QED
          BY <3>3, <3>4
      <4> QED
        BY <3>5, <3>12, <4>1, FlattenFacts
    <3>8. text \in Seq(Places) /\ ToSet(text) = RemarksOf({n}) /\ Sorted(text, InDocument)
      BY TextBlocksFacts
    <3>9. ToSet(rest) = UNION {RemarksOf(below[list[i]]) : i \in DOMAIN list}
      <4> HIDE DEF list, rest
      <4> QED
        BY <3>3, <3>4, <3>7
    <3>13. AllBefore(text, rest, InDocument)
      <4>1. ASSUME NEW x \in ToSet(text), NEW y \in ToSet(rest)
            PROVE  <<x, y>> \in InDocument
        <5>1. PICK i \in DOMAIN list : y \in RemarksOf(below[list[i]])
          <6> HIDE DEF list, text, rest
          <6> QED
            BY <3>9, <4>1
        <5>2. x \in Places /\ y \in Places /\ x[1] = n /\ y[1] \in below[list[i]]
          BY <1>3, <3>8, <4>1, <5>1 DEF RemarksOf, Places, Finished, BudgetKept
        <5>3. y[1] \in Nat /\ y[1] # Root /\ (n # Root => n \in Nat /\ n < y[1])
          BY <5>2, BelowOfItem
        <5> QED
          BY <5>2, <5>3 DEF InDocument, StandsBefore
      <4> QED
        BY <4>1 DEF AllBefore
    <3> HIDE DEF text, rest
    <3>10. /\ text \o rest \in Seq(Places) /\ ToSet(text \o rest) = ToSet(text) \cup ToSet(rest)
           /\ Sorted(text \o rest, InDocument)
      BY <3>7, <3>8, <3>13, ConcatFacts
    <3>11. RemarksOf(below[n]) = RemarksOf({n}) \cup UNION {RemarksOf(below[list[i]]) : i \in DOMAIN list}
      <4> HIDE DEF list
      <4> QED
        BY <3>6 DEF RemarksOf
    <3> QED
      BY <3>1, <3>8, <3>9, <3>10, <3>11
  <2> QED
    BY <2>1, <2>2
<1>5. Objects \subseteq S
  <2>1. \A n \in Objects : (\A i \in DOMAIN Nested[n] : Nested[n][i] \in S) => n \in S
    <3> HIDE DEF Good
    <3> QED
      BY <1>4
  <2> HIDE DEF S
  <2> QED
    BY <1>2, <2>1, TreeInduct
<1> QED
  BY <1>5

(* Among the notices are the remarks of the whole record, in its order. *)
LEMMA AllRemarksShown ==
  ASSUME Finished, MembersInRecord
  PROVE  /\ ToSet(ScopedRemarks(Root)) = {m \in members : doc.kind[m[1]] = "remarks"}
         /\ \A i, j \in DOMAIN ScopedRemarks(Root) :
              i < j => StandsBefore(ScopedRemarks(Root)[i], ScopedRemarks(Root)[j])
<1>1. PICK below : IsBelow(below)
  BY BelowExists
<1> DEFINE remarks == CHOOSE f : AreRemarks(f)
<1>2. AreRemarks(remarks)
  BY RemarksExist
<1>3. ScopedRemarks(Root) = remarks[Root]
  BY ScopedRemarksUnfolds
<1> HIDE DEF remarks
<1>4. ToSet(remarks[Root]) = RemarksOf(below[Root]) /\ Sorted(remarks[Root], InDocument)
  BY <1>1, <1>2, RemarksFacts DEF Objects
<1>5. below[Root] = InRecord
  BY <1>1, BelowRoot
<1>6. \A m, k : <<m, k>> \in InDocument => StandsBefore(m, k)
  BY DEF InDocument
<1> QED
  BY <1>3, <1>4, <1>5, <1>6 DEF RemarksOf, MembersInRecord, Sorted

(* What is projected belongs to an object that is in the record by then. *)
LEMMA ProjectMembersInRecord ==
  ASSUME doc \in Documents, MembersInRecord, NEW n \in Objects, NEW also, ProjectMembers(n, also),
         doc' = doc, InRecord \subseteq InRecord', n \in InRecord'
  PROVE  MembersInRecord'
<1>1. Members(n) \in Seq(ClassesOf(doc.kind[n]))
  BY DocumentFacts
<1>2. \A k : Members(k)' = Members(k)
  BY DEF Members, Erased
<1>3. \A i \in Projected(n) : i \in DOMAIN Members(n)
  <2>1. DOMAIN Members(n) = 1 .. Len(Members(n)) /\ Len(Members(n)) \in Nat
    BY <1>1
  <2>2. LimitedSize(Members(n)) \in 0 .. Len(Members(n))
    BY <1>1, LimitedSizeBounds
  <2> QED
    BY <2>1, <2>2 DEF Projected
<1> SUFFICES ASSUME NEW m \in members' PROVE m[1] \in InRecord' /\ m[2] \in DOMAIN Members(m[1])
  BY <1>2 DEF MembersInRecord
<1>4. CASE m \in members
  BY <1>4 DEF MembersInRecord
<1>5. CASE m \notin members
  <2>1. PICK i \in Projected(n) : m = <<n, i>>
    BY <1>5 DEF ProjectMembers
  <2> QED
    BY <1>3, <2>1
<1> QED
  BY <1>4, <1>5

LEMMA MembersStayInRecord == IInv /\ MembersInRecord /\ [Next]_vars => MembersInRecord'
<1> SUFFICES ASSUME IInv, MembersInRecord, [Next]_vars PROVE MembersInRecord'
  OBVIOUS
<1>1. doc \in Documents /\ BudgetKept /\ kept \in Seq(Items) /\ stack \in Seq(Frames)
  BY DEF IInv, BudgetKept
<1>2. CASE ProjectDocument
  <2>1. doc' = doc /\ kept' = kept /\ InRecord' = InRecord /\ Root \in InRecord /\ Root \in Objects
    BY <1>2 DEF ProjectDocument, InRecord, Objects
  <2> QED
    BY <1>1, <1>2, <2>1, ProjectMembersInRecord DEF ProjectDocument
<1>3. CASE ProjectEntity
  <2>1. HasItem /\ doc' = doc /\ kept' = Append(kept, Item) /\ ProjectMembers(Item, {})
    BY <1>3 DEF ProjectEntity
  <2>2. Item \in Items
    BY <1>1, <2>1, ItemIsListed
  <2> DEFINE item == Item
  <2> HIDE DEF item
  <2>3. item \in Items /\ kept' = Append(kept, item) /\ ProjectMembers(item, {})
    BY <2>1, <2>2 DEF item
  <2>4. ToSet(kept) \subseteq ToSet(kept') /\ item \in ToSet(kept')
    <3>1. /\ Len(kept') = Len(kept) + 1 /\ DOMAIN kept = 1 .. Len(kept) /\ Len(kept) \in Nat
          /\ DOMAIN kept' = 1 .. Len(kept')
          /\ \A i \in 1 .. Len(kept) : kept'[i] = kept[i]
          /\ kept'[Len(kept) + 1] = item
      BY <1>1, <2>3
    <3>2. \A i \in DOMAIN kept : i \in DOMAIN kept' /\ kept'[i] = kept[i]
      BY <3>1
    <3>3. Len(kept) + 1 \in DOMAIN kept'
      BY <3>1
    <3> QED
      BY <3>1, <3>2, <3>3 DEF ToSet
  <2>5. InRecord \subseteq InRecord' /\ item \in InRecord' /\ item \in Objects
    BY <2>3, <2>4 DEF InRecord, Objects
  <2> QED
    BY <1>1, <2>1, <2>3, <2>5, ProjectMembersInRecord
<1>4. CASE doc' = doc /\ kept' = kept /\ members' = members
  BY <1>4 DEF MembersInRecord, InRecord, Members, Erased
<1>5. ProjectDocument \/ ProjectEntity \/ (doc' = doc /\ kept' = kept /\ members' = members)
  BY DEF Next, vars, RejectDocument, ProjectRange, SkipEntities, EnterEntities, StopAtBudget,
         SkipItem, LeaveEntities
<1> QED
  BY <1>2, <1>3, <1>4, <1>5

(* A response that names a registrar and is projected without a warning    *)
(* has one in the record.                                                  *)
LEMMA RegistrarIsNotLost ==
  ASSUME Finished, NothingLostSilently, warnings = {}, ResponseNamesRegistrar
  PROVE  Registrars # {}
<1>1. doc \in Documents /\ BudgetKept
  BY DEF Finished
<1>2. PICK n \in Items \ doc.junk : InResponse(n) /\ doc.kind[n] = "strings" /\ "whole" \in ToSet(doc.members[n])
  BY DEF ResponseNamesRegistrar
<1>3. InRecord \in SUBSET Objects /\ Root \in InRecord
  BY <1>1, KeptItems DEF InRecord, Objects
<1>4. \A m \in InRecord : ToSet(doc.entities[m]) \subseteq InRecord
  <2> SUFFICES ASSUME NEW m \in InRecord, NEW i \in DOMAIN doc.entities[m]
               PROVE  doc.entities[m][i] \in InRecord
    BY DEF ToSet
  <2>1. doc.entities[m][i] \in ToSet(kept) \/ Reported(m, "entity", "entities", i)
    BY DEF NothingLostSilently, Finished
  <2> QED
    BY <2>1 DEF Reported, InRecord
<1>5. n \in InRecord /\ n \in ToSet(kept)
  <2>1. n \in InRecord
    BY <1>2, <1>3, <1>4 DEF InResponse
  <2> QED
    BY <2>1, DocumentsAssumption DEF InRecord
<1>6. Members(n) = doc.members[n]
  BY <1>2 DEF Members, Erased
<1>7. PICK i \in DOMAIN Members(n) : Members(n)[i] = "whole"
  BY <1>2, <1>6 DEF ToSet
<1>8. <<n, i>> \in members
  <2>1. \/ <<n, i>> \in members \/ Reported(n, "member", "members", i)
        \/ PassedOver(doc.kind[n], Members(n)[i])
    BY <1>5, <1>7 DEF NothingLostSilently, Finished
  <2> QED
    BY <1>2, <1>7, <2>1 DEF Reported, PassedOver
<1>9. IsRegistrar(n)
  BY <1>2, <1>7, <1>8 DEF IsRegistrar, HasMember
<1> QED
  BY <1>5, <1>9 DEF Registrars

(* Registrar, contacts and remarks of the record are shown, and nothing    *)
(* else in their place: the registrar is the first of the document, every  *)
(* entity stands once among the contacts, in the order of the document and *)
(* at the depth it is nested at, every remark is shown once, in the order  *)
(* of the document, and "None" is said of a record without any; a          *)
(* registrar that the record has lost shows as a problem.                  *)
THEOREM ViewsAreComplete == Spec => []ViewsShowTheRecord
<1>1. ASSUME IInv, MembersInRecord, FirstComeFirstKept, NothingLostSilently, pc = "done"
      PROVE  ViewsShowTheRecord
  <2>1. Finished
    BY <1>1 DEF Finished, IInv
  <2>2. ~doc.network => IsFirst(Overview.registrar, Registrars)
    BY <2>1, FirstRegistrarFound DEF Overview
  <2>3. /\ ToSet(Notices.remarks) = {m \in members : doc.kind[m[1]] = "remarks"}
        /\ \A i, j \in DOMAIN Notices.remarks :
             i < j => StandsBefore(Notices.remarks[i], Notices.remarks[j])
    <3>1. Notices.remarks = ScopedRemarks(Root)
      BY DEF Notices
    <3> QED
      BY <1>1, <2>1, <3>1, AllRemarksShown
  <2>4. ASSUME SaysNone
        PROVE  /\ ~Overview.disclosure /\ ~Overview.problems
               /\ \A n \in InRecord : ~HasMember(n, "remarks")
    <3>1. ~redacted /\ warnings = {} /\ Notices.remarks = <<>>
      <4>1. /\ Notices.disclosure = FALSE /\ Notices.remarks = <<>> /\ Notices.problems = {}
        BY <2>4 DEF SaysNone
      <4> QED
        BY <4>1 DEF Notices
    <3>2. ~Overview.disclosure /\ ~Overview.problems
      BY <3>1 DEF Overview
    <3>3. ASSUME NEW n, HasMember(n, "remarks") PROVE FALSE
      <4>1. PICK i : <<n, i>> \in members /\ doc.kind[n] = "remarks"
        BY <3>3 DEF HasMember
      <4>2. <<n, i>> \in ToSet(Notices.remarks)
        BY <2>3, <4>1
      <4>3. ToSet(<<>>) = {}
        BY DEF ToSet
      <4> QED
        BY <3>1, <4>2, <4>3
    <3> QED
      BY <3>2, <3>3
  <2>5. ResponseNamesRegistrar /\ Registrars = {} => Overview.problems
    BY <1>1, <2>1, RegistrarIsNotLost DEF Overview
  <2>6. [i \in DOMAIN Contacts |-> <<Contacts[i].entity, Contacts[i].indent>>]
          = [i \in DOMAIN kept |-> <<kept[i], DepthOf(kept[i])>>]
    BY <2>1, ContactsInOrder
  <2> QED
    BY <2>2, <2>3, <2>4, <2>5, <2>6 DEF ViewsShowTheRecord, IsFirst
<1>2. IInv /\ MembersInRecord /\ FirstComeFirstKept /\ NothingLostSilently => ViewsShowTheRecord
  BY <1>1 DEF ViewsShowTheRecord
<1>3. Init => MembersInRecord
  BY DEF Init, MembersInRecord
<1> QED
  BY <1>2, <1>3, Invariance, MembersStayInRecord, FirstAreKept, LossIsReported, PTL DEF Spec

=============================================================================
