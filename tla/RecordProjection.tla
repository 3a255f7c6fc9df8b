-------------------------- MODULE RecordProjection --------------------------
(***************************************************************************)
(* The projection of an RDAP response to a record: Parser of               *)
(* domain_record_parser.cpp, for domains and, through common_projection of *)
(* network_record_parser.cpp, for networks and AS numbers.                 *)
(*                                                                         *)
(* Entities nest; the recursion of entities() and entity() over them is an *)
(* explicit stack here, of the lists whose loop is under way.  All other   *)
(* collections are flat and projected in one go: beside its entities every *)
(* object has one of them, of any kind.  Of the scalar members there is    *)
(* the range of a network; the others are left out, and so are the values, *)
(* types and preferences within a property of a jCard.  A class stands for *)
(* what a projection tells apart of an item.                               *)
(***************************************************************************)
EXTENDS Integers, Sequences, FiniteSets, SequencesExt

CONSTANTS
  Items,        \* the items of entities arrays
  Root,         \* the response itself
  Documents,    \* the responses considered
  MaxDepth,     \* maximum_entity_depth: 8
  MaxEntities,  \* maximum_entities: 256
  MaxItems      \* maximum_collection_items: 1024

Objects == Items \cup {Root}
Forms == {"absent", "array", "mistyped"}
KindsOfEntities == {"strings", "links", "events", "remarks", "publicIds", "jCard"}
KindsOfRoot == {"strings", "links", "events", "remarks", "nameservers", "dsData"}
Kinds == KindsOfEntities \cup KindsOfRoot

(* An item is as it should be, lacks a required or optional member, has a  *)
(* member of a wrong type, is null, or is of a wrong type itself.  Of a    *)
(* link and of an event some members are required ("mistyped") and others  *)
(* are not ("mistyped option").  Remarks and notices may say that data was *)
(* redacted.  A property of a jCard may have no place in the record: one   *)
(* of another name, one without text, or a full name that a later one      *)
(* replaces.                                                               *)
Classes == {"whole", "partial", "mistyped", "mistyped option", "null", "junk", "redacted",
            "no place"}
ClassesOf(kind) ==
  {class \in Classes :
     /\ kind = "strings" => class \in {"whole", "null", "junk"}
     /\ class = "mistyped option" => kind \in {"links", "events"}
     /\ class = "redacted" => kind = "remarks"
     /\ class = "no place" => kind = "jCard"}

(* startAddress, endAddress and ipVersion of a network, startAutnum and    *)
(* endAutnum of AS numbers.  No use are an address with a prefix, a number *)
(* beyond 32 bits, a text that is neither, and a wrong type.               *)
Ends(families) == [family : families \cup {"absent", "unusable"}, value : Nat]
Ranges ==
  [start : Ends({"v4", "v6"}), end : Ends({"v4", "v6"}),
   version : {"absent", "v4", "v6", "mistyped"}]
  \cup [start : Ends({"as"}), end : Ends({"as"}), version : {"absent"}]

DocumentType ==
  [class : {"expected", "other", "missing", "mistyped", "no object"},
   network : BOOLEAN,       \* projected through common_projection
   range : Ranges,          \* read of networks only
   conformance : BOOLEAN,   \* rdapConformance is there
   form : [Objects -> Forms],           \* of the entities member
   entities : [Objects -> Seq(Items)],
   junk : SUBSET Items,                 \* the items that are no objects
   kind : [Objects -> Kinds],           \* the other collection
   members : [Objects -> Seq(Classes)]]

ASSUME DocumentsAssumption ==
  /\ Root \notin Items /\ Documents \subseteq DocumentType
  /\ \A d \in Documents, n \in Objects :
       /\ d.form[n] # "array" => d.entities[n] = <<>>
       /\ d.kind[n] \in IF n = Root THEN KindsOfRoot ELSE KindsOfEntities
       /\ d.members[n] \in Seq(ClassesOf(d.kind[n]))

(* Items are numbered in the order of the document: each stands in one     *)
(* list, behind the object whose list it is and behind everything nested   *)
(* in the items before it.                                                 *)
InOrder(d) ==
  \A n \in Objects : \A i \in DOMAIN d.entities[n] :
    LET item == d.entities[n][i]
    IN  /\ n # Root => n < item
        /\ \A m \in Objects \ {n} : item \notin ToSet(d.entities[m])
        /\ \A j \in 1 .. i - 1 :
             /\ d.entities[n][j] < item
             /\ \A m \in Items : d.entities[n][j] <= m /\ m < item =>
                                 \A nested \in ToSet(d.entities[m]) : nested < item
ASSUME OrderAssumption ==
  Items \subseteq Nat /\ Root \notin Nat /\ \A d \in Documents : InOrder(d)

ASSUME LimitsAssumption == MaxDepth \in Nat /\ MaxEntities \in Nat /\ MaxItems \in Nat

VARIABLES
  doc,       \* the response
  pc,        \* where the projection is
  at,        \* the object whose entities are next
  stack,     \* the lists under way, outermost first, and their next index
  kept,      \* the entities projected, in the order of projection
  members,   \* the other items projected, by object and index
  warnings,  \* warnings_: the object, what it is about, and the index
  redacted   \* redacted_

vars == <<doc, pc, at, stack, kept, members, warnings, redacted>>

-----------------------------------------------------------------------------
(* limited_size. *)
LimitedSize(s) == IF Len(s) > MaxItems THEN MaxItems ELSE Len(s)
TooLong(n, what, s) == IF Len(s) > MaxItems THEN {<<n, what, 0>>} ELSE {}

(* strings, links, events, text_blocks, public_ids, jcard, nameservers and *)
(* secure_dns: which items they keep and which they warn about.  An item   *)
(* whose member has a wrong type is warned about even where it is kept.    *)
IsObject(item) == item \notin {"null", "junk"}
Keeps(kind, item) ==
  IF kind \in {"strings", "publicIds"} THEN item = "whole"
  ELSE IF kind \in {"links", "events"} THEN item \in {"whole", "mistyped option"}
  ELSE IF kind = "jCard" THEN item \in {"whole", "mistyped"}
  ELSE IsObject(item)
(* (WarnsOfObjects: items that are no objects are skipped without a word.) *)
WarnsOfObjects(kind, item) ==
  \/ item \in {"mistyped", "mistyped option"}
  \/ item = "partial" /\ kind \in {"links", "events", "jCard"}
Warns(kind, item) ==
  \/ item \in {"mistyped", "mistyped option", "junk"}
  \/ item = "null" /\ kind # "strings"
  \/ item = "partial" /\ kind \in {"links", "events", "jCard"}

(* common_projection erases what a network does not have. *)
Erased(kind) == doc.network /\ kind \in {"nameservers", "dsData"}

Members(n) == IF Erased(doc.kind[n]) THEN <<>> ELSE doc.members[n]
Projected(n) == 1 .. LimitedSize(Members(n))

ProjectMembers(n, alsoWarned) ==
  LET kind == doc.kind[n]
      items == Members(n)
  IN  /\ members' = members \cup {<<n, i>> : i \in {j \in Projected(n) : Keeps(kind, items[j])}}
      /\ warnings' = warnings \cup alsoWarned \cup TooLong(n, "members", items)
           \cup {<<n, "member", i>> : i \in {j \in Projected(n) : Warns(kind, items[j])}}
      /\ redacted' = (redacted \/ \E i \in Projected(n) :
                                     kind = "remarks" /\ items[i] = "redacted")

-----------------------------------------------------------------------------
Init ==
  /\ doc \in Documents
  /\ pc = "start" /\ at = Root /\ stack = <<>>
  /\ kept = <<>> /\ members = {} /\ warnings = {} /\ redacted = FALSE

(* parse and common_projection: a response of another class is an error,   *)
(* one whose class is missing or of a wrong type is taken for the class    *)
(* that was asked for.                                                     *)
ClassWarnings == IF doc.class \in {"missing", "mistyped"} THEN {<<Root, "class", 0>>} ELSE {}
ConformanceWarnings == IF doc.conformance THEN {} ELSE {<<Root, "conformance", 0>>}

RejectDocument ==
  /\ pc = "start" /\ doc.class \in {"other", "no object"}
  /\ pc' = "failed"
  /\ UNCHANGED <<doc, at, stack, kept, members, warnings, redacted>>

ProjectDocument ==
  /\ pc = "start" /\ doc.class \notin {"other", "no object"}
  /\ ProjectMembers(Root, ClassWarnings \cup ConformanceWarnings)
  /\ pc' = "entities" /\ at' = Root
  /\ UNCHANGED <<doc, stack, kept>>

(* Where entities() returns to: the loop over the enclosing list, or parse *)
(* and, for a network, NetworkRecordParser or AutnumRecordParser.          *)
Resume(frames) ==
  /\ stack' = frames
  /\ pc' = IF frames # <<>> THEN "items" ELSE IF doc.network THEN "range" ELSE "done"

(* entities() up to its loop.  Its depth is the number of lists under way. *)
(* (TooDeepLater: one level more.)                                         *)
TooDeepLater(depth) == depth > MaxDepth
TooDeep(depth) == depth >= MaxDepth

SkipEntities ==
  /\ pc = "entities" /\ (doc.form[at] # "array" \/ TooDeep(Len(stack)))
  /\ warnings' = warnings \cup
       IF doc.form[at] = "absent" THEN {} ELSE {<<at, "entities", 0>>}
  /\ Resume(stack)
  /\ UNCHANGED <<doc, at, kept, members, redacted>>

EnterEntities ==
  /\ pc = "entities" /\ doc.form[at] = "array" /\ ~TooDeep(Len(stack))
  /\ warnings' = warnings \cup TooLong(at, "entities", doc.entities[at])
  /\ stack' = Append(stack, [list |-> at, next |-> 1]) /\ pc' = "items"
  /\ UNCHANGED <<doc, at, kept, members, redacted>>

(* The loop of entities() over the innermost list. *)
Frame == Last(stack)
Listed == doc.entities[Frame.list]
HasItem == pc = "items" /\ stack # <<>> /\ Frame.next <= LimitedSize(Listed)
Item == Listed[Frame.next]
(* (AdvancedPastObjects: only an object moves the loop on.)                *)
AdvancedPastObjects ==
  IF Item \in doc.junk THEN stack ELSE [stack EXCEPT ![Len(stack)].next = @ + 1]
Advanced == [stack EXCEPT ![Len(stack)] = [list |-> @.list, next |-> @.next + 1]]

(* (BudgetLeftAtTop: the budget is looked at for the outermost list only.) *)
BudgetLeftAtTop == Len(kept) < MaxEntities \/ Len(stack) > 1
BudgetLeft == Len(kept) < MaxEntities

StopAtBudget ==
  /\ HasItem /\ ~BudgetLeft
  /\ warnings' = warnings \cup {<<Frame.list, "entities", 0>>}
  /\ Resume(Front(stack))
  /\ UNCHANGED <<doc, at, kept, members, redacted>>

SkipItem ==
  /\ HasItem /\ BudgetLeft /\ Item \in doc.junk
  /\ warnings' = warnings \cup {<<Frame.list, "entity", Frame.next>>}
  /\ stack' = Advanced
  /\ UNCHANGED <<doc, pc, at, kept, members, redacted>>

(* entity() up to its own entities. *)
ProjectEntity ==
  /\ HasItem /\ BudgetLeft /\ Item \notin doc.junk
  /\ kept' = Append(kept, Item) /\ ProjectMembers(Item, {})
  /\ stack' = Advanced /\ at' = Item /\ pc' = "entities"
  /\ UNCHANGED doc

(* (LeaveAllLists: the end of a list ends the lists around it as well.)    *)
LeaveAllLists ==
  /\ pc = "items" /\ stack # <<>> /\ ~HasItem
  /\ Resume(<<>>)
  /\ UNCHANGED <<doc, at, kept, members, warnings, redacted>>
LeaveEntities ==
  /\ pc = "items" /\ stack # <<>> /\ ~HasItem
  /\ Resume(Front(stack))
  /\ UNCHANGED <<doc, at, kept, members, warnings, redacted>>

(* NetworkRecordParser::parse and AutnumRecordParser::parse after          *)
(* common_projection: the ends are read each by itself, then held against  *)
(* each other and against the version.                                     *)
Usable(end) == end.family \notin {"absent", "unusable"}
Disordered(start, end) ==
  Usable(start) /\ Usable(end) /\ (start.family # end.family \/ start.value > end.value)
Disagrees(range) ==
  /\ range.version \in {"v4", "v6"}
  /\ LET family == IF Usable(range.start) THEN range.start.family ELSE range.end.family
     IN  family \in {"v4", "v6"} /\ family # range.version
RangeWarnings(range) ==
  {what \in {"start", "end", "version"} :
     \/ what \in {"start", "end"} /\ range[what].family = "unusable"
     \/ what = "end" /\ Disordered(range.start, range.end)
     \/ what = "version" /\ (range.version = "mistyped" \/ Disagrees(range))}

ProjectRange ==
  /\ pc = "range"
  /\ warnings' = warnings \cup {<<Root, what, 0>> : what \in RangeWarnings(doc.range)}
  /\ pc' = "done"
  /\ UNCHANGED <<doc, at, stack, kept, members, redacted>>

Next ==
  \/ RejectDocument \/ ProjectDocument \/ ProjectRange
  \/ SkipEntities \/ EnterEntities
  \/ StopAtBudget \/ SkipItem \/ ProjectEntity \/ LeaveEntities

(* The projection runs on the worker thread and waits for nothing. *)
Spec == Init /\ [][Next]_vars
FairSpec == Spec /\ WF_vars(Next)

-----------------------------------------------------------------------------
(* Every variable keeps its type, and the recursion and the record keep to *)
(* their bounds, however the response nests and repeats its entities: the  *)
(* budget counts all levels together.                                      *)
Subjects == {"class", "conformance", "member", "members", "entity", "entities",
             "start", "end", "version"}
Frames == [list : Objects, next : Nat \ {0}]
BudgetKept ==
  /\ doc \in DocumentType
  /\ pc \in {"start", "entities", "items", "range", "done", "failed"}
  /\ at \in Objects
  /\ stack \in Seq(Frames) /\ Len(stack) <= MaxDepth
  /\ kept \in Seq(Items) /\ Len(kept) <= MaxEntities
  /\ members \subseteq Objects \X Nat
  /\ warnings \subseteq Objects \X Subjects \X Nat
  /\ redacted \in BOOLEAN

(* README: warnings are shown in the Notices view.  What the response has  *)
(* and the record has not is warned about: at the item, at the list it was *)
(* cut off from, or at the list a parent was cut off from.  Only three are *)
(* passed over without a word: a null among strings, a public id that      *)
(* lacks a member, and what has no place in a contact.  And a network      *)
(* whose range is without a warning has one range that does not end before *)
(* it starts, of the family its version names, as far as the response      *)
(* gives them.                                                             *)
InRecord == ToSet(kept) \cup {Root}
Reported(n, what, list, i) == <<n, what, i>> \in warnings \/ <<n, list, 0>> \in warnings
PassedOver(kind, item) ==
  \/ kind = "strings" /\ item = "null"
  \/ kind = "publicIds" /\ item = "partial"
  \/ kind = "jCard" /\ item = "no place"
IsOneRange(range) ==
  /\ \E family \in {"v4", "v6", "as"} :
       {range.start.family, range.end.family, range.version} \subseteq {family, "absent"}
  /\ range.start.family = range.end.family /\ range.start.family # "absent"
       => range.start.value <= range.end.value
RangeReported ==
  IsOneRange(doc.range) \/ \E what \in {"start", "end", "version"} : <<Root, what, 0>> \in warnings
NothingLostSilently ==
  pc = "done" =>
    /\ \A n \in InRecord :
         /\ \A i \in DOMAIN Members(n) :
              \/ <<n, i>> \in members \/ Reported(n, "member", "members", i)
              \/ PassedOver(doc.kind[n], Members(n)[i])
         /\ \A i \in DOMAIN doc.entities[n] :
              doc.entities[n][i] \in ToSet(kept) \/ Reported(n, "entity", "entities", i)
    /\ doc.network => RangeReported

(* The entities the record can hold: nested less than MaxDepth deep, and   *)
(* within the limit of every list on the way to them.                      *)
ListedIn(d, n) == {d.entities[n][i] : i \in 1 .. LimitedSize(d.entities[n])} \ d.junk
Reachable(d) ==
  LET level[depth \in 0 .. MaxDepth] ==
        IF depth = 0 THEN {Root} ELSE UNION {ListedIn(d, n) : n \in level[depth - 1]}
  IN  level
Eligible == UNION {Reachable(doc)[depth] : depth \in 1 .. MaxDepth}

(* docs/architecture.md: 256 cumulative entities.  The budget goes to the  *)
(* first entities of the document, whatever their depth: an entity is only *)
(* lost to entities that stand before it.                                  *)
FirstComeFirstKept ==
  pc = "done" =>
    /\ \A i, j \in DOMAIN kept : i < j => kept[i] < kept[j]
    /\ ToSet(kept) \subseteq Eligible
    /\ \A lost \in Eligible \ ToSet(kept) :
         Len(kept) = MaxEntities /\ \A n \in ToSet(kept) : n < lost

(* A projection ends, with a record or an error. *)
ProjectionEnds == <>(pc \in {"done", "failed"})

=============================================================================
