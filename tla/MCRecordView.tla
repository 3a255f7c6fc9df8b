---------------------------- MODULE MCRecordView ----------------------------
(***************************************************************************)
(* Small instances of RecordView for TLC: responses of up to N entity      *)
(* items in every nesting.                                                 *)
(***************************************************************************)
EXTENDS RecordView

CONSTANT N

AllItems == 1 .. N

(* The parents of items that are numbered in the order of the document.    *)
Above(parent, n) == LET RECURSIVE Up(_)
                        Up(m) == IF m = Root THEN {Root} ELSE {m} \cup Up(parent[m])
                    IN  Up(n)
Trees == {parent \in [AllItems -> {Root} \cup 1 .. N - 1] :
            /\ \A n \in AllItems : parent[n] = Root \/ parent[n] < n
            /\ \A n \in 2 .. N : parent[n] \in Above(parent, n - 1)}
Children(parent, n) == SelectSeq([m \in AllItems |-> m], LAMBDA m : parent[m] = n)

(* Leaves may be junk; one object carries a collection.                    *)
Shapes == {shape \in [parent : Trees, junk : SUBSET AllItems] :
             \A n \in shape.junk, m \in AllItems : shape.parent[m] # n}
Collections ==
  [kind : {"strings"}, items : {<<"whole">>, <<"null", "whole">>, <<"junk">>}]
  \cup [kind : {"remarks"}, items : {<<"redacted">>, <<"null", "partial", "mistyped">>}]

End(family, value) == [family |-> family, value |-> value]
RangeOf(start, end, version) == [start |-> start, end |-> end, version |-> version]
NoRange == RangeOf(End("absent", 0), End("absent", 0), "absent")

Document(class, network, conformance, form, parent, junk, carrier, collection) ==
  [class |-> class, network |-> network, range |-> NoRange, conformance |-> conformance,
   form |-> [n \in Objects |->
               IF \E m \in AllItems : parent[m] = n THEN "array" ELSE form],
   entities |-> [n \in Objects |-> Children(parent, n)],
   junk |-> junk,
   kind |-> [n \in Objects |-> IF n = carrier THEN collection.kind ELSE "events"],
   members |-> [n \in Objects |-> IF n = carrier THEN collection.items ELSE <<>>]]

Nested ==
  {Document("expected", FALSE, TRUE, form, shape.parent, shape.junk, carrier, collection) :
     form \in {"absent", "array"}, shape \in Shapes,
     carrier \in {Root, 1, 3}, collection \in Collections}

(* Every object carries the collection. *)
Filled ==
  {[Document("expected", FALSE, TRUE, "absent", parent, {}, Root, collection) EXCEPT
      !.kind = [n \in Objects |-> collection.kind],
      !.members = [n \in Objects |-> collection.items]] :
     parent \in Trees, collection \in Collections}

(* One item of every kind and class, up to the limit and beyond. *)
Mixed == {collection \in [kind : Kinds, items : UNION {[1 .. m -> Classes] : m \in 1 .. MaxItems + 1}] :
            ToSet(collection.items) \subseteq ClassesOf(collection.kind)}
Flat ==
  {Document("expected", network, TRUE, "mistyped", [n \in AllItems |-> Root], {2},
            IF mixed.kind \in KindsOfRoot THEN Root ELSE 1, mixed) :
     network \in BOOLEAN, mixed \in Mixed}

Responses ==
  {Document(class, network, conformance, form, [n \in AllItems |-> Root], {}, 1,
            [kind |-> "strings", items |-> <<"whole">>]) :
     class \in {"expected", "other", "missing", "mistyped", "no object"},
     network \in BOOLEAN, conformance \in BOOLEAN, form \in Forms}

(* Every range over two values, of addresses and of AS numbers. *)
SmallEnds(families) ==
  {End("absent", 0), End("unusable", 0)} \cup {End(family, value) : family \in families, value \in 1 .. 2}
SmallRanges ==
  {RangeOf(start, end, version) : start \in SmallEnds({"v4", "v6"}), end \in SmallEnds({"v4", "v6"}),
                                 version \in {"absent", "v4", "v6", "mistyped"}}
  \cup {RangeOf(start, end, "absent") : start \in SmallEnds({"as"}), end \in SmallEnds({"as"})}
Networks ==
  {[Document("expected", TRUE, TRUE, "absent", [n \in AllItems |-> Root], {}, 1,
             [kind |-> "strings", items |-> <<"whole">>]) EXCEPT !.range = range] :
     range \in SmallRanges}

AllDocuments == Nested \cup Filled \cup Flat \cup Responses \cup Networks
=============================================================================
