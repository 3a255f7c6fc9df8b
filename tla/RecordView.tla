----------------------------- MODULE RecordView -----------------------------
(***************************************************************************)
(* What the user sees of a response: the views that                        *)
(* domain_view_formatter.cpp and network_view_formatter.cpp make of the    *)
(* record, and what they must tell of the response behind it.  A line is   *)
(* named by what it shows; most of them are left out.                      *)
(***************************************************************************)
EXTENDS RecordProjection

(* Of an entity whose collection is one of strings these are its roles,    *)
(* and "registrar" the whole one; for the others the roles are others.     *)
HasMember(n, kind) == doc.kind[n] = kind /\ \E i \in DOMAIN Members(n) : <<n, i>> \in members
IsRegistrar(n) == HasMember(n, "strings")

(* The entities of an object of the record are those of its list that were *)
(* kept: an item that is not in the record adds nothing to a view.         *)
Kept(n) == n \in ToSet(kept)

(* find_registrar: the first in depth-first order; <<>> for nullptr.       *)
(* (FindOnTopLevel: the nested entities are not looked at.)                *)
FirstOf(found) ==
  LET hits == {i \in DOMAIN found : found[i] # <<>>}
  IN  IF hits = {} THEN <<>> ELSE found[Min(hits)]
FindOnTopLevel(list) ==
  FirstOf([i \in DOMAIN list |-> IF Kept(list[i]) /\ IsRegistrar(list[i]) THEN <<list[i]>> ELSE <<>>])
FindRegistrar(list) ==
  LET found[n \in Items] ==
        IF ~Kept(n) THEN <<>>
        ELSE IF IsRegistrar(n) THEN <<n>>
        ELSE FirstOf([i \in DOMAIN doc.entities[n] |-> found[doc.entities[n][i]]])
  IN  FirstOf([i \in DOMAIN list |-> found[list[i]]])

(* append_entity: an entity, indented by its depth, before those in it. *)
Line(n, depth) == [entity |-> n, indent |-> depth]
EntityLines(entity, atDepth) ==
  LET lines[p \in Items \X Nat] ==
        LET n == p[1]  depth == p[2]
        IN  IF ~Kept(n) THEN <<>>
            ELSE <<Line(n, depth)>> \o FlattenSeq([i \in DOMAIN doc.entities[n] |->
                                                    lines[<<doc.entities[n][i], depth + 1>>]])
  IN  lines[<<entity, atDepth>>]

(* append_text_blocks and append_scoped_remarks. *)
TextBlocks(n) ==
  IF doc.kind[n] # "remarks" THEN <<>>
  ELSE FlattenSeq([i \in DOMAIN Members(n) |-> IF <<n, i>> \in members THEN <<<<n, i>>>> ELSE <<>>])
ScopedRemarks(object) ==
  LET remarks[n \in Objects] ==
        IF n \notin InRecord THEN <<>>
        ELSE TextBlocks(n) \o FlattenSeq([i \in DOMAIN doc.entities[n] |-> remarks[doc.entities[n][i]]])
  IN  remarks[object]

(* DomainViewFormatter::format, and common_views for networks, which show  *)
(* no registrar.  The notices open with a heading; a list of notices that  *)
(* has nothing else says "None".                                           *)
Overview ==
  [registrar |-> IF doc.network THEN <<>> ELSE FindRegistrar(doc.entities[Root]),
   disclosure |-> redacted, problems |-> warnings # {}]
Contacts == FlattenSeq([i \in DOMAIN doc.entities[Root] |-> EntityLines(doc.entities[Root][i], 0)])
Notices ==
  [disclosure |-> redacted,
   remarks |-> ScopedRemarks(Root),
   links |-> HasMember(Root, "links"),
   problems |-> warnings]
SaysNone == Notices = [disclosure |-> FALSE, remarks |-> <<>>, links |-> FALSE, problems |-> {}]

-----------------------------------------------------------------------------
(* Registrar, contacts and remarks of the record are shown completely and  *)
(* in the order of the document: the registrar is the first one, every     *)
(* entity stands once among the contacts under the one it belongs to,      *)
(* every remark stands once among the notices, those of an entity together *)
(* and before those of the next one, and "None" means that there are no    *)
(* remarks.  A registrar of the response that the record has lost is not   *)
(* just "Not provided": the overview tells that there were problems.       *)
(* (No view shows the statuses and the links of entities.)                 *)
InResponse(n) ==
  \A closed \in SUBSET Objects :
    /\ Root \in closed
    /\ \A m \in closed \ doc.junk : ToSet(doc.entities[m]) \subseteq closed
    => n \in closed
ResponseNamesRegistrar ==
  \E n \in Items \ doc.junk :
    InResponse(n) /\ doc.kind[n] = "strings" /\ "whole" \in ToSet(doc.members[n])
Registrars == {n \in ToSet(kept) : IsRegistrar(n)}
DepthOf(n) == (CHOOSE d \in 1 .. MaxDepth : n \in Reachable(doc)[d]) - 1
StandsBefore(m, k) ==
  \/ m[1] = k[1] /\ m[2] < k[2]
  \/ m[1] # k[1] /\ (m[1] = Root \/ (k[1] # Root /\ m[1] < k[1]))
ViewsShowTheRecord ==
  pc = "done" =>
    /\ ~doc.network =>
         \/ Registrars = {} /\ Overview.registrar = <<>>
         \/ \E first \in Registrars :
              Overview.registrar = <<first>> /\ \A n \in Registrars : first <= n
    /\ [i \in DOMAIN Contacts |-> <<Contacts[i].entity, Contacts[i].indent>>]
         = [i \in DOMAIN kept |-> <<kept[i], DepthOf(kept[i])>>]
    /\ LET remarks == Notices.remarks
       IN  /\ ToSet(remarks) = {m \in members : doc.kind[m[1]] = "remarks"}
           /\ \A i, j \in DOMAIN remarks : i < j => StandsBefore(remarks[i], remarks[j])
    /\ SaysNone => /\ ~Overview.disclosure /\ ~Overview.problems
                   /\ \A n \in InRecord : ~HasMember(n, "remarks")
    /\ ResponseNamesRegistrar /\ Registrars = {} => Overview.problems

=============================================================================
