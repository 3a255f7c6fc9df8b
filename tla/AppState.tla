------------------------------ MODULE AppState ------------------------------
(***************************************************************************)
(* The saved queries of app_state.cpp: the history and the favorites, what *)
(* a lookup and the `f' key do to them, and what reading state.json back   *)
(* gives.  A query is a member of Texts; Canonical is what                 *)
(* normalize_stored_query makes of it (None when the parser rejects it).  *)
(***************************************************************************)
EXTENDS Integers, Sequences, FiniteSets, SequencesExt

CONSTANTS
  Texts,         \* the query texts considered, as typed or as stored
  None,          \* std::nullopt: no query, or a text the parser rejects
  Canonical,     \* ResourceQueryParser::parse followed by query_text
  HistoryLimit   \* AppConfig::history_limit, read once by main

(* One parse reaches the canonical form or a text that no longer parses:   *)
(* "as." is the domain "as", and "as" alone is a malformed AS number.      *)
ASSUME CanonicalAssumption ==
  /\ None \notin Texts
  /\ Canonical \in [Texts -> Texts \cup {None}]
  /\ \A t \in Texts : Canonical[t] # None =>
                        Canonical[Canonical[t]] \in {Canonical[t], None}

ASSUME HistoryLimitAssumption == HistoryLimit \in Nat

AppStates == [history : Seq(Texts), favorites : Seq(Texts)]

(* normalize_stored_query.  The empty input is None and parses to nothing. *)
Normalize(t) == IF t = None THEN None ELSE Canonical[t]

(* A canonical text that parses to itself survives being stored.           *)
Stable(t) == Normalize(t) = t

NoDuplicates(s) == \A i, j \in DOMAIN s : s[i] = s[j] => i = j

(* std::find: the position of t in a list that holds it. *)
PositionOf(s, t) == CHOOSE i \in DOMAIN s : s[i] = t

(* Erasing t.  Every list here holds a query at most once, so that         *)
(* std::remove over the whole list and erase at one position agree.        *)
(* (KeepsOld: nothing is erased.)                                          *)
KeepsOld(s, t) == s
Without(s, t) == IF t \in ToSet(s) THEN RemoveAt(s, PositionOf(s, t)) ELSE s

(* resize(limit) on a list longer than limit. *)
Truncate(s, limit) == IF Len(s) > limit THEN SubSeq(s, 1, limit) ELSE s

-----------------------------------------------------------------------------
(* add_history.  The query is normalized again: one that no longer parses  *)
(* leaves the history alone.  With a limit of 0 the query is only removed. *)
(* (AppendHistory: the newest query comes last.)                           *)
AppendHistory(app, query) ==
  LET stored == Normalize(query)
      others == Without(app.history, stored)
  IN  IF stored = None THEN app
      ELSE [app EXCEPT !.history = Truncate(Append(others, stored), HistoryLimit)]
AddHistory(app, query) ==
  LET stored == Normalize(query)
      others == Without(app.history, stored)
  IN  IF stored = None THEN app
      ELSE [app EXCEPT !.history =
              IF HistoryLimit = 0 THEN others
              ELSE Truncate(<<stored>> \o others, HistoryLimit)]

(* toggle_favorite: add at the end, or erase. *)
ToggleFavorite(app, query) ==
  LET stored == Normalize(query)
  IN  IF stored = None THEN app
      ELSE [app EXCEPT !.favorites =
              IF stored \in ToSet(app.favorites) THEN Without(app.favorites, stored)
              ELSE Append(app.favorites, stored)]

(* What toggle_favorite returns. *)
AddsFavorite(app, query) ==
  Normalize(query) # None /\ Normalize(query) \notin ToSet(app.favorites)

-----------------------------------------------------------------------------
(* normalized_queries_from_json keeps an entry that parses and whose       *)
(* canonical form no earlier entry has, in the order of the file.          *)
Kept(s) ==
  {i \in DOMAIN s : /\ Canonical[s[i]] # None
                    /\ \A j \in 1 .. i - 1 : Canonical[s[j]] # Canonical[s[i]]}

Rank(s, i) == Cardinality(Kept(s) \cap (1 .. i))

Normalized(s) ==
  [k \in 1 .. Cardinality(Kept(s)) |->
     Canonical[s[CHOOSE i \in Kept(s) : Rank(s, i) = k]]]

(* AppStateStore::read of the arrays a write stored. *)
ReadBack(stored) == [history   |-> Normalized(stored.history),
                     favorites |-> Normalized(stored.favorites)]

=============================================================================
