-------------------------- MODULE TuiSessionProofs --------------------------
(***************************************************************************)
(* Theorems about TuiSession, for every set of texts, every parser, every  *)
(* history limit, every set of keys and every backlog.                     *)
(***************************************************************************)
EXTENDS TuiSession, FiniteSetTheorems, SequenceTheorems, TLAPS

-----------------------------------------------------------------------------
(* The lists of AppState, for every set of texts, every parser and every   *)
(* history limit the assumptions of AppState allow.                        *)

(* A normalized query is a text or none, whatever was typed. *)
LEMMA NormalizeType ==
  ASSUME NEW t \in Texts \cup {None}
  PROVE  Normalize(t) \in Texts \cup {None}
BY CanonicalAssumption DEF Normalize

(* Erasing a query shortens a list by at most one entry. *)
LEMMA WithoutType ==
  ASSUME NEW s \in Seq(Texts), NEW t
  PROVE  /\ Without(s, t) \in Seq(Texts)
         /\ Len(Without(s, t)) \in {Len(s), Len(s) - 1}
<1>1. CASE t \notin ToSet(s)
  BY <1>1 DEF Without
<1>2. CASE t \in ToSet(s)
  <2> DEFINE p == PositionOf(s, t)
  <2>1. \E i \in DOMAIN s : s[i] = t
    BY <1>2 DEF ToSet
  <2>2. p \in 1 .. Len(s)
    BY <2>1 DEF PositionOf
  <2>3. Without(s, t) = SubSeq(s, 1, p - 1) \o SubSeq(s, p + 1, Len(s))
    BY <1>2 DEF Without, RemoveAt
  <2> HIDE DEF p
  <2> DEFINE before == SubSeq(s, 1, p - 1)
             after  == SubSeq(s, p + 1, Len(s))
  <2>4. before \in Seq(Texts) /\ Len(before) = p - 1
    BY <2>2
  <2>5. after \in Seq(Texts) /\ Len(after) = Len(s) - p
    BY <2>2
  <2>6. Without(s, t) = before \o after
    BY <2>3
  <2> HIDE DEF before, after
  <2> QED
    BY <2>2, <2>4, <2>5, <2>6, SMTT(30)
<1> QED
  BY <1>1, <1>2

(* Truncating keeps a list within the limit and never shortens one that    *)
(* was. *)
LEMMA TruncateType ==
  ASSUME NEW s \in Seq(Texts), NEW limit \in Nat
  PROVE  /\ Truncate(s, limit) \in Seq(Texts)
         /\ Len(Truncate(s, limit)) = IF Len(s) > limit THEN limit ELSE Len(s)
BY DEF Truncate

(* add_history keeps the state well typed and the favorites as they are;   *)
(* a history within a non-zero limit stays within it and never shrinks.    *)
LEMMA AddHistoryType ==
  ASSUME NEW st \in AppStates, NEW q \in Texts \cup {None}
  PROVE  /\ AddHistory(st, q) \in AppStates
         /\ Len(st.history) <= HistoryLimit =>
              Len(AddHistory(st, q).history) <= HistoryLimit
         /\ Len(st.history) <= HistoryLimit =>
              Len(AddHistory(st, q).history) >= Len(st.history)
<1> DEFINE stored == Normalize(q)
           others == Without(st.history, stored)
<1>1. CASE stored = None
  BY <1>1 DEF AddHistory
<1>2. CASE stored # None
  <2>1. stored \in Texts
    BY <1>2, NormalizeType
  <2>2. st.history \in Seq(Texts) /\ st.favorites \in Seq(Texts)
    BY DEF AppStates
  <2>3. others \in Seq(Texts) /\ Len(others) \in {Len(st.history), Len(st.history) - 1}
    BY <2>2, WithoutType
  <2> DEFINE new == IF HistoryLimit = 0 THEN others
                    ELSE Truncate(<<stored>> \o others, HistoryLimit)
  <2>4. AddHistory(st, q) = [st EXCEPT !.history = new]
    BY <1>2 DEF AddHistory
  <2>5. HistoryLimit \in Nat
    BY HistoryLimitAssumption
  <2> HIDE DEF stored, others
  <2>6. <<stored>> \o others \in Seq(Texts) /\ Len(<<stored>> \o others) = Len(others) + 1
    BY <2>1, <2>3
  <2>7. /\ new \in Seq(Texts)
        /\ Len(st.history) <= HistoryLimit =>
             Len(new) <= HistoryLimit /\ Len(new) >= Len(st.history)
    <3>1. CASE HistoryLimit = 0
      BY <3>1, <2>2, <2>3
    <3>2. CASE HistoryLimit # 0
      <4> DEFINE longer == <<stored>> \o others
      <4>1. new = Truncate(longer, HistoryLimit)
        BY <3>2
      <4>2. longer \in Seq(Texts) /\ Len(longer) = Len(others) + 1
        BY <2>6
      <4> HIDE DEF longer, new
      <4>3. /\ new \in Seq(Texts)
            /\ Len(new) = IF Len(longer) > HistoryLimit THEN HistoryLimit ELSE Len(longer)
        BY <4>1, <4>2, <2>5, TruncateType
      <4> QED
        BY <4>2, <4>3, <2>2, <2>3, <2>5
    <3> QED
      BY <3>1, <3>2
  <2> HIDE DEF new
  <2> QED
    BY <2>2, <2>4, <2>7 DEF AppStates
<1> QED
  BY <1>1, <1>2

(* toggle_favorite keeps the state well typed and leaves the history alone. *)
LEMMA ToggleFavoriteType ==
  ASSUME NEW st \in AppStates, NEW q \in Texts \cup {None}
  PROVE  /\ ToggleFavorite(st, q) \in AppStates
         /\ ToggleFavorite(st, q).history = st.history
<1>1. CASE Normalize(q) = None
  BY <1>1 DEF ToggleFavorite
<1>2. CASE Normalize(q) # None
  <2>1. Normalize(q) \in Texts
    BY <1>2, NormalizeType
  <2>2. st.history \in Seq(Texts) /\ st.favorites \in Seq(Texts)
    BY DEF AppStates
  <2>3. /\ Without(st.favorites, Normalize(q)) \in Seq(Texts)
        /\ Append(st.favorites, Normalize(q)) \in Seq(Texts)
    BY <2>1, <2>2, WithoutType
  <2> DEFINE new == IF Normalize(q) \in ToSet(st.favorites)
                    THEN Without(st.favorites, Normalize(q))
                    ELSE Append(st.favorites, Normalize(q))
  <2>4. ToggleFavorite(st, q) = [st EXCEPT !.favorites = new]
    BY <1>2 DEF ToggleFavorite
  <2>5. new \in Seq(Texts)
    BY <2>3
  <2> HIDE DEF new
  <2> QED
    BY <2>2, <2>4, <2>5 DEF AppStates
<1> QED
  BY <1>1, <1>2

-----------------------------------------------------------------------------
(* The positions that are kept can be numbered from 1 without a gap.       *)
LEMMA RankIsNumbering ==
  ASSUME NEW s \in Seq(Texts)
  PROVE  /\ Cardinality(Kept(s)) \in 0 .. Len(s)
         /\ \A k \in 1 .. Cardinality(Kept(s)) : \E i \in Kept(s) : Rank(s, i) = k
<1> DEFINE n == Cardinality(Kept(s))
           rank == [i \in Kept(s) |-> Rank(s, i)]
<1>1. Kept(s) \subseteq 1 .. Len(s)
  BY DEF Kept
<1>2. IsFiniteSet(Kept(s)) /\ n \in 0 .. Len(s)
  <2>1. Len(s) \in Nat
    OBVIOUS
  <2>2. IsFiniteSet(1 .. Len(s)) /\ Cardinality(1 .. Len(s)) = Len(s)
    BY <2>1, FS_Interval, SMTT(30)
  <2>3. IsFiniteSet(Kept(s)) /\ n <= Len(s)
    BY <1>1, <2>2, FS_Subset
  <2>4. n \in Nat
    BY <2>3, FS_CardinalityType
  <2> QED
    BY <2>1, <2>3, <2>4
<1>3. ASSUME NEW i \in Kept(s)
      PROVE  /\ IsFiniteSet(Kept(s) \cap (1 .. i)) /\ i \in Kept(s) \cap (1 .. i)
             /\ Rank(s, i) \in 1 .. n
  <2>1. /\ IsFiniteSet(Kept(s) \cap (1 .. i)) /\ Rank(s, i) <= n /\ Rank(s, i) \in Nat
    BY <1>2, FS_Subset, FS_CardinalityType DEF Rank
  <2>2. i \in Kept(s) \cap (1 .. i)
    BY <1>1
  <2>3. Rank(s, i) # 0
    BY <2>1, <2>2, FS_EmptySet DEF Rank
  <2> QED
    BY <2>1, <2>2, <2>3, <1>2
<1>4. ASSUME NEW i \in Kept(s), NEW j \in Kept(s), i < j
      PROVE  Rank(s, i) # Rank(s, j)
  <2>1. i \in Int /\ j \in Int
    BY <1>1
  <2>2. Kept(s) \cap (1 .. i) \subseteq Kept(s) \cap (1 .. j)
    BY <1>4, <2>1
  <2>3. j \notin 1 .. i
    BY <1>4, <2>1
  <2>4. IsFiniteSet(Kept(s) \cap (1 .. j)) /\ j \in Kept(s) \cap (1 .. j)
    BY <1>3
  <2> QED
    BY <2>2, <2>3, <2>4, FS_Subset DEF Rank
<1>5. rank \in Injection(Kept(s), 1 .. n)
  <2>1. rank \in [Kept(s) -> 1 .. n]
    BY <1>3
  <2>2. ASSUME NEW i \in Kept(s), NEW j \in Kept(s), rank[i] = rank[j]
        PROVE  i = j
    BY <2>2, <1>1, <1>4
  <2> QED
    BY <2>1, <2>2 DEF Injection, IsInjective
<1>6. rank \in Surjection(Kept(s), 1 .. n)
  <2>1. IsFiniteSet(1 .. n) /\ Cardinality(1 .. n) = n
    BY <1>2, FS_Interval
  <2> HIDE DEF rank
  <2> QED
    BY <2>1, <1>5, FS_Injection
<1> QED
  BY <1>2, <1>6 DEF Surjection

(* What is read back is a list of texts without duplicates, whatever       *)
(* strings the file holds.                                                 *)
LEMMA NormalizedType ==
  ASSUME NEW s \in Seq(Texts)
  PROVE  /\ Normalized(s) \in Seq(Texts) /\ NoDuplicates(Normalized(s))
         /\ Len(Normalized(s)) <= Len(s)
<1> DEFINE n == Cardinality(Kept(s))
           At(k) == CHOOSE i \in Kept(s) : Rank(s, i) = k
<1>1. n \in 0 .. Len(s)
  BY RankIsNumbering
<1>2. ASSUME NEW k \in 1 .. n
      PROVE  At(k) \in Kept(s) /\ Rank(s, At(k)) = k
  BY RankIsNumbering
<1>3. ASSUME NEW i \in Kept(s)
      PROVE  i \in 1 .. Len(s) /\ Canonical[s[i]] \in Texts
  BY CanonicalAssumption DEF Kept
<1>4. ASSUME NEW i \in Kept(s), NEW j \in Kept(s), Canonical[s[i]] = Canonical[s[j]]
      PROVE  i = j
  <2>1. i \in 1 .. Len(s) /\ j \in 1 .. Len(s)
    BY <1>3
  <2>2. ~(i < j) /\ ~(j < i)
    BY <1>4, <2>1 DEF Kept
  <2> QED
    BY <2>1, <2>2
<1>5. Normalized(s) = [k \in 1 .. n |-> Canonical[s[At(k)]]]
  BY DEF Normalized
<1> HIDE DEF n, At
<1>6. Normalized(s) \in [1 .. n -> Texts]
  BY <1>2, <1>3, <1>5
<1>7. /\ Normalized(s) \in Seq(Texts) /\ DOMAIN Normalized(s) = 1 .. n
      /\ Len(Normalized(s)) = n
  BY <1>1, <1>6
<1>8. ASSUME NEW k \in 1 .. n, NEW l \in 1 .. n, Normalized(s)[k] = Normalized(s)[l]
      PROVE  k = l
  <2>1. Canonical[s[At(k)]] = Canonical[s[At(l)]]
    BY <1>5, <1>8
  <2>2. At(k) = At(l)
    BY <2>1, <1>2, <1>4
  <2> QED
    BY <2>2, <1>2
<1> QED
  BY <1>1, <1>7, <1>8 DEF NoDuplicates

(* Hence AppStateStore::read yields a state the session can work with.     *)
LEMMA ReadBackType ==
  ASSUME NEW st \in AppStates
  PROVE  ReadBack(st) \in AppStates /\ Len(ReadBack(st).history) <= Len(st.history)
BY NormalizedType DEF ReadBack, AppStates

-----------------------------------------------------------------------------
(* The session.                                                            *)

LEMMA EmptyStateType == NoAppState \in AppStates /\ Len(NoAppState.history) = 0
BY DEF NoAppState, AppStates

(* What a file that was stored or read may be. *)
LEMMA StoreType ==
  ASSUME NEW a \in AppStates, file \in AppStates
  PROVE  /\ \A f \in StoredFiles(a) : f \in AppStates
         /\ Loaded(file) \in AppStates
         /\ SavedList(a) \in Seq(Texts)
<1>2. NoAppState \in AppStates
  BY DEF NoAppState, AppStates
<1>1. \A f \in StoredFiles(a) : f \in AppStates
  BY <1>2 DEF StoredFiles, LostFiles
<1>3. Loaded(file) \in AppStates
  BY <1>2, ReadBackType DEF Loaded
<1>4. SavedList(a) \in Seq(Texts)
  BY DEF SavedList, AppStates
<1> QED
  BY <1>1, <1>3, <1>4

(* The screens the handlers build. *)
LEMMA ScreenType ==
  ASSUME NEW q \in Texts \cup {None}, NEW projected \in BOOLEAN
  PROVE  /\ Welcome \in Screens /\ WaitingScreen \in Screens /\ ErrorScreen \in Screens
         /\ SuccessScreen(q, projected) \in Screens
BY DEF Welcome, WaitingScreen, ErrorScreen, SuccessScreen, Screen, Screens, Pane, PaneOf, Panes,
       Sections, OverviewSection, SavedSection, JsonSection

(* Every step of the worker keeps it, the slots and the queue well typed. *)
LEMMA WorkerStepType ==
  ASSUME TypeOK, WorkerStep
  PROVE  /\ worker' \in [pc : WorkerPcs, query : Texts \cup {None}, outcome : Outcomes]
         /\ pending' \in [stage : {"none", "loading_bootstrap", "querying"},
                          result : [query : Texts \cup {None}, outcome : Outcomes]]
         /\ tasks' \in Seq({"custom", "exit"})
<1>1. CASE \/ ReportStage("loading", "loading_bootstrap", "post_loading")
           \/ ReportStage("querying", "querying", "post_querying")
  BY <1>1 DEF ReportStage, Goto, WorkerPcs, TypeOK
<1>2. CASE \/ PostUpdate("post_loading", "bootstrap")
           \/ PostUpdate("post_querying", "query")
           \/ PostUpdate("post_result", "done")
  <2>1. tasks' \in {tasks, Append(tasks, "custom")}
    BY <1>2 DEF PostUpdate, Post
  <2>2. tasks \in Seq({"custom", "exit"})
    BY DEF TypeOK
  <2>3. tasks' \in Seq({"custom", "exit"})
    BY <2>1, <2>2
  <2> QED
    BY <1>2, <2>3 DEF PostUpdate, Goto, WorkerPcs, TypeOK
<1>3. CASE ResolveServices
  BY <1>3 DEF ResolveServices, Goto, WorkerPcs, Outcomes, TypeOK
<1>4. CASE QueryServices
  BY <1>4 DEF QueryServices, WorkerPcs, TypeOK
<1>5. CASE PublishResult
  BY <1>5 DEF PublishResult, Goto, WorkerPcs, TypeOK
<1> QED
  BY <1>1, <1>2, <1>3, <1>4, <1>5 DEF WorkerStep

-----------------------------------------------------------------------------
LEMMA InitType == Init => TypeOK
<1> SUFFICES ASSUME Init PROVE TypeOK
  OBVIOUS
<1>1. file \in AppStates
  BY InitialFilesAssumption DEF Init
<1>2. app \in AppStates
  BY <1>1, StoreType DEF Init
<1>3. saved \in Seq(Texts)
  BY <1>1, <1>2, StoreType DEF Init
<1>4. screen \in Screens
  BY ScreenType DEF Init
<1>5. /\ worker \in [pc : WorkerPcs, query : Texts \cup {None}, outcome : Outcomes]
      /\ pending \in [stage : {"none", "loading_bootstrap", "querying"},
                      result : [query : Texts \cup {None}, outcome : Outcomes]]
      /\ browse \in [index : Nat \cup {None}, draft : Texts \cup {None}]
  BY DEF Init, NoWorker, NoPending, NoResult, NotBrowsing, WorkerPcs, Outcomes
<1>6. tasks \in Seq({"custom", "exit"})
  BY DEF Init
<1> QED
  BY <1>1, <1>2, <1>3, <1>4, <1>5, <1>6 DEF Init, TypeOK, StorageMessages

(* A text the history is asked for is a text. *)
LEMMA EntryType ==
  ASSUME TypeOK, NEW i \in Nat
  PROVE  \A t \in EntryAt(i) : t \in Texts \cup {None}
BY DEF TypeOK, EntryAt, AppStates

(* start_lookup up to the join. *)
LEMMA StartLookupType ==
  ASSUME TypeOK, NEW text, StartLookup(text)
  PROVE  /\ ui' \in {"loop", "joining", "stopping", "exited"}
         /\ browse' \in [index : Nat \cup {None}, draft : Texts \cup {None}]
         /\ screen' \in Screens
<1>1. ErrorScreen \in Screens
  BY ScreenType
<1> QED
  BY <1>1 DEF TypeOK, StartLookup

(* Up and Down, which put an entry of the history into the input. *)
LEMMA BrowseType ==
  ASSUME TypeOK, BrowseUp \/ BrowseDown
  PROVE  /\ browse' \in [index : Nat \cup {None}, draft : Texts \cup {None}]
         /\ input' \in Texts \cup {None}
<1>1. /\ browse \in [index : Nat \cup {None}, draft : Texts \cup {None}]
      /\ input \in Texts \cup {None} /\ Len(app.history) \in Nat
  BY DEF TypeOK, AppStates
<1>2. CASE BeginBrowsing
  BY <1>1, <1>2, EntryType DEF BeginBrowsing
<1>3. ASSUME NEW i \in Nat, ShowEntry(i)
      PROVE  /\ browse' \in [index : Nat \cup {None}, draft : Texts \cup {None}]
             /\ input' \in Texts \cup {None}
  BY <1>1, <1>3, EntryType DEF ShowEntry
<1>4. CASE BrowseUp
  <2>1. BeginBrowsing \/ \E i \in Nat : ShowEntry(i)
    BY <1>1, <1>4 DEF BrowseUp, HasOlder
  <2> QED
    BY <1>2, <1>3, <2>1
<1>5. CASE BrowseDown
  <2>1. CASE browse.index = 0 /\ browse' = [browse EXCEPT !.index = None] /\ input' = browse.draft
    BY <1>1, <2>1
  <2>2. CASE browse.index \notin {None, 0} /\ ShowEntry(browse.index - 1)
    <3>1. browse.index - 1 \in Nat
      BY <1>1, <2>2
    <3> QED
      BY <1>3, <2>2, <3>1
  <2> QED
    BY <1>2, <1>5, <2>1, <2>2 DEF BrowseDown
<1> QED
  BY <1>4, <1>5

LEMMA NextType == TypeOK /\ [Next]_vars => TypeOK'
<1> SUFFICES ASSUME TypeOK, [Next]_vars PROVE TypeOK'
  OBVIOUS
<1> USE DEF TypeOK, loopVars, workVars, savedVars
<1>1. CASE UNCHANGED vars
  BY <1>1 DEF vars
<1>2. ASSUME NEW t \in Texts \cup {None}, Type(t) PROVE TypeOK'
  BY <1>2 DEF Type
<1>3. ASSUME NEW s \in Sections, ShowSection(s) PROVE TypeOK'
  <2>1. screen' \in Screens
    BY <1>3 DEF ShowSection, Screens
  <2> QED
    BY <1>3, <2>1 DEF ShowSection
<1>4. CASE Search
  BY <1>4, StartLookupType DEF Search, StartLookup
<1>5. CASE OpenSaved
  <2>1. PICK i \in DOMAIN saved : input' = saved[i] /\ StartLookup(saved[i])
    BY <1>5 DEF OpenSaved
  <2>2. saved[i] \in Texts
    OBVIOUS
  <2> QED
    BY <2>1, <2>2, StartLookupType DEF StartLookup
<1>6. CASE BrowseUp
  BY <1>6, BrowseType DEF BrowseUp
<1>7. CASE BrowseDown
  BY <1>7, BrowseType DEF BrowseDown
<1>8. CASE ToggleCurrentFavorite
  <2>1. CASE FavoriteTarget = None
    BY <1>8, <2>1 DEF ToggleCurrentFavorite, StorageMessages
  <2>2. CASE FavoriteTarget # None
    <3>1. FavoriteTarget \in Texts \cup {None}
      BY NormalizeType DEF FavoriteTarget
    <3>2. app' \in AppStates
      BY <1>8, <2>2, <3>1, ToggleFavoriteType DEF ToggleCurrentFavorite
    <3>3. file' \in AppStates /\ saved' \in Seq(Texts)
      BY <1>8, <2>2, <3>2, StoreType DEF ToggleCurrentFavorite
    <3> QED
      BY <1>8, <2>2, <3>2, <3>3 DEF ToggleCurrentFavorite, StorageMessages
  <2> QED
    BY <2>1, <2>2
<1>9. CASE Quit
  BY <1>9 DEF Quit, Post
<1>10. CASE BeginLookup
  <2>1. Normalize(input) \in Texts \cup {None}
    BY NormalizeType
  <2>2. screen' \in Screens
    BY <1>10, ScreenType DEF BeginLookup
  <2>3. worker' \in [pc : WorkerPcs, query : Texts \cup {None}, outcome : Outcomes]
    BY <1>10, <2>1 DEF BeginLookup, WorkerPcs, Outcomes
  <2> QED
    BY <1>10, <2>2, <2>3 DEF BeginLookup
<1>11. CASE ConsumeWorkerUpdate
  <2>1. tasks' \in Seq({"custom", "exit"})
    BY <1>11 DEF ConsumeWorkerUpdate
  <2>2. pending' \in [stage : {"none", "loading_bootstrap", "querying"},
                     result : [query : Texts \cup {None}, outcome : Outcomes]]
    BY <1>11 DEF ConsumeWorkerUpdate, EmptySlots, NoPending, NoResult, Outcomes
  <2>3. CASE pending.result.outcome = "none" /\ ShowStage(pending.stage)
                /\ UNCHANGED <<savedVars, lastSuccess>>
    <3>1. screen' \in Screens
      BY <2>3 DEF ShowStage, Screens
    <3> QED
      BY <1>11, <2>1, <2>2, <2>3, <3>1 DEF ConsumeWorkerUpdate
  <2>4. CASE screen' = ErrorScreen /\ UNCHANGED <<savedVars, lastSuccess>>
    BY <1>11, <2>1, <2>2, <2>4, ScreenType DEF ConsumeWorkerUpdate
  <2>5. CASE ShowSuccess(pending.result.query, pending.result.outcome = "response")
    <3> DEFINE q == pending.result.query
    <3>1. q \in Texts \cup {None} /\ (pending.result.outcome = "response") \in BOOLEAN
      OBVIOUS
    <3>2. screen' \in Screens /\ lastSuccess' \in Texts \cup {None}
      BY <2>5, <3>1, ScreenType DEF ShowSuccess
    <3>3. app' \in AppStates
      BY <2>5, <3>1, AddHistoryType DEF ShowSuccess, Persist
    <3>4. file' \in AppStates /\ saved' \in Seq(Texts) /\ storage' \in StorageMessages
      BY <2>5, <3>3, StoreType, EmptyStateType
      DEF ShowSuccess, Persist, LostFiles, StorageMessages
    <3> QED
      BY <1>11, <2>1, <2>2, <3>2, <3>3, <3>4 DEF ConsumeWorkerUpdate
  <2> QED
    BY <1>11, <2>3, <2>4, <2>5 DEF ConsumeWorkerUpdate
<1>12. CASE HandleExit
  BY <1>12 DEF HandleExit
<1>13. CASE LoopReturns
  BY <1>13 DEF LoopReturns
<1>14. CASE Exit
  BY <1>14 DEF Exit
<1>15. CASE WorkerStep
  BY <1>15, WorkerStepType DEF WorkerStep
<1>16. CASE Restart
  <2>1. app' \in AppStates
    BY <1>16, StoreType DEF Restart
  <2>2. saved' \in Seq(Texts)
    BY <1>16, <2>1, StoreType DEF Restart
  <2>3. screen' \in Screens
    BY <1>16, ScreenType DEF Restart
  <2>4. tasks' \in Seq({"custom", "exit"})
    BY <1>16 DEF Restart
  <2> QED
    BY <1>16, <2>1, <2>2, <2>3, <2>4
    DEF Restart, NoWorker, NoPending, NoResult, NotBrowsing, WorkerPcs, Outcomes, StorageMessages
<1> QED
  BY <1>1, <1>2, <1>3, <1>4, <1>5, <1>6, <1>7, <1>8, <1>9, <1>10, <1>11, <1>12, <1>13, <1>14,
     <1>15, <1>16 DEF Next, Key, InterfaceStep

(* The session never leaves its types: neither thread, whatever the        *)
(* interleaving, and neither the user nor the state file can make it.      *)
THEOREM TypeCorrect == Spec => []TypeOK
BY InitType, NextType, PTL DEF Spec

-----------------------------------------------------------------------------
(* The handlers that leave both threads, the slots and the status alone.   *)
HandoverVars == <<ui, quit, tasks, worker, pending, screen.state, screen.structured,
                  screen.json, screen.metadata, lastSuccess>>

LEMMA HandoverInit == Init => HandoverInv
BY DEF Init, HandoverInv, BusyMeansOutcomeOwed, Busy, OutcomeOwed, NoLostUpdate,
       DisplayMatchesStatus, ScreenShows, NoWorker, NoPending, NoResult, Welcome, Screen, Pane,
       WorkerPcs

LEMMA HandoverUnchanged ==
  ASSUME HandoverInv, UNCHANGED HandoverVars PROVE HandoverInv'
BY DEF HandoverInv, HandoverVars, BusyMeansOutcomeOwed, Busy, OutcomeOwed, NoLostUpdate,
       DisplayMatchesStatus, ScreenShows, ToSet

(* What is queued stays queued when something is posted. *)
LEMMA PostKeeps ==
  ASSUME TypeOK, NEW task \in {"custom", "exit"}
  PROVE  /\ \A t \in ToSet(tasks) : t \in ToSet(Post(task))
         /\ ~quit => task \in ToSet(Post(task))
<1>1. tasks \in Seq({"custom", "exit"})
  BY DEF TypeOK
<1>2. CASE quit
  BY <1>2 DEF Post
<1>3. CASE ~quit
  <2>1. Post(task) = Append(tasks, task)
    BY <1>3 DEF Post
  <2>2. /\ DOMAIN tasks = 1 .. Len(tasks)
        /\ DOMAIN Append(tasks, task) = 1 .. Len(tasks) + 1
        /\ Append(tasks, task)[Len(tasks) + 1] = task
        /\ \A i \in 1 .. Len(tasks) : Append(tasks, task)[i] = tasks[i]
        /\ Len(tasks) \in Nat
    BY <1>1
  <2> QED
    BY <2>1, <2>2 DEF ToSet
<1> QED
  BY <1>2, <1>3

(* start_lookup enters the join only when nothing is owed any more. *)
LEMMA HandoverStartLookup ==
  ASSUME HandoverInv, NEW text, StartLookup(text) PROVE HandoverInv'
<1>1. CASE UNCHANGED <<ui, browse, screen>>
  BY <1>1, HandoverUnchanged DEF StartLookup, HandoverVars, workVars
<1>2. CASE AcceptsLookup /\ screen' = ErrorScreen /\ UNCHANGED ui
  BY <1>2 DEF StartLookup, workVars, AcceptsLookup, ErrorScreen, Screen, Pane, HandoverInv,
              BusyMeansOutcomeOwed, Busy, OutcomeOwed, NoLostUpdate,
              DisplayMatchesStatus, ScreenShows
<1>3. CASE AcceptsLookup /\ ui' = "joining" /\ UNCHANGED screen
  BY <1>3 DEF StartLookup, workVars, AcceptsLookup, HandoverInv,
              BusyMeansOutcomeOwed, Busy, OutcomeOwed, NoLostUpdate,
              DisplayMatchesStatus, ScreenShows
<1> QED
  BY <1>1, <1>2, <1>3 DEF StartLookup

(* The worker hands over before it posts, and posts before it ends. *)
LEMMA HandoverWorkerStep ==
  ASSUME TypeOK, HandoverInv, WorkerStep PROVE HandoverInv'
<1> USE DEF HandoverInv, BusyMeansOutcomeOwed, Busy, OutcomeOwed, NoLostUpdate,
            DisplayMatchesStatus, ScreenShows, WorkerPcs, WorkerStep, Goto
<1>1. CASE ReportStage("loading", "loading_bootstrap", "post_loading")
  BY <1>1 DEF ReportStage, TypeOK
<1>2. CASE ReportStage("querying", "querying", "post_querying")
  BY <1>2 DEF ReportStage, TypeOK
<1>3. CASE PostUpdate("post_loading", "bootstrap")
  BY <1>3, PostKeeps DEF PostUpdate, TypeOK
<1>4. CASE PostUpdate("post_querying", "query")
  BY <1>4, PostKeeps DEF PostUpdate, TypeOK
<1>5. CASE PostUpdate("post_result", "done")
  BY <1>5, PostKeeps DEF PostUpdate, TypeOK
<1>6. CASE ResolveServices
  <2>1. /\ worker.pc = "bootstrap" /\ worker'.query = worker.query
        /\ worker'.pc = "querying" \/ (worker'.pc = "publish" /\ worker'.outcome = "error")
    <3> HIDE DEF HandoverInv, WorkerStep
    <3>1. worker \in [pc : WorkerPcs, query : Texts \cup {None}, outcome : Outcomes]
      BY DEF TypeOK, Outcomes
    <3>2. CASE worker' = [worker EXCEPT !.pc = "querying"]
      BY <1>6, <3>1, <3>2 DEF ResolveServices
    <3>3. CASE worker' = [worker EXCEPT !.pc = "publish", !.outcome = "error"]
      BY <1>6, <3>1, <3>3 DEF ResolveServices
    <3> QED
      BY <1>6, <3>2, <3>3 DEF ResolveServices
  <2>2. worker.pc \in WorkerPcs \ {"none", "post_result", "done"}
        /\ worker'.pc \in WorkerPcs \ {"none", "post_result", "done"}
    BY <2>1
  <2>3. UNCHANGED <<pending, tasks, screen, ui, quit, lastSuccess>>
    BY <1>6 DEF ResolveServices, workVars, savedVars
  <2> QED
    BY <2>1, <2>2, <2>3
<1>7. CASE QueryServices
  BY <1>7 DEF QueryServices, TypeOK
<1>8. CASE PublishResult
  BY <1>8 DEF PublishResult, TypeOK
<1> QED
  BY <1>1, <1>2, <1>3, <1>4, <1>5, <1>6, <1>7, <1>8

(* consume_worker_update empties both slots, and an outcome in them is the *)
(* one that was owed. *)
LEMMA HandoverConsume ==
  ASSUME TypeOK, HandoverInv, ConsumeWorkerUpdate PROVE HandoverInv'
<1> USE DEF HandoverInv, BusyMeansOutcomeOwed, Busy, OutcomeOwed, NoLostUpdate,
            DisplayMatchesStatus, ScreenShows, ConsumeWorkerUpdate, EmptySlots, NoPending, NoResult
<1>1. CASE pending.result.outcome = "none" /\ ShowStage(pending.stage)
           /\ UNCHANGED <<savedVars, lastSuccess>>
  <2>1. CASE pending.stage = "none"
    BY <1>1, <2>1 DEF ShowStage
  <2>2. CASE pending.stage # "none"
    <3>1. pending.stage \in {"loading_bootstrap", "querying"}
      BY <2>2 DEF TypeOK
    <3>2. screen' = [screen EXCEPT !.state = pending.stage]
      BY <1>1, <2>2 DEF ShowStage
    <3>3. /\ screen'.state = pending.stage /\ screen'.structured = screen.structured
          /\ screen'.json = screen.json /\ screen'.metadata = screen.metadata
      BY <3>2 DEF TypeOK, Screens
    <3> QED
      BY <1>1, <2>2, <3>1, <3>3
  <2> QED
    BY <2>1, <2>2
<1>2. CASE pending.result.outcome = "error" /\ screen' = ErrorScreen
           /\ UNCHANGED <<savedVars, lastSuccess>>
  BY <1>2 DEF ErrorScreen, Screen, Pane
<1>3. CASE /\ pending.result.outcome \in {"response", "unprojected"}
           /\ ShowSuccess(pending.result.query, pending.result.outcome = "response")
  BY <1>3 DEF ShowSuccess, SuccessScreen, Screen, Pane, PaneOf
<1> QED
  BY <1>1, <1>2, <1>3

LEMMA HandoverNext == TypeOK /\ HandoverInv /\ [Next]_vars => HandoverInv'
<1> SUFFICES ASSUME TypeOK, HandoverInv, [Next]_vars PROVE HandoverInv'
  OBVIOUS
<1> USE DEF loopVars, workVars, savedVars
<1>1. CASE UNCHANGED vars
  BY <1>1, HandoverUnchanged DEF vars, HandoverVars
<1>2. ASSUME NEW t \in Texts \cup {None}, Type(t) PROVE HandoverInv'
  BY <1>2, HandoverUnchanged DEF Type, HandoverVars
<1>3. ASSUME NEW s \in Sections, ShowSection(s) PROVE HandoverInv'
  BY <1>3, HandoverUnchanged DEF ShowSection, HandoverVars, TypeOK, Screens
<1>4. CASE Search
  BY <1>4, HandoverStartLookup DEF Search, Pressed
<1>5. CASE OpenSaved
  BY <1>5, HandoverStartLookup DEF OpenSaved, Pressed
<1>6. CASE BrowseUp
  BY <1>6, HandoverUnchanged DEF BrowseUp, HandoverVars
<1>7. CASE BrowseDown
  BY <1>7, HandoverUnchanged DEF BrowseDown, HandoverVars
<1>8. CASE ToggleCurrentFavorite
  BY <1>8, HandoverUnchanged DEF ToggleCurrentFavorite, HandoverVars
<1>9. CASE Quit
  BY <1>9, PostKeeps DEF Quit, HandoverInv, BusyMeansOutcomeOwed, Busy, OutcomeOwed,
                NoLostUpdate, DisplayMatchesStatus, ScreenShows
<1>10. CASE BeginLookup
  BY <1>10 DEF BeginLookup, HandoverInv, BusyMeansOutcomeOwed, Busy, OutcomeOwed,
                NoLostUpdate, DisplayMatchesStatus, ScreenShows,
                WaitingScreen, Screen, Pane, WorkerPcs, WorkerFinished
<1>11. CASE ConsumeWorkerUpdate
  BY <1>11, HandoverConsume
<1>12. CASE HandleExit
  BY <1>12 DEF HandleExit, HandoverInv, BusyMeansOutcomeOwed, Busy, OutcomeOwed,
                NoLostUpdate, DisplayMatchesStatus, ScreenShows
<1>13. CASE LoopReturns
  BY <1>13 DEF LoopReturns, HandoverInv, BusyMeansOutcomeOwed, Busy, OutcomeOwed,
                NoLostUpdate, DisplayMatchesStatus, ScreenShows
<1>14. CASE Exit
  BY <1>14 DEF Exit, HandoverInv, BusyMeansOutcomeOwed, Busy, OutcomeOwed,
                NoLostUpdate, DisplayMatchesStatus, ScreenShows
<1>15. CASE WorkerStep
  BY <1>15, HandoverWorkerStep
<1>16. CASE Restart
  BY <1>16 DEF Restart, HandoverInv, BusyMeansOutcomeOwed, Busy, OutcomeOwed,
                NoLostUpdate, DisplayMatchesStatus, ScreenShows,
                NoWorker, NoPending, NoResult, Welcome, Screen, Pane, WorkerPcs
<1> QED
  BY <1>1, <1>2, <1>3, <1>4, <1>5, <1>6, <1>7, <1>8, <1>9, <1>10, <1>11, <1>12, <1>13, <1>14,
     <1>15, <1>16 DEF Next, Key, InterfaceStep

(* A lookup's progress and its outcome are handed over without loss, late  *)
(* stage or stale display, and start_lookup never waits on the network.    *)
THEOREM HandoverCorrect ==
  Spec => [](BusyMeansOutcomeOwed /\ NoLostUpdate /\ JoinIsShort /\ DisplayMatchesStatus)
<1>1. TypeOK /\ HandoverInv => JoinIsShort
  BY DEF TypeOK, HandoverInv, JoinIsShort, BusyMeansOutcomeOwed, OutcomeOwed
<1>2. HandoverInv => BusyMeansOutcomeOwed /\ NoLostUpdate /\ DisplayMatchesStatus
  BY DEF HandoverInv
<1> QED
  BY <1>1, <1>2, HandoverInit, HandoverNext, TypeCorrect, PTL DEF Spec

-----------------------------------------------------------------------------
(* The premise of the next theorem: the state file was not written under a *)
(* larger history_limit.  Without it the theorem is false.                 *)
FilesFit == \A f \in InitialFiles : Len(Loaded(f).history) <= HistoryLimit

(* A history that fits never shrinks, so that an index into it stays one.  *)
BrowseInv ==
  /\ BrowseIndexInRange
  /\ Len(app.history) <= HistoryLimit
  /\ Len(Loaded(file).history) <= HistoryLimit

LEMMA BrowseInit == FilesFit /\ Init => BrowseInv
BY DEF FilesFit, Init, BrowseInv, BrowseIndexInRange, NotBrowsing

LEMMA BrowseUnchanged ==
  ASSUME BrowseInv, UNCHANGED <<browse, app, file>> PROVE BrowseInv'
BY DEF BrowseInv, BrowseIndexInRange

(* What a write may leave behind fits as well. *)
LEMMA StoredFits ==
  ASSUME TypeOK, BrowseInv, NEW a \in AppStates, Len(a.history) <= HistoryLimit,
         NEW f \in {a, file, NoAppState}
  PROVE  Len(Loaded(f).history) <= HistoryLimit
<1>1. CASE f = file
  BY <1>1 DEF BrowseInv
<1>2. CASE f # file /\ HasStore
  <2>1. f \in AppStates /\ Len(f.history) <= HistoryLimit
    BY <1>2, EmptyStateType, HistoryLimitAssumption
  <2>2. /\ Len(ReadBack(f).history) <= Len(f.history) /\ ReadBack(f) \in AppStates
    BY <2>1, ReadBackType
  <2>3. Len(ReadBack(f).history) \in Nat /\ Len(f.history) \in Nat /\ HistoryLimit \in Nat
    BY <2>1, <2>2, HistoryLimitAssumption DEF AppStates
  <2> QED
    BY <1>2, <2>1, <2>2, <2>3 DEF Loaded
<1>3. CASE ~HasStore
  BY <1>3, EmptyStateType, HistoryLimitAssumption DEF Loaded
<1> QED
  BY <1>1, <1>2, <1>3

LEMMA BrowseStartLookup ==
  ASSUME BrowseInv, TypeOK, NEW text, StartLookup(text) PROVE BrowseInv'
<1>1. UNCHANGED <<app, file>>
  BY DEF StartLookup, savedVars
<1>2. UNCHANGED browse \/ browse'.index = None
  BY DEF StartLookup, TypeOK
<1> QED
  BY <1>1, <1>2 DEF BrowseInv, BrowseIndexInRange

LEMMA BrowseNext == TypeOK /\ BrowseInv /\ [Next]_vars => BrowseInv'
<1> SUFFICES ASSUME TypeOK, BrowseInv, [Next]_vars PROVE BrowseInv'
  OBVIOUS
<1> USE DEF loopVars, workVars, savedVars
<1>1. CASE UNCHANGED vars
  BY <1>1, BrowseUnchanged DEF vars
<1>2. ASSUME NEW t \in Texts \cup {None}, Type(t) PROVE BrowseInv'
  BY <1>2, BrowseUnchanged DEF Type
<1>3. ASSUME NEW s \in Sections, ShowSection(s) PROVE BrowseInv'
  BY <1>3, BrowseUnchanged DEF ShowSection
<1>4. CASE Search
  BY <1>4, BrowseStartLookup DEF Search
<1>5. CASE OpenSaved
  BY <1>5, BrowseStartLookup DEF OpenSaved
<1>6. CASE BrowseUp \/ BrowseDown
  <2>1. /\ UNCHANGED <<app, file>> /\ app.history # <<>>
    BY <1>6 DEF BrowseUp, BrowseDown
  <2>2. app.history \in Seq(Texts) /\ browse.index \in Nat \cup {None}
    BY DEF TypeOK, AppStates
  <2>3. 0 < Len(app.history)
    BY <2>1, <2>2
  <2>4. browse'.index = None \/ browse'.index < Len(app.history)
    <3>1. CASE BrowseUp
      BY <3>1, <2>2, <2>3
      DEF BrowseUp, BeginBrowsing, HasOlder, ShowEntry, BrowseInv, BrowseIndexInRange, TypeOK
    <3>2. CASE BrowseDown
      BY <3>2, <2>2, <2>3
      DEF BrowseDown, BeginBrowsing, ShowEntry, BrowseInv, BrowseIndexInRange, TypeOK
    <3> QED
      BY <1>6, <3>1, <3>2
  <2> QED
    BY <2>1, <2>4 DEF BrowseInv, BrowseIndexInRange
<1>7. CASE ToggleCurrentFavorite
  <2>1. CASE UNCHANGED <<app, saved, file>>
    BY <1>7, <2>1, BrowseUnchanged DEF ToggleCurrentFavorite
  <2>2. CASE app' = ToggleFavorite(app, FavoriteTarget) /\ file' \in StoredFiles(app')
    <3>1. FavoriteTarget \in Texts \cup {None}
      BY NormalizeType DEF FavoriteTarget, TypeOK
    <3>2. app' \in AppStates /\ app'.history = app.history
      BY <2>2, <3>1, ToggleFavoriteType DEF TypeOK
    <3>3. Len(app'.history) <= HistoryLimit
      BY <3>2 DEF BrowseInv
    <3>4. file' \in {app', file, NoAppState}
      BY <2>2 DEF StoredFiles, LostFiles
    <3>5. Len(Loaded(file').history) <= HistoryLimit
      BY <3>2, <3>3, <3>4, StoredFits
    <3>6. UNCHANGED browse
      BY <1>7 DEF ToggleCurrentFavorite
    <3> QED
      BY <3>2, <3>3, <3>5, <3>6 DEF BrowseInv, BrowseIndexInRange
  <2> QED
    BY <1>7, <2>1, <2>2 DEF ToggleCurrentFavorite
<1>8. CASE Quit
  BY <1>8, BrowseUnchanged DEF Quit
<1>9. CASE BeginLookup
  BY <1>9, BrowseUnchanged DEF BeginLookup
<1>10. CASE ConsumeWorkerUpdate
  <2>1. UNCHANGED browse
    BY <1>10 DEF ConsumeWorkerUpdate
  <2>2. CASE UNCHANGED <<savedVars, lastSuccess>>
    BY <2>1, <2>2, BrowseUnchanged
  <2>3. CASE ShowSuccess(pending.result.query, pending.result.outcome = "response")
    <3>1. app' = AddHistory(app, pending.result.query) /\ file' \in {app', file, NoAppState}
      BY <2>3 DEF ShowSuccess, Persist, LostFiles
    <3>2. /\ app' \in AppStates /\ Len(app'.history) <= HistoryLimit
          /\ Len(app'.history) >= Len(app.history)
      BY <3>1, AddHistoryType DEF TypeOK, BrowseInv
    <3>3. Len(Loaded(file').history) <= HistoryLimit
      BY <3>1, <3>2, StoredFits
    <3>4. browse.index # None => browse.index < Len(app'.history)
      BY <3>2 DEF BrowseInv, BrowseIndexInRange, TypeOK, AppStates
    <3> QED
      BY <2>1, <3>2, <3>3, <3>4 DEF BrowseInv, BrowseIndexInRange
  <2> QED
    BY <1>10, <2>2, <2>3 DEF ConsumeWorkerUpdate
<1>11. CASE HandleExit
  BY <1>11, BrowseUnchanged DEF HandleExit
<1>12. CASE LoopReturns
  BY <1>12, BrowseUnchanged DEF LoopReturns
<1>13. CASE Exit
  BY <1>13, BrowseUnchanged DEF Exit
<1>14. CASE WorkerStep
  BY <1>14, BrowseUnchanged DEF WorkerStep
<1>15. CASE Restart
  BY <1>15 DEF Restart, BrowseInv, BrowseIndexInRange, NotBrowsing
<1> QED
  BY <1>1, <1>2, <1>3, <1>4, <1>5, <1>6, <1>7, <1>8, <1>9, <1>10, <1>11, <1>12, <1>13, <1>14,
     <1>15 DEF Next, Key, InterfaceStep

(* Browsing the history never indexes beyond it, although a lookup that    *)
(* was started earlier rewrites the history meanwhile.                     *)
THEOREM BrowseSafe ==
  ASSUME FilesFit
  PROVE  Spec => []BrowseIndexInRange
<1>1. Init => BrowseInv
  BY BrowseInit
<1>2. BrowseInv => BrowseIndexInRange
  BY DEF BrowseInv
<1> QED
  BY <1>1, <1>2, BrowseNext, TypeCorrect, PTL DEF Spec

-----------------------------------------------------------------------------
(* While start_lookup waits, the input is the query it has parsed.         *)
JoinInv == ui = "joining" => Normalize(input) \in Texts

LEMMA JoinInit == Init => JoinInv
BY DEF Init, JoinInv

LEMMA JoinNext == TypeOK /\ JoinInv /\ [Next]_vars => JoinInv'
<1> SUFFICES ASSUME TypeOK, JoinInv, [Next]_vars PROVE JoinInv'
  OBVIOUS
<1> USE DEF JoinInv, loopVars, workVars, savedVars
<1>1. CASE UNCHANGED vars
  BY <1>1 DEF vars, Normalize
<1>2. CASE Key
  <2>1. ui = "loop" /\ (ui' = "loop" \/ Search \/ OpenSaved)
    BY <1>2 DEF Key, Type, ShowSection, Search, OpenSaved, BrowseUp, BrowseDown,
                ToggleCurrentFavorite, Quit, Pressed
  <2>2. ASSUME NEW text \in Texts \cup {None}, StartLookup(text), ui = "loop", input' = text
        PROVE  JoinInv'
    <3>1. ui' = "loop" \/ Normalize(text) # None
      BY <2>2 DEF StartLookup
    <3> QED
      BY <2>2, <3>1, NormalizeType
  <2>3. CASE Search
    BY <2>1, <2>2, <2>3 DEF Search, TypeOK
  <2>4. CASE OpenSaved
    <3>1. PICK i \in DOMAIN saved : input' = saved[i] /\ StartLookup(saved[i])
      BY <2>4 DEF OpenSaved
    <3>2. saved[i] \in Texts
      BY DEF TypeOK
    <3> QED
      BY <2>1, <2>2, <3>1, <3>2
  <2> QED
    BY <2>1, <2>3, <2>4
<1>3. CASE InterfaceStep
  BY <1>3 DEF InterfaceStep, BeginLookup, ConsumeWorkerUpdate, HandleExit, LoopReturns, Exit
<1>4. CASE WorkerStep
  BY <1>4 DEF WorkerStep, Normalize
<1>5. CASE Restart
  BY <1>5 DEF Restart
<1> QED
  BY <1>1, <1>2, <1>3, <1>4, <1>5 DEF Next

(* Of which queries each kind of screen displays something. *)
LEMMA NothingOnDisplay ==
  screen = Welcome \/ screen = WaitingScreen \/ screen = ErrorScreen => OnDisplay = {}
BY DEF Welcome, WaitingScreen, ErrorScreen, Screen, Pane, OnDisplay

LEMMA DisplayAfter ==
  /\ screen' = Welcome \/ screen' = WaitingScreen \/ screen' = ErrorScreen => OnDisplay' = {}
  /\ \A q, projected : screen' = SuccessScreen(q, projected) => OnDisplay' = {q}
<1>1. ASSUME screen' = Welcome \/ screen' = WaitingScreen \/ screen' = ErrorScreen
      PROVE  OnDisplay' = {}
  <2>1. screen'.structured.kind \in {"welcome", "waiting", "error"}
        /\ screen'.json.kind \in {"welcome", "waiting", "error"}
    BY <1>1 DEF Welcome, WaitingScreen, ErrorScreen, Screen, Pane
  <2> QED
    BY <2>1 DEF OnDisplay
<1>2. ASSUME NEW q, NEW projected, screen' = SuccessScreen(q, projected)
      PROVE  OnDisplay' = {q}
  <2>1. /\ screen'.structured.kind \in {"response", "unavailable"}
        /\ screen'.json.kind = "response"
        /\ screen'.structured.query = q /\ screen'.json.query = q
    BY <1>2 DEF SuccessScreen, Screen, PaneOf
  <2> QED
    BY <2>1 DEF OnDisplay
<1> QED
  BY <1>1, <1>2

LEMMA RefinesInit == Init => Lookups!Init
BY NothingOnDisplay DEF Init, Lookups!Init, Closed, Busy, Welcome, Screen, NoWorker

(* What the abstract session sees of a state. *)
LEMMA RefinesUnchanged ==
  ASSUME UNCHANGED <<ui, screen.state, screen.structured, screen.json, worker.query>>
  PROVE  UNCHANGED Lookups!vars
BY DEF Lookups!vars, Closed, Busy, OnDisplay

(* A rejected text is Reject; otherwise start_lookup has yet to act. *)
LEMMA RefinesStartLookup ==
  ASSUME TypeOK, HandoverInv, ui = "loop", NEW text, StartLookup(text)
  PROVE  Lookups!Reject \/ UNCHANGED Lookups!vars
<1>1. CASE UNCHANGED <<ui, browse, screen>>
  BY <1>1, RefinesUnchanged DEF StartLookup, workVars
<1>2. CASE AcceptsLookup /\ screen' = ErrorScreen /\ UNCHANGED ui
  <2>1. screen'.state = "error" /\ OnDisplay' = {}
    BY <1>2, DisplayAfter DEF ErrorScreen, Screen
  <2>2. ~Busy /\ screen.state \in {"idle", "success", "error"}
    BY <1>2 DEF AcceptsLookup, Busy, TypeOK, Screens
  <2> QED
    BY <1>2, <2>1, <2>2 DEF StartLookup, workVars, Lookups!Reject, Closed, Busy
<1>3. CASE ui' = "joining" /\ UNCHANGED screen
  <2>1. UNCHANGED OnDisplay
    BY <1>3 DEF OnDisplay
  <2> QED
    BY <1>3, <2>1 DEF StartLookup, workVars, Lookups!vars, Closed, Busy
<1> QED
  BY <1>1, <1>2, <1>3 DEF StartLookup

LEMMA RefinesConsume ==
  ASSUME TypeOK, HandoverInv, ConsumeWorkerUpdate
  PROVE  Lookups!Succeed \/ Lookups!Fail \/ UNCHANGED Lookups!vars
<1>1. ui = "loop" /\ UNCHANGED <<ui, worker>>
  BY DEF ConsumeWorkerUpdate
<1>2. CASE pending.result.outcome = "none" /\ ShowStage(pending.stage)
  <2>1. CASE pending.stage = "none"
    BY <1>1, <1>2, <2>1, RefinesUnchanged DEF ShowStage
  <2>2. CASE pending.stage # "none"
    <3>1. Busy
      BY <2>2 DEF HandoverInv, BusyMeansOutcomeOwed
    <3>2. screen' = [screen EXCEPT !.state = pending.stage]
      BY <1>2, <2>2 DEF ShowStage
    <3>3. screen'.state = pending.stage /\ UNCHANGED <<screen.structured, screen.json>>
      BY <3>2 DEF TypeOK, Screens
    <3>4. pending.stage \in {"loading_bootstrap", "querying"}
      BY <2>2 DEF TypeOK
    <3>5. UNCHANGED OnDisplay
      BY <3>3 DEF OnDisplay
    <3> QED
      BY <1>1, <3>1, <3>3, <3>4, <3>5 DEF Lookups!vars, Closed, Busy
  <2> QED
    BY <2>1, <2>2
<1>3. CASE pending.result.outcome # "none"
  <2>1. Busy /\ pending.result.query = worker.query
    BY <1>3 DEF HandoverInv, BusyMeansOutcomeOwed, OutcomeOwed
  <2>2. CASE screen' = ErrorScreen
    <3>1. screen'.state = "error" /\ OnDisplay' = {}
      BY <2>2, DisplayAfter DEF ErrorScreen, Screen
    <3> QED
      BY <1>1, <2>1, <3>1 DEF Lookups!Fail, Closed, Busy
  <2>3. CASE ShowSuccess(pending.result.query, pending.result.outcome = "response")
    <3>1. screen' = SuccessScreen(worker.query, pending.result.outcome = "response")
      BY <2>1, <2>3 DEF ShowSuccess
    <3>2. screen'.state = "success"
      BY <3>1 DEF SuccessScreen, Screen
    <3>3. OnDisplay' = {worker.query}
      BY <3>1, DisplayAfter
    <3> QED
      BY <1>1, <2>1, <3>2, <3>3 DEF Lookups!Succeed, Closed, Busy
  <2> QED
    BY <1>3, <2>2, <2>3 DEF ConsumeWorkerUpdate
<1> QED
  BY <1>2, <1>3 DEF ConsumeWorkerUpdate

LEMMA RefinesNext ==
  TypeOK /\ HandoverInv /\ JoinInv /\ [Next]_vars => [Lookups!Next]_(Lookups!vars)
<1> SUFFICES ASSUME TypeOK, HandoverInv, JoinInv, [Next]_vars
             PROVE  Lookups!Next \/ UNCHANGED Lookups!vars
  OBVIOUS
<1> USE DEF loopVars, workVars, savedVars
<1>1. CASE UNCHANGED vars
  BY <1>1, RefinesUnchanged DEF vars
<1>2. CASE \/ \E t \in Texts \cup {None} : Type(t)
           \/ BrowseUp \/ BrowseDown \/ ToggleCurrentFavorite \/ Quit
  BY <1>2, RefinesUnchanged DEF Type, BrowseUp, BrowseDown, ToggleCurrentFavorite, Quit
<1>3. ASSUME NEW s \in Sections, ShowSection(s) PROVE UNCHANGED Lookups!vars
  BY <1>3, RefinesUnchanged DEF ShowSection, TypeOK, Screens
<1>4. CASE Search \/ OpenSaved
  BY <1>4, RefinesStartLookup DEF Search, OpenSaved, Pressed, Lookups!Next
<1>5. CASE BeginLookup
  <2>1. Normalize(input) \in Texts
    BY <1>5 DEF BeginLookup, JoinInv
  <2>2. Lookups!Submit(Normalize(input))
    <3>1. screen'.state = "loading_bootstrap" /\ OnDisplay' = {}
      BY <1>5, DisplayAfter DEF BeginLookup, WaitingScreen, Screen
    <3>2. ~Busy /\ screen.state \in {"idle", "success", "error"}
      BY <1>5 DEF BeginLookup, HandoverInv, Busy, TypeOK, Screens
    <3>3. worker'.query = Normalize(input)
      BY <1>5 DEF BeginLookup
    <3> QED
      BY <1>5, <3>1, <3>2, <3>3 DEF BeginLookup, Lookups!Submit, Closed, Busy
  <2> QED
    BY <2>1, <2>2 DEF Lookups!Next
<1>6. CASE ConsumeWorkerUpdate
  BY <1>6, RefinesConsume DEF Lookups!Next
<1>7. CASE HandleExit
  BY <1>7, RefinesUnchanged DEF HandleExit
<1>8. CASE LoopReturns
  BY <1>8 DEF LoopReturns, Lookups!Next, Lookups!Close, Closed, Busy, TypeOK, Screens
<1>9. CASE Exit
  BY <1>9 DEF Exit, Lookups!vars, Closed
<1>10. CASE WorkerStep
  <2>1. worker'.query = worker.query
    BY <1>10 DEF WorkerStep, ReportStage, PostUpdate, ResolveServices, QueryServices,
                 PublishResult, Goto, TypeOK
  <2> QED
    BY <1>10, <2>1, RefinesUnchanged DEF WorkerStep
<1>11. CASE Restart
  <2>1. screen'.state = "idle" /\ OnDisplay' = {}
    BY <1>11, DisplayAfter DEF Restart, Welcome, Screen
  <2> QED
    BY <1>11, <2>1 DEF Restart, Lookups!Next, Lookups!Open, Closed, Busy, NoWorker
<1> QED
  BY <1>1, <1>2, <1>3, <1>4, <1>5, <1>6, <1>7, <1>8, <1>9, <1>10, <1>11
  DEF Next, Key, InterfaceStep

(* The two threads, their slots and their event queue together behave like *)
(* the session of LookupSession (safety; its fairness is model-checked).   *)
THEOREM ImplementsLookups == Spec => Lookups!Init /\ [][Lookups!Next]_(Lookups!vars)
BY RefinesInit, RefinesNext, JoinInit, JoinNext, HandoverInit, HandoverNext, TypeCorrect,
   InitType, NextType, PTL DEF Spec

-----------------------------------------------------------------------------
(* The saved queries of a session: the history and the favorites in        *)
(* memory, the Saved view, and the state file, through every sequence of   *)
(* lookups, `f' keys, failing writes and restarts.                         *)

(* A list that reads back as it is: every entry canonical, and once.       *)
CanonicalList(s) == NoDuplicates(s) /\ \A i \in DOMAIN s : Stable(s[i])
CanonicalState(st) == CanonicalList(st.history) /\ CanonicalList(st.favorites)

(* The premise of two of the theorems: the state file, when the program is *)
(* first run, holds no text whose canonical text does not parse ("as.").   *)
(* The program never writes one.                                           *)
FilesCanonical == \A f \in InitialFiles : CanonicalState(Loaded(f))

(* No query, or what the parser has made of a text.  When it parses again, *)
(* it is canonical.                                                        *)
IsParsed(q) == \E t \in Texts \cup {None} : q = Normalize(t)

LEMMA NormalizeIsStable ==
  ASSUME NEW q \in Texts \cup {None}, IsParsed(q), Normalize(q) # None
  PROVE  Normalize(q) = q /\ q \in Texts /\ Stable(Normalize(q))
<1>1. q \in Texts /\ q # None
  BY CanonicalAssumption DEF Normalize
<1>2. PICK t \in Texts : q = Canonical[t]
  BY <1>1 DEF IsParsed, Normalize
<1>3. Canonical[q] = q
  BY <1>1, <1>2, CanonicalAssumption DEF Normalize
<1> QED
  BY <1>1, <1>3 DEF Stable, Normalize

(* Erasing a query leaves a canonical list that does not hold it. *)
LEMMA WithoutIsCanonical ==
  ASSUME NEW s \in Seq(Texts), CanonicalList(s), NEW t
  PROVE  /\ CanonicalList(Without(s, t))
         /\ \A i \in DOMAIN Without(s, t) : Without(s, t)[i] # t
<1>1. CASE t \notin ToSet(s)
  BY <1>1 DEF Without, ToSet
<1>2. CASE t \in ToSet(s)
  <2> DEFINE p == PositionOf(s, t)
             rest == Without(s, t)
  <2>1. \E i \in DOMAIN s : s[i] = t
    BY <1>2 DEF ToSet
  <2>2. p \in 1 .. Len(s) /\ s[p] = t
    BY <2>1 DEF PositionOf
  <2>3. rest = SubSeq(s, 1, p - 1) \o SubSeq(s, p + 1, Len(s))
    BY <1>2 DEF Without, RemoveAt
  <2> HIDE DEF p, rest
  <2> DEFINE before == SubSeq(s, 1, p - 1)
             after  == SubSeq(s, p + 1, Len(s))
  <2>4. /\ before \in Seq(Texts) /\ Len(before) = p - 1
        /\ \A i \in 1 .. p - 1 : before[i] = s[i]
    BY <2>2
  <2>5. /\ after \in Seq(Texts) /\ Len(after) = Len(s) - p
        /\ \A i \in 1 .. Len(s) - p : after[i] = s[p + i]
    BY <2>2
  <2>6. rest = before \o after
    BY <2>3
  <2> HIDE DEF before, after
  <2> DEFINE from(i) == IF i < p THEN i ELSE i + 1
  <2>7. rest \in Seq(Texts) /\ Len(rest) = Len(s) - 1
    BY <2>2, <2>4, <2>5, <2>6
  <2>8. ASSUME NEW i \in 1 .. Len(s) - 1
        PROVE  rest[i] = s[from(i)] /\ from(i) \in 1 .. Len(s) /\ from(i) # p
    <3>1. CASE i < p
      BY <2>2, <2>4, <2>5, <2>6, <3>1
    <3>2. CASE ~(i < p)
      <4>1. rest[i] = after[i - (p - 1)]
        BY <2>2, <2>4, <2>5, <2>6, <3>2
      <4>2. i - (p - 1) \in 1 .. Len(s) - p /\ p + (i - (p - 1)) = i + 1
        BY <2>2, <3>2
      <4>3. after[i - (p - 1)] = s[p + (i - (p - 1))]
        BY <2>5, <4>2
      <4> QED
        BY <2>2, <3>2, <4>1, <4>2, <4>3
    <3> QED
      BY <3>1, <3>2
  <2>9. DOMAIN rest = 1 .. Len(s) - 1 /\ DOMAIN s = 1 .. Len(s)
    BY <2>7
  <2>10. \A i \in DOMAIN rest : Stable(rest[i])
    BY <2>8, <2>9 DEF CanonicalList
  <2>11. \A i \in DOMAIN rest : rest[i] # t
    BY <2>2, <2>8, <2>9 DEF CanonicalList, NoDuplicates
  <2>12. ASSUME NEW i \in DOMAIN rest, NEW j \in DOMAIN rest, rest[i] = rest[j]
         PROVE  i = j
    <3>1. i \in 1 .. Len(s) - 1 /\ j \in 1 .. Len(s) - 1
      BY <2>9
    <3>2. from(i) = from(j)
      BY <2>8, <2>9, <2>12, <3>1 DEF CanonicalList, NoDuplicates
    <3> QED
      BY <2>2, <3>1, <3>2
  <2> QED
    BY <2>10, <2>11, <2>12 DEF CanonicalList, NoDuplicates, rest
<1> QED
  BY <1>1, <1>2

(* So does truncating, and adding an entry that is not there, at either    *)
(* end. *)
LEMMA TruncateIsCanonical ==
  ASSUME NEW s \in Seq(Texts), CanonicalList(s), NEW limit \in Nat
  PROVE  CanonicalList(Truncate(s, limit))
<1>1. CASE Len(s) > limit
  <2>1. /\ Truncate(s, limit) = SubSeq(s, 1, limit)
        /\ DOMAIN SubSeq(s, 1, limit) = 1 .. limit /\ DOMAIN s = 1 .. Len(s)
        /\ \A i \in 1 .. limit : SubSeq(s, 1, limit)[i] = s[i]
    BY <1>1 DEF Truncate
  <2>2. 1 .. limit \subseteq 1 .. Len(s)
    BY <1>1
  <2> QED
    BY <2>1, <2>2 DEF CanonicalList, NoDuplicates
<1>2. CASE ~(Len(s) > limit)
  BY <1>2 DEF Truncate
<1> QED
  BY <1>1, <1>2

LEMMA AddedIsCanonical ==
  ASSUME NEW s \in Seq(Texts), CanonicalList(s), NEW t \in Texts, Stable(t),
         \A i \in DOMAIN s : s[i] # t
  PROVE  CanonicalList(<<t>> \o s) /\ CanonicalList(Append(s, t))
<1> DEFINE front == <<t>> \o s
           back  == Append(s, t)
           n     == Len(s)
<1>1. n \in Nat /\ DOMAIN s = 1 .. n
  OBVIOUS
<1>2. /\ DOMAIN front = 1 .. n + 1 /\ front[1] = t
      /\ \A i \in 2 .. n + 1 : front[i] = s[i - 1] /\ i - 1 \in 1 .. n
  OBVIOUS
<1>3. /\ DOMAIN back = 1 .. n + 1 /\ back[n + 1] = t
      /\ \A i \in 1 .. n : back[i] = s[i]
  OBVIOUS
<1> HIDE DEF front, back, n
<1>4. CanonicalList(front)
  <2>1. ASSUME NEW i \in 1 .. n + 1 PROVE i = 1 \/ i \in 2 .. n + 1
    BY <1>1
  <2>2. \A i \in DOMAIN front : Stable(front[i])
    BY <1>1, <1>2, <2>1 DEF CanonicalList
  <2>3. ASSUME NEW i \in 1 .. n + 1, NEW j \in 1 .. n + 1, front[i] = front[j] PROVE i = j
    <3>1. CASE i = 1 \/ j = 1
      BY <1>1, <1>2, <2>1, <2>3, <3>1
    <3>2. CASE i \in 2 .. n + 1 /\ j \in 2 .. n + 1
      <4>1. i - 1 = j - 1
        BY <1>1, <1>2, <2>3, <3>2 DEF CanonicalList, NoDuplicates
      <4> QED
        BY <1>1, <4>1
    <3> QED
      BY <2>1, <3>1, <3>2
  <2> QED
    BY <1>2, <2>2, <2>3 DEF CanonicalList, NoDuplicates
<1>5. CanonicalList(back)
  <2>1. ASSUME NEW i \in 1 .. n + 1 PROVE i = n + 1 \/ i \in 1 .. n
    BY <1>1
  <2>2. \A i \in DOMAIN back : Stable(back[i])
    BY <1>1, <1>3, <2>1 DEF CanonicalList
  <2>3. \A i, j \in DOMAIN back : back[i] = back[j] => i = j
    BY <1>1, <1>3, <2>1 DEF CanonicalList, NoDuplicates
  <2> QED
    BY <2>2, <2>3 DEF CanonicalList, NoDuplicates
<1> QED
  BY <1>4, <1>5 DEF front, back

-----------------------------------------------------------------------------
(* add_history keeps the lists canonical and puts a storable query first.  *)
LEMMA AddHistoryIsCanonical ==
  ASSUME NEW st \in AppStates, CanonicalState(st),
         NEW q \in Texts \cup {None}, IsParsed(q)
  PROVE  CanonicalState(AddHistory(st, q))
<1> DEFINE stored == Normalize(q)
           others == Without(st.history, stored)
           new    == IF HistoryLimit = 0 THEN others
                     ELSE Truncate(<<stored>> \o others, HistoryLimit)
<1>1. CASE stored = None
  BY <1>1 DEF AddHistory
<1>2. CASE stored # None
  <2>1. stored \in Texts /\ Stable(stored)
    BY <1>2, NormalizeIsStable
  <2>2. st.history \in Seq(Texts) /\ HistoryLimit \in Nat
    BY HistoryLimitAssumption DEF AppStates
  <2>3. /\ others \in Seq(Texts) /\ CanonicalList(others)
        /\ \A i \in DOMAIN others : others[i] # stored
    BY <2>2, WithoutType, WithoutIsCanonical DEF CanonicalState
  <2>4. AddHistory(st, q) = [st EXCEPT !.history = new]
    BY <1>2 DEF AddHistory
  <2> HIDE DEF stored, others
  <2>5. CanonicalList(<<stored>> \o others) /\ <<stored>> \o others \in Seq(Texts)
    BY <2>1, <2>3, AddedIsCanonical
  <2>6. CanonicalList(new)
    BY <2>2, <2>3, <2>5, TruncateIsCanonical
  <2> HIDE DEF new
  <2> QED
    BY <2>4, <2>6 DEF CanonicalState, AppStates
<1> QED
  BY <1>1, <1>2

LEMMA AddHistoryHeads ==
  ASSUME NEW st \in AppStates, NEW q \in Texts, Stable(q), HistoryLimit > 0
  PROVE  AddHistory(st, q).history # <<>> /\ Head(AddHistory(st, q).history) = q
<1> DEFINE others == Without(st.history, q)
           longer == <<q>> \o others
<1>1. Normalize(q) = q /\ q # None /\ HistoryLimit \in Nat
  BY CanonicalAssumption, HistoryLimitAssumption DEF Stable
<1>2. others \in Seq(Texts)
  BY WithoutType DEF AppStates
<1>3. AddHistory(st, q) = [st EXCEPT !.history = Truncate(longer, HistoryLimit)]
  BY <1>1 DEF AddHistory
<1> HIDE DEF others
<1>4. longer \in Seq(Texts) /\ longer[1] = q /\ Len(longer) >= 1
  BY <1>2
<1> HIDE DEF longer
<1>5. Truncate(longer, HistoryLimit) # <<>> /\ Head(Truncate(longer, HistoryLimit)) = q
  BY <1>1, <1>4 DEF Truncate
<1> QED
  BY <1>3, <1>5 DEF AppStates

(* toggle_favorite keeps the lists canonical. *)
LEMMA ToggleFavoriteIsCanonical ==
  ASSUME NEW st \in AppStates, CanonicalState(st),
         NEW q \in Texts \cup {None}, IsParsed(q)
  PROVE  CanonicalState(ToggleFavorite(st, q))
<1> DEFINE stored == Normalize(q)
           new    == IF stored \in ToSet(st.favorites) THEN Without(st.favorites, stored)
                     ELSE Append(st.favorites, stored)
<1>1. CASE stored = None
  BY <1>1 DEF ToggleFavorite
<1>2. CASE stored # None
  <2>1. stored \in Texts /\ Stable(stored)
    BY <1>2, NormalizeIsStable
  <2>2. st.favorites \in Seq(Texts) /\ CanonicalList(st.favorites)
    BY DEF AppStates, CanonicalState
  <2>3. ToggleFavorite(st, q) = [st EXCEPT !.favorites = new]
    BY <1>2 DEF ToggleFavorite
  <2> HIDE DEF stored
  <2>4. CASE stored \in ToSet(st.favorites)
    BY <2>2, <2>3, <2>4, WithoutIsCanonical DEF CanonicalState, AppStates
  <2>5. CASE stored \notin ToSet(st.favorites)
    <3>1. \A i \in DOMAIN st.favorites : st.favorites[i] # stored
      BY <2>5 DEF ToSet
    <3>2. CanonicalList(new)
      BY <2>1, <2>2, <2>5, <3>1, AddedIsCanonical
    <3> HIDE DEF new
    <3> QED
      BY <2>3, <3>2 DEF CanonicalState, AppStates
  <2> QED
    BY <2>4, <2>5
<1> QED
  BY <1>1, <1>2

(* A canonical list is read back as it was written. *)
LEMMA NormalizedFixpoint ==
  ASSUME NEW s \in Seq(Texts), CanonicalList(s)
  PROVE  Normalized(s) = s
<1> DEFINE n == Len(s)
<1>1. n \in Nat /\ DOMAIN s = 1 .. n
  OBVIOUS
<1>2. \A i \in 1 .. n : s[i] \in Texts /\ s[i] # None /\ Canonical[s[i]] = s[i]
  BY <1>1, CanonicalAssumption DEF CanonicalList, Stable, Normalize
<1>3. Kept(s) = 1 .. n
  <2>1. ASSUME NEW i \in 1 .. n, NEW j \in 1 .. i - 1 PROVE s[j] # s[i] /\ j \in 1 .. n
    BY <1>1 DEF CanonicalList, NoDuplicates
  <2> QED
    BY <1>1, <1>2, <2>1 DEF Kept
<1>4. Cardinality(Kept(s)) = n
  BY <1>1, <1>3, FS_Interval
<1>5. ASSUME NEW i \in 1 .. n PROVE Rank(s, i) = i
  <2>1. Kept(s) \cap (1 .. i) = 1 .. i /\ i \in Nat
    BY <1>1, <1>3
  <2>2. Cardinality(1 .. i) = i
    BY <2>1, FS_Interval
  <2> QED
    BY <2>1, <2>2 DEF Rank
<1> HIDE DEF n
<1>6. ASSUME NEW k \in 1 .. n PROVE (CHOOSE i \in Kept(s) : Rank(s, i) = k) = k
  BY <1>3, <1>5
<1>7. Normalized(s) = [k \in 1 .. n |-> s[k]]
  BY <1>2, <1>4, <1>6 DEF Normalized
<1> QED
  BY <1>1, <1>7

LEMMA ReadBackFixpoint ==
  ASSUME NEW st \in AppStates, CanonicalState(st)
  PROVE  ReadBack(st) = st
BY NormalizedFixpoint DEF ReadBack, CanonicalState, AppStates

(* What a write may leave behind reads back as a canonical state. *)
LEMMA StoredIsCanonical ==
  ASSUME NEW a \in AppStates, CanonicalState(a), CanonicalState(Loaded(file)),
         NEW f \in {a, file, NoAppState}
  PROVE  CanonicalState(Loaded(f))
<1>1. CanonicalState(NoAppState)
  BY DEF NoAppState, CanonicalState, CanonicalList, NoDuplicates
<1>2. Loaded(a) \in {a, NoAppState} /\ Loaded(NoAppState) = NoAppState
  BY <1>1, EmptyStateType, ReadBackFixpoint DEF Loaded
<1> QED
  BY <1>1, <1>2

-----------------------------------------------------------------------------
(* Only three actions touch the saved queries. *)
SavedStep == ToggleCurrentFavorite \/ ConsumeWorkerUpdate \/ Restart
SavedUnchanged == UNCHANGED <<savedVars, lastSuccess>>

LEMMA SavedSteps == [Next]_vars => SavedStep \/ SavedUnchanged
<1> SUFFICES ASSUME [Next]_vars PROVE SavedStep \/ SavedUnchanged
  OBVIOUS
<1> USE DEF SavedUnchanged
<1>1. CASE UNCHANGED vars
  BY <1>1 DEF vars, savedVars
<1>2. CASE Key
  BY <1>2 DEF Key, Type, ShowSection, Search, OpenSaved, StartLookup, BrowseUp, BrowseDown,
              Quit, SavedStep
<1>3. CASE InterfaceStep
  BY <1>3 DEF InterfaceStep, BeginLookup, HandleExit, LoopReturns, Exit, SavedStep
<1>4. CASE WorkerStep
  BY <1>4 DEF WorkerStep
<1>5. CASE Restart
  BY <1>5 DEF SavedStep
<1> QED
  BY <1>1, <1>2, <1>3, <1>4, <1>5 DEF Next

(* The two ways ToggleCurrentFavorite goes, and the two of an event. *)
LEMMA ToggleWays ==
  ASSUME TypeOK, ToggleCurrentFavorite
  PROVE  /\ storage' # "clear" /\ UNCHANGED <<lastSuccess, worker, pending>>
         /\ \/ UNCHANGED <<app, saved, file>>
            \/ /\ FavoriteTarget \in Texts \cup {None}
               /\ FavoriteTarget = lastSuccess \/ IsParsed(FavoriteTarget)
               /\ app' = ToggleFavorite(app, FavoriteTarget) /\ saved' = SavedList(app')
               /\ file' \in {app', file, NoAppState}
BY NormalizeType
DEF ToggleCurrentFavorite, FavoriteTarget, TypeOK, IsParsed, StoredFiles, LostFiles, workVars

LEMMA ConsumeWays ==
  ASSUME TypeOK, ConsumeWorkerUpdate
  PROVE  /\ UNCHANGED worker /\ pending'.result.query = None
         /\ \/ SavedUnchanged
            \/ /\ pending.result.query \in Texts \cup {None}
               /\ app' = AddHistory(app, pending.result.query)
               /\ lastSuccess' = pending.result.query /\ saved' = SavedList(app')
               /\ file' \in {app', file, NoAppState}
               /\ storage' = "clear" => HasStore /\ file' \in {app'} \cup LostFiles
BY DEF ConsumeWorkerUpdate, ShowSuccess, Persist, LostFiles, SavedUnchanged, TypeOK, EmptySlots,
       NoPending, NoResult

(* The lists in memory and on disk are canonical, and every query that is  *)
(* on its way to them was parsed.                                          *)
SavedInv ==
  /\ CanonicalState(app) /\ CanonicalState(Loaded(file))
  /\ IsParsed(worker.query) /\ IsParsed(pending.result.query) /\ IsParsed(lastSuccess)

LEMMA NoneIsParsed == IsParsed(None)
BY DEF IsParsed, Normalize

LEMMA SavedInit == FilesCanonical /\ Init => SavedInv
BY NoneIsParsed DEF Init, FilesCanonical, SavedInv, NoWorker, NoPending, NoResult

LEMMA ParsedNext ==
  ASSUME TypeOK, SavedInv, [Next]_vars
  PROVE  IsParsed(worker'.query) /\ IsParsed(pending'.result.query)
<1> USE DEF SavedInv
<1>1. CASE UNCHANGED <<worker, pending>>
  BY <1>1
<1>2. CASE BeginLookup
  BY <1>2 DEF BeginLookup, IsParsed, TypeOK
<1>3. CASE WorkerStep
  <2>1. worker'.query = worker.query
    BY <1>3 DEF WorkerStep, ReportStage, PostUpdate, ResolveServices, QueryServices,
                PublishResult, Goto, TypeOK
  <2>2. CASE PublishResult
    BY <2>1, <2>2 DEF PublishResult, TypeOK
  <2>3. CASE ~PublishResult
    <3>1. pending'.result = pending.result
      BY <1>3, <2>3 DEF WorkerStep, ReportStage, PostUpdate, ResolveServices, QueryServices, TypeOK
    <3> QED
      BY <2>1, <3>1
  <2> QED
    BY <2>2, <2>3
<1>4. CASE ConsumeWorkerUpdate
  BY <1>4, NoneIsParsed, ConsumeWays
<1>5. CASE Restart
  BY <1>5, NoneIsParsed DEF Restart, NoWorker, NoPending, NoResult
<1>6. CASE Key
  BY <1>1, <1>6 DEF Key, Type, ShowSection, Search, OpenSaved, StartLookup, BrowseUp, BrowseDown,
                    ToggleCurrentFavorite, Quit, workVars
<1>7. CASE HandleExit \/ LoopReturns \/ Exit \/ UNCHANGED vars
  BY <1>1, <1>7 DEF HandleExit, LoopReturns, Exit, workVars, vars
<1> QED
  BY <1>2, <1>3, <1>4, <1>5, <1>6, <1>7 DEF Next, InterfaceStep

LEMMA SavedNext == TypeOK /\ SavedInv /\ [Next]_vars => SavedInv'
<1> SUFFICES ASSUME TypeOK, SavedInv, [Next]_vars PROVE SavedInv'
  OBVIOUS
<1>1. app \in AppStates
  BY DEF TypeOK
<1> SUFFICES CanonicalState(app') /\ CanonicalState(Loaded(file')) /\ IsParsed(lastSuccess')
  BY ParsedNext DEF SavedInv
<1>2. CASE SavedUnchanged
  BY <1>2 DEF SavedUnchanged, savedVars, SavedInv
<1>3. CASE ToggleCurrentFavorite
  <2>1. CASE UNCHANGED <<app, saved, file>>
    BY <1>3, <2>1, ToggleWays DEF SavedInv
  <2>2. CASE ~UNCHANGED <<app, saved, file>>
    <3>1. /\ FavoriteTarget \in Texts \cup {None} /\ IsParsed(FavoriteTarget)
          /\ app' = ToggleFavorite(app, FavoriteTarget) /\ file' \in {app', file, NoAppState}
          /\ lastSuccess' = lastSuccess
      BY <1>3, <2>2, ToggleWays DEF SavedInv
    <3>2. app' \in AppStates /\ CanonicalState(app')
      BY <1>1, <3>1, ToggleFavoriteType, ToggleFavoriteIsCanonical DEF SavedInv
    <3> QED
      BY <3>1, <3>2, StoredIsCanonical DEF SavedInv
  <2> QED
    BY <2>1, <2>2
<1>4. CASE ConsumeWorkerUpdate
  <2>1. CASE SavedUnchanged
    BY <1>2, <2>1
  <2>2. CASE ~SavedUnchanged
    <3> DEFINE q == pending.result.query
    <3>1. /\ q \in Texts \cup {None} /\ IsParsed(q)
          /\ app' = AddHistory(app, q) /\ file' \in {app', file, NoAppState}
          /\ lastSuccess' = q
      BY <1>4, <2>2, ConsumeWays DEF SavedInv
    <3> HIDE DEF q
    <3>2. app' \in AppStates /\ CanonicalState(app')
      BY <1>1, <3>1, AddHistoryType, AddHistoryIsCanonical DEF SavedInv
    <3> QED
      BY <3>1, <3>2, StoredIsCanonical DEF SavedInv
  <2> QED
    BY <2>1, <2>2
<1>5. CASE Restart
  BY <1>5, NoneIsParsed DEF Restart, SavedInv
<1> QED
  BY <1>2, <1>3, <1>4, <1>5, SavedSteps DEF SavedStep

(* No lookup, `f' key, failed or truncated write or restart makes the      *)
(* history or the favorites hold a query twice, one that is not canonical, *)
(* or the history more than its limit.                                     *)
THEOREM SavedQueriesStayWellFormed ==
  ASSUME FilesFit, FilesCanonical
  PROVE  Spec => []SavedQueriesWellFormed
<1>1. TypeOK /\ BrowseInv /\ SavedInv => SavedQueriesWellFormed
  BY DEF TypeOK, AppStates, BrowseInv, SavedInv, CanonicalState, CanonicalList,
         SavedQueriesWellFormed, ToSet
<1>2. Init => BrowseInv /\ SavedInv
  BY BrowseInit, SavedInit
<1> QED
  BY <1>1, <1>2, BrowseNext, SavedNext, TypeCorrect, PTL DEF Spec

-----------------------------------------------------------------------------
LEMMA QuietInit == Init => QuietMeansDurable
BY DEF Init, QuietMeansDurable

LEMMA QuietNext ==
  ASSUME LossyClose = FALSE
  PROVE  TypeOK /\ SavedInv /\ QuietMeansDurable /\ [Next]_vars => QuietMeansDurable'
<1> SUFFICES ASSUME TypeOK, SavedInv, QuietMeansDurable, [Next]_vars
             PROVE  QuietMeansDurable'
  OBVIOUS
<1>1. CASE SavedUnchanged
  BY <1>1 DEF SavedUnchanged, savedVars, QuietMeansDurable
<1>2. CASE ToggleCurrentFavorite
  BY <1>2, ToggleWays DEF QuietMeansDurable
<1>3. CASE ConsumeWorkerUpdate /\ ~SavedUnchanged
  <2> SUFFICES ASSUME storage' = "clear" PROVE Loaded(file') = app'
    BY DEF QuietMeansDurable
  <2>1. HasStore /\ file' = app'
    BY <1>3, ConsumeWays DEF LostFiles
  <2>2. app' \in AppStates /\ CanonicalState(app')
    BY NextType, SavedNext DEF TypeOK, SavedInv
  <2> QED
    BY <2>1, <2>2, ReadBackFixpoint DEF Loaded
<1>4. CASE Restart
  BY <1>4 DEF Restart, QuietMeansDurable
<1> QED
  BY <1>1, <1>2, <1>3, <1>4, SavedSteps DEF SavedStep

(* As long as no message about the local state is shown, the state file    *)
(* reads back as what is in memory, unless closing it can lose bytes.      *)
THEOREM QuietIsDurable ==
  ASSUME FilesCanonical, LossyClose = FALSE
  PROVE  Spec => []QuietMeansDurable
<1>1. Init => SavedInv
  BY SavedInit
<1>2. TypeOK /\ SavedInv /\ QuietMeansDurable /\ [Next]_vars => QuietMeansDurable'
  BY QuietNext
<1> QED
  BY <1>1, <1>2, QuietInit, SavedNext, TypeCorrect, PTL DEF Spec

-----------------------------------------------------------------------------
LEMMA HeadNext ==
  TypeOK /\ LastSuccessHeadsHistory /\ [Next]_vars => LastSuccessHeadsHistory'
<1> SUFFICES ASSUME TypeOK, LastSuccessHeadsHistory, [Next]_vars
             PROVE  LastSuccessHeadsHistory'
  OBVIOUS
<1>1. CASE SavedUnchanged
  BY <1>1 DEF SavedUnchanged, savedVars, LastSuccessHeadsHistory, Stable, Normalize
<1>2. CASE ToggleCurrentFavorite
  <2>1. lastSuccess' = lastSuccess /\ app'.history = app.history
    <3>1. app \in AppStates
      BY DEF TypeOK
    <3>2. CASE app' = app
      BY <1>2, <3>2, ToggleWays
    <3>3. CASE FavoriteTarget \in Texts \cup {None} /\ app' = ToggleFavorite(app, FavoriteTarget)
      BY <1>2, <3>1, <3>3, ToggleWays, ToggleFavoriteType
    <3> QED
      BY <1>2, <3>2, <3>3, ToggleWays
  <2> QED
    BY <2>1 DEF LastSuccessHeadsHistory, Stable, Normalize
<1>3. CASE ConsumeWorkerUpdate /\ ~SavedUnchanged
  <2> DEFINE q == pending.result.query
  <2>1. q \in Texts \cup {None} /\ app' = AddHistory(app, q) /\ lastSuccess' = q
    BY <1>3, ConsumeWays
  <2> HIDE DEF q
  <2> SUFFICES ASSUME q # None, Stable(q), HistoryLimit > 0
               PROVE  app'.history # <<>> /\ Head(app'.history) = q
    BY <2>1 DEF LastSuccessHeadsHistory, Stable, Normalize
  <2>2. q \in Texts /\ app \in AppStates
    BY <2>1 DEF TypeOK
  <2> QED
    BY <2>1, <2>2, AddHistoryHeads
<1>4. CASE Restart
  BY <1>4 DEF Restart, LastSuccessHeadsHistory
<1> QED
  BY <1>1, <1>2, <1>3, <1>4, SavedSteps DEF SavedStep

(* The last successful query heads the history, whatever happens to the    *)
(* favorites and the file meanwhile, unless it cannot be stored.           *)
THEOREM SuccessHeadsHistory == Spec => []LastSuccessHeadsHistory
<1>1. Init => LastSuccessHeadsHistory
  BY DEF Init, LastSuccessHeadsHistory
<1> QED
  BY <1>1, HeadNext, TypeCorrect, PTL DEF Spec

(* The Saved view never offers a query that is no longer saved.            *)
THEOREM SavedViewIsCurrent == Spec => []SavedViewCurrent
<1>1. Init => SavedViewCurrent
  BY DEF Init, SavedViewCurrent
<1>2. TypeOK /\ SavedViewCurrent /\ [Next]_vars => SavedViewCurrent'
  <2> SUFFICES ASSUME TypeOK, SavedViewCurrent, [Next]_vars PROVE SavedViewCurrent'
    OBVIOUS
  <2>1. CASE SavedUnchanged
    BY <2>1 DEF SavedUnchanged, savedVars, SavedViewCurrent
  <2>2. CASE ToggleCurrentFavorite
    BY <2>2, ToggleWays DEF SavedViewCurrent
  <2>3. CASE ConsumeWorkerUpdate
    BY <2>1, <2>3, ConsumeWays DEF SavedViewCurrent
  <2>4. CASE Restart
    BY <2>4 DEF Restart, SavedViewCurrent
  <2> QED
    BY <2>1, <2>2, <2>3, <2>4, SavedSteps DEF SavedStep
<1> QED
  BY <1>1, <1>2, TypeCorrect, PTL DEF Spec

-----------------------------------------------------------------------------
(* The most steps the two threads can still take if no further key is      *)
(* pressed: a message of the worker is worth the step that posts it and    *)
(* the one that handles it, and a join the whole lookup behind it.         *)
InterfaceSteps ==
  IF ui = "joining" THEN 14 ELSE IF ui = "loop" THEN 2 ELSE IF ui = "stopping" THEN 1 ELSE 0
WorkerSteps ==
  IF worker.pc = "loading" THEN 11 ELSE IF worker.pc = "post_loading" THEN 10
  ELSE IF worker.pc = "bootstrap" THEN 8 ELSE IF worker.pc = "querying" THEN 7
  ELSE IF worker.pc = "post_querying" THEN 6 ELSE IF worker.pc = "query" THEN 4
  ELSE IF worker.pc = "publish" THEN 3 ELSE IF worker.pc = "post_result" THEN 2 ELSE 0
StepsLeft == InterfaceSteps + WorkerSteps + Len(tasks)

LEMMA StepsAreNumbers ==
  ASSUME TypeOK
  PROVE  InterfaceSteps \in Nat /\ WorkerSteps \in Nat /\ Len(tasks) \in Nat
BY DEF TypeOK, InterfaceSteps, WorkerSteps

LEMMA PostAddsOne ==
  ASSUME TypeOK, NEW task \in {"custom", "exit"}, tasks' = Post(task)
  PROVE  Len(tasks') = Len(tasks) \/ Len(tasks') = Len(tasks) + 1
<1>1. tasks \in Seq({"custom", "exit"})
  BY DEF TypeOK
<1> QED
  BY <1>1 DEF Post

LEMMA WorkerStepCounts ==
  ASSUME TypeOK, WorkerStep
  PROVE  StepsLeft' < StepsLeft
<1>1. InterfaceSteps' = InterfaceSteps /\ InterfaceSteps \in Nat /\ Len(tasks) \in Nat
  BY StepsAreNumbers DEF WorkerStep, InterfaceSteps
<1>2. worker \in [pc : WorkerPcs, query : Texts \cup {None}, outcome : Outcomes]
  BY DEF TypeOK
<1>3. \/ WorkerSteps' \in Nat /\ WorkerSteps' < WorkerSteps /\ tasks' = tasks
      \/ WorkerSteps = WorkerSteps' + 2 /\ tasks' = Post("custom")
  <2>1. CASE \/ ReportStage("loading", "loading_bootstrap", "post_loading")
             \/ ReportStage("querying", "querying", "post_querying")
    BY <1>2, <2>1 DEF ReportStage, Goto, WorkerSteps
  <2>2. CASE \/ PostUpdate("post_loading", "bootstrap")
             \/ PostUpdate("post_querying", "query")
             \/ PostUpdate("post_result", "done")
    BY <1>2, <2>2 DEF PostUpdate, Goto, WorkerSteps
  <2>3. CASE ResolveServices
    <3>1. worker.pc = "bootstrap" /\ worker'.pc \in {"querying", "publish"} /\ tasks' = tasks
      BY <1>2, <2>3 DEF ResolveServices, Goto
    <3> QED
      BY <3>1 DEF WorkerSteps
  <2>4. CASE QueryServices
    BY <1>2, <2>4 DEF QueryServices, WorkerSteps
  <2>5. CASE PublishResult
    BY <1>2, <2>5 DEF PublishResult, Goto, WorkerSteps
  <2> QED
    BY <2>1, <2>2, <2>3, <2>4, <2>5 DEF WorkerStep
<1>4. WorkerSteps \in Nat /\ WorkerSteps' \in Nat
  <2>1. WorkerSteps \in Nat
    BY StepsAreNumbers
  <2>2. WorkerSteps' \in Nat
    BY DEF WorkerSteps
  <2> QED
    BY <2>1, <2>2
<1>5. CASE WorkerSteps' < WorkerSteps /\ tasks' = tasks
  BY <1>1, <1>4, <1>5 DEF StepsLeft
<1>6. CASE WorkerSteps = WorkerSteps' + 2 /\ tasks' = Post("custom")
  <2>1. Len(tasks') = Len(tasks) \/ Len(tasks') = Len(tasks) + 1
    BY <1>6, PostAddsOne
  <2>2. WorkerSteps = WorkerSteps' + 2
    BY <1>6
  <2>3. StepsLeft' = InterfaceSteps + WorkerSteps' + Len(tasks')
    BY <1>1 DEF StepsLeft
  <2>4. StepsLeft = InterfaceSteps + WorkerSteps' + 2 + Len(tasks)
    BY <1>1, <1>4, <2>2 DEF StepsLeft
  <2>5. CASE Len(tasks') = Len(tasks)
    BY <1>1, <1>4, <2>3, <2>4, <2>5
  <2>6. CASE Len(tasks') = Len(tasks) + 1
    BY <1>1, <1>4, <2>3, <2>4, <2>6
  <2> QED
    BY <2>1, <2>5, <2>6
<1> QED
  BY <1>3, <1>5, <1>6

LEMMA InterfaceStepCounts ==
  ASSUME TypeOK, InterfaceStep
  PROVE  StepsLeft' < StepsLeft
<1>1. InterfaceSteps \in Nat /\ WorkerSteps \in Nat /\ Len(tasks) \in Nat
  BY StepsAreNumbers
<1>2. CASE BeginLookup
  <2>1. InterfaceSteps = 14 /\ InterfaceSteps' = 2 /\ WorkerSteps = 0 /\ WorkerSteps' = 11 /\ tasks' = tasks
    BY <1>2 DEF BeginLookup, WorkerFinished, InterfaceSteps, WorkerSteps
  <2> QED
    BY <1>1, <2>1 DEF StepsLeft
<1>3. CASE ConsumeWorkerUpdate \/ HandleExit
  <2>1. tasks \in Seq({"custom", "exit"}) /\ tasks # <<>> /\ tasks' = Tail(tasks)
    BY <1>3 DEF ConsumeWorkerUpdate, HandleExit, TypeOK
  <2>2. Len(tasks') = Len(tasks) - 1
    BY <2>1
  <2>3. InterfaceSteps' = InterfaceSteps /\ WorkerSteps' = WorkerSteps
    BY <1>3 DEF ConsumeWorkerUpdate, HandleExit, InterfaceSteps, WorkerSteps, workVars
  <2> QED
    BY <1>1, <2>2, <2>3 DEF StepsLeft
<1>4. CASE LoopReturns \/ Exit
  <2>1. WorkerSteps' = WorkerSteps /\ tasks' = tasks
    BY <1>4 DEF LoopReturns, Exit, WorkerSteps, workVars
  <2>2. InterfaceSteps' \in Nat /\ InterfaceSteps' < InterfaceSteps
    BY <1>4 DEF LoopReturns, Exit, InterfaceSteps
  <2> QED
    BY <1>1, <2>1, <2>2 DEF StepsLeft
<1> QED
  BY <1>2, <1>3, <1>4 DEF InterfaceStep

LEMMA KeyCounts ==
  ASSUME TypeOK, Key
  PROVE  StepsLeft' <= StepsLeft + 12
<1>1. InterfaceSteps \in Nat /\ WorkerSteps \in Nat /\ Len(tasks) \in Nat
  BY StepsAreNumbers
<1>2. ui = "loop" /\ worker' = worker
  BY DEF Key, Type, ShowSection, Search, OpenSaved, BrowseUp, BrowseDown, ToggleCurrentFavorite, Quit,
         Pressed, StartLookup, workVars
<1>3. \/ ui' \in {"loop", "joining"} /\ tasks' = tasks
      \/ ui' = "loop" /\ tasks' = Post("exit")
  BY <1>2 DEF Key, Type, ShowSection, Search, OpenSaved, BrowseUp, BrowseDown, ToggleCurrentFavorite,
              Quit, StartLookup, loopVars, workVars
<1>4. WorkerSteps' = WorkerSteps /\ InterfaceSteps = 2
  BY <1>2 DEF WorkerSteps, InterfaceSteps
<1>5. CASE ui' \in {"loop", "joining"} /\ tasks' = tasks
  <2>1. InterfaceSteps' = 2 \/ InterfaceSteps' = 14
    BY <1>5 DEF InterfaceSteps
  <2> QED
    BY <1>1, <1>4, <1>5, <2>1 DEF StepsLeft
<1>6. CASE ui' = "loop" /\ tasks' = Post("exit")
  <2>1. InterfaceSteps' = 2
    BY <1>6 DEF InterfaceSteps
  <2>2. Len(tasks') = Len(tasks) \/ Len(tasks') = Len(tasks) + 1
    BY <1>6, PostAddsOne
  <2> QED
    BY <1>1, <1>4, <2>1, <2>2 DEF StepsLeft
<1> QED
  BY <1>3, <1>5, <1>6

(* A thread has a step to take: the worker one of its lookup, the          *)
(* interface a task, the end of a join or the end of the loop.             *)
StepIsDue ==
  \/ ~WorkerFinished
  \/ ui = "loop" /\ (tasks # <<>> \/ quit)
  \/ ui \in {"joining", "stopping"} /\ WorkerFinished

StepsCount ==
  /\ InterfaceStep \/ WorkerStep => StepsLeft' < StepsLeft
  /\ Key => StepsLeft' <= StepsLeft + 12

(* Quitting is neither a deadlock nor without end.  Once the exit was      *)
(* asked for a thread has a step to take until the process has ended,      *)
(* although the interface waits for the worker and the worker posts to the *)
(* interface; and every step of either leaves fewer, of which a key adds   *)
(* twelve at most, the lookup that it starts.                              *)
THEOREM QuittingRunsOut ==
  /\ Spec => [](Leaving => ui = "exited" \/ StepIsDue)
  /\ Spec => [](StepsLeft \in Nat)
  /\ Spec => [][StepsCount]_vars
<1>1. TypeOK => (Leaving => ui = "exited" \/ StepIsDue)
  <2> SUFFICES ASSUME TypeOK, Leaving, ui # "exited", WorkerFinished PROVE StepIsDue
    BY DEF StepIsDue
  <2>1. ui \in {"loop", "joining", "stopping"}
    BY DEF TypeOK
  <2>2. quit \/ tasks # <<>>
    <3>1. ToSet(<<>>) = {}
      BY DEF ToSet
    <3> QED
      BY <3>1 DEF Leaving
  <2> QED
    BY <2>1, <2>2 DEF StepIsDue
<1>2. TypeOK => StepsLeft \in Nat
  BY StepsAreNumbers DEF StepsLeft
<1>3. TypeOK /\ [Next]_vars => [StepsCount]_vars
  BY WorkerStepCounts, InterfaceStepCounts, KeyCounts DEF StepsCount
<1>4. Spec => [](Leaving => ui = "exited" \/ StepIsDue)
  BY <1>1, TypeCorrect, PTL
<1>5. Spec => [](StepsLeft \in Nat)
  BY <1>2, TypeCorrect, PTL
<1>6. Spec => [][StepsCount]_vars
  BY <1>3, TypeCorrect, PTL DEF Spec
<1> QED
  BY <1>4, <1>5, <1>6

=============================================================================
