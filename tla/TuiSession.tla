----------------------------- MODULE TuiSession -----------------------------
(***************************************************************************)
(* The interface thread and the lookup worker of tui_app.cpp, the saved    *)
(* queries of app_state.cpp they keep, and the state file across restarts. *)
(*                                                                         *)
(* One thread runs the FTXUI event loop: keys, the Custom events a worker  *)
(* posts and the exit task reach it one at a time.  A lookup runs on a     *)
(* worker thread, which hands over through two slots guarded by a mutex    *)
(* and an event that says to look at them.                                 *)
(***************************************************************************)
EXTENDS AppState

CONSTANTS
  Keys,          \* the keys the user presses, and whether it restarts
  InitialFiles,  \* what state.json may hold when the program is first run
  HasStore,      \* whether main found a directory for the state file
  LossyClose,    \* whether closing a file can lose its last bytes unnoticed
  MaxBacklog     \* bound: no lookup is accepted with more tasks queued

ASSUME InitialFilesAssumption == InitialFiles \subseteq AppStates
ASSUME StoreAssumption == HasStore \in BOOLEAN /\ LossyClose \in BOOLEAN
ASSUME MaxBacklogAssumption == MaxBacklog \in Nat

VARIABLES
  ui,           \* where the interface thread is
  quit,         \* the exit task was handled: the loop is about to return
  tasks,        \* FTXUI's queue: "custom" and "exit" tasks not handled yet
  worker,       \* worker_: where the thread is, its query, its outcome
  pending,      \* pending_stage_ and pending_result_
  cancelled,    \* cancellation_ was asked to stop
  screen,       \* state_, metadata_, the views, section_index_
  input,        \* query_input_
  browse,       \* history_browse_index_ and history_draft_
  app,          \* app_state_
  saved,        \* saved_queries_ without its headings
  lastSuccess,  \* last_success_query_
  storage,      \* which storage_message_ is shown
  file          \* what state.json holds

loopVars == <<ui, quit, tasks>>
workVars == <<worker, pending, cancelled>>
savedVars == <<app, saved, file, storage>>
vars == <<loopVars, workVars, screen, input, browse, savedVars, lastSuccess>>

-----------------------------------------------------------------------------
(* What the panes hold: a fixed text, or something about one query.        *)
Pane(kind) == [kind |-> kind, query |-> None]
PaneOf(kind, q) == [kind |-> kind, query |-> q]
Panes == [kind : {"welcome", "waiting", "error", "response", "unavailable"},
          query : Texts \cup {None}]

Screen(state, metadata, structured, json, section) ==
  [state |-> state, metadata |-> metadata, structured |-> structured,
   json |-> json, section |-> section]

OverviewSection == 0
SavedSection == 4
JsonSection == 5
Sections == {OverviewSection, SavedSection, JsonSection}

Screens == [state : {"idle", "loading_bootstrap", "querying", "success", "error"},
            metadata : Texts \cup {None},
            structured : Panes, json : Panes, section : Sections]

Welcome == Screen("idle", None, Pane("welcome"), Pane("welcome"), OverviewSection)

(* show_error replaces every pane, so nothing of an older response stays.  *)
(* (ErrorUnderOldViews: a show_error that forgets the structured panes.)   *)
ErrorUnderOldViews ==
  Screen("error", None, screen.structured, Pane("error"), OverviewSection)
ErrorScreen == Screen("error", None, Pane("error"), Pane("error"), OverviewSection)

(* The panes while a lookup is under way.                                  *)
(* (WaitingOverOldPanes: a start_lookup that only sets the state.)         *)
WaitingOverOldPanes == [screen EXCEPT !.state = "loading_bootstrap"]
WaitingScreen ==
  Screen("loading_bootstrap", None, Pane("waiting"), Pane("waiting"), OverviewSection)

(* A response whose projection failed is shown in the JSON view only. *)
SuccessScreen(q, projected) ==
  IF projected
  THEN Screen("success", q, PaneOf("response", q), PaneOf("response", q), OverviewSection)
  ELSE Screen("success", q, PaneOf("unavailable", q), PaneOf("response", q), JsonSection)

Outcomes == {"none", "error", "response", "unprojected"}
NoWorker == [pc |-> "none", query |-> None, outcome |-> "none"]
NoResult == [query |-> None, outcome |-> "none"]
NoPending == [stage |-> "none", result |-> NoResult]

NotBrowsing == [index |-> None, draft |-> None]

SavedList(a) == a.favorites \o a.history

(* AppStateStore::read, which main calls when there is a state file. *)
NoAppState == [history |-> <<>>, favorites |-> <<>>]
Loaded(f) == IF HasStore THEN ReadBack(f) ELSE NoAppState

Init ==
  /\ ui = "loop" /\ quit = FALSE /\ tasks = <<>>
  /\ worker = NoWorker /\ pending = NoPending /\ cancelled = FALSE
  /\ screen = Welcome /\ input = None /\ browse = NotBrowsing
  /\ file \in InitialFiles
  /\ app = Loaded(file) /\ saved = SavedList(app)
  /\ lastSuccess = None /\ storage = "clear"

(* The process ends, by exit or by a crash, and is started again.          *)
Restart ==
  /\ "restart" \in Keys
  /\ ui' = "loop" /\ quit' = FALSE /\ tasks' = <<>>
  /\ worker' = NoWorker /\ pending' = NoPending /\ cancelled' = FALSE
  /\ screen' = Welcome /\ input' = None /\ browse' = NotBrowsing
  /\ app' = Loaded(file) /\ saved' = SavedList(app')
  /\ lastSuccess' = None /\ storage' = "clear"
  /\ UNCHANGED file

-----------------------------------------------------------------------------
(* FTXUI drops what is posted once the exit task has been handled. *)
Post(task) == IF quit THEN tasks ELSE Append(tasks, task)

(* What state.json may hold after AppStateStore::write (see FileReplace):  *)
(* a write that fails leaves the old file in place, and one whose last     *)
(* bytes are lost a file that reads as empty.                              *)
LostFiles == IF LossyClose THEN {NoAppState} ELSE {}
StoredFiles(a) == IF HasStore THEN {a, file} \cup LostFiles ELSE {file}

(* persist_state.  Without a state directory nothing is written.           *)
(* (PersistQuietly: the result of the write is not looked at.)             *)
PersistQuietly(a) ==
  app' = a /\ file' \in StoredFiles(a) /\ storage' = "clear"
Persist(a) ==
  /\ app' = a
  /\ \/ HasStore /\ file' \in {a} \cup LostFiles /\ storage' = "clear"
     \/ HasStore /\ file' = file /\ storage' = "unwritable"
     \/ ~HasStore /\ file' = file /\ storage' = "disabled"

StorageMessages == {"clear", "disabled", "unwritable", "unchanged", "added", "removed"}

Busy == screen.state \in {"loading_bootstrap", "querying"}

(* The first test of start_lookup.                                         *)
(* (AcceptsWhileLoading: a test that knows one of the two busy states.)    *)
AcceptsWhileLoading == screen.state # "querying"
AcceptsLookup == ~Busy

WorkerFinished == worker.pc \in {"none", "done"}

-----------------------------------------------------------------------------
(* Keys.  A key can be handled whenever the loop is between two tasks;     *)
(* keys already queued are handled even after the exit task.               *)
Pressed(key) == key \in Keys /\ ui = "loop"

(* The input field edits query_input_ in place. *)
Type(t) ==
  /\ Pressed("type") /\ input' = t
  /\ UNCHANGED <<loopVars, workVars, screen, browse, savedVars, lastSuccess>>

(* start_lookup up to worker_.join(): ignored while busy, an error for a   *)
(* text that is not a query, and otherwise the thread waits for the old    *)
(* worker, which BeginLookup ends.                                         *)
StartLookup(text) ==
  /\ \/ /\ ~AcceptsLookup
        /\ UNCHANGED <<ui, browse, screen>>
     \/ /\ AcceptsLookup /\ Normalize(text) = None
        /\ browse' = [browse EXCEPT !.index = None]
        /\ screen' = ErrorScreen
        /\ UNCHANGED ui
     \/ /\ AcceptsLookup /\ Normalize(text) # None
        /\ Len(tasks) <= MaxBacklog
        /\ browse' = [browse EXCEPT !.index = None]
        /\ ui' = "joining"
        /\ UNCHANGED screen
  /\ UNCHANGED <<quit, tasks, workVars, savedVars, lastSuccess>>

(* Return in the query field, or the Search button. *)
Search == Pressed("return") /\ StartLookup(input) /\ UNCHANGED input

(* Return on an entry of the Saved view. *)
OpenSaved ==
  /\ Pressed("saved") /\ screen.section = SavedSection
  /\ \E i \in DOMAIN saved : input' = saved[i] /\ StartLookup(saved[i])

ShowSection(s) ==
  /\ Pressed("section") /\ screen' = [screen EXCEPT !.section = s]
  /\ UNCHANGED <<loopVars, workVars, input, browse, savedVars, lastSuccess>>
-----------------------------------------------------------------------------
(* browse_history(-1), towards older queries, and browse_history(1).       *)
(* The vector is indexed without a check: beyond its end the text read is  *)
(* whatever the memory there holds.                                        *)
EntryAt(i) == IF i < Len(app.history) THEN {app.history[i + 1]} ELSE Texts \cup {None}

ShowEntry(i) == browse' = [browse EXCEPT !.index = i] /\ input' \in EntryAt(i)

BeginBrowsing ==
  /\ browse.index = None
  /\ browse' = [index |-> 0, draft |-> input] /\ input' \in EntryAt(0)

(* (HasOlderOrEnd: off by one at the end.)                                 *)
HasOlderOrEnd == browse.index # None /\ browse.index + 1 <= Len(app.history)
HasOlder == browse.index # None /\ browse.index + 1 < Len(app.history)

BrowseUp ==
  /\ Pressed("up") /\ app.history # <<>>
  /\ \/ BeginBrowsing
     \/ HasOlder /\ ShowEntry(browse.index + 1)
     \/ browse.index # None /\ ~HasOlder /\ ShowEntry(browse.index)
  /\ UNCHANGED <<loopVars, workVars, screen, savedVars, lastSuccess>>

BrowseDown ==
  /\ Pressed("down") /\ app.history # <<>>
  /\ \/ BeginBrowsing
     \/ /\ browse.index = 0
        /\ browse' = [browse EXCEPT !.index = None] /\ input' = browse.draft
     \/ browse.index \notin {None, 0} /\ ShowEntry(browse.index - 1)
  /\ UNCHANGED <<loopVars, workVars, screen, savedVars, lastSuccess>>

(* toggle_current_favorite: the valid input, or else the last success.     *)
FavoriteTarget == IF Normalize(input) # None THEN Normalize(input) ELSE lastSuccess

ToggleCurrentFavorite ==
  /\ Pressed("favorite")
  /\ \/ FavoriteTarget = None /\ storage' = "unchanged" /\ UNCHANGED <<app, saved, file>>
     \/ /\ FavoriteTarget # None
        /\ app' = ToggleFavorite(app, FavoriteTarget)
        /\ file' \in StoredFiles(app')
        /\ saved' = SavedList(app')
        /\ storage' = IF AddsFavorite(app, FavoriteTarget) THEN "added" ELSE "removed"
  /\ UNCHANGED <<loopVars, workVars, screen, input, browse, lastSuccess>>

(* Escape or Ctrl+C posts the exit task. *)
Quit ==
  /\ Pressed("quit") /\ "exit" \notin ToSet(tasks) /\ tasks' = Post("exit")
  /\ UNCHANGED <<ui, quit, workVars, screen, input, browse, savedVars, lastSuccess>>

Key ==
  \/ \E t \in Texts \cup {None} : Type(t)
  \/ \E s \in Sections : ShowSection(s)
  \/ Search \/ OpenSaved \/ BrowseUp \/ BrowseDown \/ ToggleCurrentFavorite \/ Quit

-----------------------------------------------------------------------------
(* The rest of start_lookup, once the old worker was joined: the panes say *)
(* that a response is awaited and a worker with a new cancellation source  *)
(* starts.                                                                 *)
BeginLookup ==
  /\ ui = "joining" /\ WorkerFinished
  /\ ui' = "loop"
  /\ screen' = WaitingScreen
  /\ cancelled' = FALSE
  /\ worker' = [pc |-> "loading", query |-> Normalize(input), outcome |-> "none"]
  /\ UNCHANGED <<quit, tasks, pending, input, browse, savedVars, lastSuccess>>

(* consume_worker_update: both slots are emptied under the lock, the stage *)
(* is applied and then the result, if there is one.                        *)
(* (LeavesResult: the optional moved from is not reset.)                   *)
LeavesResult == [pending EXCEPT !.stage = "none"]
EmptySlots == NoPending

(* (ShowAnyStage: whether there is a stage is not looked at.)              *)
ShowAnyStage(stage) == screen' = [screen EXCEPT !.state = stage]
ShowStage(stage) ==
  screen' = IF stage = "none" THEN screen ELSE [screen EXCEPT !.state = stage]

(* (ShowSuccessOnly: the Saved view is not rebuilt.)                       *)
ShowSuccessOnly(q, projected) ==
  /\ screen' = SuccessScreen(q, projected)
  /\ lastSuccess' = q
  /\ Persist(AddHistory(app, q))
  /\ UNCHANGED saved
ShowSuccess(q, projected) ==
  /\ screen' = SuccessScreen(q, projected)
  /\ lastSuccess' = q
  /\ Persist(AddHistory(app, q))
  /\ saved' = SavedList(app')

ConsumeWorkerUpdate ==
  /\ ui = "loop" /\ tasks # <<>> /\ Head(tasks) = "custom"
  /\ tasks' = Tail(tasks)
  /\ pending' = EmptySlots
  /\ \/ pending.result.outcome = "none" /\ ShowStage(pending.stage)
        /\ UNCHANGED <<savedVars, lastSuccess>>
     \/ pending.result.outcome = "error" /\ screen' = ErrorScreen
        /\ UNCHANGED <<savedVars, lastSuccess>>
     \/ /\ pending.result.outcome \in {"response", "unprojected"}
        /\ ShowSuccess(pending.result.query, pending.result.outcome = "response")
  /\ UNCHANGED <<ui, quit, worker, cancelled, input, browse>>

HandleExit ==
  /\ ui = "loop" /\ tasks # <<>> /\ Head(tasks) = "exit"
  /\ tasks' = Tail(tasks) /\ quit' = TRUE
  /\ UNCHANGED <<ui, workVars, screen, input, browse, savedVars, lastSuccess>>

(* Loop returns and the destructor asks a worker it has not joined to stop. *)
(* (LoopReturnsWhenAnswered: the loop first waits for the outcome.)         *)
LoopReturnsWhenAnswered ==
  /\ ui = "loop" /\ quit /\ ~Busy
  /\ ui' = "stopping" /\ cancelled' = (worker.pc # "none")
  /\ UNCHANGED <<quit, tasks, worker, pending, screen, input, browse, savedVars, lastSuccess>>
LoopReturns ==
  /\ ui = "loop" /\ quit
  /\ ui' = "stopping" /\ cancelled' = (worker.pc # "none")
  /\ UNCHANGED <<quit, tasks, worker, pending, screen, input, browse, savedVars, lastSuccess>>

(* The destructor's join returns. *)
Exit ==
  /\ ui = "stopping" /\ WorkerFinished /\ ui' = "exited"
  /\ UNCHANGED <<quit, tasks, workVars, screen, input, browse, savedVars, lastSuccess>>

InterfaceStep == BeginLookup \/ ConsumeWorkerUpdate \/ HandleExit \/ LoopReturns \/ Exit

-----------------------------------------------------------------------------
(* The worker: two progress reports around RdapClient::lookup, then the    *)
(* outcome.  Each hands over under the mutex first and posts second.       *)
Goto(pc) == worker' = [worker EXCEPT !.pc = pc]

ReportStage(from, stage, to) ==
  /\ worker.pc = from /\ Goto(to)
  /\ pending' = [pending EXCEPT !.stage = stage]
  /\ UNCHANGED tasks

PostUpdate(from, to) ==
  /\ worker.pc = from /\ Goto(to) /\ tasks' = Post("custom") /\ UNCHANGED pending

(* The bootstrap registry names services, or the lookup fails there. *)
ResolveServices ==
  /\ worker.pc = "bootstrap"
  /\ \/ Goto("querying")
     \/ worker' = [worker EXCEPT !.pc = "publish", !.outcome = "error"]
  /\ UNCHANGED <<pending, tasks>>

(* The registry answers, or the lookup fails or is cancelled. *)
QueryServices ==
  /\ worker.pc = "query"
  /\ \E outcome \in Outcomes \ {"none"} :
        worker' = [worker EXCEPT !.pc = "publish", !.outcome = outcome]
  /\ UNCHANGED <<pending, tasks>>

(* (PublishSilently: no event announces the outcome.)                      *)
PublishSilently ==
  /\ worker.pc = "publish" /\ Goto("done")
  /\ pending' = [pending EXCEPT !.result = [query |-> worker.query, outcome |-> worker.outcome]]
  /\ UNCHANGED tasks
PublishResult ==
  /\ worker.pc = "publish" /\ Goto("post_result")
  /\ pending' = [pending EXCEPT !.result = [query |-> worker.query, outcome |-> worker.outcome]]
  /\ UNCHANGED tasks

WorkerStep ==
  /\ \/ ReportStage("loading", "loading_bootstrap", "post_loading")
     \/ PostUpdate("post_loading", "bootstrap")
     \/ ResolveServices
     \/ ReportStage("querying", "querying", "post_querying")
     \/ PostUpdate("post_querying", "query")
     \/ QueryServices
     \/ PublishResult
     \/ PostUpdate("post_result", "done")
  /\ UNCHANGED <<ui, quit, cancelled, screen, input, browse, savedVars, lastSuccess>>

Next == Key \/ InterfaceStep \/ WorkerStep \/ Restart

(* The loop handles what is queued while it runs, and each network request *)
(* of a worker has a total timeout, so that neither thread stops for good; *)
(* nothing obliges the user to press a key.                                *)
Fairness == WF_vars(InterfaceStep) /\ WF_vars(WorkerStep)
Spec == Init /\ [][Next]_vars
FairSpec == Spec /\ Fairness

-----------------------------------------------------------------------------
(* Every variable keeps to the values the code can give it.                *)
WorkerPcs == {"none", "loading", "post_loading", "bootstrap", "querying", "post_querying",
              "query", "publish", "post_result", "done"}

TypeOK ==
  /\ ui \in {"loop", "joining", "stopping", "exited"}
  /\ quit \in BOOLEAN
  /\ tasks \in Seq({"custom", "exit"})
  /\ worker \in [pc : WorkerPcs, query : Texts \cup {None}, outcome : Outcomes]
  /\ pending \in [stage : {"none", "loading_bootstrap", "querying"},
                  result : [query : Texts \cup {None}, outcome : Outcomes]]
  /\ cancelled \in BOOLEAN
  /\ screen \in Screens
  /\ input \in Texts \cup {None}
  /\ browse \in [index : Nat \cup {None}, draft : Texts \cup {None}]
  /\ app \in AppStates
  /\ saved \in Seq(Texts)
  /\ lastSuccess \in Texts \cup {None}
  /\ storage \in StorageMessages
  /\ file \in AppStates

(* The status line says a lookup is under way exactly while an outcome is  *)
(* still to come: a progress stage consumed late never turns an answered   *)
(* lookup busy again (which would block every later one), and no outcome   *)
(* is shown twice.                                                         *)
OutcomeOwed ==
  \/ worker.pc \in WorkerPcs \ {"none", "post_result", "done"}
  \/ pending.result.outcome # "none"

BusyMeansOutcomeOwed == Busy <=> OutcomeOwed

(* What a worker handed over is announced by an event that is queued or    *)
(* about to be posted, however the slots and the events interleave.        *)
NoLostUpdate ==
  pending # NoPending /\ ~quit =>
    \/ "custom" \in ToSet(tasks)
    \/ worker.pc \in {"post_loading", "post_querying", "post_result"}

(* start_lookup never waits on the network: the worker it joins has        *)
(* nothing left but to post its last event.                                *)
JoinIsShort == ui = "joining" => worker.pc \in {"none", "post_result", "done"}

(* All panes, structured and JSON, and the metadata are those of the state *)
(* on display, and a response on display is the one of the lookup started  *)
(* last: the structured panes say that they are unavailable exactly if its *)
(* projection failed.                                                      *)
ScreenShows(structured, json, metadata) ==
  screen.structured = structured /\ screen.json = json /\ screen.metadata = metadata
DisplayMatchesStatus ==
  /\ screen.state = "idle" => ScreenShows(Pane("welcome"), Pane("welcome"), None)
  /\ Busy => ScreenShows(Pane("waiting"), Pane("waiting"), None)
  /\ screen.state = "error" => ScreenShows(Pane("error"), Pane("error"), None)
  /\ screen.state = "success" =>
       /\ ScreenShows(PaneOf(IF worker.outcome = "response" THEN "response" ELSE "unavailable",
                             worker.query),
                      PaneOf("response", worker.query), worker.query)
       /\ lastSuccess = worker.query

(* The inductive invariant behind the four: a stage that was not consumed  *)
(* yet precedes an outcome that was not consumed yet, an outcome in its    *)
(* slot is the worker's, and a lookup only starts when neither slot holds  *)
(* anything.                                                               *)
HandoverInv ==
  /\ BusyMeansOutcomeOwed /\ NoLostUpdate /\ DisplayMatchesStatus
  /\ ui = "joining" => ~Busy
  /\ pending.stage # "none" => OutcomeOwed
  /\ pending.result.outcome # "none" =>
       /\ worker.pc \in {"post_result", "done"}
       /\ pending.result.query = worker.query /\ pending.result.outcome = worker.outcome
  /\ worker.pc = "publish" => worker.outcome # "none"

(* history_browse_index_ names an entry, also when a lookup that was under *)
(* way has rewritten the history since the user began to browse it.        *)
BrowseIndexInRange == browse.index # None => browse.index < Len(app.history)

(* The history and the favorites hold canonical queries, each once, and    *)
(* the history keeps to its limit.                                         *)
SavedQueriesWellFormed ==
  /\ NoDuplicates(app.history) /\ NoDuplicates(app.favorites)
  /\ \A t \in ToSet(app.history) \cup ToSet(app.favorites) : Stable(t)
  /\ Len(app.history) <= HistoryLimit

(* The last successful query heads the history until another succeeds,     *)
(* provided the history is kept and the query can be stored.               *)
LastSuccessHeadsHistory ==
  lastSuccess # None /\ Stable(lastSuccess) /\ HistoryLimit > 0 =>
    app.history # <<>> /\ Head(app.history) = lastSuccess

(* What the Saved view offers is what is saved.                            *)
SavedViewCurrent == saved = SavedList(app)

(* Without a message about the local state, a restart at this very moment  *)
(* would find the saved queries as they are.                               *)
QuietMeansDurable == storage = "clear" => Loaded(file) = app

(* Asking to quit ends the process, with a lookup under way or not, unless *)
(* it is killed before.                                                    *)
Leaving == quit \/ "exit" \in ToSet(tasks)
QuitEnds == Leaving ~> (~Leaving \/ ui = "exited")

-----------------------------------------------------------------------------
(* The session promises what LookupSession states, which includes that a   *)
(* lookup is answered unless the user leaves first.                        *)
Closed == ui \in {"stopping", "exited"}
OnDisplay ==
  {pane.query : pane \in {p \in {screen.structured, screen.json} :
                            p.kind \in {"response", "unavailable"}}}

Lookups == INSTANCE LookupSession WITH
  Queries <- Texts,
  status  <- IF Closed THEN "closed" ELSE IF Busy THEN "busy" ELSE screen.state,
  query   <- worker.query,
  shown   <- IF Closed THEN {} ELSE OnDisplay

ImplementsLookupSession == Lookups!Spec

=============================================================================
