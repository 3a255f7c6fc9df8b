--------------------------- MODULE LookupSession ---------------------------
(***************************************************************************)
(* What the interface of tui_app.cpp promises about lookups, without its   *)
(* threads, queues and locks: at most one lookup is under way, a lookup    *)
(* that was accepted has exactly one outcome, and every response on        *)
(* display, in whichever pane, is the one for the query asked last.        *)
(***************************************************************************)
CONSTANTS Queries,   \* the queries that can be looked up
          None       \* no query

VARIABLES status,    \* what the status line says
          query,     \* the query of the latest accepted lookup
          shown      \* the queries of which the panes display something

vars == <<status, query, shown>>

Init == status = "idle" /\ query = None /\ shown = {}

(* A lookup is accepted only when none is under way. *)
Submit(q) ==
  /\ status \in {"idle", "success", "error"}
  /\ status' = "busy" /\ query' = q /\ shown' = {}

(* A text that is not a query replaces the display with its error. *)
Reject ==
  /\ status \in {"idle", "success", "error"}
  /\ status' = "error" /\ shown' = {} /\ UNCHANGED query

Succeed == status = "busy" /\ status' = "success" /\ shown' = {query} /\ UNCHANGED query

Fail == status = "busy" /\ status' = "error" /\ shown' = {} /\ UNCHANGED query

(* The user leaves; an outcome still owed is never shown. *)
Close ==
  /\ status # "closed"
  /\ status' = "closed" /\ shown' = {} /\ UNCHANGED query

(* The program is started (again). *)
Open == status' = "idle" /\ query' = None /\ shown' = {}

Next == (\E q \in Queries : Submit(q)) \/ Reject \/ Succeed \/ Fail \/ Close \/ Open

(* A lookup under way does not stay so: it is answered, or the session ends. *)
Answer == Succeed \/ Fail \/ (status = "busy" /\ Close)
Spec == Init /\ [][Next]_vars /\ WF_vars(Answer)

=============================================================================
