----------------------------- MODULE AtomicFile -----------------------------
(***************************************************************************)
(* What the callers of BootstrapCache::write and AppStateStore::write rely *)
(* on: a write either replaces the document in one step and reports        *)
(* success, or leaves the old one and reports failure, and a reader finds  *)
(* a document that somebody wrote.                                         *)
(***************************************************************************)
CONSTANTS Writers, Documents, None

VARIABLES
  content,  \* the document a reader finds, or None
  writing,  \* the document each writer is about to store, or None
  answer    \* what the last write of each writer returned, or None

Init ==
  /\ content = None
  /\ writing = [w \in Writers |-> None] /\ answer = [w \in Writers |-> None]

Begin(w, d) ==
  /\ writing[w] = None /\ writing' = [writing EXCEPT ![w] = d]
  /\ answer' = [answer EXCEPT ![w] = None] /\ UNCHANGED content

Finish(w, success) ==
  /\ writing[w] # None /\ writing' = [writing EXCEPT ![w] = None]
  /\ answer' = [answer EXCEPT ![w] = success]

Succeed(w) == Finish(w, TRUE) /\ content' = writing[w]
Fail(w) == Finish(w, FALSE) /\ UNCHANGED content

Crash(w) ==
  /\ writing' = [writing EXCEPT ![w] = None] /\ answer' = [answer EXCEPT ![w] = None]
  /\ UNCHANGED content

Next == \E w \in Writers :
  \/ \E d \in Documents : Begin(w, d)
  \/ Succeed(w) \/ Fail(w) \/ Crash(w)

Spec == Init /\ [][Next]_<<content, writing, answer>>

=============================================================================
