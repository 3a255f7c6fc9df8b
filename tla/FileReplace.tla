---------------------------- MODULE FileReplace ----------------------------
(***************************************************************************)
(* How write_json_atomically in app_state.cpp and BootstrapCache::write in *)
(* bootstrap_cache.cpp replace a file: the document goes to `<path>.tmp',  *)
(* which is then renamed.  The name is the same for every process, and     *)
(* std::ofstream hands the last bytes to the system only when it closes,   *)
(* after the code has looked at good().                                    *)
(*                                                                         *)
(* A document has two parts: the head is written while the JSON is put     *)
(* out, the tail when the stream is closed.  A part of a file names the    *)
(* document its bytes are from, or is None where nothing was written.      *)
(***************************************************************************)
CONSTANTS
  Writers,     \* the processes
  Documents,   \* what they store
  Files,       \* the files there can be at a time, named or only open
  LossyClose,  \* whether closing can lose the tail, on a full disk say
  None,
  Damaged      \* what a reader finds when the file is no document

ASSUME NoneAssumption == None \notin Documents \cup Files \cup BOOLEAN /\ Damaged \notin Documents \cup {None}
ASSUME LossyCloseAssumption == LossyClose \in BOOLEAN

VARIABLES
  data,   \* the contents of each file
  path,   \* the file called <path>, or None
  tmp,    \* the file called <path>.tmp, or None
  pc,     \* where each writer is
  doc,    \* the document it is writing, or None
  open,   \* the file its stream is open on, or None
  result  \* what its last write returned, or None

fileVars == <<data, path, tmp>>
vars == <<fileVars, pc, doc, open, result>>

Empty == [head |-> None, tail |-> None]
Contents == [head : Documents \cup {None}, tail : Documents \cup {None}]

Init ==
  /\ data = [f \in Files |-> Empty] /\ path = None /\ tmp = None
  /\ pc = [w \in Writers |-> "idle"] /\ doc = [w \in Writers |-> None]
  /\ open = [w \in Writers |-> None] /\ result = [w \in Writers |-> None]

InUse == {path, tmp} \cup {open[w] : w \in Writers}

-----------------------------------------------------------------------------
Begin(w, d) ==
  /\ pc[w] = "idle" /\ pc' = [pc EXCEPT ![w] = "open"]
  /\ doc' = [doc EXCEPT ![w] = d] /\ result' = [result EXCEPT ![w] = None]
  /\ UNCHANGED <<fileVars, open>>

(* The call is over; a stream still open is closed. *)
Leave(w, answer) ==
  /\ pc' = [pc EXCEPT ![w] = "idle"] /\ doc' = [doc EXCEPT ![w] = None]
  /\ open' = [open EXCEPT ![w] = None] /\ result' = [result EXCEPT ![w] = answer]

(* There is no directory, or the file cannot be opened. *)
CannotOpen(w) == pc[w] = "open" /\ Leave(w, FALSE) /\ UNCHANGED fileVars

(* std::ios::trunc: a file that is there already is emptied.               *)
Open(w) ==
  /\ pc[w] = "open" /\ pc' = [pc EXCEPT ![w] = "head"]
  /\ \E f \in (IF tmp = None THEN Files \ InUse ELSE {tmp}) :
        /\ tmp' = f /\ data' = [data EXCEPT ![f] = Empty]
        /\ open' = [open EXCEPT ![w] = f]
  /\ UNCHANGED <<path, doc, result>>

(* A part of the document reaches the file. *)
HeadWritten(f, d) == [data EXCEPT ![f] = [head |-> d, tail |-> data[f].tail]]
TailWritten(f, d) == [data EXCEPT ![f] = [head |-> data[f].head, tail |-> d]]

(* output << json, and good().  When the system took less than it was      *)
(* given, the file is left behind and the write reports failure.           *)
(* (WriteUnchecked: good() is not looked at.)                              *)
WriteUnchecked(w) ==
  /\ pc[w] = "head" /\ pc' = [pc EXCEPT ![w] = "tail"]
  /\ data' \in {data, HeadWritten(open[w], doc[w])}
  /\ UNCHANGED <<path, tmp, doc, open, result>>
Write(w) ==
  /\ pc[w] = "head"
  /\ \/ /\ pc' = [pc EXCEPT ![w] = "tail"]
        /\ data' = HeadWritten(open[w], doc[w])
        /\ UNCHANGED <<doc, open, result>>
     \/ Leave(w, FALSE) /\ UNCHANGED data
  /\ UNCHANGED <<path, tmp>>

(* The end of the block closes the stream; nobody sees whether it failed.  *)
Close(w) ==
  /\ pc[w] = "tail" /\ pc' = [pc EXCEPT ![w] = "rename"]
  /\ open' = [open EXCEPT ![w] = None]
  /\ \/ data' = TailWritten(open[w], doc[w])
     \/ LossyClose /\ UNCHANGED data
  /\ UNCHANGED <<path, tmp, doc, result>>

(* std::filesystem::rename.  It fails when another process was faster.     *)
(* (RenameKeepsName: the file keeps the temporary name as well.)           *)
RenameKeepsName(w) ==
  /\ pc[w] = "rename" /\ tmp # None
  /\ path' = tmp /\ Leave(w, TRUE) /\ UNCHANGED <<data, tmp>>
Rename(w) ==
  /\ pc[w] = "rename" /\ tmp # None
  /\ path' = tmp /\ tmp' = None /\ Leave(w, TRUE) /\ UNCHANGED data

CannotRename(w) == pc[w] = "rename" /\ Leave(w, FALSE) /\ UNCHANGED fileVars

(* The process dies: what the system was given stays, the rest is lost. *)
Crash(w) == pc[w] # "idle" /\ Leave(w, None) /\ UNCHANGED fileVars

Next == \E w \in Writers :
  \/ \E d \in Documents : Begin(w, d)
  \/ CannotOpen(w) \/ Open(w) \/ Write(w) \/ Close(w)
  \/ Rename(w) \/ CannotRename(w) \/ Crash(w)

Spec == Init /\ [][Next]_vars

-----------------------------------------------------------------------------
TypeOK ==
  /\ data \in [Files -> Contents]
  /\ path \in Files \cup {None} /\ tmp \in Files \cup {None}
  /\ pc \in [Writers -> {"idle", "open", "head", "tail", "rename"}]
  /\ doc \in [Writers -> Documents \cup {None}]
  /\ open \in [Writers -> Files \cup {None}]
  /\ result \in [Writers -> BOOLEAN \cup {None}]

IsDocument(f) == data[f].head = data[f].tail /\ data[f].head # None

(* What a reader finds. *)
Content ==
  IF path = None THEN None ELSE IF IsDocument(path) THEN data[path].head ELSE Damaged

(* No stream is open on the file that readers see, so that a writer that   *)
(* is interrupted only spoils the temporary file.                          *)
ReadersUndisturbed == \A w \in Writers : open[w] # None => open[w] # path

(* A single process replaces the file in one step or not at all.           *)
Atomic == INSTANCE AtomicFile WITH content <- Content, writing <- doc, answer <- result
ImplementsAtomicFile == Atomic!Spec

(* bootstrap_cache_test.cpp: "write is atomic": whatever the processes do, *)
(* a reader never finds a damaged document.                                *)
NeverDamaged == Content # Damaged

(* bootstrap_cache.hpp: all failures are reported as false: a write that   *)
(* reports success has stored the document.                                *)
SuccessMeansStored ==
  [][\A w \in Writers : result[w] = None /\ result'[w] = TRUE => Content' = doc[w]]_vars

=============================================================================
