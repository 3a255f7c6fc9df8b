------------------------- MODULE FileReplaceProofs -------------------------
(***************************************************************************)
(* A single process replaces the file atomically, for any documents, as    *)
(* long as closing a file loses nothing.  Both premises are needed.        *)
(***************************************************************************)
EXTENDS FileReplace, TLAPS

OneWriterOnly == \A v, w \in Writers : v = w

(* The temporary file is the writer's own until it is renamed, and by then *)
(* both parts of the document are in it.                                   *)
ReplaceInv ==
  /\ tmp # None => tmp # path
  /\ path # None => IsDocument(path)
  /\ \A w \in Writers :
       /\ pc[w] = "idle" <=> doc[w] = None
       /\ pc[w] \in {"head", "tail"} => open[w] = tmp /\ tmp # None
       /\ pc[w] \notin {"head", "tail"} => open[w] = None
       /\ pc[w] = "tail" => data[tmp].head = doc[w]
       /\ pc[w] = "rename" => tmp # None /\ data[tmp] = [head |-> doc[w], tail |-> doc[w]]

LEMMA InitType == Init => TypeOK
BY DEF Init, TypeOK, Empty, Contents

LEMMA NextType == TypeOK /\ [Next]_vars => TypeOK'
<1> SUFFICES ASSUME TypeOK, [Next]_vars PROVE TypeOK'
  OBVIOUS
<1> USE DEF TypeOK, fileVars
<1>1. CASE UNCHANGED vars
  BY <1>1 DEF vars
<1>2. ASSUME NEW w \in Writers, NEW d \in Documents, Begin(w, d) PROVE TypeOK'
  BY <1>2 DEF Begin
<1>3. ASSUME NEW w \in Writers, CannotOpen(w) \/ CannotRename(w) \/ Crash(w) PROVE TypeOK'
  BY <1>3 DEF CannotOpen, CannotRename, Crash, Leave
<1>4. ASSUME NEW w \in Writers, Open(w) PROVE TypeOK'
  BY <1>4 DEF Open, Empty, Contents
<1>5. ASSUME NEW w \in Writers, Write(w) PROVE TypeOK'
  <2>1. data' \in [Files -> Contents]
    BY <1>5, NoneAssumption DEF Write, HeadWritten, Leave, Contents
  <2> QED
    BY <1>5, <2>1 DEF Write, HeadWritten, Leave, Leave
<1>6. ASSUME NEW w \in Writers, Close(w) PROVE TypeOK'
  <2>1. data' \in [Files -> Contents]
    BY <1>6, NoneAssumption DEF Close, TailWritten, Contents
  <2> QED
    BY <1>6, <2>1 DEF Close
<1>7. ASSUME NEW w \in Writers, Rename(w) PROVE TypeOK'
  BY <1>7 DEF Rename, Leave, Leave
<1> QED
  BY <1>1, <1>2, <1>3, <1>4, <1>5, <1>6, <1>7 DEF Next

(* Every variable keeps to its type, however many processes write. *)
THEOREM TypeCorrect == Spec => []TypeOK
BY InitType, NextType, PTL DEF Spec

-----------------------------------------------------------------------------
LEMMA ReplaceInit == Init => ReplaceInv
BY DEF Init, ReplaceInv

(* The file a stream is open on is the temporary one. *)
LEMMA TemporaryFile ==
  ASSUME TypeOK, ReplaceInv, NEW w \in Writers, pc[w] \in {"head", "tail"}
  PROVE  open[w] = tmp /\ tmp \in Files /\ tmp # path /\ doc[w] # None
<1>1. open[w] = tmp /\ tmp # None /\ tmp # path /\ doc[w] # None
  BY DEF ReplaceInv
<1> QED
  BY <1>1 DEF TypeOK

LEMMA ReplaceNext ==
  ASSUME OneWriterOnly, LossyClose = FALSE
  PROVE  TypeOK /\ ReplaceInv /\ [Next]_vars => ReplaceInv'
<1> SUFFICES ASSUME TypeOK, ReplaceInv, [Next]_vars PROVE ReplaceInv'
  OBVIOUS
<1>0. /\ DOMAIN pc = Writers /\ DOMAIN doc = Writers /\ DOMAIN open = Writers
      /\ DOMAIN data = Files /\ path \in Files \cup {None}
      /\ pc = [w \in Writers |-> pc[w]] /\ doc = [w \in Writers |-> doc[w]]
      /\ open = [w \in Writers |-> open[w]] /\ data = [f \in Files |-> data[f]]
  BY DEF TypeOK
<1>1. CASE UNCHANGED vars
  BY <1>1 DEF vars, fileVars, ReplaceInv, IsDocument
<1>2. ASSUME NEW w \in Writers, NEW d \in Documents, Begin(w, d) PROVE ReplaceInv'
  BY <1>2, <1>0, NoneAssumption DEF Begin, fileVars, ReplaceInv, IsDocument
<1>3. ASSUME NEW w \in Writers, CannotOpen(w) \/ CannotRename(w) \/ Crash(w) PROVE ReplaceInv'
  BY <1>3, <1>0 DEF CannotOpen, CannotRename, Crash, Leave, fileVars, ReplaceInv, IsDocument
<1>4. ASSUME NEW w \in Writers, Open(w) PROVE ReplaceInv'
  BY <1>4, <1>0, NoneAssumption DEF Open, InUse, ReplaceInv, IsDocument, OneWriterOnly
<1>5. ASSUME NEW w \in Writers, Write(w) PROVE ReplaceInv'
  <2>1. open[w] = tmp /\ tmp \in Files /\ tmp # path
    BY <1>5, TemporaryFile DEF Write
  <2>2. CASE Leave(w, FALSE) /\ UNCHANGED data
    BY <1>5, <2>2, <1>0 DEF Write, Leave, ReplaceInv, IsDocument
  <2>3. CASE /\ pc' = [pc EXCEPT ![w] = "tail"]
             /\ data' = HeadWritten(open[w], doc[w])
             /\ UNCHANGED <<doc, open, result>>
    BY <1>5, <2>1, <2>3, <1>0 DEF Write, HeadWritten, ReplaceInv, IsDocument, OneWriterOnly
  <2> QED
    BY <1>5, <2>2, <2>3 DEF Write
<1>6. ASSUME NEW w \in Writers, Close(w) PROVE ReplaceInv'
  <2>1. open[w] = tmp /\ tmp \in Files /\ tmp # path /\ tmp # None
    BY <1>6, TemporaryFile, NoneAssumption DEF Close
  <2>2. data' = TailWritten(tmp, doc[w]) /\ data[tmp].head = doc[w]
    BY <1>6, <2>1 DEF Close, ReplaceInv
  <2> QED
    BY <1>6, <2>1, <2>2, <1>0 DEF Close, TailWritten, ReplaceInv, IsDocument, OneWriterOnly
<1>7. ASSUME NEW w \in Writers, Rename(w) PROVE ReplaceInv'
  <2>1. data[tmp] = [head |-> doc[w], tail |-> doc[w]] /\ doc[w] # None
    BY <1>7 DEF Rename, ReplaceInv
  <2>2. IsDocument(path)'
    BY <1>7, <2>1 DEF Rename, IsDocument
  <2> QED
    BY <1>7, <2>2, <1>0 DEF Rename, Leave, ReplaceInv, OneWriterOnly
<1> QED
  BY <1>1, <1>2, <1>3, <1>4, <1>5, <1>6, <1>7 DEF Next

(* A writer that is interrupted spoils the temporary file only. *)
THEOREM Undisturbed ==
  ASSUME OneWriterOnly, LossyClose = FALSE
  PROVE  Spec => []ReadersUndisturbed
<1>1. ReplaceInv => ReadersUndisturbed
  BY DEF ReplaceInv, ReadersUndisturbed
<1> QED
  BY <1>1, ReplaceInit, ReplaceNext, TypeCorrect, PTL DEF Spec

-----------------------------------------------------------------------------
LEMMA AtomicInit == Init => Atomic!Init
BY DEF Init, Atomic!Init, Content

LEMMA AtomicNext ==
  ASSUME OneWriterOnly, LossyClose = FALSE
  PROVE  TypeOK /\ ReplaceInv /\ [Next]_vars => [Atomic!Next]_<<Content, doc, result>>
<1> SUFFICES ASSUME TypeOK, ReplaceInv, [Next]_vars
             PROVE  [Atomic!Next]_<<Content, doc, result>>
  OBVIOUS
<1>0. /\ DOMAIN pc = Writers /\ DOMAIN doc = Writers /\ DOMAIN data = Files
      /\ path \in Files \cup {None}
  BY DEF TypeOK
<1>1. CASE UNCHANGED vars
  BY <1>1 DEF vars, fileVars, Content, IsDocument
<1>2. ASSUME NEW w \in Writers, NEW d \in Documents, Begin(w, d)
      PROVE  Atomic!Next
  <2>1. UNCHANGED Content
    BY <1>2 DEF Begin, fileVars, Content, IsDocument
  <2> QED
    BY <1>2, <2>1 DEF Begin, ReplaceInv, Atomic!Next, Atomic!Begin
<1>3. ASSUME NEW w \in Writers, CannotOpen(w) \/ CannotRename(w) PROVE Atomic!Next
  <2>1. UNCHANGED Content
    BY <1>3 DEF CannotOpen, CannotRename, fileVars, Content, IsDocument
  <2>2. Atomic!Fail(w)
    BY <1>3, <2>1 DEF CannotOpen, CannotRename, Leave, ReplaceInv, Atomic!Fail, Atomic!Finish
  <2> QED
    BY <2>2 DEF Atomic!Next
<1>4. ASSUME NEW w \in Writers, Crash(w) PROVE Atomic!Next
  <2>1. UNCHANGED Content
    BY <1>4 DEF Crash, fileVars, Content, IsDocument
  <2> QED
    BY <1>4, <2>1 DEF Crash, Leave, Atomic!Next, Atomic!Crash
<1>5. ASSUME NEW w \in Writers, Open(w) PROVE UNCHANGED <<Content, doc, result>>
  <2>1. PICK f \in Files : f # path /\ data' = [data EXCEPT ![f] = Empty]
    <3>1. tmp # None => tmp \in Files /\ tmp # path
      BY DEF ReplaceInv, TypeOK
    <3> QED
      BY <1>5, <3>1 DEF Open, InUse
  <2>2. UNCHANGED Content
    BY <1>5, <2>1, <1>0 DEF Open, Content, IsDocument
  <2> QED
    BY <1>5, <2>2 DEF Open
<1>6. ASSUME NEW w \in Writers, Write(w)
      PROVE  UNCHANGED <<Content, doc, result>> \/ Atomic!Next
  <2>1. open[w] \in Files /\ open[w] # path
    BY <1>6, TemporaryFile DEF Write
  <2>2. UNCHANGED Content
    BY <1>6, <2>1, <1>0 DEF Write, HeadWritten, Content, IsDocument
  <2>3. CASE Leave(w, FALSE)
    <3>1. Atomic!Fail(w)
      BY <1>6, <2>2, <2>3 DEF Write, HeadWritten, Leave, ReplaceInv, Atomic!Fail, Atomic!Finish
    <3> QED
      BY <3>1 DEF Atomic!Next
  <2> QED
    BY <1>6, <2>2, <2>3 DEF Write
<1>7. ASSUME NEW w \in Writers, Close(w) PROVE UNCHANGED <<Content, doc, result>>
  <2>1. open[w] \in Files /\ open[w] # path
    BY <1>7, TemporaryFile DEF Close
  <2>2. UNCHANGED Content
    BY <1>7, <2>1, <1>0 DEF Close, TailWritten, Content, IsDocument
  <2> QED
    BY <1>7, <2>2 DEF Close
<1>8. ASSUME NEW w \in Writers, Rename(w) PROVE Atomic!Next
  <2>1. /\ data[tmp] = [head |-> doc[w], tail |-> doc[w]] /\ doc[w] # None /\ tmp # None
        /\ path' = tmp /\ data' = data
    BY <1>8 DEF Rename, ReplaceInv
  <2>3. Content' = doc[w]
    BY <2>1 DEF Content, IsDocument
  <2>2. Atomic!Succeed(w)
    BY <1>8, <2>1, <2>3 DEF Rename, Leave, Atomic!Succeed, Atomic!Finish
  <2> QED
    BY <2>2 DEF Atomic!Next
<1> QED
  BY <1>1, <1>2, <1>3, <1>4, <1>5, <1>6, <1>7, <1>8 DEF Next

(* One process alone replaces the file in one step or not at all, and says *)
(* which: write_json_atomically and BootstrapCache::write are what their   *)
(* callers take them for.                                                  *)
THEOREM SingleWriterIsAtomic ==
  ASSUME OneWriterOnly, LossyClose = FALSE
  PROVE  Spec => ImplementsAtomicFile
BY AtomicInit, AtomicNext, ReplaceInit, ReplaceNext, TypeCorrect, PTL
DEF Spec, ImplementsAtomicFile, Atomic!Spec

(* One process alone never leaves a damaged document for readers, and when *)
(* it reports success the document is stored: what the header and the test *)
(* of the bootstrap cache say holds under these premises, and only then.   *)
THEOREM NeverDamagedAlone ==
  ASSUME OneWriterOnly, LossyClose = FALSE
  PROVE  Spec => []NeverDamaged
<1>1. TypeOK /\ ReplaceInv => NeverDamaged
  <2> SUFFICES ASSUME TypeOK, ReplaceInv PROVE Content # Damaged
    BY DEF NeverDamaged
  <2>1. CASE path = None
    BY <2>1, NoneAssumption DEF Content
  <2>2. CASE path # None
    <3>1. IsDocument(path) /\ data[path] \in Contents
      BY <2>2 DEF ReplaceInv, TypeOK
    <3>2. data[path].head \in Documents
      BY <3>1 DEF Contents, IsDocument
    <3> QED
      BY <2>2, <3>1, <3>2, NoneAssumption DEF Content
  <2> QED
    BY <2>1, <2>2
<1> QED
  BY <1>1, ReplaceInit, ReplaceNext, TypeCorrect, PTL DEF Spec

(* A success is a step of the abstract file, which stores the document. *)
THEOREM SuccessIsStorage ==
  ASSUME OneWriterOnly, LossyClose = FALSE
  PROVE  Spec => SuccessMeansStored
<1> DEFINE Stored == \A w \in Writers : result[w] = None /\ result'[w] = TRUE => Content' = doc[w]
<1>1. TypeOK /\ [Atomic!Next]_<<Content, doc, result>> => Stored
  <2> SUFFICES ASSUME TypeOK, [Atomic!Next]_<<Content, doc, result>>, NEW w \in Writers,
                      result[w] = None, result'[w] = TRUE
               PROVE  Content' = doc[w]
    OBVIOUS
  <2>0. DOMAIN result = Writers /\ result[w] # result'[w]
    BY NoneAssumption DEF TypeOK
  <2> QED
    BY <2>0 DEF TypeOK, Atomic!Next, Atomic!Begin, Atomic!Fail, Atomic!Succeed, Atomic!Crash, Atomic!Finish
<1> QED
  BY <1>1, AtomicNext, ReplaceInit, ReplaceNext, TypeCorrect, PTL DEF Spec, SuccessMeansStored

=============================================================================
