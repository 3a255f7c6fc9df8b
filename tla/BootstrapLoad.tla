--------------------------- MODULE BootstrapLoad ---------------------------
(***************************************************************************)
(* How rdap_client.cpp obtains one IANA bootstrap registry: from the       *)
(* memory of the client, from the disk cache several rdap-tui processes    *)
(* share, or from IANA, which replaces the document from time to time.     *)
(*                                                                         *)
(* A document is named by its version.  A validator (ETag, Last-Modified)  *)
(* is the version it was issued for.  system_clock is real time, until     *)
(* somebody sets the clock back.                                           *)
(***************************************************************************)
EXTENDS Integers

CONSTANTS
  Procs,         \* the running processes
  MaxVersion,    \* bound: IANA publishes the versions 1 .. MaxVersion
  Parsable,      \* the bodies the registry parser accepts
  MaxAges,       \* the max-age values IANA sends
  MaxTime,       \* bound: time stops there
  MaxLag,        \* bound: the clock is set back by so much, all in all
  InitialDisks,  \* what the cache file may hold at first
  None

Versions == 1 .. MaxVersion
Times == 0 .. MaxTime
ClockTimes == -MaxLag .. MaxTime
Bodies == 0 .. MaxVersion   \* 0 is a body IANA never sent: a damaged file

ASSUME BoundsAssumption ==
  MaxVersion \in Nat \ {0} /\ MaxTime \in Nat /\ MaxLag \in Nat /\ MaxAges \subseteq Nat
ASSUME NoneAssumption == None \notin Int
ASSUME ParsableAssumption == Parsable \subseteq Versions

Entries == [body : Bodies, etag : Versions \cup {None}, cachedAt : ClockTimes, maxAge : MaxAges]
ASSUME InitialDisksAssumption == InitialDisks \subseteq Entries \cup {None}

VARIABLES
  now,        \* real time
  lag,        \* by how much the clock was set back
  served,     \* the version IANA serves
  replaced,   \* when each version was replaced, or None
  disk,       \* the cache file: an entry, or None
  memory,     \* the registry in each client's memory, or None
  pc,         \* where each process is in load_bootstrap
  cached,     \* its `cached'
  stamp,      \* its `now'
  reply,      \* what HttpClient::get returned
  result      \* what load_bootstrap returned

envVars == <<now, lag, served, replaced>>
vars == <<envVars, disk, memory, pc, cached, stamp, reply, result>>

Failures == {"server_error", "client_error", "transport", "cancelled"}
Failure(kind) == [kind |-> kind, body |-> None, etag |-> None, maxAge |-> None]
Replies == {Failure(kind) : kind \in Failures} \cup
           [kind : {"ok"}, body : Versions, etag : Versions \cup {None}, maxAge : MaxAges] \cup
           [kind : {"not_modified"}, body : {None}, etag : Versions \cup {None}, maxAge : MaxAges]

Registry(v) == [kind |-> "registry", body |-> v]
Error(kind) == [kind |-> kind, body |-> None]
Answers == [kind : {"registry"}, body : Bodies] \cup
           [kind : Failures \cup {"parse"}, body : {None}]

Init ==
  /\ now = 0 /\ lag = 0 /\ served = 1 /\ replaced = [v \in Versions |-> None]
  /\ disk \in InitialDisks
  /\ memory = [p \in Procs |-> None]
  /\ pc = [p \in Procs |-> "idle"]
  /\ cached = [p \in Procs |-> None] /\ stamp = [p \in Procs |-> 0]
  /\ reply = [p \in Procs |-> None] /\ result = [p \in Procs |-> None]

-----------------------------------------------------------------------------
Clock == now - lag

(* classify_bootstrap_freshness: what is dated in the future has age 0.    *)
(* (FreshUnclamped: its age is negative, and less than any max-age.)       *)
FreshUnclamped(entry, time) == time - entry.cachedAt < entry.maxAge
Fresh(entry, time) ==
  LET age == IF time < entry.cachedAt THEN 0 ELSE time - entry.cachedAt
  IN  age < entry.maxAge

(* The parser on a body. *)
Parse(body) == IF body \in Parsable THEN Registry(body) ELSE Error("parse")

(* updated_cache_entry, dated with the clock as read before the request.   *)
(* (EntryOnArrival: dated when the response has arrived.  EntryMerging:    *)
(* a missing validator is always taken from the old entry.)                *)
EntryOnArrival(p, body, etag) ==
  [body |-> body, etag |-> etag, cachedAt |-> Clock, maxAge |-> reply[p].maxAge]
EntryMerging(p, body, etag) ==
  [body |-> body, etag |-> IF etag = None /\ cached[p] # None THEN cached[p].etag ELSE etag,
   cachedAt |-> stamp[p], maxAge |-> reply[p].maxAge]
UpdatedEntry(p, body, etag) ==
  [body |-> body, etag |-> etag, cachedAt |-> stamp[p], maxAge |-> reply[p].maxAge]

(* BootstrapCache::write, whose failure nobody looks at.  The entry is     *)
(* stored, the old one stays, or the file is damaged and reads as missing  *)
(* (see FileReplace).                                                      *)
Store(entry) == disk' \in {entry, disk, None}

(* The locals of load_bootstrap are gone. *)
Forget(p) ==
  /\ pc' = [pc EXCEPT ![p] = "idle"]
  /\ cached' = [cached EXCEPT ![p] = None]
  /\ stamp' = [stamp EXCEPT ![p] = 0]
  /\ reply' = [reply EXCEPT ![p] = None]

(* load_bootstrap returns; a registry is kept in memory. *)
Return(p, answer) ==
  /\ result' = [result EXCEPT ![p] = answer]
  /\ memory' = IF answer.kind = "registry" THEN [memory EXCEPT ![p] = answer.body] ELSE memory
  /\ Forget(p)

-----------------------------------------------------------------------------
(* domain_bootstrap and its siblings, under bootstrap_mutex_. *)
Begin(p) ==
  /\ pc[p] = "idle"
  /\ \/ memory[p] # None /\ Return(p, Registry(memory[p]))
     \/ /\ memory[p] = None
        /\ pc' = [pc EXCEPT ![p] = "read"]
        /\ result' = [result EXCEPT ![p] = None]
        /\ UNCHANGED <<memory, cached, stamp, reply>>
  /\ UNCHANGED <<envVars, disk>>

(* disk_cache->read.  The file is missing when there is no cache directory. *)
ReadCache(p) ==
  /\ pc[p] = "read" /\ pc' = [pc EXCEPT ![p] = "classify"]
  /\ cached' = [cached EXCEPT ![p] = disk]
  /\ UNCHANGED <<envVars, disk, memory, stamp, reply, result>>

HasFresh(p) == cached[p] # None /\ Fresh(cached[p], Clock)

(* A fresh entry is served, unless it does not parse: then it is dropped.  *)
ServeFresh(p) ==
  /\ pc[p] = "classify" /\ HasFresh(p) /\ cached[p].body \in Parsable
  /\ Return(p, Registry(cached[p].body))
  /\ UNCHANGED <<envVars, disk>>

Request(p) ==
  /\ pc[p] = "classify" /\ ~(HasFresh(p) /\ cached[p].body \in Parsable)
  /\ stamp' = [stamp EXCEPT ![p] = Clock]
  /\ cached' = IF HasFresh(p) THEN [cached EXCEPT ![p] = None] ELSE cached
  /\ pc' = [pc EXCEPT ![p] = "request"]
  /\ UNCHANGED <<envVars, disk, memory, reply, result>>

(* IANA sees the request, with the validator of the entry if there is one. *)
FullReplies == [kind : {"ok"}, body : {served}, etag : {served, None}, maxAge : MaxAges]
NotModifiedReplies ==
  [kind : {"not_modified"}, body : {None}, etag : {served, None}, maxAge : MaxAges]
Validated(p) == cached[p] # None /\ cached[p].etag = served

Respond(p) ==
  /\ pc[p] = "request" /\ pc' = [pc EXCEPT ![p] = "receive"]
  /\ \E r \in (IF Validated(p) THEN NotModifiedReplies ELSE FullReplies)
              \cup {Failure(kind) : kind \in Failures} : reply' = [reply EXCEPT ![p] = r]
  /\ UNCHANGED <<envVars, disk, memory, cached, stamp, result>>

(* The response has arrived, possibly long after it was sent.              *)
(* (FallBackAlways: a cancelled request falls back to the stale entry too. *)
(* FallBackOffline: a server error does not.)                              *)
FallBackOffline(p) == cached[p] # None /\ reply[p].kind = "transport"
FallBackAlways(p) ==
  cached[p] # None /\ reply[p].kind \in {"transport", "cancelled", "server_error"}
FallsBack(p) == cached[p] # None /\ reply[p].kind \in {"transport", "server_error"}

FallBack(p) == FallsBack(p) /\ Return(p, Parse(cached[p].body)) /\ UNCHANGED disk

Fail(p) ==
  /\ ~FallsBack(p) /\ reply[p].kind \in Failures
  /\ Return(p, Error(reply[p].kind)) /\ UNCHANGED disk

(* 304: the body is kept, and the old validator unless there is a new one. *)
KeptValidator(p) == IF reply[p].etag # None THEN reply[p].etag ELSE cached[p].etag

(* (RevalidateEmpty: the body of the 304 itself is stored.)                *)
RevalidateEmpty(p) ==
  /\ reply[p].kind = "not_modified"
  /\ Store(UpdatedEntry(p, reply[p].body, KeptValidator(p)))
  /\ Return(p, Parse(cached[p].body))
Revalidate(p) ==
  /\ reply[p].kind = "not_modified"
  /\ Store(UpdatedEntry(p, cached[p].body, KeptValidator(p)))
  /\ Return(p, Parse(cached[p].body))

(* 200: the body is stored only if it parses.                              *)
(* (ReplaceUnchecked: stored before it is parsed.)                         *)
ReplaceUnchecked(p) ==
  /\ reply[p].kind = "ok"
  /\ Store(UpdatedEntry(p, reply[p].body, reply[p].etag))
  /\ Return(p, Parse(reply[p].body))
Replace(p) ==
  /\ reply[p].kind = "ok"
  /\ \/ reply[p].body \in Parsable /\ Store(UpdatedEntry(p, reply[p].body, reply[p].etag))
     \/ reply[p].body \notin Parsable /\ UNCHANGED disk
  /\ Return(p, Parse(reply[p].body))

Receive(p) ==
  /\ pc[p] = "receive"
  /\ FallBack(p) \/ Fail(p) \/ Revalidate(p) \/ Replace(p)
  /\ UNCHANGED envVars

(* A process ends, at any point, and is started again. *)
Restart(p) ==
  /\ Forget(p)
  /\ memory' = [memory EXCEPT ![p] = None] /\ result' = [result EXCEPT ![p] = None]
  /\ UNCHANGED <<envVars, disk>>

Step(p) == ReadCache(p) \/ ServeFresh(p) \/ Request(p) \/ Respond(p) \/ Receive(p)

Tick ==
  /\ now < MaxTime /\ now' = now + 1
  /\ UNCHANGED <<lag, served, replaced, disk, memory, pc, cached, stamp, reply, result>>

(* The clock is set back. *)
SetBack ==
  /\ \E l \in (lag + 1) .. MaxLag : lag' = l
  /\ UNCHANGED <<now, served, replaced, disk, memory, pc, cached, stamp, reply, result>>

(* IANA replaces the document. *)
Publish ==
  /\ served < MaxVersion /\ served' = served + 1
  /\ replaced' = [replaced EXCEPT ![served] = now]
  /\ UNCHANGED <<now, lag, disk, memory, pc, cached, stamp, reply, result>>

Next == Tick \/ SetBack \/ Publish \/ \E p \in Procs : Begin(p) \/ Step(p) \/ Restart(p)

Spec == Init /\ [][Next]_vars

-----------------------------------------------------------------------------
TypeOK ==
  /\ now \in Times /\ lag \in 0 .. MaxLag /\ served \in Versions
  /\ replaced \in [Versions -> Times \cup {None}]
  /\ disk \in Entries \cup {None}
  /\ memory \in [Procs -> Bodies \cup {None}]
  /\ pc \in [Procs -> {"idle", "read", "classify", "request", "receive"}]
  /\ cached \in [Procs -> Entries \cup {None}]
  /\ stamp \in [Procs -> ClockTimes]
  /\ reply \in [Procs -> Replies \cup {None}]
  /\ result \in [Procs -> Answers \cup {None}]

(* The validator in the cache file always belongs to the body stored with  *)
(* it, whichever processes wrote last and however late: otherwise a 304    *)
(* would extend the life of a document it does not speak of.               *)
ValidatorMatchesBody == disk # None => disk.etag \in {disk.body, None}

(* No document in the cache file had been replaced already at the time the *)
(* entry is dated: the clock is read before the request, and a response    *)
(* that is delayed does not look newer than it is.                         *)
DatedBeforeReplaced ==
  disk # None /\ disk.body \in Versions /\ replaced[disk.body] # None =>
    replaced[disk.body] >= disk.cachedAt

(* An answer given without asking IANA is never a document that was        *)
(* replaced max-age ago or longer, plus what the clock was set back        *)
(* meanwhile; and one that IANA said not to keep (max-age=0) is never      *)
(* given, even if the clock makes it look dated in the future.             *)
StalenessBounded ==
  [][\A p \in Procs : ServeFresh(p) =>
       LET gone == replaced[cached[p].body]
       IN  /\ cached[p].maxAge > 0
           /\ gone # None => now - gone < cached[p].maxAge + lag]_vars

(* A load that was cancelled ends as cancelled: it neither falls back to   *)
(* the cache nor leaves a registry behind.                                 *)
CancelledStaysCancelled ==
  [][\A p \in Procs : Receive(p) /\ reply[p].kind = "cancelled" =>
       /\ result'[p] = Error("cancelled")
       /\ UNCHANGED <<disk, memory>>]_vars

(* A body that does not parse never enters the cache file: whatever is     *)
(* there was accepted by the parser.                                       *)
DiskParses == disk # None => disk.body \in Parsable

(* An unreachable IANA is no reason to fail while an old entry that parses *)
(* is at hand, whatever the way in which it is unreachable.                *)
OutageNeedsNoCache ==
  [][\A p \in Procs : Receive(p) /\ reply[p].kind \in {"transport", "server_error"} =>
       (cached[p] # None /\ cached[p].body \in Parsable =>
          memory'[p] = cached[p].body)]_vars

(* rdap_client.cpp: "A schema-valid but unparsable cached body must never  *)
(* fail a lookup": a load that IANA answered ends in a parse error only    *)
(* when the body of that answer does not parse.                            *)
CachedBodyNeverFails ==
  [][\A p \in Procs : Receive(p) /\ reply[p].kind = "not_modified" =>
       result'[p] # Error("parse")]_vars

=============================================================================
