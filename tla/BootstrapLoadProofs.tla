------------------------ MODULE BootstrapLoadProofs ------------------------
(***************************************************************************)
(* Theorems about BootstrapLoad, for any number of processes and versions, *)
(* any parser, any max-age and any clock.                                  *)
(***************************************************************************)
EXTENDS BootstrapLoad, TLAPS

(* A response that has arrived is one, and a 304 answers the validator of  *)
(* an entry.                                                               *)
Arrived(p) ==
  /\ reply[p] \in Replies
  /\ reply[p].kind = "not_modified" => cached[p] # None
TypeInv == TypeOK /\ \A p \in Procs : pc[p] = "receive" => Arrived(p)

(* The clock is never ahead of real time. *)
LEMMA ClockType ==
  /\ \A time \in Times : time \in ClockTimes /\ time \in Nat
  /\ \A time \in ClockTimes : time \in Int
  /\ 0 \in Times /\ \A age \in MaxAges : age \in Nat
  /\ TypeOK => Clock \in ClockTimes /\ Clock <= now /\ now \in Nat /\ lag \in Nat
BY BoundsAssumption DEF Times, ClockTimes, TypeOK, Clock

LEMMA ReplyType ==
  ASSUME NEW r \in Replies
  PROVE  /\ r.kind \in {"ok", "not_modified"} \cup Failures
         /\ r.kind \in {"ok", "not_modified"} =>
              r.etag \in Versions \cup {None} /\ r.maxAge \in MaxAges
         /\ r.kind = "ok" => r.body \in Versions
BY DEF Replies, Failure, Failures

LEMMA ServerReplyType ==
  ASSUME TypeOK
  PROVE  /\ \A kind \in Failures : Failure(kind) \in Replies
         /\ FullReplies \subseteq Replies /\ NotModifiedReplies \subseteq Replies
BY DEF TypeOK, Replies, Failure, Failures, FullReplies, NotModifiedReplies

LEMMA AnswerType ==
  /\ \A v \in Bodies : Parse(v) \in Answers /\ Registry(v) \in Answers
  /\ \A kind \in Failures : Error(kind) \in Answers
BY DEF Parse, Registry, Error, Answers, Failures

(* load_bootstrap returns an answer: what that leaves. *)
LEMMA ReturnType ==
  ASSUME TypeInv, NEW p \in Procs, NEW answer \in Answers, Return(p, answer)
  PROVE  /\ memory' \in [Procs -> Bodies \cup {None}]
         /\ result' \in [Procs -> Answers \cup {None}]
         /\ pc' \in [Procs -> {"idle", "read", "classify", "request", "receive"}]
         /\ cached' \in [Procs -> Entries \cup {None}]
         /\ stamp' \in [Procs -> ClockTimes]
         /\ reply' \in [Procs -> Replies \cup {None}]
         /\ \A q \in Procs : pc'[q] = "receive" =>
              q # p /\ pc[q] = "receive" /\ reply'[q] = reply[q] /\ cached'[q] = cached[q]
<1>1. answer.kind = "registry" => answer.body \in Bodies
  BY DEF Answers, Failures
<1>2. memory' \in [Procs -> Bodies \cup {None}]
  BY <1>1 DEF Return, TypeInv, TypeOK
<1>3. result' \in [Procs -> Answers \cup {None}]
  BY DEF Return, TypeInv, TypeOK
<1>4. 0 \in ClockTimes
  BY ClockType
<1> QED
  BY <1>2, <1>3, <1>4 DEF Return, Forget, TypeInv, TypeOK

(* What a successful response makes of the cache file. *)
LEMMA StoreType ==
  ASSUME TypeInv, NEW p \in Procs, pc[p] = "receive",
         reply[p].kind \in {"ok", "not_modified"},
         NEW v \in Bodies, NEW etag \in Versions \cup {None},
         Store(UpdatedEntry(p, v, etag))
  PROVE  disk' \in Entries \cup {None}
<1>1. reply[p].maxAge \in MaxAges
  BY ReplyType DEF TypeInv, Arrived
<1>2. stamp[p] \in ClockTimes
  BY DEF TypeInv, TypeOK
<1>3. UpdatedEntry(p, v, etag) \in Entries
  BY <1>1, <1>2 DEF UpdatedEntry, Entries
<1> QED
  BY <1>3 DEF Store, TypeInv, TypeOK

LEMMA ReceiveType ==
  ASSUME TypeInv, NEW p \in Procs, Receive(p)
  PROVE  /\ disk' \in Entries \cup {None}
         /\ \E answer \in Answers : Return(p, answer)
<1>1. reply[p] \in Replies /\ (reply[p].kind = "not_modified" => cached[p] # None)
  BY DEF Receive, TypeInv, Arrived
<1>2. cached[p] # None => cached[p].body \in Bodies /\ cached[p].etag \in Versions \cup {None}
  BY DEF TypeInv, TypeOK, Entries
<1>3. disk \in Entries \cup {None} /\ pc[p] = "receive"
  BY DEF TypeInv, TypeOK, Receive
<1>4. CASE FallBack(p)
  BY <1>2, <1>3, <1>4, AnswerType DEF FallBack, FallsBack
<1>5. CASE Fail(p)
  BY <1>3, <1>5, AnswerType DEF Fail
<1>6. CASE Revalidate(p)
  <2>1. cached[p].body \in Bodies /\ KeptValidator(p) \in Versions \cup {None}
    BY <1>1, <1>2, <1>6, ReplyType DEF Revalidate, KeptValidator
  <2>2. disk' \in Entries \cup {None}
    BY <1>3, <1>6, <2>1, StoreType DEF Revalidate
  <2> QED
    BY <1>6, <2>1, <2>2, AnswerType DEF Revalidate
<1>7. CASE Replace(p)
  <2>1. reply[p].body \in Bodies /\ reply[p].etag \in Versions \cup {None}
    BY <1>1, <1>7, ReplyType, BoundsAssumption DEF Replace, Versions, Bodies
  <2>2. disk' \in Entries \cup {None}
    BY <1>3, <1>7, <2>1, StoreType DEF Replace
  <2> QED
    BY <1>7, <2>1, <2>2, AnswerType DEF Replace
<1> QED
  BY <1>4, <1>5, <1>6, <1>7 DEF Receive

-----------------------------------------------------------------------------
LEMMA TypeInit == Init => TypeInv
<1> SUFFICES ASSUME Init PROVE TypeInv
  OBVIOUS
<1>1. 0 \in Times /\ 0 \in ClockTimes /\ 0 \in 0 .. MaxLag /\ 1 \in Versions
  BY ClockType, BoundsAssumption DEF Versions
<1>2. disk \in Entries \cup {None}
  BY InitialDisksAssumption DEF Init
<1> QED
  BY <1>1, <1>2 DEF Init, TypeInv, TypeOK

LEMMA TypeNext == TypeInv /\ [Next]_vars => TypeInv'
<1> SUFFICES ASSUME TypeInv, [Next]_vars PROVE TypeInv'
  OBVIOUS
<1> USE DEF envVars
<1>1. CASE UNCHANGED vars
  BY <1>1 DEF vars, TypeInv, TypeOK, Arrived
<1>2. CASE Tick
  <2>1. now' \in Times
    BY <1>2, BoundsAssumption DEF Tick, TypeInv, TypeOK, Times
  <2> QED
    BY <1>2, <2>1 DEF Tick, TypeInv, TypeOK, Arrived
<1>3. CASE Publish
  <2>1. served' \in Versions /\ replaced' \in [Versions -> Times \cup {None}]
    BY <1>3, BoundsAssumption DEF Publish, TypeInv, TypeOK, Versions
  <2> QED
    BY <1>3, <2>1 DEF Publish, TypeInv, TypeOK, Arrived
<1>11. CASE SetBack
  <2>1. lag' \in 0 .. MaxLag
    BY <1>11, BoundsAssumption DEF SetBack, TypeInv, TypeOK
  <2> QED
    BY <1>11, <2>1 DEF SetBack, TypeInv, TypeOK, Arrived
<1>4. ASSUME NEW p \in Procs, Begin(p) PROVE TypeInv'
  <2>1. CASE memory[p] # None /\ Return(p, Registry(memory[p]))
    <3>1. Registry(memory[p]) \in Answers
      BY <2>1, AnswerType DEF TypeInv, TypeOK
    <3> QED
      BY <1>4, <2>1, <3>1, ReturnType DEF Begin, TypeInv, TypeOK, Arrived
  <2>2. CASE /\ pc' = [pc EXCEPT ![p] = "read"]
             /\ result' = [result EXCEPT ![p] = None]
             /\ UNCHANGED <<memory, cached, stamp, reply>>
    BY <1>4, <2>2 DEF Begin, TypeInv, TypeOK, Arrived
  <2> QED
    BY <1>4, <2>1, <2>2 DEF Begin
<1>5. ASSUME NEW p \in Procs, ReadCache(p) PROVE TypeInv'
  BY <1>5 DEF ReadCache, TypeInv, TypeOK, Arrived
<1>6. ASSUME NEW p \in Procs, ServeFresh(p) PROVE TypeInv'
  <2>1. cached[p].body \in Bodies
    BY <1>6 DEF ServeFresh, HasFresh, TypeInv, TypeOK, Entries
  <2>2. Registry(cached[p].body) \in Answers
    BY <2>1, AnswerType
  <2> QED
    BY <1>6, <2>2, ReturnType DEF ServeFresh, TypeInv, TypeOK, Arrived
<1>7. ASSUME NEW p \in Procs, Request(p) PROVE TypeInv'
  BY <1>7, ClockType DEF Request, TypeInv, TypeOK, Arrived
<1>8. ASSUME NEW p \in Procs, Respond(p) PROVE TypeInv'
  <2>1. PICK r : /\ reply' = [reply EXCEPT ![p] = r]
                 /\ r \in Replies /\ (r.kind = "not_modified" => cached[p] # None)
    <3>1. CASE Validated(p)
      BY <1>8, <3>1, ServerReplyType DEF Respond, Validated, TypeInv
    <3>2. CASE ~Validated(p)
      <4>1. \A r \in FullReplies \cup {Failure(kind) : kind \in Failures} : r.kind # "not_modified"
        BY DEF FullReplies, Failure, Failures
      <4> QED
        BY <1>8, <3>2, <4>1, ServerReplyType DEF Respond, TypeInv
    <3> QED
      BY <3>1, <3>2
  <2> QED
    BY <1>8, <2>1 DEF Respond, TypeInv, TypeOK, Arrived
<1>9. ASSUME NEW p \in Procs, Receive(p) PROVE TypeInv'
  <2>1. PICK answer \in Answers : Return(p, answer)
    BY <1>9, ReceiveType
  <2>2. disk' \in Entries \cup {None}
    BY <1>9, ReceiveType
  <2> QED
    BY <1>9, <2>1, <2>2, ReturnType DEF Receive, TypeInv, TypeOK, Arrived
<1>10. ASSUME NEW p \in Procs, Restart(p) PROVE TypeInv'
  <2>1. 0 \in ClockTimes
    BY ClockType
  <2> QED
    BY <1>10, <2>1 DEF Restart, Forget, TypeInv, TypeOK, Arrived
<1> QED
  BY <1>1, <1>2, <1>3, <1>4, <1>5, <1>6, <1>7, <1>8, <1>9, <1>10, <1>11 DEF Next, Step

(* No process stores or keeps anything but an entry of its type, whatever  *)
(* the others do meanwhile.                                                *)
THEOREM TypeCorrect == Spec => []TypeOK
<1>1. TypeInv => TypeOK
  BY DEF TypeInv
<1> QED
  BY <1>1, TypeInit, TypeNext, PTL DEF Spec

-----------------------------------------------------------------------------
(* The premise of what follows: the cache file was written by the program, *)
(* and not in the future.  Without it the theorems are false (see the run  *)
(* bootstrap_damaged).                                                     *)
WrittenByProgram ==
  \A d \in InitialDisks : d # None =>
    d.etag \in {d.body, None} /\ d.body \in Parsable /\ d.cachedAt = 0

(* A document was not replaced before the time it is dated. *)
NotReplacedBefore(v, time) ==
  v \in Versions /\ replaced[v] # None => replaced[v] >= time

(* An entry is sound wherever it is: in the file, in a process that has    *)
(* read it, and in a response that has not arrived yet.                    *)
Sound(entry) ==
  /\ entry.etag \in {entry.body, None} /\ entry.body \in Parsable
  /\ entry.cachedAt <= now /\ NotReplacedBefore(entry.body, entry.cachedAt)

SoundReply(p) ==
  /\ reply[p].kind = "ok" =>
       /\ reply[p].etag \in {reply[p].body, None}
       /\ NotReplacedBefore(reply[p].body, stamp[p])
  /\ reply[p].kind = "not_modified" =>
       /\ reply[p].etag \in {cached[p].body, None}
       /\ NotReplacedBefore(cached[p].body, stamp[p])

CacheInv ==
  /\ disk # None => Sound(disk)
  /\ \A v \in Versions : v >= served => replaced[v] = None
  /\ \A p \in Procs :
       /\ cached[p] # None => Sound(cached[p])
       /\ stamp[p] <= now
       /\ pc[p] = "receive" => SoundReply(p)

LEMMA CacheInit == WrittenByProgram /\ Init => CacheInv
<1> SUFFICES ASSUME WrittenByProgram, Init PROVE CacheInv
  OBVIOUS
<1>1. disk # None => Sound(disk)
  BY DEF Init, WrittenByProgram, Sound, NotReplacedBefore
<1>2. \A p \in Procs : cached[p] = None /\ stamp[p] = 0 /\ pc[p] = "idle"
  BY DEF Init
<1> QED
  BY <1>1, <1>2 DEF Init, CacheInv

(* Steps of a process that leave the file alone and forget their locals. *)
LEMMA CacheReturn ==
  ASSUME TypeInv, CacheInv, NEW p \in Procs, Forget(p), UNCHANGED envVars,
         disk' # None => Sound(disk')
  PROVE  CacheInv'
<1>1. \A q \in Procs : q # p =>
        /\ pc'[q] = pc[q] /\ cached'[q] = cached[q]
        /\ stamp'[q] = stamp[q] /\ reply'[q] = reply[q]
  BY DEF Forget, TypeInv, TypeOK
<1>2. pc'[p] = "idle" /\ cached'[p] = None /\ stamp'[p] = 0
  BY DEF Forget, TypeInv, TypeOK
<1>3. 0 <= now'
  BY ClockType DEF envVars, TypeInv
<1>4. (disk # None => Sound(disk))'
  BY DEF Sound, NotReplacedBefore, envVars
<1> QED
  BY <1>1, <1>2, <1>3, <1>4 DEF CacheInv, Sound, SoundReply, NotReplacedBefore, envVars

(* What happens outside the processes. *)
LEMMA CacheTick == TypeInv /\ CacheInv /\ Tick => CacheInv'
<1> SUFFICES ASSUME TypeInv, CacheInv, Tick PROVE CacheInv'
  OBVIOUS
<1>1. now \in Int /\ now' = now + 1
  BY ClockType DEF Tick, TypeInv
<1>2. \A e \in Entries : Sound(e) => e.cachedAt <= now + 1
  <2> SUFFICES ASSUME NEW e \in Entries, Sound(e) PROVE e.cachedAt <= now + 1
    OBVIOUS
  <2>1. e.cachedAt \in Int
    BY ClockType DEF Entries
  <2> QED
    BY <1>1, <2>1 DEF Sound
<1>3. \A q \in Procs : stamp[q] <= now + 1
  <2> SUFFICES ASSUME NEW q \in Procs PROVE stamp[q] <= now + 1
    OBVIOUS
  <2>1. stamp[q] \in Int
    BY ClockType DEF TypeInv, TypeOK
  <2> QED
    BY <1>1, <2>1 DEF CacheInv
<1>4. /\ disk # None => disk \in Entries
      /\ \A q \in Procs : cached[q] # None => cached[q] \in Entries
  BY DEF TypeInv, TypeOK
<1> QED
  BY <1>1, <1>2, <1>3, <1>4
  DEF Tick, CacheInv, Sound, SoundReply, NotReplacedBefore

(* Setting the clock back makes no entry younger in real time. *)
LEMMA CacheSetBack == TypeInv /\ CacheInv /\ SetBack => CacheInv'
BY DEF SetBack, CacheInv, Sound, SoundReply, NotReplacedBefore

LEMMA PublishKeeps ==
  ASSUME TypeInv, Publish, NEW v, NEW time \in ClockTimes, time <= now, NotReplacedBefore(v, time)
  PROVE  NotReplacedBefore(v, time)'
<1>1. now \in Int /\ time \in Int /\ served \in Versions
  BY ClockType DEF TypeInv, TypeOK
<1>2. \A u \in Versions : replaced'[u] = IF u = served THEN now ELSE replaced[u]
  BY DEF Publish, TypeInv, TypeOK
<1> QED
  BY <1>1, <1>2 DEF NotReplacedBefore

LEMMA CachePublish == TypeInv /\ CacheInv /\ Publish => CacheInv'
<1> SUFFICES ASSUME TypeInv, CacheInv, Publish PROVE CacheInv'
  OBVIOUS
<1>1. ASSUME NEW e \in Entries, Sound(e) PROVE Sound(e)'
  <2>1. e.cachedAt \in ClockTimes
    BY DEF Entries
  <2> QED
    BY <1>1, <2>1, PublishKeeps DEF Sound, Publish
<1>2. \A v \in Versions : v >= served' => replaced'[v] = None
  BY DEF CacheInv, Publish, TypeInv, TypeOK, Versions
<1>3. /\ disk # None => disk \in Entries
      /\ \A q \in Procs : /\ cached[q] # None => cached[q] \in Entries
                          /\ stamp[q] \in ClockTimes /\ stamp[q] <= now
  BY DEF CacheInv, TypeInv, TypeOK
<1>4. \A q \in Procs : SoundReply(q) => SoundReply(q)'
  BY <1>3, PublishKeeps DEF SoundReply, Publish
<1>5. UNCHANGED <<now, disk, pc, cached, stamp>>
  BY DEF Publish
<1>6. (disk # None => Sound(disk))'
  BY <1>1, <1>3, <1>5 DEF CacheInv, Sound
<1>7. \A q \in Procs : (cached[q] # None => Sound(cached[q]))'
  BY <1>1, <1>3, <1>5 DEF CacheInv, Sound
<1> QED
  BY <1>2, <1>3, <1>4, <1>5, <1>6, <1>7 DEF CacheInv

(* The process that acts is the only one whose locals change. *)
LEMMA CacheLocals ==
  ASSUME TypeInv, CacheInv, NEW p \in Procs, UNCHANGED <<envVars, disk>>,
         \A q \in Procs \ {p} : /\ pc'[q] = pc[q] /\ cached'[q] = cached[q]
                                /\ stamp'[q] = stamp[q] /\ reply'[q] = reply[q],
         (cached[p] # None => Sound(cached[p]))', (stamp[p] <= now)',
         (pc[p] = "receive" => SoundReply(p))'
  PROVE  CacheInv'
BY DEF CacheInv, Sound, SoundReply, NotReplacedBefore, envVars

LEMMA CacheRespond ==
  ASSUME TypeInv, CacheInv, NEW p \in Procs, Respond(p)
  PROVE  CacheInv'
<1>1. served \in Versions /\ served # None /\ replaced[served] = None
  BY NoneAssumption DEF CacheInv, TypeInv, TypeOK, Versions
<1>2. /\ reply' = [reply EXCEPT ![p] = reply'[p]]
      /\ reply'[p] \in (IF Validated(p) THEN NotModifiedReplies ELSE FullReplies)
                       \cup {Failure(kind) : kind \in Failures}
  BY DEF Respond, TypeInv, TypeOK
<1>3. UNCHANGED <<envVars, disk, cached, stamp>> /\ pc' = [pc EXCEPT ![p] = "receive"]
  BY DEF Respond
<1>4. ASSUME reply'[p].kind = "ok" PROVE reply'[p] \in FullReplies
  BY <1>2, <1>4 DEF NotModifiedReplies, Failure, Failures
<1>5. ASSUME reply'[p].kind = "not_modified"
      PROVE  reply'[p] \in NotModifiedReplies /\ Validated(p)
  BY <1>2, <1>5 DEF FullReplies, Failure, Failures
<1>6. ASSUME Validated(p) PROVE cached[p].body = served
  BY <1>1, <1>6 DEF Validated, CacheInv, Sound
<1>7. SoundReply(p)'
  BY <1>1, <1>3, <1>4, <1>5, <1>6
  DEF SoundReply, NotReplacedBefore, FullReplies, NotModifiedReplies, envVars
<1>8. (cached[p] # None => Sound(cached[p]))' /\ (stamp[p] <= now)'
  BY <1>3 DEF CacheInv, Sound, NotReplacedBefore, envVars
<1>9. \A q \in Procs \ {p} : /\ pc'[q] = pc[q] /\ cached'[q] = cached[q]
                             /\ stamp'[q] = stamp[q] /\ reply'[q] = reply[q]
  BY <1>2, <1>3 DEF TypeInv, TypeOK
<1> QED
  BY <1>3, <1>7, <1>8, <1>9, CacheLocals

(* What Receive stores is sound. *)
LEMMA CacheReceive ==
  ASSUME TypeInv, CacheInv, NEW p \in Procs, Receive(p)
  PROVE  CacheInv'
<1>1. SoundReply(p) /\ stamp[p] <= now /\ reply[p] \in Replies
  BY DEF Receive, CacheInv, TypeInv, Arrived
<1>2. (disk # None => Sound(disk)) /\ (cached[p] # None => Sound(cached[p]))
  BY DEF CacheInv
<1>3. \A v, etag : UpdatedEntry(p, v, etag).body = v /\ UpdatedEntry(p, v, etag).etag = etag
                   /\ UpdatedEntry(p, v, etag).cachedAt = stamp[p]
  BY DEF UpdatedEntry
<1>4. ASSUME FallBack(p) \/ Fail(p) PROVE disk' # None => Sound(disk')
  BY <1>2, <1>4 DEF FallBack, Fail
<1>5. ASSUME Revalidate(p) PROVE disk' # None => Sound(disk')
  <2>1. cached[p] # None
    BY <1>5 DEF Revalidate, Receive, TypeInv, Arrived
  <2>2. KeptValidator(p) \in {cached[p].body, None}
    BY <1>1, <1>2, <1>5, <2>1 DEF Revalidate, KeptValidator, SoundReply, Sound
  <2>3. Sound(UpdatedEntry(p, cached[p].body, KeptValidator(p)))
    BY <1>1, <1>2, <1>3, <1>5, <2>1, <2>2 DEF Revalidate, SoundReply, Sound
  <2> QED
    BY <1>2, <1>5, <2>3 DEF Revalidate, Store
<1>6. ASSUME Replace(p) PROVE disk' # None => Sound(disk')
  <2>1. CASE reply[p].body \in Parsable /\ Store(UpdatedEntry(p, reply[p].body, reply[p].etag))
    <3>1. Sound(UpdatedEntry(p, reply[p].body, reply[p].etag))
      BY <1>1, <1>3, <1>6, <2>1 DEF Replace, SoundReply, Sound
    <3> QED
      BY <1>2, <2>1, <3>1 DEF Store
  <2> QED
    BY <1>2, <1>6, <2>1 DEF Replace
<1>7. Forget(p) /\ UNCHANGED envVars
  BY DEF Receive, FallBack, Fail, Revalidate, Replace, Return
<1>8. disk' # None => Sound(disk')
  BY <1>4, <1>5, <1>6 DEF Receive
<1> QED
  BY <1>7, <1>8, CacheReturn

LEMMA CacheNext == TypeInv /\ CacheInv /\ [Next]_vars => CacheInv'
<1> SUFFICES ASSUME TypeInv, CacheInv, [Next]_vars PROVE CacheInv'
  OBVIOUS
<1>1. CASE UNCHANGED vars
  BY <1>1 DEF vars, envVars, CacheInv, Sound, SoundReply, NotReplacedBefore
<1>2. CASE Tick
  BY <1>2, CacheTick
<1>3. CASE Publish
  BY <1>3, CachePublish
<1>11. CASE SetBack
  BY <1>11, CacheSetBack
<1>4. ASSUME NEW p \in Procs, Begin(p) PROVE CacheInv'
  <2>1. CASE Return(p, Registry(memory[p]))
    BY <1>4, <2>1, CacheReturn DEF Begin, Return, CacheInv
  <2>2. CASE /\ pc' = [pc EXCEPT ![p] = "read"]
             /\ UNCHANGED <<memory, cached, stamp, reply>>
    BY <1>4, <2>2 DEF Begin, TypeInv, TypeOK, envVars, CacheInv, Sound, SoundReply, NotReplacedBefore
  <2> QED
    BY <1>4, <2>1, <2>2 DEF Begin
<1>5. ASSUME NEW p \in Procs, ReadCache(p) PROVE CacheInv'
  <2>1. cached'[p] = disk /\ pc'[p] = "classify" /\ UNCHANGED <<envVars, disk, stamp, reply>>
    BY <1>5 DEF ReadCache, TypeInv, TypeOK
  <2>2. (cached[p] # None => Sound(cached[p]))' /\ (stamp[p] <= now)'
    BY <2>1 DEF CacheInv, Sound, NotReplacedBefore, envVars
  <2>3. \A q \in Procs \ {p} : pc'[q] = pc[q] /\ cached'[q] = cached[q]
    BY <1>5 DEF ReadCache, TypeInv, TypeOK
  <2> QED
    BY <2>1, <2>2, <2>3, CacheLocals
<1>6. ASSUME NEW p \in Procs, ServeFresh(p) PROVE CacheInv'
  BY <1>6, CacheReturn DEF ServeFresh, Return, CacheInv
<1>7. ASSUME NEW p \in Procs, Request(p) PROVE CacheInv'
  <2>1. /\ cached'[p] \in {cached[p], None} /\ pc'[p] = "request" /\ stamp'[p] = Clock
        /\ UNCHANGED <<envVars, disk, reply>>
    BY <1>7 DEF Request, TypeInv, TypeOK
  <2>2. (cached[p] # None => Sound(cached[p]))' /\ (stamp[p] <= now)'
    BY <2>1, ClockType DEF CacheInv, Sound, NotReplacedBefore, envVars, TypeInv
  <2>3. \A q \in Procs \ {p} : pc'[q] = pc[q] /\ cached'[q] = cached[q] /\ stamp'[q] = stamp[q]
    BY <1>7 DEF Request, TypeInv, TypeOK
  <2> QED
    BY <2>1, <2>2, <2>3, CacheLocals
<1>8. ASSUME NEW p \in Procs, Respond(p) PROVE CacheInv'
  BY <1>8, CacheRespond
<1>9. ASSUME NEW p \in Procs, Receive(p) PROVE CacheInv'
  BY <1>9, CacheReceive
<1>10. ASSUME NEW p \in Procs, Restart(p) PROVE CacheInv'
  BY <1>10, CacheReturn DEF Restart, CacheInv
<1> QED
  BY <1>1, <1>2, <1>3, <1>4, <1>5, <1>6, <1>7, <1>8, <1>9, <1>10, <1>11 DEF Next, Step

(* The cache file the processes share stays sound: its body parses, its    *)
(* validator belongs to the body, and it was current when it is dated.     *)
THEOREM CacheSound ==
  ASSUME WrittenByProgram
  PROVE  Spec => [](ValidatorMatchesBody /\ DatedBeforeReplaced /\ DiskParses)
<1>1. CacheInv => ValidatorMatchesBody /\ DatedBeforeReplaced /\ DiskParses
  BY DEF CacheInv, Sound, NotReplacedBefore, ValidatorMatchesBody, DatedBeforeReplaced, DiskParses
<1> QED
  BY <1>1, CacheInit, CacheNext, TypeInit, TypeNext, PTL DEF Spec

-----------------------------------------------------------------------------
(* A fresh entry was replaced, if at all, less than its max-age ago, but   *)
(* for what the clock was set back.                                        *)
LEMMA FreshIsCurrent ==
  ASSUME TypeInv, CacheInv, NEW p \in Procs, ServeFresh(p)
  PROVE  /\ cached[p].maxAge > 0
         /\ replaced[cached[p].body] # None =>
              now - replaced[cached[p].body] < cached[p].maxAge + lag
<1>1. cached[p] # None /\ cached[p] \in Entries /\ Fresh(cached[p], Clock)
  BY DEF ServeFresh, HasFresh, TypeInv, TypeOK
<1>2. cached[p].cachedAt \in Int /\ cached[p].maxAge \in Int
  <2>1. cached[p].cachedAt \in ClockTimes /\ cached[p].maxAge \in MaxAges
    BY <1>1 DEF Entries
  <2> QED
    BY <2>1, ClockType
<1>3. cached[p].body \in Versions
  BY ParsableAssumption DEF ServeFresh
<1>4. now \in Int /\ lag \in Int /\ Clock \in Int
  <2>1. Clock \in ClockTimes /\ now \in Nat /\ lag \in Nat
    BY ClockType DEF TypeInv
  <2> QED
    BY <2>1, ClockType
<1>5. Clock - cached[p].cachedAt < cached[p].maxAge /\ cached[p].maxAge > 0
  BY <1>1, <1>2, <1>4 DEF Fresh
<1>6. ASSUME replaced[cached[p].body] # None
      PROVE  /\ replaced[cached[p].body] \in Int
             /\ replaced[cached[p].body] >= cached[p].cachedAt
  BY <1>1, <1>3, <1>6, ClockType DEF CacheInv, Sound, NotReplacedBefore, TypeInv, TypeOK
<1> QED
  BY <1>2, <1>4, <1>5, <1>6 DEF Clock

(* An answer from the cache is at most max-age out of date. *)
THEOREM StalenessIsBounded ==
  ASSUME WrittenByProgram
  PROVE  Spec => StalenessBounded
<1>1. TypeInv /\ CacheInv =>
        \A p \in Procs : ServeFresh(p) =>
          LET gone == replaced[cached[p].body]
          IN  /\ cached[p].maxAge > 0
              /\ gone # None => now - gone < cached[p].maxAge + lag
  BY FreshIsCurrent
<1> QED
  BY <1>1, CacheInit, CacheNext, TypeInit, TypeNext, PTL DEF Spec, StalenessBounded

(* What is returned decides what is left in memory. *)
LEMMA FailureReturns ==
  ASSUME TypeInv, NEW p \in Procs, Receive(p), reply[p].kind = "cancelled"
  PROVE  result'[p] = Error("cancelled") /\ UNCHANGED <<disk, memory>>
<1>1. Fail(p)
  BY DEF Receive, FallBack, FallsBack, Fail, Revalidate, Replace
<1> QED
  BY <1>1 DEF Fail, Return, Error, TypeInv, TypeOK

(* A cancelled load ends as cancelled and leaves nothing behind. *)
THEOREM CancelledIsFinal == Spec => CancelledStaysCancelled
<1>1. TypeInv =>
        \A p \in Procs : Receive(p) /\ reply[p].kind = "cancelled" =>
          /\ result'[p] = Error("cancelled")
          /\ UNCHANGED <<disk, memory>>
  BY FailureReturns
<1> QED
  BY <1>1, TypeInit, TypeNext, PTL DEF Spec, CancelledStaysCancelled

LEMMA OutageFallsBack ==
  ASSUME TypeInv, NEW p \in Procs, Receive(p), reply[p].kind \in {"transport", "server_error"},
         cached[p] # None, cached[p].body \in Parsable
  PROVE  memory'[p] = cached[p].body
<1>1. FallBack(p)
  BY DEF Receive, FallsBack, Fail, Revalidate, Replace
<1>2. Return(p, Registry(cached[p].body))
  BY <1>1 DEF FallBack, Parse
<1> QED
  BY <1>2 DEF Return, Registry, TypeInv, TypeOK

(* An outage of IANA leaves the registry of a usable entry in memory,      *)
(* however stale the entry is.                                             *)
THEOREM OutageIsBridged == Spec => OutageNeedsNoCache
<1>1. TypeInv =>
        \A p \in Procs : Receive(p) /\ reply[p].kind \in {"transport", "server_error"} =>
          (cached[p] # None /\ cached[p].body \in Parsable => memory'[p] = cached[p].body)
  BY OutageFallsBack
<1> QED
  BY <1>1, TypeInit, TypeNext, PTL DEF Spec, OutageNeedsNoCache

LEMMA RevalidationAnswers ==
  ASSUME TypeInv, CacheInv, NEW p \in Procs, Receive(p), reply[p].kind = "not_modified"
  PROVE  result'[p] # Error("parse")
<1>1. cached[p] # None /\ pc[p] = "receive"
  BY DEF TypeInv, Arrived, Receive
<1>2. cached[p].body \in Parsable
  BY <1>1 DEF CacheInv, Sound
<1>3. Return(p, Registry(cached[p].body))
  BY <1>2 DEF Receive, FallBack, FallsBack, Fail, Failures, Revalidate, Replace, Parse
<1> QED
  BY <1>3 DEF Return, Registry, Error, TypeInv, TypeOK

(* What bootstrap_damaged finds needs a cache file that the program did    *)
(* not write: otherwise a 304 always yields a registry.                    *)
THEOREM RevalidatedBodyParses ==
  ASSUME WrittenByProgram
  PROVE  Spec => CachedBodyNeverFails
<1>1. TypeInv /\ CacheInv =>
        \A p \in Procs : Receive(p) /\ reply[p].kind = "not_modified" =>
          result'[p] # Error("parse")
  BY RevalidationAnswers
<1> QED
  BY <1>1, CacheInit, CacheNext, TypeInit, TypeNext, PTL DEF Spec, CachedBodyNeverFails

=============================================================================
