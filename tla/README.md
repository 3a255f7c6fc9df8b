# Verification of rdap-tui

rdap-tui is a terminal program that looks up domains, IP prefixes and AS
numbers over RDAP.  This directory holds TLA+ models of the parts of it that
keep state, run concurrently or decide what a text or a response means, the TLC
configurations that check them, and theorems about them that the TLA+ proof
system checks.  Paths below are those
of the repository (`src/tui_app.cpp` and so on); PROJECT.json says for every
definition which lines it stands for.

    tlc -workers 2 -config lookups.cfg MCTuiSession.tla
    tlapm TuiSessionProofs.tla

## The system

| part | state it keeps | operations | talks to |
|---|---|---|---|
| **Interactive session** (`tui_app.cpp`) | status, panes, input, browse index, the worker thread and its two hand-over slots | keys, `start_lookup`, `consume_worker_update`, `browse_history`, `toggle_current_favorite`, quitting | the worker through a mutex, two optionals and FTXUI `Custom` events; `RdapClient`; `AppStateStore` |
| **Saved queries** (`app_state.cpp`) | history and favorites in memory and in `state.json` | `add_history`, `toggle_favorite`, `read`, `write` | the query parser (normalisation), the file system |
| **File replacement** (`write_json_atomically`, `BootstrapCache::write`) | `<path>` and `<path>.tmp` | open, write, close, rename | the file system, other rdap-tui processes |
| **Bootstrap documents** (`rdap_client.cpp`, `bootstrap_cache.cpp`) | one registry in memory, one cache file shared by processes | `load_bootstrap`: memory, then disk, then IANA with a conditional request | IANA, the file system |
| **Service selection and lookup** (`bootstrap_registry.cpp`, `rdap_client.cpp`) | the parsed registry, the services in turn | `parse`, `resolve`, the loop over the services | registries' RDAP servers |
| **HTTP transport** (`curl_http_client.cpp`) | one transfer | `get` with a body limit, a redirect limit and cancellation | libcurl |
| **Query parsing** (`resource_query.cpp`, `domain_name.cpp`) | none | `parse`, `query_text` | `inet_pton`; the query field and the saved queries |
| **Record projection** (`*_record_parser.cpp`) | the record, its warnings, the budget of entities | JSON to a record, with a recursion over nested entities | `RdapClient`, which hands it the response |
| **View formatting** (`*_view_formatter.cpp`) | none | records to views | the session, which shows them |
| **Program entry** (`main.cpp`) | none | reads the configuration and the saved queries, makes the stores | |

Two threads matter: the interface thread, which runs FTXUI's loop and handles
keys, `Custom` events and the exit task one at a time, and at most one lookup
worker.  Several processes may run at once; they share `state.json` and the
bootstrap cache files and know nothing of each other.

What is hard here, and what makes each part correct:

- **Session.**  The worker puts a stage or a result into a slot under the
  mutex and posts an event after unlocking, three times per lookup; an event
  empties both slots, so the number of events and of updates differ and an
  event may find the update of a later one or nothing.  Correct means: every
  accepted lookup has exactly one outcome; the status is busy exactly while
  one is owed; no hand-over stays unannounced; joining the old worker never
  waits for the network; what is on display belongs to the status and the
  latest query; an index into the history survives the history being rewritten
  by a lookup; quitting in the middle of a lookup ends the process.
- **Saved queries.**  A query is normalised when typed, again when stored and
  again when read back.  Correct means: no duplicates, canonical, within the
  limit, the newest first, the Saved view a true copy, and the user told while
  memory and disk differ.
- **File replacement.**  A kill, a full disk or a second process may come
  between any two steps.  Correct means: readers find the old or the new
  document, and the returned Boolean tells which.
- **Bootstrap documents.**  A response may be late, IANA may replace the
  document meanwhile, another process may have written the cache file.
  Correct means: a validator belongs to the body it is stored with, an answer
  from the cache is at most max-age out of date, an outage never fails a
  lookup that has a usable entry, a cancellation always ends as one.
- **Service selection and lookup.**  Correct means: exactly the most specific
  HTTPS services, whatever the order of the document; retry on outages only;
  nobody asked twice; an outage reported only when everybody was tried.
- **HTTP transport.**  libcurl calls back for every header line of every
  redirect, for every chunk, and for progress, while the interface thread may
  request a stop.  Correct means: a response is the final one and all of it,
  the limit is exact, and a stop ends the transfer soon and is reported as such.
- **Query parsing.**  The same text is parsed up to four times on its way from
  the query field through the history and the state file back to the field.
  Correct means: it means the same each time, a CIDR query is the network it
  lies in, an IPv6 address has one canonical spelling, and only texts that are
  no domain are taken for something else.
- **Record projection and views.**  A response may nest, repeat and misspell
  anything; the loops are cut off at 8 levels, 256 entities and 1024 items, and
  pass over what is unusable.  Correct means: the limits hold for the recursion
  as a whole, what is lost is lost at the end of the document, and nothing the
  user is shown looks complete that is not.

PROJECT.json lists each hazard with its line and the properties that cover it.

## Modules

    QueryParsing     └─ QueryParsingProofs
       · (its parse-and-format is AppState's constant Canonical)
    AppState ──> TuiSession ──implements──> LookupSession
                     └─ TuiSessionProofs
    FileReplace ──implements──> AtomicFile      └─ FileReplaceProofs
    BootstrapLoad    └─ BootstrapLoadProofs
    ServiceLookup    └─ ServiceLookupProofs
    HttpTransfer     └─ HttpTransferProofs
    RecordProjection ──> RecordView             └─ RecordProjectionProofs
    MC* : instances of each for TLC
    FoldInduction: lemmas for ServiceLookupProofs, RecordProjectionProofs and QueryParsingProofs

The modules `MCTuiSession`, `MCFileReplace`, `MCBootstrapLoad`,
`MCServiceLookup`, `MCHttpTransfer`, `MCQueryParsing` and `MCRecordView` only
give names to the small sets the configurations use.  `BootstrapLoad` and `ServiceLookup` use a transfer through
its outcomes, which are those `HttpTransfer` has; `TuiSession` uses a lookup
through its outcome.
Where a comment names a definition in parentheses, `(LeavesResult: ...)`, that
is a faulty form of the definition below it: putting it in its place makes TLC
find the property listed with it in PROJECT.json violated, which shows that the
property can fail.

### TuiSession: the session

| variable | code |
|---|---|
| `ui`, `quit`, `tasks` | where the interface thread is (in the loop, in the `join` of `start_lookup`, in the destructor), whether the exit task was handled, FTXUI's task queue |
| `worker` | `worker_`: its place in the thread's lambda, its query, what the lookup came to |
| `pending` | `pending_stage_`, `pending_result_`, guarded by `worker_mutex_` |
| `cancelled` | the flag of `cancellation_` |
| `screen` | `state_`, `metadata_`, the view texts, `section_index_` |
| `input`, `browse` | `query_input_`; `history_browse_index_`, `history_draft_` |
| `app`, `saved`, `lastSuccess`, `storage` | `app_state_`, `saved_queries_`, `last_success_query_`, `storage_message_` |
| `file` | what `state.json` holds |

Each handler of the loop is one action (`Search`, `OpenSaved`, `BrowseUp`,
`BrowseDown`, `ToggleCurrentFavorite`, `Quit`, `ConsumeWorkerUpdate`,
`HandleExit`, ...), since nothing else runs on that thread.  `start_lookup` is
the exception: it blocks in `worker_.join()`, so `StartLookup` ends there and
`BeginLookup` is the rest.  A worker's critical section and the `PostEvent` after
it are two steps, because the interface thread may run between them.
`Restart` ends the process at any moment and starts it again from the file.

Choices worth knowing:

- FTXUI drops what is posted after the exit task was handled (`Post`), and
  handles keys that are already queued; this is how the code in `tui_app.cpp`
  uses it, FTXUI itself is not part of the repository.
- `history[i]` is indexed unchecked.  Beyond the end `EntryAt` yields an
  arbitrary text: the read is undefined, and any text may come out of it.
- A write of the state file is one step here and may fail; `FileReplace`
  justifies this for one process, and its loss of bytes at close is carried
  over as `LossyClose`.
- `Canonical` is the parser followed by `query_text`.  It need not be
  idempotent: `as.` is the domain `as`, and `as` is rejected as a malformed AS
  number.
- Left out: scroll positions, focus and the selected line of a list, which
  decide nothing else; the clock of the spinner.

`LookupSession` is the promise to the user, without threads: a lookup is
accepted only when none is under way, has exactly one outcome, and the response
displayed is the one of the query asked last.  `TuiSession!Lookups` maps the
status line, the worker's query and all queries of which a pane, structured or
JSON, displays a response to it.

### AppState: the saved queries

Operators on a record of two sequences.  `Without` models both
`std::remove`/`erase` and `erase` at one position, which agree on lists without
duplicates (`SavedQueriesWellFormed` keeps them so).  `Normalized` is the loop
of `normalized_queries_from_json`, given directly: the k-th kept entry is the
one with k kept entries up to it.

### FileReplace and AtomicFile: replacing a file

A file is a set of bytes in two parts: the head reaches the system while JSON
is written to the `std::ofstream`, the tail when the stream is closed, which is
after `good()` was asked.  Names (`path`, `tmp`) and files are separate, so
that a stream stays open on a file that was renamed.  A process may die at any
step.  Power loss is not modelled: the code calls no `fsync` and promises
nothing about it.

### BootstrapLoad: one registry document

`Begin`, `ReadCache`, `ServeFresh`, `Request`, `Respond`, `Receive` follow
`load_bootstrap` from the lock to the return; between `Respond` (IANA sees the
request) and `Receive` time passes, IANA may publish (`Publish`) and other
processes may write the file.  A body is a version number, 0 being one that
IANA never sent.  One validator stands for ETag and Last-Modified, which the
code treats alike.  Reading and writing the cache file are single steps, for
the reason above; a write may also leave a file that reads as missing.

`now` is real time, and the clock that `load_bootstrap` reads is behind it by
`lag`, which grows when the clock is set back (`SetBack`).  Entries are dated by
the clock, so that one may be dated in the future: `Fresh` gives it age 0, as
`classify_bootstrap_freshness` does.  A clock that is set forward only makes
entries older than they are, and is left out.

### ServiceLookup: which servers are asked

`Resolve` is the nested loop of the three registries, folded over services and
entries, and `Consider` the body of the loop.  Domains are sequences of labels
from the top level down and addresses sequences of bits, so that `suffix_matches` and
`prefix_matches` are both `IsPrefix`.  `AuthoritativeUrls` is the reference it
is compared with: a definition by quantifiers, without any order.  The loop over
the services is `Send`, `Receive` and `GiveUp`; `Cancel` may come at any step.

### HttpTransfer: one request

| variable | code |
|---|---|
| `pc`, `code`, `result` | where `CurlHttpClient::get` is, what `curl_easy_perform` returned, what `get` returned |
| `headers`, `body`, `tooLarge` | `TransferContext` |
| `stop` | the flag shared by the source and the token |
| `response`, `final`, `sent` | libcurl and the server: how many responses have begun, whether this is the last one, how much of its body the callback was given |

`StatusLine`, `Header`, `Chunk` and `Progress` are the callbacks; `Complete` and
`Breaks` are libcurl's ways to end without them; `RequestStop` is the other
thread.  A header field is represented by the response it came with, a body by
its size.  libcurl always passes elements of one byte, so that the first test of
`write_body`, for a product that overflows, never holds.  libcurl gives the body
of the final response only; a field may also follow it (a trailer).

When libcurl cannot be set up, `get` returns a transport error without looking
at the token; `StopIsNoOutage` excepts this case, and `ServiceLookup` allows
for it.  A body beyond the limit is reported as such even when a stop was
requested, as `curl_error` does.

### QueryParsing: what a text means

A text is a sequence of characters; `ParseQuery`, `ParseAutnum`, `ParseNetwork`
and `ParseDomain` are the parsers, `QueryText` the canonical text, octet by
octet and group by group.  The width of an octet, the largest AS number and the
lengths of names and labels are constants.  `inet_pton` is not part of the
program; `Ipv6Octets` models which texts it accepts and what they denote.  The
state machine is the way of one query: `LookUp`, `Remember` (the history),
`ReadBack` (the state file at the next start), `Recall` (the Up key), and round
again.

### RecordProjection and RecordView: from a response to the screen

| variable | code |
|---|---|
| `doc` | the response |
| `pc`, `at`, `stack` | where `parse`, `entities` and `entity` are; the recursion, as the lists whose loop is under way |
| `kept`, `members` | the entities and the other items of the record |
| `warnings`, `redacted` | `warnings_`, `redacted_` |

Every object of a response has a list of entities and one other collection, of
any kind it may have (strings, links, events, remarks or notices, public
identifiers of an entity; name servers and DS data of a domain; properties of a
jCard).  An item of such a collection is one of eight classes, which is what
the loops of the parser tell apart: whole, lacking a member, with a member of a
wrong type, null, of a wrong type itself, about redacted data, or with no place
in the record; a link or an event of which only an optional member has a wrong
type is kept without it and warned about.  `Keeps` and `Warns` say what becomes of each.  The loop over
entities is `StopAtBudget`, `SkipItem`, `ProjectEntity` and `LeaveEntities`.
`common_projection` erases what a network does not have (`Erased`), and
`ProjectRange` reads the ends and the version of its range, or the ends of a
range of AS numbers, and holds them against each other.

`RecordView` holds the functions of the two formatters over the record: the
depth-first `FindRegistrar`, the indented `EntityLines` of the contacts, the
`ScopedRemarks` and the rest of the notices.  Their recursion over the nested
entities is that of recursive functions over the items, of which those that are
not in the record add nothing (`Kept`), so that the module can be proved about.

## Runs

| run | question | result |
|---|---|---|
| `lookups` | the hand-over between the threads, with browsing the history, quitting and restarting; does quitting end, is `LookupSession` implemented? | 6 invariants, 1 liveness property and the refinement hold |
| `saved_queries` | history, favorites, failing writes, restarts, a file with two spellings of a query | 4 invariants hold |
| `bootstrap_shared` | two processes, one cache file, three versions of the document, a clock that is set back | 4 invariants, 3 action properties hold |
| `file_replace` | one process replaces a file, crashes included | implements `AtomicFile` |
| `service_lookup` | all small registries against the reference, and the retry loop | 5 invariants hold |
| `http_transfer` | one transfer: headers, chunks, the limit, a stop | 4 invariants, 1 liveness property hold |
| `query_parsing` | 18,299 texts, each through the history and the state file and back | 4 invariants hold |
| `record_projection` | 15,315 responses, their records and their views | 4 invariants, 1 liveness property hold |
| `long_history` | the browse index, with a file written under a larger limit | **violated**, see below |
| `bootstrap_damaged` | does an unparsable cached body never fail a lookup? | **violated** |
| `shared_tmp` | is the replacement atomic with two processes? | **violated** |
| `silent_close` | are all failures reported? | **violated** |

### Bounds

- *Session.*  `lookups`: two domains and one text that is no query, no state
  directory, a history limit of 2.  `MaxBacklog` bounds the tasks queued when a lookup is
  accepted; a lookup adds three, the worker it replaces may still post its last
  event, and the user adds one exit task, so the queue stays below seven.  With
  a backlog of 1, an event left over from one lookup is consumed during the
  next.  The number of lookups is not bounded, so that every way of merging
  updates and events occurs.  The properties of the saved queries do not depend
  on leftover events; there the backlog is 0.  A limit of 2 and three texts are
  the least with which an entry is pushed out of a full history, moved to its
  front and found under another spelling.
- *Bootstrap.*  Time 0 and 1 with a max-age of 0 or 1, and a clock that is set
  back by 1, cover an age below, at and beyond the max-age and one that is
  negative; versions 1 and 3 parse and 2 does not, so that a document is
  replaced twice and by one that must not be stored; publishing takes no time,
  so that both may happen between any two steps.  Two processes are the least
  that can overwrite each other.  `Procs` is symmetric.
- *Files.*  One process never has more than two files, two processes need one
  more each for a stream open on a renamed file; four are given.
- *Registries.*  Every list of one or two services with one or two entries
  each, over the zones `""`, `com`, `example.com`, `net` and the ranges 0-1, 1,
  1-3, 2-3, with and without plain HTTP URLs and shared URLs.  A third entry
  adds no new relation: `Consider` compares an entry with the best so far only.
- *Transfer.*  Sizes of three bits with a limit of 4: a body below, at and
  beyond the limit, in one chunk or several, and a sum of sizes that would
  wrap around; three responses, so that two redirects come before the final
  one; two header fields, since a redirect may set one and not the other.
- *Texts.*  Every text of up to four characters over nine that the parsers tell
  apart, names of up to five, IPv4 addresses with every prefix length and one
  too many, and every pattern of zero and other groups of an IPv6 address in
  every spelling.  Octets have four bits, so that a prefix ends before, inside
  and behind an octet within few lengths; names of four characters and labels
  of three, so that both limits are exceeded; AS numbers up to 15.
- *Responses.*  Five entities in every nesting, with a depth of 2 and a budget
  of 3: the depth is exceeded by up to three levels, and the budget is used up
  in the outer list, in an inner one, and after returning from an inner one.
  A limit of 2 for the items of a list, with three in it; every class of member
  at every position.  Collections on one object at a time, and on all of them,
  so that several registrars and the remarks of several entities meet.  Ranges with two values for each end.

### Fairness

`lookups` assumes `WF(InterfaceStep)` and `WF(WorkerStep)`.  The first is
FTXUI's loop, which handles a queued task as long as it runs, and the
interface thread's own returns.  The second is the worker thread: between its steps it only
waits in `CurlHttpClient::get`, and each transfer has a connect timeout of
5 s and a total timeout of 15 s (`include/rdap/http.hpp:43-44`); the mutex is
held for assignments only.  No key is assumed ever to be pressed.  `QuitEnds`
and the fairness part of `ImplementsLookupSession` (every lookup ends) thus say
that the threads never wait on each other for good; `QuitEnds` holds without
assuming that cancellation is noticed early.

`http_transfer` assumes that `get` goes on and that libcurl, while a transfer
lasts, calls `progress_callback` again and again (at least once a second,
whatever the server does; `CURLOPT_NOPROGRESS` is off).  Nothing is assumed of
the server, so that `StopEnds` relies on the callback alone and not on the
timeouts.

`record_projection` assumes `WF(Next)`: the projection runs on the worker and
waits for nothing.

Deadlock is not checked: a session that has exited, or a user who presses
nothing, may stop, and so do a query that was rejected and a finished record.

## What the violated runs show

- `long_history`: `AppStateStore::read` applies no limit, `add_history`
  truncates to it.  With a file of two entries and `history_limit` 1: press
  Return, press Up twice, the lookup succeeds and the history shrinks to one
  entry, the next Up reads past the end (`tui_app.cpp:403`).
- `bootstrap_damaged`: a cache file whose body does not parse is dropped while
  fresh but revalidated once stale; the 304 makes it fresh again and the
  lookup fails, against the comment at `rdap_client.cpp:77`.
- `shared_tmp`: both processes open `<path>.tmp`; one truncates the file the
  other is about to rename, and a reader finds a damaged document.
- `silent_close`: bytes lost when the stream is closed go unnoticed, the
  truncated file replaces the old one and the write reports success.

Two oddities of the parser are stated in the properties of `query_parsing` as
exceptions, each exact: the domain `as` can be looked up as `as.` but its
canonical text is an incomplete AS number, so that it is never saved; and a
domain that begins with `as` and a digit, like `as400.com`, is rejected as a
malformed AS number.  `NothingLostSilently` has three likewise: a null among strings, a public identifier that lacks a member, and a property of
a contact that the record has no place for (another name, no text, or a full name
that a later one replaces) are dropped without a warning.

## Proofs

TLC's runs are small; these hold for every value of the constants.

- `TuiSessionProofs!TypeCorrect`.  The lemmas in front of it say that the
  operations on histories and favorites yield sequences of texts; the hard
  one is `NormalizedType`, for which `RankIsNumbering` shows that every k has
  a kept entry of that rank (a subset of 1..n is numbered without gaps).
- `TuiSessionProofs!HandoverCorrect`: `BusyMeansOutcomeOwed`, `NoLostUpdate`,
  `JoinIsShort` and `DisplayMatchesStatus`, for any number of lookups and any
  backlog.  None of the first three is inductive: that a stage consumed late
  cannot turn an answered lookup busy again needs that a stage still in its
  slot implies an outcome still owed, and this needs that a result in its slot
  belongs to a worker that has nothing left but to post.  `HandoverInv` says
  so, and that the result is this worker's, which `DisplayMatchesStatus` needs:
  that one says of the structured panes, the JSON panes and the metadata alike
  what each status shows, and tells a response from one whose projection failed.
  On the instance of `lookups` TLC agreed with `HandoverInv` before it was proved.
- `TuiSessionProofs!BrowseSafe`, under `FilesFit`: no state file was written
  under a larger limit.  The invariant adds that neither the history in memory
  nor the one on disk exceeds the limit, whence it never shrinks.  Without the
  premise the theorem is false, as `long_history` shows.
- `TuiSessionProofs!ImplementsLookups`: every initial state and step of the
  session is one of `LookupSession`, or a stutter.
- `FileReplaceProofs!SingleWriterIsAtomic` and `Undisturbed`, under
  `OneWriterOnly` and `LossyClose = FALSE`: `AtomicFile` is implemented.  Both
  premises are necessary (`shared_tmp`, `silent_close`).  `ReplaceInv` says
  which file each stream is open on and what is in it by then.
  `NeverDamagedAlone` and `SuccessIsStorage` state under the same premises what
  the two runs find violated without them.
- `TuiSessionProofs!SavedQueriesStayWellFormed`, under `FilesFit` and
  `FilesCanonical`: no state file at first holds a text whose canonical text
  does not parse.  That is not known of what a user types, so the invariant
  follows every text on its way to the history: the worker's query, the one in
  the result slot, and the last success are all parsed ones.
  `QuietIsDurable`, under `FilesCanonical` and `LossyClose = FALSE`, needs that
  reading a file that was written from such lists gives them back, which is the
  lemma on `Normalized`.  `SuccessHeadsHistory` and `SavedViewIsCurrent` have
  no premise.
- `ServiceLookupProofs`, for every registry, key and sequence of answers.
  `RetriesAreForOutages` and `OutageMeansAllTried`: the invariant `LoopInv`
  says that the services asked so far are those in front of the next one, and
  that all but the last answered with an outage.  `AsksTheAuthoritative` is
  about the three nested loops of `resolve`, which are folds: after every step
  of each of them `candidates` holds the HTTPS URLs of the best matches among
  the entries passed, each once, and `longest` is how specific they are
  (`AppendHttpsUrlsType`, `ServiceFindsBest`, `ResolveFindsBest`); at the end
  this is the reference definition (`ResolveIsAuthoritative`).
  `GivesUpForAReason` follows from it.  `AsksOneHolder` also needs that
  `AllEntries` lists every entry of every service (`EntriesAreListed`): a range
  that is accepted overlaps no other, so only one holds the number.
- `RecordProjectionProofs!BudgetIsKept` and `LossIsReported`, for responses of
  any size and shape.  What is lost is known only when everything is over, so
  the invariant accounts for every item at every moment: what a loop has passed is
  in the record, warned about, or below an entity whose own list is under way;
  what is ahead of a loop is still to come, and an object whose entities have
  not begun is the one being projected.  `OnlyOneRangeIsQuiet` compares what the
  code checks of a range, branch by branch, with what a range is.
- `RecordProjectionProofs!FirstAreKept`: which entities the budget goes to.
  `OrderInv` says that every list under way belongs to an entity that is kept and as
  deep as the list (`FramesInOrder`); what its loop has passed is kept or no
  object; what is ahead stands behind everything kept; the inner lists are
  nested in the item the loop is at; and of a kept entity whose list is done
  with, nothing is lost unless the record is full (`NothingOpenLost`).  Keeping
  an entity preserves this because everything nested in one item of a list
  stands before the next item.  That an entity below a lost one is lost for the
  same reason is shown by induction over the depth (`LostWithParents`); that
  an object skipped for its depth can hold nothing eligible follows from
  `OneLevel`.  TLC checked `OrderInv`
  on the responses of `record_projection` before it was proved.
- `RecordProjectionProofs!ViewsAreComplete`: what the views show, for every
  response.  The three recursive functions of `RecordView` have values, because
  the record is a tree (`RecordIsTree`: nested items have larger numbers, and a
  record is finite); each is then compared, by induction over the tree,
  with what stands in the record below an object (`IsBelow`, which for the root
  is the whole record, `BelowRoot`).  That contacts and remarks come in the
  order of the document is `BelowInOrder`: everything below one item of a list
  stands before everything below the next.  With `FirstAreKept` the contacts
  are then the entities kept, and since two increasing sequences of the same
  numbers are equal (`IncreasingUnique`), they are those of `kept`, one by one,
  at the depth of their level (`DepthNested`).  The first registrar depth first
  is the first of the document (`FirstRegistrarFound`); one the response names
  and the record lacks was reported (`RegistrarIsNotLost`, by `LossIsReported`).
- `RecordProjectionProofs!ProjectionRunsOut`, the part of `ProjectionEnds` that
  needs no fairness: until the end a step is due, and every step leaves less of
  `Left`, in lexicographic order the budget, the stage of the object at hand,
  the lists under way and the items ahead in the innermost one.  Keeping an
  entity may open another list, but it takes from the budget; the order is
  well founded (`LessLeftIsWellFounded`).
- `TuiSessionProofs!QuittingRunsOut`, the same for `QuitEnds`: after the exit
  was asked for, one of the two threads has a step to take until the process
  has ended, although the interface waits for the worker in its joins and the
  worker posts to the interface.  `StepsLeft` bounds how many steps both can
  take without a further key: each step of either lowers it, and a key raises it
  by the lookup that it may start, twelve at most.
- `BootstrapLoadProofs!CacheSound` and `StalenessIsBounded`, under
  `WrittenByProgram`: the cache file was written by this program, so it is
  missing at first or holds what parses, with its own validator, dated when it was
  current.  Staleness is bounded by the max-age and by what the clock was set
  back since, and the clamp of a negative age is needed for the other half of
  it, that an entry with max-age 0 is not served.  Without the premise the theorem is false (`bootstrap_damaged`
  starts from such a file).  The invariant `CacheInv` extends soundness from
  the file to every entry a process holds (`cached`) and to every response
  under way (`reply`): a 200 carries its own validator and was current when the
  request was made (`stamp`), and a 304 speaks of the entry it was asked for.
  `CancelledIsFinal` and `OutageIsBridged` need the types only.
  `RevalidatedBodyParses` shows that what `bootstrap_damaged` finds needs a file
  that the program did not write.
- `HttpTransferProofs!TransferCorrect`: for any limit and width of `size_t` and
  any number of responses.  `TransferInv` adds what holds in the middle of a
  transfer, above all that `body` and `sent` agree until a chunk is refused,
  and that no field is later than the response under way.
- `QueryParsingProofs`, for every text and all limits.  `DomainsAreHostNames`
  needs that the labels `split` yields are what stands between two dots
  (`SplitCuts`): a text whose labels are all valid is then a host name in the
  sense of the reference definition, which knows no labels, and conversely
  (`LabelsMakeName`).  `NetworksArePrefixes` compares the masked octet with the
  bits of the address (`KeptBits`, `PrefixBits`).  The invariant `TextInv` says
  that the query looked up is what the text in the field means, also after it
  was stored, read back and recalled; for this every canonical text must be a
  text again (`CanonicalIsText`), which takes the existence of the recursive
  function of `Numeral` (`NumeralIs`).
- `QueryParsingProofs!QueriesKeepTheirMeaning`: parsing undoes formatting
  (`RoundTrips`), for every query the parser can return (`QueryAgain`).
  `MeaningIsKept` alone is not inductive, as it says nothing of a text that is
  on its way; `MeaningInv` adds that the query looked up first is the one its
  canonical text means, and that this text is what is stored and what is back
  in the field. Reading a numeral yields its number (`NumberOfNumeral`, by
  induction over the number); splitting what was joined yields what was joined
  (`SplitJoined`); masking twice is masking once (`ApplyTwice`). For an IPv6
  address, the text is cut where the run was left out (`CutAtGap`), because
  groups never write two colons in a row; what stands on both sides are the
  groups outside the run (`SpelledBefore`, `SpelledRest`), and the zeros
  between them fill up what is missing (`SidesAndZeros`). `SavedTextsSettle`
  follows too: what `AppState` assumes of the saved texts
  (`CanonicalAssumption`) holds of the parser.
- `QueryParsingProofs!CanonicalTextsAreShortest`: the same argument holds for
  every spelling, not only the canonical one (`SpellingsAgain`). A spelling
  writes the eight groups without those of its run (`SpellingWrites`), so that
  the longest run is the shortest text; of two runs the earlier one has the
  earlier gap (`EarlierGap`). `TextInv` is enough as the invariant.

*Induction over data.*  The induction theorems of the library take an operator
as a parameter, which the provers at hand cannot instantiate.  `FoldInduction`
takes the set of the numbers for which a statement holds instead, and derives
induction over it from `WFMin`, the minimum of a well-founded relation
(`Least`, `Induct`, `InductUpTo`).  `FoldLeft` and recursive functions are
defined by CHOOSE; `FoldExists` builds a function that satisfies the
equations, so that the chosen one does, and `FoldIsLoop` turns a fold over a
sequence into the values after each step of a loop.  `ReachableLevels` does
the same for the recursive function `Reachable`, and `NumeralIs` for `Numeral`.
For functions that recurse over a tree, `TreeFoldExists` builds one from the
leaves up, by induction over a rank that nesting lowers (`IsTree`), and
`TreeInduct` is the induction over the tree; `FlattenFacts` says what
concatenating the results of the children contains and when it is sorted.

The theorems rest on the assumptions on constants stated in the modules: the
saved texts are parsed to a fixed point or to nothing in one step, limits and
bounds are natural numbers, the parser accepts only published versions, `None`
is no text nor an outcome nor a number nor a query, a typed text is a sequence
of characters, registries and responses have the types of their members, and
the items of a response are numbered in document order (`InOrder`: an item
stands in one list, behind the object whose list it is and behind everything
nested in the items before it, as in every JSON text).

Every invariant and action property of the runs that pass is stated by a theorem.
Only model-checked: liveness, which this prover does not do (`QuitEnds`,
`StopEnds`, `ProjectionEnds`, and the fairness part of
`ImplementsLookupSession`).  Of `QuitEnds` and `ProjectionEnds` the theorems
above prove that nothing is stuck and nothing goes on for ever, which leaves
that a step which stays possible is taken; `StopEnds` has no such part, since a
server may send for as long as the progress callback is not called.

## Not modelled

- *Projection and views:* the scalar members but for the range, what is within
  a property of a contact, a collection that is no array, statuses, the DNS
  view, and the wording of lines.
- *Session:* scroll positions, the focus, the selected line of a menu, the
  spinner, the configuration file.
- *Bootstrap:* the text of `Cache-Control`, the width of times and ages, the
  JSON of a cache file and of a registry.  Paths and environment variables.
- *libcurl, FTXUI, `inet_pton`, the file system:* only as the code uses them.
- The command line; the build files, packaging scripts and tests, which are no
  part of the running program.

## Plan

1. (done) The session, its saved queries, the abstract lookup session; the
   proofs of the hand-over, the browse index, the refinement and the saved
   queries.
2. (done) File replacement with its abstraction and proof; bootstrap
   documents, with a clock that is set back, and their proofs; service
   selection and the proof of its loop.
3. (done) `HttpTransfer` and its proof.
4. (done) `QueryParsing`; `RecordProjection` and `RecordView` with their proofs;
   the proofs of `resolve`, of the order in which entities are kept, of what is
   a domain and a network prefix, and that parsing undoes formatting.
5. What is within a property of a jCard (`domain_record_parser.cpp:304-366`):
   `flatten_text` recurses as deep as the response nests.
6. Two sessions on one `state.json`, where the last writer wins; the message of
   `toggle_current_favorite` after a failed write.
7. The worker of `TuiSession` composed with `ServiceLookup`, `BootstrapLoad` and
   `HttpTransfer`, with the property that quitting ends within one progress
   callback.
