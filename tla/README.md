# A verification project for RepoKarta

RepoKarta is a local server (Go) that keeps a catalogue of Git repositories,
clones some of them itself, indexes them for search with Zoekt, derives further
indexes, maps and a wiki from them, checks their dependencies against OSV, and
lets users chat with coding agents whose answers cite the indexed sources. This
directory holds TLA+ modules translated from that code, the TLC configurations
that check them on small instances, and TLAPS proofs of what matters most.

`tlc -config X.cfg M` checks a configuration, `tlapm M.tla` checks the proofs of
a module. `PROJECT.json` lists components, runs, theorems and hazards, and maps
every definition to the lines it models. Paths below are relative to
`src/internal/` unless they say otherwise.

## 1. Inventory

### Catalogue and search index — `search/coordinator.go`, `search/watcher.go`, `search/zoekt/adapter.go`, `catalog/catalog.go`, `store/store.go`

*State.* The `repositories` table (index state, indexed revision, `indexed_at`,
scan state, misses), the shards in the index directory, the coordinator's
`refreshMu` and `indexing` flag, the listing an indexing pass works on, the
watcher's `paths` map and debounce timer.

*Operations.* `Start`, `Refresh` (discover, synchronise, watch, list, prune,
queue), `queueIndexing`, `indexPending`, `indexRepository`, `Adapter.Index`,
`PruneRepositories`, `EnsureIndexConfiguration`, the watcher's `Update` and `Run`.

*Hard.* Refreshes and one indexing goroutine run concurrently and meet only in
the database, in `indexMu` and in an atomic flag; a pass works from a listing
that refreshes overtake; every store call can fail half way through; the process
can stop anywhere and leaves the database and the shards.

*Correct when.* One indexing goroutine runs; no pending repository is forgotten;
a ready row tells the truth about its shards; `indexing` never outlives its
goroutine unnoticed; at rest, the index is current.

### Derived-index queue — `search/coordinator.go` 285–343

*State.* A list, the set of queued repositories, a bounded signal channel.
*Operations.* `queueIndexed`, `nextIndexed`, `observeIndexedWorker`. Producers are
the indexing goroutine and `Start`; the observers feed the Java SCIP builder and the
map artifacts (`app/app.go`). *Hard.* The signal is given up when the channel is full,
after the mutex was released. *Correct when.* List and set agree; no worker sleeps on a
list that is not empty; everything queued reaches the observer.

### Java SCIP builder — `scipjava/scipjava.go`, `scipindex/scipindex.go`

*State.* `pending`, `queued`, `running`, `rerun` under `mu`, the signal channel, the
SCIP row of each repository, the published artifacts. *Operations.* `Queue`, `Retry`,
`next`, `finish`, `worker`, `indexRepository`, `Import`, `Prune`. *Hard.* A request that
arrives while the repository is built has to survive; `Retry` writes its row outside
the mutex; the search index moves on under a build; a catalogue refresh sweeps
artifacts from a list it took earlier. *Correct when.* The queue is "lossless,
deduplicated" as its comment says: one build per repository, and a final row for
exactly the indexed revision.

### Map artifacts — `graph/service_artifacts.go`, `graph/artifact_io.go`

*State.* A snapshot file and a structure file per signature of a repository row, the
table `snapshotLocks` under `snapshotMu`. *Operations.* `Snapshot`, `PrepareStructure`,
`cachedRepositorySnapshot`, `removeSupersededSnapshots`, `StructureProgress`. *Hard.*
A goroutine that publishes holds the lock of its own snapshot while it takes the locks
of the files it supersedes; locks leave the table while others have looked them up; the
row moves on under a preparation. *Correct when.* What a ready row needs is there at
rest; superseded files do not pile up; nobody waits for ever.

### Acquisition — `acquisition/service.go`, `store/acquisition.go`

*State.* The registry row of each repository, the checkouts in RepoKarta's storage, the
mutex `operation`, the list the scheduler works on. *Operations.* `Acquire`, `Sync`,
`Remove`, `StartScheduledSync`, `CatalogueRepositories`. *Hard.* A row is written before
the clone, the clone is moved into place, the row is written again; a removal moves the
checkout to the trash before the row goes; each of these can fail, and the process can
stop in between. *Correct when.* No checkout is without a row; a ready row names its
checkout; only a removal takes a usable repository away; everything is tried again.

### Wiki documents — `docs/docs.go`

*State.* The manifest (survey, plan, pages), the Markdown files, the active pages of the
process. *Operations.* `Plan`, `Page`, `Export`, `Generate` with its phases (survey, plan,
pages). *Hard.* Readers plan, and save what planning finds, at any time beside a generation;
text and record are saved one after the other; an interrupted page is recovered by whoever
looks at it; a new plan is saved before the texts of dropped pages are removed. *Correct when.*
What is ready has its text; nothing stays active without a generation; no text goes while a
page needs it.

### Dependencies and advisories — `dependencies/advisories.go`, `dependencies/service.go`

*State.* The OSV snapshot on disk, the progress, the pool of workers of a refresh.
*Operations.* `StartAdvisoryRefresh`, `StartAdvisoryScheduler`, `queryAdvisoryIDs`,
`fetchAdvisories`, `Findings`, `affectedVersion`. *Hard.* Workers, a dispatcher on an
unbuffered channel and a collector that any failure may abort; a snapshot with holes must
not pass for a complete one; version ranges are lists of events in any order. *Correct
when.* A refresh ends; a complete snapshot is whole; a `ready` answer without findings is
clean; the boundaries of ranges are exact.

### Conversations — `agent/agent.go`, `mcpserver/tokens.go`

*State.* The table of live conversations, an object with an `active` flag and a
provider session for each, start locks, the stored transcripts, the credential of
each conversation. *Operations.* `Send` (resume, create, claim, verify, fallback, drop),
`Interrupt`, `DeleteConversation`, `reapIdle`, `Close`, `Issue`, `Revoke`. *Hard.* Requests,
deletions and the reaper take an object out of the table in one critical section and
close, revoke and delete afterwards, while others resume the conversation. *Correct
when.* One turn per session; a turn keeps its session, credential and transcript; every
provider process is owned by somebody who will close it.

### Stored images and their cleanup — `store/store.go`, `maintenance/maintenance.go`

*State.* The rows of `conversation_message_images` and a file for each. *Operations.*
`AppendMessage`, `DeleteConversation`, and the cleanup of attachments (`Inventory`, `Plan`,
`Execute`). *Hard.* Files and rows change in different steps, identifiers may be given out
twice, a cancelled transaction is gone before its handler has undone the file, a commit
whose answer is lost may have taken effect, and a cleanup works from references it read
before it looked at the directory. *Correct when.* The image of a stored message can be
read; a deletion removes what is its own.

### Telemetry batching — `telemetry/batch.go`, `telemetry/status.go`

*State.* A bounded channel, a batch, `stopped`, the counts shown to administrators.
*Operations.* `OnEnd`, `run`, `ForceFlush`, `Shutdown`. *Hard.* The depth is counted before the
send and after the receive, and clamped at zero; `Shutdown` races spans that end. *Correct
when.* Every span is exported or counted; the depth is exact; `Shutdown` returns.

### Not modelled

| Component | Why, or when |
|---|---|
| Insights (`insights/service.go`) | polls quality services into caches; next in the plan |
| Registry refresh (`dependencies/service.go`) | next in the plan: ETags and failed lookups |
| Provider sessions (`agent/claude`, `codex`, `anthropic`) | one subprocess protocol each; `Conversations` sees a session as open or closed |
| Security, identity, SCIM | sign-in configuration and provisioning; planned for their state machines |
| Other maintenance | the further categories of the inventory, map retention, diagnostic bundles |
| Searchers (`search/zoekt/adapter.go` 163 ff.) | leases on a swapped searcher; planned |
| Software map, reachability | pure extraction; a graph algorithm, planned |
| Code intelligence, semantic index, query language, evidence search, source access, MCP and HTTP servers, search workspace, audit, access | parsing, reading, checks and presentation without a protocol of their own |
| Web client, packaging, vendored Zoekt, documents | out of scope |

## 2. Modules

| Module | Models | Role |
|---|---|---|
| `IndexCoordinator` | catalogue and search index | component |
| `DerivedQueue` | derived-index queue | component |
| `JavaScip` | Java SCIP builder with its artifact store | component |
| `WorkQueue` | what a background queue promises | abstract specification, implemented by `DerivedQueue` and `JavaScip` |
| `MapArtifacts` | snapshots, structures and their locks, with the row and the queue that feed them | component |
| `Acquisition` | registry, checkouts, schedule | component |
| `WikiDocs` | the wiki of one repository | component |
| `AdvisoryRefresh` | refresh of the OSV snapshot | component |
| `OsvRanges` | which versions a list of events affects | pure algorithm with its reference definition (`Covers`, `Affects`) |
| `AdvisoryFindings` | answers about findings beside the refresh | extends the two above |
| `Conversations` | live chats and their credentials | component |
| `ConversationFiles` | images of stored messages and their cleanup | component |
| `TelemetryBatch` | batch processor | component |
| `MC*` | symmetry sets and enumerated inputs for TLC | model checking |
| `QueueProofs` | lemmas on lists without duplicates; theorems about `JavaScip` and, as instances, `DerivedQueue` and `TelemetryBatch` | TLAPS |
| `*Proofs` | invariants and theorems about the module of that name; `AdvisoryProofs` about both advisory modules | TLAPS |

### IndexCoordinator

`refresh` is the program counter of the one `Refresh` that holds `refreshMu`; `up` is
how far `Start` has come; `pc[i]` is the program counter of indexing goroutine `i`.
Several of them may be alive at once: one that has dropped the flag looks at the
catalogue again while the next one works. `Requeue` lets the goroutine that ends and
the one it starts share a slot. A row is a record of the columns the code decides on;
`found` is what discovery saw and `git` what is on disk, so a scan can be overtaken.
`shards` says what the shards of each id were built from. Each transaction
(`SyncRepositories`, `UpdateIndexState`, `EnsureIndexConfiguration`) is one step, and so
is each critical section of `indexMu` but the build, which takes two.

`orphaned` and `stranded` are history variables: the rows that a stop or a failed write
left in `indexing`, and whether a call failed after which nobody is on the way to
`queueIndexing`. They make `IndexingIsOwned` and `NoLostPending` precise: the code has
no other way of losing a repository.

`Identity` chooses between the ids of PostgreSQL, which are never given out twice, and
those of SQLite, whose `INTEGER PRIMARY KEY` takes the largest rowid plus one, so that
the id of the last row deleted is given to the next row inserted.

### DerivedQueue, JavaScip and WorkQueue

`WorkQueue` says what a caller may count on. It knows the item each caller has `asked` for, the
items that are `owed`, the item each worker is `busy` with, and how often the process was started
(`starts`). A call (`Ask`) ends in `Accept`, which makes its item owed, even if a worker holds it just
then; only `Take` ends that, and the taker holds the item until `Finish`. When `Exclusive`, nobody
takes what another worker holds. There is no step that loses an item: only `Restart` forgets, and it is
counted. `DerivedQueue` maps `asked` to the calls that wait for `indexedMu` (`wanted`), `owed` to `queued` and
`starts` to 0: it never forgets. `JavaScip` maps `owed` to `queued \cup rerun`, `starts` to its restarts, and is
exclusive. A request that is dropped because its repository runs, is listed, or fails to be listed
therefore violates the refinement, as does one that is invented or taken twice; the mutants `DropsRequest`
and `MayQueueIdle` do the first. That a worker takes what is owed is liveness, and stays with
`QueuedIsObserved` and `EventuallySettled`.

`JavaScip` sees the search index through the row of each repository: `Reindex` moves its
revision, `IndexReady` makes it ready and leaves an announcement owed. The step after a
critical section that sends the signal is separate, as in the code. `"over"` stands for
`skipped`, `unavailable` and `failed`. A refresh lists the repositories (`ListForPrune`) and
prunes later (`Prune`); `sweep` holds the list in between.

### MapArtifacts

One repository; its row moves (`HeadMoves`), is indexed and is queued for preparation as the
coordinator does it. `pc` follows a goroutine through `PrepareStructure`, `Snapshot` and the
pruning; looking a lock up in the table and locking it are two steps, because the table may
forget the lock in between. Lock objects are told apart by numbers, which are used again
once nobody refers to them. The locks of structure files cover one access each and nothing
else, so they are left out, as is the `all-` file of the whole collection. `lost` and `failed`
are history variables: the exceptions that the properties name. A directory that cannot be listed (`ListFails`)
prunes nothing and counts as `failed`.

### Acquisition

`op` is the operation that holds the mutex, with the step it is at (`look`, `clone`, `activate`,
`fetch`, `checkout`, `record`, …); `StepFails`, `RecordFails` and `DeleteFails` are its error paths. A
write of `ready` that fails returns an empty record, so that the following `fail` cannot store
the error either: the row keeps what it said. A crash keeps rows and directories. `unread` is
the set of checkouts that `catalog.Inspect` fails for: `GitBreaks` and `GitMends` change it at any time,
a synchronisation then fails at its inspection, and `CatalogueRepositories` passes the repository over.
`unclean` and `faulty` are history variables. Temporary clone directories and what is in the trash are
not part of the state; the code leaves them behind after a crash.

### WikiDocs

A generator goes through `Generate` with the lock it holds to the end; a reader goes through
`plan` at any time. `site` is the copy of the manifest a request works on; every save replaces
only the survey, the plan or one page, as the code does under `mu`. `savePlan` takes two steps under
`mu`: `SavePlan` replaces the manifest, `RemoveTexts` removes any part of the superseded texts (a removal
that fails is only logged), and a crash may come in between; nobody loads or saves a manifest
meanwhile (`Unlocked`), but a generation may hold, and a reader may save later, an older copy. A commit stands for the
revision and `text` says for which revision a text was written. What a diff says of a page and
which pages a plan has are chosen freely. A reader forgets its copy when it is done, and head
moves are part of the step that reads the structural snapshot: neither can be told apart from
outside. Steering, profiles, the validation of answers and the generator without a provider
are left out.

### AdvisoryRefresh, OsvRanges, AdvisoryFindings

`run` holds the stage of the one refresh `startMu` allows, `worker` what each goroutine of
`fetchAdvisories` does, `results` the channel. Paging is part of a query: a page that brings
nothing new changes nothing. The digest of a query is its set of packages. `OsvRanges` translates
`sortedOSVEvents`, `eventsContain`, `nearestFixed` and `affectedVersion` over versions that are numbers
in the order of their ecosystem; the code breaks a tie between an introduction and an end only where both
spell the version alike, and the model has one spelling of each. The stable sort is written
as the place each event takes (`Place`), the loop as a function of the number of events read (`Found`).
`AdvisoryFindings` adds the answer of `buildFindings` to the
state; questions are asked while no refresh is under way, because an answer reads the snapshot
file once and a refresh replaces it in one step. An advisory has its entries for each package
(`Affected`). Findings are merged as `deduplicateFindings` does it, by a name that two ecosystems
may share (`Name`); which of the merged declarations the finding shows first is left out.

### Conversations

The *n*-th `startConversation` makes the object *n*, the session *n* and the credential
*n*. A turn that falls back to a fresh session keeps its object and takes the next number
for the session. Turns are goroutines inside `Send`, from the start lock to the deferred
release of `active`; deleters are goroutines inside `DeleteConversation`. The reaper may
take any unclaimed object: the idle time only delays it. `Close` comes after the HTTP
server has waited for its requests (`app/app.go`). The three reads of `Interrupt` are one
step.

### ConversationFiles

Each append is a message with one image; messages without images are left out, since their rows
give out no names of files. The content of a file is the append that wrote it, which stands for
the size and time the cleanup compares. `Rollback` may come at any moment after `Begin`: the
context of a request ends its transaction whatever the handler is doing. Under PostgreSQL a call of `Commit`
may also end in an error without an answer (`CommitUnanswered`; the context of `agent.go` 510 can be cancelled, or the
connection lost, while COMMIT is in flight): the handler removes its files, and the row may be stored
at any time after (`CommitLands`), even after the process has ended, or not at all. The DELETE of a
conversation may go unanswered in the same way. SQLite runs inside the process: there, an error from `Commit` is
taken for a transaction that did not commit. `CheckFile` and
`RemoveFile` are the `Lstat` and the `Remove` of `removeExactFile`. One administrator cleans up.

### TelemetryBatch

Spans are counted, not told apart. The steps of a producer are the depth, the send, the undo and
the drop; those of the worker are the receive, its count, drains and exports. `purpose` says why the
worker drains: a full batch, the timer, or the caller it answers. Nobody in the repository calls
`ForceFlush`; it is part of the processor's interface and modelled with it. A span that reaches the channel
after the worker has returned stays there and counts as queued: `EverySpanIsAccounted` speaks of the
counts, and `ShutdownFlushes` (finding 12) of what is exported.

### What every module assumes of its calls

A call to a database, the disk or git that returns an error had no effect, unless a module says
otherwise, and one that succeeds had its whole effect. `ConversationFiles` says otherwise of `Commit` and
`DELETE` under PostgreSQL, because a file is removed on the strength of that error; `MapArtifacts` of a
publication cut short, and `WikiDocs` of texts written without their record. What this leaves out:
`DeleteFails` of `Acquisition` takes a DELETE that failed for a row that is still there, so a request
cancelled while its DELETE is in flight (`acquisition/service.go` 550–552), whose row may be gone while the checkout
is moved back, is outside of `NoOrphanCheckout`; so are index and SCIP states that a failed
`UPDATE` wrote after all. Reads of a wiki manifest or an OSV snapshot that exists succeed.

## 3. Runs

Every run passes; what each shows is in the second table. Invariants of types that a theorem
covers (section 4) are not checked a second time here.

| Run | Configuration | Instance | States |
|---|---|---|---|
| `catalogue_failures` | `CatalogueFailures.cfg` | 1 path, 2 commits, 2 goroutines, 2 disk changes, 3 requests, 1 stop, all failures | 1.6 million |
| `catalogue_live` | `CatalogueLive.cfg` | the same without failures, 1 request | 381,000 |
| `derived_queue` | `DerivedQueue.cfg` | 3 repositories, 2 producers, 2 workers, a channel of 2 | 63,500 |
| `scip` | `Scip.cfg` | 1 repository, 2 revisions, 2 workers, 1 caller, 2 re-indexes, a retry, a restart, a sweep, all failures | 881,000 |
| `map_publish` | `MapPublish.cfg` | 1 repository, 2 signatures, 1 observer, 1 handler, 1 head move, failures, restarts | 234,000 |
| `acquisition` | `AcquisitionSync.cfg` | 1 provider repository, 1 of the user, 2 commits, 1 move outside or failure of git, 1 crash, all failures | 538,000 |
| `wiki` | `Wiki.cfg` | 2 generators, 1 reader, 2 pages, 2 revisions, 1 crash, all failures | 3.4 million |
| `advisories` | `Advisories.cfg` | 2 packages, 3 advisories, 2 workers, refusals, failures, restarts; inventories of 2 declarations; every list of up to 3 events, and those of 4 with two introductions | 600,000 |
| `chat_turns` | `ChatTurns.cfg` | 1 stored conversation, 2 turns, reaper, 3 sessions | 74,900 |
| `chat_deletes` | `ChatDeletes.cfg` | 1 conversation to create, 2 turns, 1 deletion, 3 sessions | 2.0 million |
| `conversation_files` | `ConversationFiles.cfg` | both databases, 2 conversations, 2 appends, 2 deletions, a cleanup, 1 crash | 3.6 million |
| `telemetry` | `TelemetryBatch.cfg` | 2 producers, 1 flusher, `Shutdown`, a channel and a batch of 2, 6 spans | 216,000 |

| Run | Property | Shows |
|---|---|---|
| `catalogue_failures` | `SingleIndexer` | one goroutine is in the indexing loop, and the flag says so |
| | `NoLostPending` | a pending repository has somebody on the way to it, or a call failed |
| | `IndexingIsOwned` | a row in `indexing` has its goroutine, or a stop or failed write left it and it is known |
| | `ReadyMatchesShards` | a ready row names what its shards were built from |
| `catalogue_live` | `PendingIsIndexed` | every pending repository is taken in the end |
| `derived_queue` | `ImplementsWorkQueue` | what is asked for is owed until an observer takes it; nothing is forgotten |
| | `QueuedIsObserved` | everything queued reaches the observer: no signal is missed for good |
| `scip` | `SettledIsCurrent` | when nothing is owed, the row is final for the indexed revision and the configured producer |
| | `ImplementsWorkQueue` | lossless and exclusive: what is asked for, during a build too, is owed until a worker takes it, no two workers build one repository, and only a restart forgets |
| | `EventuallySettled` | every ready repository gets its final row, or its index moves on |
| `map_publish` | `PreparedIsServed` | at rest, a ready repository has its structure |
| | `SnapshotsCollected` | at rest, superseded snapshots are gone |
| | `OnlyCrossedHang` | a publication ends, unless goroutines want each other's locks |
| `acquisition` | `NoOrphanCheckout` | every checkout in RepoKarta's storage has a row |
| | `ReadyMatchesCheckout` | a ready row names the commit of its checkout |
| | `ErrorHasCause` | no crash and no order of operations alone leads to `error` |
| | `OnlyRemovalUncatalogues` | "a failed sync never silently removes the last usable revision", as long as git can read it |
| | `EveryRowIsTried` | every managed repository is synchronised again and again |
| `wiki` | `ActiveIsLive` | what is marked active is what the one generation works on |
| | `SurveyReadyIsCurrent`, `NeverAheadOfItsText` | no record is newer than its text |
| | `TextOutlivesPage` | a text is removed only while the manifest on disk has no page for it, old or saved again |
| `advisories` | `CompleteIsWhole` | a snapshot that is not partial has every advisory of its packages |
| | `ReadyIsClean` | a `ready` answer has every advisory that affects a declaration |
| | `FindingsAreTrue` | a finding is shown only at declarations that its advisory affects |
| | `RangesAreExact` | ranges are read as documented, and the fix offered is the nearest |
| | `RefreshEnds`, `ExpiredIsRefreshed` | the pool ends whoever gives up first; what expired is asked for again |
| `chat_turns` | `OneTurn`, `TurnKeepsSession` | one turn of a conversation, on a session nobody closes |
| | `EverySessionIsOwned`, `LeftoverIsClosed` | every provider process is known to somebody, who closes it in the end |
| `chat_deletes` | `OneTurnPerSession` | two turns never talk to the same session, deletions included |
| `conversation_files` | `ImagesSurvive` | the image of a stored message is there, but for three named exceptions |
| | `DeletesOwnFiles` | a deletion takes no file of another conversation |
| `telemetry` | `EverySpanIsAccounted` | no span leaves the counts |
| | `ShutdownReturns` | the worker hears `Shutdown` whatever else it has to do |

`map_publish`, `wiki`, `advisories` and `conversation_files` check the type invariants of their
modules as well. Two configurations outside the list pass too: `WikiLive.cfg` checks `RequestsEnd` (every
request for pages ends) without a reader; `ScipQueue.cfg` checks `ImplementsWorkQueue` of `JavaScip` with two
repositories and two callers (413,000 states), so that one repository is listed, built and asked for again
beside the other.

*Why the bounds are enough.* Repositories never touch each other's rows or shards but
through the ids, so one path meets every interleaving of refreshes, passes, failures
and stops that concerns it; three requests and the watcher's timer are enough for the
three misses that delete a row and for its return. Two queue items are enough for order
and duplicates, two workers for a build that overlaps another, and a channel of capacity two
fills up with two producers. `derived_queue` and `ScipQueue.cfg` have more than one item to lose or to
double; that `JavaScip` keeps any number of repositories apart is proved. Map artifacts of different repositories share only `snapshotMu`, which is never
held across a wait; two signatures are enough for a goroutine that publishes what another
supersedes, and one head move for a row that is replaced under a preparation. The operations of
acquisition exclude each other, so one repository of each kind, one change outside (a commit that
arrives, a directory the user moves, a checkout that git cannot read) and one crash at any step give
every order; whatever number is proved. Two generators compete for
the lock; each runs into a reader that planned before, during or after it; two pages are
enough for one to be dropped, kept or added while the other is generated, two
revisions for one to be stale. Two workers are enough for one to give up while the other holds
a result, three advisories for a dispatcher that still has work when both have given up;
lists of three events have every order of an introduction, an end and another introduction,
those of four a second range. One conversation is enough because conversations share nothing but
`mu`; two turns with the reaper show each interference between a claim and a removal, and three
sessions let a conversation be resumed, replaced and resumed again. Two appends are enough for an
identifier to be given out twice, two deletions for one to remove what the other's
conversation was given. Six spans fill the channel and the batch of two
and leave some to be dropped. The properties proved in section 4 do not depend on the bounds.

*What holds only under a condition.* `OneTurn`, `EverySessionIsOwned` and `LeftoverIsClosed` are
checked for conversations that are stored already, without deletions: `ChatCreate.cfg` and
`ChatActiveDelete.cfg` show how creation and deletion break them. The same holds for
`TurnKeepsSession`: a deletion that is refused puts back an object that its turn may have dropped
meanwhile. `OneTurnPerSession` needs no such condition. `RangesAreExact` speaks of lists in which a
range is ended before it is introduced again and no version ends a range in two ways; `AdvisoryRanges.cfg`
shows the other case. `ImagesSurvive` excepts an identifier that SQLite gave out twice, an
append that was under way from before the preview until after `Execute` read the references, and
a `Commit` that PostgreSQL carried out without its answer arriving. Under PostgreSQL the last two are the only
appends that can lose their file (`PostgresKeepsImages`), and TLC reaches both; `FilesUnanswered.cfg` is the
second (finding 15).
`ReadyMatchesCheckout` excepts a removal that was cut short after the move to the trash, which leaves a
ready row without a checkout until the next synchronisation. `OnlyRemovalUncatalogues` excepts a checkout that
git cannot read at the time.
`PreparedIsServed` and `SnapshotsCollected` except a publication or pruning that failed, and a structure that a goroutine
with an older row removed.

*Deadlock.* `CHECK_DEADLOCK FALSE` wherever the bounds on changes, requests, sessions or spans
run out, or a server that nobody asks for anything is at rest. In `advisories` and
`conversation_files` deadlock is checked: time, the scheduler and the administrator always have a
next step.

### Fairness

- `IndexCoordinator`: a refresh that started, the watcher's timer and the indexing
  goroutines are weakly fair: they are goroutines whose database calls and builds return.
  Nobody has to change a repository, request a refresh, boot or stop. Failures are switched off in
  the liveness run, because a call that always fails indexes nothing.
- `DerivedQueue` and `JavaScip`: workers, observers and callers in progress are weakly fair;
  builds end because they run under the configured timeout. The Go scheduler and a
  channel receive justify no more than weak fairness, and no more is used.
- `MapArtifacts`, `Acquisition`, `WikiDocs`: goroutines in progress are weakly fair. Whoever waits for
  a `sync.Mutex` that is free again and again is strongly fair, because a mutex in starvation mode hands
  itself to the goroutine that has waited longest. The scheduler of acquisition ticks and its
  backoff ends.
- `AdvisoryRefresh`: requests to OSV have a deadline, goroutines run, the scheduler ticks. Expiry,
  declarations, shutdown and restart may come or not.
- `Conversations`: turns in progress are weakly fair (each runs under `turnTimeout`), and so
  are a deletion that started and the closing and revoking of a reaping pass. No one has to
  send, delete or start a reaping pass.
- `TelemetryBatch`: the worker and producers in progress are weakly fair; a caller that keeps
  offering its request is strongly fair, because `select` chooses at random among what is ready.
  No context has to end.

## 4. Theorems

All are proved for every value of the constants that satisfies the named assumptions.

| Module | Theorem | Says |
|---|---|---|
| `IndexCoordinatorProofs` | `TypeCorrect`, `OneIndexer`, `NothingForgotten`, `IndexingHasOwner`, `ReadyIsBuilt` | `TypeOK`, `SingleIndexer`, `NoLostPending`, `IndexingIsOwned`, and, assuming `Identity`, `ReadyMatchesShards` |
| `QueueProofs` on `JavaScip` | `TypeCorrect`, `BuildsAreSeparate`, `WakeupSafe`, `QueueIsLossless`, `ImplementsQueue` | `TypeOK`, `OneBuildPerRepository`, `NoLostWakeup`, `SettledIsCurrent`, `ImplementsWorkQueue` |
| `QueueProofs` on `DerivedQueue` | `IndexedTypes`, `IndexedListMatchesSet`, `IndexedWakeups`, `IndexedImplementsQueue` | `TypeOK`, `QueueMatchesSet`, `NoLostWakeup`, `ImplementsWorkQueue` |
| `QueueProofs` on `TelemetryBatch` | `SpanTypes`, `SpansAreAccounted`, `DepthHolds` | `TypeOK`, `EverySpanIsAccounted`, `DepthIsExact` |
| `ConversationsProofs` | `TypeCorrect`, `SessionsAreSeparate` | `TypeOK`, `OneTurnPerSession` |
| `ConversationsProofs` | `SessionStaysOpen`, assuming `Deleters = {}` | `TurnKeepsSession` |
| `ConversationsProofs` | `OneTurnAtATime`, `NoProcessForgotten`, assuming `Deleters = {}` and `Stored = Chats` | `OneTurn`, `EverySessionIsOwned` |
| `AcquisitionProofs` | `TypesHold`, `NoOrphans`, `ReadyRowsAreTrue`, `ErrorsHaveCauses`, `RemovalAlone` | `TypeOK`, `NoOrphanCheckout`, `ReadyMatchesCheckout`, `ErrorHasCause`, `OnlyRemovalUncatalogues` |
| `ConversationFilesProofs` | `TypesHold`, `ImagesAreKept`, `DeletesAreExact` | `TypeOK`, `ImagesSurvive`, `DeletesOwnFiles` |
| `ConversationFilesProofs` | `PostgresKeepsImages`, `PostgresDeletesItsFiles`, `PostgresForgetsTranscripts`, assuming `Backends = {"postgres"}` | `AllImagesSurvive`, `OnlyItsFiles`, `TranscriptGoes` |
| `WikiDocsProofs` | `TypesHold`, `ActiveIsWhatRuns`, `SurveyIsCurrent`, `PagesHaveTheirText`, `TextGoesWithPage` | `TypeOK`, `ActiveIsLive`, `SurveyReadyIsCurrent`, `NeverAheadOfItsText`, `TextOutlivesPage` |
| `AdvisoryProofs` | `TypesHold`, `CompleteSnapshotsAreWhole`, `RangesAreRead`; assuming `RangesEnd`, `ReadyAnswersAreClean`; assuming `RangesEndOnce`, `NoFalseFindings` | `TypeOK`, `CompleteIsWhole`, `RangesAreExact`, `ReadyIsClean`, `FindingsAreTrue` |
| `AdvisoryProofs` | `ProgressIsTrue` | `ProgressAddsUp`, defined there |
| `MapArtifactsProofs` | `TypesHold`, `ReadyIsPrepared`, `OneSnapshotIsLeft` | `TypeOK`, `PreparedIsServed`, `SnapshotsCollected` |
| `MapArtifactsProofs` | `BuildingIsMeant`, `LocksExclude`, `DeadlockIsOfPruners` | `BuildingOrLost`, `OneHolder`, `BlockersPrune`, defined there |

The two modules that `QueueProofs` takes as instances bring their assumptions as hypotheses:
`Buffered` (the signal has room for a token) and `Sized` (the channel and the batch hold a
span) are the `ASSUME`s of `DerivedQueue` and `TelemetryBatch`, which TLC evaluates on their own runs.
Every inductive invariant was model-checked on the component's run before it was proved.

*IndexCoordinator.* `SingleIndexer` is inductive on its own: only the compare-and-swap
enters the loop, and only the goroutine in it drops the flag. `NoLostPending` is
inductive once the type invariant is known: every step that makes a row pending is one of a
refresh that is still on its way to `queueIndexing`, and every end of a goroutine looks at
the catalogue after it dropped the flag. `ReadyMatchesShards` is far from inductive.
The strengthening (`Core`) says
that ids are drawn from the sequence and no two rows share one, that a listed target
still means the path it was listed for, that the row of a running job is not ready and
the shards it built stay while its row lives, and that the ids listed for the sweep
are the live ones until it has run. It needs `Identity`: see the end of section 5.
`IndexingIsOwned` holds whatever ids are given out: a goroutine takes a job only when it has none
(`JobShape`), and drops it in the step that settles the row or is known to leave it.

*DerivedQueue.* A worker waits only after it found the list empty; a producer
signals after every append unless the channel is full, and a full channel holds a
token. The list and its set are related by a few lemmas (`AgreeAppend`, `AgreeTail`), the only
place where sequences are reasoned about.

*JavaScip.* The invariant has three layers. `Typed` is the type invariant with what the steps of the
workers and callers say of their records. `Separate` adds that the running set is the set of the
busy workers' repositories, that they are distinct, that nothing runs and is listed, and the wakeup argument. `Lossless` says
of a repository for which nothing is on its way (`Unasked`): if a worker builds it,
the worker read the indexed revision, skips only what is done and leaves a settled row
(`OnCourse`); if none does, its row is settled. `QueueIsLossless` reads off the second
part, and `ImplementsQueue` uses `Separate` to map every step to a step of `WorkQueue`
or a stutter: the critical section of `Queue` to `Accept`, whichever of its branches is taken, that
of `finish` to `Finish`, after which a repository to run once more is still owed.

*Conversations.* `Typed` adds to the type invariant what each step knows of its turn (`Aims`)
and that one request holds a start lock (`Exclusive`). `Linked` ties turns, objects and
sessions together: the active objects are those of the claimed turns, one each
(`Claims`); an object that can be reached has a session (`Reached`); session numbers are
fresh when issued and belong to one object (`Numbered`). `OneTurnPerSession` follows,
whatever is deleted. `TurnKeepsSession` needs three more parts: an object has one place in
the table, and whoever drops or reaps it has taken it out first (`Placed`); what a turn
has started is known to nobody until it is registered (`Hidden`); the sessions of running
turns, of the table and of unregistered starts are open (`Kept`). `OneTurn` needs `Seated`: a
running turn has the object that the table names. `EverySessionIsOwned` needs `Seated` too, because a
session that is replaced would otherwise belong to an object that no table names, and `Known`:
a turn has a session of its own only while it starts, registers or replaces one, and a session that is
not started yet is not open. Each step then hands its session on to the next owner or closes it.

The two conditions are the code's own limits; TLC finds a counterexample without either.
`DeleteConversation` takes the object of a running turn out of the table before it looks
whether a turn is active, so that a second request resumes the conversation beside it; a
creator registers over a request that resumed its conversation already (`ChatCreate.cfg`).
Either way two turns of one conversation run, each on a session of its own. And an object
that a deletion puts back may have been dropped meanwhile: the next turn then runs on a
closed session, fails, and drops it again.

*Acquisition.* `NoOrphanCheckout` alone is not inductive: a clone that is activated needs the row
that `Acquire` wrote, so an operation has its row and the row does not say ready (`RowsOfOp`), and
what is about to be recorded is what the checkout is at (`RecordsCheckout`). While a removal has the
checkout in the trash, the row still speaks of it (`ReadyNamesPlace`); and because no checkout is
without a row, a new clone never finds its target taken, which is the only way an operation would
fail without a failing step (`Causes`).

*ConversationFiles.* A file, wherever it is remembered, has the name its append was given (`Named`);
what is about to be committed has its file already (`Whole`); what a deletion removes was committed
for its conversation, which is gone (`Listed`); and what a cleanup removes was written by an append
that had failed, or by one that was under way at the preview and still when `Execute` read the
references (`Planned`). The append of a stored row is over, or had no answer from `Commit` and is on its way to remove
the file (`Committed`), so `Whole` and `Planned` speak of the rows that may still land too. Types need an argument by counting (`Counted`): both databases give out the
largest identifier plus one, so there are never more identifiers than appends that have
begun. Under PostgreSQL more can be said (`PInv`): identifiers differ (`Unique`), and a row, committed
or not, keeps its conversation (`Referenced`), because a deletion waits for the inserts into its
conversation. The exceptions of `ImagesSurvive` and `DeletesOwnFiles` for identifiers given twice, and
the findings 10 and 11, are then impossible; finding 15 is PostgreSQL's own.

*WikiDocs.* A generator is past the lock exactly while it holds it, and knows where it returns to
(`Staged`); with that, `ActiveIsLive` is inductive on every error path. Whatever a request may save as
the survey is an error or has the text of its revision (`SurveyCopies`). No text and no copy of a
page is of a revision later than the one the generator at work has read (`RevisionsKnown`), and no copy
that somebody may save is ahead of its text (`CopiesHaveText`): readers save stale copies at any
time, so these speak of all copies at once. `TextOutlivesPage` needs a part of its own (`Superseded`): between the
two steps of `savePlan` no page that is still to lose its text is in the manifest, because whoever saves one
waits for `mu`. The opposite does not hold: after a crash between the steps the text of a dropped
page stays for good, since the next plan compares with a manifest that no longer names it.

*Advisories.* What a refresh has not asked for yet is still pending (`Queried`); outside of
`fetchAdvisories` nothing moves in the pool, and what moves belongs to the run (`PoolOfRun`); every
identifier is in the queue, with a worker, in the channel or fetched, unless a failure was
counted (`NothingLost`). `CompleteIsWhole` follows when the report is written.

`RangesAreExact` compares the scan of the events with the reference definition (`Affects`), for lists of
any length. The induction it needs is over numbers, not over data: the library proves that the order
of the natural numbers is well-founded, from which `LeastNat` and `Inductive` follow for sets.
With them, `FoundIsScan` shows that the recursive function of the scan exists and has the values it says,
and `ContainsIsRead` that after `n` events the scan knows exactly whether two neighbours among them were an
introduction before the version and an end after it (`Read`). The sort is a rank: `PlaceIsOrder` shows
that an injection of a finite list into itself takes every place, so `SortIsRight` has the same events
without an inversion. What is left is about one sorted list. `CoversIsRead` needs that a range ends before
it is introduced again (`EndedBetween`), `ReadIsCovered` and `FixIsNearest` that no version ends a range in two
ways (`OneEndEach`): each half of `Regular` has its own use. The inductive invariant of the theorem
(`Answered`) only says that the answer is the result for its own question.

`ReadyIsClean` follows from `CompleteIsWhole` and `CoversIsRead`, `FindingsAreTrue` from `ReadIsCovered`;
together they say that a ready answer is exactly what the advisories affect. Their hypotheses
are about OSV's data alone: that introductions and ends alternate (`RangesEnd`) and that no version ends
a range in two ways (`RangesEndOnce`). `MCAdvisoryFindings` satisfies both, and finding 9 is what
happens without the first. `ProgressAddsUp`
is an argument by counting: an identifier is in one place only (`OnePlace`), so the failures counted are as
many as the identifiers that are in none (`Counted`). What was fetched and what failed are therefore
together no more than the identifiers, and the rest is what `runAdvisoryRefresh` reports as skipped: its
`max` with 0 never cuts anything.

*MapArtifacts.* `Served` says why `PreparedIsServed` holds before everything is at rest: a ready row
without its structure is queued, or an observer that read this very row will not leave before the
structure is there (`Serves`). `BuildingOrLost`, which makes `BuildingIsUnderway` (finding 14) precise, is
the same fact. `Collected` says of any two snapshots that some goroutine will still find one of
them (`Removes`): it has not listed the directory yet, or has one of them on its list.
`TypeOK` needs more than it seems: that a new lock finds a number is a pigeonhole argument
(`FreshIsFree`), for which a goroutine must refer to one lock of a file at most (`OneLockEach`): it
prunes files other than its own, and each once (`Pruned`). `OneHolder` is inductive with `AimsAtOwn`;
`BlockersPrune` follows from the same shape of the goroutines. What is left for TLC is that goroutines
really finish (`OnlyCrossedHang`).

*TelemetryBatch.* The two sums are inductive together with the types and with the fact that a worker
that receives has room in its batch (`RoomInBatch`). The clamp at zero is never needed, because a span is
counted before it is sent.

Out of the prover's reach, and left to TLC: the liveness properties and whatever rests on
fairness (`PendingIsIndexed`, `QueuedIsObserved`, `EventuallySettled`, `LeftoverIsClosed`,
`OnlyCrossedHang`, `ShutdownReturns`, `EveryRowIsTried`, `RefreshEnds`, `ExpiredIsRefreshed`). Every
invariant, action property and refinement of the runs is a theorem, some under the conditions of
the table.

## 5. Findings

Each comes with a configuration, outside the list of runs, whose counterexample is short enough to
read. None of these properties is claimed by the project; each states what a comment or document
of the repository says.

1. `CatalogueStaleReady.cfg` (`QuietIsCurrent`): `indexRepository` writes `ready` for the commit it
   was given without looking at the row again. A refresh that marked the row pending for a newer
   commit is undone, and the repository stays at the old commit until another refresh.
2. `ScipSweep.cfg` (`CurrentArtifactsPreserved`): `Refresh` lists the repositories, waits for the index
   lock inside `PruneRepositories`, and only then hands the old list to `scipindex.Prune`. An
   artifact imported for a newer revision meanwhile is deleted while its row says ready.
3. `ChatCredential.cfg` (`TurnHasCredential`): `reapIdle` and `dropConversation` revoke by conversation
   after they left the table; the session that resumed the conversation in between loses its credential.
4. `ChatActiveDelete.cfg` (`TurnKeepsTranscript`): `DeleteConversation` looks for an active turn only on
   the object it found in the table. When it found none, a turn that resumes before the row goes
   loses its transcript.
5. `ChatCreate.cfg` (`CloseReleasesAll`): a new conversation is registered unconditionally after its row
   is visible. A request that continues it in between starts a session of its own, which
   the creator overwrites; `Close` never sees that process.
6. `ChatInterrupt.cfg` (`InterruptStops`): the fallback for a stale cursor takes any error,
   `ErrInterrupted` included, so a turn stopped before its first output is sent again.
7. `CatalogueIndexedAt.cfg` (`ServingKeepsIndexedAt`): `UpdateIndexState` clears `indexed_at` while
   the previous shards still serve, which `SCOPE.md` lists as done otherwise.
8. `AdvisoryPartial.cfg` (`CompleteSurvives`): the comment of `StartAdvisoryRefresh` (`advisories.go` 1242)
   and `docs/dependency-advisories.md` say that a failed refresh leaves the previous complete snapshot.
   One advisory that cannot be fetched, or a shutdown in the middle of a refresh, replaces it by a
   partial one, which counts as fresh for a day.
9. `AdvisoryRanges.cfg` (`EveryRangeIsExact`): of two `introduced` events without an end between them
   the second hides the versions before it.
10. `FilesReissued.cfg` (`OnlyItsFiles`): under SQLite the identifier of a deleted message is given to
    the next one; the deletion that still removes files takes the new message's image with it.
11. `FilesTranscript.cfg` (`TranscriptGoes`): `foreign_keys` is set on one connection of SQLite's pool; a
    conversation deleted on another leaves its messages behind (`store.go` 1856 says they go).
12. `TelemetryFlush.cfg` (`ShutdownFlushes`): the worker may answer `Shutdown` after it drained one batch,
    with spans left in the channel (`docs/opentelemetry.md` 148: they are flushed).
13. `WikiInterrupted.cfg` (`ReadyWasNotInterrupted`): a reader that loaded the manifest during a run
    and looks at a page after it calls the finished page interrupted, and saves that.
14. `MapBuilding.cfg` (`BuildingIsUnderway`): `StructureProgress` may report a repository as building
    when nothing is queued or built for it, because a goroutine with an older row removed its structure.
15. `FilesUnanswered.cfg` (`StoredWithImages`): `AppendMessage` "stores one transcript entry and its
    filesystem-backed images" (`store.go` 1684). When PostgreSQL carries out a COMMIT whose answer does not arrive
    (`turnContext` cancelled, the connection lost), `Commit` returns an error, the deferred removal (1740–1746) takes the
    files, and the stored message names images that are gone.

Found while reading, without a configuration: `Start` scans before it creates the watcher and does not
scan again; a clone from a host that only the configuration allows is acquired and never
synchronised; the lock of a removed snapshot leaves the table while a goroutine that looked it up
still waits, so two may build the same file, and two that publish different signatures may
want each other's lock (`OnlyCrossedHang` allows exactly that, and `DeadlockIsOfPruners` shows that
nobody else is part of such a circle); a registry lookup that failed keeps its ETag, so
the following 304 counts as an error again; a page planned with the slug `survey` would share its file
with the survey; a reader may bring a page back that a new plan dropped; a refresh of advisories
with a filter replaces the snapshot of the whole fleet; findings of one name and version in two ecosystems are
merged (`advisories.go` 854), and the filter by ecosystem sees only the first; `nearestFixed` does not skip ranges of Git
commits; a temporary file of a running append is offered for cleanup as interrupted.

With `Identity = FALSE` (SQLite) TLC refutes `ReadyMatchesShards` on one path already: a
pass holds the target of a row that is deleted after three misses; the repository returns,
its new row gets the same id, and the pass records `ready` on it for shards that the
sweep removed. With the identities of PostgreSQL the property is a theorem.

## 6. Plan

Done: the catalogue, the two queues, map artifacts, acquisition, the wiki, advisories and their
findings, conversations, their stored images, telemetry. Next, in this order:

1. An abstract specification of the map artifacts (a store that serves one structure per row) and of
   the refresh of advisories, with the refinements proved.
2. The registry refresh of dependencies (ETags, failed lookups) and the polling of insights.
3. Provider sessions, composed with `Conversations` through the promise "open or closed".
4. Searcher leases, the expiry of credentials, the rest of maintenance, SCIM.
5. Reachability against a reference definition.
