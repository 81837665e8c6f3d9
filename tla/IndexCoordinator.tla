-------------------------- MODULE IndexCoordinator --------------------------
(***************************************************************************)
(* The catalogue and its search index: search.Coordinator (Start, Refresh, *)
(* queueIndexing, indexPending, indexRepository), the repositories table   *)
(* behind it (store.SyncRepositories, UpdateIndexState,                    *)
(* EnsureIndexConfiguration), the shards of the Zoekt adapter (Index,      *)
(* PruneRepositories) and the repository watcher (Update, Run).            *)
(*                                                                         *)
(* refreshMu makes a Refresh exclusive, so one variable follows the one    *)
(* in progress.  Every database transaction and every critical section is  *)
(* one step.  A repository is its path; what discovery finds there is a    *)
(* commit, "empty", "error" or "gone".                                     *)
(***************************************************************************)
EXTENDS Naturals, FiniteSets

CONSTANTS Paths,       \* repository paths below the root
          Commits,     \* commits the indexed revision can name
          Indexers,    \* goroutines of indexPending alive at once (bound)
          Identity,    \* TRUE: PostgreSQL identity ids; FALSE: SQLite rowids
          Failures,    \* TRUE: store calls, builds and sweeps may fail
          MaxChanges,  \* bound on changes of the repositories on disk
          MaxRefreshes,\* bound on manual and provider-driven refreshes
          MaxStops     \* bound on process stops

ASSUME PathsAssumption == IsFiniteSet(Paths)
ASSUME FlagsAssumption == Identity \in BOOLEAN /\ Failures \in BOOLEAN
ASSUME BoundsAssumption ==
  MaxChanges \in Nat /\ MaxRefreshes \in Nat /\ MaxStops \in Nat
ASSUME CommitsAssumption == Commits \cap {"empty", "error", "gone", "none"} = {}

VARIABLES
  git,      \* what is on disk at each path
  rows,     \* the repositories table; id 0: no row for the path
  lastId,   \* the identity sequence (PostgreSQL)
  shards,   \* the index directory: what the shards of each id were built from
  up,       \* "down", "start" (Start's first refresh), "watch" (before the
            \* watcher runs) or "up"
  refresh,  \* step of the Refresh in progress, or "idle"
  found,    \* what its discovery saw at each path
  live,     \* the ids it listed for PruneRepositories
  indexing, \* the atomic flag of the coordinator
  pc,       \* step of each indexing goroutine, "off" when there is none
  todo,     \* the listed repositories its pass still has to index
  job,      \* the repository it indexes, as a set of at most one
  watched,  \* keys of the watcher's paths map
  watching, \* paths fsnotify really reports: a removed directory is dropped
  timer,    \* an event was seen and the debounce timer is armed
  orphaned, \* history: "indexing" rows whose goroutine can no longer finish
  stranded, \* history: a refresh or a recheck failed before it could queue
  changes, refreshes, stops \* bounds

catalogue == <<rows, lastId>>
refresher == <<refresh, found, live>>
indexers == <<indexing, pc, todo, job>>
watcher == <<watched, watching, timer>>
bounds == <<changes, refreshes, stops>>
vars == <<git, rows, lastId, shards, up, refresh, found, live, indexing, pc,
          todo, job, watched, watching, timer, orphaned, stranded, changes, refreshes,
          stops>>

-----------------------------------------------------------------------------
(* Data *)
OnDisk == Commits \cup {"empty", "error", "gone"}
Nothing == [p \in Paths |-> "gone"]
Ids == Nat \ {0}
NoRow == [id |-> 0, scan |-> "none", commit |-> "none", state |-> "none",
          indexed |-> "none", at |-> FALSE, misses |-> 0]
Row == [id : Nat, scan : {"ready", "empty", "error", "none"},
        commit : Commits \cup {"none"},
        state : {"pending", "indexing", "ready", "empty", "error", "none"},
        indexed : Commits \cup {"none"}, at : BOOLEAN, misses : 0..2]
Target == [id : Ids, path : Paths, commit : Commits]

Exists(p) == rows[p].id # 0
LiveIds == {rows[p].id : p \in Paths} \ {0}

(* inspectRepository: the scan state and the index state of a discovery.   *)
ScanOf(v) == IF v \in Commits THEN "ready" ELSE v
CommitOf(v) == IF v \in Commits THEN v ELSE "none"
Discovered(v) == IF v \in Commits THEN "pending" ELSE v

-----------------------------------------------------------------------------
(* The repositories table *)

\* Mutant of KeptState.
KeepsIndexing(row, v) ==
  IF v \in Commits /\ (row.state = "indexing" \/ row.indexed = v)
    THEN row.state ELSE Discovered(v)

(* A missing repository is removed after repeated confirmed misses.        *)
Confirmed(row) == row.misses >= 2

(* The CASE of the upsert: only a row that is ready for the discovered     *)
(* commit keeps its index state.                                           *)
KeptState(row, v) ==
  IF v \in Commits /\ row.indexed = v /\ row.state = "ready"
    THEN "ready" ELSE Discovered(v)

(* The upsert of SyncRepositories; an inserted row gets a new id.          *)
Upserted(row, id, v) ==
  [id |-> id, scan |-> ScanOf(v), commit |-> CommitOf(v),
   state |-> KeptState(row, v), indexed |-> row.indexed, at |-> row.at,
   misses |-> 0]

(* SyncRepositories on one path.  A path that was not found is marked      *)
(* unreachable twice and deleted the third time.                           *)
SyncedRow(p, id) ==
  IF found[p] # "gone"
    THEN Upserted(rows[p], IF Exists(p) THEN rows[p].id ELSE id, found[p])
    ELSE IF ~Exists(p) \/ Confirmed(rows[p]) THEN NoRow
         ELSE [rows[p] EXCEPT !.misses = @ + 1, !.scan = "error"]

Inserted == {p \in Paths : ~Exists(p) /\ found[p] # "gone"}

(* The ids the database gives the inserted rows: above the sequence with   *)
(* PostgreSQL, above the largest rowid in the table with SQLite.           *)
LargestId(n) ==
  IF Identity THEN n = lastId
  ELSE n \in LiveIds \cup {0} /\ \A i \in LiveIds : i <= n

(* UpdateIndexState, which finds its row by id alone and fails with        *)
(* ErrNoRows when there is none.                                           *)
UpdatedRows(id, state, commit) ==
  [p \in Paths |->
     IF rows[p].id = id
       THEN [rows[p] EXCEPT !.state = state, !.indexed = commit,
                            !.at = (state = "ready")]
       ELSE rows[p]]

Indexable(p) == rows[p].scan = "ready" /\ rows[p].state = "pending"

-----------------------------------------------------------------------------
Init ==
  /\ git \in [Paths -> OnDisk]
  /\ rows = [p \in Paths |-> NoRow]
  /\ lastId = 0
  /\ shards = {}
  /\ up = "down"
  /\ refresh = "idle"
  /\ found = Nothing
  /\ live = {}
  /\ indexing = FALSE
  /\ pc = [i \in Indexers |-> "off"]
  /\ todo = [i \in Indexers |-> {}]
  /\ job = [i \in Indexers |-> {}]
  /\ watched = {}
  /\ watching = {}
  /\ timer = FALSE
  /\ orphaned = {}
  /\ stranded = FALSE
  /\ changes = 0 /\ refreshes = 0 /\ stops = 0

-----------------------------------------------------------------------------
(* The process and the disk *)

(* EnsureIndexConfiguration at boot: a changed capability signature queues *)
(* every repository that can be indexed.                                   *)
Reconfigured(row) ==
  IF row.id = 0 THEN row
  ELSE [row EXCEPT !.state =
          IF row.scan \in {"empty", "error"} THEN row.scan ELSE "pending"]

Boot(changed) ==
  /\ up = "down"
  /\ up' = "start"
  /\ rows' = IF changed THEN [p \in Paths |-> Reconfigured(rows[p])] ELSE rows
  /\ orphaned' = IF changed THEN {} ELSE orphaned
  /\ UNCHANGED <<git, lastId, shards, refresher, indexers, watcher, stranded,
                 bounds>>

(* The state a stopped process leaves: the database, the shards, the disk. *)
Halt ==
  /\ up' = "down"
  /\ refresh' = "idle"
  /\ found' = Nothing
  /\ live' = {}
  /\ indexing' = FALSE
  /\ pc' = [i \in Indexers |-> "off"]
  /\ todo' = [i \in Indexers |-> {}]
  /\ job' = [i \in Indexers |-> {}]
  /\ watched' = {}
  /\ watching' = {}
  /\ timer' = FALSE
  /\ stranded' = FALSE
  /\ orphaned' = {p \in Paths : rows[p].state = "indexing"}
  /\ UNCHANGED <<git, catalogue, shards, changes, refreshes>>

(* A crash, or a cancelled context: from then on every store call fails,   *)
(* so a graceful stop leaves what a crash at the same point leaves.        *)
Stop ==
  /\ up # "down"
  /\ stops < MaxStops
  /\ stops' = stops + 1
  /\ Halt

(* A commit, a removal or a reappearance on disk.  fsnotify reports it for *)
(* a watched directory and forgets a directory that is removed.            *)
Change(p, v) ==
  /\ changes < MaxChanges
  /\ v # git[p]
  /\ git' = [git EXCEPT ![p] = v]
  /\ timer' = (timer \/ p \in watching)
  /\ watching' = IF v = "gone" THEN watching \ {p} ELSE watching
  /\ changes' = changes + 1
  /\ UNCHANGED <<catalogue, shards, up, refresher, indexers, watched, orphaned,
                 stranded, refreshes, stops>>

-----------------------------------------------------------------------------
(* Refresh, under refreshMu *)

(* DiscoverWithOptions and the acquisition provider, for the first refresh *)
(* of Start, for the watcher's timer, or for a request, a scheduled        *)
(* synchronisation or an acquisition.                                      *)
Discover ==
  /\ refresh = "idle"
  /\ refresh' = "sync"
  /\ found' = git
  /\ \/ up = "start" /\ UNCHANGED <<timer, refreshes>>
     \/ up = "up" /\ timer /\ timer' = FALSE /\ UNCHANGED refreshes
     \/ /\ up = "up" /\ refreshes < MaxRefreshes
        /\ refreshes' = refreshes + 1 /\ UNCHANGED timer
  /\ UNCHANGED <<git, catalogue, shards, up, live, indexers, watched, watching,
                 orphaned, stranded, changes, stops>>

(* SyncRepositories: one transaction.                                      *)
SyncRepositories ==
  /\ refresh = "sync"
  /\ \E n \in LiveIds \cup {0, lastId} :
       /\ LargestId(n)
       /\ \E new \in [Inserted -> (n + 1)..(n + Cardinality(Inserted))] :
            /\ \A p, q \in Inserted : new[p] = new[q] => p = q
            /\ rows' = [p \in Paths |->
                          SyncedRow(p, IF p \in Inserted THEN new[p] ELSE 0)]
       /\ lastId' = IF Identity THEN n + Cardinality(Inserted) ELSE lastId
  /\ orphaned' = {p \in orphaned : found[p] = "gone" /\ ~Confirmed(rows[p])}
  /\ refresh' = IF up = "up" THEN "watch" ELSE "list"
  /\ UNCHANGED <<git, shards, up, found, live, indexers, watcher, stranded,
                 bounds>>

Watchable == {p \in Paths : Exists(p) /\ git[p] # "gone"}

(* repositoryWatcher.Update: a path already in the map is not added again. *)
UpdateWatches ==
  /\ watched' = Watchable
  /\ watching' = (watching \cap Watchable) \cup (Watchable \ watched)

RefreshWatches ==
  /\ refresh = "watch"
  /\ refresh' = "list"
  /\ UpdateWatches
  /\ UNCHANGED <<git, catalogue, shards, up, found, live, indexers, timer,
                 orphaned, stranded, bounds>>

ListLive ==
  /\ refresh = "list"
  /\ refresh' = "prune"
  /\ live' = LiveIds
  /\ UNCHANGED <<git, catalogue, shards, up, found, indexers, watcher, orphaned,
                 stranded, bounds>>

IndexMuFree == \A i \in Indexers : pc[i] # "build"

(* PruneRepositories, under indexMu: shards of ids that were not listed.   *)
PruneRepositories ==
  /\ refresh = "prune"
  /\ IndexMuFree
  /\ shards' = {s \in shards : s.id \in live}
  /\ refresh' = "queue"
  /\ UNCHANGED <<git, catalogue, up, found, live, indexers, watcher, orphaned,
                 stranded, bounds>>

\* Mutant of MaySpawn.
SpawnsTwice == TRUE

(* The CompareAndSwap of queueIndexing.                                    *)
MaySpawn == ~indexing

(* queueIndexing: start an indexing goroutine unless one runs.             *)
Spawn ==
  /\ indexing' = TRUE
  /\ \E i \in Indexers : pc[i] = "off" /\ pc' = [pc EXCEPT ![i] = "list"]

QueueIndexing ==
  /\ refresh = "queue"
  /\ \/ MaySpawn /\ Spawn
     \/ ~MaySpawn /\ UNCHANGED <<indexing, pc>>
  /\ refresh' = "idle"
  /\ found' = Nothing
  /\ live' = {}
  /\ stranded' = FALSE
  /\ up' = IF up = "start" THEN "watch" ELSE up
  /\ UNCHANGED <<git, catalogue, shards, todo, job, watcher, orphaned, bounds>>

(* Refresh returns an error: discovery, a store call, a sweep or a         *)
(* collector failed, or the caller's context ended.  Start then fails and  *)
(* the process with it; any other caller only reports the error.           *)
RefreshFails ==
  /\ Failures
  /\ refresh # "idle"
  /\ \/ up = "start" /\ Halt /\ UNCHANGED stops
     \/ /\ up # "start"
        /\ refresh' = "idle"
        /\ found' = Nothing
        /\ live' = {}
        /\ stranded' = IF refresh = "sync" THEN stranded ELSE TRUE
        /\ UNCHANGED <<git, catalogue, shards, up, indexers, watcher, orphaned,
                       bounds>>

(* The rest of Start: list the catalogue, watch it, run the watcher.       *)
StartWatcher ==
  /\ up = "watch"
  /\ up' = "up"
  /\ UpdateWatches
  /\ UNCHANGED <<git, catalogue, shards, refresher, indexers, timer, orphaned,
                 stranded, bounds>>

-----------------------------------------------------------------------------
(* indexPending and indexRepository *)

InLoop == {"list", "pick", "index", "build", "built", "failed", "release"}

Goto(i, step) == pc' = [pc EXCEPT ![i] = step]
IndexerFrame == UNCHANGED <<git, lastId, up, refresher, watcher, bounds>>

(* A pass lists the catalogue and keeps what it will index.                *)
ListPending(i) ==
  /\ pc[i] = "list"
  /\ todo' = [todo EXCEPT ![i] =
                {[id |-> rows[p].id, path |-> p, commit |-> rows[p].commit] :
                    p \in {q \in Paths : Indexable(q)}}]
  /\ Goto(i, IF \E p \in Paths : Indexable(p) THEN "pick" ELSE "release")
  /\ UNCHANGED <<rows, shards, indexing, job, orphaned, stranded>>
  /\ IndexerFrame

(* indexRepository records "indexing" for its target; with no row for the  *)
(* id it gives the repository up.                                          *)
MarkIndexing(i) ==
  /\ pc[i] = "pick"
  /\ \E t \in todo[i] :
       /\ todo' = [todo EXCEPT ![i] = @ \ {t}]
       /\ IF t.id \in LiveIds
            THEN /\ rows' = UpdatedRows(t.id, "indexing", t.commit)
                 /\ orphaned' = {p \in orphaned : rows[p].id # t.id}
                 /\ job' = [job EXCEPT ![i] = {t}]
                 /\ Goto(i, "index")
            ELSE UNCHANGED <<rows, orphaned, job, pc>>
  /\ UNCHANGED <<shards, indexing, stranded>>
  /\ IndexerFrame

MarkFails(i) ==
  /\ Failures
  /\ pc[i] = "pick"
  /\ \E t \in todo[i] : todo' = [todo EXCEPT ![i] = @ \ {t}]
  /\ UNCHANGED <<rows, shards, indexing, pc, job, orphaned, stranded>>
  /\ IndexerFrame

(* The pass is over; it indexed something, so the catalogue is listed      *)
(* again.                                                                  *)
EndPass(i) ==
  /\ pc[i] = "pick"
  /\ todo[i] = {}
  /\ Goto(i, "list")
  /\ UNCHANGED <<rows, shards, indexing, todo, job, orphaned, stranded>>
  /\ IndexerFrame

(* Adapter.Index takes indexMu, fetches the target into the shadow and     *)
(* builds the shards.                                                      *)
LockIndexMu(i) ==
  /\ pc[i] = "index"
  /\ IndexMuFree
  /\ Goto(i, "build")
  /\ UNCHANGED <<rows, shards, indexing, todo, job, orphaned, stranded>>
  /\ IndexerFrame

(* Publishing replaces the shards of the id.                               *)
Published(t) == {s \in shards : s.id # t.id} \cup {t}

PublishShards(i) ==
  /\ pc[i] = "build"
  /\ \E t \in job[i] :
       /\ git[t.path] # "gone"
       /\ shards' = Published(t)
  /\ Goto(i, "built")
  /\ UNCHANGED <<rows, indexing, todo, job, orphaned, stranded>>
  /\ IndexerFrame

IndexFails(i) ==
  /\ pc[i] = "build"
  /\ \E t \in job[i] : Failures \/ git[t.path] = "gone"
  /\ Goto(i, "failed")
  /\ UNCHANGED <<rows, shards, indexing, todo, job, orphaned, stranded>>
  /\ IndexerFrame

\* Mutant of Outcome.
AlwaysReady(step) == "ready"

Outcome(step) == IF step = "built" THEN "ready" ELSE "error"

(* The last UpdateIndexState of indexRepository.                           *)
RecordOutcome(i) ==
  /\ pc[i] \in {"built", "failed"}
  /\ \E t \in job[i] : rows' = UpdatedRows(t.id, Outcome(pc[i]), t.commit)
  /\ job' = [job EXCEPT ![i] = {}]
  /\ Goto(i, "pick")
  /\ UNCHANGED <<shards, indexing, todo, orphaned, stranded>>
  /\ IndexerFrame

RecordFails(i) ==
  /\ Failures
  /\ pc[i] \in {"built", "failed"}
  /\ \E t \in job[i] :
       orphaned' = orphaned \cup
         {p \in Paths : rows[p].id = t.id /\ rows[p].state = "indexing"}
  /\ job' = [job EXCEPT ![i] = {}]
  /\ Goto(i, "pick")
  /\ UNCHANGED <<rows, shards, indexing, todo, stranded>>
  /\ IndexerFrame

(* The listing of a pass fails: the goroutine leaves its loop.             *)
ListFails(i) ==
  /\ Failures
  /\ pc[i] = "list"
  /\ Goto(i, "release")
  /\ UNCHANGED <<rows, shards, indexing, todo, job, orphaned, stranded>>
  /\ IndexerFrame

(* The deferred function: drop the flag, look once more, queue again.      *)
Release(i) ==
  /\ pc[i] = "release"
  /\ indexing' = FALSE
  /\ Goto(i, "recheck")
  /\ UNCHANGED <<rows, shards, todo, job, orphaned, stranded>>
  /\ IndexerFrame

\* Mutant of AfterRecheck.
NeverAgain == "off"

AfterRecheck == IF \E p \in Paths : Indexable(p) THEN "requeue" ELSE "off"

Recheck(i) ==
  /\ pc[i] = "recheck"
  /\ Goto(i, AfterRecheck)
  /\ UNCHANGED <<rows, shards, indexing, todo, job, orphaned, stranded>>
  /\ IndexerFrame

RecheckFails(i) ==
  /\ Failures
  /\ pc[i] = "recheck"
  /\ Goto(i, "off")
  /\ stranded' = TRUE
  /\ UNCHANGED <<rows, shards, indexing, todo, job, orphaned>>
  /\ IndexerFrame

(* queueIndexing from the deferred function; the goroutine that ends and   *)
(* the one it starts share a slot.                                         *)
Requeue(i) ==
  /\ pc[i] = "requeue"
  /\ indexing' = TRUE
  /\ Goto(i, IF MaySpawn THEN "list" ELSE "off")
  /\ UNCHANGED <<rows, shards, todo, job, orphaned, stranded>>
  /\ IndexerFrame

-----------------------------------------------------------------------------
RefreshStep ==
  \/ Discover \/ SyncRepositories \/ RefreshWatches \/ ListLive
  \/ PruneRepositories \/ QueueIndexing \/ StartWatcher

IndexStep(i) ==
  \/ ListPending(i) \/ MarkIndexing(i) \/ EndPass(i) \/ LockIndexMu(i)
  \/ PublishShards(i) \/ IndexFails(i) \/ RecordOutcome(i) \/ Release(i)
  \/ Recheck(i) \/ Requeue(i)

FailStep(i) == MarkFails(i) \/ RecordFails(i) \/ ListFails(i) \/ RecheckFails(i)

Next ==
  \/ \E changed \in BOOLEAN : Boot(changed)
  \/ Stop
  \/ \E p \in Paths, v \in OnDisk : Change(p, v)
  \/ RefreshStep
  \/ RefreshFails
  \/ \E i \in Indexers : IndexStep(i) \/ FailStep(i)

Spec == Init /\ [][Next]_vars

(* Refresh and the indexing goroutines are scheduled and their calls       *)
(* return.  Nobody has to change a repository, to ask for a refresh, to    *)
(* boot the process or to stop it.                                         *)
FairSpec ==
  /\ Spec
  /\ WF_vars(RefreshStep /\ refreshes' = refreshes)
  /\ \A i \in Indexers : WF_vars(IndexStep(i))

-----------------------------------------------------------------------------
TypeOK ==
  /\ git \in [Paths -> OnDisk]
  /\ rows \in [Paths -> Row]
  /\ lastId \in Nat
  /\ shards \subseteq Target
  /\ up \in {"down", "start", "watch", "up"}
  /\ refresh \in {"idle", "sync", "watch", "list", "prune", "queue"}
  /\ found \in [Paths -> OnDisk]
  /\ live \subseteq Ids
  /\ indexing \in BOOLEAN
  /\ pc \in [Indexers -> InLoop \cup {"off", "recheck", "requeue"}]
  /\ todo \in [Indexers -> SUBSET Target]
  /\ job \in [Indexers -> SUBSET Target]
  /\ watched \subseteq Paths
  /\ watching \subseteq watched
  /\ timer \in BOOLEAN
  /\ orphaned \subseteq Paths
  /\ stranded \in BOOLEAN
  /\ changes \in 0..MaxChanges
  /\ refreshes \in 0..MaxRefreshes
  /\ stops \in 0..MaxStops

(* At most one goroutine is inside the loop of indexPending, and the flag  *)
(* says whether one is: the CompareAndSwap of queueIndexing and the Store  *)
(* of the deferred function, whatever overlap there is between a goroutine *)
(* that ends and one that starts.                                          *)
SingleIndexer ==
  /\ \A i, j \in Indexers : pc[i] \in InLoop /\ pc[j] \in InLoop => i = j
  /\ indexing <=> \E i \in Indexers : pc[i] \in InLoop

(* A repository that waits to be indexed is never forgotten: an indexing   *)
(* goroutine runs or is about to look again, a refresh is on its way to    *)
(* queueIndexing, or a call failed and was reported.                       *)
NoLostPending ==
  (up \in {"watch", "up"} /\ \E p \in Paths : Indexable(p)) =>
    \/ indexing
    \/ stranded
    \/ refresh \in {"watch", "list", "prune", "queue"}
    \/ \E i \in Indexers : pc[i] \in {"recheck", "requeue"}

(* A row that claims to be ready names exactly the revision its shards     *)
(* were built from, whatever refresh, failure or stop came in between.     *)
ReadyMatchesShards ==
  \A p \in Paths : rows[p].state = "ready" =>
    [id |-> rows[p].id, path |-> p, commit |-> rows[p].indexed] \in shards

(* A row is "indexing" only while a goroutine works on its id; the ones a  *)
(* stop or a failed write leaves behind are known, and SyncRepositories    *)
(* queues them again.                                                      *)
IndexingIsOwned ==
  \A p \in Paths : rows[p].state = "indexing" =>
    \/ p \in orphaned
    \/ \E i \in Indexers : \E t \in job[i] : t.id = rows[p].id

(* While the process runs, a repository that waits to be indexed is taken  *)
(* by an indexing goroutine, or a later scan finds nothing to index there. *)
PendingIsIndexed ==
  \A p \in Paths :
    (up = "up" /\ Indexable(p)) ~> (~Indexable(p) \/ up = "down")

Quiet ==
  /\ up = "up" /\ refresh = "idle" /\ ~timer /\ ~stranded
  /\ \A i \in Indexers : pc[i] = "off"

(* SCOPE.md: "When repositories change, RepoKarta refreshes affected       *)
(* indexes".  When everything has come to rest, a ready row is ready for   *)
(* the commit the catalogue knows.                                         *)
QuietIsCurrent ==
  Quiet => \A p \in Paths :
    rows[p].state = "ready" => rows[p].indexed = rows[p].commit

(* SCOPE.md: "preserve `indexed_at` while a previous index still serves".  *)
ServingKeepsIndexedAt ==
  \A p \in Paths :
    (Exists(p) /\ \E s \in shards : s.id = rows[p].id /\ s.path = p
       /\ s.commit # rows[p].indexed) => rows[p].at
=============================================================================
