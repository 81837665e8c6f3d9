----------------------- MODULE IndexCoordinatorProofs -----------------------
(***************************************************************************)
(* Proofs about IndexCoordinator for every set of repositories, commits    *)
(* and goroutines, with and without failures and stops.                    *)
(***************************************************************************)
EXTENDS IndexCoordinator, FiniteSetTheorems, TLAPS

(* The steps of the goroutines and the flag have their types: all that the *)
(* proofs about the CompareAndSwap need.                                   *)
Steps == InLoop \cup {"off", "recheck", "requeue"}
StepsOK == pc \in [Indexers -> Steps] /\ indexing \in BOOLEAN

(* The inductive invariant behind SingleIndexer.                           *)
Held == StepsOK /\ SingleIndexer

LEMMA HeldInit == Init => Held
  BY DEF Init, Held, StepsOK, Steps, SingleIndexer, InLoop

LEMMA HeldNext == Held /\ [Next]_vars => Held'
<1> SUFFICES ASSUME Held, [Next]_vars PROVE Held'
  OBVIOUS
<1> USE DEF Held, StepsOK, Steps, SingleIndexer, InLoop
<1>1. CASE UNCHANGED <<pc, indexing>>
  BY <1>1
<1>2. CASE Halt
  BY <1>2 DEF Halt
<1>3. CASE QueueIndexing
  BY <1>3 DEF QueueIndexing, Spawn, MaySpawn
<1>4. ASSUME NEW i \in Indexers, ListPending(i) PROVE Held'
  BY <1>4 DEF ListPending, Goto
<1>5. ASSUME NEW i \in Indexers, MarkIndexing(i) PROVE Held'
  BY <1>5 DEF MarkIndexing, Goto
<1>6. ASSUME NEW i \in Indexers, EndPass(i) PROVE Held'
  BY <1>6 DEF EndPass, Goto
<1>7. ASSUME NEW i \in Indexers, LockIndexMu(i) PROVE Held'
  BY <1>7 DEF LockIndexMu, Goto
<1>8. ASSUME NEW i \in Indexers, PublishShards(i) PROVE Held'
  BY <1>8 DEF PublishShards, Goto
<1>9. ASSUME NEW i \in Indexers, IndexFails(i) PROVE Held'
  BY <1>9 DEF IndexFails, Goto
<1>10. ASSUME NEW i \in Indexers, RecordOutcome(i) PROVE Held'
  BY <1>10 DEF RecordOutcome, Goto
<1>11. ASSUME NEW i \in Indexers, RecordFails(i) PROVE Held'
  BY <1>11 DEF RecordFails, Goto
<1>12. ASSUME NEW i \in Indexers, ListFails(i) PROVE Held'
  BY <1>12 DEF ListFails, Goto
<1>13. ASSUME NEW i \in Indexers, Release(i) PROVE Held'
  BY <1>13 DEF Release, Goto
<1>14. ASSUME NEW i \in Indexers, Recheck(i) PROVE Held'
  BY <1>14 DEF Recheck, AfterRecheck, Goto
<1>15. ASSUME NEW i \in Indexers, RecheckFails(i) PROVE Held'
  BY <1>15 DEF RecheckFails, Goto
<1>16. ASSUME NEW i \in Indexers, Requeue(i) PROVE Held'
  BY <1>16 DEF Requeue, MaySpawn, Goto
<1>17. CASE RefreshFails
  <2>1. CASE Halt
    BY <2>1, <1>2
  <2>2. CASE UNCHANGED <<pc, indexing>>
    BY <2>2, <1>1
  <2>3. QED
    BY <1>17, <2>1, <2>2 DEF RefreshFails, indexers
<1>18. ASSUME NEW i \in Indexers, MarkFails(i) PROVE Held'
  BY <1>18 DEF MarkFails
<1>19. CASE RefreshStep
  <2>1. CASE QueueIndexing
    BY <2>1, <1>3
  <2>2. CASE ~QueueIndexing
    <3>1. UNCHANGED <<pc, indexing>>
      BY <1>19, <2>2 DEF RefreshStep, Discover, SyncRepositories,
        RefreshWatches, ListLive, PruneRepositories, StartWatcher, indexers
    <3>2. QED
      BY <3>1, <1>1
  <2>3. QED
    BY <2>1, <2>2
<1>20. ASSUME NEW changed \in BOOLEAN, Boot(changed) PROVE Held'
  BY <1>20, <1>1 DEF Boot, indexers
<1>21. ASSUME NEW p \in Paths, NEW v \in OnDisk, Change(p, v) PROVE Held'
  BY <1>21, <1>1 DEF Change, indexers
<1>22. CASE Stop
  BY <1>22, <1>2 DEF Stop
<1>23. CASE UNCHANGED vars
  BY <1>23, <1>1 DEF vars
<1>24. QED
  BY <1>4, <1>5, <1>6, <1>7, <1>8, <1>9, <1>10, <1>11, <1>12, <1>13, <1>14,
     <1>15, <1>16, <1>17, <1>18, <1>19, <1>20, <1>21, <1>22, <1>23
  DEF Next, IndexStep, FailStep

(* At most one goroutine is ever in the loop of indexPending, and the flag *)
(* of the coordinator is up exactly while one is.                          *)
THEOREM OneIndexer == Spec => []SingleIndexer
<1>1. Held => SingleIndexer
  BY DEF Held
<1>2. QED
  BY <1>1, HeldInit, HeldNext, PTL DEF Spec

-----------------------------------------------------------------------------
(* The invariant is inductive with Held: while a goroutine is in its loop  *)
(* the flag is up, and every way out of the loop passes the second look.   *)
LEMMA LostNext == Held /\ NoLostPending /\ [Next]_vars => NoLostPending'
<1> SUFFICES ASSUME Held, NoLostPending, [Next]_vars PROVE NoLostPending'
  OBVIOUS
<1>1. CASE up' \in {"down", "start"}
  BY <1>1 DEF NoLostPending
<1>2. CASE indexing'
  BY <1>2 DEF NoLostPending
<1>3. ASSUME NEW p \in Paths, NEW v \in OnDisk, Change(p, v)
      PROVE  NoLostPending'
  BY <1>3 DEF NoLostPending, Change, Indexable, catalogue, refresher, indexers
<1>4. CASE RefreshStep
  <2>1. CASE Discover
    BY <2>1 DEF Discover, NoLostPending, Indexable, catalogue, indexers
  <2>2. CASE SyncRepositories
    <3>1. refresh' \in {"watch", "list"}
      BY <2>2 DEF SyncRepositories
    <3>2. QED
      BY <3>1 DEF NoLostPending
  <2>3. CASE RefreshWatches
    BY <2>3 DEF RefreshWatches, NoLostPending
  <2>4. CASE ListLive
    BY <2>4 DEF ListLive, NoLostPending
  <2>5. CASE PruneRepositories
    BY <2>5 DEF PruneRepositories, NoLostPending
  <2>6. CASE QueueIndexing
    <3>1. CASE MaySpawn /\ Spawn
      BY <3>1, <1>2 DEF Spawn
    <3>2. CASE indexing /\ indexing' = indexing
      BY <3>2, <1>2
    <3>3. QED
      BY <2>6, <3>1, <3>2 DEF QueueIndexing, MaySpawn
  <2>7. CASE StartWatcher
    BY <2>7 DEF StartWatcher, NoLostPending, Indexable, catalogue, refresher,
      indexers
  <2>8. QED
    BY <1>4, <2>1, <2>2, <2>3, <2>4, <2>5, <2>6, <2>7 DEF RefreshStep
<1>5. CASE RefreshFails
  <2>1. CASE Halt
    BY <2>1, <1>1 DEF Halt
  <2>2. CASE ~Halt
    <3>1. /\ UNCHANGED <<rows, up, indexing, pc>>
          /\ stranded' = IF refresh = "sync" THEN stranded ELSE TRUE
      BY <1>5, <2>2 DEF RefreshFails, catalogue, indexers
    <3>2. CASE refresh = "sync"
      BY <3>1, <3>2 DEF NoLostPending, Indexable
    <3>3. CASE refresh # "sync"
      BY <3>1, <3>3 DEF NoLostPending
    <3>4. QED
      BY <3>2, <3>3
  <2>3. QED
    BY <2>1, <2>2
<1>6. ASSUME NEW i \in Indexers, pc[i] \in InLoop, UNCHANGED indexing
      PROVE  NoLostPending'
  BY <1>6, <1>2 DEF Held, SingleIndexer
<1>7. ASSUME NEW i \in Indexers, IndexStep(i) PROVE NoLostPending'
  <2>1. CASE Release(i)
    <3>1. pc'[i] = "recheck"
      BY <2>1 DEF Release, Goto, Held, StepsOK
    <3>2. QED
      BY <3>1 DEF NoLostPending
  <2>2. CASE Recheck(i)
    <3>1. UNCHANGED <<rows, indexing, stranded, refresh, up>>
      BY <2>2 DEF Recheck, IndexerFrame, refresher
    <3>2. CASE \E p \in Paths : Indexable(p)
      <4>1. pc'[i] = "requeue"
        BY <2>2, <3>2 DEF Recheck, AfterRecheck, Goto, Held, StepsOK
      <4>2. QED
        BY <4>1 DEF NoLostPending
    <3>3. CASE ~\E p \in Paths : Indexable(p)
      BY <3>1, <3>3 DEF NoLostPending, Indexable
    <3>4. QED
      BY <3>2, <3>3
  <2>3. CASE Requeue(i)
    BY <2>3, <1>2 DEF Requeue
  <2>4. CASE ~(Release(i) \/ Recheck(i) \/ Requeue(i))
    <3>1. pc[i] \in InLoop /\ UNCHANGED indexing
      BY <1>7, <2>4 DEF IndexStep, ListPending, MarkIndexing, EndPass,
        LockIndexMu, PublishShards, IndexFails, RecordOutcome, InLoop
    <3>2. QED
      BY <3>1, <1>6
  <2>5. QED
    BY <2>1, <2>2, <2>3, <2>4
<1>8. ASSUME NEW i \in Indexers, FailStep(i) PROVE NoLostPending'
  <2>1. CASE RecheckFails(i)
    BY <2>1 DEF RecheckFails, NoLostPending
  <2>2. CASE ~RecheckFails(i)
    <3>1. pc[i] \in InLoop /\ UNCHANGED indexing
      BY <1>8, <2>2 DEF FailStep, MarkFails, RecordFails, ListFails, InLoop
    <3>2. QED
      BY <3>1, <1>6
  <2>3. QED
    BY <2>1, <2>2
<1>9. ASSUME NEW changed \in BOOLEAN, Boot(changed) PROVE NoLostPending'
  BY <1>9, <1>1 DEF Boot
<1>10. CASE Stop
  BY <1>10, <1>1 DEF Stop, Halt
<1>11. CASE UNCHANGED vars
  BY <1>11 DEF vars, NoLostPending, Indexable
<1>12. QED
  BY <1>3, <1>4, <1>5, <1>7, <1>8, <1>9, <1>10, <1>11 DEF Next

(* A repository that waits to be indexed is never forgotten by the         *)
(* coordinator, however the listing of a goroutine that ends, a refresh    *)
(* and the CompareAndSwap interleave.                                      *)
THEOREM NothingForgotten == Spec => []NoLostPending
<1>1. Init => NoLostPending
  BY DEF Init, NoLostPending
<1>2. QED
  BY <1>1, HeldInit, HeldNext, LostNext, PTL DEF Spec

-----------------------------------------------------------------------------
(* What ReadyMatchesShards rests on when ids are never given out twice.    *)

Working == {"index", "build", "built", "failed"}

(* Every id in use was drawn from the sequence.                            *)
IdsDrawn ==
  /\ \A p \in Paths : rows[p].id <= lastId
  /\ \A i \in Indexers : \A t \in todo[i] \cup job[i] : t.id <= lastId

(* No two rows share an id.                                                *)
IdsUnique ==
  \A p, q \in Paths : rows[p].id = rows[q].id /\ rows[p].id # 0 => p = q

(* A listed or running target still means the path it was listed for.      *)
TargetsKeepPath ==
  \A i \in Indexers : \A t \in todo[i] \cup job[i] :
    \A p \in Paths : rows[p].id = t.id => p = t.path

(* A goroutine has a job exactly while it works, and only one.             *)
JobShape ==
  \A i \in Indexers :
    /\ job[i] # {} => pc[i] \in Working
    /\ \A s, t \in job[i] : s = t

(* The row of a running job is not ready.                                  *)
JobNotReady ==
  \A i \in Indexers : \A t \in job[i] :
    \A p \in Paths : rows[p].id = t.id => rows[p].state # "ready"

(* Built shards stay until the row is gone.                                *)
BuiltIsThere ==
  \A i \in Indexers : \A t \in job[i] :
    pc[i] = "built" /\ t.id \in LiveIds => t \in shards

(* The ids listed for the sweep are the live ones until it has run.        *)
ListIsLive == refresh = "prune" => live = LiveIds

(* A path without a row has the empty row.                                 *)
AbsentIsNone == \A p \in Paths : rows[p].id = 0 => rows[p].state = "none"

(* A repository scanned as ready has a row and a commit to index.          *)
RowsShaped ==
  \A p \in Paths :
    rows[p].scan = "ready" => rows[p].id # 0 /\ rows[p].commit \in Commits

-----------------------------------------------------------------------------
(* Type correctness *)

LEMMA NoRowTyped == NoRow \in Row
  BY DEF NoRow, Row

(* The upsert, the miss count and the removal keep rows well formed.       *)
LEMMA SyncedRowTyped ==
  ASSUME TypeOK, NEW p \in Paths, NEW id \in Nat
  PROVE  SyncedRow(p, id) \in Row
<1>1. found[p] \in OnDisk /\ rows[p] \in Row
  BY DEF TypeOK
<1>2. CASE found[p] # "gone"
  <2>1. /\ ScanOf(found[p]) \in {"ready", "empty", "error"}
        /\ CommitOf(found[p]) \in Commits \cup {"none"}
        /\ KeptState(rows[p], found[p]) \in {"ready", "pending", "empty", "error"}
    BY <1>1, <1>2 DEF OnDisk, ScanOf, CommitOf, KeptState, Discovered
  <2>2. QED
    BY <1>1, <1>2, <2>1 DEF SyncedRow, Upserted, Row
<1>4. CASE found[p] = "gone"
  <2>1. CASE ~Exists(p) \/ Confirmed(rows[p])
    BY <1>4, <2>1, NoRowTyped DEF SyncedRow
  <2>2. CASE Exists(p) /\ ~Confirmed(rows[p])
    <3>1. rows[p].misses + 1 \in 0..2
      BY <1>1, <2>2 DEF Confirmed, Row
    <3>2. QED
      BY <1>1, <1>4, <2>2, <3>1 DEF SyncedRow, Row
  <2>3. QED
    BY <2>1, <2>2
<1>5. QED
  BY <1>2, <1>4

LEMMA UpdatedRowsTyped ==
  ASSUME TypeOK, NEW id, NEW c \in Commits,
         NEW s \in {"indexing", "ready", "error"}
  PROVE  UpdatedRows(id, s, c) \in [Paths -> Row]
  BY DEF TypeOK, UpdatedRows, Row

LEMMA ReconfiguredTyped ==
  ASSUME TypeOK, NEW p \in Paths
  PROVE  Reconfigured(rows[p]) \in Row
  BY DEF TypeOK, Reconfigured, Row

(* Cardinalities of what a scan inserts are naturals.                      *)
LEMMA InsertedFinite == IsFiniteSet(Inserted) /\ Cardinality(Inserted) \in Nat
<1>1. Inserted \subseteq Paths
  BY DEF Inserted
<1>2. IsFiniteSet(Inserted)
  BY <1>1, PathsAssumption, FS_Subset
<1>3. QED
  BY <1>2, FS_CardinalityType

LEMMA ShapeNext == TypeOK /\ RowsShaped /\ [Next]_vars => RowsShaped'
<1> SUFFICES ASSUME TypeOK, RowsShaped, [Next]_vars PROVE RowsShaped'
  OBVIOUS
<1>1. CASE UNCHANGED rows
  BY <1>1 DEF RowsShaped
<1>2. ASSUME NEW id, NEW s, NEW c, rows' = UpdatedRows(id, s, c)
      PROVE  RowsShaped'
  <2>1. ASSUME NEW p \in Paths
        PROVE  /\ rows'[p].id = rows[p].id
               /\ rows'[p].scan = rows[p].scan
               /\ rows'[p].commit = rows[p].commit
    <3>1. rows[p] \in Row
      BY DEF TypeOK
    <3>2. rows'[p] = IF rows[p].id = id
                       THEN [rows[p] EXCEPT !.state = s, !.indexed = c,
                                            !.at = (s = "ready")]
                       ELSE rows[p]
      BY <1>2 DEF UpdatedRows
    <3>3. QED
      BY <3>1, <3>2 DEF Row
  <2>2. QED
    BY <2>1 DEF RowsShaped
<1>3. ASSUME NEW changed \in BOOLEAN, Boot(changed) PROVE RowsShaped'
  BY <1>3 DEF Boot, Reconfigured, RowsShaped, TypeOK, Row
<1>4. CASE SyncRepositories
  <2>1. PICK n \in LiveIds \cup {0, lastId} :
          \E new \in [Inserted -> (n + 1)..(n + Cardinality(Inserted))] :
            rows' = [p \in Paths |->
                       SyncedRow(p, IF p \in Inserted THEN new[p] ELSE 0)]
    BY <1>4 DEF SyncRepositories
  <2>2. n \in Nat
    <3>1. \A p \in Paths : rows[p].id \in Nat
      BY DEF TypeOK, Row
    <3>2. QED
      BY <2>1, <3>1 DEF LiveIds, TypeOK
  <2>3. PICK new \in [Inserted -> (n + 1)..(n + Cardinality(Inserted))] :
          rows' = [p \in Paths |->
                     SyncedRow(p, IF p \in Inserted THEN new[p] ELSE 0)]
    BY <2>1
  <2>4. SUFFICES ASSUME NEW p \in Paths, rows'[p].scan = "ready"
                 PROVE  rows'[p].id # 0 /\ rows'[p].commit \in Commits
    BY DEF RowsShaped
  <2>5. rows'[p] = SyncedRow(p, IF p \in Inserted THEN new[p] ELSE 0)
    BY <2>3
  <2>6. found[p] # "gone"
    BY <2>4, <2>5 DEF SyncedRow, NoRow, TypeOK, Row
  <2>7. found[p] \in Commits
    BY <2>4, <2>5, <2>6 DEF SyncedRow, Upserted, ScanOf, TypeOK, OnDisk
  <2>8. CASE Exists(p)
    BY <2>5, <2>6, <2>7, <2>8 DEF SyncedRow, Upserted, CommitOf, Exists
  <2>9. CASE ~Exists(p)
    <3>1. p \in Inserted
      BY <2>6, <2>9 DEF Inserted
    <3>2. new[p] # 0
      BY <2>2, <2>3, <3>1, InsertedFinite
    <3>3. QED
      BY <2>5, <2>6, <2>7, <2>9, <3>1, <3>2 DEF SyncedRow, Upserted, CommitOf
  <2>10. QED
    BY <2>8, <2>9
<1>5. CASE Stop \/ RefreshFails \/ \E p \in Paths, v \in OnDisk : Change(p, v)
  BY <1>1, <1>5 DEF Stop, RefreshFails, Halt, Change, catalogue
<1>6. CASE RefreshStep /\ ~SyncRepositories
  BY <1>1, <1>6 DEF RefreshStep, Discover, RefreshWatches, ListLive,
    PruneRepositories, QueueIndexing, StartWatcher, catalogue
<1>7. ASSUME NEW i \in Indexers, IndexStep(i) PROVE RowsShaped'
  <2>1. CASE MarkIndexing(i)
    BY <2>1, <1>1, <1>2 DEF MarkIndexing
  <2>2. CASE RecordOutcome(i)
    BY <2>2, <1>2 DEF RecordOutcome
  <2>3. CASE ~(MarkIndexing(i) \/ RecordOutcome(i))
    BY <1>1, <1>7, <2>3 DEF IndexStep, ListPending, EndPass, LockIndexMu,
      PublishShards, IndexFails, Release, Recheck, Requeue
  <2>4. QED
    BY <2>1, <2>2, <2>3
<1>8. ASSUME NEW i \in Indexers, FailStep(i) PROVE RowsShaped'
  BY <1>1, <1>8 DEF FailStep, MarkFails, RecordFails, ListFails, RecheckFails
<1>9. CASE UNCHANGED vars
  BY <1>1, <1>9 DEF vars
<1>10. QED
  BY <1>3, <1>4, <1>5, <1>6, <1>7, <1>8, <1>9 DEF Next

(* Each step keeps every variable in its type.                             *)
LEMMA TypeNext == TypeOK /\ RowsShaped /\ [Next]_vars => TypeOK'
<1> SUFFICES ASSUME TypeOK, RowsShaped, [Next]_vars PROVE TypeOK'
  OBVIOUS
<1> USE BoundsAssumption
<1>1. ASSUME NEW changed \in BOOLEAN, Boot(changed) PROVE TypeOK'
  <2>1. rows' \in [Paths -> Row]
    BY <1>1, ReconfiguredTyped DEF Boot, TypeOK
  <2>2. QED
    BY <1>1, <2>1 DEF Boot, TypeOK, refresher, indexers, watcher, bounds
<1>2. ASSUME Halt, stops' \in 0..MaxStops PROVE TypeOK'
  BY <1>2 DEF Halt, TypeOK, Nothing, OnDisk, catalogue, InLoop
<1>3. CASE Stop
  <2>1. stops' \in 0..MaxStops
    BY <1>3 DEF Stop, TypeOK
  <2>2. QED
    BY <1>2, <1>3, <2>1 DEF Stop
<1>4. ASSUME NEW p \in Paths, NEW v \in OnDisk, Change(p, v) PROVE TypeOK'
  <2>1. changes' \in 0..MaxChanges /\ timer' \in BOOLEAN
    BY <1>4 DEF Change, TypeOK
  <2>2. watching' \subseteq watched
    BY <1>4 DEF Change, TypeOK
  <2>3. QED
    BY <1>4, <2>1, <2>2 DEF Change, TypeOK, catalogue, refresher, indexers
<1>5. CASE Discover
  <2>1. refreshes' \in 0..MaxRefreshes
    BY <1>5 DEF Discover, TypeOK
  <2>2. timer' \in BOOLEAN
    <3>1. timer' = timer \/ timer' = FALSE
      BY <1>5 DEF Discover
    <3>2. QED
      BY <3>1 DEF TypeOK
  <2>3. QED
    BY <1>5, <2>1, <2>2 DEF Discover, TypeOK, catalogue, indexers
<1>6. CASE SyncRepositories
  <2>1. PICK n \in LiveIds \cup {0, lastId} :
          /\ \E new \in [Inserted -> (n + 1)..(n + Cardinality(Inserted))] :
               rows' = [p \in Paths |->
                          SyncedRow(p, IF p \in Inserted THEN new[p] ELSE 0)]
          /\ lastId' = IF Identity THEN n + Cardinality(Inserted) ELSE lastId
    BY <1>6 DEF SyncRepositories
  <2>2. n \in Nat
    <3>1. \A p \in Paths : rows[p].id \in Nat
      BY DEF TypeOK, Row
    <3>2. QED
      BY <2>1, <3>1 DEF LiveIds, TypeOK
  <2>3. PICK new \in [Inserted -> (n + 1)..(n + Cardinality(Inserted))] :
          rows' = [p \in Paths |->
                     SyncedRow(p, IF p \in Inserted THEN new[p] ELSE 0)]
    BY <2>1
  <2>4. ASSUME NEW p \in Paths
        PROVE  SyncedRow(p, IF p \in Inserted THEN new[p] ELSE 0) \in Row
    <3>1. (IF p \in Inserted THEN new[p] ELSE 0) \in Nat
      BY <2>2, <2>3, InsertedFinite
    <3>2. QED
      BY <3>1, SyncedRowTyped
  <2>5. rows' \in [Paths -> Row]
    BY <2>3, <2>4
  <2>6. lastId' \in Nat
    BY <2>1, <2>2, InsertedFinite DEF TypeOK
  <2>7. QED
    BY <1>6, <2>5, <2>6 DEF SyncRepositories, TypeOK, indexers, watcher, bounds
<1>7. CASE RefreshWatches
  BY <1>7 DEF RefreshWatches, UpdateWatches, Watchable, TypeOK, catalogue,
    indexers, bounds
<1>8. CASE ListLive
  <2>1. LiveIds \subseteq Ids
    BY DEF LiveIds, TypeOK, Row, Ids
  <2>2. QED
    BY <1>8, <2>1 DEF ListLive, TypeOK, catalogue, indexers, watcher, bounds
<1>9. CASE PruneRepositories
  BY <1>9 DEF PruneRepositories, TypeOK, catalogue, indexers, watcher, bounds
<1>10. CASE QueueIndexing
  <2>1. indexing' \in BOOLEAN
        /\ pc' \in [Indexers -> InLoop \cup {"off", "recheck", "requeue"}]
    BY <1>10 DEF QueueIndexing, Spawn, TypeOK, InLoop
  <2>2. QED
    BY <1>10, <2>1 DEF QueueIndexing, TypeOK, Nothing, OnDisk, catalogue,
      watcher, bounds
<1>11. CASE RefreshFails
  <2>1. CASE Halt /\ UNCHANGED stops
    BY <2>1, <1>2 DEF TypeOK
  <2>2. CASE ~(Halt /\ UNCHANGED stops)
    BY <1>11, <2>2 DEF RefreshFails, TypeOK, Nothing, OnDisk, catalogue,
      indexers, watcher, bounds
  <2>3. QED
    BY <2>1, <2>2
<1>12. CASE StartWatcher
  BY <1>12 DEF StartWatcher, UpdateWatches, Watchable, TypeOK, catalogue,
    refresher, indexers, bounds
<1>13. ASSUME NEW i \in Indexers, IndexStep(i) PROVE TypeOK'
  <2> USE DEF IndexerFrame, refresher, watcher, bounds, Goto, InLoop
  <2>1. CASE ListPending(i)
    <3>1. ASSUME NEW p \in Paths, Indexable(p)
          PROVE  [id |-> rows[p].id, path |-> p, commit |-> rows[p].commit]
                   \in Target
      BY <3>1 DEF Indexable, RowsShaped, TypeOK, Row, Target, Ids
    <3>2. QED
      BY <2>1, <3>1 DEF ListPending, TypeOK
  <2>2. CASE MarkIndexing(i)
    <3>1. PICK t \in todo[i] :
            /\ todo' = [todo EXCEPT ![i] = @ \ {t}]
            /\ IF t.id \in LiveIds
                 THEN /\ rows' = UpdatedRows(t.id, "indexing", t.commit)
                      /\ orphaned' = {p \in orphaned : rows[p].id # t.id}
                      /\ job' = [job EXCEPT ![i] = {t}]
                      /\ pc' = [pc EXCEPT ![i] = "index"]
                 ELSE UNCHANGED <<rows, orphaned, job, pc>>
      BY <2>2 DEF MarkIndexing
    <3>2. t \in Target /\ {t} \in SUBSET Target
      BY <3>1 DEF TypeOK
    <3>3. rows' \in [Paths -> Row]
      BY <3>1, <3>2, UpdatedRowsTyped DEF Target, TypeOK
    <3>4. todo' \in [Indexers -> SUBSET Target]
      BY <3>1 DEF TypeOK
    <3>5. job' \in [Indexers -> SUBSET Target]
      BY <3>1, <3>2 DEF TypeOK
    <3>6. QED
      BY <2>2, <3>1, <3>3, <3>4, <3>5 DEF MarkIndexing, TypeOK
  <2>3. CASE EndPass(i)
    BY <2>3 DEF EndPass, TypeOK
  <2>4. CASE LockIndexMu(i)
    BY <2>4 DEF LockIndexMu, TypeOK
  <2>5. CASE PublishShards(i)
    <3>1. shards' \subseteq Target
      BY <2>5 DEF PublishShards, Published, TypeOK
    <3>2. QED
      BY <2>5, <3>1 DEF PublishShards, TypeOK
  <2>6. CASE IndexFails(i)
    BY <2>6 DEF IndexFails, TypeOK
  <2>7. CASE RecordOutcome(i)
    <3>1. PICK t \in job[i] : rows' = UpdatedRows(t.id, Outcome(pc[i]), t.commit)
      BY <2>7 DEF RecordOutcome
    <3>2. t.commit \in Commits
      BY <3>1 DEF TypeOK, Target
    <3>3. rows' \in [Paths -> Row]
      BY <3>1, <3>2, UpdatedRowsTyped DEF Outcome
    <3>4. job' \in [Indexers -> SUBSET Target]
      BY <2>7 DEF RecordOutcome, TypeOK
    <3>5. QED
      BY <2>7, <3>3, <3>4 DEF RecordOutcome, TypeOK
  <2>8. CASE Release(i)
    BY <2>8 DEF Release, TypeOK
  <2>9. CASE Recheck(i)
    BY <2>9 DEF Recheck, AfterRecheck, TypeOK
  <2>10. CASE Requeue(i)
    BY <2>10 DEF Requeue, TypeOK
  <2>11. QED
    BY <1>13, <2>1, <2>2, <2>3, <2>4, <2>5, <2>6, <2>7, <2>8, <2>9, <2>10
    DEF IndexStep
<1>14. ASSUME NEW i \in Indexers, FailStep(i) PROVE TypeOK'
  <2> USE DEF IndexerFrame, refresher, watcher, bounds, Goto, InLoop
  <2>1. CASE MarkFails(i)
    BY <2>1 DEF MarkFails, TypeOK
  <2>2. CASE RecordFails(i)
    <3>1. job' \in [Indexers -> SUBSET Target]
      BY <2>2 DEF RecordFails, TypeOK
    <3>2. QED
      BY <2>2, <3>1 DEF RecordFails, TypeOK
  <2>3. CASE ListFails(i)
    BY <2>3 DEF ListFails, TypeOK
  <2>4. CASE RecheckFails(i)
    BY <2>4 DEF RecheckFails, TypeOK
  <2>5. QED
    BY <1>14, <2>1, <2>2, <2>3, <2>4 DEF FailStep
<1>15. CASE UNCHANGED vars
  BY <1>15 DEF vars, TypeOK
<1>16. QED
  BY <1>1, <1>3, <1>4, <1>5, <1>6, <1>7, <1>8, <1>9, <1>10, <1>11, <1>12,
     <1>13, <1>14, <1>15 DEF Next, RefreshStep

LEMMA TypeInit == Init => TypeOK /\ RowsShaped
<1> SUFFICES ASSUME Init PROVE TypeOK /\ RowsShaped
  OBVIOUS
<1>1. RowsShaped
  BY DEF Init, RowsShaped, NoRow
<1>2. rows \in [Paths -> Row] /\ found \in [Paths -> OnDisk]
  BY NoRowTyped DEF Init, Nothing, OnDisk
<1>3. /\ pc \in [Indexers -> InLoop \cup {"off", "recheck", "requeue"}]
      /\ todo \in [Indexers -> SUBSET Target]
      /\ job \in [Indexers -> SUBSET Target]
  BY DEF Init
<1>4. /\ changes \in 0..MaxChanges
      /\ refreshes \in 0..MaxRefreshes
      /\ stops \in 0..MaxStops
  BY BoundsAssumption DEF Init
<1>5. QED
  BY <1>1, <1>2, <1>3, <1>4 DEF Init, TypeOK

(* Every variable keeps its type, and every listed target has a commit.    *)
THEOREM TypeCorrect == Spec => []TypeOK
  BY TypeInit, TypeNext, ShapeNext, PTL DEF Spec

-----------------------------------------------------------------------------
(* A ready row names the revision its shards were built from               *)

Core ==
  /\ IdsDrawn /\ IdsUnique /\ TargetsKeepPath /\ JobShape /\ JobNotReady
  /\ BuiltIsThere /\ ListIsLive /\ AbsentIsNone /\ ReadyMatchesShards

LEMMA CoreInit == Init => Core
  BY DEF Init, Core, NoRow, IdsDrawn, IdsUnique, TargetsKeepPath, JobShape,
     JobNotReady, BuiltIsThere, ListIsLive, AbsentIsNone, ReadyMatchesShards

(* A step that leaves the catalogue and the shards alone, gives no         *)
(* goroutine new work and reports none as built.                           *)
LEMMA CoreShrinks ==
  ASSUME Core, TypeOK, UNCHANGED <<rows, lastId, shards>>,
         \A i \in Indexers : todo'[i] \subseteq todo[i],
         \A i \in Indexers : job'[i] \subseteq job[i],
         \A i \in Indexers : job'[i] # {} =>
           /\ pc'[i] \in Working
           /\ pc'[i] = "built" => pc[i] = "built",
         refresh' # "prune" \/ UNCHANGED <<refresh, live>>
  PROVE  Core'
<1> USE DEF Core
<1>1. IdsDrawn' /\ IdsUnique' /\ AbsentIsNone' /\ ReadyMatchesShards'
  BY DEF IdsDrawn, IdsUnique, AbsentIsNone, ReadyMatchesShards
<1>2. TargetsKeepPath' /\ JobNotReady'
  BY DEF TargetsKeepPath, JobNotReady
<1>3. JobShape'
  BY DEF JobShape
<1>4. BuiltIsThere'
  BY DEF BuiltIsThere, LiveIds
<1>5. ListIsLive'
  BY DEF ListIsLive, LiveIds
<1>6. QED
  BY <1>1, <1>2, <1>3, <1>4, <1>5

(* What an update by id leaves of a row.                                   *)
LEMMA UpdateById ==
  ASSUME TypeOK, NEW id, NEW s, NEW c, rows' = UpdatedRows(id, s, c)
  PROVE  /\ \A p \in Paths : rows'[p].id = rows[p].id
         /\ LiveIds' = LiveIds
         /\ \A p \in Paths : rows[p].id = id =>
              rows'[p].state = s /\ rows'[p].indexed = c
         /\ \A p \in Paths : rows[p].id # id => rows'[p] = rows[p]
<1>1. ASSUME NEW p \in Paths
      PROVE  /\ rows'[p].id = rows[p].id
             /\ rows[p].id = id => rows'[p].state = s /\ rows'[p].indexed = c
             /\ rows[p].id # id => rows'[p] = rows[p]
  <2>1. rows[p] \in Row
    BY DEF TypeOK
  <2>2. rows'[p] = IF rows[p].id = id
                     THEN [rows[p] EXCEPT !.state = s, !.indexed = c,
                                          !.at = (s = "ready")]
                     ELSE rows[p]
    BY DEF UpdatedRows
  <2>3. QED
    BY <2>1, <2>2 DEF Row
<1>2. LiveIds' = LiveIds
  BY <1>1 DEF LiveIds
<1>3. QED
  BY <1>1, <1>2

(* Boot may queue rows again; it makes none ready.                         *)
LEMMA CoreBoot ==
  ASSUME Core, TypeOK, NEW changed \in BOOLEAN, Boot(changed)
  PROVE  Core'
<1>1. CASE ~changed
  <2>1. UNCHANGED <<rows, lastId, shards, refresh, live, todo, job, pc>>
    BY <1>1 DEF Boot, refresher, indexers
  <2>2. QED
    BY <2>1, CoreShrinks DEF Core, JobShape
<1>2. CASE changed
  <2> USE DEF Core
  <2>1. UNCHANGED <<lastId, shards, refresh, live, todo, job, pc>>
    BY DEF Boot, refresher, indexers
  <2>2. ASSUME NEW p \in Paths
        PROVE  /\ rows'[p].id = rows[p].id
               /\ rows'[p].state # "ready"
               /\ rows[p].id = 0 => rows'[p].state = rows[p].state
    <3>1. rows[p] \in Row /\ rows'[p] = Reconfigured(rows[p])
      BY <1>2 DEF Boot, TypeOK
    <3>2. CASE rows[p].id = 0
      BY <3>1, <3>2 DEF Reconfigured, AbsentIsNone
    <3>3. CASE rows[p].id # 0 /\ rows[p].scan \in {"empty", "error"}
      BY <3>1, <3>3 DEF Reconfigured, Row
    <3>4. CASE rows[p].id # 0 /\ rows[p].scan \notin {"empty", "error"}
      BY <3>1, <3>4 DEF Reconfigured, Row
    <3>5. QED
      BY <3>2, <3>3, <3>4
  <2>3. LiveIds' = LiveIds
    BY <2>2 DEF LiveIds
  <2>4. IdsDrawn' /\ IdsUnique' /\ TargetsKeepPath' /\ AbsentIsNone'
    BY <2>1, <2>2 DEF IdsDrawn, IdsUnique, TargetsKeepPath, AbsentIsNone
  <2>5. JobShape' /\ JobNotReady' /\ ReadyMatchesShards'
    BY <2>1, <2>2 DEF JobShape, JobNotReady, ReadyMatchesShards
  <2>6. BuiltIsThere' /\ ListIsLive'
    BY <2>1, <2>3 DEF BuiltIsThere, ListIsLive
  <2>7. QED
    BY <2>4, <2>5, <2>6
<1>3. QED
  BY <1>1, <1>2

(* ListPending copies the ids and the paths of the rows.                   *)
LEMMA CoreLists ==
  ASSUME Core, TypeOK, NEW i \in Indexers, ListPending(i)
  PROVE  Core'
<1> USE DEF Core
<1>1. UNCHANGED <<rows, lastId, shards, refresh, live, job>>
  BY DEF ListPending, IndexerFrame, refresher
<1>2. ASSUME NEW j \in Indexers, NEW t \in todo'[j]
      PROVE  t \in todo[j] \/ \E p \in Paths : t.id = rows[p].id /\ t.path = p
                                /\ Indexable(p)
  <2>1. CASE j = i
    BY <1>2, <2>1 DEF ListPending, TypeOK
  <2>2. CASE j # i
    BY <1>2, <2>2 DEF ListPending, TypeOK
  <2>3. QED
    BY <2>1, <2>2
<1>3. IdsDrawn'
  BY <1>1, <1>2 DEF IdsDrawn
<1>4. TargetsKeepPath'
  <2>1. SUFFICES ASSUME NEW j \in Indexers, NEW t \in todo'[j] \cup job[j],
                        NEW p \in Paths, rows[p].id = t.id
                 PROVE  p = t.path
    BY <1>1 DEF TargetsKeepPath
  <2>2. CASE t \in todo[j] \cup job[j]
    BY <2>1, <2>2 DEF TargetsKeepPath
  <2>3. CASE t \notin todo[j] \cup job[j]
    <3>1. PICK q \in Paths : t.id = rows[q].id /\ t.path = q /\ Indexable(q)
      BY <1>2, <2>1, <2>3
    <3>2. rows[q].id # 0
      BY <3>1 DEF Indexable, AbsentIsNone
    <3>3. QED
      BY <2>1, <3>1, <3>2 DEF IdsUnique
  <2>4. QED
    BY <2>2, <2>3
<1>5. job[i] = {} /\ \A j \in Indexers \ {i} : pc'[j] = pc[j]
  BY DEF ListPending, Goto, JobShape, Working, TypeOK
<1>6. JobShape' /\ BuiltIsThere'
  BY <1>1, <1>5 DEF JobShape, BuiltIsThere, LiveIds
<1>7. IdsUnique' /\ JobNotReady' /\ ListIsLive' /\ AbsentIsNone'
      /\ ReadyMatchesShards'
  BY <1>1 DEF IdsUnique, JobNotReady, ListIsLive, AbsentIsNone,
    ReadyMatchesShards, LiveIds
<1>8. QED
  BY <1>3, <1>4, <1>6, <1>7

(* MarkIndexing takes a listed target and makes its row not ready.         *)
LEMMA CoreMarks ==
  ASSUME Core, TypeOK, NEW i \in Indexers, MarkIndexing(i)
  PROVE  Core'
<1> USE DEF Core
<1>1. PICK t \in todo[i] :
        /\ todo' = [todo EXCEPT ![i] = @ \ {t}]
        /\ IF t.id \in LiveIds
             THEN /\ rows' = UpdatedRows(t.id, "indexing", t.commit)
                  /\ job' = [job EXCEPT ![i] = {t}]
                  /\ pc' = [pc EXCEPT ![i] = "index"]
             ELSE UNCHANGED <<rows, job, pc>>
  BY DEF MarkIndexing, Goto
<1>2. UNCHANGED <<lastId, shards, refresh, live>>
  BY DEF MarkIndexing, IndexerFrame, refresher
<1>3. \A j \in Indexers : todo'[j] \subseteq todo[j]
  BY <1>1 DEF TypeOK
<1>4. CASE t.id \notin LiveIds
  <2>1. UNCHANGED <<rows, job, pc>>
    BY <1>1, <1>4
  <2>2. QED
    BY <1>2, <1>3, <2>1, CoreShrinks DEF JobShape
<1>5. CASE t.id \in LiveIds
  <2>1. rows' = UpdatedRows(t.id, "indexing", t.commit)
    BY <1>1, <1>5
  <2>2. /\ \A p \in Paths : rows'[p].id = rows[p].id
        /\ LiveIds' = LiveIds
        /\ \A p \in Paths : rows[p].id = t.id => rows'[p].state = "indexing"
        /\ \A p \in Paths : rows[p].id # t.id => rows'[p] = rows[p]
    BY <2>1, UpdateById
  <2>3. /\ job'[i] = {t} /\ pc'[i] = "index"
        /\ \A j \in Indexers \ {i} : job'[j] = job[j] /\ pc'[j] = pc[j]
    BY <1>1, <1>5 DEF TypeOK
  <2>4. \A j \in Indexers : todo'[j] \cup job'[j] \subseteq todo[j] \cup job[j]
    BY <1>1, <1>3, <2>3
  <2>5. IdsDrawn' /\ IdsUnique' /\ TargetsKeepPath'
    BY <1>2, <2>2, <2>4 DEF IdsDrawn, IdsUnique, TargetsKeepPath
  <2>6. JobShape'
    BY <2>3 DEF JobShape, Working
  <2>7. JobNotReady'
    BY <2>2, <2>3 DEF JobNotReady
  <2>8. BuiltIsThere' /\ ListIsLive'
    BY <1>2, <2>2, <2>3 DEF BuiltIsThere, ListIsLive
  <2>9. t.id # 0
    BY <1>5 DEF LiveIds
  <2>10. AbsentIsNone' /\ ReadyMatchesShards'
    BY <1>2, <2>2, <2>9 DEF AbsentIsNone, ReadyMatchesShards
  <2>11. QED
    BY <2>5, <2>6, <2>7, <2>8, <2>10
<1>6. QED
  BY <1>4, <1>5

(* PublishShards replaces the shards of an id whose row is not ready.      *)
LEMMA CorePublishes ==
  ASSUME Core, TypeOK, Held, NEW i \in Indexers, PublishShards(i)
  PROVE  Core'
<1> USE DEF Core
<1>1. PICK t \in job[i] : shards' = Published(t)
  BY DEF PublishShards
<1>2. /\ UNCHANGED <<rows, lastId, refresh, live, todo, job>>
      /\ pc[i] = "build" /\ pc'[i] = "built"
      /\ \A j \in Indexers \ {i} : pc'[j] = pc[j]
  BY DEF PublishShards, IndexerFrame, refresher, Goto, TypeOK
<1>3. IdsDrawn' /\ IdsUnique' /\ TargetsKeepPath' /\ JobNotReady'
      /\ AbsentIsNone' /\ ListIsLive'
  BY <1>2 DEF IdsDrawn, IdsUnique, TargetsKeepPath, JobNotReady, AbsentIsNone,
    ListIsLive, LiveIds
<1>4. JobShape'
  BY <1>2 DEF JobShape, Working
<1>5. BuiltIsThere'
  <2>1. \A j \in Indexers : job[j] # {} => j = i
    BY <1>2 DEF JobShape, Working, Held, SingleIndexer, InLoop
  <2>2. \A s \in job[i] : s = t
    BY <1>1 DEF JobShape
  <2>3. t \in shards'
    BY <1>1 DEF Published
  <2>4. QED
    BY <1>2, <2>1, <2>2, <2>3 DEF BuiltIsThere
<1>6. ReadyMatchesShards'
  <2>1. SUFFICES ASSUME NEW p \in Paths, rows[p].state = "ready"
                 PROVE  [id |-> rows[p].id, path |-> p,
                         commit |-> rows[p].indexed] \in shards'
    BY <1>2 DEF ReadyMatchesShards
  <2>2. rows[p].id # t.id
    BY <1>1, <2>1 DEF JobNotReady
  <2>3. QED
    BY <1>1, <2>1, <2>2 DEF ReadyMatchesShards, Published
<1>7. QED
  BY <1>3, <1>4, <1>5, <1>6

(* RecordOutcome reports ready only what is built, and drops its job.      *)
LEMMA CoreRecords ==
  ASSUME Core, TypeOK, Held, NEW i \in Indexers, RecordOutcome(i)
  PROVE  Core'
<1> USE DEF Core
<1>1. PICK t \in job[i] : rows' = UpdatedRows(t.id, Outcome(pc[i]), t.commit)
  BY DEF RecordOutcome
<1>2. /\ UNCHANGED <<lastId, shards, refresh, live, todo>>
      /\ pc[i] \in {"built", "failed"} /\ job'[i] = {}
      /\ \A j \in Indexers \ {i} : job'[j] = job[j] /\ pc'[j] = pc[j]
  BY DEF RecordOutcome, IndexerFrame, refresher, Goto, TypeOK
<1>3. \A j \in Indexers : job'[j] = {}
  BY <1>2 DEF JobShape, Working, Held, SingleIndexer, InLoop
<1>4. /\ \A p \in Paths : rows'[p].id = rows[p].id
      /\ LiveIds' = LiveIds
      /\ \A p \in Paths : rows[p].id = t.id =>
           rows'[p].state = Outcome(pc[i]) /\ rows'[p].indexed = t.commit
      /\ \A p \in Paths : rows[p].id # t.id => rows'[p] = rows[p]
  BY <1>1, UpdateById
<1>5. IdsDrawn' /\ IdsUnique' /\ TargetsKeepPath'
  BY <1>2, <1>3, <1>4 DEF IdsDrawn, IdsUnique, TargetsKeepPath
<1>6. JobShape' /\ JobNotReady' /\ BuiltIsThere' /\ ListIsLive'
  BY <1>2, <1>3, <1>4 DEF JobShape, JobNotReady, BuiltIsThere, ListIsLive
<1>7. t.id # 0 /\ t = [id |-> t.id, path |-> t.path, commit |-> t.commit]
  BY <1>1 DEF TypeOK, Target, Ids
<1>8. AbsentIsNone'
  BY <1>4, <1>7 DEF AbsentIsNone
<1>9. ReadyMatchesShards'
  <2>1. SUFFICES ASSUME NEW p \in Paths, rows'[p].state = "ready"
                 PROVE  [id |-> rows'[p].id, path |-> p,
                         commit |-> rows'[p].indexed] \in shards
    BY <1>2 DEF ReadyMatchesShards
  <2>2. CASE rows[p].id # t.id
    BY <1>4, <2>1, <2>2 DEF ReadyMatchesShards
  <2>3. CASE rows[p].id = t.id
    <3>1. p = t.path
      BY <1>1, <2>3 DEF TargetsKeepPath
    <3>2. pc[i] = "built"
      BY <1>2, <1>4, <2>1, <2>3 DEF Outcome
    <3>3. t.id \in LiveIds
      BY <1>7, <2>3 DEF LiveIds
    <3>4. t \in shards
      BY <1>1, <3>2, <3>3 DEF BuiltIsThere
    <3>5. rows'[p].id = t.id /\ rows'[p].indexed = t.commit
      BY <1>4, <2>3
    <3>6. QED
      BY <1>7, <3>1, <3>4, <3>5
  <2>4. QED
    BY <2>2, <2>3
<1>10. QED
  BY <1>5, <1>6, <1>8, <1>9

(* The sweep keeps the shards of every id that has a row.                  *)
LEMMA CorePrunes ==
  ASSUME Core, TypeOK, PruneRepositories
  PROVE  Core'
<1> USE DEF Core
<1>1. /\ UNCHANGED <<rows, lastId, todo, job, pc>>
      /\ live = LiveIds /\ refresh' = "queue"
      /\ shards' = {s \in shards : s.id \in live}
  BY DEF PruneRepositories, catalogue, indexers, ListIsLive
<1>2. IdsDrawn' /\ IdsUnique' /\ TargetsKeepPath' /\ JobShape' /\ JobNotReady'
      /\ AbsentIsNone' /\ ListIsLive'
  BY <1>1 DEF IdsDrawn, IdsUnique, TargetsKeepPath, JobShape, JobNotReady,
    AbsentIsNone, ListIsLive
<1>3. BuiltIsThere'
  BY <1>1 DEF BuiltIsThere, LiveIds
<1>4. ReadyMatchesShards'
  <2>1. \A p \in Paths : rows[p].state = "ready" => rows[p].id \in LiveIds
    BY DEF AbsentIsNone, LiveIds
  <2>2. QED
    BY <1>1, <2>1 DEF ReadyMatchesShards
<1>5. QED
  BY <1>2, <1>3, <1>4

(* SyncRepositories draws new ids above every id ever drawn, so no target  *)
(* a goroutine still holds can mean one of the new rows.                   *)
LEMMA CoreSyncs ==
  ASSUME Core, TypeOK, Identity, SyncRepositories
  PROVE  Core'
<1> USE DEF Core
<1>1. PICK new \in [Inserted -> (lastId + 1)..(lastId + Cardinality(Inserted))] :
        /\ \A p, q \in Inserted : new[p] = new[q] => p = q
        /\ rows' = [p \in Paths |->
                      SyncedRow(p, IF p \in Inserted THEN new[p] ELSE 0)]
  BY DEF SyncRepositories, LargestId
<1>2. lastId' = lastId + Cardinality(Inserted)
  BY DEF SyncRepositories, LargestId
<1>3. /\ UNCHANGED <<shards, live, todo, job, pc>>
      /\ refresh' \in {"watch", "list"}
  BY DEF SyncRepositories, indexers
<1>4. lastId \in Nat /\ Cardinality(Inserted) \in Nat
  BY InsertedFinite DEF TypeOK
<1>5. \A p \in Inserted : new[p] > lastId /\ new[p] <= lastId'
                          /\ rows[p].id = 0
  BY <1>1, <1>2, <1>4 DEF Inserted, Exists
<1>6. ASSUME NEW p \in Paths
      PROVE  \/ /\ p \in Inserted /\ rows'[p].id = new[p]
                /\ rows'[p].state # "ready"
             \/ /\ p \notin Inserted /\ rows'[p].id = rows[p].id
                /\ rows'[p].state = "ready" =>
                     rows[p].state = "ready" /\ rows'[p].indexed = rows[p].indexed
                /\ rows[p].id = 0 => rows'[p].state = "none"
             \/ rows'[p].id = 0 /\ rows'[p].state = "none"
  <2>1. /\ rows[p] \in Row /\ found[p] \in OnDisk
        /\ rows'[p] = SyncedRow(p, IF p \in Inserted THEN new[p] ELSE 0)
    BY <1>1 DEF TypeOK
  <2>2. CASE p \in Inserted
    <3>1. rows[p].state # "ready" /\ ~Exists(p) /\ found[p] # "gone"
      BY <1>5, <2>2 DEF AbsentIsNone, Inserted
    <3>2. rows'[p] = Upserted(rows[p], new[p], found[p])
      BY <2>1, <2>2, <3>1 DEF SyncedRow
    <3>3. rows'[p].id = new[p] /\ rows'[p].state = Discovered(found[p])
      BY <3>1, <3>2 DEF Upserted, KeptState
    <3>4. Discovered(found[p]) # "ready"
      BY <2>1, <3>1 DEF Discovered, OnDisk
    <3>5. QED
      BY <2>2, <3>3, <3>4
  <2>3. CASE p \notin Inserted /\ found[p] # "gone"
    <3>1. Exists(p)
      BY <2>3 DEF Inserted
    <3>2. rows'[p] = Upserted(rows[p], rows[p].id, found[p])
      BY <2>1, <2>3, <3>1 DEF SyncedRow
    <3>3. /\ rows'[p].id = rows[p].id /\ rows'[p].indexed = rows[p].indexed
          /\ rows'[p].state = KeptState(rows[p], found[p])
      BY <3>2 DEF Upserted
    <3>4. Discovered(found[p]) # "ready"
      BY <2>1, <2>3 DEF Discovered, OnDisk
    <3>5. QED
      BY <2>3, <3>1, <3>3, <3>4 DEF KeptState, Exists
  <2>4. CASE found[p] = "gone" /\ (~Exists(p) \/ Confirmed(rows[p]))
    BY <2>1, <2>4 DEF SyncedRow, NoRow
  <2>5. CASE found[p] = "gone" /\ Exists(p) /\ ~Confirmed(rows[p])
    <3>1. rows'[p] = [rows[p] EXCEPT !.misses = @ + 1, !.scan = "error"]
      BY <2>1, <2>5 DEF SyncedRow
    <3>2. /\ rows'[p].id = rows[p].id /\ rows'[p].indexed = rows[p].indexed
          /\ rows'[p].state = rows[p].state
      BY <2>1, <3>1 DEF Row
    <3>3. QED
      BY <2>5, <3>2 DEF Exists, Inserted
  <2>6. QED
    BY <2>2, <2>3, <2>4, <2>5
<1>7. \A i \in Indexers : \A t \in todo[i] \cup job[i] :
        t.id \in Nat /\ t.id # 0 /\ t.id <= lastId
  BY DEF IdsDrawn, TypeOK, Target, Ids
<1>8. \A p \in Paths : rows[p].id \in Nat /\ rows[p].id <= lastId
  BY DEF IdsDrawn, TypeOK, Row
<1>9. IdsDrawn'
  <2>1. ASSUME NEW p \in Paths PROVE rows'[p].id <= lastId'
    BY <1>2, <1>4, <1>5, <1>6, <1>8
  <2>2. ASSUME NEW i \in Indexers, NEW t \in todo[i] \cup job[i]
        PROVE  t.id <= lastId'
    BY <1>2, <1>4, <1>7
  <2>3. QED
    BY <1>3, <2>1, <2>2 DEF IdsDrawn
<1>10. ASSUME NEW p \in Paths, rows'[p].id # 0, rows'[p].id <= lastId
       PROVE  p \notin Inserted /\ rows'[p].id = rows[p].id
  <2>1. CASE p \in Inserted /\ rows'[p].id = new[p]
    <3>1. new[p] \in Nat /\ new[p] > lastId
      BY <1>1, <1>4, <1>5, <2>1
    <3>2. QED
      BY <1>4, <1>10, <2>1, <3>1
  <2>2. QED
    BY <1>6, <1>10, <2>1
<1>11. IdsUnique'
  <2>1. SUFFICES ASSUME NEW p \in Paths, NEW q \in Paths,
                        rows'[p].id = rows'[q].id, rows'[p].id # 0
                 PROVE  p = q
    BY DEF IdsUnique
  <2>2. CASE rows'[p].id <= lastId
    <3>1. rows'[p].id = rows[p].id /\ rows'[q].id = rows[q].id
      BY <1>10, <2>1, <2>2
    <3>2. QED
      BY <2>1, <3>1 DEF IdsUnique
  <2>3. CASE ~(rows'[p].id <= lastId)
    <3>1. rows'[p].id # rows[p].id /\ rows'[q].id # rows[q].id
      BY <1>8, <2>1, <2>3
    <3>2. /\ p \in Inserted /\ rows'[p].id = new[p]
          /\ q \in Inserted /\ rows'[q].id = new[q]
      BY <1>6, <2>1, <3>1
    <3>3. QED
      BY <1>1, <2>1, <3>2
  <2>4. QED
    BY <2>2, <2>3
<1>12. TargetsKeepPath' /\ JobNotReady'
  <2>1. ASSUME NEW i \in Indexers, NEW t \in todo[i] \cup job[i],
               NEW p \in Paths, rows'[p].id = t.id
        PROVE  p \notin Inserted /\ rows[p].id = t.id
    BY <1>7, <1>10, <2>1
  <2>2. TargetsKeepPath'
    BY <1>3, <2>1 DEF TargetsKeepPath
  <2>3. JobNotReady'
    BY <1>3, <1>6, <2>1 DEF JobNotReady
  <2>4. QED
    BY <2>2, <2>3
<1>13. BuiltIsThere'
  <2>1. ASSUME NEW i \in Indexers, NEW t \in job[i], t.id \in LiveIds'
        PROVE  t.id \in LiveIds
    <3>1. PICK p \in Paths : rows'[p].id = t.id
      BY <2>1 DEF LiveIds
    <3>2. rows[p].id = t.id /\ t.id # 0
      BY <1>7, <1>10, <3>1
    <3>3. QED
      BY <3>2 DEF LiveIds
  <2>2. QED
    BY <1>3, <2>1 DEF BuiltIsThere
<1>14. ReadyMatchesShards'
  <2>1. SUFFICES ASSUME NEW p \in Paths, rows'[p].state = "ready"
                 PROVE  [id |-> rows'[p].id, path |-> p,
                         commit |-> rows'[p].indexed] \in shards
    BY <1>3 DEF ReadyMatchesShards
  <2>2. /\ rows'[p].id = rows[p].id /\ rows'[p].indexed = rows[p].indexed
        /\ rows[p].state = "ready"
    BY <1>6, <2>1
  <2>3. QED
    BY <2>2 DEF ReadyMatchesShards
<1>15. JobShape' /\ ListIsLive'
  BY <1>3 DEF JobShape, ListIsLive
<1>16. AbsentIsNone'
  <2>1. ASSUME NEW p \in Paths, rows'[p].id = 0 PROVE rows'[p].state = "none"
    <3>1. CASE p \in Inserted
      <4>1. new[p] # 0
        BY <1>1, <1>4, <1>5, <3>1
      <4>2. QED
        BY <1>6, <2>1, <4>1, <3>1
    <3>2. CASE p \notin Inserted
      BY <1>6, <2>1, <3>2
    <3>3. QED
      BY <3>1, <3>2
  <2>2. QED
    BY <2>1 DEF AbsentIsNone
<1>17. QED
  BY <1>9, <1>11, <1>12, <1>13, <1>14, <1>15, <1>16

LEMMA CoreNext ==
  ASSUME Core, TypeOK, Held, Identity, [Next]_vars
  PROVE  Core'
<1>1. ASSUME UNCHANGED <<rows, lastId, shards, todo, job, pc>>,
             refresh' # "prune" \/ UNCHANGED <<refresh, live>>
      PROVE  Core'
  BY <1>1, CoreShrinks DEF Core, JobShape
<1>2. CASE Halt
  <2>1. /\ UNCHANGED <<rows, lastId, shards>>
        /\ refresh' # "prune"
        /\ \A i \in Indexers : todo'[i] = {} /\ job'[i] = {}
    BY <1>2 DEF Halt, catalogue
  <2>2. QED
    BY <2>1, CoreShrinks
<1>3. ASSUME NEW changed \in BOOLEAN, Boot(changed) PROVE Core'
  BY <1>3, CoreBoot
<1>4. CASE Stop
  BY <1>2, <1>4 DEF Stop
<1>5. ASSUME NEW p \in Paths, NEW v \in OnDisk, Change(p, v) PROVE Core'
  BY <1>1, <1>5 DEF Change, catalogue, refresher, indexers
<1>6. CASE RefreshStep
  <2>1. CASE Discover
    BY <1>1, <2>1 DEF Discover, catalogue, indexers
  <2>2. CASE SyncRepositories
    BY <2>2, CoreSyncs
  <2>3. CASE RefreshWatches
    BY <1>1, <2>3 DEF RefreshWatches, catalogue, indexers
  <2>4. CASE ListLive
    <3>1. /\ UNCHANGED <<rows, lastId, shards, todo, job, pc>>
          /\ live' = LiveIds
      BY <2>4 DEF ListLive, catalogue, indexers
    <3>2. IdsDrawn' /\ IdsUnique' /\ TargetsKeepPath' /\ JobShape'
          /\ JobNotReady'
      BY <3>1 DEF Core, IdsDrawn, IdsUnique, TargetsKeepPath, JobShape,
        JobNotReady
    <3>3. BuiltIsThere' /\ ListIsLive' /\ AbsentIsNone' /\ ReadyMatchesShards'
      BY <3>1 DEF Core, BuiltIsThere, ListIsLive, AbsentIsNone,
        ReadyMatchesShards, LiveIds
    <3>4. QED
      BY <3>2, <3>3 DEF Core
  <2>5. CASE PruneRepositories
    BY <2>5, CorePrunes
  <2>6. CASE QueueIndexing
    <3>1. /\ UNCHANGED <<rows, lastId, shards, todo, job>>
          /\ refresh' # "prune"
      BY <2>6 DEF QueueIndexing, catalogue
    <3>2. ASSUME NEW i \in Indexers, job[i] # {} PROVE pc'[i] = pc[i]
      <4>1. pc[i] # "off"
        BY <3>2 DEF Core, JobShape, Working
      <4>2. QED
        BY <2>6, <4>1 DEF QueueIndexing, Spawn, TypeOK
    <3>3. QED
      BY <3>1, <3>2, CoreShrinks DEF Core, JobShape
  <2>7. CASE StartWatcher
    BY <1>1, <2>7 DEF StartWatcher, catalogue, refresher, indexers
  <2>8. QED
    BY <1>6, <2>1, <2>2, <2>3, <2>4, <2>5, <2>6, <2>7 DEF RefreshStep
<1>7. CASE RefreshFails
  <2>1. CASE ~Halt
    BY <1>1, <1>7, <2>1 DEF RefreshFails, catalogue, indexers
  <2>2. QED
    BY <1>2, <2>1
<1>8. ASSUME NEW i \in Indexers, NEW step,
             UNCHANGED <<rows, lastId, shards, refresh, live, todo, job>>,
             pc' = [pc EXCEPT ![i] = step],
             \/ step \in Working /\ step # "built"
             \/ pc[i] \notin Working
      PROVE  Core'
  <2>1. ASSUME NEW j \in Indexers, job[j] # {}
        PROVE  pc'[j] \in Working /\ (pc'[j] = "built" => pc[j] = "built")
    <3>1. pc[j] \in Working
      BY <2>1 DEF Core, JobShape
    <3>2. QED
      BY <1>8, <3>1 DEF TypeOK
  <2>2. QED
    BY <1>8, <2>1, CoreShrinks
<1>9. ASSUME NEW i \in Indexers, IndexStep(i) PROVE Core'
  <2> USE DEF IndexerFrame, refresher, Goto
  <2>1. CASE ListPending(i)
    BY <2>1, CoreLists
  <2>2. CASE MarkIndexing(i)
    BY <2>2, CoreMarks
  <2>3. CASE EndPass(i)
    BY <1>8, <2>3 DEF EndPass, Working
  <2>4. CASE LockIndexMu(i)
    BY <1>8, <2>4 DEF LockIndexMu, Working
  <2>5. CASE PublishShards(i)
    BY <2>5, CorePublishes
  <2>6. CASE IndexFails(i)
    BY <1>8, <2>6 DEF IndexFails, Working
  <2>7. CASE RecordOutcome(i)
    BY <2>7, CoreRecords
  <2>8. CASE Release(i)
    BY <1>8, <2>8 DEF Release, Working
  <2>9. CASE Recheck(i)
    BY <1>8, <2>9 DEF Recheck, Working
  <2>10. CASE Requeue(i)
    BY <1>8, <2>10 DEF Requeue, Working
  <2>11. QED
    BY <1>9, <2>1, <2>2, <2>3, <2>4, <2>5, <2>6, <2>7, <2>8, <2>9, <2>10
    DEF IndexStep
<1>10. ASSUME NEW i \in Indexers, FailStep(i) PROVE Core'
  <2> USE DEF IndexerFrame, refresher, Goto
  <2>1. CASE MarkFails(i)
    <3>1. /\ UNCHANGED <<rows, lastId, shards, refresh, live, job, pc>>
          /\ \A j \in Indexers : todo'[j] \subseteq todo[j]
      BY <2>1 DEF MarkFails, TypeOK
    <3>2. QED
      BY <3>1, CoreShrinks DEF Core, JobShape
  <2>2. CASE RecordFails(i)
    <3>1. /\ UNCHANGED <<rows, lastId, shards, refresh, live, todo>>
          /\ job'[i] = {}
          /\ \A j \in Indexers \ {i} : job'[j] = job[j] /\ pc'[j] = pc[j]
      BY <2>2 DEF RecordFails, TypeOK
    <3>2. QED
      BY <3>1, CoreShrinks DEF Core, JobShape
  <2>3. CASE ListFails(i)
    BY <1>8, <2>3 DEF ListFails, Working
  <2>4. CASE RecheckFails(i)
    BY <1>8, <2>4 DEF RecheckFails, Working
  <2>5. QED
    BY <1>10, <2>1, <2>2, <2>3, <2>4 DEF FailStep
<1>11. CASE UNCHANGED vars
  BY <1>1, <1>11 DEF vars
<1>12. QED
  BY <1>3, <1>4, <1>5, <1>6, <1>7, <1>9, <1>10, <1>11 DEF Next

(* With ids that are never given out twice, a row that claims to be ready  *)
(* always names the revision its shards were built from: no interleaving   *)
(* of scans, sweeps and builds, no failure and no stop breaks it.          *)
THEOREM ReadyIsBuilt ==
  ASSUME Identity
  PROVE  Spec => []ReadyMatchesShards
<1>1. Init => TypeOK /\ RowsShaped /\ Held /\ Core
  BY HeldInit, CoreInit, TypeInit
<1>2. TypeOK /\ RowsShaped /\ Held /\ Core /\ [Next]_vars
        => (TypeOK /\ RowsShaped /\ Held /\ Core)'
  BY TypeNext, ShapeNext, HeldNext, CoreNext
<1>3. Core => ReadyMatchesShards
  BY DEF Core
<1>4. QED
  BY <1>1, <1>2, <1>3, PTL DEF Spec

-----------------------------------------------------------------------------
(* What IndexingIsOwned rests on: a goroutine drops its job only in the    *)
(* step that also settles the row, and takes one only when it has none.    *)
Owned == JobShape /\ AbsentIsNone /\ IndexingIsOwned

LEMMA OwnedInit == Init => Owned
  BY DEF Init, Owned, JobShape, AbsentIsNone, IndexingIsOwned, NoRow

(* Steps that leave the rows and the jobs alone.                           *)
LEMMA OwnedStays ==
  ASSUME Owned, UNCHANGED <<rows, orphaned, job>>,
         \A i \in Indexers : job[i] # {} => pc'[i] \in Working
  PROVE  Owned'
  BY DEF Owned, JobShape, AbsentIsNone, IndexingIsOwned

(* A stop ends every goroutine; the rows they worked on are remembered.    *)
LEMMA OwnedHalts ==
  ASSUME Owned, Halt
  PROVE  Owned'
  BY DEF Owned, JobShape, AbsentIsNone, IndexingIsOwned, Halt, catalogue

(* A changed configuration leaves no row "indexing"; otherwise the rows    *)
(* are as the last process left them.                                      *)
LEMMA OwnedBoots ==
  ASSUME Owned, TypeOK, NEW changed \in BOOLEAN, Boot(changed)
  PROVE  Owned'
<1>1. UNCHANGED <<job, pc>>
  BY DEF Boot, indexers
<1>2. CASE changed
  <2>1. ASSUME NEW p \in Paths
        PROVE  /\ rows'[p].id = rows[p].id
               /\ rows[p].id = 0 => rows'[p] = rows[p]
               /\ rows[p].id # 0 => rows'[p].state # "indexing"
    <3>1. rows[p] \in Row /\ rows'[p] = Reconfigured(rows[p])
      BY <1>2 DEF Boot, TypeOK
    <3>2. QED
      BY <3>1 DEF Reconfigured, Row
  <2>2. QED
    BY <1>1, <2>1 DEF Owned, JobShape, AbsentIsNone, IndexingIsOwned
<1>3. CASE ~changed
  <2>1. UNCHANGED <<rows, orphaned>>
    BY <1>3 DEF Boot
  <2>2. QED
    BY <1>1, <2>1, OwnedStays DEF Owned, JobShape
<1>4. QED
  BY <1>2, <1>3

(* A goroutine takes a job only when it has none, and with it the row.     *)
LEMMA OwnedMarks ==
  ASSUME Owned, TypeOK, NEW i \in Indexers, MarkIndexing(i)
  PROVE  Owned'
<1> USE DEF Owned
<1>1. PICK t \in todo[i] :
        IF t.id \in LiveIds
          THEN /\ rows' = UpdatedRows(t.id, "indexing", t.commit)
               /\ orphaned' = {p \in orphaned : rows[p].id # t.id}
               /\ job' = [job EXCEPT ![i] = {t}]
               /\ pc' = [pc EXCEPT ![i] = "index"]
          ELSE UNCHANGED <<rows, orphaned, job, pc>>
  BY DEF MarkIndexing, Goto
<1>2. CASE t.id \notin LiveIds
  BY <1>1, <1>2, OwnedStays DEF JobShape
<1>3. CASE t.id \in LiveIds
  <2>1. /\ rows' = UpdatedRows(t.id, "indexing", t.commit)
        /\ orphaned' = {p \in orphaned : rows[p].id # t.id}
    BY <1>1, <1>3
  <2>2. /\ job[i] = {} /\ job'[i] = {t} /\ pc'[i] = "index"
        /\ \A j \in Indexers \ {i} : job'[j] = job[j] /\ pc'[j] = pc[j]
    <3>1. job[i] = {}
      BY DEF JobShape, Working, MarkIndexing
    <3>2. QED
      BY <1>1, <1>3, <3>1 DEF TypeOK
  <2>3. /\ \A p \in Paths : rows'[p].id = rows[p].id
        /\ \A p \in Paths : rows[p].id # t.id => rows'[p] = rows[p]
    BY <2>1, UpdateById
  <2>4. t.id # 0
    BY DEF TypeOK, Target, Ids
  <2>5. JobShape' /\ AbsentIsNone'
    BY <2>2, <2>3, <2>4 DEF JobShape, AbsentIsNone, Working
  <2>6. ASSUME NEW p \in Paths, rows'[p].state = "indexing"
        PROVE  \/ p \in orphaned'
               \/ \E j \in Indexers : \E s \in job'[j] : s.id = rows'[p].id
    <3>1. CASE rows[p].id = t.id
      BY <2>2, <2>3, <3>1
    <3>2. CASE rows[p].id # t.id
      BY <2>1, <2>2, <2>3, <2>6, <3>2 DEF IndexingIsOwned
    <3>3. QED
      BY <3>1, <3>2
  <2>7. QED
    BY <2>5, <2>6 DEF IndexingIsOwned
<1>4. QED
  BY <1>2, <1>3

(* It gives the job up with the row ready or in error.                     *)
LEMMA OwnedRecords ==
  ASSUME Owned, TypeOK, NEW i \in Indexers, RecordOutcome(i)
  PROVE  Owned'
<1> USE DEF Owned
<1>1. PICK t \in job[i] : rows' = UpdatedRows(t.id, Outcome(pc[i]), t.commit)
  BY DEF RecordOutcome
<1>2. /\ UNCHANGED orphaned
      /\ job'[i] = {}
      /\ \A j \in Indexers \ {i} : job'[j] = job[j] /\ pc'[j] = pc[j]
  BY DEF RecordOutcome, Goto, TypeOK
<1>3. /\ \A p \in Paths : rows'[p].id = rows[p].id
      /\ \A p \in Paths : rows[p].id = t.id => rows'[p].state = Outcome(pc[i])
      /\ \A p \in Paths : rows[p].id # t.id => rows'[p] = rows[p]
  BY <1>1, UpdateById
<1>4. t.id # 0 /\ Outcome(pc[i]) # "indexing"
  BY <1>1 DEF TypeOK, Target, Ids, Outcome
<1>5. JobShape' /\ AbsentIsNone'
  BY <1>2, <1>3, <1>4 DEF JobShape, AbsentIsNone
<1>6. ASSUME NEW p \in Paths, rows'[p].state = "indexing"
      PROVE  \/ p \in orphaned'
             \/ \E j \in Indexers : \E s \in job'[j] : s.id = rows'[p].id
  <2>1. rows[p].id # t.id /\ rows'[p] = rows[p]
    BY <1>3, <1>4, <1>6
  <2>2. \A s \in job[i] : s.id # rows[p].id
    BY <1>1, <2>1 DEF JobShape
  <2>3. QED
    BY <1>2, <1>6, <2>1, <2>2 DEF IndexingIsOwned
<1>7. QED
  BY <1>5, <1>6 DEF IndexingIsOwned

(* When that write fails, its row is one of those left behind.             *)
LEMMA OwnedRecordFails ==
  ASSUME Owned, TypeOK, NEW i \in Indexers, RecordFails(i)
  PROVE  Owned'
<1> USE DEF Owned
<1>1. PICK t \in job[i] :
        orphaned' = orphaned \cup
          {p \in Paths : rows[p].id = t.id /\ rows[p].state = "indexing"}
  BY DEF RecordFails
<1>2. /\ UNCHANGED rows
      /\ job'[i] = {}
      /\ \A j \in Indexers \ {i} : job'[j] = job[j] /\ pc'[j] = pc[j]
  BY DEF RecordFails, Goto, TypeOK
<1>3. JobShape' /\ AbsentIsNone'
  BY <1>2 DEF JobShape, AbsentIsNone
<1>4. ASSUME NEW p \in Paths, rows[p].state = "indexing", p \notin orphaned'
      PROVE  \E j \in Indexers : \E s \in job'[j] : s.id = rows[p].id
  <2>1. \A s \in job[i] : s.id # rows[p].id
    BY <1>1, <1>4 DEF JobShape
  <2>2. QED
    BY <1>1, <1>2, <1>4, <2>1 DEF IndexingIsOwned
<1>5. QED
  BY <1>2, <1>3, <1>4 DEF IndexingIsOwned

(* SyncRepositories queues every row of a repository it found; only one    *)
(* that was not found stays "indexing", with its owner or left behind.     *)
LEMMA OwnedSyncs ==
  ASSUME Owned, TypeOK, SyncRepositories
  PROVE  Owned'
<1> USE DEF Owned
<1>1. /\ UNCHANGED <<job, pc>>
      /\ orphaned' = {p \in orphaned : found[p] = "gone" /\ ~Confirmed(rows[p])}
  BY DEF SyncRepositories, indexers
<1>2. PICK n \in LiveIds \cup {0, lastId} :
        \E new \in [Inserted -> (n + 1)..(n + Cardinality(Inserted))] :
          rows' = [p \in Paths |->
                     SyncedRow(p, IF p \in Inserted THEN new[p] ELSE 0)]
  BY DEF SyncRepositories
<1>3. n \in Nat
  <2>1. \A p \in Paths : rows[p].id \in Nat
    BY DEF TypeOK, Row
  <2>2. QED
    BY <1>2, <2>1 DEF LiveIds, TypeOK
<1>4. PICK new \in [Inserted -> (n + 1)..(n + Cardinality(Inserted))] :
        rows' = [p \in Paths |->
                   SyncedRow(p, IF p \in Inserted THEN new[p] ELSE 0)]
  BY <1>2
<1>5. ASSUME NEW p \in Paths
      PROVE  /\ rows'[p].id = 0 => rows'[p].state = "none"
             /\ rows'[p].state = "indexing" =>
                  /\ found[p] = "gone" /\ ~Confirmed(rows[p])
                  /\ rows[p].state = "indexing" /\ rows'[p].id = rows[p].id
  <2>1. /\ rows[p] \in Row /\ found[p] \in OnDisk
        /\ rows'[p] = SyncedRow(p, IF p \in Inserted THEN new[p] ELSE 0)
    BY <1>4 DEF TypeOK
  <2>2. CASE found[p] # "gone"
    <3>1. PICK id : /\ rows'[p] = Upserted(rows[p], id, found[p])
                    /\ id # 0
      <4>1. CASE Exists(p)
        BY <2>1, <2>2, <4>1 DEF SyncedRow, Exists
      <4>2. CASE ~Exists(p)
        <5>1. p \in Inserted
          BY <2>2, <4>2 DEF Inserted
        <5>2. new[p] # 0
          BY <1>3, <1>4, <5>1, InsertedFinite
        <5>3. QED
          BY <2>1, <2>2, <4>2, <5>1, <5>2 DEF SyncedRow
      <4>3. QED
        BY <4>1, <4>2
    <3>2. rows'[p].id = id /\ rows'[p].state = KeptState(rows[p], found[p])
      BY <3>1 DEF Upserted
    <3>3. KeptState(rows[p], found[p]) # "indexing"
      BY <2>1, <2>2 DEF KeptState, Discovered, OnDisk
    <3>4. QED
      BY <3>1, <3>2, <3>3
  <2>3. CASE found[p] = "gone" /\ (~Exists(p) \/ Confirmed(rows[p]))
    BY <2>1, <2>3 DEF SyncedRow, NoRow
  <2>4. CASE found[p] = "gone" /\ Exists(p) /\ ~Confirmed(rows[p])
    <3>1. rows'[p] = [rows[p] EXCEPT !.misses = @ + 1, !.scan = "error"]
      BY <2>1, <2>4 DEF SyncedRow
    <3>2. rows'[p].id = rows[p].id /\ rows'[p].state = rows[p].state
      BY <2>1, <3>1 DEF Row
    <3>3. QED
      BY <2>4, <3>2 DEF Exists
  <2>5. QED
    BY <2>2, <2>3, <2>4
<1>6. JobShape' /\ AbsentIsNone'
  BY <1>1, <1>5 DEF JobShape, AbsentIsNone
<1>7. IndexingIsOwned'
  BY <1>1, <1>5 DEF IndexingIsOwned
<1>8. QED
  BY <1>6, <1>7

LEMMA OwnedNext ==
  ASSUME Owned, TypeOK, [Next]_vars
  PROVE  Owned'
<1>1. ASSUME UNCHANGED <<rows, orphaned, job, pc>> PROVE Owned'
  BY <1>1, OwnedStays DEF Owned, JobShape
<1>2. ASSUME NEW changed \in BOOLEAN, Boot(changed) PROVE Owned'
  BY <1>2, OwnedBoots
<1>3. CASE Stop
  BY <1>3, OwnedHalts DEF Stop
<1>4. ASSUME NEW p \in Paths, NEW v \in OnDisk, Change(p, v) PROVE Owned'
  BY <1>1, <1>4 DEF Change, catalogue, indexers
<1>5. CASE RefreshStep
  <2>1. CASE SyncRepositories
    BY <2>1, OwnedSyncs
  <2>2. CASE QueueIndexing
    <3>1. UNCHANGED <<rows, orphaned, job>>
      BY <2>2 DEF QueueIndexing, catalogue
    <3>2. ASSUME NEW i \in Indexers, job[i] # {} PROVE pc'[i] \in Working
      <4>1. pc[i] \in Working /\ pc[i] # "off"
        BY <3>2 DEF Owned, JobShape, Working
      <4>2. QED
        BY <2>2, <4>1 DEF QueueIndexing, Spawn, TypeOK
    <3>3. QED
      BY <3>1, <3>2, OwnedStays
  <2>3. CASE ~SyncRepositories /\ ~QueueIndexing
    BY <1>1, <1>5, <2>3 DEF RefreshStep, Discover, RefreshWatches, ListLive,
      PruneRepositories, StartWatcher, catalogue, indexers
  <2>4. QED
    BY <2>1, <2>2, <2>3
<1>6. CASE RefreshFails
  <2>1. CASE Halt
    BY <2>1, OwnedHalts
  <2>2. CASE ~Halt
    BY <1>1, <1>6, <2>2 DEF RefreshFails, catalogue, indexers
  <2>3. QED
    BY <2>1, <2>2
<1>7. ASSUME NEW i \in Indexers, NEW step, UNCHANGED <<rows, orphaned, job>>,
             pc' = [pc EXCEPT ![i] = step],
             step \in Working \/ pc[i] \notin Working
      PROVE  Owned'
  <2>1. ASSUME NEW j \in Indexers, job[j] # {} PROVE pc'[j] \in Working
    <3>1. pc[j] \in Working
      BY <2>1 DEF Owned, JobShape
    <3>2. QED
      BY <1>7, <3>1 DEF TypeOK
  <2>2. QED
    BY <1>7, <2>1, OwnedStays
<1>8. ASSUME NEW i \in Indexers, IndexStep(i) PROVE Owned'
  <2>1. CASE MarkIndexing(i)
    BY <2>1, OwnedMarks
  <2>2. CASE RecordOutcome(i)
    BY <2>2, OwnedRecords
  <2>3. CASE ListPending(i)
    BY <1>7, <2>3 DEF ListPending, Goto, Working
  <2>4. CASE EndPass(i) \/ LockIndexMu(i)
    BY <1>7, <2>4 DEF EndPass, LockIndexMu, Goto, Working
  <2>5. CASE PublishShards(i) \/ IndexFails(i)
    BY <1>7, <2>5 DEF PublishShards, IndexFails, Goto, Working
  <2>6. CASE Release(i) \/ Recheck(i) \/ Requeue(i)
    BY <1>7, <2>6 DEF Release, Recheck, Requeue, Goto, Working
  <2>7. QED
    BY <1>8, <2>1, <2>2, <2>3, <2>4, <2>5, <2>6 DEF IndexStep
<1>9. ASSUME NEW i \in Indexers, FailStep(i) PROVE Owned'
  <2>1. CASE RecordFails(i)
    BY <2>1, OwnedRecordFails
  <2>2. CASE MarkFails(i)
    BY <1>1, <2>2 DEF MarkFails
  <2>3. CASE ListFails(i) \/ RecheckFails(i)
    BY <1>7, <2>3 DEF ListFails, RecheckFails, Goto, Working
  <2>4. QED
    BY <1>9, <2>1, <2>2, <2>3 DEF FailStep
<1>10. CASE UNCHANGED vars
  BY <1>1, <1>10 DEF vars
<1>11. QED
  BY <1>2, <1>3, <1>4, <1>5, <1>6, <1>8, <1>9, <1>10 DEF Next

(* No row stays "indexing" with nobody working on it, unless a stop or a   *)
(* failed write is known to have left it there: whatever ids the database  *)
(* gives out, and however scans and goroutines overlap.                    *)
THEOREM IndexingHasOwner == Spec => []IndexingIsOwned
<1>1. Init => TypeOK /\ RowsShaped /\ Owned
  BY TypeInit, OwnedInit
<1>2. TypeOK /\ RowsShaped /\ Owned /\ [Next]_vars
        => (TypeOK /\ RowsShaped /\ Owned)'
  BY TypeNext, ShapeNext, OwnedNext
<1>3. Owned => IndexingIsOwned
  BY DEF Owned
<1>4. QED
  BY <1>1, <1>2, <1>3, PTL DEF Spec
=============================================================================
