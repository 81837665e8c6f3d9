---------------------------- MODULE AdvisoryRefresh ----------------------------
(***************************************************************************)
(* The local snapshot of OSV advisories (dependencies/advisories.go): the  *)
(* refresh that asks OSV which advisories there are for the declared       *)
(* packages, fetches them with a pool of workers and replaces the          *)
(* snapshot; the progress that the user interface shows; the scheduler;    *)
(* and what an answer to the user may say of the snapshot.                 *)
(*                                                                         *)
(* startMu makes StartAdvisoryRefresh one step: until it lets a run start, *)
(* no run is under way.  The identity digest of a query is its packages.   *)
(* The versions a package is affected in are the matter of OsvRanges, the  *)
(* answers to the user that of AdvisoryFindings.                           *)
(***************************************************************************)
EXTENDS Naturals, FiniteSets

CONSTANTS Packages,      \* unique packages that declarations may name
          Advisories,    \* identifiers at OSV
          Osv,           \* the advisories of each package
          Workers,       \* goroutines of fetchAdvisories
          BatchSize,     \* advisoryBatchSize
          MaxPackages,   \* maximumAdvisoryPackages
          MaxAdvisories  \* maximumAdvisories

ASSUME OsvAssumption == Osv \in [Packages -> SUBSET Advisories]
ASSUME SizesAssumption ==
  /\ BatchSize \in Nat \ {0} /\ MaxPackages \in Nat /\ MaxAdvisories \in Nat
  /\ IsFiniteSet(Packages) /\ IsFiniteSet(Advisories) /\ IsFiniteSet(Workers)
  /\ Workers # {}

VARIABLES
  declared,   \* packages of the inventory
  snapshot,   \* osv-snapshot.json
  progress,   \* advisoryProgress
  run,        \* the refresh under way: stage, packages, pending queries, ids
  todo,       \* ids not yet dispatched
  open,       \* jobs is not closed
  fatal,      \* fatalSignal is closed
  worker,     \* id that each worker fetches, or what it does
  results,    \* the channel of results
  fetched,    \* output of fetchAdvisories
  failed,     \* and its count of failures
  cancelled   \* the context of the service

pool == <<todo, open, fatal, worker, results, fetched, failed>>
vars == <<declared, snapshot, progress, run, pool, cancelled>>

NoSnapshot == [exists |-> FALSE, packages |-> {}, ids |-> {}, partial |-> FALSE, fresh |-> FALSE]
NoRun == [stage |-> "none", packages |-> {}, pending |-> {}, ids |-> {}]
NoJob == "waiting"
Exited == "exited"
ASSUME NamesAssumption == {NoJob, Exited} \cap Advisories = {}

Idle == [state |-> "idle", total |-> 0, completed |-> 0, packages |-> 0,
         advisories |-> 0, failed |-> 0, skipped |-> 0]
Advised(ps) == UNION {Osv[p] : p \in ps}

EmptyPool ==
  /\ todo' = {} /\ open' = FALSE /\ fatal' = FALSE
  /\ worker' = [w \in Workers |-> Exited]
  /\ results' = {} /\ fetched' = {} /\ failed' = 0

Init ==
  /\ declared \in SUBSET Packages
  /\ snapshot = NoSnapshot
  /\ progress = Idle
  /\ run = NoRun
  /\ todo = {} /\ open = FALSE /\ fatal = FALSE
  /\ worker = [w \in Workers |-> Exited]
  /\ results = {} /\ fetched = {} /\ failed = 0
  /\ cancelled = FALSE

-----------------------------------------------------------------------------
(* The world outside.                                                      *)

(* Repositories are indexed: other packages are declared.                  *)
Redeclare ==
  /\ \E ps \in SUBSET Packages : declared' = ps
  /\ UNCHANGED <<snapshot, progress, run, pool, cancelled>>

(* defaultAdvisoryTTL passes.                                              *)
Expire ==
  /\ snapshot.fresh
  /\ snapshot' = [snapshot EXCEPT !.fresh = FALSE]
  /\ UNCHANGED <<declared, progress, run, pool, cancelled>>

Shutdown ==
  /\ ~cancelled
  /\ cancelled' = TRUE
  /\ UNCHANGED <<declared, snapshot, progress, run, pool>>

(* The process ends, in whatever it was doing, and starts again.           *)
Restart ==
  /\ progress' = Idle
  /\ run' = NoRun
  /\ EmptyPool
  /\ cancelled' = FALSE
  /\ UNCHANGED <<declared, snapshot>>

-----------------------------------------------------------------------------
(* StartAdvisoryRefresh.                                                   *)

(* The age is not looked at.                                               *)
CachedForEver(ps) == snapshot.exists /\ snapshot.packages = ps

Cached(ps) == snapshot.exists /\ snapshot.packages = ps /\ snapshot.fresh

Start(ps, force) ==
  /\ progress.state # "running"
  /\ Cardinality(ps) <= MaxPackages
  /\ LET n == Cardinality(ps)
     IN  IF ~force /\ Cached(ps)
           THEN /\ progress' = [Idle EXCEPT !.state = "complete", !.total = n, !.completed = n,
                                            !.packages = n, !.skipped = n]
                /\ UNCHANGED run
           ELSE /\ progress' = [Idle EXCEPT !.state = "running", !.total = n]
                /\ run' = [stage |-> "query", packages |-> ps, pending |-> ps, ids |-> {}]
  /\ UNCHANGED <<declared, snapshot, pool, cancelled>>

(* The user asks, for all repositories or for one.                         *)
Request == \E ps \in SUBSET declared, force \in BOOLEAN : Start(ps, force)

(* The hour of the scheduler, which lives until the shutdown.              *)
Tick == ~cancelled /\ Start(declared, FALSE)

(* finishAdvisoryRefresh.                                                  *)
Fails ==
  /\ progress' = [progress EXCEPT !.state = "error", !.failed = @ + 1]
  /\ run' = NoRun

(* queryAdvisoryIDs, one batch: some packages have a next page.  A page    *)
(* that is followed by another brings an advisory that is new.             *)
Query ==
  /\ run.stage = "query"
  /\ run.pending # {}
  /\ \E batch \in SUBSET run.pending :
     \E done \in SUBSET batch :
     \E paged \in SUBSET Advised(batch \ done) :
       /\ \/ Cardinality(batch) = BatchSize
          \/ batch = run.pending /\ Cardinality(batch) < BatchSize
       /\ batch # done => ~(paged \subseteq run.ids)
       /\ LET ids == run.ids \cup Advised(done) \cup paged
          IN  /\ Cardinality(ids) <= MaxAdvisories
              /\ run' = [run EXCEPT !.pending = (@ \ batch) \cup (batch \ done), !.ids = ids]
       /\ progress' = [progress EXCEPT !.packages = @ + Cardinality(done),
                                       !.completed = progress.packages + Cardinality(done)]
  /\ UNCHANGED <<declared, snapshot, pool, cancelled>>

(* An answer that is an error or too much, or the shutdown between two.    *)
QueryFails ==
  /\ run.stage = "query"
  /\ run.pending # {}
  /\ Fails
  /\ UNCHANGED <<declared, snapshot, pool, cancelled>>

(* fetchAdvisories starts its workers, as many as there are ids at most.   *)
StartFetch ==
  /\ run.stage = "query"
  /\ run.pending = {}
  /\ run' = [run EXCEPT !.stage = IF run.ids = {} THEN "write" ELSE "fetch"]
  /\ progress' = [progress EXCEPT !.total = Cardinality(run.packages) + Cardinality(run.ids),
                                  !.completed = progress.packages]
  /\ todo' = run.ids
  /\ open' = (run.ids # {})
  /\ \E started \in SUBSET Workers :
       /\ \/ Cardinality(started) = Cardinality(run.ids)
          \/ started = Workers /\ Cardinality(Workers) < Cardinality(run.ids)
       /\ worker' = [w \in Workers |-> IF w \in started THEN NoJob ELSE Exited]
  /\ fatal' = FALSE /\ results' = {} /\ fetched' = {} /\ failed' = 0
  /\ UNCHANGED <<declared, snapshot, cancelled>>

-----------------------------------------------------------------------------
(* The pool: the dispatcher, the workers and the one that collects.        *)

(* The dispatcher hands an id over; it looks at fatalSignal after each.    *)
Dispatch(w) ==
  /\ open
  /\ worker[w] = NoJob
  /\ \E id \in todo :
       /\ worker' = [worker EXCEPT ![w] = id]
       /\ todo' = todo \ {id}
  /\ open' = ~fatal
  /\ UNCHANGED <<declared, snapshot, progress, run, fatal, results, fetched, failed, cancelled>>

CloseJobs ==
  /\ open
  /\ todo = {} \/ fatal
  /\ open' = FALSE
  /\ UNCHANGED <<declared, snapshot, progress, run, todo, fatal, worker, results, fetched,
                 failed, cancelled>>

Sends(w, ok, next) ==
  /\ results' = results \cup {[id |-> worker[w], ok |-> ok]}
  /\ worker' = [worker EXCEPT ![w] = next]

Fetch(w) ==
  /\ worker[w] \in Advisories
  /\ ~cancelled
  /\ \E ok \in BOOLEAN : Sends(w, ok, NoJob)
  /\ UNCHANGED <<declared, snapshot, progress, run, todo, open, fatal, fetched, failed, cancelled>>

(* A worker that gives up without a result.                                *)
FatalSilently(w) ==
  /\ worker[w] \in Advisories
  /\ fatal' = TRUE
  /\ worker' = [worker EXCEPT ![w] = Exited]
  /\ UNCHANGED <<declared, snapshot, progress, run, todo, open, results, fetched, failed, cancelled>>

(* A worker that gives up without telling the dispatcher.                  *)
FatalUnsignalled(w) ==
  /\ worker[w] \in Advisories
  /\ Sends(w, FALSE, Exited)
  /\ UNCHANGED <<declared, snapshot, progress, run, todo, open, fatal, fetched, failed, cancelled>>

(* The shutdown, a refusal (401, 403, 429) or another advisory than asked. *)
FetchIsFatal(w) ==
  /\ worker[w] \in Advisories
  /\ fatal' = TRUE
  /\ Sends(w, FALSE, Exited)
  /\ UNCHANGED <<declared, snapshot, progress, run, todo, open, fetched, failed, cancelled>>

Exit(w) ==
  /\ worker[w] = NoJob
  /\ ~open
  /\ worker' = [worker EXCEPT ![w] = Exited]
  /\ UNCHANGED <<declared, snapshot, progress, run, todo, open, fatal, results, fetched,
                 failed, cancelled>>

Worker(w) == Dispatch(w) \/ Fetch(w) \/ FetchIsFatal(w) \/ Exit(w)

Collect ==
  /\ \E r \in results :
       /\ results' = results \ {r}
       /\ IF r.ok
            THEN /\ fetched' = fetched \cup {r.id}
                 /\ progress' = [progress EXCEPT !.advisories = @ + 1,
                      !.completed = progress.packages + progress.advisories + 1]
                 /\ UNCHANGED failed
            ELSE failed' = failed + 1 /\ UNCHANGED <<fetched, progress>>
  /\ UNCHANGED <<declared, snapshot, run, todo, open, fatal, worker, cancelled>>

(* results is closed once every worker has ended.                          *)
CollectEnds ==
  /\ run.stage = "fetch"
  /\ ~open
  /\ \A w \in Workers : worker[w] = Exited
  /\ results = {}
  /\ run' = [run EXCEPT !.stage = "write"]
  /\ UNCHANGED <<declared, snapshot, progress, pool, cancelled>>

-----------------------------------------------------------------------------
(* writeAdvisorySnapshot replaces the file in one step.                    *)
Write ==
  /\ run.stage = "write"
  /\ snapshot' = [exists |-> TRUE, packages |-> run.packages, ids |-> fetched,
                  partial |-> failed > 0, fresh |-> TRUE]
  /\ run' = [run EXCEPT !.stage = "report"]
  /\ UNCHANGED <<declared, progress, pool, cancelled>>

WriteFails ==
  /\ run.stage = "write"
  /\ Fails
  /\ EmptyPool
  /\ UNCHANGED <<declared, snapshot, cancelled>>

Report ==
  /\ run.stage = "report"
  /\ LET left == Cardinality(run.ids) - progress.advisories
     IN  progress' = IF failed > 0
           THEN [progress EXCEPT !.state = "partial", !.failed = failed,
                   !.skipped = IF left > failed THEN left - failed ELSE 0,
                   !.completed = progress.packages + progress.advisories]
           ELSE [progress EXCEPT !.state = "complete", !.completed = progress.total]
  /\ run' = NoRun
  /\ EmptyPool
  /\ UNCHANGED <<declared, snapshot, cancelled>>

Refresh ==
  Query \/ QueryFails \/ StartFetch \/ CloseJobs \/ Collect \/ CollectEnds
    \/ Write \/ WriteFails \/ Report

Next ==
  \/ Redeclare \/ Expire \/ Shutdown \/ Restart
  \/ Request \/ Tick \/ Refresh
  \/ \E w \in Workers : Worker(w)

(* Every request to OSV has a deadline; the scheduler ticks every hour.    *)
Fairness ==
  /\ WF_vars(Tick)
  /\ WF_vars(Query \/ QueryFails) /\ WF_vars(StartFetch) /\ WF_vars(CloseJobs)
  /\ WF_vars(Collect) /\ WF_vars(CollectEnds) /\ WF_vars(Write \/ WriteFails) /\ WF_vars(Report)
  /\ \A w \in Workers : WF_vars(Worker(w))

Spec == Init /\ [][Next]_vars /\ Fairness

-----------------------------------------------------------------------------
(* buildFindings: what the snapshot allows an answer to say.               *)
SnapshotState ==
  IF ~snapshot.exists THEN "unavailable"
  ELSE IF snapshot.partial THEN "partial"
  ELSE IF ~snapshot.fresh THEN "stale" ELSE "ready"

-----------------------------------------------------------------------------
Snapshots == [exists : BOOLEAN, packages : SUBSET Packages, ids : SUBSET Advisories,
              partial : BOOLEAN, fresh : BOOLEAN]
Runs == [stage : {"none", "query", "fetch", "write", "report"}, packages : SUBSET Packages,
         pending : SUBSET Packages, ids : SUBSET Advisories]
States == {"idle", "running", "complete", "partial", "error"}

(* The type invariant; the progress says "running" while a run is there.   *)
TypeOK ==
  /\ declared \subseteq Packages
  /\ snapshot \in Snapshots
  /\ progress \in [state : States, total : Nat, completed : Nat, packages : Nat,
                   advisories : Nat, failed : Nat, skipped : Nat]
  /\ run \in Runs
  /\ todo \subseteq Advisories
  /\ open \in BOOLEAN /\ fatal \in BOOLEAN /\ cancelled \in BOOLEAN
  /\ worker \in [Workers -> Advisories \cup {NoJob, Exited}]
  /\ results \subseteq [id : Advisories, ok : BOOLEAN]
  /\ fetched \subseteq Advisories
  /\ failed \in Nat
  /\ progress.state = "running" <=> run.stage # "none"

(* fetchAdvisories: a snapshot that does not say "partial" has every       *)
(* advisory of its packages, whichever workers gave up, and when.          *)
CompleteIsWhole ==
  snapshot.exists /\ ~snapshot.partial => snapshot.ids = Advised(snapshot.packages)

(* Every refresh ends: neither the dispatcher nor a worker nor the         *)
(* collector waits for ever, whoever gives up first.                       *)
RefreshEnds == progress.state = "running" ~> progress.state # "running"

(* StartAdvisoryScheduler: a snapshot that has expired is asked for again. *)
ExpiredIsRefreshed ==
  snapshot.exists /\ ~snapshot.fresh ~> progress.state = "running" \/ cancelled

(* The comment of StartAdvisoryRefresh and docs/dependency-advisories.md:  *)
(* a refresh that fails leaves the previous complete snapshot.             *)
CompleteSurvives ==
  [][snapshot.exists /\ ~snapshot.partial => ~snapshot'.partial]_vars
=============================================================================
