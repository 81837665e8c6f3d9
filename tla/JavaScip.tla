------------------------------ MODULE JavaScip ------------------------------
(***************************************************************************)
(* The Java SCIP builder (scipjava.Service): its queue (Queue, next,       *)
(* finish), its workers (indexRepository), Retry, and the artifact store   *)
(* it publishes to (scipindex.Import), which every catalogue refresh       *)
(* sweeps (scipindex.Prune).                                               *)
(*                                                                         *)
(* Callers are the goroutines that call Queue: the observers of freshly    *)
(* indexed repositories and the requests that retry.  Every critical       *)
(* section, store call and build is one step.  The search index is seen    *)
(* through the row of each repository: the revision it was last set to     *)
(* and whether it is ready.                                                *)
(***************************************************************************)
EXTENDS Naturals, Sequences, FiniteSets

CONSTANTS Repositories,
          Commits,      \* revisions the search index can be set to
          Workers,      \* config.Concurrency goroutines
          Callers,      \* goroutines inside Queue or Retry at once (bound)
          Failures,     \* TRUE: store calls may fail
          MaxReindexes, \* bound on re-indexed revisions
          MaxRetries,   \* bound on retry requests
          MaxRestarts,  \* bound on process restarts
          MaxSweeps     \* bound on catalogue refreshes that prune

ASSUME WorkersAssumption == Workers # {} /\ IsFiniteSet(Workers)
ASSUME NamesAssumption == "none" \notin Repositories \cup Commits
ASSUME FailuresAssumption == Failures \in BOOLEAN
ASSUME BoundsAssumption ==
  /\ MaxReindexes \in Nat /\ MaxRetries \in Nat
  /\ MaxRestarts \in Nat /\ MaxSweeps \in Nat

VARIABLES
  source,    \* the row of each repository: [ready, revision]
  announced, \* repositories the coordinator has still to announce
  status,    \* the SCIP row: [state, revision, current]
  artifacts, \* the published files: <<repository, revision>>
  pending, queued, running, rerun, \* the fields under mu
  signal,    \* tokens buffered in the signal channel
  at,        \* step of each worker
  job,       \* what a worker read: [repo, revision, done]
  step,      \* step of each caller: "idle", "retry", "queue", "signal"
  call,      \* its argument: [repo, revision]
  sweep,     \* the list a refresh took for Prune, as a set of at most one
  stuck,     \* history: repositories whose last build lost a store call
  reindexes, retries, restarts, sweeps \* bounds

queue == <<pending, queued, running, rerun>>
workers == <<at, job>>
callers == <<step, call>>
bounds == <<reindexes, retries, restarts, sweeps>>
vars == <<source, announced, status, artifacts, pending, queued, running, rerun,
          signal, at, job, step, call, sweep, stuck, reindexes, retries,
          restarts, sweeps>>

-----------------------------------------------------------------------------
NoJob == [repo |-> "none", revision |-> "none", done |-> FALSE]
NoCall == [repo |-> "none", revision |-> "none"]
Capacity == Cardinality(Workers)

(* "over" stands for skipped, unavailable and failed: the build ended and  *)
(* published nothing.                                                      *)
Status(state, revision) ==
  [state |-> state, revision |-> revision, current |-> TRUE]

Done(r) ==
  /\ status[r].state = "ready"
  /\ status[r].revision = source[r].revision
  /\ status[r].current

-----------------------------------------------------------------------------
Init ==
  /\ source = [r \in Repositories |-> [ready |-> FALSE, revision |-> "none"]]
  /\ announced = {}
  /\ status = [r \in Repositories |-> Status("none", "none")]
  /\ artifacts = {}
  /\ pending = <<>>
  /\ queued = {} /\ running = {} /\ rerun = {}
  /\ signal = 0
  /\ at = [w \in Workers |-> "next"]
  /\ job = [w \in Workers |-> NoJob]
  /\ step = [c \in Callers |-> "idle"]
  /\ call = [c \in Callers |-> NoCall]
  /\ sweep = {}
  /\ stuck = {}
  /\ reindexes = 0 /\ retries = 0 /\ restarts = 0 /\ sweeps = 0

-----------------------------------------------------------------------------
(* The search index, as this service sees it                               *)

(* The index moves on: MarkIndexing sets the revision, a synchronisation   *)
(* only takes the ready state away.                                        *)
Reindex(r, c) ==
  /\ reindexes < MaxReindexes
  /\ reindexes' = reindexes + 1
  /\ source' = [source EXCEPT ![r] = [ready |-> FALSE, revision |-> c]]
  /\ UNCHANGED <<announced, status, artifacts, queue, signal, workers, callers,
                 sweep, stuck, retries, restarts, sweeps>>

(* The row becomes ready; from then on the coordinator owes the observer   *)
(* an announcement.                                                        *)
IndexReady(r) ==
  /\ ~source[r].ready
  /\ source[r].revision # "none"
  /\ source' = [source EXCEPT ![r].ready = TRUE]
  /\ announced' = announced \cup {r}
  /\ UNCHANGED <<status, artifacts, queue, signal, workers, callers, sweep,
                 stuck, bounds>>

(* The process ends and starts again, perhaps with another producer        *)
(* configuration.  Start announces the repositories that are ready.        *)
Restart(reconfigured) ==
  /\ restarts < MaxRestarts
  /\ restarts' = restarts + 1
  /\ announced' = {r \in Repositories : source[r].ready}
  /\ status' = IF reconfigured
                 THEN [r \in Repositories |->
                         [status[r] EXCEPT !.current = FALSE]]
                 ELSE status
  /\ pending' = <<>>
  /\ queued' = {} /\ running' = {} /\ rerun' = {}
  /\ signal' = 0
  /\ at' = [w \in Workers |-> "next"]
  /\ job' = [w \in Workers |-> NoJob]
  /\ step' = [c \in Callers |-> "idle"]
  /\ call' = [c \in Callers |-> NoCall]
  /\ sweep' = {}
  /\ stuck' = {}
  /\ UNCHANGED <<source, artifacts, reindexes, retries, sweeps>>

-----------------------------------------------------------------------------
(* Callers *)

GotoCaller(c, s, r, v) ==
  /\ step' = [step EXCEPT ![c] = s]
  /\ call' = [call EXCEPT ![c] = [repo |-> r, revision |-> v]]
GoIdle(c) ==
  /\ step' = [step EXCEPT ![c] = "idle"]
  /\ call' = [call EXCEPT ![c] = NoCall]

(* The observer of the coordinator is handed a repository.                 *)
Observe(c, r) ==
  /\ step[c] = "idle"
  /\ r \in announced
  /\ announced' = announced \ {r}
  /\ GotoCaller(c, "queue", r, "none")
  /\ UNCHANGED <<source, status, artifacts, queue, signal, workers, sweep,
                 stuck, bounds>>

(* Retry reads the repository, which has to be ready,                      *)
RetryRead(c, r) ==
  /\ step[c] = "idle"
  /\ retries < MaxRetries
  /\ retries' = retries + 1
  /\ source[r].ready
  /\ GotoCaller(c, "retry", r, source[r].revision)
  /\ UNCHANGED <<source, announced, status, artifacts, queue, signal, workers,
                 sweep, stuck, reindexes, restarts, sweeps>>

(* records it as pending, not holding mu, and calls Queue,                 *)
RetryWrite(c, r) ==
  /\ step[c] = "retry"
  /\ call[c].repo = r
  /\ status' = [status EXCEPT ![r] = Status("pending", call[c].revision)]
  /\ GotoCaller(c, "queue", r, "none")
  /\ UNCHANGED <<source, announced, artifacts, queue, signal, workers, sweep,
                 stuck, bounds>>

(* or reports that it could not.                                           *)
RetryFails(c) ==
  /\ Failures
  /\ step[c] = "retry"
  /\ GoIdle(c)
  /\ UNCHANGED <<source, announced, status, artifacts, queue, signal, workers,
                 sweep, stuck, bounds>>

(* Queue of a repository that is already in the list.                      *)
QueueAgain(c, r) ==
  /\ step[c] = "queue"
  /\ call[c].repo = r
  /\ r \in queued
  /\ GoIdle(c)
  /\ UNCHANGED <<source, announced, status, artifacts, queue, signal, workers,
                 sweep, stuck, bounds>>

\* Mutants of IsRunning and Requested.
ForgetsRunning(r) == r \in rerun
DropsRequest(r) == rerun

IsRunning(r) == r \in running
Requested(r) == rerun \cup {r}

(* Queue of a repository a worker builds: it is to run once more.          *)
QueueRunning(c, r) ==
  /\ step[c] = "queue"
  /\ call[c].repo = r
  /\ r \notin queued
  /\ IsRunning(r)
  /\ rerun' = Requested(r)
  /\ GoIdle(c)
  /\ UNCHANGED <<source, announced, status, artifacts, pending, queued, running,
                 signal, workers, sweep, stuck, bounds>>

(* Queue of any other repository: it joins the list, and its row says so   *)
(* if there is something to build.                                         *)
QueueNew(c, r) ==
  /\ step[c] = "queue"
  /\ call[c].repo = r
  /\ r \notin queued
  /\ ~IsRunning(r)
  /\ queued' = queued \cup {r}
  /\ pending' = Append(pending, r)
  /\ \/ /\ source[r].ready /\ ~Done(r)
        /\ status' = [status EXCEPT ![r] = Status("pending", source[r].revision)]
     \/ /\ ~source[r].ready \/ Done(r) \/ Failures
        /\ UNCHANGED status
  /\ GotoCaller(c, "signal", "none", "none")
  /\ UNCHANGED <<source, announced, artifacts, running, rerun, signal, workers,
                 sweep, stuck, bounds>>

(* A send on the signal channel that gives up when the buffer is full.     *)
Sent(s) == IF s < Capacity THEN s + 1 ELSE s

QueueSignal(c) ==
  /\ step[c] = "signal"
  /\ signal' = Sent(signal)
  /\ GoIdle(c)
  /\ UNCHANGED <<source, announced, status, artifacts, queue, workers, sweep,
                 stuck, bounds>>

-----------------------------------------------------------------------------
(* Workers *)

Goto(w, s) == at' = [at EXCEPT ![w] = s]
WorkerFrame ==
  UNCHANGED <<source, announced, callers, sweep, bounds>>

(* next: take the head of the list, or go and wait.                        *)
TakeNext(w) ==
  /\ at[w] = "next"
  /\ pending # <<>>
  /\ pending' = Tail(pending)
  /\ queued' = queued \ {Head(pending)}
  /\ running' = running \cup {Head(pending)}
  /\ job' = [job EXCEPT ![w] =
               [repo |-> Head(pending), revision |-> "none", done |-> FALSE]]
  /\ Goto(w, "read")
  /\ UNCHANGED <<status, artifacts, rerun, signal, stuck>>
  /\ WorkerFrame

Idle(w) ==
  /\ at[w] = "next"
  /\ pending = <<>>
  /\ Goto(w, "wait")
  /\ UNCHANGED <<status, artifacts, queue, signal, job, stuck>>
  /\ WorkerFrame

Wake(w) ==
  /\ at[w] = "wait"
  /\ signal > 0
  /\ signal' = signal - 1
  /\ Goto(w, "next")
  /\ UNCHANGED <<status, artifacts, queue, job, stuck>>
  /\ WorkerFrame

(* indexRepository reads the row once; a repository that is not ready has  *)
(* nothing to build.                                                       *)
ReadRepository(w) ==
  /\ at[w] = "read"
  /\ \E r \in {job[w].repo} :
       /\ job' = [job EXCEPT ![w] = [repo |-> r, revision |-> source[r].revision,
                                     done |-> Done(r)]]
       /\ stuck' = stuck \ {r}
       /\ Goto(w, IF source[r].ready THEN "check" ELSE "finish")
  /\ UNCHANGED <<status, artifacts, queue, signal>>
  /\ WorkerFrame

Built(w) == <<job[w].repo, job[w].revision>> \in artifacts

(* The artifact of this revision exists already.                           *)
Unchanged(w) ==
  /\ at[w] = "check"
  /\ job[w].done
  /\ Built(w)
  /\ Goto(w, "finish")
  /\ UNCHANGED <<status, artifacts, queue, signal, job, stuck>>
  /\ WorkerFrame

(* UpdateSCIPIndexStatus by a worker, which goes on to s.                  *)
Record(w, state, s) ==
  /\ status' = [status EXCEPT ![job[w].repo] = Status(state, job[w].revision)]
  /\ Goto(w, s)
  /\ UNCHANGED <<artifacts, queue, signal, job, stuck>>
  /\ WorkerFrame

(* Not a Gradle build, no producer, no JDK, or the build failed.           *)
RecordOver(w) == at[w] \in {"check", "failed"} /\ Record(w, "over", "finish")

RecordIndexing(w) ==
  /\ at[w] = "check"
  /\ ~(job[w].done /\ Built(w))
  /\ Record(w, "indexing", "build")

RecordReady(w) == at[w] = "built" /\ Record(w, "ready", "finish")

(* Import: publish the artifact, then remove those it supersedes.          *)
Import(w) ==
  /\ at[w] = "build"
  /\ artifacts' = {a \in artifacts : a[1] # job[w].repo}
                    \cup {<<job[w].repo, job[w].revision>>}
  /\ Goto(w, "built")
  /\ UNCHANGED <<status, queue, signal, job, stuck>>
  /\ WorkerFrame

BuildFails(w) ==
  /\ at[w] = "build"
  /\ Goto(w, "failed")
  /\ UNCHANGED <<status, artifacts, queue, signal, job, stuck>>
  /\ WorkerFrame

(* A store call of indexRepository fails: the error is logged.             *)
StoreFails(w) ==
  /\ Failures
  /\ at[w] \in {"read", "check", "built", "failed"}
  /\ stuck' = stuck \cup {job[w].repo}
  /\ Goto(w, "finish")
  /\ UNCHANGED <<status, artifacts, queue, signal, job>>
  /\ WorkerFrame

(* finish: a repository asked for meanwhile goes back to the list.         *)
FinishAgain(w) ==
  /\ at[w] = "finish"
  /\ job[w].repo \in rerun
  /\ running' = running \ {job[w].repo}
  /\ rerun' = rerun \ {job[w].repo}
  /\ queued' = queued \cup {job[w].repo}
  /\ pending' = Append(pending, job[w].repo)
  /\ job' = [job EXCEPT ![w] = NoJob]
  /\ Goto(w, "signal")
  /\ UNCHANGED <<status, artifacts, signal, stuck>>
  /\ WorkerFrame

FinishSignal(w) ==
  /\ at[w] = "signal"
  /\ signal' = Sent(signal)
  /\ Goto(w, "next")
  /\ UNCHANGED <<status, artifacts, queue, job, stuck>>
  /\ WorkerFrame

Finish(w) ==
  /\ at[w] = "finish"
  /\ job[w].repo \notin rerun
  /\ running' = running \ {job[w].repo}
  /\ job' = [job EXCEPT ![w] = NoJob]
  /\ Goto(w, "next")
  /\ UNCHANGED <<status, artifacts, pending, queued, rerun, signal, stuck>>
  /\ WorkerFrame

-----------------------------------------------------------------------------
(* The garbage collector of a catalogue refresh *)

Listed == {<<r, source[r].revision>> : r \in Repositories}

(* Refresh lists the repositories; it sweeps the search shards, waiting    *)
(* for the index lock, before it calls Prune with that list.               *)
ListForPrune ==
  /\ sweep = {}
  /\ sweeps < MaxSweeps
  /\ sweeps' = sweeps + 1
  /\ sweep' = {Listed}
  /\ UNCHANGED <<source, announced, status, artifacts, queue, signal, workers,
                 callers, stuck, reindexes, retries, restarts>>

Prune ==
  /\ \E keep \in sweep : artifacts' = artifacts \cap keep
  /\ sweep' = {}
  /\ UNCHANGED <<source, announced, status, queue, signal, workers, callers,
                 stuck, bounds>>

-----------------------------------------------------------------------------
CallerStep(c) ==
  \/ \E r \in Repositories :
       \/ Observe(c, r) \/ RetryWrite(c, r)
       \/ QueueAgain(c, r) \/ QueueRunning(c, r) \/ QueueNew(c, r)
  \/ QueueSignal(c)

WorkerStep(w) ==
  \/ TakeNext(w) \/ Idle(w) \/ Wake(w) \/ ReadRepository(w) \/ Unchanged(w)
  \/ RecordOver(w) \/ RecordIndexing(w) \/ RecordReady(w) \/ Import(w)
  \/ BuildFails(w) \/ FinishAgain(w) \/ FinishSignal(w) \/ Finish(w)

Next ==
  \/ \E r \in Repositories, c \in Commits : Reindex(r, c)
  \/ \E r \in Repositories : IndexReady(r)
  \/ \E reconfigured \in BOOLEAN : Restart(reconfigured)
  \/ \E c \in Callers, r \in Repositories : RetryRead(c, r)
  \/ \E c \in Callers : CallerStep(c) \/ RetryFails(c)
  \/ \E w \in Workers : WorkerStep(w) \/ StoreFails(w)
  \/ ListForPrune \/ Prune

Spec == Init /\ [][Next]_vars

(* Workers, observers and requests in progress are scheduled; builds are   *)
(* bounded by the configured timeout.                                      *)
FairSpec ==
  /\ Spec
  /\ \A c \in Callers : WF_vars(CallerStep(c))
  /\ \A w \in Workers : WF_vars(WorkerStep(w))

-----------------------------------------------------------------------------
Steps == {"next", "wait", "read", "check", "build", "built", "failed", "finish",
          "signal"}
Busy(w) == at[w] \in {"read", "check", "build", "built", "failed", "finish"}

TypeOK ==
  /\ source \in [Repositories -> [ready : BOOLEAN, revision : Commits \cup {"none"}]]
  /\ announced \subseteq Repositories
  /\ status \in [Repositories ->
       [state : {"none", "pending", "indexing", "ready", "over"},
        revision : Commits \cup {"none"}, current : BOOLEAN]]
  /\ artifacts \subseteq Repositories \X (Commits \cup {"none"})
  /\ pending \in Seq(Repositories)
  /\ queued \subseteq Repositories
  /\ running \subseteq Repositories
  /\ rerun \subseteq running
  /\ signal \in 0..Capacity
  /\ at \in [Workers -> Steps]
  /\ job \in [Workers -> [repo : Repositories \cup {"none"},
                          revision : Commits \cup {"none"}, done : BOOLEAN]]
  /\ step \in [Callers -> {"idle", "retry", "queue", "signal"}]
  /\ call \in [Callers -> [repo : Repositories \cup {"none"},
                           revision : Commits \cup {"none"}]]
  /\ sweep \subseteq SUBSET (Repositories \X (Commits \cup {"none"}))
  /\ stuck \subseteq Repositories
  /\ reindexes \in 0..MaxReindexes /\ retries \in 0..MaxRetries
  /\ restarts \in 0..MaxRestarts /\ sweeps \in 0..MaxSweeps

(* Two builds of one repository never run at once: the workers' jobs are   *)
(* distinct and running holds exactly them; nothing that runs is listed,   *)
(* and the list and its set agree without a duplicate (Queue, next,        *)
(* finish).                                                                *)
OneBuildPerRepository ==
  /\ running = {job[w].repo : w \in {v \in Workers : Busy(v)}}
  /\ \A v, w \in Workers : Busy(v) /\ Busy(w) /\ job[v].repo = job[w].repo => v = w
  /\ queued \cap running = {}
  /\ queued = {pending[i] : i \in 1..Len(pending)}
  /\ \A i, j \in 1..Len(pending) : pending[i] = pending[j] => i = j

(* While the list is not empty, somebody is on the way to it or a token is *)
(* buffered, so no worker sleeps on listed work.                           *)
NoLostWakeup ==
  pending # <<>> =>
    \/ signal > 0
    \/ \E w \in Workers : at[w] # "wait"
    \/ \E c \in Callers : step[c] = "signal"

(* What is still on its way for a repository.                              *)
Owed(r) ==
  \/ r \in announced \cup queued \cup running
  \/ \E c \in Callers : step[c] = "queue" /\ call[c].repo = r

Settled(r) ==
  /\ status[r].state \in {"ready", "over"}
  /\ status[r].revision = source[r].revision
  /\ status[r].current

(* The queue is lossless: when nothing is on its way for a repository that *)
(* is ready, its SCIP row is final, for exactly the indexed revision and   *)
(* the configured producer, whatever re-indexing, retry or restart crossed *)
(* the build.  Only a failed store call can leave it otherwise.            *)
SettledIsCurrent ==
  \A r \in Repositories : source[r].ready => Owed(r) \/ r \in stuck \/ Settled(r)

(* Every repository whose index is ready settles, or its index moves on,   *)
(* unless a store call failed on the way.                                  *)
EventuallySettled ==
  \A r \in Repositories :
    source[r].ready ~> (Settled(r) \/ ~source[r].ready \/ r \in stuck)

(* The comment of Prune: "Current artifacts [...] are preserved": the      *)
(* artifact of a row that is ready for the indexed revision exists.        *)
CurrentArtifactsPreserved ==
  \A r \in Repositories :
    source[r].ready /\ Done(r) => <<r, source[r].revision>> \in artifacts

(* The queue promises what every background queue promises (WorkQueue),    *)
(* and what it owes is what is listed and what is to run once more: a call *)
(* of Queue leaves its repository in one of the two, whatever a worker     *)
(* does with it just then; no two workers build one repository at once;    *)
(* and only a restart forgets a request.                                   *)
Asking ==
  [c \in Callers |-> IF step[c] = "queue" THEN {call[c].repo} ELSE {}]
Outstanding == queued \cup rerun
Holding == [w \in Workers |-> IF Busy(w) THEN {job[w].repo} ELSE {}]

Q == INSTANCE WorkQueue WITH
       Items <- Repositories, Exclusive <- TRUE,
       asked <- Asking, owed <- Outstanding, busy <- Holding, starts <- restarts

ImplementsWorkQueue == Q!Spec
=============================================================================
