----------------------------- MODULE QueueProofs -----------------------------
(***************************************************************************)
(* Proofs about the bounded queues: the Java SCIP builder (JavaScip), the  *)
(* derived-index queue (DerivedQueue, as D) and the batches of telemetry   *)
(* (TelemetryBatch, as T), for every set of repositories, revisions and    *)
(* callers and every finite set of workers, with and without failures.     *)
(***************************************************************************)
EXTENDS JavaScip, FiniteSetTheorems, TLAPS

CONSTANTS Producers, SignalCapacity,                            \* DerivedQueue
          Emitters, Flushers, Stopper, SpanCapacity, Batch, MaxSpans \* TelemetryBatch
VARIABLES indexedPending, indexedQueued, indexedSignal, cancelled, producer, wanted, worker, holding,
          stopped, channel, batch, depth, dropped, failed, exported, ended, entered,
          emitter, exporting, purpose, caller

D == INSTANCE DerivedQueue
       WITH pending <- indexedPending, queued <- indexedQueued, signal <- indexedSignal
T == INSTANCE TelemetryBatch
       WITH Producers <- Emitters, Capacity <- SpanCapacity, queue <- channel,
            pending <- entered, producer <- emitter, worker <- exporting

(* What DerivedQueue and TelemetryBatch assume of their constants.         *)
Buffered == SignalCapacity \in Nat \ {0}
Sized ==
  /\ IsFiniteSet(Emitters) /\ Stopper \notin Flushers
  /\ SpanCapacity \in Nat \ {0} /\ Batch \in Nat \ {0} /\ MaxSpans \in Nat

-----------------------------------------------------------------------------
(* A list kept beside the set of its members, the idiom of both queues     *)
(* (indexedPending and indexedQueued, pending and queued).                 *)
(* A list and a set agree: same members, none twice.                       *)
Agree(s, q) ==
  /\ q = {s[i] : i \in 1..Len(s)}
  /\ \A i, j \in 1..Len(s) : s[i] = s[j] => i = j

(* Appending a new element keeps them agreeing (queueIndexed, Queue).      *)
LEMMA AgreeAppend ==
  ASSUME NEW S, NEW s \in Seq(S), NEW q, NEW x \in S, Agree(s, q), x \notin q
  PROVE  Agree(Append(s, x), q \cup {x})
<1> DEFINE t == Append(s, x)
<1>1. /\ t \in Seq(S)
      /\ Len(t) = Len(s) + 1
      /\ \A i \in 1..Len(s) : t[i] = s[i]
      /\ t[Len(s) + 1] = x
      /\ Len(s) \in Nat
  OBVIOUS
<1>2. 1..Len(t) = 1..Len(s) \cup {Len(s) + 1}
  BY <1>1
<1>3. \A i \in 1..Len(s) : t[i] # x
  BY <1>1 DEF Agree
<1> HIDE DEF t
<1>4. q \cup {x} = {t[i] : i \in 1..Len(t)}
  BY <1>1, <1>2 DEF Agree
<1>5. \A i, j \in 1..Len(t) : t[i] = t[j] => i = j
  BY <1>1, <1>2, <1>3 DEF Agree
<1>6. QED
  BY <1>4, <1>5 DEF Agree, t

(* So does removing the head from both (nextIndexed, next).                *)
LEMMA AgreeTail ==
  ASSUME NEW S, NEW s \in Seq(S), NEW q, Agree(s, q), s # <<>>
  PROVE  /\ Head(s) \in q
         /\ Agree(Tail(s), q \ {Head(s)})
<1> DEFINE t == Tail(s)
<1>1. /\ t \in Seq(S)
      /\ Len(t) = Len(s) - 1
      /\ \A i \in 1..Len(t) : t[i] = s[i + 1]
      /\ Head(s) = s[1]
      /\ Len(s) \in Nat \ {0}
  OBVIOUS
<1>2. Head(s) \in q
  BY <1>1 DEF Agree
<1> HIDE DEF t
<1>3. \A i, j \in 1..Len(t) : t[i] = t[j] => i = j
  <2> SUFFICES ASSUME NEW i \in 1..Len(t), NEW j \in 1..Len(t), t[i] = t[j]
               PROVE  i = j
    OBVIOUS
  <2>1. i + 1 \in 1..Len(s) /\ j + 1 \in 1..Len(s) /\ s[i + 1] = s[j + 1]
    BY <1>1
  <2>2. i + 1 = j + 1
    BY <2>1 DEF Agree
  <2>3. QED
    BY <2>2, <1>1
<1>4. q \ {Head(s)} = {t[i] : i \in 1..Len(t)}
  <2>1. ASSUME NEW y \in q, y # Head(s) PROVE \E i \in 1..Len(t) : y = t[i]
    <3>1. PICK k \in 1..Len(s) : y = s[k]
      BY DEF Agree
    <3>2. k # 1 /\ k - 1 \in 1..Len(t) /\ t[k - 1] = s[(k - 1) + 1] /\ (k - 1) + 1 = k
      BY <3>1, <2>1, <1>1
    <3>3. QED
      BY <3>1, <3>2
  <2>2. ASSUME NEW i \in 1..Len(t) PROVE t[i] \in q /\ t[i] # Head(s)
    <3>1. i + 1 \in 1..Len(s) /\ 1 \in 1..Len(s) /\ i + 1 # 1 /\ t[i] = s[i + 1]
      BY <1>1
    <3>2. s[i + 1] \in q /\ s[i + 1] # s[1]
      BY <3>1 DEF Agree
    <3>3. QED
      BY <3>1, <3>2, <1>1
  <2>3. QED
    BY <2>1, <2>2
<1>5. QED
  BY <1>2, <1>3, <1>4 DEF Agree, t

-----------------------------------------------------------------------------
(* JavaScip.                                                               *)
(* TypeOK is not inductive: a worker that builds has to have a repository. *)
Works == \A w \in Workers : Busy(w) => job[w].repo \in Repositories
Typed == TypeOK /\ Works

LEMMA CapacityNat == Capacity \in Nat
  BY WorkersAssumption, FS_CardinalityType DEF Capacity

LEMMA TypedInit == Init => Typed
<1> SUFFICES ASSUME Init PROVE Typed
  OBVIOUS
<1>1. Works
  BY DEF Init, Works, Busy
<1>2. /\ source \in [Repositories -> [ready : BOOLEAN, revision : Commits \cup {"none"}]]
      /\ announced \subseteq Repositories
      /\ artifacts \subseteq Repositories \X (Commits \cup {"none"})
      /\ pending \in Seq(Repositories)
      /\ queued \subseteq Repositories
      /\ running \subseteq Repositories
      /\ rerun \subseteq running
      /\ stuck \subseteq Repositories
  BY DEF Init
<1>3. status \in [Repositories ->
       [state : {"none", "pending", "indexing", "ready", "over"},
        revision : Commits \cup {"none"}, current : BOOLEAN]]
  BY DEF Init, Status
<1>4. /\ at \in [Workers -> Steps]
      /\ job \in [Workers -> [repo : Repositories \cup {"none"},
                          revision : Commits \cup {"none"}, done : BOOLEAN]]
  BY DEF Init, Steps, NoJob
<1>5. /\ step \in [Callers -> {"idle", "retry", "queue", "signal"}]
      /\ call \in [Callers -> [repo : Repositories \cup {"none"},
                           revision : Commits \cup {"none"}]]
      /\ sweep \subseteq SUBSET (Repositories \X (Commits \cup {"none"}))
  BY DEF Init, NoCall
<1>6. /\ signal \in 0..Capacity
      /\ reindexes \in 0..MaxReindexes /\ retries \in 0..MaxRetries
      /\ restarts \in 0..MaxRestarts /\ sweeps \in 0..MaxSweeps
  BY CapacityNat, BoundsAssumption DEF Init
<1>7. QED
  BY <1>1, <1>2, <1>3, <1>4, <1>5, <1>6 DEF Typed, TypeOK

LEMMA TypedNext == Typed /\ [Next]_vars => Typed'
<1> SUFFICES ASSUME Typed, [Next]_vars PROVE Typed'
  OBVIOUS
<1> USE CapacityNat, BoundsAssumption DEF Typed, TypeOK, Works, Busy, Steps
<1>1. ASSUME NEW r \in Repositories, NEW v \in Commits, Reindex(r, v) PROVE Typed'
  BY <1>1 DEF Reindex, bounds, queue, workers, callers
<1>2. ASSUME NEW r \in Repositories, IndexReady(r) PROVE Typed'
  <2>1. source' \in [Repositories -> [ready : BOOLEAN, revision : Commits \cup {"none"}]]
    <3>1. [source[r] EXCEPT !.ready = TRUE] \in
            [ready : BOOLEAN, revision : Commits \cup {"none"}]
      <4>1. source[r] \in [ready : BOOLEAN, revision : Commits \cup {"none"}]
        OBVIOUS
      <4> HIDE DEF Typed, TypeOK, Works
      <4>2. QED
        BY <4>1
    <3>2. QED
      BY <1>2, <3>1 DEF IndexReady
  <2>2. announced' \subseteq Repositories
    BY <1>2 DEF IndexReady
  <2>3. QED
    BY <1>2, <2>1, <2>2 DEF IndexReady, bounds, queue, workers, callers
<1>3. ASSUME NEW reconfigured \in BOOLEAN, Restart(reconfigured) PROVE Typed'
  <2>1. status' \in [Repositories ->
       [state : {"none", "pending", "indexing", "ready", "over"},
        revision : Commits \cup {"none"}, current : BOOLEAN]]
    <3>1. \A r \in Repositories : [status[r] EXCEPT !.current = FALSE] \in
            [state : {"none", "pending", "indexing", "ready", "over"},
             revision : Commits \cup {"none"}, current : BOOLEAN]
      <4> TAKE r \in Repositories
      <4>1. status[r] \in
              [state : {"none", "pending", "indexing", "ready", "over"},
               revision : Commits \cup {"none"}, current : BOOLEAN]
        OBVIOUS
      <4> HIDE DEF Typed, TypeOK, Works
      <4>2. QED
        BY <4>1
    <3>2. CASE reconfigured
      BY <1>3, <3>1, <3>2 DEF Restart
    <3>3. CASE ~reconfigured
      BY <1>3, <3>3 DEF Restart
    <3>4. QED
      BY <3>2, <3>3
  <2>2. /\ announced' \subseteq Repositories
        /\ pending' \in Seq(Repositories)
        /\ queued' \subseteq Repositories
        /\ running' \subseteq Repositories
        /\ rerun' \subseteq running'
        /\ sweep' \subseteq SUBSET (Repositories \X (Commits \cup {"none"}))
        /\ stuck' \subseteq Repositories
        /\ signal' \in 0..Capacity
        /\ restarts' \in 0..MaxRestarts
    BY <1>3 DEF Restart
  <2>3. /\ at' \in [Workers -> Steps]
        /\ job' \in [Workers -> [repo : Repositories \cup {"none"},
                          revision : Commits \cup {"none"}, done : BOOLEAN]]
        /\ Works'
    BY <1>3 DEF Restart, NoJob
  <2>4. /\ step' \in [Callers -> {"idle", "retry", "queue", "signal"}]
        /\ call' \in [Callers -> [repo : Repositories \cup {"none"},
                           revision : Commits \cup {"none"}]]
    BY <1>3 DEF Restart, NoCall
  <2>5. UNCHANGED <<source, artifacts, reindexes, retries, sweeps>>
    BY <1>3 DEF Restart
  <2>6. QED
    BY <2>1, <2>2, <2>3, <2>4, <2>5
<1>4. ASSUME NEW c \in Callers, NEW r \in Repositories, RetryRead(c, r) PROVE Typed'
  BY <1>4 DEF RetryRead, GotoCaller, bounds, queue, workers, callers
<1>5. ASSUME NEW c \in Callers, NEW r \in Repositories, Observe(c, r) PROVE Typed'
  BY <1>5 DEF Observe, GotoCaller, bounds, queue, workers, callers
<1>6. ASSUME NEW c \in Callers, NEW r \in Repositories, RetryWrite(c, r) PROVE Typed'
  BY <1>6 DEF RetryWrite, GotoCaller, Status, bounds, queue, workers, callers
<1>7. ASSUME NEW c \in Callers, NEW r \in Repositories, QueueAgain(c, r) PROVE Typed'
  BY <1>7 DEF QueueAgain, GoIdle, NoCall, bounds, queue, workers, callers
<1>8. ASSUME NEW c \in Callers, NEW r \in Repositories, QueueRunning(c, r) PROVE Typed'
  BY <1>8 DEF QueueRunning, IsRunning, Requested, GoIdle, NoCall, bounds, queue, workers, callers
<1>9. ASSUME NEW c \in Callers, NEW r \in Repositories, QueueNew(c, r) PROVE Typed'
  <2>1. status' \in [Repositories ->
       [state : {"none", "pending", "indexing", "ready", "over"},
        revision : Commits \cup {"none"}, current : BOOLEAN]]
    <3>1. \/ status' = [status EXCEPT ![r] = Status("pending", source[r].revision)]
          \/ status' = status
      BY <1>9, Zenon DEF QueueNew
    <3>2. Status("pending", source[r].revision) \in
            [state : {"none", "pending", "indexing", "ready", "over"},
             revision : Commits \cup {"none"}, current : BOOLEAN]
      BY DEF Status
    <3>3. QED
      BY <3>1, <3>2
  <2>2. /\ pending' \in Seq(Repositories)
        /\ queued' \subseteq Repositories
    BY <1>9 DEF QueueNew
  <2>3. /\ step' \in [Callers -> {"idle", "retry", "queue", "signal"}]
        /\ call' \in [Callers -> [repo : Repositories \cup {"none"},
                           revision : Commits \cup {"none"}]]
    BY <1>9 DEF QueueNew, GotoCaller
  <2>4. UNCHANGED <<source, announced, artifacts, running, rerun, signal, at, job,
                    sweep, stuck, reindexes, retries, restarts, sweeps>>
    BY <1>9 DEF QueueNew, bounds, workers
  <2>5. QED
    BY <2>1, <2>2, <2>3, <2>4
<1>10. ASSUME NEW c \in Callers, QueueSignal(c) PROVE Typed'
  BY <1>10 DEF QueueSignal, Sent, GoIdle, NoCall, bounds, queue, workers, callers
<1>11. ASSUME NEW c \in Callers, RetryFails(c) PROVE Typed'
  BY <1>11 DEF RetryFails, GoIdle, NoCall, bounds, queue, workers, callers
<1>12. ASSUME NEW w \in Workers, TakeNext(w) PROVE Typed'
  BY <1>12 DEF TakeNext, Goto, WorkerFrame, bounds, queue, workers, callers
<1>13. ASSUME NEW w \in Workers, Idle(w) PROVE Typed'
  BY <1>13 DEF Idle, Goto, WorkerFrame, bounds, queue, workers, callers
<1>14. ASSUME NEW w \in Workers, Wake(w) PROVE Typed'
  BY <1>14 DEF Wake, Goto, WorkerFrame, bounds, queue, workers, callers
<1>15. ASSUME NEW w \in Workers, ReadRepository(w) PROVE Typed'
  BY <1>15 DEF ReadRepository, Done, Goto, WorkerFrame, bounds, queue, workers, callers
<1>16. ASSUME NEW w \in Workers, Unchanged(w) PROVE Typed'
  BY <1>16 DEF Unchanged, Goto, WorkerFrame, bounds, queue, workers, callers
<1>17. ASSUME NEW w \in Workers, RecordOver(w) PROVE Typed'
  BY <1>17 DEF RecordOver, Record, Status, Goto, WorkerFrame, bounds, queue, workers, callers
<1>18. ASSUME NEW w \in Workers, RecordIndexing(w) PROVE Typed'
  BY <1>18 DEF RecordIndexing, Record, Status, Goto, WorkerFrame, bounds, queue, workers, callers
<1>19. ASSUME NEW w \in Workers, RecordReady(w) PROVE Typed'
  BY <1>19 DEF RecordReady, Record, Status, Goto, WorkerFrame, bounds, queue, workers, callers
<1>20. ASSUME NEW w \in Workers, Import(w) PROVE Typed'
  BY <1>20 DEF Import, Goto, WorkerFrame, bounds, queue, workers, callers
<1>21. ASSUME NEW w \in Workers, BuildFails(w) PROVE Typed'
  BY <1>21 DEF BuildFails, Goto, WorkerFrame, bounds, queue, workers, callers
<1>22. ASSUME NEW w \in Workers, StoreFails(w) PROVE Typed'
  BY <1>22 DEF StoreFails, Goto, WorkerFrame, bounds, queue, workers, callers
<1>23. ASSUME NEW w \in Workers, FinishAgain(w) PROVE Typed'
  BY <1>23 DEF FinishAgain, NoJob, Goto, WorkerFrame, bounds, queue, workers, callers
<1>24. ASSUME NEW w \in Workers, FinishSignal(w) PROVE Typed'
  BY <1>24 DEF FinishSignal, Sent, Goto, WorkerFrame, bounds, queue, workers, callers
<1>25. ASSUME NEW w \in Workers, Finish(w) PROVE Typed'
  BY <1>25 DEF Finish, NoJob, Goto, WorkerFrame, bounds, queue, workers, callers
<1>26. CASE ListForPrune
  BY <1>26 DEF ListForPrune, Listed, bounds, queue, workers, callers
<1>27. CASE Prune
  BY <1>27 DEF Prune, bounds, queue, workers, callers
<1>28. CASE UNCHANGED vars
  BY <1>28 DEF vars
<1> QED
  BY <1>1, <1>2, <1>3, <1>4, <1>5, <1>6, <1>7, <1>8, <1>9, <1>10, <1>11, <1>12, <1>13, <1>14, <1>15, <1>16, <1>17, <1>18, <1>19, <1>20, <1>21, <1>22, <1>23, <1>24, <1>25, <1>26, <1>27, <1>28
  DEF Next, CallerStep, WorkerStep

(* Every reachable state of the Java SCIP builder is well typed.           *)
THEOREM TypeCorrect == Spec => []TypeOK
<1>1. Typed => TypeOK
  BY DEF Typed
<1>2. QED
  BY <1>1, TypedInit, TypedNext, PTL DEF Spec

-----------------------------------------------------------------------------
(* The inductive form of OneBuildPerRepository.                            *)
Building ==
  /\ \A w \in Workers : Busy(w) => job[w].repo \in running
  /\ \A r \in running : \E w \in Workers : Busy(w) /\ job[w].repo = r
  /\ \A v, w \in Workers : Busy(v) /\ Busy(w) /\ job[v].repo = job[w].repo => v = w
Queueing ==
  /\ queued \cap running = {}
  /\ Agree(pending, queued)
Separate == Building /\ Queueing

LEMMA SeparateInit == Init => Separate
  BY DEF Init, Separate, Building, Queueing, Agree, Busy

LEMMA SeparateNext == Typed /\ Separate /\ [Next]_vars => Separate'
<1> SUFFICES ASSUME Typed, Separate, [Next]_vars PROVE Separate'
  OBVIOUS
<1>1. /\ at \in [Workers -> Steps]
      /\ job \in [Workers -> [repo : Repositories \cup {"none"},
                              revision : Commits \cup {"none"}, done : BOOLEAN]]
      /\ pending \in Seq(Repositories)
      /\ rerun \subseteq running
      /\ running \subseteq Repositories
  BY DEF Typed, TypeOK
<1> USE <1>1 DEF Separate, Building, Queueing, Busy, Steps
(* A step that leaves the workers, the list and the running set alone.     *)
<1>2. CASE UNCHANGED <<pending, queued, running, at, job>>
  BY <1>2
(* A step of a build keeps its repository.                                 *)
<1>3. ASSUME NEW w \in Workers, Busy(w), NEW s \in Steps,
             at' = [at EXCEPT ![w] = s], s \in {"check", "build", "built", "failed", "finish"},
             \A v \in Workers : job'[v].repo = job[v].repo,
             UNCHANGED <<pending, queued, running>>
      PROVE  Separate'
  BY <1>3
(* A step of a worker that has no repository.                              *)
<1>4. ASSUME NEW w \in Workers, ~Busy(w), NEW s \in Steps,
             at' = [at EXCEPT ![w] = s], s \in {"next", "wait"},
             UNCHANGED <<pending, queued, running, job>>
      PROVE  Separate'
  BY <1>4
<1>5. ASSUME NEW r \in Repositories, NEW v \in Commits, Reindex(r, v) PROVE Separate'
  BY <1>2, <1>5 DEF Reindex, queue, workers
<1>6. ASSUME NEW r \in Repositories, IndexReady(r) PROVE Separate'
  BY <1>2, <1>6 DEF IndexReady, queue, workers
<1>7. ASSUME NEW reconfigured \in BOOLEAN, Restart(reconfigured) PROVE Separate'
  BY <1>7 DEF Restart, Agree
<1>8. ASSUME NEW c \in Callers, NEW r \in Repositories, RetryRead(c, r) PROVE Separate'
  BY <1>2, <1>8 DEF RetryRead, queue, workers
<1>9. ASSUME NEW c \in Callers, NEW r \in Repositories,
             Observe(c, r) \/ RetryWrite(c, r) \/ QueueAgain(c, r) \/ QueueRunning(c, r)
      PROVE  Separate'
  BY <1>2, <1>9 DEF Observe, RetryWrite, QueueAgain, QueueRunning, queue, workers
<1>10. ASSUME NEW c \in Callers, NEW r \in Repositories, QueueNew(c, r) PROVE Separate'
  <2>1. Agree(pending', queued')
    BY <1>10, AgreeAppend DEF QueueNew
  <2>2. UNCHANGED <<running, at, job>> /\ queued' = queued \cup {r} /\ r \notin running
    BY <1>10 DEF QueueNew, IsRunning, workers
  <2>3. QED
    BY <2>1, <2>2
<1>11. ASSUME NEW c \in Callers, QueueSignal(c) \/ RetryFails(c) PROVE Separate'
  BY <1>2, <1>11 DEF QueueSignal, RetryFails, queue, workers
<1>12. ASSUME NEW w \in Workers, TakeNext(w) PROVE Separate'
  <2> DEFINE r == Head(pending)
  <2>1. r \in queued /\ Agree(pending', queued')
    BY <1>12, AgreeTail DEF TakeNext
  <2>2. r \notin running
    BY <2>1
  <2>3. /\ at' = [at EXCEPT ![w] = "read"]
        /\ job'[w].repo = r
        /\ \A v \in Workers : v # w => job'[v] = job[v]
        /\ running' = running \cup {r}
        /\ queued' = queued \ {r}
        /\ at[w] = "next"
    BY <1>12 DEF TakeNext, Goto
  <2> HIDE DEF r
  <2>4. Building'
    <3>1. \A v \in Workers : Busy(v)' <=> Busy(v) \/ v = w
      BY <2>3
    <3>2. ~Busy(w)
      BY <2>3
    <3>3. ASSUME NEW v \in Workers, Busy(v)' PROVE job'[v].repo \in running'
      BY <2>3, <3>1, <3>3
    <3>4. ASSUME NEW q \in running' PROVE \E v \in Workers : Busy(v)' /\ job'[v].repo = q
      <4>1. CASE q = r
        BY <2>3, <3>1, <4>1
      <4>2. CASE q \in running
        <5>1. PICK v \in Workers : Busy(v) /\ job[v].repo = q
          BY <4>2
        <5>2. QED
          BY <5>1, <2>3, <3>1, <3>2
      <4>3. QED
        BY <2>3, <4>1, <4>2
    <3>5. ASSUME NEW u \in Workers, NEW v \in Workers,
                 Busy(u)', Busy(v)', job'[u].repo = job'[v].repo
          PROVE  u = v
      BY <2>2, <2>3, <3>1, <3>2, <3>5
    <3>6. QED
      BY <3>3, <3>4, <3>5
  <2>5. QED
    BY <2>1, <2>2, <2>3, <2>4
<1>13. ASSUME NEW w \in Workers, Idle(w) PROVE Separate'
  BY <1>4, <1>13 DEF Idle, Goto, queue
<1>14. ASSUME NEW w \in Workers, Wake(w) PROVE Separate'
  BY <1>4, <1>14 DEF Wake, Goto, queue
<1>15. ASSUME NEW w \in Workers, FinishSignal(w) PROVE Separate'
  BY <1>4, <1>15 DEF FinishSignal, Goto, queue
<1>16. ASSUME NEW w \in Workers, ReadRepository(w) PROVE Separate'
  BY <1>3, <1>16 DEF ReadRepository, Goto, queue
<1>17. ASSUME NEW w \in Workers, Unchanged(w) PROVE Separate'
  BY <1>3, <1>17 DEF Unchanged, Goto, queue
<1>18. ASSUME NEW w \in Workers, RecordOver(w) PROVE Separate'
  BY <1>3, <1>18 DEF RecordOver, Record, Goto, queue
<1>19. ASSUME NEW w \in Workers, RecordIndexing(w) PROVE Separate'
  BY <1>3, <1>19 DEF RecordIndexing, Record, Goto, queue
<1>20. ASSUME NEW w \in Workers, RecordReady(w) PROVE Separate'
  BY <1>3, <1>20 DEF RecordReady, Record, Goto, queue
<1>21. ASSUME NEW w \in Workers, Import(w) PROVE Separate'
  BY <1>3, <1>21 DEF Import, Goto, queue
<1>22. ASSUME NEW w \in Workers, BuildFails(w) PROVE Separate'
  BY <1>3, <1>22 DEF BuildFails, Goto, queue
<1>23. ASSUME NEW w \in Workers, StoreFails(w) PROVE Separate'
  BY <1>3, <1>23 DEF StoreFails, Goto, queue
(* The worker lets go of its repository.                                   *)
<1>24. ASSUME NEW w \in Workers, Busy(w), NEW s \in {"next", "signal"},
              at' = [at EXCEPT ![w] = s],
              running' = running \ {job[w].repo},
              \A v \in Workers : v # w => job'[v] = job[v]
       PROVE  Building'
  <2>1. \A v \in Workers : Busy(v)' <=> Busy(v) /\ v # w
    BY <1>24
  <2>2. ASSUME NEW v \in Workers, Busy(v)' PROVE job'[v].repo \in running'
    BY <1>24, <2>1, <2>2
  <2>3. ASSUME NEW q \in running' PROVE \E v \in Workers : Busy(v)' /\ job'[v].repo = q
    <3>1. PICK v \in Workers : Busy(v) /\ job[v].repo = q
      BY <2>3, <1>24
    <3>2. v # w
      BY <3>1, <2>3, <1>24
    <3>3. QED
      BY <3>1, <3>2, <2>1, <1>24
  <2>4. ASSUME NEW u \in Workers, NEW v \in Workers,
               Busy(u)', Busy(v)', job'[u].repo = job'[v].repo
        PROVE  u = v
    BY <1>24, <2>1, <2>4
  <2>5. QED
    BY <2>2, <2>3, <2>4
<1>25. ASSUME NEW w \in Workers, FinishAgain(w) PROVE Separate'
  <2>1. /\ job[w].repo \in running
        /\ job[w].repo \in Repositories
        /\ job[w].repo \notin queued
    BY <1>25 DEF FinishAgain
  <2>2. Building'
    BY <1>24, <1>25 DEF FinishAgain, Goto
  <2>3. Agree(pending', queued')
    BY <1>25, <2>1, AgreeAppend DEF FinishAgain
  <2>4. queued' \cap running' = {}
    BY <1>25 DEF FinishAgain
  <2>5. QED
    BY <2>2, <2>3, <2>4
<1>26. ASSUME NEW w \in Workers, Finish(w) PROVE Separate'
  <2>1. Building'
    BY <1>24, <1>26 DEF Finish, Goto
  <2>2. QED
    BY <1>26, <2>1 DEF Finish
<1>27. CASE ListForPrune \/ Prune
  BY <1>2, <1>27 DEF ListForPrune, Prune, queue, workers
<1>28. CASE UNCHANGED vars
  BY <1>2, <1>28 DEF vars
<1>29. QED
  BY <1>5, <1>6, <1>7, <1>8, <1>9, <1>10, <1>11, <1>12, <1>13, <1>14, <1>15,
     <1>16, <1>17, <1>18, <1>19, <1>20, <1>21, <1>22, <1>23, <1>25, <1>26,
     <1>27, <1>28
  DEF Next, CallerStep, WorkerStep

(* Two workers never build one repository at once, nothing that runs is    *)
(* listed, and the list and its set agree.                                 *)
THEOREM BuildsAreSeparate == Spec => []OneBuildPerRepository
<1>1. Typed /\ Separate => OneBuildPerRepository
  BY DEF Separate, Building, Queueing, Agree, OneBuildPerRepository
<1>2. QED
  BY <1>1, TypedInit, TypedNext, SeparateInit, SeparateNext, PTL DEF Spec

-----------------------------------------------------------------------------
LEMMA CapacityPositive == Capacity > 0
<1>1. Cardinality(Workers) # 0
  BY WorkersAssumption, FS_EmptySet
<1>2. QED
  BY <1>1, CapacityNat DEF Capacity

LEMMA WakeupNext == Typed /\ NoLostWakeup /\ [Next]_vars => NoLostWakeup'
<1> SUFFICES ASSUME Typed, NoLostWakeup, [Next]_vars PROVE NoLostWakeup'
  OBVIOUS
<1>1. /\ signal \in 0..Capacity
      /\ at \in [Workers -> Steps]
      /\ step \in [Callers -> {"idle", "retry", "queue", "signal"}]
  BY DEF Typed, TypeOK
<1>2. \A s \in 0..Capacity : Sent(s) > 0
  BY CapacityNat, CapacityPositive DEF Sent
<1> USE <1>1 DEF NoLostWakeup
<1>3. ASSUME NEW w \in Workers, NEW s \in Steps \ {"wait"}, at' = [at EXCEPT ![w] = s]
      PROVE  NoLostWakeup'
  BY <1>3
<1>4. CASE pending' = <<>>
  BY <1>4
<1>5. CASE UNCHANGED <<pending, signal, at, step>>
  BY <1>5
<1>6. ASSUME NEW c \in Callers, NEW s \in {"idle", "retry", "queue", "signal"},
             step[c] # "signal", step' = [step EXCEPT ![c] = s],
             UNCHANGED <<pending, signal, at>>
      PROVE  NoLostWakeup'
  BY <1>6
<1>7. ASSUME NEW r \in Repositories, NEW v \in Commits, Reindex(r, v) PROVE NoLostWakeup'
  BY <1>5, <1>7 DEF Reindex, queue, workers, callers
<1>8. ASSUME NEW r \in Repositories, IndexReady(r) PROVE NoLostWakeup'
  BY <1>5, <1>8 DEF IndexReady, queue, workers, callers
<1>9. ASSUME NEW reconfigured \in BOOLEAN, Restart(reconfigured) PROVE NoLostWakeup'
  BY <1>4, <1>9 DEF Restart
<1>10. ASSUME NEW c \in Callers, NEW r \in Repositories, RetryRead(c, r)
       PROVE  NoLostWakeup'
  BY <1>6, <1>10 DEF RetryRead, GotoCaller, queue, workers
<1>11. ASSUME NEW c \in Callers, NEW r \in Repositories, Observe(c, r) \/ RetryWrite(c, r)
       PROVE  NoLostWakeup'
  BY <1>6, <1>11 DEF Observe, RetryWrite, GotoCaller, queue, workers
<1>12. ASSUME NEW c \in Callers, NEW r \in Repositories,
              QueueAgain(c, r) \/ QueueRunning(c, r)
       PROVE  NoLostWakeup'
  BY <1>6, <1>12 DEF QueueAgain, QueueRunning, GoIdle, queue, workers
<1>13. ASSUME NEW c \in Callers, RetryFails(c) PROVE NoLostWakeup'
  BY <1>6, <1>13 DEF RetryFails, GoIdle, queue, workers
<1>14. ASSUME NEW c \in Callers, NEW r \in Repositories, QueueNew(c, r)
       PROVE  NoLostWakeup'
  <2>1. step'[c] = "signal"
    BY <1>14 DEF QueueNew, GotoCaller
  <2>2. QED
    BY <2>1
<1>15. ASSUME NEW c \in Callers, QueueSignal(c) PROVE NoLostWakeup'
  <2>1. signal' > 0
    BY <1>2, <1>15 DEF QueueSignal
  <2>2. QED
    BY <2>1
<1>16. ASSUME NEW w \in Workers, Idle(w) PROVE NoLostWakeup'
  BY <1>4, <1>16 DEF Idle, queue
<1>17. ASSUME NEW w \in Workers, WorkerStep(w), ~Idle(w) PROVE NoLostWakeup'
  <2>1. \E s \in Steps \ {"wait"} : at' = [at EXCEPT ![w] = s]
    BY <1>17 DEF WorkerStep, TakeNext, Wake, ReadRepository, Unchanged, RecordOver,
      RecordIndexing, RecordReady, Record, Import, BuildFails, FinishAgain,
      FinishSignal, Finish, Goto, Steps
  <2>2. QED
    BY <2>1, <1>3
<1>18. ASSUME NEW w \in Workers, StoreFails(w) PROVE NoLostWakeup'
  BY <1>3, <1>18 DEF StoreFails, Goto, Steps
<1>19. CASE ListForPrune \/ Prune
  BY <1>5, <1>19 DEF ListForPrune, Prune, queue, workers, callers
<1>20. CASE UNCHANGED vars
  BY <1>5, <1>20 DEF vars
<1>21. QED
  BY <1>7, <1>8, <1>9, <1>10, <1>11, <1>12, <1>13, <1>14, <1>15, <1>16, <1>17,
     <1>18, <1>19, <1>20
  DEF Next, CallerStep

(* No worker sleeps on listed work: the send of Queue and finish that      *)
(* gives up on a full buffer loses no wakeup.                              *)
THEOREM WakeupSafe == Spec => []NoLostWakeup
<1>1. Init => NoLostWakeup
  BY DEF Init, NoLostWakeup
<1>2. QED
  BY <1>1, TypedInit, TypedNext, WakeupNext, PTL DEF Spec

-----------------------------------------------------------------------------
(* Nothing is on its way for r but, perhaps, the build that runs.          *)
Unasked(r) ==
  /\ source[r].ready
  /\ r \notin announced \cup queued \cup rerun \cup stuck
  /\ \A c \in Callers : step[c] = "queue" => call[c].repo # r

(* A build nobody has asked to repeat works on the indexed revision, skips *)
(* only what is done, and leaves a settled row.                            *)
OnCourse(w) ==
  \A r \in Repositories : job[w].repo = r /\ Unasked(r) =>
    /\ at[w] \in {"check", "build", "built", "failed"}
         => job[w].revision = source[r].revision
    /\ at[w] = "check" /\ job[w].done => Done(r)
    /\ at[w] = "finish" => Settled(r)

Lossless ==
  /\ \A w \in Workers : Busy(w) => OnCourse(w)
  /\ \A r \in Repositories : Unasked(r) /\ r \notin running => Settled(r)

LEMMA LosslessInit == Init => Lossless
  BY DEF Init, Lossless, Unasked, Busy

LEMMA LosslessNext == Typed /\ Separate /\ Lossless /\ [Next]_vars => Lossless'
<1> SUFFICES ASSUME Typed, Separate, Lossless, [Next]_vars PROVE Lossless'
  OBVIOUS
<1>1. /\ at \in [Workers -> Steps]
      /\ job \in [Workers -> [repo : Repositories \cup {"none"},
                              revision : Commits \cup {"none"}, done : BOOLEAN]]
      /\ step \in [Callers -> {"idle", "retry", "queue", "signal"}]
      /\ call \in [Callers -> [repo : Repositories \cup {"none"},
                               revision : Commits \cup {"none"}]]
      /\ source \in [Repositories -> [ready : BOOLEAN, revision : Commits \cup {"none"}]]
      /\ status \in [Repositories ->
           [state : {"none", "pending", "indexing", "ready", "over"},
            revision : Commits \cup {"none"}, current : BOOLEAN]]
      /\ pending \in Seq(Repositories)
      /\ rerun \subseteq running
  BY DEF Typed, TypeOK
<1>2. /\ \A w \in Workers : Busy(w) => job[w].repo \in running
      /\ \A v, w \in Workers : Busy(v) /\ Busy(w) /\ job[v].repo = job[w].repo => v = w
      /\ queued \cap running = {}
  BY DEF Separate, Building, Queueing
<1> USE <1>1, <1>2
(* A step that only asks for repositories.                                 *)
<1>3. ASSUME UNCHANGED <<source, status, running, at, job>>,
             \A r \in Repositories : Unasked(r)' => Unasked(r)
      PROVE  Lossless'
  BY <1>3 DEF Lossless, OnCourse, Busy, Settled, Done
(* A step that asks for q and may change its rows.                         *)
<1>4. ASSUME NEW q \in Repositories, ~Unasked(q)',
             UNCHANGED <<running, at, job>>,
             \A r \in Repositories : r # q =>
               /\ source'[r] = source[r]
               /\ status'[r] = status[r]
               /\ Unasked(r)' => Unasked(r)
      PROVE  Lossless'
  <2>1. \A r \in Repositories : Unasked(r)' => Unasked(r) /\ r # q
    BY <1>4
  <2>2. \A r \in Repositories : r # q => (Settled(r)' <=> Settled(r)) /\ (Done(r)' <=> Done(r))
    BY <1>4 DEF Settled, Done
  <2>3. ASSUME NEW v \in Workers, Busy(v)' PROVE OnCourse(v)'
    <3> SUFFICES ASSUME NEW r \in Repositories, job[v].repo = r, Unasked(r)'
                 PROVE  /\ at[v] \in {"check", "build", "built", "failed"}
                             => job[v].revision = source[r].revision
                        /\ at[v] = "check" /\ job[v].done => Done(r)
                        /\ at[v] = "finish" => Settled(r)
      BY <1>4, <2>1, <2>2 DEF OnCourse
    <3>1. Busy(v) /\ Unasked(r)
      BY <1>4, <2>1, <2>3 DEF Busy
    <3>2. QED
      BY <3>1 DEF Lossless, OnCourse
  <2>4. ASSUME NEW r \in Repositories, Unasked(r)', r \notin running' PROVE Settled(r)'
    BY <1>4, <2>1, <2>2, <2>4 DEF Lossless
  <2>5. QED
    BY <2>3, <2>4 DEF Lossless
(* A step of the build of w.                                               *)
<1>5. ASSUME NEW w \in Workers, Busy(w), OnCourse(w)',
             job'[w].repo = job[w].repo,
             UNCHANGED <<source, running>>,
             \A v \in Workers : v # w => at'[v] = at[v] /\ job'[v] = job[v],
             \A r \in Repositories : r # job[w].repo =>
               /\ status'[r] = status[r]
               /\ Unasked(r)' => Unasked(r)
      PROVE  Lossless'
  <2>1. ASSUME NEW v \in Workers, v # w, Busy(v)' PROVE OnCourse(v)'
    BY <1>5, <2>1 DEF Lossless, OnCourse, Busy, Settled, Done
  <2>2. ASSUME NEW r \in Repositories, Unasked(r)', r \notin running' PROVE Settled(r)'
    BY <1>5, <2>2 DEF Lossless, Settled
  <2>3. QED
    BY <1>5, <2>1, <2>2 DEF Lossless
<1>6. ASSUME NEW w \in Workers, ~Busy(w), ~Busy(w)',
             UNCHANGED <<source, status, running, job, announced, queued, rerun,
                         stuck, step, call>>,
             \A v \in Workers : v # w => at'[v] = at[v]
      PROVE  Lossless'
  BY <1>6 DEF Lossless, OnCourse, Unasked, Busy, Settled, Done
<1>7. ASSUME NEW r \in Repositories, NEW v \in Commits, Reindex(r, v) PROVE Lossless'
  <2>1. ~Unasked(r)'
    BY <1>7 DEF Reindex, Unasked
  <2>2. QED
    BY <1>4, <1>7, <2>1 DEF Reindex, Unasked, queue, workers, callers
<1>8. ASSUME NEW r \in Repositories, IndexReady(r) PROVE Lossless'
  <2>1. ~Unasked(r)'
    BY <1>8 DEF IndexReady, Unasked
  <2>2. QED
    BY <1>4, <1>8, <2>1 DEF IndexReady, Unasked, queue, workers, callers
<1>9. ASSUME NEW reconfigured \in BOOLEAN, Restart(reconfigured) PROVE Lossless'
  <2>1. \A r \in Repositories : ~Unasked(r)'
    BY <1>9 DEF Restart, Unasked
  <2>2. \A w \in Workers : ~Busy(w)'
    BY <1>9 DEF Restart, Busy
  <2>3. QED
    BY <2>1, <2>2 DEF Lossless
<1>10. ASSUME NEW c \in Callers, NEW r \in Repositories, RetryRead(c, r) PROVE Lossless'
  BY <1>3, <1>10 DEF RetryRead, GotoCaller, Unasked, queue, workers
<1>11. ASSUME NEW c \in Callers, NEW r \in Repositories, Observe(c, r) PROVE Lossless'
  <2>1. ~Unasked(r)'
    BY <1>11 DEF Observe, GotoCaller, Unasked
  <2>2. QED
    BY <1>4, <1>11, <2>1 DEF Observe, GotoCaller, Unasked, queue, workers
<1>12. ASSUME NEW c \in Callers, NEW r \in Repositories, RetryWrite(c, r) PROVE Lossless'
  <2>1. ~Unasked(r)'
    BY <1>12 DEF RetryWrite, GotoCaller, Unasked
  <2>2. QED
    BY <1>4, <1>12, <2>1 DEF RetryWrite, GotoCaller, Unasked, queue, workers
<1>13. ASSUME NEW c \in Callers, NEW r \in Repositories, QueueAgain(c, r) PROVE Lossless'
  BY <1>3, <1>13 DEF QueueAgain, GoIdle, NoCall, Unasked, queue, workers
<1>14. ASSUME NEW c \in Callers, NEW r \in Repositories, QueueRunning(c, r) PROVE Lossless'
  BY <1>3, <1>14 DEF QueueRunning, Requested, GoIdle, NoCall, Unasked, workers
<1>15. ASSUME NEW c \in Callers, NEW r \in Repositories, QueueNew(c, r) PROVE Lossless'
  <2>1. ~Unasked(r)'
    BY <1>15 DEF QueueNew, Unasked
  <2>2. \/ status' = [status EXCEPT ![r] = Status("pending", source[r].revision)]
        \/ status' = status
    BY <1>15, Zenon DEF QueueNew
  <2>3. \A q \in Repositories : q # r => (Unasked(q)' => Unasked(q))
    BY <1>15 DEF QueueNew, GotoCaller, Unasked
  <2>4. UNCHANGED <<source, running, at, job>>
    BY <1>15 DEF QueueNew, workers
  <2>5. \A q \in Repositories : q # r => status'[q] = status[q]
    BY <2>2
  <2>6. QED
    BY <1>4, <2>1, <2>3, <2>4, <2>5
<1>16. ASSUME NEW c \in Callers, QueueSignal(c) PROVE Lossless'
  BY <1>3, <1>16 DEF QueueSignal, GoIdle, NoCall, Unasked, queue, workers
<1>17. ASSUME NEW c \in Callers, RetryFails(c) PROVE Lossless'
  BY <1>3, <1>17 DEF RetryFails, GoIdle, NoCall, Unasked, queue, workers
<1>18. ASSUME NEW w \in Workers, TakeNext(w) PROVE Lossless'
  <2>1. PICK r \in Repositories : r = Head(pending)
    BY <1>18 DEF TakeNext
  <2>2. r \in queued
    BY <1>18, <2>1, AgreeTail DEF TakeNext, Separate, Queueing
  <2>3. /\ at' = [at EXCEPT ![w] = "read"] /\ at[w] = "next"
        /\ running' = running \cup {r} /\ queued' = queued \ {r}
        /\ \A v \in Workers : v # w => job'[v] = job[v]
        /\ UNCHANGED <<source, status, announced, rerun, stuck, step, call>>
    BY <1>18, <2>1 DEF TakeNext, Goto, WorkerFrame, callers
  <2>4. \A q \in Repositories : q # r => (Unasked(q)' => Unasked(q))
    BY <2>3 DEF Unasked
  <2>5. ASSUME NEW v \in Workers, Busy(v)' PROVE OnCourse(v)'
    <3>1. CASE v = w
      BY <2>3, <3>1 DEF OnCourse
    <3>2. CASE v # w
      <4>1. Busy(v) /\ job[v].repo # r
        BY <2>2, <2>3, <2>5, <3>2 DEF Busy
      <4>2. QED
        BY <2>3, <2>4, <3>2, <4>1 DEF Lossless, OnCourse, Settled, Done
    <3>3. QED
      BY <3>1, <3>2
  <2>6. ASSUME NEW q \in Repositories, Unasked(q)', q \notin running' PROVE Settled(q)'
    BY <2>3, <2>4, <2>6 DEF Lossless, Settled
  <2>7. QED
    BY <2>5, <2>6 DEF Lossless
<1>19. ASSUME NEW w \in Workers, Idle(w) \/ Wake(w) \/ FinishSignal(w) PROVE Lossless'
  BY <1>6, <1>19 DEF Idle, Wake, FinishSignal, Goto, WorkerFrame, Busy, queue, callers
<1>20. ASSUME NEW w \in Workers, ReadRepository(w) PROVE Lossless'
  <2>1. PICK r : r = job[w].repo
    OBVIOUS
  <2>2. /\ at[w] = "read"
        /\ job' = [job EXCEPT ![w] = [repo |-> r, revision |-> source[r].revision,
                                     done |-> Done(r)]]
        /\ stuck' = stuck \ {r}
        /\ at' = [at EXCEPT ![w] = IF source[r].ready THEN "check" ELSE "finish"]
        /\ UNCHANGED <<source, status, announced, queued, running, rerun, step, call>>
    BY <1>20, <2>1 DEF ReadRepository, Goto, WorkerFrame, queue, callers
  <2>3. OnCourse(w)'
    <3> SUFFICES ASSUME Unasked(r)'
                 PROVE  /\ job'[w].revision = source'[r].revision
                        /\ at'[w] = "check" /\ job'[w].done => Done(r)'
                        /\ at'[w] # "finish"
      BY <2>2 DEF OnCourse
    <3>1. source[r].ready
      BY <2>2 DEF Unasked
    <3>2. at'[w] = "check"
      BY <2>2, <3>1
    <3>3. job'[w] = [repo |-> r, revision |-> source[r].revision, done |-> Done(r)]
      BY <2>2
    <3>4. Done(r)' = Done(r)
      BY <2>2 DEF Done
    <3>5. QED
      BY <2>2, <3>2, <3>3, <3>4
  <2>4. QED
    BY <1>5, <2>1, <2>2, <2>3 DEF Unasked, Busy
<1>21. ASSUME NEW w \in Workers, Unchanged(w) PROVE Lossless'
  <2>1. /\ at[w] = "check" /\ job[w].done
        /\ at' = [at EXCEPT ![w] = "finish"]
        /\ UNCHANGED <<source, status, announced, queued, running, rerun, job, stuck, step, call>>
    BY <1>21 DEF Unchanged, Goto, WorkerFrame, queue, callers
  <2>2. OnCourse(w)'
    <3> SUFFICES ASSUME NEW r \in Repositories, job[w].repo = r, Unasked(r)'
                 PROVE  Settled(r)'
      BY <2>1 DEF OnCourse
    <3>1. Busy(w) /\ Unasked(r)
      BY <2>1 DEF Unasked, Busy
    <3>2. Done(r)
      BY <2>1, <3>1, Zenon DEF Lossless, OnCourse
    <3>3. QED
      BY <2>1, <3>2 DEF Done, Settled
  <2>3. QED
    BY <1>5, <2>1, <2>2 DEF Unasked, Busy
<1>22. ASSUME NEW w \in Workers, NEW s \in {"over", "indexing", "ready"},
              NEW g \in {"finish", "build"}, s = "indexing" <=> g = "build",
              at[w] \in {"check", "failed", "built"}, Record(w, s, g)
       PROVE  Lossless'
  <2>1. /\ status' = [status EXCEPT ![job[w].repo] = Status(s, job[w].revision)]
        /\ at' = [at EXCEPT ![w] = g]
        /\ UNCHANGED <<source, announced, queued, running, rerun, job, stuck, step, call>>
    BY <1>22 DEF Record, Goto, WorkerFrame, queue, callers
  <2>2. OnCourse(w)'
    <3> SUFFICES ASSUME NEW r \in Repositories, job[w].repo = r, Unasked(r)'
                 PROVE  /\ job[w].revision = source[r].revision
                        /\ at'[w] = "finish" => Settled(r)'
      BY <1>22, <2>1 DEF OnCourse
    <3>1. Unasked(r)
      BY <2>1 DEF Unasked
    <3>2. job[w].revision = source[r].revision
      BY <1>22, <3>1 DEF Lossless, OnCourse, Busy
    <3>3. status'[r] = Status(s, source[r].revision)
      BY <2>1, <3>2
    <3>4. QED
      BY <1>22, <2>1, <3>2, <3>3 DEF Settled, Status
  <2>3. QED
    BY <1>5, <1>22, <2>1, <2>2 DEF Unasked, Busy
<1>23. ASSUME NEW w \in Workers, RecordOver(w) \/ RecordIndexing(w) \/ RecordReady(w)
       PROVE  Lossless'
  BY <1>22, <1>23 DEF RecordOver, RecordIndexing, RecordReady
<1>24. ASSUME NEW w \in Workers, Import(w) \/ BuildFails(w) PROVE Lossless'
  <2>1. /\ at[w] = "build"
        /\ \E s \in {"built", "failed"} : at' = [at EXCEPT ![w] = s]
        /\ UNCHANGED <<source, status, announced, queued, running, rerun, job, stuck, step, call>>
    BY <1>24 DEF Import, BuildFails, Goto, WorkerFrame, queue, callers
  <2>2. OnCourse(w)'
    BY <2>1 DEF Lossless, OnCourse, Unasked, Busy
  <2>3. QED
    BY <1>5, <2>1, <2>2 DEF Unasked, Busy
<1>25. ASSUME NEW w \in Workers, StoreFails(w) PROVE Lossless'
  <2>1. /\ Busy(w)
        /\ stuck' = stuck \cup {job[w].repo}
        /\ at' = [at EXCEPT ![w] = "finish"]
        /\ UNCHANGED <<source, status, announced, queued, running, rerun, job, step, call>>
    BY <1>25 DEF StoreFails, Goto, WorkerFrame, Busy, queue, callers
  <2>2. OnCourse(w)'
    BY <2>1 DEF OnCourse, Unasked
  <2>3. QED
    BY <1>5, <2>1, <2>2 DEF Unasked
<1>26. ASSUME NEW w \in Workers, FinishAgain(w) PROVE Lossless'
  <2>1. /\ at[w] = "finish"
        /\ at' = [at EXCEPT ![w] = "signal"]
        /\ job[w].repo \in running
        /\ running' = running \ {job[w].repo}
        /\ rerun' = rerun \ {job[w].repo}
        /\ queued' = queued \cup {job[w].repo}
        /\ \A v \in Workers : v # w => job'[v] = job[v]
        /\ UNCHANGED <<source, status, announced, stuck, step, call>>
    BY <1>26 DEF FinishAgain, Goto, WorkerFrame, callers
  <2>2. \A q \in Repositories : Unasked(q)' => Unasked(q) /\ q # job[w].repo
    BY <2>1 DEF Unasked
  <2>3. ASSUME NEW v \in Workers, Busy(v)' PROVE OnCourse(v)'
    <3>1. v # w
      BY <2>1, <2>3 DEF Busy
    <3>2. QED
      BY <2>1, <2>2, <2>3, <3>1 DEF Lossless, OnCourse, Busy, Settled, Done
  <2>4. ASSUME NEW q \in Repositories, Unasked(q)', q \notin running' PROVE Settled(q)'
    BY <2>1, <2>2, <2>4 DEF Lossless, Settled
  <2>5. QED
    BY <2>3, <2>4 DEF Lossless
<1>27. ASSUME NEW w \in Workers, Finish(w) PROVE Lossless'
  <2>1. /\ at[w] = "finish"
        /\ at' = [at EXCEPT ![w] = "next"]
        /\ running' = running \ {job[w].repo}
        /\ \A v \in Workers : v # w => job'[v] = job[v]
        /\ UNCHANGED <<source, status, announced, queued, rerun, stuck, step, call>>
    BY <1>27 DEF Finish, Goto, WorkerFrame, callers
  <2>2. \A q \in Repositories : Unasked(q)' => Unasked(q)
    BY <2>1 DEF Unasked
  <2>3. ASSUME NEW v \in Workers, Busy(v)' PROVE OnCourse(v)'
    <3>1. v # w
      BY <2>1, <2>3 DEF Busy
    <3>2. QED
      BY <2>1, <2>2, <2>3, <3>1 DEF Lossless, OnCourse, Busy, Settled, Done
  <2>4. ASSUME NEW q \in Repositories, Unasked(q)', q \notin running' PROVE Settled(q)'
    <3>1. CASE q = job[w].repo
      BY <2>1, <2>2, <2>4, <3>1 DEF Lossless, OnCourse, Busy, Settled
    <3>2. CASE q # job[w].repo
      BY <2>1, <2>2, <2>4, <3>2 DEF Lossless, Settled
    <3>3. QED
      BY <3>1, <3>2
  <2>5. QED
    BY <2>3, <2>4 DEF Lossless
<1>28. CASE ListForPrune \/ Prune
  BY <1>3, <1>28 DEF ListForPrune, Prune, Unasked, queue, workers, callers
<1>29. CASE UNCHANGED vars
  BY <1>3, <1>29 DEF vars, Unasked
<1>30. QED
  BY <1>7, <1>8, <1>9, <1>10, <1>11, <1>12, <1>13, <1>14, <1>15, <1>16, <1>17,
     <1>18, <1>19, <1>20, <1>21, <1>23, <1>24, <1>25, <1>26, <1>27, <1>28, <1>29
  DEF Next, CallerStep, WorkerStep

(* The queue is lossless: a ready repository for which nothing is on its   *)
(* way has a final SCIP row for its indexed revision and the configured    *)
(* producer, unless a store call of its last build failed.                 *)
THEOREM QueueIsLossless == Spec => []SettledIsCurrent
<1>1. Typed /\ Lossless => SettledIsCurrent
  BY DEF Typed, TypeOK, Lossless, Unasked, SettledIsCurrent, Owed
<1>2. QED
  BY <1>1, TypedInit, TypedNext, SeparateInit, SeparateNext, LosslessInit,
     LosslessNext, PTL DEF Spec

-----------------------------------------------------------------------------
LEMMA QueueStep == Typed /\ Separate /\ [Next]_vars => [Q!Next]_(Q!vars)
<1> SUFFICES ASSUME Typed, Separate, [Next]_vars PROVE [Q!Next]_(Q!vars)
  OBVIOUS
<1>1. /\ at \in [Workers -> Steps]
      /\ job \in [Workers -> [repo : Repositories \cup {"none"},
                              revision : Commits \cup {"none"}, done : BOOLEAN]]
      /\ pending \in Seq(Repositories)
      /\ rerun \subseteq running
      /\ running \subseteq Repositories
      /\ step \in [Callers -> {"idle", "retry", "queue", "signal"}]
      /\ call \in [Callers -> [repo : Repositories \cup {"none"},
                               revision : Commits \cup {"none"}]]
  BY DEF Typed, TypeOK
<1>2. /\ \A w \in Workers : Busy(w) => job[w].repo \in running
      /\ queued \cap running = {}
  BY DEF Separate, Building, Queueing
<1>3. Holding \in [Workers -> SUBSET (Repositories \cup {"none"})]
  BY <1>1 DEF Holding
<1> USE <1>1, <1>2, <1>3
(* Steps the abstract queue does not see.                                  *)
<1>4. ASSUME UNCHANGED <<queued, rerun, at, job, restarts>>, Asking' = Asking
      PROVE  UNCHANGED (Q!vars)
  BY <1>4 DEF Q!vars, Outstanding, Holding, Busy
<1>5. ASSUME UNCHANGED <<queued, rerun, step, call, restarts>>, NEW w \in Workers,
             Busy(w)' <=> Busy(w), Busy(w) => job'[w].repo = job[w].repo,
             \A v \in Workers : v # w => at'[v] = at[v] /\ job'[v] = job[v]
      PROVE  UNCHANGED (Q!vars)
  <2>1. \A v \in Workers : Holding'[v] = Holding[v]
    BY <1>5 DEF Holding, Busy
  <2>2. Holding' = Holding
    BY <2>1 DEF Holding
  <2>3. QED
    BY <1>5, <2>2 DEF Q!vars, Outstanding, Asking
(* Queue is called, and returns when the repository is listed, or is to    *)
(* run once more.                                                          *)
<1>6. ASSUME NEW c \in Callers, NEW r \in Repositories,
             QueueAgain(c, r) \/ QueueRunning(c, r) \/ QueueNew(c, r)
      PROVE  Q!Accept(c)
  <2>1. /\ step[c] = "queue" /\ call[c].repo = r
        /\ step'[c] # "queue"
        /\ \A e \in Callers : e # c => step'[e] = step[e] /\ call'[e] = call[e]
    BY <1>6, <1>1 DEF QueueAgain, QueueRunning, QueueNew, GoIdle, GotoCaller
  <2>2. UNCHANGED <<at, job, restarts>> /\ Outstanding' = Outstanding \cup {r}
    BY <1>6 DEF QueueAgain, QueueRunning, QueueNew, Requested, Outstanding, workers, bounds, queue
  <2>3. Asking' = [Asking EXCEPT ![c] = {}]
    <3>1. \A e \in Callers : Asking'[e] = [Asking EXCEPT ![c] = {}][e]
      BY <2>1 DEF Asking
    <3>2. QED
      BY <3>1 DEF Asking
  <2>4. Asking[c] = {r}
    BY <2>1 DEF Asking
  <2>5. QED
    BY <2>2, <2>3, <2>4 DEF Q!Accept, Holding, Busy
<1>7. ASSUME NEW c \in Callers, NEW r \in Repositories, Observe(c, r) \/ RetryWrite(c, r)
       PROVE  Q!Ask(c, r)
  <2>1. /\ step[c] # "queue" /\ step'[c] = "queue" /\ call'[c].repo = r
        /\ \A e \in Callers : e # c => step'[e] = step[e] /\ call'[e] = call[e]
    BY <1>7 DEF Observe, RetryWrite, GotoCaller
  <2>2. UNCHANGED <<at, job, queued, rerun, restarts>>
    BY <1>7 DEF Observe, RetryWrite, workers, queue, bounds
  <2>3. Asking' = [Asking EXCEPT ![c] = {r}]
    <3>1. \A e \in Callers : Asking'[e] = [Asking EXCEPT ![c] = {r}][e]
      BY <2>1 DEF Asking
    <3>2. QED
      BY <3>1 DEF Asking
  <2>4. Asking[c] = {}
    BY <2>1 DEF Asking
  <2>5. QED
    BY <2>2, <2>3, <2>4 DEF Q!Ask, Holding, Busy, Outstanding
<1>8. ASSUME NEW w \in Workers, TakeNext(w) PROVE Q!Take(w, Head(pending))
  <2> DEFINE r == Head(pending)
  <2>1. r \in queued
    BY <1>8, AgreeTail DEF TakeNext, Separate, Queueing
  <2>2. r \notin running
    BY <2>1
  <2>3. /\ queued' = queued \ {r} /\ rerun' = rerun /\ at[w] = "next"
        /\ at' = [at EXCEPT ![w] = "read"]
        /\ job'[w].repo = r
        /\ \A v \in Workers : v # w => job'[v] = job[v]
    BY <1>8 DEF TakeNext, Goto
  <2> HIDE DEF r
  <2>4. Outstanding' = Outstanding \ {r}
    BY <2>2, <2>3 DEF Outstanding
  <2>5. Holding[w] = {}
    BY <2>3 DEF Holding, Busy
  <2>6. \A v \in Workers : r \notin Holding[v]
    BY <2>2 DEF Holding
  <2>7. Holding' = [Holding EXCEPT ![w] = {r}]
    <3>1. \A v \in Workers : Holding'[v] = [Holding EXCEPT ![w] = {r}][v]
      BY <2>3 DEF Holding, Busy
    <3>2. QED
      BY <3>1 DEF Holding
  <2>8. QED
    BY <1>8, <2>1, <2>4, <2>5, <2>6, <2>7
    DEF Q!Take, Outstanding, Asking, r, TakeNext, WorkerFrame, callers, bounds
<1>9. ASSUME NEW w \in Workers, FinishAgain(w) \/ Finish(w) PROVE Q!Finish(w)
  <2>1. /\ at[w] = "finish"
        /\ at'[w] \in {"next", "signal"}
        /\ \A v \in Workers : v # w => at'[v] = at[v] /\ job'[v] = job[v]
        /\ Outstanding' = Outstanding
    BY <1>9 DEF FinishAgain, Finish, Goto, Outstanding
  <2>2. Holding' = [Holding EXCEPT ![w] = {}]
    <3>1. \A v \in Workers : Holding'[v] = [Holding EXCEPT ![w] = {}][v]
      BY <2>1 DEF Holding, Busy
    <3>2. QED
      BY <3>1 DEF Holding
  <2>3. Holding[w] # {}
    BY <2>1 DEF Holding, Busy
  <2>4. Asking' = Asking /\ restarts' = restarts
    BY <1>9 DEF FinishAgain, Finish, WorkerFrame, callers, bounds, Asking
  <2>5. QED
    BY <2>1, <2>2, <2>3, <2>4 DEF Q!Finish
<1>10. ASSUME NEW reconfigured \in BOOLEAN, Restart(reconfigured) PROVE Q!Restart
  <2>1. \A w \in Workers : ~Busy(w)'
    BY <1>10 DEF Restart, Busy
  <2>2. QED
    BY <1>10, <2>1 DEF Restart, Q!Restart, Outstanding, Holding, Asking
<1>11. ASSUME NEW w \in Workers, Idle(w) \/ Wake(w) \/ FinishSignal(w) PROVE UNCHANGED (Q!vars)
  BY <1>5, <1>11 DEF Idle, Wake, FinishSignal, Goto, Busy, queue,
     WorkerFrame, callers, bounds
<1>12. ASSUME NEW w \in Workers,
              ReadRepository(w) \/ Unchanged(w) \/ Import(w) \/ BuildFails(w) \/ StoreFails(w)
       PROVE  UNCHANGED (Q!vars)
  <2>1. CASE ReadRepository(w)
    BY <1>5, <2>1 DEF ReadRepository, Goto, Busy, queue,
     WorkerFrame, callers, bounds
  <2>2. CASE Unchanged(w) \/ Import(w) \/ BuildFails(w) \/ StoreFails(w)
    BY <1>5, <2>2 DEF Unchanged, Import, BuildFails, StoreFails, Goto, Busy, queue,
     WorkerFrame, callers, bounds
  <2>3. QED
    BY <1>12, <2>1, <2>2
<1>13. ASSUME NEW w \in Workers, RecordOver(w) \/ RecordIndexing(w) \/ RecordReady(w)
       PROVE  UNCHANGED (Q!vars)
  BY <1>5, <1>13 DEF RecordOver, RecordIndexing, RecordReady, Record, Goto, Busy, queue,
     WorkerFrame, callers, bounds
<1>14. ASSUME NEW c \in Callers,
              QueueSignal(c) \/ RetryFails(c) \/ \E r \in Repositories : RetryRead(c, r)
       PROVE  UNCHANGED (Q!vars)
  <2>1. \A e \in Callers : (step'[e] = "queue" <=> step[e] = "queue")
                             /\ (step[e] = "queue" => call'[e] = call[e])
    BY <1>14 DEF QueueSignal, RetryFails, RetryRead, GoIdle, GotoCaller
  <2>2. Asking' = Asking
    BY <2>1 DEF Asking
  <2>3. QED
    BY <1>4, <1>14, <2>2 DEF QueueSignal, RetryFails, RetryRead, queue, workers, bounds
<1>15. ASSUME NEW r \in Repositories, IndexReady(r) \/ \E v \in Commits : Reindex(r, v)
       PROVE  UNCHANGED (Q!vars)
  BY <1>4, <1>15 DEF IndexReady, Reindex, queue, workers, callers, bounds, Asking
<1>16. ASSUME ListForPrune \/ Prune \/ UNCHANGED vars PROVE UNCHANGED (Q!vars)
  BY <1>4, <1>16 DEF ListForPrune, Prune, vars, queue, workers, callers, bounds, Asking
<1>17. ASSUME NEW w \in Workers, TakeNext(w) PROVE Head(pending) \in Repositories
  BY <1>17 DEF TakeNext
<1>18. QED
  BY <1>6, <1>7, <1>8, <1>9, <1>10, <1>11, <1>12, <1>13, <1>14, <1>15, <1>16, <1>17
  DEF Next, CallerStep, WorkerStep, Q!Next

(* The Java SCIP queue implements the abstract work queue in which no two  *)
(* workers hold the same item: what Queue was called for is listed or is   *)
(* to run once more when it returns, stays so until a worker takes it, and *)
(* is forgotten by a restart alone.                                        *)
THEOREM ImplementsQueue == Spec => ImplementsWorkQueue
<1>1. Init => Q!Init
  BY DEF Init, Q!Init, Asking, Outstanding, Holding, Busy
<1>2. QED
  BY <1>1, QueueStep, TypedInit, TypedNext, SeparateInit, SeparateNext, PTL
  DEF Spec, Q!Spec, ImplementsWorkQueue

-----------------------------------------------------------------------------
(* DerivedQueue.                                                           *)
USE DEF Buffered, Sized

(* Every reachable state of the queue is well typed: queueIndexed,         *)
(* nextIndexed and the workers keep list, set and token count in range.    *)
THEOREM IndexedTypes == ASSUME Buffered PROVE D!Spec => []D!TypeOK
<1>1. D!Init => D!TypeOK
  <2> SUFFICES ASSUME D!Init PROVE D!TypeOK
    OBVIOUS
  <2>1. 0 \in 0..SignalCapacity
    BY Buffered
  <2>2. indexedPending \in Seq(Repositories)
    BY DEF D!Init
  <2>3. QED
    BY <2>1, <2>2 DEF D!Init, D!TypeOK
<1>2. D!TypeOK /\ [D!Next]_(D!vars) => D!TypeOK'
  <2> SUFFICES ASSUME D!TypeOK, [D!Next]_(D!vars) PROVE D!TypeOK'
    OBVIOUS
  <2> USE Buffered DEF D!TypeOK
  <2>1. ASSUME NEW p \in Producers, NEW r \in Repositories,
               D!Call(p, r) \/ D!QueueIndexed(p, r) \/ D!QueuedAlready(p, r)
        PROVE  D!TypeOK'
    <3>1. CASE D!Call(p, r)
      BY <3>1 DEF D!Call
    <3>2. CASE D!QueueIndexed(p, r)
      BY <3>2 DEF D!QueueIndexed
    <3>3. CASE D!QueuedAlready(p, r)
      BY <3>3 DEF D!QueuedAlready
    <3>4. QED
      BY <2>1, <3>1, <3>2, <3>3
  <2>2. ASSUME NEW p \in Producers, D!SignalIndexed(p)
        PROVE  D!TypeOK'
    BY <2>2 DEF D!SignalIndexed, D!Sent
  <2>3. ASSUME NEW w \in Workers, D!NextIndexed(w)
        PROVE  D!TypeOK'
    <3>1. CASE indexedPending = <<>>
      BY <2>3, <3>1 DEF D!NextIndexed
    <3>2. CASE indexedPending # <<>>
      <4>1. Head(indexedPending) \in Repositories /\ Tail(indexedPending) \in Seq(Repositories)
        BY <3>2
      <4>2. holding' \in [Workers -> SUBSET Repositories]
        <5>1. {Head(indexedPending)} \in SUBSET Repositories
          BY <4>1
        <5>2. QED
          BY <2>3, <3>2, <5>1 DEF D!NextIndexed
      <4>3. indexedPending' \in Seq(Repositories) /\ indexedQueued' \in SUBSET Repositories
        BY <2>3, <3>2, <4>1 DEF D!NextIndexed
      <4>4. QED
        BY <2>3, <3>2, <4>2, <4>3 DEF D!NextIndexed
    <3>3. QED
      BY <3>1, <3>2
  <2>4. ASSUME NEW w \in Workers, D!Observed(w)
        PROVE  D!TypeOK'
    BY <2>4 DEF D!Observed
  <2>5. ASSUME NEW w \in Workers, D!Wake(w)
        PROVE  D!TypeOK'
    BY <2>5 DEF D!Wake
  <2>6. CASE D!Cancel
    BY <2>6 DEF D!Cancel
  <2>7. CASE UNCHANGED D!vars
    BY <2>7 DEF D!vars
  <2>8. QED
    BY <2>1, <2>2, <2>3, <2>4, <2>5, <2>6, <2>7 DEF D!Next, D!ProducerStep
<1>3. QED
  BY <1>1, <1>2, PTL DEF D!Spec

(* No wakeup is lost: the non-blocking send of queueIndexed and the        *)
(* look-before-waiting of observeIndexedWorker never leave listed work     *)
(* with every worker asleep and no token to wake one.                      *)
THEOREM IndexedWakeups == ASSUME Buffered PROVE D!Spec => []D!NoLostWakeup
<1>1. D!Init => D!NoLostWakeup
  BY DEF D!Init, D!NoLostWakeup
<1>2. D!TypeOK /\ D!NoLostWakeup /\ [D!Next]_(D!vars) => D!NoLostWakeup'
  <2> SUFFICES ASSUME D!TypeOK, D!NoLostWakeup, [D!Next]_(D!vars) PROVE D!NoLostWakeup'
    OBVIOUS
  <2> USE Buffered DEF D!TypeOK, D!NoLostWakeup
  <2>1. ASSUME NEW p \in Producers, NEW r \in Repositories,
               D!Call(p, r) \/ D!QueueIndexed(p, r) \/ D!QueuedAlready(p, r)
        PROVE  D!NoLostWakeup'
    BY <2>1 DEF D!Call, D!QueueIndexed, D!QueuedAlready
  <2>2. ASSUME NEW p \in Producers, D!SignalIndexed(p)
        PROVE  D!NoLostWakeup'
    BY <2>2 DEF D!SignalIndexed, D!Sent
  <2>3. ASSUME NEW w \in Workers, D!NextIndexed(w)
        PROVE  D!NoLostWakeup'
    BY <2>3 DEF D!NextIndexed
  <2>4. ASSUME NEW w \in Workers, D!Observed(w)
        PROVE  D!NoLostWakeup'
    BY <2>4 DEF D!Observed
  <2>5. ASSUME NEW w \in Workers, D!Wake(w)
        PROVE  D!NoLostWakeup'
    BY <2>5 DEF D!Wake
  <2>6. CASE D!Cancel
    BY <2>6 DEF D!Cancel
  <2>7. CASE UNCHANGED D!vars
    BY <2>7 DEF D!vars
  <2>8. QED
    BY <2>1, <2>2, <2>3, <2>4, <2>5, <2>6, <2>7 DEF D!Next, D!ProducerStep
<1>3. QED
  BY <1>1, <1>2, IndexedTypes, PTL DEF D!Spec

-----------------------------------------------------------------------------
(* A worker holds a repository exactly while it observes it.               *)
HoldsOne == \A w \in Workers : holding[w] = {} <=> worker[w] # "observe"
InOrder == Agree(indexedPending, indexedQueued) /\ HoldsOne

LEMMA IndexedInit == D!Init => InOrder
  BY DEF D!Init, InOrder, Agree, HoldsOne

LEMMA IndexedNext == D!TypeOK /\ InOrder /\ [D!Next]_(D!vars) => InOrder'
<1> SUFFICES ASSUME D!TypeOK, InOrder, [D!Next]_(D!vars) PROVE InOrder'
  OBVIOUS
<1> USE DEF D!TypeOK, InOrder, HoldsOne
<1>1. ASSUME NEW p \in Producers, NEW r \in Repositories, D!QueueIndexed(p, r)
      PROVE  InOrder'
  <2>1. Agree(indexedPending', indexedQueued')
    BY <1>1, AgreeAppend DEF D!QueueIndexed, D!MayQueue
  <2>2. QED
    BY <1>1, <2>1 DEF D!QueueIndexed
<1>2. ASSUME NEW p \in Producers,
             D!SignalIndexed(p) \/ \E r \in Repositories : D!Call(p, r) \/ D!QueuedAlready(p, r)
      PROVE  InOrder'
  BY <1>2 DEF D!SignalIndexed, D!Call, D!QueuedAlready
<1>3. ASSUME NEW w \in Workers, D!NextIndexed(w) PROVE InOrder'
  <2>1. CASE indexedPending = <<>>
    BY <1>3, <2>1 DEF D!NextIndexed
  <2>2. CASE indexedPending # <<>>
    <3>1. Agree(indexedPending', indexedQueued')
      <4>1. indexedPending' = Tail(indexedPending) /\ indexedQueued' = indexedQueued \ {Head(indexedPending)}
        BY <1>3, <2>2 DEF D!NextIndexed
      <4>2. indexedPending \in Seq(Repositories) /\ Agree(indexedPending, indexedQueued)
        OBVIOUS
      <4> HIDE DEF D!TypeOK, InOrder, HoldsOne
      <4>3. Agree(Tail(indexedPending), indexedQueued \ {Head(indexedPending)})
        BY <2>2, <4>2, AgreeTail
      <4>4. QED
        BY <4>1, <4>3
    <3>2. HoldsOne'
      <4>1. /\ holding' = [holding EXCEPT ![w] = {Head(indexedPending)}]
            /\ worker' = [worker EXCEPT ![w] = "observe"]
        BY <1>3, <2>2 DEF D!NextIndexed
      <4>2. {Head(indexedPending)} # {}
        OBVIOUS
      <4>3. QED
        BY <4>1, <4>2
    <3>3. QED
      BY <3>1, <3>2
  <2>3. QED
    BY <2>1, <2>2
<1>4. ASSUME NEW w \in Workers, D!Observed(w) \/ D!Wake(w) PROVE InOrder'
  BY <1>4 DEF D!Observed, D!Wake
<1>5. CASE D!Cancel \/ UNCHANGED D!vars
  BY <1>5 DEF D!Cancel, D!vars
<1>6. QED
  BY <1>1, <1>2, <1>3, <1>4, <1>5 DEF D!Next, D!ProducerStep

(* The list and its set agree and the list has no duplicate: a repository  *)
(* is never queued twice, nor refused while it is not listed.              *)
THEOREM IndexedListMatchesSet == ASSUME Buffered PROVE D!Spec => []D!QueueMatchesSet
<1>1. InOrder => D!QueueMatchesSet
  BY DEF InOrder, Agree, D!QueueMatchesSet
<1>2. QED
  BY <1>1, IndexedInit, IndexedNext, IndexedTypes, PTL DEF D!Spec

(* A producer asks for one repository, exactly while it is in queueIndexed *)
(* before the unlock.                                                      *)
AsksOne ==
  \A p \in Producers :
    /\ wanted[p] = {} <=> producer[p] # "queue"
    /\ \A r \in wanted[p] : wanted[p] = {r}

LEMMA AsksOneNext == D!TypeOK /\ AsksOne /\ [D!Next]_(D!vars) => AsksOne'
<1> SUFFICES ASSUME D!TypeOK, AsksOne, [D!Next]_(D!vars) PROVE AsksOne'
  OBVIOUS
<1> USE DEF D!TypeOK, AsksOne
<1>1. ASSUME NEW p \in Producers, NEW r \in Repositories,
             D!Call(p, r) \/ D!QueueIndexed(p, r) \/ D!QueuedAlready(p, r)
      PROVE  AsksOne'
  <2>1. /\ \A q \in Producers : q # p => wanted'[q] = wanted[q] /\ producer'[q] = producer[q]
        /\ \/ wanted'[p] = {r} /\ producer'[p] = "queue"
           \/ wanted'[p] = {} /\ producer'[p] # "queue"
    BY <1>1 DEF D!Call, D!QueueIndexed, D!QueuedAlready
  <2>2. QED
    BY <2>1
<1>2. ASSUME NEW p \in Producers, D!SignalIndexed(p) PROVE AsksOne'
  BY <1>2 DEF D!SignalIndexed
<1>3. ASSUME NEW w \in Workers, D!NextIndexed(w) \/ D!Observed(w) \/ D!Wake(w) PROVE AsksOne'
  BY <1>3 DEF D!NextIndexed, D!Observed, D!Wake
<1>4. CASE D!Cancel \/ UNCHANGED D!vars
  BY <1>4 DEF D!Cancel, D!vars
<1>5. QED
  BY <1>1, <1>2, <1>3, <1>4 DEF D!Next, D!ProducerStep

LEMMA IndexedStep ==
  D!TypeOK /\ InOrder /\ AsksOne /\ [D!Next]_(D!vars) => [D!Q!Next]_(D!Q!vars)
<1> SUFFICES ASSUME D!TypeOK, InOrder, AsksOne, [D!Next]_(D!vars)
             PROVE  [D!Q!Next]_(D!Q!vars)
  OBVIOUS
<1> USE DEF D!TypeOK, InOrder, HoldsOne
<1>1. ASSUME NEW p \in Producers, NEW r \in Repositories, D!Call(p, r) PROVE D!Q!Ask(p, r)
  BY <1>1 DEF AsksOne, D!Call, D!Q!Ask
<1>2. ASSUME NEW p \in Producers, NEW r \in Repositories,
             D!QueueIndexed(p, r) \/ D!QueuedAlready(p, r)
      PROVE  D!Q!Accept(p)
  <2>1. wanted[p] = {r}
    BY <1>2 DEF AsksOne, D!QueueIndexed, D!QueuedAlready
  <2>2. indexedQueued' = indexedQueued \cup {r}
    BY <1>2 DEF D!QueueIndexed, D!QueuedAlready, D!MayQueue
  <2>3. QED
    BY <1>2, <2>1, <2>2 DEF D!QueueIndexed, D!QueuedAlready, D!Q!Accept
<1>3. ASSUME NEW w \in Workers, D!NextIndexed(w), indexedPending # <<>>
      PROVE  \E r \in Repositories : D!Q!Take(w, r)
  <2>1. Head(indexedPending) \in indexedQueued
    BY <1>3, AgreeTail
  <2>2. QED
    BY <1>3, <2>1 DEF D!NextIndexed, D!Q!Take
<1>4. ASSUME NEW w \in Workers, D!Observed(w) PROVE D!Q!Finish(w)
  BY <1>4 DEF D!Observed, D!Q!Finish
<1>5. ASSUME NEW w \in Workers, (D!NextIndexed(w) /\ indexedPending = <<>>) \/ D!Wake(w)
      PROVE  UNCHANGED (D!Q!vars)
  BY <1>5 DEF D!NextIndexed, D!Wake, D!Q!vars
<1>6. ASSUME (\E p \in Producers : D!SignalIndexed(p)) \/ D!Cancel \/ UNCHANGED D!vars
      PROVE  UNCHANGED (D!Q!vars)
  BY <1>6 DEF D!SignalIndexed, D!Cancel, D!vars, D!Q!vars
<1>7. QED
  BY <1>1, <1>2, <1>3, <1>4, <1>5, <1>6 DEF D!Next, D!ProducerStep, D!Q!Next

(* The derived-index queue implements the abstract work queue: what        *)
(* queueIndexed was called for is listed when it returns, and leaves the   *)
(* list into the hands of a worker alone.  It is never started again, so   *)
(* no step may forget a request.                                           *)
THEOREM IndexedImplementsQueue == ASSUME Buffered PROVE D!Spec => D!ImplementsWorkQueue
<1>1. D!Init => D!Q!Init /\ AsksOne
  BY DEF D!Init, D!Q!Init, AsksOne
<1>2. QED
  BY <1>1, IndexedStep, IndexedInit, IndexedNext, IndexedTypes, AsksOneNext, PTL
  DEF D!Spec, D!Q!Spec, D!ImplementsWorkQueue

-----------------------------------------------------------------------------
(* TelemetryBatch.                                                         *)
(* The worker never takes a span its batch has no room for.                *)
RoomInBatch == exporting \in {"select", "received", "drained"} => batch < Batch

(* The inductive invariant: the bound of the batch rests on the room the   *)
(* worker checks before it receives, and the clamp of the depth on the     *)
(* depth being exact.                                                      *)
Counts == Sized /\ T!TypeOK /\ RoomInBatch /\ T!EverySpanIsAccounted /\ T!DepthIsExact

(* Cardinality is that of TelemetryBatch.                                  *)
LEMMA SameCardinality == \A S : T!Cardinality(S) = Cardinality(S)
BY DEF T!Cardinality, Cardinality

(* The sets of goroutines are finite, so their cardinalities are numbers.  *)
LEMMA FiniteCounts ==
  ASSUME Sized
  PROVE  /\ IsFiniteSet(T!Coming) /\ IsFiniteSet(T!Counted)
         /\ Cardinality(T!Coming) \in Nat /\ Cardinality(T!Counted) \in Nat
<1>1. T!Coming \subseteq Emitters /\ T!Counted \subseteq Emitters  BY DEF T!Coming, T!Counted
<1> QED  BY <1>1, FS_Subset, FS_CardinalityType

(* The same after a step.                                                  *)
LEMMA FiniteCountsNext ==
  ASSUME Sized
  PROVE  /\ IsFiniteSet(T!Coming') /\ IsFiniteSet(T!Counted')
         /\ Cardinality(T!Coming') \in Nat /\ Cardinality(T!Counted') \in Nat
<1>1. T!Coming' \subseteq Emitters /\ T!Counted' \subseteq Emitters  BY DEF T!Coming, T!Counted
<1> QED  BY <1>1, FS_Subset, FS_CardinalityType

(* A goroutine that leaves idle is one more that is coming.                *)
LEMMA Comes ==
  ASSUME Sized, T!TypeOK, NEW p \in Emitters, NEW label \in {"count", "send", "undo", "drop"},
         emitter[p] = "idle", T!Step(p, label)
  PROVE  Cardinality(T!Coming') = Cardinality(T!Coming) + 1
<1>1. T!Coming' = T!Coming \cup {p} /\ p \notin T!Coming  BY DEF T!TypeOK, T!Step, T!Coming
<1> QED  BY <1>1, FiniteCounts, FS_AddElement

(* One that returns to idle is one fewer.                                  *)
LEMMA Goes ==
  ASSUME Sized, T!TypeOK, NEW p \in Emitters, emitter[p] # "idle", T!Step(p, "idle")
  PROVE  Cardinality(T!Coming') = Cardinality(T!Coming) - 1
<1>1. T!Coming' = T!Coming \ {p} /\ p \in T!Coming  BY DEF T!TypeOK, T!Step, T!Coming
<1> QED  BY <1>1, FiniteCounts, FS_RemoveElement

(* A step between two other labels changes nothing.                        *)
LEMMA Continues ==
  ASSUME Sized, T!TypeOK, NEW p \in Emitters, NEW label \in {"count", "send", "undo", "drop"},
         emitter[p] # "idle", T!Step(p, label)
  PROVE  T!Coming' = T!Coming
BY DEF T!TypeOK, T!Step, T!Coming

(* The same three facts of the spans that were counted in.                 *)
LEMMA CountsIn ==
  ASSUME Sized, T!TypeOK, NEW p \in Emitters, emitter[p] = "count", T!Step(p, "send")
  PROVE  Cardinality(T!Counted') = Cardinality(T!Counted) + 1
<1>1. T!Counted' = T!Counted \cup {p} /\ p \notin T!Counted  BY DEF T!TypeOK, T!Step, T!Counted
<1> QED  BY <1>1, FiniteCounts, FS_AddElement

LEMMA CountsOut ==
  ASSUME Sized, T!TypeOK, NEW p \in Emitters, NEW label \in {"idle", "drop"},
         emitter[p] \in {"send", "undo"}, T!Step(p, label)
  PROVE  Cardinality(T!Counted') = Cardinality(T!Counted) - 1
<1>1. T!Counted' = T!Counted \ {p} /\ p \in T!Counted  BY DEF T!TypeOK, T!Step, T!Counted
<1> QED  BY <1>1, FiniteCounts, FS_RemoveElement

LEMMA StaysCounted ==
  ASSUME Sized, T!TypeOK, NEW p \in Emitters, NEW label,
         emitter[p] \in {"send", "undo"} <=> label \in {"send", "undo"}, T!Step(p, label)
  PROVE  T!Counted' = T!Counted
BY DEF T!TypeOK, T!Step, T!Counted

-----------------------------------------------------------------------------
(* The invariant holds at the start: nobody is coming.                     *)
LEMMA CountsInit == ASSUME Sized, T!Init PROVE Counts
<1>1. /\ emitter \in [Emitters -> {"idle", "count", "send", "undo", "drop"}]
      /\ caller \in [T!Callers -> {"idle", "ask", "wait"}]
  BY DEF T!Init
<1>2. RoomInBatch  BY DEF T!Init, RoomInBatch
<1>3. T!TypeOK
  <2>1. channel \in 0..SpanCapacity /\ batch \in 0..Batch /\ depth \in Nat
    BY DEF T!Init
  <2>2. dropped \in Nat /\ failed \in Nat /\ exported \in Nat /\ ended \in Nat /\ entered \in Nat
    BY DEF T!Init
  <2>3. /\ stopped \in BOOLEAN /\ purpose \in {"full", "timer"} \cup T!Callers
        /\ exporting \in {"select", "received", "drain", "drained", "export", "done"}
    BY DEF T!Init
  <2> QED  BY <1>1, <2>1, <2>2, <2>3 DEF T!TypeOK
<1>4. T!Coming = {} /\ T!Counted = {}  BY DEF T!Init, T!Coming, T!Counted
<1>5. Cardinality(T!Coming) = 0 /\ Cardinality(T!Counted) = 0  BY <1>4, FS_EmptySet
<1> QED  BY <1>2, <1>3, <1>5, SameCardinality DEF T!Init, Counts, T!EverySpanIsAccounted, T!DepthIsExact, T!InHand

(* Types and the room in the batch, for the goroutines.                    *)
LEMMA ProducerTypes ==
  ASSUME Counts, NEW p \in Emitters, T!OnEnd(p) \/ T!Emit(p)
  PROVE  T!TypeOK' /\ RoomInBatch'
<1> USE DEF Counts, T!TypeOK, RoomInBatch, T!Step, T!counts
<1>1. CASE T!OnEnd(p)  BY <1>1 DEF T!OnEnd
<1>2. CASE T!Count(p)  BY <1>2 DEF T!Count
<1>3. CASE T!Send(p)   BY <1>3 DEF T!Send
<1>4. CASE T!Undo(p)   BY <1>4 DEF T!Undo, T!Less
<1>5. CASE T!Drop(p)   BY <1>5 DEF T!Drop
<1> QED  BY <1>1, <1>2, <1>3, <1>4, <1>5 DEF T!Emit

(* Types and the room in the batch, for the worker.                        *)
LEMMA WorkerTypes ==
  ASSUME Counts, T!Work
  PROVE  T!TypeOK' /\ RoomInBatch'
<1> USE DEF Counts, T!TypeOK, RoomInBatch, T!counts
<1>1. CASE T!Receive    BY <1>1 DEF T!Receive
<1>2. CASE T!Received   BY <1>2 DEF T!Received, T!Less, T!Full
<1>3. CASE T!Timer      BY <1>3 DEF T!Timer
<1>4. CASE T!DrainOne   BY <1>4 DEF T!DrainOne, T!Full
<1>5. CASE T!Drained    BY <1>5 DEF T!Drained, T!Less
<1>6. CASE T!DrainEnds  BY <1>6 DEF T!DrainEnds
<1>7. CASE T!Export
  <2>1. caller' \in [T!Callers -> {"idle", "ask", "wait"}]
    BY <1>7 DEF T!Export, T!Answered
  <2>2. batch' = 0 /\ failed' \in Nat /\ exported' \in Nat
    BY <1>7 DEF T!Export
  <2> QED  BY <1>7, <2>1, <2>2 DEF T!Export
<1> QED  BY <1>1, <1>2, <1>3, <1>4, <1>5, <1>6, <1>7 DEF T!Work

(* Types and the room in the batch, for the callers.                       *)
LEMMA CallerTypes ==
  ASSUME Counts, (\E c \in Flushers : T!ForceFlush(c)) \/ T!Shutdown
                 \/ \E c \in T!Callers : T!HandOver(c) \/ T!GiveUp(c)
  PROVE  T!TypeOK' /\ RoomInBatch'
<1> USE DEF Counts, T!TypeOK, RoomInBatch, T!counts, T!Callers
<1>1. CASE \E c \in Flushers : T!ForceFlush(c)  BY <1>1 DEF T!ForceFlush
<1>2. CASE T!Shutdown  BY <1>2 DEF T!Shutdown, T!InHand
<1>3. CASE \E c \in T!Callers : T!HandOver(c)  BY <1>3 DEF T!HandOver
<1>4. CASE \E c \in T!Callers : T!GiveUp(c)  BY <1>4 DEF T!GiveUp
<1> QED  BY <1>1, <1>2, <1>3, <1>4

-----------------------------------------------------------------------------
(* What the goroutines do keeps the counts.                                *)
LEMMA ProducerCounts ==
  ASSUME Counts, NEW p \in Emitters, T!OnEnd(p) \/ T!Emit(p)
  PROVE  T!EverySpanIsAccounted' /\ T!DepthIsExact'
<1> DEFINE a == Cardinality(T!Coming)
           b == Cardinality(T!Counted)
<1>0. /\ Sized /\ T!TypeOK
      /\ a \in Nat /\ b \in Nat /\ a' \in Nat /\ b' \in Nat
      /\ ended = exported + failed + dropped + batch + channel + T!InHand + a
      /\ depth = channel + T!InHand + b
  BY FiniteCounts, FiniteCountsNext, SameCardinality DEF Counts, T!EverySpanIsAccounted, T!DepthIsExact
<1>1. T!InHand' = T!InHand /\ T!InHand \in Nat
  BY DEF T!InHand, T!OnEnd, T!Emit, T!Count, T!Send, T!Undo, T!Drop
<1>2. SUFFICES
        /\ ended' = exported' + failed' + dropped' + batch' + channel' + T!InHand + a'
        /\ depth' = channel' + T!InHand + b'
  BY <1>1, SameCardinality DEF T!EverySpanIsAccounted, T!DepthIsExact
<1>3. CASE T!OnEnd(p)
  <2>1. a' = a + 1  BY <1>0, <1>3, Comes DEF T!OnEnd
  <2>2. b' = b  BY <1>0, <1>3, StaysCounted DEF T!OnEnd
  <2> HIDE DEF a, b
  <2> QED  BY <1>0, <1>1, <1>3, <2>1, <2>2 DEF T!OnEnd, T!TypeOK
<1>4. CASE T!Count(p)
  <2>1. a' = a  BY <1>0, <1>4, Continues DEF T!Count
  <2>2. b' = b + 1  BY <1>0, <1>4, CountsIn DEF T!Count
  <2> HIDE DEF a, b
  <2> QED  BY <1>0, <1>1, <1>4, <2>1, <2>2 DEF T!Count, T!counts, T!TypeOK
<1>5. CASE T!Send(p) /\ channel < SpanCapacity
  <2>1. a' = a - 1  BY <1>0, <1>5, Goes DEF T!Send
  <2>2. b' = b - 1  BY <1>0, <1>5, CountsOut DEF T!Send
  <2> HIDE DEF a, b
  <2> QED  BY <1>0, <1>1, <1>5, <2>1, <2>2 DEF T!Send, T!counts, T!TypeOK
<1>6. CASE T!Send(p) /\ ~(channel < SpanCapacity)
  <2>1. a' = a  BY <1>0, <1>6, Continues DEF T!Send
  <2>2. b' = b  BY <1>0, <1>6, StaysCounted DEF T!Send
  <2> HIDE DEF a, b
  <2> QED  BY <1>0, <1>1, <1>6, <2>1, <2>2 DEF T!Send, T!counts, T!TypeOK
<1>7. CASE T!Undo(p)
  <2>1. a' = a  BY <1>0, <1>7, Continues DEF T!Undo
  <2>2. b' = b - 1  BY <1>0, <1>7, CountsOut DEF T!Undo
  <2> HIDE DEF a, b
  <2> QED  BY <1>0, <1>1, <1>7, <2>1, <2>2 DEF T!Undo, T!Less, T!counts, T!TypeOK
<1>8. CASE T!Drop(p)
  <2>1. a' = a - 1  BY <1>0, <1>8, Goes DEF T!Drop
  <2>2. b' = b  BY <1>0, <1>8, StaysCounted DEF T!Drop
  <2> HIDE DEF a, b
  <2> QED  BY <1>0, <1>1, <1>8, <2>1, <2>2 DEF T!Drop, T!TypeOK
<1> QED  BY <1>3, <1>4, <1>5, <1>6, <1>7, <1>8 DEF T!Emit

(* What the worker does keeps the counts: a span in its hand was received  *)
(* and not counted out.                                                    *)
LEMMA WorkerCounts ==
  ASSUME Counts, T!Work
  PROVE  T!EverySpanIsAccounted' /\ T!DepthIsExact'
<1> DEFINE a == Cardinality(T!Coming)
           b == Cardinality(T!Counted)
<1>0. /\ Sized /\ T!TypeOK
      /\ a \in Nat /\ b \in Nat
      /\ ended = exported + failed + dropped + batch + channel + T!InHand + a
      /\ depth = channel + T!InHand + b
  BY FiniteCounts, SameCardinality DEF Counts, T!EverySpanIsAccounted, T!DepthIsExact
<1>1. a' = a /\ b' = b
  BY DEF T!Work, T!Receive, T!Received, T!Timer, T!DrainOne, T!Drained, T!DrainEnds, T!Export,
         T!Coming, T!Counted
<1>2. SUFFICES
        /\ ended' = exported' + failed' + dropped' + batch' + channel' + T!InHand' + a
        /\ depth' = channel' + T!InHand' + b
  BY <1>1, SameCardinality DEF T!EverySpanIsAccounted, T!DepthIsExact
<1> HIDE DEF a, b
<1> USE <1>0 DEF T!TypeOK, T!InHand, T!counts
<1>3. CASE T!Receive    BY <1>3 DEF T!Receive
<1>4. CASE T!Received   BY <1>4 DEF T!Received, T!Less
<1>5. CASE T!Timer      BY <1>5 DEF T!Timer
<1>6. CASE T!DrainOne   BY <1>6 DEF T!DrainOne
<1>7. CASE T!Drained    BY <1>7 DEF T!Drained, T!Less
<1>8. CASE T!DrainEnds  BY <1>8 DEF T!DrainEnds
<1>9. CASE T!Export     BY <1>9 DEF T!Export
<1> QED  BY <1>3, <1>4, <1>5, <1>6, <1>7, <1>8, <1>9 DEF T!Work

(* The callers touch no count.                                             *)
LEMMA CallerCounts ==
  ASSUME Counts, (\E c \in Flushers : T!ForceFlush(c)) \/ T!Shutdown
                 \/ \E c \in T!Callers : T!HandOver(c) \/ T!GiveUp(c)
  PROVE  T!EverySpanIsAccounted' /\ T!DepthIsExact'
<1>1. /\ UNCHANGED <<channel, batch, depth, dropped, failed, exported, ended, emitter>>
      /\ T!InHand' = T!InHand
  BY DEF T!ForceFlush, T!Shutdown, T!HandOver, T!GiveUp, T!counts, T!InHand
<1> QED  BY <1>1 DEF Counts, T!EverySpanIsAccounted, T!DepthIsExact, T!Coming, T!Counted

-----------------------------------------------------------------------------
(* Every step keeps the invariant.                                         *)
LEMMA CountsStep == Counts /\ [T!Next]_(T!vars) => Counts'
<1> SUFFICES ASSUME Counts, [T!Next]_(T!vars) PROVE Counts'
  OBVIOUS
<1>1. CASE \E p \in Emitters : T!OnEnd(p) \/ T!Emit(p)
  BY <1>1, ProducerTypes, ProducerCounts DEF Counts
<1>2. CASE T!Work
  BY <1>2, WorkerTypes, WorkerCounts DEF Counts
<1>3. CASE (\E c \in Flushers : T!ForceFlush(c)) \/ T!Shutdown
             \/ \E c \in T!Callers : T!HandOver(c) \/ T!GiveUp(c)
  BY <1>3, CallerTypes, CallerCounts DEF Counts
<1>4. CASE UNCHANGED T!vars
  BY <1>4 DEF T!vars, T!counts, Counts, T!TypeOK, RoomInBatch, T!EverySpanIsAccounted,
              T!DepthIsExact, T!InHand, T!Coming, T!Counted
<1> QED  BY <1>1, <1>2, <1>3, <1>4 DEF T!Next, T!Work

(* The invariant holds in every behaviour.                                 *)
LEMMA CountsHold == ASSUME Sized PROVE T!Spec => []Counts
<1>1. T!Init => Counts  BY CountsInit
<1> QED  BY <1>1, CountsStep, PTL DEF T!Spec

(* Types: the channel and the batch keep to their sizes.                   *)
THEOREM SpanTypes == ASSUME Sized PROVE T!Spec => []T!TypeOK
<1>1. Counts => T!TypeOK  BY DEF Counts
<1> QED  BY <1>1, CountsHold, PTL

(* No span that ended before the stop is lost from the counts shown to     *)
(* administrators.                                                         *)
THEOREM SpansAreAccounted == ASSUME Sized PROVE T!Spec => []T!EverySpanIsAccounted
<1>1. Counts => T!EverySpanIsAccounted  BY DEF Counts
<1> QED  BY <1>1, CountsHold, PTL

(* The depth shown is exact, and its clamp at zero is never needed.        *)
THEOREM DepthHolds == ASSUME Sized PROVE T!Spec => []T!DepthIsExact
<1>1. Counts => T!DepthIsExact  BY DEF Counts
<1> QED  BY <1>1, CountsHold, PTL
=============================================================================
