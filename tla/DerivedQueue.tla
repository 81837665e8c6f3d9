---------------------------- MODULE DerivedQueue ----------------------------
(***************************************************************************)
(* The derived-index queue of search.Coordinator (queueIndexed,            *)
(* nextIndexed, observeIndexed, observeIndexedWorker).                     *)
(*                                                                         *)
(* Producers are the goroutines that call queueIndexed: indexRepository    *)
(* after a repository became ready, and Start for the repositories that    *)
(* already were.  Workers are the goroutines of observeIndexed.  The call, *)
(* the list and the set under indexedMu, and the send on indexedSignal     *)
(* after the unlock are a step each.                                       *)
(***************************************************************************)
EXTENDS Naturals, Sequences

CONSTANTS Repositories,   \* repository IDs
          Producers,      \* goroutines that call queueIndexed
          Workers,        \* goroutines started by observeIndexed
          SignalCapacity  \* buffer of indexedSignal

ASSUME WorkersAssumption == Workers # {}
ASSUME CapacityAssumption == SignalCapacity \in Nat \ {0}

VARIABLES
  pending,   \* indexedPending
  queued,    \* keys of indexedQueued
  signal,    \* tokens buffered in indexedSignal
  cancelled, \* ctx.Done() is closed
  producer,  \* pc of each producer: "idle", "queue" or "signal"
  wanted,    \* the repository of its call, while it waits for indexedMu
  worker,    \* pc of each worker: "next", "observe", "wait", "done"
  holding    \* the repository a worker observes, while it does

vars == <<pending, queued, signal, cancelled, producer, wanted, worker, holding>>

-----------------------------------------------------------------------------
Init ==
  /\ pending = <<>>
  /\ queued = {}
  /\ signal = 0
  /\ cancelled = FALSE
  /\ producer = [p \in Producers |-> "idle"]
  /\ wanted = [p \in Producers |-> {}]
  /\ worker = [w \in Workers |-> "next"]
  /\ holding = [w \in Workers |-> {}]

\* Mutants of MayQueue and of Sent.
MayQueueIdle(r) == r \notin queued /\ \A w \in Workers : r \notin holding[w]
SkipsSignal(s) == s + 0
(* A repository already in indexedQueued is not listed again.              *)
MayQueue(r) == r \notin queued

(* The buffered tokens after a successful send on indexedSignal.           *)
Sent(s) == s + 1

(* queueIndexed is called.                                                 *)
Call(p, r) ==
  /\ producer[p] = "idle"
  /\ producer' = [producer EXCEPT ![p] = "queue"]
  /\ wanted' = [wanted EXCEPT ![p] = {r}]
  /\ UNCHANGED <<pending, queued, signal, cancelled, worker, holding>>

(* queueIndexed, up to the unlock: the repository joins the set and the    *)
(* end of the list,                                                        *)
QueueIndexed(p, r) ==
  /\ producer[p] = "queue" /\ r \in wanted[p]
  /\ MayQueue(r)
  /\ queued' = queued \cup {r}
  /\ pending' = Append(pending, r)
  /\ producer' = [producer EXCEPT ![p] = "signal"]
  /\ wanted' = [wanted EXCEPT ![p] = {}]
  /\ UNCHANGED <<signal, cancelled, worker, holding>>

(* or is left alone if it is queued already.                               *)
QueuedAlready(p, r) ==
  /\ producer[p] = "queue" /\ r \in wanted[p]
  /\ ~MayQueue(r)
  /\ producer' = [producer EXCEPT ![p] = "idle"]
  /\ wanted' = [wanted EXCEPT ![p] = {}]
  /\ UNCHANGED <<pending, queued, signal, cancelled, worker, holding>>

(* queueIndexed, the select: the token is sent if the buffer has room; a   *)
(* full buffer takes the default branch; a cancelled context may be chosen *)
(* instead of the send.                                                    *)
SignalIndexed(p) ==
  /\ producer[p] = "signal"
  /\ producer' = [producer EXCEPT ![p] = "idle"]
  /\ \/ signal < SignalCapacity /\ signal' = Sent(signal)
     \/ (signal = SignalCapacity \/ cancelled) /\ UNCHANGED signal
  /\ UNCHANGED <<pending, queued, cancelled, wanted, worker, holding>>

(* nextIndexed: the head of the list leaves the list and the set, or the   *)
(* worker goes on to wait.                                                 *)
NextIndexed(w) ==
  /\ worker[w] = "next"
  /\ IF pending = <<>>
       THEN /\ worker' = [worker EXCEPT ![w] = "wait"]
            /\ UNCHANGED <<pending, queued, holding>>
       ELSE /\ pending' = Tail(pending)
            /\ queued' = queued \ {Head(pending)}
            /\ holding' = [holding EXCEPT ![w] = {Head(pending)}]
            /\ worker' = [worker EXCEPT ![w] = "observe"]
  /\ UNCHANGED <<signal, cancelled, producer, wanted>>

(* The observer callback returns; an error is logged and changes nothing.  *)
Observed(w) ==
  /\ worker[w] = "observe"
  /\ worker' = [worker EXCEPT ![w] = "next"]
  /\ holding' = [holding EXCEPT ![w] = {}]
  /\ UNCHANGED <<pending, queued, signal, cancelled, producer, wanted>>

(* The worker's select: a buffered token, or the closed context.           *)
Wake(w) ==
  /\ worker[w] = "wait"
  /\ \/ /\ signal > 0
        /\ signal' = signal - 1
        /\ worker' = [worker EXCEPT ![w] = "next"]
     \/ /\ cancelled
        /\ worker' = [worker EXCEPT ![w] = "done"]
        /\ UNCHANGED signal
  /\ UNCHANGED <<pending, queued, cancelled, producer, wanted, holding>>

Cancel ==
  /\ ~cancelled
  /\ cancelled' = TRUE
  /\ UNCHANGED <<pending, queued, signal, producer, wanted, worker, holding>>

ProducerStep(p) ==
  \/ \E r \in Repositories : QueueIndexed(p, r) \/ QueuedAlready(p, r)
  \/ SignalIndexed(p)

Next ==
  \/ \E p \in Producers, r \in Repositories : Call(p, r)
  \/ \E p \in Producers : ProducerStep(p)
  \/ \E w \in Workers : NextIndexed(w) \/ Observed(w) \/ Wake(w)
  \/ Cancel

(* Goroutines are scheduled; the observer callback is bounded work.  A     *)
(* producer is not obliged to call queueIndexed, nobody has to cancel.     *)
Fairness ==
  /\ \A p \in Producers : WF_vars(ProducerStep(p))
  /\ \A w \in Workers : WF_vars(NextIndexed(w) \/ Observed(w) \/ Wake(w))

Spec == Init /\ [][Next]_vars
FairSpec == Spec /\ Fairness

-----------------------------------------------------------------------------
TypeOK ==
  /\ pending \in Seq(Repositories)
  /\ queued \in SUBSET Repositories
  /\ signal \in 0..SignalCapacity
  /\ cancelled \in BOOLEAN
  /\ producer \in [Producers -> {"idle", "queue", "signal"}]
  /\ wanted \in [Producers -> SUBSET Repositories]
  /\ worker \in [Workers -> {"next", "observe", "wait", "done"}]
  /\ holding \in [Workers -> SUBSET Repositories]

(* The set indexedQueued and the list indexedPending agree and the list    *)
(* has no duplicate, so a repository is never queued twice nor refused     *)
(* while it is not in the list (queueIndexed, nextIndexed).                *)
QueueMatchesSet ==
  /\ queued = {pending[i] : i \in 1..Len(pending)}
  /\ \A i, j \in 1..Len(pending) : pending[i] = pending[j] => i = j

(* No wakeup is lost: while work is listed, some worker is on its way to   *)
(* look at the list, or a token is buffered, or the producer that listed   *)
(* it has still to signal, or the service is shutting down.                *)
NoLostWakeup ==
  pending # <<>> =>
    \/ cancelled
    \/ signal > 0
    \/ \E w \in Workers : worker[w] \in {"next", "observe"}
    \/ \E p \in Producers : producer[p] = "signal"

(* What queueIndexed is called for is taken by a worker, unless the        *)
(* service stops.                                                          *)
QueuedIsObserved ==
  \A r \in Repositories :
    (r \in queued \/ \E p \in Producers : r \in wanted[p])
      ~> (cancelled \/ \E w \in Workers : holding[w] = {r})

(* The queue promises what every background queue promises (WorkQueue),    *)
(* and never forgets a request: it is memory of a process that is not      *)
(* started again.  Two workers may observe one repository at once: it is   *)
(* queued again while the first still does.                                *)
Q == INSTANCE WorkQueue WITH
       Items <- Repositories, Callers <- Producers, Exclusive <- FALSE,
       asked <- wanted, owed <- queued, busy <- holding, starts <- 0

ImplementsWorkQueue == Q!Spec
=============================================================================
