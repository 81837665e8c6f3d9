--------------------------- MODULE TelemetryBatch ---------------------------
(***************************************************************************)
(* The batch processors of telemetry (telemetry/batch.go): traces and logs *)
(* run the same code.  Goroutines that end a span put it on a bounded      *)
(* channel without waiting, one worker collects batches and exports them,  *)
(* and ForceFlush and Shutdown hand the worker a request over an           *)
(* unbuffered channel.  Spans are alike: counts stand for them.            *)
(***************************************************************************)
EXTENDS Integers, FiniteSets

CONSTANTS Producers, \* goroutines that end spans
          Flushers,  \* goroutines that call ForceFlush
          Stopper,   \* the goroutine that calls Shutdown
          Capacity,  \* state.queueCapacity()
          Batch,     \* processor.batch
          MaxSpans   \* bound: spans that end

Callers == Flushers \cup {Stopper}

ASSUME ProducersAssumption == IsFiniteSet(Producers)
ASSUME StopperAssumption == Stopper \notin Flushers
ASSUME SizesAssumption == Capacity \in Nat \ {0} /\ Batch \in Nat \ {0} /\ MaxSpans \in Nat

VARIABLES
  stopped,  \* processor.stopped
  queue,    \* spans in processor.queue
  batch,    \* spans in the worker's batch
  depth,    \* deliveryState.queueDepth
  dropped,  \* deliveryState.droppedItems
  failed,   \* deliveryState.failedExportItems
  exported, \* spans the exporter took
  ended,    \* sampled spans that ended before the processor was stopped
  pending,  \* spans that had entered the channel when Shutdown was called
  producer, \* "idle", "count", "send", "undo", "drop"
  worker,   \* "select", "received", "drain", "drained", "export", "done"
  purpose,  \* why the worker drains or exports: "full", "timer", or the caller it answers
  caller    \* "idle", "ask", "wait" of each caller

counts == <<dropped, failed, exported, ended, pending>>
vars == <<stopped, queue, batch, depth, dropped, failed, exported, ended, pending,
          producer, worker, purpose, caller>>

Init ==
  /\ stopped = FALSE
  /\ queue = 0 /\ batch = 0 /\ depth = 0
  /\ dropped = 0 /\ failed = 0 /\ exported = 0 /\ ended = 0 /\ pending = 0
  /\ producer = [p \in Producers |-> "idle"]
  /\ worker = "select"
  /\ purpose = "full"
  /\ caller = [c \in Callers |-> "idle"]

-----------------------------------------------------------------------------
(* OnEnd, OnEmit.                                                          *)

Step(p, label) == producer' = [producer EXCEPT ![p] = label]

(* Nothing happens to a span that ends after the processor was stopped.    *)
OnEnd(p) ==
  /\ producer[p] = "idle"
  /\ ~stopped
  /\ ended < MaxSpans
  /\ ended' = ended + 1
  /\ Step(p, "count")
  /\ UNCHANGED <<stopped, queue, batch, depth, dropped, failed, exported, pending,
                 worker, purpose, caller>>

Count(p) ==
  /\ producer[p] = "count"
  /\ depth' = depth + 1
  /\ Step(p, "send")
  /\ UNCHANGED <<stopped, queue, batch, counts, worker, purpose, caller>>

(* The select with a default: a full channel refuses the span.             *)
Send(p) ==
  /\ producer[p] = "send"
  /\ IF queue < Capacity
       THEN queue' = queue + 1 /\ Step(p, "idle")
       ELSE UNCHANGED queue /\ Step(p, "undo")
  /\ UNCHANGED <<stopped, batch, depth, counts, worker, purpose, caller>>

(* queued(-1) never lets the depth fall under zero.                        *)
Less(n) == IF n > 0 THEN n - 1 ELSE 0

Undo(p) ==
  /\ producer[p] = "undo"
  /\ depth' = Less(depth)
  /\ Step(p, "drop")
  /\ UNCHANGED <<stopped, queue, batch, counts, worker, purpose, caller>>

\* Mutant of Drop.
ForgetDrop(p) ==
  /\ producer[p] = "drop"
  /\ Step(p, "idle")
  /\ UNCHANGED <<stopped, queue, batch, depth, counts, worker, purpose, caller>>

Drop(p) ==
  /\ producer[p] = "drop"
  /\ dropped' = dropped + 1
  /\ Step(p, "idle")
  /\ UNCHANGED <<stopped, queue, batch, depth, failed, exported, ended, pending,
                 worker, purpose, caller>>

-----------------------------------------------------------------------------
(* The worker.                                                             *)

Full(n) == n >= Batch

(* The receive of the select.                                              *)
Receive ==
  /\ worker = "select"
  /\ queue > 0
  /\ queue' = queue - 1
  /\ worker' = "received"
  /\ UNCHANGED <<stopped, batch, depth, counts, producer, purpose, caller>>

Received ==
  /\ worker = "received"
  /\ depth' = Less(depth)
  /\ batch' = batch + 1
  /\ purpose' = "full"
  /\ worker' = IF Full(batch') THEN "export" ELSE "select"
  /\ UNCHANGED <<stopped, queue, counts, producer, caller>>

Timer ==
  /\ worker = "select"
  /\ purpose' = "timer"
  /\ worker' = "drain"
  /\ UNCHANGED <<stopped, queue, batch, depth, counts, producer, caller>>

(* drain: up to one batch leaves the channel.                              *)
DrainOne ==
  /\ worker = "drain"
  /\ ~Full(batch) /\ queue > 0
  /\ queue' = queue - 1
  /\ worker' = "drained"
  /\ UNCHANGED <<stopped, batch, depth, counts, producer, purpose, caller>>

Drained ==
  /\ worker = "drained"
  /\ depth' = Less(depth)
  /\ batch' = batch + 1
  /\ worker' = "drain"
  /\ UNCHANGED <<stopped, queue, counts, producer, purpose, caller>>

DrainEnds ==
  /\ worker = "drain"
  /\ Full(batch) \/ queue = 0
  /\ worker' = "export"
  /\ UNCHANGED <<stopped, queue, batch, depth, counts, producer, purpose, caller>>

(* The worker answers the caller it drained for, if it still waits.        *)
\* Mutant of Answered.
Unanswered == caller
Answered ==
  [c \in Callers |-> IF c = purpose /\ caller[c] = "wait" THEN "idle" ELSE caller[c]]

(* export: the batch is empty afterwards whether the exporter took it or   *)
(* not.  After the answer to Shutdown the worker returns.                  *)
Export ==
  /\ worker = "export"
  /\ batch' = 0
  /\ \/ exported' = exported + batch /\ UNCHANGED failed
     \/ batch > 0 /\ failed' = failed + batch /\ UNCHANGED exported
  /\ worker' = IF purpose = Stopper THEN "done" ELSE "select"
  /\ caller' = Answered
  /\ purpose' = "full"
  /\ UNCHANGED <<stopped, queue, depth, dropped, ended, pending, producer>>

-----------------------------------------------------------------------------
(* The span the worker received and has not put into its batch.            *)
InHand == IF worker \in {"received", "drained"} THEN 1 ELSE 0

(* ForceFlush, Shutdown, requestFlush.                                     *)

ForceFlush(c) ==
  /\ caller[c] = "idle"
  /\ ~stopped
  /\ caller' = [caller EXCEPT ![c] = "ask"]
  /\ UNCHANGED <<stopped, queue, batch, depth, counts, producer, worker, purpose>>

Shutdown ==
  /\ ~stopped
  /\ stopped' = TRUE
  /\ pending' = exported + failed + batch + InHand + queue
  /\ caller' = [caller EXCEPT ![Stopper] = "ask"]
  /\ UNCHANGED <<queue, batch, depth, dropped, failed, exported, ended,
                 producer, worker, purpose>>

HandOver(c) ==
  /\ caller[c] = "ask"
  /\ worker = "select"
  /\ purpose' = c
  /\ worker' = "drain"
  /\ caller' = [caller EXCEPT ![c] = "wait"]
  /\ UNCHANGED <<stopped, queue, batch, depth, counts, producer>>

(* The context of the caller ends before the request is answered.  The     *)
(* worker keeps a request it was handed.                                   *)
GiveUp(c) ==
  /\ caller[c] \in {"ask", "wait"}
  /\ caller' = [caller EXCEPT ![c] = "idle"]
  /\ UNCHANGED <<stopped, queue, batch, depth, counts, producer, worker, purpose>>

-----------------------------------------------------------------------------
Work == Receive \/ Received \/ Timer \/ DrainOne \/ Drained \/ DrainEnds \/ Export

Emit(p) == Count(p) \/ Send(p) \/ Undo(p) \/ Drop(p)

Next ==
  \/ \E p \in Producers : OnEnd(p) \/ Emit(p)
  \/ Receive \/ Received \/ Timer \/ DrainOne \/ Drained \/ DrainEnds \/ Export
  \/ \E c \in Flushers : ForceFlush(c)
  \/ Shutdown
  \/ \E c \in Callers : HandOver(c) \/ GiveUp(c)

(* Goroutines are scheduled and an export ends.  A select chooses at       *)
(* random among what is ready, so a caller that keeps asking is heard.  A  *)
(* context need not end.                                                   *)
Fairness ==
  /\ WF_vars(Work)
  /\ \A p \in Producers : WF_vars(Emit(p))
  /\ \A c \in Callers : SF_vars(HandOver(c))

Spec == Init /\ [][Next]_vars
FairSpec == Spec /\ Fairness

-----------------------------------------------------------------------------
TypeOK ==
  /\ stopped \in BOOLEAN
  /\ queue \in 0..Capacity /\ batch \in 0..Batch /\ depth \in Nat
  /\ dropped \in Nat /\ failed \in Nat /\ exported \in Nat
  /\ ended \in Nat /\ pending \in Nat
  /\ producer \in [Producers -> {"idle", "count", "send", "undo", "drop"}]
  /\ worker \in {"select", "received", "drain", "drained", "export", "done"}
  /\ purpose \in {"full", "timer"} \cup Callers
  /\ caller \in [Callers -> {"idle", "ask", "wait"}]

(* The goroutines whose span has ended, and those that counted it in.      *)
Coming == {p \in Producers : producer[p] # "idle"}
Counted == {p \in Producers : producer[p] \in {"send", "undo"}}

(* Every span that ended before the stop is somewhere: exported, counted   *)
(* as failed or dropped, on its way, in the batch or in the channel (OnEnd, *)
(* run, record).                                                           *)
EverySpanIsAccounted ==
  ended = exported + failed + dropped + batch + queue + InHand
            + Cardinality(Coming)

(* The depth shown to administrators is the length of the channel and the  *)
(* spans on the way in or out; it never needed the clamp at zero (queued,  *)
(* called before the send and after the receive).                          *)
DepthIsExact ==
  depth = queue + InHand + Cardinality(Counted)

(* What was pending when Shutdown was called was given to the exporter     *)
(* when the worker returns (Shutdown, run).                                *)
ShutdownFlushes == worker = "done" => exported + failed >= pending

(* Shutdown returns even if its context never ends: no export, no timer    *)
(* and no flood of spans keeps the worker from hearing it (run).           *)
ShutdownReturns == caller[Stopper] = "ask" ~> caller[Stopper] = "idle"
=============================================================================
