----------------------------- MODULE Acquisition -----------------------------
(***************************************************************************)
(* Repository acquisition (acquisition/service.go, store/acquisition.go):  *)
(* the registry rows, the checkouts RepoKarta owns, the operations that    *)
(* run one at a time under the mutex operation, and the scheduled          *)
(* synchronisation, which works on a list it read earlier.                 *)
(*                                                                         *)
(* A commit stands for the revision a checkout is at.  A crash keeps the   *)
(* rows and the directories and loses the operation.                       *)
(***************************************************************************)
EXTENDS Naturals

CONSTANTS Owned,      \* provider repositories, cloned by RepoKarta
          Local,      \* repositories of the user, never touched
          Configured, \* owned ones on a host other than github.com and gitlab.com
          Commits,
          MaxMoves,   \* bound: commits that arrive, deletions and restorations by the
              \* user, and failures of git
          MaxCrashes  \* bound

ASSUME KindsAssumption == Owned \cap Local = {} /\ Configured \subseteq Owned
ASSUME BoundAssumption == MaxMoves \in Nat /\ MaxCrashes \in Nat

None == "none"
ASSUME NamesAssumption == None \notin Commits /\ None \notin Owned \cup Local

VARIABLES
  state,    \* state of each row, None without a row
  head,     \* head_commit of each row
  due,      \* next_sync_at is not in the future
  remote,   \* default branch at the provider
  checkout, \* commit of the directory at checkout_path, None without one
  unread,   \* owned checkouts that catalog.Inspect fails for
  op,       \* the operation that holds the mutex
  listing,  \* what the scheduler has still to synchronise of its list
  moves,    \* of the world outside, so far
  crashes,
  unclean,  \* repositories whose removal was cut short after the move to trash
  faulty    \* repositories some step of whose last operation failed

rows == <<state, head, due>>
outside == <<remote, unread, moves, crashes>>
vars == <<rows, outside, checkout, op, listing, unclean, faulty>>

Repositories == Owned \cup Local
Managed(r) == state[r] # None

NoOp == [kind |-> None, repo |-> None, at |-> None, got |-> None, before |-> None]
Idle == op = NoOp

(* CatalogueRepositories: what a refresh of the catalogue is told of; a    *)
(* repository that cannot be inspected is passed over.                     *)
Inspected(r) == checkout[r] # None /\ r \notin unread
\* Mutant of Catalogued.
CataloguedReady(r) == state[r] \notin {None, "acquiring", "error"} /\ Inspected(r)
Catalogued(r) == state[r] \notin {None, "acquiring"} /\ Inspected(r)

Init ==
  /\ state = [r \in Repositories |-> None]
  /\ head = [r \in Repositories |-> None]
  /\ due = [r \in Repositories |-> TRUE]
  /\ remote \in [Repositories -> Commits]
  /\ checkout = [r \in Repositories |-> IF r \in Local THEN remote[r] ELSE None]
  /\ unread = {}
  /\ op = NoOp
  /\ listing = {}
  /\ moves = 0
  /\ crashes = 0
  /\ unclean = {}
  /\ faulty = {}

-----------------------------------------------------------------------------
(* The world outside.                                                      *)

Moves == moves < MaxMoves /\ moves' = moves + 1

RemoteMoves ==
  /\ Moves
  /\ \E r \in Owned, c \in Commits : remote' = [remote EXCEPT ![r] = c]
  /\ UNCHANGED <<rows, unread, crashes, checkout, op, listing, unclean, faulty>>

(* The user commits, deletes or restores a local repository.               *)
UserMoves ==
  /\ Moves
  /\ \E r \in Local, c \in Commits \cup {None} : checkout' = [checkout EXCEPT ![r] = c]
  /\ UNCHANGED <<rows, remote, unread, crashes, op, listing, unclean, faulty>>

(* Git or the disk fails for a checkout, and works again.                  *)
GitBreaks(r) ==
  /\ Moves
  /\ r \notin unread
  /\ unread' = unread \cup {r}
  /\ UNCHANGED <<rows, remote, crashes, checkout, op, listing, unclean, faulty>>

GitMends(r) ==
  /\ r \in unread
  /\ unread' = unread \ {r}
  /\ UNCHANGED <<rows, remote, moves, crashes, checkout, op, listing, unclean, faulty>>

BackoffEnds(r) ==
  /\ ~due[r]
  /\ due' = [due EXCEPT ![r] = TRUE]
  /\ UNCHANGED <<state, head, outside, checkout, op, listing, unclean, faulty>>

Crash ==
  /\ crashes < MaxCrashes
  /\ crashes' = crashes + 1
  /\ op' = NoOp
  /\ listing' = {}
  /\ unclean' = unclean \cup (IF op.at = "delete" /\ op.got # None THEN {op.repo} ELSE {})
  /\ UNCHANGED <<rows, remote, unread, moves, checkout, faulty>>

-----------------------------------------------------------------------------
(* Acquire and Sync.                                                       *)

(* A candidate that is managed already is refused; any other gets its row  *)
(* before anything is fetched.                                             *)
Acquire(r) ==
  /\ Idle
  /\ ~Managed(r)
  /\ r \in Local => checkout[r] # None
  /\ state' = [state EXCEPT ![r] = "acquiring"]
  /\ head' = [head EXCEPT ![r] = None]
  /\ due' = [due EXCEPT ![r] = TRUE]
  /\ op' = [kind |-> "acquire", repo |-> r, at |-> "look", got |-> None, before |-> None]
  /\ faulty' = faulty \ {r}
  /\ UNCHANGED <<outside, checkout, listing, unclean>>

(* The row is read by its id and marked.                                   *)
\* Mutant of StartSync.
StartUnmarked(r) ==
  /\ Idle
  /\ Managed(r)
  /\ op' = [kind |-> "sync", repo |-> r, at |-> "look", got |-> None, before |-> head[r]]
  /\ UNCHANGED <<rows, outside, checkout, unclean, faulty>>

StartSync(r) ==
  /\ Idle
  /\ Managed(r)
  /\ state' = [state EXCEPT ![r] = "syncing"]
  /\ op' = [kind |-> "sync", repo |-> r, at |-> "look", got |-> None, before |-> head[r]]
  /\ faulty' = faulty \ {r}
  /\ UNCHANGED <<head, due, outside, checkout, unclean>>

Sync(r) == StartSync(r) /\ UNCHANGED listing

\* Mutant of Look: a checkout that is there counts as an error.
LookToClone ==
  /\ op.at = "look"
  /\ op' = [op EXCEPT !.at =
       IF op.repo \in Local THEN "inspect"
       ELSE IF checkout[op.repo] = None THEN "clone" ELSE "fail"]
  /\ UNCHANGED <<rows, outside, checkout, listing, unclean, faulty>>

(* A local repository is inspected, a missing checkout is cloned, one that *)
(* is there is fetched; Acquire refuses a target that exists.              *)
Look ==
  /\ op.at = "look"
  /\ op' = [op EXCEPT !.at =
       IF op.repo \in Local THEN "inspect"
       ELSE IF checkout[op.repo] = None THEN "clone"
       ELSE IF op.kind = "acquire" THEN "fail" ELSE "identify"]
  /\ UNCHANGED <<rows, outside, checkout, listing, unclean, faulty>>

Inspect ==
  /\ op.at = "inspect"
  /\ IF checkout[op.repo] = None
       THEN op' = [op EXCEPT !.at = "fail"] /\ faulty' = faulty \cup {op.repo}
       ELSE op' = [op EXCEPT !.at = "record", !.got = checkout[op.repo]] /\ UNCHANGED faulty
  /\ UNCHANGED <<rows, outside, checkout, listing, unclean>>

(* git clone into a temporary directory next to the target.                *)
Clone ==
  /\ op.at = "clone"
  /\ op' = [op EXCEPT !.at = "activate", !.got = remote[op.repo]]
  /\ UNCHANGED <<rows, outside, checkout, listing, unclean, faulty>>

Activate ==
  /\ op.at = "activate"
  /\ checkout' = [checkout EXCEPT ![op.repo] = op.got]
  /\ op' = [op EXCEPT !.at = "record"]
  /\ unclean' = unclean \ {op.repo}
  /\ UNCHANGED <<rows, outside, listing, faulty>>

(* canonicalRemoteID knows two hosts; the origin of a checkout from any    *)
(* other never matches its canonical identity.                             *)
Identified(r) == r \notin Configured

Identify ==
  /\ op.at = "identify"
  /\ op' = [op EXCEPT !.at = IF Identified(op.repo) THEN "fetch" ELSE "fail"]
  /\ UNCHANGED <<rows, outside, checkout, listing, unclean, faulty>>

(* git fetch, then checkout --force.                                       *)
Fetch ==
  /\ op.at = "fetch"
  /\ op' = [op EXCEPT !.at = "checkout", !.got = remote[op.repo]]
  /\ UNCHANGED <<rows, outside, checkout, listing, unclean, faulty>>

(* The inspection that follows may fail with the checkout moved.           *)
Checkout ==
  /\ op.at = "checkout"
  /\ checkout' = [checkout EXCEPT ![op.repo] = op.got]
  /\ IF op.repo \in unread
       THEN op' = [op EXCEPT !.at = "fail"] /\ faulty' = faulty \cup {op.repo}
       ELSE op' = [op EXCEPT !.at = "record"] /\ UNCHANGED faulty
  /\ UNCHANGED <<rows, outside, listing, unclean>>

(* Git, the disk or the context stops the operation.                       *)
StepFails ==
  /\ op.at \in {"clone", "activate", "identify", "fetch", "checkout"}
  /\ op' = [op EXCEPT !.at = "fail"]
  /\ faulty' = faulty \cup {op.repo}
  /\ UNCHANGED <<rows, outside, checkout, listing, unclean>>

(* The state and head a ready row gets.                                    *)
Record ==
  /\ op.at = "record"
  /\ state' = [state EXCEPT ![op.repo] = "ready"]
  /\ head' = [head EXCEPT ![op.repo] = op.got]
  /\ due' = [due EXCEPT ![op.repo] = TRUE]
  /\ op' = [op EXCEPT !.at = "refresh"]
  /\ UNCHANGED <<outside, checkout, listing, unclean, faulty>>

(* The failed write returns an empty record; fail cannot store it, so the  *)
(* row stays as it was marked.                                             *)
RecordFails ==
  /\ op.at = "record"
  /\ op' = NoOp
  /\ faulty' = faulty \cup {op.repo}
  /\ UNCHANGED <<rows, outside, checkout, listing, unclean>>

Refresh ==
  /\ op.at = "refresh"
  /\ \/ op' = NoOp /\ UNCHANGED faulty
     \/ /\ op.kind # "remove"
        /\ op' = [op EXCEPT !.at = "fail", !.before = op.got]
        /\ faulty' = faulty \cup {op.repo}
  /\ UNCHANGED <<rows, outside, checkout, listing, unclean>>

(* fail: the error, the head before the operation and the backoff go to    *)
(* the row; the write may fail too.                                        *)
Fail ==
  /\ op.at = "fail"
  /\ \/ /\ state' = [state EXCEPT ![op.repo] = "error"]
        /\ head' = [head EXCEPT ![op.repo] = op.before]
        /\ due' = [due EXCEPT ![op.repo] = FALSE]
     \/ UNCHANGED rows
  /\ op' = NoOp
  /\ UNCHANGED <<outside, checkout, listing, unclean, faulty>>

-----------------------------------------------------------------------------
(* Remove.                                                                 *)

(* An owned checkout is moved to the trash before the row is deleted; a    *)
(* missing one and a local one are only unregistered.                      *)
\* Mutant of Remove.
RemoveRowOnly(r) ==
  /\ Idle
  /\ Managed(r)
  /\ op' = [kind |-> "remove", repo |-> r, at |-> "delete", got |-> None, before |-> None]
  /\ UNCHANGED <<rows, outside, checkout, listing, unclean, faulty>>

Remove(r) ==
  /\ Idle
  /\ Managed(r)
  /\ op' = [kind |-> "remove", repo |-> r, at |-> "delete",
            got |-> IF r \in Owned THEN checkout[r] ELSE None, before |-> None]
  /\ checkout' = IF r \in Owned THEN [checkout EXCEPT ![r] = None] ELSE checkout
  /\ UNCHANGED <<rows, outside, listing, unclean, faulty>>

(* The id leaves the registry: a list that still names it finds nothing.   *)
Delete ==
  /\ op.at = "delete"
  /\ state' = [state EXCEPT ![op.repo] = None]
  /\ head' = [head EXCEPT ![op.repo] = None]
  /\ listing' = listing \ {op.repo}
  /\ unclean' = unclean \ {op.repo}
  /\ op' = [op EXCEPT !.at = "refresh"]
  /\ UNCHANGED <<due, outside, checkout, faulty>>

(* The checkout comes back from the trash, if the system lets it.          *)
DeleteFails ==
  /\ op.at = "delete"
  /\ op' = NoOp
  /\ \/ op.repo \in Owned /\ op.got # None /\ checkout' = [checkout EXCEPT ![op.repo] = op.got]
        /\ UNCHANGED unclean
     \/ op.repo \in Owned /\ op.got # None /\ unclean' = unclean \cup {op.repo}
        /\ UNCHANGED checkout
     \/ op.got = None /\ UNCHANGED <<checkout, unclean>>
  /\ UNCHANGED <<rows, outside, listing, faulty>>

-----------------------------------------------------------------------------
(* StartScheduledSync: a tick reads the list; each due repository of it is *)
(* synchronised in turn.                                                   *)

\* Mutant of Tick.
TickReady ==
  /\ listing = {}
  /\ listing' = {r \in Repositories : state[r] = "ready" /\ due[r]}
  /\ listing' # {}
  /\ UNCHANGED <<rows, outside, checkout, op, unclean, faulty>>

Tick ==
  /\ listing = {}
  /\ listing' = {r \in Repositories : Managed(r) /\ due[r]}
  /\ listing' # {}
  /\ UNCHANGED <<rows, outside, checkout, op, unclean, faulty>>

SyncListed(r) ==
  /\ r \in listing
  /\ StartSync(r)
  /\ listing' = listing \ {r}

-----------------------------------------------------------------------------
Proceed ==
  \/ Look \/ Inspect \/ Clone \/ Activate \/ Identify \/ Fetch \/ Checkout \/ StepFails
  \/ Record \/ RecordFails \/ Refresh \/ Fail \/ Delete \/ DeleteFails

Next ==
  \/ RemoteMoves \/ UserMoves \/ Crash \/ Tick
  \/ \E r \in Owned : GitBreaks(r) \/ GitMends(r)
  \/ \E r \in Repositories : Acquire(r) \/ Sync(r) \/ Remove(r) \/ SyncListed(r)
                               \/ BackoffEnds(r)
  \/ Look \/ Inspect \/ Clone \/ Activate \/ Identify \/ Fetch \/ Checkout \/ StepFails
  \/ Record \/ RecordFails \/ Refresh \/ Fail \/ Delete \/ DeleteFails

(* An operation ends, time passes, the ticker ticks.  sync.Mutex hands the *)
(* lock to the scheduler when it has waited long.                          *)
Fairness ==
  /\ WF_vars(Proceed)
  /\ WF_vars(Tick)
  /\ \A r \in Repositories : WF_vars(BackoffEnds(r))
  /\ \A r \in Repositories : SF_vars(SyncListed(r))

Spec == Init /\ [][Next]_vars
FairSpec == Spec /\ Fairness

-----------------------------------------------------------------------------
Steps == {"look", "inspect", "clone", "activate", "identify", "fetch", "checkout",
          "record", "refresh", "fail", "delete"}

(* The steps of each operation: nothing of git runs for the repository of  *)
(* a user.                                                                 *)
StepsOf(kind, r) ==
  IF kind = None THEN {None}
  ELSE IF kind = "remove" THEN {"delete", "refresh"}
  ELSE IF r \in Local THEN {"look", "inspect", "record", "refresh", "fail"}
  ELSE Steps \ {"inspect", "delete"}

TypeOK ==
  /\ state \in [Repositories -> {None, "acquiring", "syncing", "ready", "error"}]
  /\ head \in [Repositories -> Commits \cup {None}]
  /\ due \in [Repositories -> BOOLEAN]
  /\ remote \in [Repositories -> Commits]
  /\ checkout \in [Repositories -> Commits \cup {None}]
  /\ op \in [kind : {None, "acquire", "sync", "remove"}, repo : Repositories \cup {None},
             at : Steps \cup {None}, got : Commits \cup {None}, before : Commits \cup {None}]
  /\ op.repo = None <=> op.kind = None
  /\ op.at \in StepsOf(op.kind, op.repo)
  /\ listing \subseteq Repositories /\ unread \subseteq Owned
  /\ moves \in 0..MaxMoves /\ crashes \in 0..MaxCrashes
  /\ unclean \subseteq Repositories /\ faulty \subseteq Repositories

(* Every checkout in RepoKarta's storage has a row, whatever crashed or    *)
(* failed: the row comes before the clone and goes after the move to the   *)
(* trash (Acquire, clone, Remove).                                         *)
NoOrphanCheckout ==
  \A r \in Owned : checkout[r] # None => Managed(r)

(* A row that says ready while nobody works on it names the commit of its  *)
(* checkout, unless a removal was cut short between the trash and the row  *)
(* (syncOwned, clone, fail, Remove).                                       *)
ReadyMatchesCheckout ==
  \A r \in Owned \ unclean :
    state[r] = "ready" /\ op.repo # r => checkout[r] = head[r]

(* "a failed sync never silently removes the last usable revision": once   *)
(* the catalogue is told of an owned repository, only Remove takes it out  *)
(* again, or git, that can no longer read what is there                    *)
(* (CatalogueRepositories).                                                *)
OnlyRemovalUncatalogues ==
  [][\A r \in Owned : Catalogued(r) /\ ~Catalogued(r)' =>
       (op'.kind = "remove" /\ op'.repo = r) \/ r \in unread']_vars

(* An owned repository on a known host is in error only after git, the     *)
(* disk, the catalogue or the registry failed: no crash and no order of    *)
(* operations brings it there (clone, syncOwned).                          *)
ErrorHasCause ==
  \A r \in Owned \ Configured : state[r] = "error" /\ op.repo # r => r \in faulty

(* Every managed repository is synchronised again and again: one that      *)
(* always fails does not keep the schedule from the others, and a row that *)
(* a crash left in acquiring or syncing is taken up (StartScheduledSync).  *)
EveryRowIsTried ==
  \A r \in Repositories : Managed(r) ~> (~Managed(r) \/ (op.kind = "sync" /\ op.repo = r))
=============================================================================
