---------------------------- MODULE MapArtifacts ----------------------------
(***************************************************************************)
(* The map artifacts of one repository (graph/service_artifacts.go): a     *)
(* snapshot file and a structure file for each signature of the repository *)
(* row, the table of file locks under snapshotMu, and the goroutines that  *)
(* publish, prune and read them.                                           *)
(*                                                                         *)
(* Snapshot holds the lock of its snapshot file from the look at the cache *)
(* to the end of the pruning.  Every other use of a lock covers one access *)
(* to one file and is one step here, taken when nobody holds the lock; the *)
(* locks of structure files have no other use and are left out.  Looking a *)
(* lock up in the table and locking it are two steps: between them the     *)
(* table may forget the lock.  The lock objects of a file are told apart   *)
(* by a number; a number nobody refers to is used again.                   *)
(***************************************************************************)
EXTENDS Naturals, FiniteSets

CONSTANTS Observers,   \* workers of the derived-index queue: PrepareStructure
          Requests,    \* handlers, which call Snapshot or read what is published
          Signatures,  \* snapshotSignature of a row, in the order of file names
          FirstRow,    \* the signature at the start
          MaxMoves     \* bound: how often the head commit moves

Workers == Observers \cup Requests

ASSUME SignaturesAssumption == Signatures \subseteq Nat \ {0} /\ FirstRow \in Signatures
ASSUME MovesAssumption == MaxMoves \in Nat
ASSUME WorkersAssumption == Observers \cap Requests = {} /\ IsFiniteSet(Workers)

VARIABLES
  row,      \* signature of the repository row
  state,    \* its index state
  indexer,  \* an indexing pass works on the repository
  moves,    \* how often the head commit has moved
  owed,     \* the repository waits in the derived-index queue
  disk,     \* files in the directory
  table,    \* snapshotLocks: number of each snapshot file's lock, or 0
  pc,       \* where each worker stands
  goal,     \* signature PrepareStructure read
  sig,      \* signature Snapshot or a reader read
  own,      \* lock of the snapshot file held by a worker in Snapshot, or 0
  ref,      \* the lock a worker has looked up and not yet locked
  todo,     \* superseded files a worker has still to remove
  removed,  \* removedLocks
  lost,     \* the row's structure was removed, or its preparation failed
  failed    \* some publication or pruning was cut short

rows == <<row, state, indexer, moves, owed>>
locks == <<own, ref>>
prune == <<todo, removed>>
ghosts == <<lost, failed>>
vars == <<row, state, indexer, moves, owed, disk, table, pc, goal, sig, own, ref, todo, removed, lost, failed>>

Files == [kind : {"snapshot", "structure"}, sig : Signatures]
SnapshotFile(s) == [kind |-> "snapshot", sig |-> s]
StructureFile(s) == [kind |-> "structure", sig |-> s]

(* Numbers enough for the lock in the table and one reference per worker.  *)
Numbers == 1..(Cardinality(Workers) + 1)
NoRef == <<>>

-----------------------------------------------------------------------------
(* Lock objects.                                                           *)

Used(s, n) ==
  \/ table[s] = n
  \/ \E w \in Workers : \/ own[w] = n /\ s = sig[w]
                        \/ ref[w] = <<s, n>>
                        \/ <<s, n>> \in removed[w]

\* Mutant of Fresh: the nil entry of the map is returned as it is.
NoFresh(s) == table[s]

Fresh(s) == CHOOSE n \in Numbers : ~Used(s, n) /\ \A m \in Numbers : m < n => Used(s, m)

(* snapshotLock: the lock in the table, or a new one put there.            *)
LookUp(w, s) ==
  LET n == IF table[s] = 0 THEN Fresh(s) ELSE table[s]
  IN /\ table' = [table EXCEPT ![s] = n]
     /\ ref' = [ref EXCEPT ![w] = <<s, n>>]

Free(lock) == \A w \in Workers : own[w] # 0 => lock # <<sig[w], own[w]>>

Init ==
  /\ row = FirstRow
  /\ state = "ready"
  /\ indexer = FALSE
  /\ moves = 0
  /\ owed = TRUE
  /\ disk = {}
  /\ table = [s \in Signatures |-> 0]
  /\ pc = [w \in Workers |-> "idle"]
  /\ goal = [w \in Workers |-> 0]
  /\ sig = [w \in Workers |-> 0]
  /\ own = [w \in Workers |-> 0]
  /\ ref = [w \in Workers |-> NoRef]
  /\ todo = [w \in Workers |-> {}]
  /\ removed = [w \in Workers |-> {}]
  /\ lost = FALSE
  /\ failed = FALSE

-----------------------------------------------------------------------------
(* The repository row and the process.                                     *)

(* A refresh finds another head commit: the row is pending again.          *)
HeadMoves ==
  /\ moves < MaxMoves
  /\ moves' = moves + 1
  /\ \E s \in Signatures \ {row} : row' = s
  /\ state' = "pending"
  /\ UNCHANGED <<indexer, owed, disk, table, pc, goal, sig, locks, prune, ghosts>>

(* indexRepository writes the commit it is about to index into the row.    *)
MarkIndexing ==
  /\ state = "pending" /\ ~indexer
  /\ row' \in Signatures
  /\ state' = "indexing"
  /\ indexer' = TRUE
  /\ UNCHANGED <<moves, owed, disk, table, pc, goal, sig, locks, prune, ghosts>>

(* indexRepository records the outcome, over whatever a refresh wrote      *)
(* meanwhile; a ready repository is queued.                                *)
Indexed ==
  /\ indexer
  /\ indexer' = FALSE
  /\ \/ state' = "ready" /\ owed' = TRUE /\ lost' = FALSE
     \/ state' = "error" /\ UNCHANGED <<owed, lost>>
  /\ UNCHANGED <<row, moves, disk, table, pc, goal, sig, locks, prune, failed>>

(* The process stops and starts: files and row stay, locks and goroutines  *)
(* are gone.  Start queues the repository if it is ready; the first        *)
(* refresh makes a row left in indexing pending.                           *)
Restart ==
  /\ owed' = (state = "ready")
  /\ state' = IF state = "indexing" THEN "pending" ELSE state
  /\ indexer' = FALSE
  /\ lost' = FALSE
  /\ failed' = TRUE
  /\ table' = [s \in Signatures |-> 0]
  /\ pc' = [w \in Workers |-> "idle"]
  /\ goal' = [w \in Workers |-> 0]
  /\ sig' = [w \in Workers |-> 0]
  /\ own' = [w \in Workers |-> 0]
  /\ ref' = [w \in Workers |-> NoRef]
  /\ todo' = [w \in Workers |-> {}]
  /\ removed' = [w \in Workers |-> {}]
  /\ UNCHANGED <<row, moves, disk>>

-----------------------------------------------------------------------------
(* PrepareStructure, up to Snapshot.                                       *)

Goto(w, label) == pc' = [pc EXCEPT ![w] = label]

Take(w) ==
  /\ pc[w] = "idle"
  /\ owed
  /\ owed' = FALSE
  /\ Goto(w, "prepare")
  /\ UNCHANGED <<row, state, indexer, moves, disk, table, goal, sig, locks, prune, ghosts>>

ReadGoal(w) ==
  /\ pc[w] = "prepare"
  /\ goal' = [goal EXCEPT ![w] = row]
  /\ Goto(w, "check")
  /\ UNCHANGED <<rows, disk, table, sig, locks, prune, ghosts>>

(* readStructuralIndex: done when the structure is there.                  *)
Check(w) ==
  /\ pc[w] = "check"
  /\ IF StructureFile(goal[w]) \in disk
       THEN Goto(w, "idle") /\ goal' = [goal EXCEPT ![w] = 0]
       ELSE Goto(w, "row") /\ UNCHANGED goal
  /\ UNCHANGED <<rows, disk, table, sig, locks, prune, ghosts>>

-----------------------------------------------------------------------------
(* Snapshot.                                                               *)

Request(w) ==
  /\ pc[w] = "idle"
  /\ Goto(w, "row")
  /\ UNCHANGED <<rows, disk, table, goal, sig, locks, prune, ghosts>>

ReadRow(w) ==
  /\ pc[w] = "row"
  /\ sig' = [sig EXCEPT ![w] = row]
  /\ Goto(w, "look up")
  /\ UNCHANGED <<rows, disk, table, goal, locks, prune, ghosts>>

FindLock(w) ==
  /\ pc[w] = "look up"
  /\ LookUp(w, sig[w])
  /\ Goto(w, "lock")
  /\ UNCHANGED <<rows, disk, goal, sig, own, prune, ghosts>>

(* The lock is taken and the cache is looked at, unless a refresh was      *)
(* asked for, which only a request does.                                   *)
Lock(w) ==
  /\ pc[w] = "lock"
  /\ Free(ref[w])
  /\ own' = [own EXCEPT ![w] = ref[w][2]]
  /\ ref' = [ref EXCEPT ![w] = NoRef]
  /\ \/ SnapshotFile(sig[w]) \in disk /\ Goto(w, "leave")
     \/ (SnapshotFile(sig[w]) \notin disk \/ w \in Requests) /\ Goto(w, "build")
  /\ UNCHANGED <<rows, disk, table, goal, sig, prune, ghosts>>

\* Mutant of Fail: an error path that forgets the unlock.
FailLocked(w) ==
  /\ pc[w] \in {"prepare", "row", "build", "structure"}
  /\ goal' = [goal EXCEPT ![w] = 0]
  /\ Goto(w, "idle")
  /\ failed' = TRUE
  /\ lost' = (lost \/ w \in Observers)
  /\ UNCHANGED <<rows, disk, table, sig, locks, prune>>

(* An error of the store, of the analysis or of a write leaves by the      *)
(* deferred unlock, if the lock was taken.                                 *)
Fail(w) ==
  /\ pc[w] \in {"prepare", "row", "build", "structure"}
  /\ own' = [own EXCEPT ![w] = 0]
  /\ sig' = [sig EXCEPT ![w] = 0]
  /\ goal' = [goal EXCEPT ![w] = 0]
  /\ Goto(w, "idle")
  /\ failed' = TRUE
  /\ lost' = (lost \/ w \in Observers)
  /\ UNCHANGED <<rows, disk, table, ref, prune>>

Publish(w) ==
  /\ pc[w] = "build"
  /\ disk' = disk \cup {SnapshotFile(sig[w])}
  /\ Goto(w, "structure")
  /\ UNCHANGED <<rows, table, goal, sig, locks, prune, ghosts>>

(* writeStructuralIndex.                                                   *)
WriteStructure(w) ==
  /\ pc[w] = "structure"
  /\ disk' = disk \cup {StructureFile(sig[w])}
  /\ Goto(w, "list")
  /\ UNCHANGED <<rows, table, goal, sig, locks, prune, ghosts>>

-----------------------------------------------------------------------------
(* removeSupersededSnapshots.                                              *)

\* Mutant of Superseded.
OlderOnly(s) == {f \in disk : f.sig < s}

Superseded(s) == {f \in disk : f.sig # s}

(* ReadDir sorts by name: snapshots before structures.                     *)
Before(f, g) == IF f.kind = g.kind THEN f.sig < g.sig ELSE f.kind = "snapshot"
NextFile(w) == CHOOSE f \in todo[w] : \A g \in todo[w] \ {f} : Before(f, g)

List(w) ==
  /\ pc[w] = "list"
  /\ todo' = [todo EXCEPT ![w] = Superseded(sig[w])]
  /\ Goto(w, "prune")
  /\ UNCHANGED <<rows, disk, table, goal, sig, locks, removed, ghosts>>

(* The directory cannot be read: nothing is pruned.                        *)
ListFails(w) ==
  /\ pc[w] = "list"
  /\ failed' = TRUE
  /\ Goto(w, "leave")
  /\ UNCHANGED <<rows, disk, table, goal, sig, locks, prune, lost>>

AimAt(w) ==
  /\ pc[w] = "prune"
  /\ todo[w] # {}
  /\ NextFile(w).kind = "snapshot"
  /\ LookUp(w, NextFile(w).sig)
  /\ Goto(w, "remove")
  /\ UNCHANGED <<rows, disk, goal, sig, own, prune, ghosts>>

(* The file is removed, or is gone already, or the system refuses.         *)
Removed(f) ==
  \/ f \in disk /\ disk' = disk \ {f} /\ UNCHANGED failed
  \/ f \notin disk /\ UNCHANGED <<disk, failed>>
  \/ f \in disk /\ failed' = TRUE /\ UNCHANGED disk

(* A snapshot is removed under its lock.  A file that was gone or stayed   *)
(* leaves its lock in the table.                                           *)
RemoveSnapshot(w) ==
  /\ pc[w] = "remove"
  /\ Free(ref[w])
  /\ Removed(SnapshotFile(ref[w][1]))
  /\ removed' = [removed EXCEPT ![w] = @ \cup (IF disk' = disk THEN {} ELSE {ref[w]})]
  /\ todo' = [todo EXCEPT ![w] = @ \ {SnapshotFile(ref[w][1])}]
  /\ ref' = [ref EXCEPT ![w] = NoRef]
  /\ Goto(w, "prune")
  /\ UNCHANGED <<rows, table, goal, sig, own, lost>>

RemoveStructure(w) ==
  /\ pc[w] = "prune"
  /\ todo[w] # {}
  /\ NextFile(w).kind = "structure"
  /\ Removed(NextFile(w))
  /\ lost' = (lost \/ NextFile(w) = StructureFile(row))
  /\ todo' = [todo EXCEPT ![w] = @ \ {NextFile(w)}]
  /\ UNCHANGED <<rows, table, pc, goal, sig, locks, removed>>

(* Under snapshotMu: the locks of the removed files leave the table, if    *)
(* the table still holds the same ones.                                    *)
DropLocks(w) ==
  /\ pc[w] = "prune"
  /\ todo[w] = {}
  /\ table' = [s \in Signatures |-> IF <<s, table[s]>> \in removed[w] THEN 0 ELSE table[s]]
  /\ removed' = [removed EXCEPT ![w] = {}]
  /\ Goto(w, "leave")
  /\ UNCHANGED <<rows, disk, goal, sig, locks, todo, ghosts>>

\* Mutant of Leave: PrepareStructure trusts every snapshot Snapshot returns.
LeaveAtOnce(w) ==
  /\ pc[w] = "leave"
  /\ own' = [own EXCEPT ![w] = 0]
  /\ sig' = [sig EXCEPT ![w] = 0]
  /\ goal' = [goal EXCEPT ![w] = 0]
  /\ Goto(w, "idle")
  /\ UNCHANGED <<rows, disk, table, ref, prune, ghosts>>

(* The deferred unlock.  A request is over; PrepareStructure goes on.      *)
Leave(w) ==
  /\ pc[w] = "leave"
  /\ own' = [own EXCEPT ![w] = 0]
  /\ IF w \in Observers
       THEN Goto(w, "recheck") /\ UNCHANGED sig
       ELSE Goto(w, "idle") /\ sig' = [sig EXCEPT ![w] = 0]
  /\ UNCHANGED <<rows, disk, table, goal, ref, prune, ghosts>>

-----------------------------------------------------------------------------
(* PrepareStructure, after Snapshot: the structure asked for is there, or  *)
(* the snapshot's own is written.                                          *)

Recheck(w) ==
  /\ pc[w] = "recheck"
  /\ IF StructureFile(goal[w]) \in disk
       THEN /\ sig' = [sig EXCEPT ![w] = 0]
            /\ goal' = [goal EXCEPT ![w] = 0]
            /\ Goto(w, "idle")
       ELSE Goto(w, "project") /\ UNCHANGED <<sig, goal>>
  /\ UNCHANGED <<rows, disk, table, locks, prune, ghosts>>

Project(w) ==
  /\ pc[w] = "project"
  /\ \/ disk' = disk \cup {StructureFile(sig[w])} /\ UNCHANGED ghosts
     \/ failed' = TRUE /\ lost' = TRUE /\ UNCHANGED disk
  /\ sig' = [sig EXCEPT ![w] = 0]
  /\ goal' = [goal EXCEPT ![w] = 0]
  /\ Goto(w, "idle")
  /\ UNCHANGED <<rows, table, locks, prune>>

-----------------------------------------------------------------------------
(* cachedRepositorySnapshot, for a handler that reads what is published    *)
(* and never builds.                                                       *)

Open(w) ==
  /\ pc[w] = "idle"
  /\ LookUp(w, row)
  /\ Goto(w, "read")
  /\ UNCHANGED <<rows, disk, goal, sig, own, prune, ghosts>>

Read(w) ==
  /\ pc[w] = "read"
  /\ Free(ref[w])
  /\ ref' = [ref EXCEPT ![w] = NoRef]
  /\ Goto(w, "idle")
  /\ UNCHANGED <<rows, disk, table, goal, sig, own, prune, ghosts>>

-----------------------------------------------------------------------------
Steps(w) ==
  \/ ReadRow(w) \/ FindLock(w) \/ Lock(w) \/ Fail(w) \/ Publish(w) \/ WriteStructure(w)
  \/ List(w) \/ ListFails(w) \/ AimAt(w) \/ RemoveSnapshot(w) \/ RemoveStructure(w)
  \/ DropLocks(w) \/ Leave(w)

Prepare(w) == Take(w) \/ ReadGoal(w) \/ Check(w) \/ Steps(w) \/ Recheck(w) \/ Project(w)

Next ==
  \/ HeadMoves \/ MarkIndexing \/ Indexed \/ Restart
  \/ \E w \in Observers : Prepare(w)
  \/ \E w \in Requests : Request(w) \/ Steps(w) \/ Open(w) \/ Read(w)

Spec == Init /\ [][Next]_vars

(* Goroutines are scheduled and a build ends.  sync.Mutex hands a lock to   *)
(* the goroutine that has waited long for it, so whoever wants a lock that *)
(* is free again and again gets it.  Nobody has to ask, to read, to index  *)
(* or to restart.                                                          *)
Fairness ==
  /\ \A w \in Observers : WF_vars(Prepare(w))
  /\ \A w \in Requests : WF_vars(Steps(w))
  /\ \A w \in Observers : SF_vars(Lock(w) \/ RemoveSnapshot(w))
  /\ \A w \in Requests : SF_vars(Lock(w) \/ RemoveSnapshot(w) \/ Read(w))

FairSpec == Spec /\ Fairness

-----------------------------------------------------------------------------
Labels ==
  {"idle", "prepare", "check", "row", "look up", "lock", "build", "structure", "list",
   "prune", "remove", "leave", "recheck", "project", "read"}

TypeOK ==
  /\ row \in Signatures /\ state \in {"ready", "pending", "indexing", "error"}
  /\ indexer \in BOOLEAN /\ moves \in 0..MaxMoves /\ owed \in BOOLEAN
  /\ disk \subseteq Files
  /\ table \in [Signatures -> Numbers \cup {0}]
  /\ pc \in [Workers -> Labels]
  /\ goal \in [Workers -> Signatures \cup {0}]
  /\ sig \in [Workers -> Signatures \cup {0}]
  /\ own \in [Workers -> Numbers \cup {0}]
  /\ ref \in [Workers -> (Signatures \X Numbers) \cup {NoRef}]
  /\ todo \in [Workers -> SUBSET Files]
  /\ removed \in [Workers -> SUBSET (Signatures \X Numbers)]
  /\ lost \in BOOLEAN /\ failed \in BOOLEAN

WaitsFor(w, v) == own[v] # 0 /\ ref[w] = <<sig[v], own[v]>>

(* Goroutines that each want a lock another of them holds.                 *)
Crossed ==
  \E circle \in SUBSET Workers \ {{}} :
    \A w \in circle : \E v \in circle : WaitsFor(w, v)

Quiet == ~owed /\ \A w \in Workers : pc[w] = "idle"

(* At rest, a ready repository has the structure of its row, unless its    *)
(* preparation failed or a goroutine with an older row removed it: no row  *)
(* that changes under a preparation, and no cached snapshot, leaves it out *)
(* (PrepareStructure).                                                     *)
PreparedIsServed ==
  Quiet /\ state = "ready" /\ ~lost => StructureFile(row) \in disk

(* At rest, at most one snapshot is left, unless a publication or its      *)
(* pruning was cut short: of two goroutines that publish different         *)
(* signatures, the one that lists last removes what the other wrote        *)
(* (removeSupersededSnapshots).                                            *)
SnapshotsCollected ==
  Quiet /\ ~failed =>
    \A s, t \in Signatures :
      SnapshotFile(s) \in disk /\ SnapshotFile(t) \in disk => s = t

(* While a ready repository is reported as building, its structure is      *)
(* queued or being built, unless something failed (StructureProgress).     *)
BuildingIsUnderway ==
  state = "ready" /\ StructureFile(row) \notin disk =>
    owed \/ failed \/ \E w \in Observers : pc[w] # "idle"

(* Goroutines of this service hang in one way only: some that prune want   *)
(* each other's locks (Snapshot, removeSupersededSnapshots).               *)
OnlyCrossedHang ==
  \A w \in Workers : (pc[w] # "idle") ~> (pc[w] = "idle" \/ Crossed)
=============================================================================
