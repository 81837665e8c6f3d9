------------------------- MODULE MapArtifactsProofs -------------------------
(***************************************************************************)
(* The map artifacts of a repository, for any number of workers, requests, *)
(* signatures and moves of the head commit: types, what is served at rest  *)
(* and what is left on disk at rest.                                       *)
(*                                                                         *)
(* The locks of a file are numbered, and a new one takes a number nobody   *)
(* refers to.  That there is one is an argument of its own: a worker       *)
(* refers to one lock of a file at most, so the workers together cannot    *)
(* use up Numbers.                                                         *)
(***************************************************************************)
EXTENDS MapArtifacts, FiniteSetTheorems, WellFoundedInduction, TLAPS

Holding == {"build", "structure", "list", "prune", "remove", "leave"}
Aiming == {"lock", "remove", "read"}
Pruning == {"prune", "remove"}
HasSignature == Holding \cup {"look up", "lock", "recheck", "project"}

\* What a worker refers to, by where it stands.
Shaped ==
  \A w \in Workers :
    /\ own[w] # 0 <=> pc[w] \in Holding
    /\ ref[w] # NoRef <=> pc[w] \in Aiming
    /\ pc[w] \in HasSignature => sig[w] \in Signatures

\* Pruning is about other files than the worker's own, and about each once.
Pruned ==
  \A w \in Workers :
    /\ pc[w] \notin Pruning => todo[w] = {} /\ removed[w] = {}
    /\ \A f \in todo[w] : f.sig # sig[w]
    /\ pc[w] = "remove" => SnapshotFile(ref[w][1]) \in todo[w]
    /\ \A l \in removed[w] : l[1] # sig[w] /\ SnapshotFile(l[1]) \notin todo[w]
    /\ \A k, l \in removed[w] : k[1] = l[1] => k = l

\* An observer that will not leave before the row's structure is there.
Serves(w) ==
  \/ pc[w] = "prepare"
  \/ pc[w] \in {"check", "row"} /\ goal[w] = row
  \/ pc[w] \in HasSignature /\ goal[w] = row /\ sig[w] = row

\* PreparedIsServed, before everything is at rest.
Served ==
  state = "ready" /\ ~owed /\ ~lost /\ StructureFile(row) \notin disk =>
    \E w \in Observers : Serves(w)

\* A worker that will still find one of the two snapshots and remove it.
Removes(w, s, t) ==
  \/ pc[w] \in {"structure", "list"}
  \/ pc[w] \in Pruning /\ {SnapshotFile(s), SnapshotFile(t)} \cap todo[w] # {}

\* SnapshotsCollected, before everything is at rest.
Collected ==
  ~failed =>
    \A s, t \in Signatures :
      SnapshotFile(s) \in disk /\ SnapshotFile(t) \in disk /\ s # t =>
        \E w \in Workers : Removes(w, s, t)

IInv == TypeOK /\ Shaped /\ Pruned /\ Served /\ Collected

-----------------------------------------------------------------------------
(* Files and numbers.                                                      *)

LEMMA Smallest ==
  ASSUME NEW S \in SUBSET Nat, S # {}
  PROVE  \E n \in S : \A m \in S : n <= m
<1>1. PICK n \in S : \A m \in S : ~ (<<m, n>> \in OpToRel(<, Nat))
  BY NatLessThanWellFounded, WFMin
<1>2. \A m \in S : ~ (m < n) BY <1>1 DEF OpToRel
<1> QED BY <1>2

\* The directory is read in the order of its names, so there is a first file.
LEMMA FirstIsListed ==
  ASSUME TypeOK, NEW w \in Workers, todo[w] # {}
  PROVE  NextFile(w) \in todo[w]
<1> DEFINE First(f) == \A g \in todo[w] \ {f} : Before(f, g)
           Of(k) == {f.sig : f \in {g \in todo[w] : g.kind = k}}
<1>1. /\ \A f \in todo[w] : f.kind \in {"snapshot", "structure"} /\ f.sig \in Nat
      /\ \A f, g \in todo[w] : f.kind = g.kind /\ f.sig = g.sig => f = g
  <2>1. todo[w] \subseteq Files BY DEF TypeOK
  <2>2. \A f \in Files : f.kind \in {"snapshot", "structure"} /\ f.sig \in Nat
    BY SignaturesAssumption DEF Files
  <2>3. \A f, g \in Files : f.kind = g.kind /\ f.sig = g.sig => f = g BY DEF Files
  <2> QED BY <2>1, <2>2, <2>3
<1>2. \E f \in todo[w] : First(f)
  <2>1. CASE Of("snapshot") # {}
    <3>1. Of("snapshot") \in SUBSET Nat BY <1>1
    <3>2. PICK n \in Of("snapshot") : \A m \in Of("snapshot") : n <= m BY <2>1, <3>1, Smallest
    <3>3. PICK f \in todo[w] : f.kind = "snapshot" /\ f.sig = n OBVIOUS
    <3>4. ASSUME NEW g \in todo[w] \ {f} PROVE Before(f, g)
      BY <1>1, <3>2, <3>3 DEF Before
    <3> QED BY <3>4
  <2>2. CASE Of("snapshot") = {}
    <3>1. \A f \in todo[w] : f.kind = "structure" BY <1>1, <2>2
    <3>2. Of("structure") # {} /\ Of("structure") \in SUBSET Nat BY <1>1, <3>1
    <3>3. PICK n \in Of("structure") : \A m \in Of("structure") : n <= m BY <3>2, Smallest
    <3>4. PICK f \in todo[w] : f.kind = "structure" /\ f.sig = n OBVIOUS
    <3>5. ASSUME NEW g \in todo[w] \ {f} PROVE Before(f, g)
      BY <1>1, <3>1, <3>3, <3>4 DEF Before
    <3> QED BY <3>5
  <2> QED BY <2>1, <2>2
<1> QED BY <1>2 DEF NextFile

LEMMA ReferenceIsNone == \A s, n : <<s, n>> # NoRef
BY DEF NoRef

\* The lock of a file that a worker refers to.
Refers(w, s, n) ==
  \/ own[w] = n /\ s = sig[w]
  \/ ref[w] = <<s, n>>
  \/ <<s, n>> \in removed[w]

LEMMA OneLockEach ==
  ASSUME TypeOK, Shaped, Pruned, NEW w \in Workers, NEW s \in Signatures,
         NEW n \in Numbers, NEW m \in Numbers, Refers(w, s, n), Refers(w, s, m)
  PROVE  n = m
<1>1. n # 0 /\ m # 0 BY DEF Numbers
<1>2. SnapshotFile(s).sig = s BY DEF SnapshotFile
<1>3. ASSUME NEW k \in Numbers, NEW l \in Numbers, own[w] = k, s = sig[w], k # 0
      PROVE  ref[w] # <<s, l>> /\ <<s, l>> \notin removed[w]
  <2>1. pc[w] \in Holding BY <1>3 DEF Shaped
  <2>2. ASSUME ref[w] = <<s, l>> PROVE FALSE
    <3>1. pc[w] = "remove" BY <2>1, <2>2, ReferenceIsNone DEF Shaped, Holding, Aiming
    <3>2. SnapshotFile(s) \in todo[w] BY <2>2, <3>1 DEF Pruned
    <3> QED BY <1>2, <1>3, <3>2 DEF Pruned
  <2>3. ASSUME <<s, l>> \in removed[w] PROVE FALSE BY <1>3, <2>3 DEF Pruned
  <2> QED BY <2>2, <2>3
<1>4. ASSUME NEW k \in Numbers, NEW l \in Numbers, ref[w] = <<s, k>>, <<s, l>> \in removed[w]
      PROVE  FALSE
  <2>1. pc[w] = "remove" BY <1>4, ReferenceIsNone DEF Shaped, Pruned, Pruning, Aiming
  <2>2. SnapshotFile(s) \in todo[w] BY <1>4, <2>1 DEF Pruned
  <2> QED BY <1>4, <2>2 DEF Pruned
<1>5. ASSUME <<s, n>> \in removed[w], <<s, m>> \in removed[w] PROVE n = m
  BY <1>5 DEF Pruned
<1> QED BY <1>1, <1>3, <1>4, <1>5 DEF Refers

\* Of any numbers of locks of a file, one per worker is in use at most.
LEMMA FreshIsFree ==
  ASSUME TypeOK, Shaped, Pruned, NEW s \in Signatures, table[s] = 0
  PROVE  Fresh(s) \in Numbers
<1> DEFINE InUse == {n \in Numbers : Used(s, n)}
           By(n) == CHOOSE w \in Workers : Refers(w, s, n)
           f == [n \in InUse |-> By(n)]
           Unused == Numbers \ InUse
<1>1. IsFiniteSet(Workers) /\ Cardinality(Workers) \in Nat
  BY WorkersAssumption, FS_CardinalityType
<1>2. IsFiniteSet(Numbers) /\ Cardinality(Numbers) = Cardinality(Workers) + 1
  BY <1>1, FS_Interval DEF Numbers
<1>3. \A n \in InUse : By(n) \in Workers /\ Refers(By(n), s, n)
  <2>1. ASSUME NEW n \in InUse PROVE \E w \in Workers : Refers(w, s, n)
    <3>1. table[s] # n BY DEF Numbers
    <3> QED BY <3>1 DEF Used, Refers
  <2> QED BY <2>1
<1>4. Numbers \subseteq Nat /\ 0 \notin Numbers BY DEF Numbers
<1>5. IsFiniteSet(InUse) BY <1>2, FS_Subset
<1>6. Unused # {}
  <2>1. SUFFICES ASSUME InUse = Numbers PROVE FALSE OBVIOUS
  <2>2. f \in [InUse -> Workers] BY <1>3
  <2>3. Cardinality(Workers) < Cardinality(InUse) BY <1>1, <1>2, <2>1
  <2>4. ASSUME NEW h \in [InUse -> Workers] PROVE \E x, y \in InUse : x # y /\ h[x] = h[y]
    <3> HIDE DEF InUse
    <3> QED BY <1>1, <1>5, <2>3, FS_PigeonHole
  <2>5. PICK x \in InUse, y \in InUse : x # y /\ By(x) = By(y) BY <2>2, <2>4
  <2> QED BY <1>3, <2>5, OneLockEach
<1>7. PICK n \in Unused : \A m \in Unused : n <= m BY <1>4, <1>6, Smallest
<1>8. n \in Numbers /\ ~Used(s, n) /\ \A m \in Numbers : m < n => Used(s, m)
  BY <1>4, <1>7
<1> QED BY <1>8 DEF Fresh

\* What LookUp leaves, whether the file had a lock or not.
LEMMA LookUpTypes ==
  ASSUME TypeOK, Shaped, Pruned, NEW w \in Workers, NEW s \in Signatures, LookUp(w, s)
  PROVE  /\ table' \in [Signatures -> Numbers \cup {0}]
         /\ \E n \in Numbers : ref' = [ref EXCEPT ![w] = <<s, n>>]
<1> DEFINE n == IF table[s] = 0 THEN Fresh(s) ELSE table[s]
<1>1. n \in Numbers BY FreshIsFree DEF TypeOK
<1> QED BY <1>1 DEF LookUp, TypeOK

LEMMA FileFacts ==
  /\ \A s \in Signatures : SnapshotFile(s) \in Files /\ StructureFile(s) \in Files
  /\ \A s : SnapshotFile(s).sig = s /\ StructureFile(s).sig = s
  /\ \A s, t : SnapshotFile(s) # StructureFile(t)
  /\ \A s, t : SnapshotFile(s) = SnapshotFile(t) => s = t
<1>1. \A s \in Signatures : SnapshotFile(s) \in Files /\ StructureFile(s) \in Files
  BY DEF Files, SnapshotFile, StructureFile
<1>2. \A s : SnapshotFile(s).sig = s /\ StructureFile(s).sig = s
  BY DEF SnapshotFile, StructureFile
<1>3. \A s, t : SnapshotFile(s).kind # StructureFile(t).kind
  BY DEF SnapshotFile, StructureFile
<1> QED BY <1>1, <1>2, <1>3

\* The first file to remove: its kind says which it is.
LEMMA FirstIsNamed ==
  ASSUME TypeOK, NEW w \in Workers, todo[w] # {}
  PROVE  /\ NextFile(w).sig \in Signatures
         /\ NextFile(w).kind = "snapshot" => NextFile(w) = SnapshotFile(NextFile(w).sig)
         /\ NextFile(w).kind = "structure" => \A s : NextFile(w) # SnapshotFile(s)
<1>1. NextFile(w) \in Files BY FirstIsListed DEF TypeOK
<1>2. ASSUME NEW f \in Files
      PROVE  /\ f.sig \in Signatures
             /\ f.kind = "snapshot" => f = SnapshotFile(f.sig)
             /\ f.kind = "structure" => \A s : f # SnapshotFile(s)
  BY DEF Files, SnapshotFile
<1> QED BY <1>1, <1>2

LEMMA AimedIsLock ==
  ASSUME TypeOK, Shaped, NEW w \in Workers, pc[w] \in Aiming
  PROVE  ref[w] \in Signatures \X Numbers /\ ref[w][1] \in Signatures
         /\ ref[w][2] \in Numbers /\ ref[w][2] # 0 /\ ref[w] = <<ref[w][1], ref[w][2]>>
<1>1. ref[w] \in Signatures \X Numbers BY DEF TypeOK, Shaped
<1>2. 0 \notin Numbers BY DEF Numbers
<1> QED BY <1>1, <1>2

-----------------------------------------------------------------------------
(* Every step preserves the invariant.                                     *)

USE DEF rows, locks, prune, ghosts, Goto

LEMMA HeadMovesStep == ASSUME IInv, HeadMoves PROVE IInv'
<1>1. TypeOK' BY MovesAssumption DEF IInv, TypeOK, HeadMoves
<1>2. Shaped' BY DEF IInv, TypeOK, Shaped, Holding, Aiming, HasSignature, HeadMoves
<1>3. Pruned' BY DEF IInv, TypeOK, Pruned, Pruning, HeadMoves
<1>4. Served'
  BY WorkersAssumption
  DEF IInv, TypeOK, Served, Serves, HasSignature, Holding, Workers, HeadMoves
<1>5. Collected' BY DEF IInv, TypeOK, Collected, Removes, Pruning, HeadMoves
<1> QED BY <1>1, <1>2, <1>3, <1>4, <1>5 DEF IInv

LEMMA MarkIndexingStep == ASSUME IInv, MarkIndexing PROVE IInv'
<1>1. TypeOK' BY DEF IInv, TypeOK, MarkIndexing
<1>2. Shaped' BY DEF IInv, TypeOK, Shaped, Holding, Aiming, HasSignature, MarkIndexing
<1>3. Pruned' BY DEF IInv, TypeOK, Pruned, Pruning, MarkIndexing
<1>4. Served'
  BY WorkersAssumption
  DEF IInv, TypeOK, Served, Serves, HasSignature, Holding, Workers, MarkIndexing
<1>5. Collected' BY DEF IInv, TypeOK, Collected, Removes, Pruning, MarkIndexing
<1> QED BY <1>1, <1>2, <1>3, <1>4, <1>5 DEF IInv

LEMMA IndexedStep == ASSUME IInv, Indexed PROVE IInv'
<1>1. TypeOK' BY DEF IInv, TypeOK, Indexed
<1>2. Shaped' BY DEF IInv, TypeOK, Shaped, Holding, Aiming, HasSignature, Indexed
<1>3. Pruned' BY DEF IInv, TypeOK, Pruned, Pruning, Indexed
<1>4. Served'
  BY WorkersAssumption
  DEF IInv, TypeOK, Served, Serves, HasSignature, Holding, Workers, Indexed
<1>5. Collected' BY DEF IInv, TypeOK, Collected, Removes, Pruning, Indexed
<1> QED BY <1>1, <1>2, <1>3, <1>4, <1>5 DEF IInv

LEMMA RestartStep == ASSUME IInv, Restart PROVE IInv'
<1>1. TypeOK' BY DEF IInv, TypeOK, Labels, Restart
<1>2. Shaped' BY DEF IInv, TypeOK, Shaped, Holding, Aiming, HasSignature, Restart
<1>3. Pruned' BY DEF IInv, TypeOK, Pruned, Pruning, Restart
<1>4. Served'
  BY WorkersAssumption
  DEF IInv, TypeOK, Served, Serves, HasSignature, Holding, Workers, Restart
<1>5. Collected' BY DEF IInv, TypeOK, Collected, Removes, Pruning, Restart
<1> QED BY <1>1, <1>2, <1>3, <1>4, <1>5 DEF IInv

LEMMA TakeStep == ASSUME IInv, NEW w \in Observers, Take(w) PROVE IInv'
<1>1. TypeOK' BY DEF IInv, TypeOK, Labels, Workers, Take
<1>2. Shaped' BY DEF IInv, TypeOK, Shaped, Holding, Aiming, HasSignature, Workers, Take
<1>3. Pruned' BY DEF IInv, TypeOK, Pruned, Pruning, Workers, Take
<1>4. Served'
  BY WorkersAssumption
  DEF IInv, TypeOK, Served, Serves, HasSignature, Holding, Workers, Take
<1>5. Collected' BY DEF IInv, TypeOK, Collected, Removes, Pruning, Workers, Take
<1> QED BY <1>1, <1>2, <1>3, <1>4, <1>5 DEF IInv

LEMMA ReadGoalStep == ASSUME IInv, NEW w \in Observers, ReadGoal(w) PROVE IInv'
<1>1. TypeOK' BY DEF IInv, TypeOK, Labels, Workers, ReadGoal
<1>2. Shaped' BY DEF IInv, TypeOK, Shaped, Holding, Aiming, HasSignature, Workers, ReadGoal
<1>3. Pruned' BY DEF IInv, TypeOK, Pruned, Pruning, Workers, ReadGoal
<1>4. Served'
  BY WorkersAssumption
  DEF IInv, TypeOK, Served, Serves, HasSignature, Holding, Workers, ReadGoal
<1>5. Collected' BY DEF IInv, TypeOK, Collected, Removes, Pruning, Workers, ReadGoal
<1> QED BY <1>1, <1>2, <1>3, <1>4, <1>5 DEF IInv

LEMMA CheckStep == ASSUME IInv, NEW w \in Observers, Check(w) PROVE IInv'
<1>1. TypeOK' BY DEF IInv, TypeOK, Labels, Workers, Check
<1>2. Shaped' BY DEF IInv, TypeOK, Shaped, Holding, Aiming, HasSignature, Workers, Check
<1>3. Pruned' BY DEF IInv, TypeOK, Pruned, Pruning, Workers, Check
<1>4. Served'
  BY WorkersAssumption
  DEF IInv, TypeOK, Served, Serves, HasSignature, Holding, Workers, Check
<1>5. Collected' BY DEF IInv, TypeOK, Collected, Removes, Pruning, Workers, Check
<1> QED BY <1>1, <1>2, <1>3, <1>4, <1>5 DEF IInv

LEMMA RecheckStep == ASSUME IInv, NEW w \in Observers, Recheck(w) PROVE IInv'
<1>1. TypeOK' BY DEF IInv, TypeOK, Labels, Workers, Recheck
<1>2. Shaped' BY DEF IInv, TypeOK, Shaped, Holding, Aiming, HasSignature, Workers, Recheck
<1>3. Pruned' BY DEF IInv, TypeOK, Pruned, Pruning, Workers, Recheck
<1>4. Served'
  BY WorkersAssumption
  DEF IInv, TypeOK, Served, Serves, HasSignature, Holding, Workers, Recheck
<1>5. Collected' BY DEF IInv, TypeOK, Collected, Removes, Pruning, Workers, Recheck
<1> QED BY <1>1, <1>2, <1>3, <1>4, <1>5 DEF IInv

LEMMA ProjectStep == ASSUME IInv, NEW w \in Observers, Project(w) PROVE IInv'
<1>1. TypeOK'
  <2>1. StructureFile(sig[w]) \in Files
    BY FileFacts DEF IInv, Shaped, HasSignature, Holding, Project, Workers
  <2> QED BY <2>1 DEF IInv, TypeOK, Labels, Project, Workers
<1>2. Shaped' BY DEF IInv, TypeOK, Shaped, Holding, Aiming, HasSignature, Workers, Project
<1>3. Pruned' BY DEF IInv, TypeOK, Pruned, Pruning, Workers, Project
<1>4. Served'
  BY WorkersAssumption
  DEF IInv, TypeOK, Served, Serves, HasSignature, Holding, Workers, Project
<1>5. Collected'
  <2>1. \A s : SnapshotFile(s) \in disk' => SnapshotFile(s) \in disk BY FileFacts DEF Project
  <2> QED BY <2>1 DEF IInv, TypeOK, Collected, Removes, Pruning, Project, Workers
<1> QED BY <1>1, <1>2, <1>3, <1>4, <1>5 DEF IInv

LEMMA RequestStep == ASSUME IInv, NEW w \in Requests, Request(w) PROVE IInv'
<1>1. TypeOK' BY DEF IInv, TypeOK, Labels, Workers, Request
<1>2. Shaped' BY DEF IInv, TypeOK, Shaped, Holding, Aiming, HasSignature, Workers, Request
<1>3. Pruned' BY DEF IInv, TypeOK, Pruned, Pruning, Workers, Request
<1>4. Served'
  BY WorkersAssumption
  DEF IInv, TypeOK, Served, Serves, HasSignature, Holding, Workers, Request
<1>5. Collected' BY DEF IInv, TypeOK, Collected, Removes, Pruning, Workers, Request
<1> QED BY <1>1, <1>2, <1>3, <1>4, <1>5 DEF IInv

LEMMA OpenStep == ASSUME IInv, NEW w \in Requests, Open(w) PROVE IInv'
<1> DEFINE s == row
<1>a. s \in Signatures BY DEF IInv, TypeOK, Open
<1>b. table' \in [Signatures -> Numbers \cup {0}] BY <1>a, LookUpTypes DEF IInv, Open, Workers
<1>c. PICK n \in Numbers : ref' = [ref EXCEPT ![w] = <<s, n>>] BY <1>a, LookUpTypes DEF IInv, Open, Workers
<1> HIDE DEF s
<1>1. TypeOK' BY <1>a, <1>b, <1>c DEF IInv, TypeOK, Labels, Open, Workers
<1>2. Shaped' BY <1>c, ReferenceIsNone DEF IInv, TypeOK, Shaped, Holding, Aiming, HasSignature, Open, Workers
<1>3. Pruned' BY <1>c DEF IInv, TypeOK, Pruned, Pruning, Open, Workers
<1>4. Served'
  BY WorkersAssumption
  DEF IInv, TypeOK, Served, Serves, HasSignature, Holding, Workers, Open
<1>5. Collected' BY DEF IInv, TypeOK, Collected, Removes, Pruning, Workers, Open
<1> QED BY <1>1, <1>2, <1>3, <1>4, <1>5 DEF IInv

LEMMA ReadStep == ASSUME IInv, NEW w \in Requests, Read(w) PROVE IInv'
<1>1. TypeOK' BY DEF IInv, TypeOK, Labels, Workers, Read
<1>2. Shaped' BY DEF IInv, TypeOK, Shaped, Holding, Aiming, HasSignature, Workers, Read
<1>3. Pruned' BY DEF IInv, TypeOK, Pruned, Pruning, Workers, Read
<1>4. Served'
  BY WorkersAssumption
  DEF IInv, TypeOK, Served, Serves, HasSignature, Holding, Workers, Read
<1>5. Collected' BY DEF IInv, TypeOK, Collected, Removes, Pruning, Workers, Read
<1> QED BY <1>1, <1>2, <1>3, <1>4, <1>5 DEF IInv

LEMMA ReadRowStep == ASSUME IInv, NEW w \in Workers, ReadRow(w) PROVE IInv'
<1>1. TypeOK' BY DEF IInv, TypeOK, Labels, ReadRow
<1>2. Shaped' BY DEF IInv, TypeOK, Shaped, Holding, Aiming, HasSignature, ReadRow
<1>3. Pruned' BY DEF IInv, TypeOK, Pruned, Pruning, ReadRow
<1>4. Served'
  BY WorkersAssumption
  DEF IInv, TypeOK, Served, Serves, HasSignature, Holding, Workers, ReadRow
<1>5. Collected' BY DEF IInv, TypeOK, Collected, Removes, Pruning, ReadRow
<1> QED BY <1>1, <1>2, <1>3, <1>4, <1>5 DEF IInv

LEMMA FindLockStep == ASSUME IInv, NEW w \in Workers, FindLock(w) PROVE IInv'
<1> DEFINE s == sig[w]
<1>a. s \in Signatures BY DEF IInv, Shaped, HasSignature, FindLock
<1>b. table' \in [Signatures -> Numbers \cup {0}] BY <1>a, LookUpTypes DEF IInv, FindLock
<1>c. PICK n \in Numbers : ref' = [ref EXCEPT ![w] = <<s, n>>] BY <1>a, LookUpTypes DEF IInv, FindLock
<1> HIDE DEF s
<1>1. TypeOK' BY <1>a, <1>b, <1>c DEF IInv, TypeOK, Labels, FindLock
<1>2. Shaped' BY <1>c, ReferenceIsNone DEF IInv, TypeOK, Shaped, Holding, Aiming, HasSignature, FindLock
<1>3. Pruned' BY <1>c DEF IInv, TypeOK, Pruned, Pruning, FindLock
<1>4. Served'
  BY WorkersAssumption
  DEF IInv, TypeOK, Served, Serves, HasSignature, Holding, Workers, FindLock
<1>5. Collected' BY DEF IInv, TypeOK, Collected, Removes, Pruning, FindLock
<1> QED BY <1>1, <1>2, <1>3, <1>4, <1>5 DEF IInv

LEMMA LockStep == ASSUME IInv, NEW w \in Workers, Lock(w) PROVE IInv'
<1>1. TypeOK'
  <2>1. ref[w][2] \in Numbers BY AimedIsLock DEF IInv, Lock, Aiming
  <2> QED BY <2>1 DEF IInv, TypeOK, Labels, Lock
<1>2. Shaped'
  <2>1. ref[w][2] # 0 BY AimedIsLock DEF IInv, Lock, Aiming
  <2> QED BY <2>1 DEF IInv, TypeOK, Shaped, Holding, Aiming, HasSignature, Lock
<1>3. Pruned' BY DEF IInv, TypeOK, Pruned, Pruning, Lock
<1>4. Served'
  BY WorkersAssumption
  DEF IInv, TypeOK, Served, Serves, HasSignature, Holding, Workers, Lock
<1>5. Collected' BY DEF IInv, TypeOK, Collected, Removes, Pruning, Lock
<1> QED BY <1>1, <1>2, <1>3, <1>4, <1>5 DEF IInv

LEMMA FailStep == ASSUME IInv, NEW w \in Workers, Fail(w) PROVE IInv'
<1>1. TypeOK' BY DEF IInv, TypeOK, Labels, Fail
<1>2. Shaped' BY DEF IInv, TypeOK, Shaped, Holding, Aiming, HasSignature, Fail
<1>3. Pruned' BY DEF IInv, TypeOK, Pruned, Pruning, Fail
<1>4. Served'
  BY WorkersAssumption
  DEF IInv, TypeOK, Served, Serves, HasSignature, Holding, Workers, Fail
<1>5. Collected' BY DEF IInv, TypeOK, Collected, Removes, Pruning, Fail
<1> QED BY <1>1, <1>2, <1>3, <1>4, <1>5 DEF IInv

LEMMA PublishStep == ASSUME IInv, NEW w \in Workers, Publish(w) PROVE IInv'
<1>1. TypeOK'
  <2>1. SnapshotFile(sig[w]) \in Files
    BY FileFacts DEF IInv, Shaped, HasSignature, Holding, Publish
  <2> QED BY <2>1 DEF IInv, TypeOK, Labels, Publish
<1>2. Shaped' BY DEF IInv, TypeOK, Shaped, Holding, Aiming, HasSignature, Publish
<1>3. Pruned' BY DEF IInv, TypeOK, Pruned, Pruning, Publish
<1>4. Served'
  BY WorkersAssumption
  DEF IInv, TypeOK, Served, Serves, HasSignature, Holding, Workers, Publish
<1>5. Collected'
  <2>1. pc'[w] = "structure" BY DEF IInv, TypeOK, Publish
  <2> QED BY <2>1 DEF Collected, Removes
<1> QED BY <1>1, <1>2, <1>3, <1>4, <1>5 DEF IInv

LEMMA WriteStructureStep == ASSUME IInv, NEW w \in Workers, WriteStructure(w) PROVE IInv'
<1>1. TypeOK'
  <2>1. StructureFile(sig[w]) \in Files
    BY FileFacts DEF IInv, Shaped, HasSignature, Holding, WriteStructure
  <2> QED BY <2>1 DEF IInv, TypeOK, Labels, WriteStructure
<1>2. Shaped' BY DEF IInv, TypeOK, Shaped, Holding, Aiming, HasSignature, WriteStructure
<1>3. Pruned' BY DEF IInv, TypeOK, Pruned, Pruning, WriteStructure
<1>4. Served'
  BY WorkersAssumption
  DEF IInv, TypeOK, Served, Serves, HasSignature, Holding, Workers, WriteStructure
<1>5. Collected'
  <2>1. \A s : SnapshotFile(s) \in disk' => SnapshotFile(s) \in disk BY FileFacts DEF WriteStructure
  <2> QED BY <2>1 DEF IInv, TypeOK, Collected, Removes, Pruning, WriteStructure
<1> QED BY <1>1, <1>2, <1>3, <1>4, <1>5 DEF IInv

LEMMA ListStep == ASSUME IInv, NEW w \in Workers, List(w) PROVE IInv'
<1>1. TypeOK'
  <2>1. Superseded(sig[w]) \subseteq Files BY DEF IInv, TypeOK, Superseded
  <2> QED BY <2>1 DEF IInv, TypeOK, Labels, List
<1>2. Shaped' BY DEF IInv, TypeOK, Shaped, Holding, Aiming, HasSignature, List
<1>3. Pruned'
  <2>1. \A f \in Superseded(sig[w]) : f.sig # sig[w] BY DEF Superseded
  <2> QED BY <2>1 DEF IInv, TypeOK, Pruned, Pruning, List
<1>4. Served'
  BY WorkersAssumption
  DEF IInv, TypeOK, Served, Serves, HasSignature, Holding, Workers, List
<1>5. Collected'
  <2>1. \A s, t \in Signatures :
           SnapshotFile(s) \in disk /\ SnapshotFile(t) \in disk /\ s # t =>
             {SnapshotFile(s), SnapshotFile(t)} \cap Superseded(sig[w]) # {}
    BY FileFacts DEF Superseded
  <2>2. todo'[w] = Superseded(sig[w]) /\ pc'[w] = "prune" BY DEF IInv, TypeOK, List
  <2> QED BY <2>1, <2>2 DEF Collected, Removes, Pruning, List
<1> QED BY <1>1, <1>2, <1>3, <1>4, <1>5 DEF IInv

LEMMA ListFailsStep == ASSUME IInv, NEW w \in Workers, ListFails(w) PROVE IInv'
<1>1. TypeOK' BY DEF IInv, TypeOK, Labels, ListFails
<1>2. Shaped' BY DEF IInv, TypeOK, Shaped, Holding, Aiming, HasSignature, ListFails
<1>3. Pruned' BY DEF IInv, TypeOK, Pruned, Pruning, ListFails
<1>4. Served'
  BY WorkersAssumption
  DEF IInv, TypeOK, Served, Serves, HasSignature, Holding, Workers, ListFails
<1>5. Collected' BY DEF Collected, ListFails
<1> QED BY <1>1, <1>2, <1>3, <1>4, <1>5 DEF IInv

LEMMA AimAtStep == ASSUME IInv, NEW w \in Workers, AimAt(w) PROVE IInv'
<1> DEFINE s == NextFile(w).sig
<1>a. s \in Signatures BY FirstIsNamed DEF IInv, AimAt
<1>b. table' \in [Signatures -> Numbers \cup {0}] BY <1>a, LookUpTypes DEF IInv, AimAt
<1>c. PICK n \in Numbers : ref' = [ref EXCEPT ![w] = <<s, n>>] BY <1>a, LookUpTypes DEF IInv, AimAt
<1> HIDE DEF s
<1>1. TypeOK' BY <1>a, <1>b, <1>c DEF IInv, TypeOK, Labels, AimAt
<1>2. Shaped' BY <1>c, ReferenceIsNone DEF IInv, TypeOK, Shaped, Holding, Aiming, HasSignature, AimAt
<1>3. Pruned'
  <2>1. SnapshotFile(s) \in todo[w] BY FirstIsListed, FirstIsNamed DEF IInv, AimAt, s
  <2> QED BY <1>c, <2>1 DEF IInv, TypeOK, Pruned, Pruning, AimAt
<1>4. Served'
  BY WorkersAssumption
  DEF IInv, TypeOK, Served, Serves, HasSignature, Holding, Workers, AimAt
<1>5. Collected' BY DEF IInv, TypeOK, Collected, Removes, Pruning, AimAt
<1> QED BY <1>1, <1>2, <1>3, <1>4, <1>5 DEF IInv

LEMMA RemoveSnapshotStep == ASSUME IInv, NEW w \in Workers, RemoveSnapshot(w) PROVE IInv'
<1> DEFINE l == ref[w]
           f == SnapshotFile(l[1])
<1>a. l \in Signatures \X Numbers /\ l[1] \in Signatures /\ l[2] \in Numbers
      /\ l = <<l[1], l[2]>> /\ pc[w] = "remove"
  BY AimedIsLock DEF IInv, RemoveSnapshot, Aiming
<1>b. f \in todo[w] /\ f.sig = l[1] BY <1>a, FileFacts DEF IInv, Pruned
<1>c. /\ pc' = [pc EXCEPT ![w] = "prune"]
      /\ todo' = [todo EXCEPT ![w] = @ \ {f}]
      /\ ref' = [ref EXCEPT ![w] = NoRef]
      /\ \E d \in SUBSET {l} : removed' = [removed EXCEPT ![w] = @ \cup d]
      /\ UNCHANGED <<row, state, indexer, moves, owed, table, goal, sig, own, lost>>
  BY DEF RemoveSnapshot
<1>d. /\ disk' = disk \/ disk' = disk \ {f}
      /\ (failed' = failed /\ f \notin disk') \/ failed' = TRUE
  <2>1. Removed(f) BY DEF RemoveSnapshot
  <2> HIDE DEF f
  <2> QED BY <2>1 DEF Removed
<1> HIDE DEF l, f
<1>1. TypeOK'
  <2>1. disk' \subseteq Files /\ failed' \in BOOLEAN BY <1>d DEF IInv, TypeOK
  <2>2. PICK d \in SUBSET {l} : removed' = [removed EXCEPT ![w] = @ \cup d] BY <1>c
  <2>3. removed' \in [Workers -> SUBSET (Signatures \X Numbers)] BY <1>a, <2>2 DEF IInv, TypeOK
  <2> QED BY <1>a, <1>c, <2>1, <2>3 DEF IInv, TypeOK, Labels
<1>2. Shaped' BY <1>a, <1>c DEF IInv, TypeOK, Shaped, Holding, Aiming, HasSignature
<1>3. Pruned'
  <2>1. PICK d \in SUBSET {l} : removed' = [removed EXCEPT ![w] = @ \cup d] BY <1>c
  <2>2. \A k \in removed[w] : k[1] # l[1] /\ k[1] # sig[w] /\ SnapshotFile(k[1]) \notin todo[w]
    BY <1>b DEF IInv, Pruned, f
  <2>3. l[1] # sig[w] BY <1>b DEF IInv, Pruned
  <2>4. removed'[w] = removed[w] \cup d /\ todo'[w] = todo[w] \ {f} /\ pc'[w] = "prune" /\ sig' = sig
    BY <1>c, <2>1 DEF IInv, TypeOK
  <2>5. \A k \in removed'[w] : k[1] # sig'[w] /\ SnapshotFile(k[1]) \notin todo'[w]
    BY <2>2, <2>3, <2>4 DEF f
  <2>6. \A j, k \in removed'[w] : j[1] = k[1] => j = k
    BY <2>2, <2>4 DEF IInv, Pruned
  <2>7. \A g \in todo'[w] : g.sig # sig'[w] BY <2>4 DEF IInv, Pruned
  <2>8. \A v \in Workers \ {w} : pc'[v] = pc[v] /\ todo'[v] = todo[v]
                                 /\ removed'[v] = removed[v] /\ ref'[v] = ref[v]
    BY <1>c, <2>1 DEF IInv, TypeOK
  <2> QED BY <2>4, <2>5, <2>6, <2>7, <2>8 DEF IInv, Pruned, Pruning
<1>4. Served'
  <2>1. StructureFile(row) \in disk => StructureFile(row) \in disk' BY <1>d, FileFacts DEF f
  <2>2. \A v \in Observers : Serves(v) => Serves(v)'
    BY <1>a, <1>c DEF IInv, TypeOK, Serves, HasSignature, Holding, Workers
  <2> QED BY <1>c, <2>1, <2>2 DEF IInv, Served
<1>5. Collected'
  <2>1. SUFFICES ASSUME ~failed', NEW s \in Signatures, NEW t \in Signatures, s # t,
                        SnapshotFile(s) \in disk', SnapshotFile(t) \in disk'
                 PROVE  \E v \in Workers : Removes(v, s, t)'
    BY DEF Collected
  <2>2. f \notin {SnapshotFile(s), SnapshotFile(t)} BY <1>d, <2>1
  <2>3. PICK v \in Workers : Removes(v, s, t) BY <1>d, <2>1 DEF IInv, Collected
  <2>4. Removes(v, s, t)'
    BY <1>a, <1>c, <2>2, <2>3 DEF IInv, TypeOK, Removes, Pruning
  <2> QED BY <2>4
<1> QED BY <1>1, <1>2, <1>3, <1>4, <1>5 DEF IInv

LEMMA RemoveStructureStep == ASSUME IInv, NEW w \in Workers, RemoveStructure(w) PROVE IInv'
<1> DEFINE f == NextFile(w)
<1>a. f \in todo[w] /\ (\A s : f # SnapshotFile(s)) /\ pc[w] = "prune"
  BY FirstIsListed, FirstIsNamed DEF IInv, RemoveStructure
<1>b. /\ todo' = [todo EXCEPT ![w] = @ \ {f}]
      /\ lost' = (lost \/ f = StructureFile(row))
      /\ disk' = disk \/ disk' = disk \ {f}
      /\ failed' = failed \/ failed' = TRUE
      /\ UNCHANGED <<row, state, indexer, moves, owed, table, pc, goal, sig, own, ref, removed>>
  BY DEF RemoveStructure, Removed
<1> HIDE DEF f
<1>1. TypeOK' BY <1>b DEF IInv, TypeOK, Labels
<1>2. Shaped' BY <1>b DEF IInv, Shaped
<1>3. Pruned' BY <1>a, <1>b DEF IInv, TypeOK, Pruned, Pruning
<1>4. Served'
  <2>1. ~lost' /\ StructureFile(row) \in disk => StructureFile(row) \in disk' BY <1>b
  <2>2. \A v \in Observers : Serves(v) => Serves(v)' BY <1>b DEF Serves
  <2> QED BY <1>b, <2>1, <2>2 DEF IInv, Served, TypeOK
<1>5. Collected'
  <2>1. \A s, t : \A v \in Workers : Removes(v, s, t) => Removes(v, s, t)'
    BY <1>a, <1>b DEF IInv, TypeOK, Removes
  <2>2. \A s : SnapshotFile(s) \in disk' => SnapshotFile(s) \in disk BY <1>b
  <2>3. ~failed' => ~failed BY <1>b DEF IInv, TypeOK
  <2> QED BY <2>1, <2>2, <2>3 DEF IInv, Collected
<1> QED BY <1>1, <1>2, <1>3, <1>4, <1>5 DEF IInv

LEMMA DropLocksStep == ASSUME IInv, NEW w \in Workers, DropLocks(w) PROVE IInv'
<1>1. TypeOK' BY DEF IInv, TypeOK, Labels, DropLocks
<1>2. Shaped' BY DEF IInv, TypeOK, Shaped, Holding, Aiming, HasSignature, DropLocks
<1>3. Pruned' BY DEF IInv, TypeOK, Pruned, Pruning, DropLocks
<1>4. Served'
  BY WorkersAssumption
  DEF IInv, TypeOK, Served, Serves, HasSignature, Holding, Workers, DropLocks
<1>5. Collected' BY DEF IInv, TypeOK, Collected, Removes, Pruning, DropLocks
<1> QED BY <1>1, <1>2, <1>3, <1>4, <1>5 DEF IInv

LEMMA LeaveStep == ASSUME IInv, NEW w \in Workers, Leave(w) PROVE IInv'
<1>1. TypeOK' BY DEF IInv, TypeOK, Labels, Leave
<1>2. Shaped'
  <2>1. sig[w] \in Signatures BY DEF IInv, Shaped, HasSignature, Holding, Leave
  <2>2. \A v \in Workers \ {w} : pc'[v] = pc[v] /\ own'[v] = own[v] /\ ref'[v] = ref[v] /\ sig'[v] = sig[v]
    BY DEF IInv, TypeOK, Leave
  <2>3. own'[w] = 0 /\ ref'[w] = ref[w] BY DEF IInv, TypeOK, Leave
  <2>4. (pc'[w] = "recheck" /\ sig'[w] = sig[w]) \/ pc'[w] = "idle" BY DEF IInv, TypeOK, Leave
  <2>5. pc[w] = "leave" BY DEF Leave
  <2> QED BY <2>1, <2>2, <2>3, <2>4, <2>5 DEF IInv, Shaped, Holding, Aiming, HasSignature
<1>3. Pruned' BY DEF IInv, TypeOK, Pruned, Pruning, Leave
<1>4. Served'
  BY WorkersAssumption
  DEF IInv, TypeOK, Served, Serves, HasSignature, Holding, Workers, Leave
<1>5. Collected' BY DEF IInv, TypeOK, Collected, Removes, Pruning, Leave
<1> QED BY <1>1, <1>2, <1>3, <1>4, <1>5 DEF IInv

LEMMA Start == Init => IInv
<1> SUFFICES ASSUME Init PROVE IInv OBVIOUS
<1>1. TypeOK
  <2>1. row \in Signatures /\ moves \in 0..MaxMoves
    BY SignaturesAssumption, MovesAssumption DEF Init
  <2>2. ref \in [Workers -> (Signatures \X Numbers) \cup {NoRef}] BY DEF Init
  <2>3. todo \in [Workers -> SUBSET Files] /\ removed \in [Workers -> SUBSET (Signatures \X Numbers)]
    BY DEF Init
  <2> QED BY <2>1, <2>2, <2>3 DEF Init, TypeOK, Labels
<1>2. Shaped BY DEF Init, Shaped, Holding, Aiming, HasSignature, NoRef
<1>3. Pruned BY DEF Init, Pruned, Pruning
<1>4. Served BY DEF Init, Served
<1>5. Collected BY DEF Init, Collected
<1> QED BY <1>1, <1>2, <1>3, <1>4, <1>5 DEF IInv

LEMMA Stutter == ASSUME IInv, UNCHANGED vars PROVE IInv'
<1>1. TypeOK' BY DEF IInv, TypeOK, vars
<1>2. Shaped' BY DEF IInv, Shaped, vars
<1>3. Pruned' BY DEF IInv, Pruned, vars
<1>4. Served' BY DEF IInv, Served, Serves, vars
<1>5. Collected' BY DEF IInv, Collected, Removes, vars
<1> QED BY <1>1, <1>2, <1>3, <1>4, <1>5 DEF IInv

LEMMA StepsStep == ASSUME IInv, NEW w \in Workers, Steps(w) PROVE IInv'
BY ReadRowStep, FindLockStep, LockStep, FailStep, PublishStep, WriteStructureStep, ListStep,
   ListFailsStep, AimAtStep, RemoveSnapshotStep, RemoveStructureStep, DropLocksStep, LeaveStep
DEF Steps

LEMMA Inductive == IInv /\ [Next]_vars => IInv'
<1> SUFFICES ASSUME IInv, [Next]_vars PROVE IInv' OBVIOUS
<1>1. CASE HeadMoves \/ MarkIndexing \/ Indexed \/ Restart
  BY <1>1, HeadMovesStep, MarkIndexingStep, IndexedStep, RestartStep
<1>2. ASSUME NEW w \in Observers, Prepare(w) PROVE IInv'
  <2>1. w \in Workers BY DEF Workers
  <2> QED BY <1>2, <2>1, StepsStep, TakeStep, ReadGoalStep, CheckStep, RecheckStep, ProjectStep DEF Prepare
<1>3. ASSUME NEW w \in Requests, Request(w) \/ Steps(w) \/ Open(w) \/ Read(w) PROVE IInv'
  <2>1. w \in Workers BY DEF Workers
  <2> QED BY <1>3, <2>1, StepsStep, RequestStep, OpenStep, ReadStep
<1>4. CASE UNCHANGED vars BY <1>4, Stutter
<1> QED BY <1>1, <1>2, <1>3, <1>4 DEF Next

LEMMA Invariant == Spec => []IInv
<1>1. Init => IInv BY Start
<1>2. IInv /\ [Next]_vars => IInv' BY Inductive
<1> QED BY <1>1, <1>2, PTL DEF Spec

-----------------------------------------------------------------------------
(* Types: a new lock always finds a number that nobody refers to, and every *)
(* file is named after a signature (snapshotLock, Snapshot).               *)
THEOREM TypesHold == Spec => []TypeOK
<1>1. IInv => TypeOK BY DEF IInv
<1> QED BY <1>1, Invariant, PTL

(* At rest, a ready repository has the structure of its row, unless its    *)
(* preparation failed or a goroutine with an older row removed it          *)
(* (PrepareStructure).                                                     *)
THEOREM ReadyIsPrepared == Spec => []PreparedIsServed
<1>1. IInv => PreparedIsServed
  <2> SUFFICES ASSUME IInv PROVE PreparedIsServed OBVIOUS
  <2>1. Quiet => \A w \in Observers : ~Serves(w)
    BY DEF Quiet, Serves, HasSignature, Holding, Workers
  <2> QED BY <2>1 DEF IInv, Served, PreparedIsServed, Quiet
<1> QED BY <1>1, Invariant, PTL

\* StructureProgress, with the exception its comment does not make.
BuildingOrLost ==
  state = "ready" /\ StructureFile(row) \notin disk =>
    owed \/ lost \/ \E w \in Observers : pc[w] # "idle"

(* A ready repository without its structure is queued or being prepared,   *)
(* unless its preparation failed or a goroutine with an older row removed  *)
(* it: StructureProgress reports "building" wrongly in no other case, and  *)
(* a restart takes that one back.                                          *)
THEOREM BuildingIsMeant == Spec => []BuildingOrLost
<1>1. IInv => BuildingOrLost
  <2> SUFFICES ASSUME IInv PROVE BuildingOrLost OBVIOUS
  <2>1. \A w \in Observers : Serves(w) => pc[w] # "idle" BY DEF Serves, HasSignature, Holding
  <2> QED BY <2>1 DEF IInv, Served, BuildingOrLost
<1> QED BY <1>1, Invariant, PTL

(* At rest, at most one snapshot is left, unless a publication was cut     *)
(* short (removeSupersededSnapshots).                                      *)
THEOREM OneSnapshotIsLeft == Spec => []SnapshotsCollected
<1>1. IInv => SnapshotsCollected
  <2> SUFFICES ASSUME IInv PROVE SnapshotsCollected OBVIOUS
  <2>1. Quiet => \A w \in Workers : \A s, t : ~Removes(w, s, t)
    BY DEF Quiet, Removes, Pruning
  <2> QED BY <2>1 DEF IInv, Collected, SnapshotsCollected
<1> QED BY <1>1, Invariant, PTL

-----------------------------------------------------------------------------
(* The locks themselves.                                                   *)

\* A lock has one holder, although the table forgets locks that are looked up.
OneHolder ==
  \A v, w \in Workers : own[v] # 0 /\ own[v] = own[w] /\ sig[v] = sig[w] => v = w

\* Whoever waits in Snapshot waits for the lock of the file it will build.
AimsAtOwn == \A w \in Workers : pc[w] = "lock" => ref[w][1] = sig[w]

\* Who is waited for and waits itself prunes, and wants the lock of a signature
\* other than its own.
BlockersPrune ==
  \A u, v, w \in Workers : WaitsFor(u, v) /\ WaitsFor(v, w) =>
    pc[v] = "remove" /\ sig[v] # sig[w]

LInv == OneHolder /\ AimsAtOwn

\* A step takes no lock, and does not move the signature of who has one.
TakesNoLock(w) ==
  /\ \A v \in Workers \ {w} :
       own'[v] = own[v] /\ sig'[v] = sig[v] /\ pc'[v] = pc[v] /\ ref'[v] = ref[v]
  /\ own'[w] = 0 \/ (own'[w] = own[w] /\ sig'[w] = sig[w])
  /\ pc'[w] = "lock" => ref'[w][1] = sig'[w]

LEMMA NoLockTaken == ASSUME LInv, NEW w \in Workers, TakesNoLock(w) PROVE LInv'
<1>1. OneHolder' BY DEF LInv, OneHolder, TakesNoLock
<1>2. AimsAtOwn' BY DEF LInv, AimsAtOwn, TakesNoLock
<1> QED BY <1>1, <1>2 DEF LInv

LEMMA LockTaken == ASSUME IInv, LInv, NEW w \in Workers, Lock(w) PROVE LInv'
<1>1. /\ own' = [own EXCEPT ![w] = ref[w][2]]
      /\ pc' \in {[pc EXCEPT ![w] = "leave"], [pc EXCEPT ![w] = "build"]}
      /\ ref' = [ref EXCEPT ![w] = NoRef] /\ sig' = sig /\ pc[w] = "lock"
  BY DEF Lock
<1>2. ref[w] = <<sig[w], ref[w][2]>> BY <1>1, AimedIsLock DEF IInv, LInv, AimsAtOwn, Aiming
<1>3. \A v \in Workers : own[v] # 0 /\ sig[v] = sig[w] => own[v] # ref[w][2]
  BY <1>2 DEF Lock, Free
<1>4. \A v \in Workers : own'[v] = IF v = w THEN ref[w][2] ELSE own[v]
  BY <1>1 DEF IInv, TypeOK
<1>5. ref[w][2] # 0 BY <1>1, AimedIsLock DEF IInv, Aiming
<1>6. OneHolder' BY <1>1, <1>3, <1>4, <1>5 DEF LInv, OneHolder
<1>7. AimsAtOwn' BY <1>1 DEF IInv, TypeOK, LInv, AimsAtOwn
<1> QED BY <1>6, <1>7 DEF LInv

LEMMA OtherSteps ==
  ASSUME IInv, LInv, NEW w \in Workers, Prepare(w) \/ Request(w) \/ Open(w) \/ Read(w), ~Lock(w)
  PROVE  LInv'
<1> SUFFICES TakesNoLock(w) BY NoLockTaken
<1> USE DEF IInv, TypeOK, TakesNoLock
<1>0. pc[w] \notin Holding => own[w] = 0 BY DEF Shaped
<1>1. CASE Take(w) BY <1>1 DEF Take
<1>2. CASE ReadGoal(w) BY <1>2 DEF ReadGoal
<1>3. CASE Check(w) BY <1>3 DEF Check
<1>4. CASE Request(w) BY <1>4 DEF Request
<1>5. CASE ReadRow(w)
  <2>1. \A v \in Workers \ {w} :
           own'[v] = own[v] /\ sig'[v] = sig[v] /\ pc'[v] = pc[v] /\ ref'[v] = ref[v]
    BY <1>5 DEF ReadRow
  <2>2. own'[w] = 0 BY <1>0, <1>5 DEF ReadRow, Holding
  <2>3. pc'[w] # "lock" BY <1>5 DEF ReadRow
  <2> QED BY <2>1, <2>2, <2>3
<1>6. CASE FindLock(w) BY <1>6 DEF FindLock, LookUp
<1>7. CASE Fail(w)
  <2>1. \A v \in Workers \ {w} :
           own'[v] = own[v] /\ sig'[v] = sig[v] /\ pc'[v] = pc[v] /\ ref'[v] = ref[v]
    BY <1>7 DEF Fail
  <2>2. own'[w] = 0 BY <1>7 DEF Fail
  <2>3. pc'[w] # "lock" BY <1>7 DEF Fail
  <2> QED BY <2>1, <2>2, <2>3
<1>8. CASE Publish(w) BY <1>8 DEF Publish
<1>9. CASE WriteStructure(w) BY <1>9 DEF WriteStructure
<1>10. CASE List(w) \/ ListFails(w) BY <1>10 DEF List, ListFails
<1>11. CASE AimAt(w) BY <1>11 DEF AimAt, LookUp
<1>12. CASE RemoveSnapshot(w) BY <1>12 DEF RemoveSnapshot
<1>13. CASE RemoveStructure(w) BY <1>13 DEF RemoveStructure
<1>14. CASE DropLocks(w) BY <1>14 DEF DropLocks
<1>15. CASE Leave(w)
  <2>1. \A v \in Workers \ {w} :
           own'[v] = own[v] /\ sig'[v] = sig[v] /\ pc'[v] = pc[v] /\ ref'[v] = ref[v]
    BY <1>15 DEF Leave
  <2>2. own'[w] = 0 BY <1>15 DEF Leave
  <2>3. pc'[w] # "lock" BY <1>15 DEF Leave
  <2> QED BY <2>1, <2>2, <2>3
<1>16. CASE Recheck(w)
  <2>1. \A v \in Workers \ {w} :
           own'[v] = own[v] /\ sig'[v] = sig[v] /\ pc'[v] = pc[v] /\ ref'[v] = ref[v]
    BY <1>16 DEF Recheck
  <2>2. own'[w] = 0 BY <1>0, <1>16 DEF Recheck, Holding
  <2>3. pc'[w] # "lock" BY <1>16 DEF Recheck
  <2> QED BY <2>1, <2>2, <2>3
<1>17. CASE Project(w)
  <2>1. \A v \in Workers \ {w} :
           own'[v] = own[v] /\ sig'[v] = sig[v] /\ pc'[v] = pc[v] /\ ref'[v] = ref[v]
    BY <1>17 DEF Project
  <2>2. own'[w] = 0 BY <1>0, <1>17 DEF Project, Holding
  <2>3. pc'[w] # "lock" BY <1>17 DEF Project
  <2> QED BY <2>1, <2>2, <2>3
<1>18. CASE Open(w) BY <1>18 DEF Open, LookUp
<1>19. CASE Read(w) BY <1>19 DEF Read
<1> QED BY <1>1, <1>2, <1>3, <1>4, <1>5, <1>6, <1>7, <1>8, <1>9, <1>10, <1>11, <1>12,
     <1>13, <1>14, <1>15, <1>16, <1>17, <1>18, <1>19
   DEF Prepare, Steps

LEMMA LocksInductive == IInv /\ LInv /\ [Next]_vars => LInv'
<1> SUFFICES ASSUME IInv, LInv, [Next]_vars PROVE LInv' OBVIOUS
<1>1. CASE HeadMoves \/ MarkIndexing \/ Indexed \/ UNCHANGED vars
  BY <1>1 DEF HeadMoves, MarkIndexing, Indexed, vars, LInv, OneHolder, AimsAtOwn
<1>2. CASE Restart BY <1>2 DEF Restart, LInv, OneHolder, AimsAtOwn
<1>3. ASSUME NEW w \in Workers, Prepare(w) \/ Request(w) \/ Open(w) \/ Read(w) PROVE LInv'
  BY <1>3, LockTaken, OtherSteps
<1> QED BY <1>1, <1>2, <1>3 DEF Next, Prepare, Workers

LEMMA LocksInvariant == Spec => [](IInv /\ LInv)
<1>1. Init => LInv BY DEF Init, LInv, OneHolder, AimsAtOwn
<1> QED BY <1>1, Start, Inductive, LocksInductive, PTL DEF Spec

(* No two goroutines are inside one lock of a snapshot file, whatever the  *)
(* table of locks forgets and whatever numbers are used again              *)
(* (snapshotLock, removeSupersededSnapshots).                              *)
THEOREM LocksExclude == Spec => []OneHolder
<1>1. LInv => OneHolder BY DEF LInv
<1> QED BY <1>1, LocksInvariant, PTL

(* Goroutines block each other in one way only: every link of a chain, and *)
(* so of a deadlock, is inside removeSupersededSnapshots.  A reader, or a  *)
(* goroutine that builds, can only be at its end.                          *)
THEOREM DeadlockIsOfPruners == Spec => []BlockersPrune
<1>1. IInv => BlockersPrune
  <2> SUFFICES ASSUME IInv, NEW u \in Workers, NEW v \in Workers, NEW w \in Workers,
                      WaitsFor(u, v), WaitsFor(v, w)
               PROVE  pc[v] = "remove" /\ sig[v] # sig[w]
    BY DEF BlockersPrune
  <2>1. own[v] # 0 /\ ref[v] = <<sig[w], own[w]>> BY DEF WaitsFor
  <2>2. pc[v] = "remove" BY <2>1, ReferenceIsNone DEF IInv, Shaped, Holding, Aiming
  <2>3. SnapshotFile(sig[w]) \in todo[v] BY <2>1, <2>2 DEF IInv, Pruned
  <2>4. sig[v] # sig[w] BY <2>3, FileFacts DEF IInv, Pruned
  <2> QED BY <2>2, <2>4
<1> QED BY <1>1, Invariant, PTL
=============================================================================
