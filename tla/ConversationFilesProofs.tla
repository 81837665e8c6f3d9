------------------------ MODULE ConversationFilesProofs ------------------------
(***************************************************************************)
(* Images survive, and deletes remove their own files, for any number of   *)
(* appends, deletes, crashes and cleanups, under both databases.           *)
(***************************************************************************)
EXTENDS ConversationFiles, FiniteSetTheorems, WellFoundedInduction, TLAPS

Items == files \cup token \cup todo \cup checked

Shaped ==
  /\ at \in [Appends -> {"idle", "write", "commit", "undo", "done"}]
  /\ DOMAIN id = Appends
  /\ rows \subseteq Appends
  /\ doing \in [Deletes -> {"idle", "row", "files", "done"}]
  /\ DOMAIN paths = Deletes
  /\ cleaning \in {"idle", "preview", "replan", "check", "unlink"}

\* A committed append is over, or is about to undo a Commit it got no answer for.
Committed ==
  /\ \A a \in rows : at[a] = "done" \/ a \in unsure
  /\ unsure \subseteq Appends
  /\ \A a \in unsure : at[a] \in {"undo", "done"} /\ backend = "postgres"

\* A file, wherever it is remembered, has the name its append was given.
Named ==
  \A item \in Items : \E a \in Appends :
    item = <<id[a], a>> /\ at[a] # "idle"

\* ImagesSurvive, for the appends whose row may be stored yet too.
Whole ==
  \A a \in Appends :
    (at[a] = "commit" \/ a \in Stored \/ (a \in unsure /\ chat[a] \in conversations)) =>
      (<<id[a], a>> \in files \/ a \in robbed \/ Reissued(a) \/ Retracted(a))

\* What a delete removes was committed for its conversation, which is gone.
Listed ==
  \A d \in Deletes :
    /\ doing[d] = "files" => target[d] \notin conversations
    /\ \A i \in paths[d] : \E a \in Appends :
         id[a] = i /\ chat[a] = target[d] /\ (at[a] = "done" \/ a \in unsure)

\* What the cleanup removes was written by an append that failed, for itself at
\* least, or by one that was under way at the preview and when Execute read the
\* references.
Planned ==
  /\ cleaning # "replan" /\ cleaning # "idle" => token = {}
  /\ cleaning \notin {"check", "unlink"} => todo = {} /\ checked = {}
  /\ \A a \in Appends : <<id[a], a>> \in token /\ Running(a) => a \in seen
  /\ \A a \in Appends : cleaning = "replan" /\ <<id[a], a>> \in token =>
       /\ Running(a) => a \in missed
       /\ a \in rows => a \in missed \/ id[a] \in live \/ Retracted(a)
  /\ \A a \in Appends : <<id[a], a>> \in todo \cup checked =>
       (Running(a) \/ (a \in rows /\ ~Retracted(a)) => a \in missed)

IInv == Shaped /\ Committed /\ Named /\ Whole /\ Listed /\ Planned

LEMMA Start == Init => IInv
BY DEF Init, IInv, Shaped, Committed, Named, Items, Whole, Stored, Listed, Planned, Running

LEMMA BeginStep == ASSUME IInv, NEW a \in Appends, Begin(a) PROVE IInv'
<1>1. Shaped' BY DEF IInv, Shaped, Begin, delete, cleanup, Without
<1>2. Committed' BY DEF IInv, Committed, Begin, delete, cleanup, Without
<1>3. Named' BY DEF IInv, Named, Items, Begin, delete, cleanup, Without
<1>4. Whole' BY DEF IInv, Shaped, Committed, Named, Items, Whole, Stored, Reissued, Retracted, Listed, Planned, Running, Begin, delete, cleanup, Without
<1>5. Listed' BY DEF IInv, Committed, Listed, Begin, delete, cleanup, Without
<1>6. Planned' BY DEF IInv, Shaped, Committed, Named, Items, Planned, Running, Retracted, Begin, delete, cleanup, Without
<1> QED BY <1>1, <1>2, <1>3, <1>4, <1>5, <1>6 DEF IInv

LEMMA WriteStep == ASSUME IInv, NEW a \in Appends, Write(a) PROVE IInv'
<1>1. Shaped' BY DEF IInv, Shaped, Write, delete, cleanup, Without
<1>2. Committed' BY DEF IInv, Committed, Write, delete, cleanup, Without
<1>3. Named' BY DEF IInv, Named, Items, Write, delete, cleanup, Without
<1>4. Whole' BY DEF IInv, Whole, Stored, Reissued, Retracted, Write, delete, cleanup, Without
<1>5. Listed' BY DEF IInv, Listed, Write, delete, cleanup, Without
<1>6. Planned' BY DEF IInv, Planned, Running, Retracted, Write, delete, cleanup, Without
<1> QED BY <1>1, <1>2, <1>3, <1>4, <1>5, <1>6 DEF IInv

LEMMA WriteFailsStep == ASSUME IInv, NEW a \in Appends, WriteFails(a) PROVE IInv'
<1>1. Shaped' BY DEF IInv, Shaped, WriteFails, delete, cleanup, Without
<1>2. Committed' BY DEF IInv, Committed, WriteFails, delete, cleanup, Without
<1>3. Named' BY DEF IInv, Named, Items, WriteFails, delete, cleanup, Without
<1>4. Whole' BY DEF IInv, Whole, Stored, Reissued, Retracted, WriteFails, delete, cleanup, Without
<1>5. Listed' BY DEF IInv, Listed, WriteFails, delete, cleanup, Without
<1>6. Planned' BY DEF IInv, Planned, Running, Retracted, WriteFails, delete, cleanup, Without
<1> QED BY <1>1, <1>2, <1>3, <1>4, <1>5, <1>6 DEF IInv

LEMMA CommitStep == ASSUME IInv, NEW a \in Appends, Commit(a) PROVE IInv'
<1>1. Shaped' BY DEF IInv, Shaped, Commit, delete, cleanup, Without
<1>2. Committed' BY DEF IInv, Shaped, Committed, Commit, delete, cleanup, Without
<1>3. Named' BY DEF IInv, Named, Items, Commit, delete, cleanup, Without
<1>4. Whole' BY DEF IInv, Whole, Stored, Reissued, Retracted, Commit, delete, cleanup, Without
<1>5. Listed' BY DEF IInv, Listed, Commit, delete, cleanup, Without
<1>6. Planned' BY DEF IInv, Planned, Running, Retracted, Commit, delete, cleanup, Without
<1> QED BY <1>1, <1>2, <1>3, <1>4, <1>5, <1>6 DEF IInv

LEMMA CommitUnansweredStep == ASSUME IInv, NEW a \in Appends, CommitUnanswered(a) PROVE IInv'
<1>1. Shaped' BY DEF IInv, Shaped, CommitUnanswered, delete, cleanup
<1>2. Committed' BY DEF IInv, Shaped, Committed, CommitUnanswered, delete, cleanup
<1>3. Named' BY DEF IInv, Named, Items, CommitUnanswered, delete, cleanup
<1>4. Whole' BY DEF IInv, Shaped, Committed, Whole, Stored, Reissued, Retracted, CommitUnanswered, delete, cleanup
<1>5. Listed' BY DEF IInv, Listed, CommitUnanswered, delete, cleanup
<1>6. Planned' BY DEF IInv, Shaped, Committed, Planned, Running, Retracted, CommitUnanswered, delete, cleanup
<1> QED BY <1>1, <1>2, <1>3, <1>4, <1>5, <1>6 DEF IInv

LEMMA CommitLandsStep == ASSUME IInv, NEW a \in Appends, CommitLands(a) PROVE IInv'
<1>1. Shaped' BY DEF IInv, Shaped, CommitLands, delete, cleanup
<1>2. Committed' BY DEF IInv, Shaped, Committed, CommitLands, delete, cleanup
<1>3. Named' BY DEF IInv, Named, Items, CommitLands, delete, cleanup
<1>4. Whole' BY DEF IInv, Shaped, Committed, Whole, Stored, Reissued, Retracted, CommitLands, delete, cleanup
<1>5. Listed' BY DEF IInv, Listed, CommitLands, delete, cleanup
<1>6. Planned' BY DEF IInv, Shaped, Committed, Planned, Running, Retracted, CommitLands, delete, cleanup
<1> QED BY <1>1, <1>2, <1>3, <1>4, <1>5, <1>6 DEF IInv

LEMMA FailStep == ASSUME IInv, NEW a \in Appends, Fail(a) PROVE IInv'
<1>1. Shaped' BY DEF IInv, Shaped, Fail, delete, cleanup, Without
<1>2. Committed' BY DEF IInv, Committed, Fail, delete, cleanup, Without
<1>3. Named' BY DEF IInv, Named, Items, Fail, delete, cleanup, Without
<1>4. Whole' BY DEF IInv, Whole, Stored, Reissued, Retracted, Fail, delete, cleanup, Without
<1>5. Listed' BY DEF IInv, Listed, Fail, delete, cleanup, Without
<1>6. Planned' BY DEF IInv, Planned, Running, Retracted, Fail, delete, cleanup, Without
<1> QED BY <1>1, <1>2, <1>3, <1>4, <1>5, <1>6 DEF IInv

LEMMA RollbackStep == ASSUME IInv, NEW a \in Appends, Rollback(a) PROVE IInv'
<1>1. Shaped' BY DEF IInv, Shaped, Rollback, delete, cleanup, Without
<1>2. Committed' BY DEF IInv, Committed, Rollback, delete, cleanup, Without
<1>3. Named' BY DEF IInv, Named, Items, Rollback, delete, cleanup, Without
<1>4. Whole' BY DEF IInv, Whole, Stored, Reissued, Retracted, Rollback, delete, cleanup, Without
<1>5. Listed' BY DEF IInv, Listed, Rollback, delete, cleanup, Without
<1>6. Planned' BY DEF IInv, Planned, Running, Retracted, Rollback, delete, cleanup, Without
<1> QED BY <1>1, <1>2, <1>3, <1>4, <1>5, <1>6 DEF IInv

LEMMA UndoStep == ASSUME IInv, NEW a \in Appends, Undo(a) PROVE IInv'
<1>1. Shaped' BY DEF IInv, Shaped, Undo, delete, cleanup, Without
<1>2. Committed' BY DEF IInv, Committed, Undo, delete, cleanup, Without
<1>3. Named' BY DEF IInv, Named, Items, Undo, delete, cleanup, Without
<1>4. Whole' BY DEF IInv, Shaped, Committed, Named, Items, Whole, Stored, Reissued, Retracted, Listed, Planned, Running, Retracted, Undo, delete, cleanup, Without
<1>5. Listed' BY DEF IInv, Listed, Undo, delete, cleanup, Without
<1>6. Planned' BY DEF IInv, Planned, Running, Retracted, Undo, delete, cleanup, Without
<1> QED BY <1>1, <1>2, <1>3, <1>4, <1>5, <1>6 DEF IInv

LEMMA ReadPathsStep == ASSUME IInv, NEW d \in Deletes, ReadPaths(d) PROVE IInv'
<1>1. Shaped' BY DEF IInv, Shaped, ReadPaths, append, cleanup
<1>2. Committed' BY DEF IInv, Committed, ReadPaths, append, cleanup
<1>3. Named' BY DEF IInv, Named, Items, ReadPaths, append, cleanup
<1>4. Whole' BY DEF IInv, Whole, Stored, Reissued, Retracted, ReadPaths, append, cleanup
<1>5. Listed' BY DEF IInv, Shaped, Committed, Named, Items, Listed, ReadPaths, append, cleanup
<1>6. Planned' BY DEF IInv, Planned, Running, Retracted, ReadPaths, append, cleanup
<1> QED BY <1>1, <1>2, <1>3, <1>4, <1>5, <1>6 DEF IInv

LEMMA DeleteRowStep == ASSUME IInv, NEW d \in Deletes, DeleteRow(d) PROVE IInv'
<1>1. Shaped' BY DEF IInv, Shaped, DeleteRow, append, cleanup
<1>2. Committed' BY DEF IInv, Committed, DeleteRow, append, cleanup
<1>3. Named' BY DEF IInv, Named, Items, DeleteRow, append, cleanup
<1>4. Whole' BY DEF IInv, Whole, Stored, Reissued, Retracted, DeleteRow, append, cleanup
<1>5. Listed' BY DEF IInv, Listed, DeleteRow, append, cleanup
<1>6. Planned' BY DEF IInv, Planned, Running, Retracted, DeleteRow, append, cleanup
<1> QED BY <1>1, <1>2, <1>3, <1>4, <1>5, <1>6 DEF IInv

LEMMA DeleteFailsStep == ASSUME IInv, NEW d \in Deletes, DeleteFails(d) PROVE IInv'
<1>1. Shaped' BY DEF IInv, Shaped, DeleteFails, append, cleanup
<1>2. Committed' BY DEF IInv, Committed, DeleteFails, append, cleanup
<1>3. Named' BY DEF IInv, Named, Items, DeleteFails, append, cleanup
<1>4. Whole' BY DEF IInv, Whole, Stored, Reissued, Retracted, DeleteFails, append, cleanup
<1>5. Listed' BY DEF IInv, Listed, DeleteFails, append, cleanup
<1>6. Planned' BY DEF IInv, Planned, Running, Retracted, DeleteFails, append, cleanup
<1> QED BY <1>1, <1>2, <1>3, <1>4, <1>5, <1>6 DEF IInv

LEMMA DeleteFileStep == ASSUME IInv, NEW d \in Deletes, DeleteFile(d) PROVE IInv'
<1>1. Shaped' BY DEF IInv, Shaped, DeleteFile, append, cleanup, Without
<1>2. Committed' BY DEF IInv, Committed, DeleteFile, append, cleanup, Without
<1>3. Named' BY DEF IInv, Named, Items, DeleteFile, append, cleanup, Without
<1>4. Whole' BY DEF IInv, Shaped, Committed, Named, Items, Whole, Stored, Reissued, Retracted, Listed, Planned, Running, Retracted, DeleteFile, append, cleanup, Without
<1>5. Listed' BY DEF IInv, Listed, DeleteFile, append, cleanup, Without
<1>6. Planned' BY DEF IInv, Planned, Running, Retracted, DeleteFile, append, cleanup, Without
<1> QED BY <1>1, <1>2, <1>3, <1>4, <1>5, <1>6 DEF IInv

LEMMA PreviewReadStep == ASSUME IInv, PreviewRead PROVE IInv'
<1>1. Shaped' BY DEF IInv, Shaped, PreviewRead, append, delete, ConversationImagePaths
<1>2. Committed' BY DEF IInv, Committed, PreviewRead, append, delete, ConversationImagePaths
<1>3. Named' BY DEF IInv, Named, Items, PreviewRead, append, delete, ConversationImagePaths
<1>4. Whole' BY DEF IInv, Whole, Stored, Reissued, Retracted, PreviewRead, append, delete, ConversationImagePaths
<1>5. Listed' BY DEF IInv, Listed, PreviewRead, append, delete, ConversationImagePaths
<1>6. Planned' BY DEF IInv, Planned, Running, Retracted, PreviewRead, append, delete, ConversationImagePaths
<1> QED BY <1>1, <1>2, <1>3, <1>4, <1>5, <1>6 DEF IInv

LEMMA PreviewScanStep == ASSUME IInv, PreviewScan PROVE IInv'
<1>1. Shaped' BY DEF IInv, Shaped, PreviewScan, append, delete, Cleanable
<1>2. Committed' BY DEF IInv, Committed, PreviewScan, append, delete, Cleanable
<1>3. Named' BY DEF IInv, Named, Items, PreviewScan, append, delete, Cleanable
<1>4. Whole' BY DEF IInv, Whole, Stored, Reissued, Retracted, PreviewScan, append, delete, Cleanable
<1>5. Listed' BY DEF IInv, Listed, PreviewScan, append, delete, Cleanable
<1>6. Planned' BY DEF IInv, Planned, Running, Retracted, PreviewScan, append, delete, Cleanable
<1> QED BY <1>1, <1>2, <1>3, <1>4, <1>5, <1>6 DEF IInv

LEMMA ExecuteReadStep == ASSUME IInv, ExecuteRead PROVE IInv'
<1>1. Shaped' BY DEF IInv, Shaped, ExecuteRead, append, delete, ConversationImagePaths
<1>2. Committed' BY DEF IInv, Committed, ExecuteRead, append, delete, ConversationImagePaths
<1>3. Named' BY DEF IInv, Named, Items, ExecuteRead, append, delete, ConversationImagePaths
<1>4. Whole' BY DEF IInv, Whole, Stored, Reissued, Retracted, ExecuteRead, append, delete, ConversationImagePaths
<1>5. Listed' BY DEF IInv, Listed, ExecuteRead, append, delete, ConversationImagePaths
<1>6. Planned' BY DEF IInv, Planned, Running, Retracted, ExecuteRead, append, delete, ConversationImagePaths
<1> QED BY <1>1, <1>2, <1>3, <1>4, <1>5, <1>6 DEF IInv

LEMMA ReplanStep == ASSUME IInv, Replan PROVE IInv'
<1>1. Shaped' BY DEF IInv, Shaped, Replan, append, delete, Cleanable
<1>2. Committed' BY DEF IInv, Committed, Replan, append, delete, Cleanable
<1>3. Named' BY DEF IInv, Named, Items, Replan, append, delete, Cleanable
<1>4. Whole' BY DEF IInv, Whole, Stored, Reissued, Retracted, Replan, append, delete, Cleanable
<1>5. Listed' BY DEF IInv, Listed, Replan, append, delete, Cleanable
<1>6. Planned' BY DEF IInv, Planned, Running, Retracted, Replan, append, delete, Cleanable
<1> QED BY <1>1, <1>2, <1>3, <1>4, <1>5, <1>6 DEF IInv

LEMMA CheckFileStep == ASSUME IInv, CheckFile PROVE IInv'
<1>1. Shaped' BY DEF IInv, Shaped, CheckFile, append, delete
<1>2. Committed' BY DEF IInv, Committed, CheckFile, append, delete
<1>3. Named' BY DEF IInv, Named, Items, CheckFile, append, delete
<1>4. Whole' BY DEF IInv, Whole, Stored, Reissued, Retracted, CheckFile, append, delete
<1>5. Listed' BY DEF IInv, Listed, CheckFile, append, delete
<1>6. Planned' BY DEF IInv, Planned, Running, Retracted, CheckFile, append, delete
<1> QED BY <1>1, <1>2, <1>3, <1>4, <1>5, <1>6 DEF IInv

LEMMA RemoveFileStep == ASSUME IInv, RemoveFile PROVE IInv'
<1>1. Shaped' BY DEF IInv, Shaped, RemoveFile, append, delete, Without
<1>2. Committed' BY DEF IInv, Committed, RemoveFile, append, delete, Without
<1>3. Named' BY DEF IInv, Named, Items, RemoveFile, append, delete, Without
<1>4. Whole' BY DEF IInv, Shaped, Committed, Named, Items, Whole, Stored, Reissued, Retracted, Listed, Planned, Running, Retracted, RemoveFile, append, delete, Without
<1>5. Listed' BY DEF IInv, Listed, RemoveFile, append, delete, Without
<1>6. Planned' BY DEF IInv, Planned, Running, Retracted, RemoveFile, append, delete, Without
<1> QED BY <1>1, <1>2, <1>3, <1>4, <1>5, <1>6 DEF IInv

LEMMA StopStep == ASSUME IInv, Stop PROVE IInv'
<1>1. Shaped' BY DEF IInv, Shaped, Stop, append, delete
<1>2. Committed' BY DEF IInv, Committed, Stop, append, delete
<1>3. Named' BY DEF IInv, Named, Items, Stop, append, delete
<1>4. Whole' BY DEF IInv, Whole, Stored, Reissued, Retracted, Stop, append, delete
<1>5. Listed' BY DEF IInv, Listed, Stop, append, delete
<1>6. Planned' BY DEF IInv, Planned, Running, Retracted, Stop, append, delete
<1> QED BY <1>1, <1>2, <1>3, <1>4, <1>5, <1>6 DEF IInv

LEMMA CrashStep == ASSUME IInv, NEW k \in Crashes, Crash(k) PROVE IInv'
<1>1. Shaped' BY DEF IInv, Shaped, Crash
<1>2. Committed' BY DEF IInv, Shaped, Committed, Crash
<1>3. Named' BY DEF IInv, Named, Items, Crash
<1>4. Whole' BY DEF IInv, Whole, Stored, Reissued, Retracted, Crash
<1>5. Listed' BY DEF IInv, Listed, Crash
<1>6. Planned' BY DEF IInv, Planned, Running, Retracted, Crash
<1> QED BY <1>1, <1>2, <1>3, <1>4, <1>5, <1>6 DEF IInv

LEMMA StepKeeps == IInv /\ [Next]_vars => IInv'
<1> SUFFICES ASSUME IInv, [Next]_vars PROVE IInv'
  OBVIOUS
<1>1. ASSUME NEW a \in Appends,
             Begin(a) \/ Write(a) \/ WriteFails(a) \/ Commit(a) \/ CommitUnanswered(a)
             \/ CommitLands(a) \/ Fail(a) \/ Rollback(a) \/ Undo(a)
      PROVE  IInv'
  BY <1>1, BeginStep, WriteStep, WriteFailsStep, CommitStep, CommitUnansweredStep,
     CommitLandsStep, FailStep, RollbackStep, UndoStep
<1>2. ASSUME NEW d \in Deletes, ReadPaths(d) \/ DeleteRow(d) \/ DeleteFails(d) \/ DeleteFile(d)
      PROVE  IInv'
  BY <1>2, ReadPathsStep, DeleteRowStep, DeleteFailsStep, DeleteFileStep
<1>3. CASE PreviewRead \/ PreviewScan \/ ExecuteRead \/ Replan \/ CheckFile \/ RemoveFile \/ Stop
  BY <1>3, PreviewReadStep, PreviewScanStep, ExecuteReadStep, ReplanStep, CheckFileStep, RemoveFileStep, StopStep
<1>4. ASSUME NEW k \in Crashes, Crash(k) PROVE IInv'
  BY <1>4, CrashStep
<1>5. CASE UNCHANGED vars
  BY <1>5 DEF vars, append, delete, cleanup, IInv, Shaped, Committed, Named, Items,
     Whole, Stored, Reissued, Retracted, Listed, Planned, Running
<1> QED BY <1>1, <1>2, <1>3, <1>4, <1>5 DEF Next

\* ImagesSurvive: the image of a stored message is there, for any number of
\* appends, deletes, crashes, cleanups and answers that did not arrive, but for
\* the three exceptions it names.
THEOREM ImagesAreKept == Spec => []ImagesSurvive
<1>1. IInv => ImagesSurvive
  BY DEF IInv, Shaped, Whole, Stored, ImagesSurvive, Retracted
<1> QED BY <1>1, Start, StepKeeps, PTL DEF Spec

\* DeletesOwnFiles: a delete leaves the files of other conversations alone,
\* where identifiers are not given twice.
THEOREM DeletesAreExact == Spec => DeletesOwnFiles
<1>1. IInv /\ [Next]_vars =>
        [\A d \in Deletes : \A i \in paths[d] \ paths'[d] :
           \A a \in Appends : <<i, a>> \in files /\ files' # files
             => chat[a] = target[d] \/ Reissued(a)]_vars
  BY DEF IInv, Committed, Named, Items, Listed, Reissued
<1> QED BY <1>1, Start, StepKeeps, PTL DEF Spec, DeletesOwnFiles

-----------------------------------------------------------------------------
(* Types.  SQLite gives a row the largest identifier plus one, PostgreSQL  *)
(* the last one plus one: either way there are no more identifiers than    *)
(* appends that have begun.                                                *)

Begun == {a \in Appends : at[a] # "idle"}

Counted ==
  /\ \A a \in Appends : id[a] \in 0..Cardinality(Begun)
  /\ sequence \in 0..Cardinality(Begun)
  /\ \A a \in Begun : id[a] # 0

TInv == TypeOK /\ Counted /\ Committed

LEMMA LargestExists ==
  ASSUME NEW S, NEW n \in Nat, S \subseteq 0..n, S # {}
  PROVE  Max(S) \in S /\ \A x \in S : Max(S) >= x
<1> DEFINE T == {n - x : x \in S}
<1>1. T \subseteq Nat /\ T # {}
  <2>1. ASSUME NEW x \in S PROVE n - x \in Nat
    <3>1. x \in 0..n OBVIOUS
    <3> QED BY <3>1
  <2> QED BY <2>1
<1>2. PICK t \in T : \A u \in T : ~ (<<u, t>> \in OpToRel(<, Nat))
  BY <1>1, NatLessThanWellFounded, WFMin
<1>3. \A u \in T : ~ (u < t) BY <1>1, <1>2 DEF OpToRel
<1>4. PICK x \in S : t = n - x OBVIOUS
<1>5. ASSUME NEW y \in S PROVE x >= y
  <2>1. n - y \in T /\ x \in Nat /\ y \in Nat OBVIOUS
  <2> QED BY <1>3, <1>4, <2>1
<1> QED BY <1>5 DEF Max

LEMMA BegunIsFinite ==
  /\ IsFiniteSet(Begun) /\ Cardinality(Begun) \in Nat
  /\ Cardinality(Appends) \in Nat /\ Cardinality(Begun) <= Cardinality(Appends)
<1>1. Begun \in SUBSET Appends BY DEF Begun
<1> QED BY <1>1, AppendAssumption, FS_Subset, FS_CardinalityType

LEMMA NextIdIsNext ==
  ASSUME TInv
  PROVE  NextId \in 1..(Cardinality(Begun) + 1)
<1> DEFINE n == Cardinality(Begun)
<1>1. n \in Nat BY BegunIsFinite
<1>2. CASE backend = "sqlite"
  <2> DEFINE S == ConversationImagePaths \cup {0}
  <2>1. S \subseteq 0..n BY <1>1 DEF TInv, TypeOK, Counted, ConversationImagePaths
  <2>2. Max(S) \in 0..n BY <1>1, <2>1, LargestExists
  <2> QED BY <1>1, <1>2, <2>2 DEF NextId
<1>3. CASE backend # "sqlite" BY <1>1, <1>3 DEF TInv, Counted, NextId
<1> QED BY <1>2, <1>3

LEMMA StartTyped == Init => TInv
<1> SUFFICES ASSUME Init PROVE TInv OBVIOUS
<1>1. Cardinality(Begun) \in Nat BY BegunIsFinite
<1>2. TypeOK BY DEF Init, TypeOK
<1>3. Counted BY <1>1 DEF Init, Counted, Begun
<1> QED BY <1>2, <1>3 DEF Init, TInv, Committed

\* A step that begins no append leaves the identifiers as they are.
LEMMA SameIds ==
  ASSUME TInv, Begun' = Begun, id' = id, sequence' = sequence
  PROVE  Counted'
BY DEF TInv, Counted

LEMMA BeginTyped == ASSUME TInv, NEW a \in Appends, Begin(a) PROVE TInv'
<1> DEFINE n == Cardinality(Begun)
<1>1. n \in Nat /\ Cardinality(Appends) \in Nat BY BegunIsFinite
<1>2. NextId \in 1..(n + 1) BY NextIdIsNext
<1>3. Begun' = Begun \cup {a} /\ a \notin Begun BY DEF Begun, TInv, TypeOK, Begin
<1>4. Cardinality(Begun') = n + 1 BY <1>3, BegunIsFinite, FS_AddElement
<1>5. Begun' \in SUBSET Appends BY <1>3 DEF Begun
<1>6. n + 1 <= Cardinality(Appends) BY <1>4, <1>5, AppendAssumption, FS_Subset
<1>7. NextId \in Ids BY <1>1, <1>2, <1>6 DEF Ids
<1>8. TypeOK' BY <1>7 DEF TInv, TypeOK, Begin, append, delete, cleanup
<1>9. Counted'
  <2>1. \A b \in Appends : id'[b] \in 0..(n + 1) BY <1>1, <1>2 DEF TInv, TypeOK, Counted, Begin
  <2>2. sequence' \in 0..(n + 1) BY <1>1, <1>2 DEF Begin
  <2>3. \A b \in Begun' : id'[b] # 0 BY <1>2, <1>3, <1>5 DEF TInv, TypeOK, Counted, Begin
  <2> QED BY <1>4, <2>1, <2>2, <2>3 DEF Counted
<1>10. Committed' BY DEF TInv, TypeOK, Committed, Begin
<1> QED BY <1>8, <1>9, <1>10 DEF TInv

LEMMA WriteTyped == ASSUME TInv, NEW a \in Appends, Write(a) PROVE TInv'
<1>1. TypeOK' BY DEF TInv, TypeOK, Counted, Committed, Begun, Ids, Without, Write, delete, cleanup
<1>2. Counted' BY SameIds DEF TInv, TypeOK, Begun, Write
<1>3. Committed' BY DEF TInv, TypeOK, Committed, Write
<1> QED BY <1>1, <1>2, <1>3 DEF TInv

LEMMA WriteFailsTyped == ASSUME TInv, NEW a \in Appends, WriteFails(a) PROVE TInv'
<1>1. TypeOK' BY DEF TInv, TypeOK, Counted, Committed, Begun, Ids, Without, WriteFails, delete, cleanup
<1>2. Counted' BY SameIds DEF TInv, TypeOK, Begun, WriteFails
<1>3. Committed' BY DEF TInv, TypeOK, Committed, WriteFails
<1> QED BY <1>1, <1>2, <1>3 DEF TInv

LEMMA CommitTyped == ASSUME TInv, NEW a \in Appends, Commit(a) PROVE TInv'
<1>1. TypeOK' BY DEF TInv, TypeOK, Commit, delete, cleanup
<1>2. Counted' BY SameIds DEF TInv, TypeOK, Begun, Commit
<1>3. Committed' BY DEF TInv, TypeOK, Committed, Commit
<1> QED BY <1>1, <1>2, <1>3 DEF TInv

LEMMA CommitUnansweredTyped == ASSUME TInv, NEW a \in Appends, CommitUnanswered(a) PROVE TInv'
<1>1. TypeOK' BY DEF TInv, TypeOK, CommitUnanswered, delete, cleanup
<1>2. Counted' BY SameIds DEF TInv, TypeOK, Begun, CommitUnanswered
<1>3. Committed' BY DEF TInv, TypeOK, Committed, CommitUnanswered
<1> QED BY <1>1, <1>2, <1>3 DEF TInv

LEMMA CommitLandsTyped == ASSUME TInv, NEW a \in Appends, CommitLands(a) PROVE TInv'
<1>1. TypeOK' BY DEF TInv, TypeOK, CommitLands, delete, cleanup
<1>2. Counted' BY SameIds DEF TInv, TypeOK, Begun, CommitLands
<1>3. Committed' BY DEF TInv, TypeOK, Committed, CommitLands
<1> QED BY <1>1, <1>2, <1>3 DEF TInv

LEMMA FailTyped == ASSUME TInv, NEW a \in Appends, Fail(a) PROVE TInv'
<1>1. TypeOK' BY DEF TInv, TypeOK, Fail, delete, cleanup
<1>2. Counted' BY SameIds DEF TInv, TypeOK, Begun, Fail
<1>3. Committed' BY DEF TInv, TypeOK, Committed, Fail
<1> QED BY <1>1, <1>2, <1>3 DEF TInv

LEMMA RollbackTyped == ASSUME TInv, NEW a \in Appends, Rollback(a) PROVE TInv'
<1>1. TypeOK' BY DEF TInv, TypeOK, Rollback, delete, cleanup
<1>2. Counted' BY SameIds DEF TInv, TypeOK, Begun, Rollback
<1>3. Committed' BY DEF TInv, TypeOK, Committed, Rollback
<1> QED BY <1>1, <1>2, <1>3 DEF TInv

LEMMA UndoTyped == ASSUME TInv, NEW a \in Appends, Undo(a) PROVE TInv'
<1>1. TypeOK' BY DEF TInv, TypeOK, Counted, Committed, Begun, Ids, Without, Undo, delete, cleanup
<1>2. Counted' BY SameIds DEF TInv, TypeOK, Begun, Undo
<1>3. Committed' BY DEF TInv, TypeOK, Committed, Undo
<1> QED BY <1>1, <1>2, <1>3 DEF TInv

LEMMA ReadPathsTyped == ASSUME TInv, NEW d \in Deletes, ReadPaths(d) PROVE TInv'
<1>1. TypeOK' BY DEF TInv, TypeOK, Counted, Committed, Begun, Ids, ReadPaths, append, cleanup
<1>2. Counted' BY SameIds DEF TInv, TypeOK, Begun, ReadPaths, append
<1>3. Committed' BY DEF TInv, TypeOK, Committed, ReadPaths, append
<1> QED BY <1>1, <1>2, <1>3 DEF TInv

LEMMA DeleteRowTyped == ASSUME TInv, NEW d \in Deletes, DeleteRow(d) PROVE TInv'
<1>1. TypeOK' BY DEF TInv, TypeOK, DeleteRow, append, cleanup
<1>2. Counted' BY SameIds DEF TInv, TypeOK, Begun, DeleteRow, append
<1>3. Committed' BY DEF TInv, TypeOK, Committed, DeleteRow, append
<1> QED BY <1>1, <1>2, <1>3 DEF TInv

LEMMA DeleteFailsTyped == ASSUME TInv, NEW d \in Deletes, DeleteFails(d) PROVE TInv'
<1>1. TypeOK' BY DEF TInv, TypeOK, DeleteFails, append, cleanup
<1>2. Counted' BY SameIds DEF TInv, TypeOK, Begun, DeleteFails, append
<1>3. Committed' BY DEF TInv, TypeOK, Committed, DeleteFails, append
<1> QED BY <1>1, <1>2, <1>3 DEF TInv

LEMMA DeleteFileTyped == ASSUME TInv, NEW d \in Deletes, DeleteFile(d) PROVE TInv'
<1>1. TypeOK' BY DEF TInv, TypeOK, Without, DeleteFile, append, cleanup
<1>2. Counted' BY SameIds DEF TInv, TypeOK, Begun, DeleteFile, append
<1>3. Committed' BY DEF TInv, TypeOK, Committed, DeleteFile, append
<1> QED BY <1>1, <1>2, <1>3 DEF TInv

LEMMA PreviewReadTyped == ASSUME TInv, PreviewRead PROVE TInv'
<1>1. TypeOK' BY DEF TInv, TypeOK, Counted, Committed, Begun, Ids, ConversationImagePaths, PreviewRead, append, delete
<1>2. Counted' BY SameIds DEF TInv, TypeOK, Begun, PreviewRead, append
<1>3. Committed' BY DEF TInv, TypeOK, Committed, PreviewRead, append
<1> QED BY <1>1, <1>2, <1>3 DEF TInv

LEMMA PreviewScanTyped == ASSUME TInv, PreviewScan PROVE TInv'
<1>1. TypeOK' BY DEF TInv, TypeOK, Cleanable, Running, PreviewScan, append, delete
<1>2. Counted' BY SameIds DEF TInv, TypeOK, Begun, PreviewScan, append
<1>3. Committed' BY DEF TInv, TypeOK, Committed, PreviewScan, append
<1> QED BY <1>1, <1>2, <1>3 DEF TInv

LEMMA ExecuteReadTyped == ASSUME TInv, ExecuteRead PROVE TInv'
<1>1. TypeOK' BY DEF TInv, TypeOK, Counted, Committed, Begun, Ids, ConversationImagePaths, Running, ExecuteRead, append, delete
<1>2. Counted' BY SameIds DEF TInv, TypeOK, Begun, ExecuteRead, append
<1>3. Committed' BY DEF TInv, TypeOK, Committed, ExecuteRead, append
<1> QED BY <1>1, <1>2, <1>3 DEF TInv

LEMMA ReplanTyped == ASSUME TInv, Replan PROVE TInv'
<1>1. TypeOK' BY DEF TInv, TypeOK, Cleanable, Replan, append, delete
<1>2. Counted' BY SameIds DEF TInv, TypeOK, Begun, Replan, append
<1>3. Committed' BY DEF TInv, TypeOK, Committed, Replan, append
<1> QED BY <1>1, <1>2, <1>3 DEF TInv

LEMMA CheckFileTyped == ASSUME TInv, CheckFile PROVE TInv'
<1>1. TypeOK' BY DEF TInv, TypeOK, CheckFile, append, delete
<1>2. Counted' BY SameIds DEF TInv, TypeOK, Begun, CheckFile, append
<1>3. Committed' BY DEF TInv, TypeOK, Committed, CheckFile, append
<1> QED BY <1>1, <1>2, <1>3 DEF TInv

LEMMA RemoveFileTyped == ASSUME TInv, RemoveFile PROVE TInv'
<1>1. TypeOK' BY DEF TInv, TypeOK, Without, RemoveFile, append, delete
<1>2. Counted' BY SameIds DEF TInv, TypeOK, Begun, RemoveFile, append
<1>3. Committed' BY DEF TInv, TypeOK, Committed, RemoveFile, append
<1> QED BY <1>1, <1>2, <1>3 DEF TInv

LEMMA StopTyped == ASSUME TInv, Stop PROVE TInv'
<1>1. TypeOK' BY DEF TInv, TypeOK, Without, Stop, append, delete
<1>2. Counted' BY SameIds DEF TInv, TypeOK, Begun, Stop, append
<1>3. Committed' BY DEF TInv, TypeOK, Committed, Stop, append
<1> QED BY <1>1, <1>2, <1>3 DEF TInv

LEMMA CrashTyped == ASSUME TInv, NEW k \in Crashes, Crash(k) PROVE TInv'
<1>1. TypeOK' BY DEF TInv, TypeOK, Running, Crash
<1>2. Counted'
  <2>1. \A a \in Appends : at'[a] = "idle" <=> at[a] = "idle" BY DEF Crash, Running
  <2>2. Begun' = Begun BY <2>1 DEF Begun
  <2> QED BY <2>2, SameIds DEF Crash
<1>3. Committed' BY DEF TInv, TypeOK, Committed, Crash
<1> QED BY <1>1, <1>2, <1>3 DEF TInv

LEMMA StepKeepsTypes == TInv /\ [Next]_vars => TInv'
<1> SUFFICES ASSUME TInv, [Next]_vars PROVE TInv' OBVIOUS
<1>1. ASSUME NEW a \in Appends,
             Begin(a) \/ Write(a) \/ WriteFails(a) \/ Commit(a) \/ CommitUnanswered(a)
             \/ CommitLands(a) \/ Fail(a) \/ Rollback(a) \/ Undo(a)
      PROVE  TInv'
  BY <1>1, BeginTyped, WriteTyped, WriteFailsTyped, CommitTyped, CommitUnansweredTyped,
     CommitLandsTyped, FailTyped, RollbackTyped, UndoTyped
<1>2. ASSUME NEW d \in Deletes, ReadPaths(d) \/ DeleteRow(d) \/ DeleteFails(d) \/ DeleteFile(d)
      PROVE  TInv'
  BY <1>2, ReadPathsTyped, DeleteRowTyped, DeleteFailsTyped, DeleteFileTyped
<1>3. CASE PreviewRead \/ PreviewScan \/ ExecuteRead \/ Replan \/ CheckFile \/ RemoveFile \/ Stop
  BY <1>3, PreviewReadTyped, PreviewScanTyped, ExecuteReadTyped, ReplanTyped, CheckFileTyped,
     RemoveFileTyped, StopTyped
<1>4. ASSUME NEW k \in Crashes, Crash(k) PROVE TInv'
  BY <1>4, CrashTyped
<1>5. CASE UNCHANGED vars
  <2>1. Begun' = Begun BY <1>5 DEF vars, append, Begun
  <2> QED BY <1>5, <2>1, SameIds DEF vars, append, delete, cleanup, TInv, TypeOK, Committed
<1> QED BY <1>1, <1>2, <1>3, <1>4, <1>5 DEF Next

\* The type invariant: above all, an identifier is one of Ids, so files have
\* names a cleanup and a delete can mean.
THEOREM TypesHold == Spec => []TypeOK
<1>1. TInv => TypeOK BY DEF TInv
<1> QED BY <1>1, StartTyped, StepKeepsTypes, PTL DEF Spec

-----------------------------------------------------------------------------
(* PostgreSQL: identifiers are given once and every connection enforces    *)
(* foreign keys, so the exceptions for SQLite are not needed.              *)

OnPostgres == Backends = {"postgres"}

\* No two appends have one identifier.
Unique ==
  /\ \A a \in Begun : id[a] <= sequence
  /\ \A a, b \in Begun : id[a] = id[b] => a = b

\* A row, committed or not, keeps its conversation.
Referenced == \A a \in rows \cup open : chat[a] \in conversations

PInv == TInv /\ backend = "postgres" /\ Unique /\ Referenced

LEMMA StartOnPostgres == ASSUME OnPostgres PROVE Init => PInv
BY StartTyped DEF OnPostgres, PInv, Unique, Referenced, Begun, Init

LEMMA BeginOnPostgres == ASSUME PInv, NEW a \in Appends, Begin(a) PROVE PInv'
<1>1. TInv' BY BeginTyped DEF PInv
<1>2. NextId = sequence + 1 /\ sequence \in Nat /\ \A b \in Appends : id[b] \in Nat
  <2>1. Cardinality(Begun) \in Nat BY BegunIsFinite
  <2> QED BY <2>1 DEF PInv, NextId, TInv, Counted
<1>3. Begun' = Begun \cup {a} /\ a \notin Begun BY DEF Begun, PInv, TInv, TypeOK, Begin
<1>4. sequence' = NextId /\ id' = [id EXCEPT ![a] = NextId] BY DEF PInv, Begin
<1>5. \A b \in Begun : id[b] <= sequence /\ id[b] < NextId /\ id'[b] = id[b] /\ b \in Appends
  BY <1>2, <1>3, <1>4 DEF PInv, Unique, TInv, TypeOK, Begun
<1>6. id'[a] = NextId BY <1>4 DEF PInv, TInv, TypeOK
<1>7. Unique'
  <2>1. \A b \in Begun' : id'[b] <= sequence' BY <1>2, <1>3, <1>4, <1>5, <1>6
  <2>2. \A b, c \in Begun' : id'[b] = id'[c] => b = c
    BY <1>2, <1>3, <1>5, <1>6 DEF PInv, Unique
  <2> QED BY <2>1, <2>2 DEF Unique
<1>8. Referenced' BY DEF PInv, Referenced, ForeignKeys, Begin, append
<1> QED BY <1>1, <1>7, <1>8 DEF PInv, Begin

\* A step that begins no append, commits only what is open, and deletes no
\* conversation of a row that is left.
LEMMA SameOnPostgres ==
  ASSUME PInv, TInv', Begun' = Begun, UNCHANGED <<id, sequence, chat, backend>>,
         rows' \cup open' \subseteq rows \cup open,
         \A a \in rows' \cup open' : chat[a] \in conversations => chat[a] \in conversations'
  PROVE  PInv'
BY DEF PInv, Unique, Referenced

LEMMA StepOnPostgres == PInv /\ [Next]_vars => PInv'
<1> SUFFICES ASSUME PInv, [Next]_vars PROVE PInv' OBVIOUS
<1>1. TInv' BY StepKeepsTypes DEF PInv
<1> USE DEF append, delete, cleanup
<1>2. ASSUME NEW a \in Appends, Begin(a) PROVE PInv' BY <1>2, BeginOnPostgres
<1>3. ASSUME NEW a \in Appends, Write(a) \/ WriteFails(a) \/ Commit(a) \/ CommitUnanswered(a)
             \/ CommitLands(a) \/ Fail(a) \/ Rollback(a) \/ Undo(a)
      PROVE  PInv'
  <2>1. Begun' = Begun
    BY <1>3 DEF PInv, TInv, TypeOK, Begun, Write, WriteFails, Commit, CommitUnanswered, CommitLands,
       Fail, Rollback, Undo
  <2>2. UNCHANGED <<id, sequence, chat, backend, conversations>> /\ rows' \cup open' \subseteq rows \cup open
    BY <1>3 DEF Write, WriteFails, Commit, CommitUnanswered, CommitLands,
       Fail, Rollback, Undo
  <2> QED BY <1>1, <2>1, <2>2, SameOnPostgres
<1>4. ASSUME NEW d \in Deletes, ReadPaths(d) \/ DeleteFails(d) \/ DeleteFile(d) PROVE PInv'
  <2>1. UNCHANGED <<at, id, sequence, chat, backend, conversations, rows, open>>
    BY <1>4 DEF ReadPaths, DeleteFails, DeleteFile
  <2>2. Begun' = Begun BY <2>1 DEF Begun
  <2> QED BY <1>1, <2>1, <2>2, SameOnPostgres
<1>5. ASSUME NEW d \in Deletes, DeleteRow(d) PROVE PInv'
  <2>1. UNCHANGED <<at, id, sequence, chat, backend, open>> BY <1>5 DEF DeleteRow
  <2>2. rows' = {a \in rows : chat[a] # target[d]} /\ conversations' = conversations \ {target[d]}
    BY <1>5 DEF PInv, DeleteRow, ForeignKeys
  <2>3. \A a \in open : chat[a] # target[d] BY <1>5 DEF PInv, DeleteRow, MayDelete
  <2>4. Begun' = Begun BY <2>1 DEF Begun
  <2> QED BY <1>1, <2>1, <2>2, <2>3, <2>4, SameOnPostgres
<1>6. ASSUME PreviewRead \/ PreviewScan \/ ExecuteRead \/ Replan \/ CheckFile \/ RemoveFile \/ Stop
             \/ UNCHANGED vars
      PROVE  PInv'
  <2>1. UNCHANGED <<at, id, sequence, chat, backend, conversations, rows, open>>
    BY <1>6 DEF vars, PreviewRead, PreviewScan, ExecuteRead, Replan, CheckFile, RemoveFile, Stop
  <2>2. Begun' = Begun BY <2>1 DEF Begun
  <2> QED BY <1>1, <2>1, <2>2, SameOnPostgres
<1>7. ASSUME NEW k \in Crashes, Crash(k) PROVE PInv'
  <2>1. \A a \in Appends : at'[a] = "idle" <=> at[a] = "idle" BY <1>7 DEF Crash, Running
  <2>2. Begun' = Begun BY <2>1 DEF Begun
  <2>3. UNCHANGED <<id, sequence, chat, backend, conversations, rows>> /\ open' \subseteq open BY <1>7 DEF Crash
  <2> QED BY <1>1, <2>2, <2>3, SameOnPostgres
<1> QED BY <1>2, <1>3, <1>4, <1>5, <1>6, <1>7 DEF Next

LEMMA AlwaysOnPostgres == ASSUME OnPostgres PROVE Spec => [](IInv /\ PInv)
<1>1. Init => IInv /\ PInv BY Start, StartOnPostgres
<1>2. IInv /\ PInv /\ [Next]_vars => IInv' /\ PInv' BY StepKeeps, StepOnPostgres
<1> QED BY <1>1, <1>2, PTL DEF Spec

\* What has begun has an identifier of its own.
LEMMA NotReissued ==
  ASSUME PInv, NEW a \in Appends, at[a] # "idle"
  PROVE  ~Reissued(a)
BY DEF PInv, Unique, Begun, Reissued

\* Under PostgreSQL the image of a stored message is lost in two ways: to a
\* cleanup that spans its append, and to the append itself, whose Commit took
\* effect without an answer.  Identifiers given twice are SQLite's exception.
THEOREM PostgresKeepsImages == ASSUME OnPostgres PROVE Spec => []AllImagesSurvive
<1>1. IInv /\ PInv => AllImagesSurvive
  <2> SUFFICES ASSUME IInv, PInv, NEW a \in Stored
                PROVE  <<id[a], a>> \in files \/ a \in robbed \/ Retracted(a)
    BY DEF AllImagesSurvive
  <2>1. a \in Appends /\ at[a] # "idle" BY DEF IInv, Shaped, Committed, Stored
  <2>2. ~Reissued(a) BY <2>1, NotReissued
  <2> QED BY <2>1, <2>2 DEF IInv, Whole
<1> QED BY <1>1, AlwaysOnPostgres, PTL

\* Under PostgreSQL a delete removes "only its exact RepoKarta-owned image files".
THEOREM PostgresDeletesItsFiles == ASSUME OnPostgres PROVE Spec => OnlyItsFiles
<1>1. IInv /\ PInv /\ [Next]_vars =>
        [\A d \in Deletes : \A i \in paths[d] \ paths'[d] :
           \A a \in Appends : <<i, a>> \in files /\ files' # files => chat[a] = target[d]]_vars
  <2>1. IInv /\ PInv => \A i : \A a \in Appends : <<i, a>> \in files => i = id[a] /\ ~Reissued(a)
    BY NotReissued DEF IInv, Named, Items
  <2> QED BY <2>1 DEF IInv, Committed, Listed, Reissued
<1> QED BY <1>1, Start, StepKeeps, AlwaysOnPostgres, PTL DEF Spec, OnlyItsFiles

\* Under PostgreSQL a deletion takes the transcript: no row of an image, and with
\* it no message, is left without its conversation.
THEOREM PostgresForgetsTranscripts == ASSUME OnPostgres PROVE Spec => []TranscriptGoes
<1>1. PInv => TranscriptGoes BY DEF PInv, Referenced, TranscriptGoes
<1> QED BY <1>1, AlwaysOnPostgres, PTL
=============================================================================
