-------------------------- MODULE AcquisitionProofs --------------------------
(***************************************************************************)
(* Proofs about Acquisition, for any repositories and commits and any      *)
(* number of crashes: no checkout without a row, what a ready row says,    *)
(* and who takes a repository out of the catalogue.                        *)
(***************************************************************************)
EXTENDS Acquisition, TLAPS

USE KindsAssumption, NamesAssumption, BoundAssumption

(* An operation that fetches or clones works on a row that exists and does *)
(* not say ready; a removal has its row until the row is deleted.          *)
RowsOfOp ==
  /\ op.kind \in {"acquire", "sync"} => Managed(op.repo)
  /\ op.at = "delete" => Managed(op.repo)
  /\ op.kind \in {"acquire", "sync"} /\ op.at \notin {"refresh", "fail"} =>
       state[op.repo] # "ready"

(* Before the row is written the checkout is what the row will say.        *)
RecordsCheckout ==
  /\ op.at \in {"activate", "checkout", "record"} => op.got # None
  /\ op.at = "record" /\ op.repo \in Owned => checkout[op.repo] = op.got

(* While a removal has the checkout in the trash, the row speaks of that.  *)
Place(r) ==
  IF op.repo = r /\ op.at = "delete" /\ op.got # None THEN op.got ELSE checkout[r]
ReadyNamesPlace ==
  \A r \in Owned \ unclean : state[r] = "ready" => head[r] = Place(r)

(* A removal is told from the other operations by its kind.                *)
InTrash == op.at = "delete" /\ op.repo \in Owned => checkout[op.repo] = None

(* An operation fails for a cause: a new clone never finds its target      *)
(* taken, for no checkout is an orphan.                                    *)
Causes ==
  /\ op.kind = "acquire" /\ op.at = "look" /\ op.repo \in Owned => checkout[op.repo] = None
  /\ op.at = "fail" /\ op.repo \in Owned \ Configured => op.repo \in faulty
  /\ \A r \in Owned \ Configured : state[r] = "error" => r \in faulty

IInv ==
  /\ TypeOK /\ NoOrphanCheckout
  /\ RowsOfOp /\ RecordsCheckout /\ InTrash
  /\ ReadyNamesPlace /\ Causes

-----------------------------------------------------------------------------
(* Types.                                                                  *)

(* What the type invariant says of the operation, in the words of a proof. *)
LEMMA OpFacts ==
  ASSUME TypeOK
  PROVE  /\ op.kind \in {None, "acquire", "sync", "remove"}
         /\ op.repo \in Repositories \cup {None} /\ (op.repo = None <=> op.kind = None)
         /\ op.kind = None <=> op.at = None
         /\ op.at = "delete" => op.kind = "remove"
         /\ op.kind = "remove" => op.at \in {"delete", "refresh"}
         /\ op.got \in Commits \cup {None} /\ op.before \in Commits \cup {None}
         /\ op.at = "inspect" => op.repo \in Local
         /\ op.at \in {"clone", "activate", "identify", "fetch", "checkout"} =>
              op.repo \in Owned
BY DEF TypeOK, StepsOf, Steps, Repositories, None

(* Every step keeps the types.                                            *)
LEMMA TypesStep ==
  ASSUME TypeOK, [Next]_vars
  PROVE  TypeOK'
<1> USE DEF TypeOK, StepsOf, Steps, Repositories, None, NoOp, Idle, rows, outside, Managed
<1>1. CASE RemoteMoves  BY <1>1 DEF RemoteMoves, Moves
<1>2. CASE UserMoves  BY <1>2 DEF UserMoves, Moves
<1>3. CASE Crash  BY <1>3 DEF Crash
<1>4. CASE Tick  BY <1>4 DEF Tick
<1>5. CASE Look  BY <1>5 DEF Look
<1>6. CASE Inspect
  <2>1. /\ op.at = "inspect" /\ op.kind \in {"acquire", "sync"} /\ op.repo \in Local
        /\ checkout[op.repo] \in Commits \cup {None}
    BY <1>6 DEF Inspect
  <2>2. UNCHANGED <<state, head, due, outside, checkout, listing, unclean>>
    BY <1>6 DEF Inspect
  <2>3. CASE op' = [op EXCEPT !.at = "fail"] /\ faulty' = faulty \cup {op.repo}
    BY <2>1, <2>2, <2>3
  <2>4. CASE op' = [op EXCEPT !.at = "record", !.got = checkout[op.repo]] /\ UNCHANGED faulty
    BY <2>1, <2>2, <2>4
  <2> QED  BY <1>6, <2>3, <2>4 DEF Inspect
<1>7. CASE Clone  BY <1>7 DEF Clone
<1>8. CASE Activate  BY <1>8 DEF Activate
<1>9. CASE Identify  BY <1>9 DEF Identify
<1>10. CASE Fetch  BY <1>10 DEF Fetch
<1>11. CASE Checkout  BY <1>11 DEF Checkout
<1>12. CASE StepFails  BY <1>12 DEF StepFails
<1>13. CASE Record  BY <1>13 DEF Record
<1>14. CASE RecordFails  BY <1>14 DEF RecordFails
<1>15. CASE Refresh
  <2>1. UNCHANGED <<state, head, due, outside, checkout, listing, unclean>>
    BY <1>15 DEF Refresh
  <2>2. faulty' \subseteq Repositories
    BY <1>15 DEF Refresh
  <2>3. CASE op' = NoOp  BY <2>1, <2>2, <2>3
  <2>4. CASE op.at = "refresh" /\ op.kind # "remove" /\ op' = [op EXCEPT !.at = "fail", !.before = op.got]
    BY <2>1, <2>2, <2>4
  <2> QED  BY <1>15, <2>3, <2>4 DEF Refresh
<1>16. CASE Fail  BY <1>16 DEF Fail
<1>17. CASE Delete  BY <1>17 DEF Delete
<1>18. CASE DeleteFails  BY <1>18 DEF DeleteFails
<1>19. ASSUME NEW r \in Repositories, Acquire(r) PROVE TypeOK'
  BY <1>19 DEF Acquire
<1>20. ASSUME NEW r \in Repositories, Sync(r) PROVE TypeOK'
  BY <1>20 DEF Sync, StartSync
<1>21. ASSUME NEW r \in Repositories, Remove(r) PROVE TypeOK'
  BY <1>21 DEF Remove
<1>22. ASSUME NEW r \in Repositories, SyncListed(r) PROVE TypeOK'
  BY <1>22 DEF SyncListed, StartSync
<1>23. ASSUME NEW r \in Repositories, BackoffEnds(r) PROVE TypeOK'
  BY <1>23 DEF BackoffEnds
<1>24. CASE UNCHANGED vars  BY <1>24 DEF vars
<1>25. CASE \E q \in Owned : GitBreaks(q) \/ GitMends(q)
  BY <1>25 DEF GitBreaks, GitMends, Moves
<1> HIDE DEF TypeOK, StepsOf, Steps, Repositories, None, NoOp, Idle, rows, outside, Managed
<1> QED
  BY <1>1, <1>2, <1>3, <1>4, <1>5, <1>6, <1>7, <1>8, <1>9, <1>10, <1>11, <1>12, <1>13, <1>14, <1>15, <1>16, <1>17, <1>18, <1>19, <1>20, <1>21, <1>22, <1>23, <1>24, <1>25 DEF Next

(* The rest of the invariant, one conjunct at a time.                      *)

(* A step leaves no checkout without a row.                                *)
LEMMA OrphanStep ==
  ASSUME IInv, [Next]_vars
  PROVE  NoOrphanCheckout'
<1>0. TypeOK /\ IInv  BY DEF IInv
<1> USE <1>0, OpFacts DEF IInv, TypeOK, RowsOfOp, NoOrphanCheckout, RecordsCheckout, InTrash,
    NoOrphanCheckout, Managed, NoOp, Idle, rows, outside, Repositories, None
<1>1. CASE RemoteMoves  BY <1>1 DEF RemoteMoves, Moves
<1>2. CASE UserMoves  BY <1>2 DEF UserMoves, Moves
<1>3. CASE Crash  BY <1>3 DEF Crash
<1>4. CASE Tick  BY <1>4 DEF Tick
<1>5. CASE Look  BY <1>5 DEF Look
<1>6. CASE Inspect  BY <1>6 DEF Inspect
<1>7. CASE Clone  BY <1>7 DEF Clone
<1>8. CASE Activate  BY <1>8 DEF Activate
<1>9. CASE Identify  BY <1>9 DEF Identify
<1>10. CASE Fetch  BY <1>10 DEF Fetch
<1>11. CASE Checkout  BY <1>11 DEF Checkout
<1>12. CASE StepFails  BY <1>12 DEF StepFails
<1>13. CASE Record  BY <1>13 DEF Record
<1>14. CASE RecordFails  BY <1>14 DEF RecordFails
<1>15. CASE Refresh
  <2>1. CASE op' = NoOp  BY <1>15, <2>1 DEF Refresh
  <2>2. CASE op.kind # "remove" /\ op' = [op EXCEPT !.at = "fail", !.before = op.got]
    BY <1>15, <2>2 DEF Refresh
  <2> QED  BY <1>15, <2>1, <2>2 DEF Refresh
<1>16. CASE Fail  BY <1>16 DEF Fail
<1>17. CASE Delete  BY <1>17 DEF Delete
<1>18. CASE DeleteFails  BY <1>18 DEF DeleteFails
<1>19. ASSUME NEW r \in Repositories, Acquire(r) PROVE NoOrphanCheckout'
  BY <1>19 DEF Acquire
<1>20. ASSUME NEW r \in Repositories, Sync(r) PROVE NoOrphanCheckout'
  BY <1>20 DEF Sync, StartSync
<1>21. ASSUME NEW r \in Repositories, Remove(r) PROVE NoOrphanCheckout'
  BY <1>21 DEF Remove
<1>22. ASSUME NEW r \in Repositories, SyncListed(r) PROVE NoOrphanCheckout'
  BY <1>22 DEF SyncListed, StartSync
<1>23. ASSUME NEW r \in Repositories, BackoffEnds(r) PROVE NoOrphanCheckout'
  BY <1>23 DEF BackoffEnds
<1>24. CASE UNCHANGED vars  BY <1>24 DEF vars
<1>25. CASE \E q \in Owned : GitBreaks(q) \/ GitMends(q)
  BY <1>25 DEF GitBreaks, GitMends, Moves
<1> HIDE DEF NoOrphanCheckout
<1> QED
  BY <1>1, <1>2, <1>3, <1>4, <1>5, <1>6, <1>7, <1>8, <1>9, <1>10, <1>11, <1>12, <1>13,
      <1>14, <1>15, <1>16, <1>17, <1>18, <1>19, <1>20, <1>21, <1>22, <1>23, <1>24, <1>25 DEF Next

(* A step leaves the row of the operation as that needs it.                *)
LEMMA RowsStep ==
  ASSUME IInv, [Next]_vars
  PROVE  RowsOfOp'
<1>0. TypeOK /\ IInv  BY DEF IInv
<1> USE <1>0, OpFacts DEF IInv, TypeOK, RowsOfOp, NoOrphanCheckout, RecordsCheckout, InTrash,
    RowsOfOp, Managed, NoOp, Idle, rows, outside, Repositories, None
<1>1. CASE RemoteMoves  BY <1>1 DEF RemoteMoves, Moves
<1>2. CASE UserMoves  BY <1>2 DEF UserMoves, Moves
<1>3. CASE Crash  BY <1>3 DEF Crash
<1>4. CASE Tick  BY <1>4 DEF Tick
<1>5. CASE Look  BY <1>5 DEF Look
<1>6. CASE Inspect  BY <1>6 DEF Inspect
<1>7. CASE Clone  BY <1>7 DEF Clone
<1>8. CASE Activate  BY <1>8 DEF Activate
<1>9. CASE Identify  BY <1>9 DEF Identify
<1>10. CASE Fetch  BY <1>10 DEF Fetch
<1>11. CASE Checkout  BY <1>11 DEF Checkout
<1>12. CASE StepFails  BY <1>12 DEF StepFails
<1>13. CASE Record  BY <1>13 DEF Record
<1>14. CASE RecordFails  BY <1>14 DEF RecordFails
<1>15. CASE Refresh
  <2>1. CASE op' = NoOp  BY <1>15, <2>1 DEF Refresh
  <2>2. CASE op.kind # "remove" /\ op' = [op EXCEPT !.at = "fail", !.before = op.got]
    BY <1>15, <2>2 DEF Refresh
  <2> QED  BY <1>15, <2>1, <2>2 DEF Refresh
<1>16. CASE Fail  BY <1>16 DEF Fail
<1>17. CASE Delete  BY <1>17 DEF Delete
<1>18. CASE DeleteFails  BY <1>18 DEF DeleteFails
<1>19. ASSUME NEW r \in Repositories, Acquire(r) PROVE RowsOfOp'
  BY <1>19 DEF Acquire
<1>20. ASSUME NEW r \in Repositories, Sync(r) PROVE RowsOfOp'
  BY <1>20 DEF Sync, StartSync
<1>21. ASSUME NEW r \in Repositories, Remove(r) PROVE RowsOfOp'
  BY <1>21 DEF Remove
<1>22. ASSUME NEW r \in Repositories, SyncListed(r) PROVE RowsOfOp'
  BY <1>22 DEF SyncListed, StartSync
<1>23. ASSUME NEW r \in Repositories, BackoffEnds(r) PROVE RowsOfOp'
  BY <1>23 DEF BackoffEnds
<1>24. CASE UNCHANGED vars  BY <1>24 DEF vars
<1>25. CASE \E q \in Owned : GitBreaks(q) \/ GitMends(q)
  BY <1>25 DEF GitBreaks, GitMends, Moves
<1> HIDE DEF RowsOfOp
<1> QED
  BY <1>1, <1>2, <1>3, <1>4, <1>5, <1>6, <1>7, <1>8, <1>9, <1>10, <1>11, <1>12, <1>13,
      <1>14, <1>15, <1>16, <1>17, <1>18, <1>19, <1>20, <1>21, <1>22, <1>23, <1>24, <1>25 DEF Next

(* A step leaves the record about to be written true.                      *)
LEMMA RecordStep ==
  ASSUME IInv, [Next]_vars
  PROVE  RecordsCheckout'
<1>0. TypeOK /\ IInv  BY DEF IInv
<1> USE <1>0, OpFacts DEF IInv, TypeOK, RowsOfOp, NoOrphanCheckout, RecordsCheckout, InTrash,
    RecordsCheckout, Managed, NoOp, Idle, rows, outside, Repositories, None
<1>1. CASE RemoteMoves  BY <1>1 DEF RemoteMoves, Moves
<1>2. CASE UserMoves  BY <1>2 DEF UserMoves, Moves
<1>3. CASE Crash  BY <1>3 DEF Crash
<1>4. CASE Tick  BY <1>4 DEF Tick
<1>5. CASE Look  BY <1>5 DEF Look
<1>6. CASE Inspect  BY <1>6 DEF Inspect
<1>7. CASE Clone  BY <1>7 DEF Clone
<1>8. CASE Activate  BY <1>8 DEF Activate
<1>9. CASE Identify  BY <1>9 DEF Identify
<1>10. CASE Fetch  BY <1>10 DEF Fetch
<1>11. CASE Checkout  BY <1>11 DEF Checkout
<1>12. CASE StepFails  BY <1>12 DEF StepFails
<1>13. CASE Record  BY <1>13 DEF Record
<1>14. CASE RecordFails  BY <1>14 DEF RecordFails
<1>15. CASE Refresh
  <2>1. CASE op' = NoOp  BY <1>15, <2>1 DEF Refresh
  <2>2. CASE op.kind # "remove" /\ op' = [op EXCEPT !.at = "fail", !.before = op.got]
    BY <1>15, <2>2 DEF Refresh
  <2> QED  BY <1>15, <2>1, <2>2 DEF Refresh
<1>16. CASE Fail  BY <1>16 DEF Fail
<1>17. CASE Delete  BY <1>17 DEF Delete
<1>18. CASE DeleteFails  BY <1>18 DEF DeleteFails
<1>19. ASSUME NEW r \in Repositories, Acquire(r) PROVE RecordsCheckout'
  BY <1>19 DEF Acquire
<1>20. ASSUME NEW r \in Repositories, Sync(r) PROVE RecordsCheckout'
  BY <1>20 DEF Sync, StartSync
<1>21. ASSUME NEW r \in Repositories, Remove(r) PROVE RecordsCheckout'
  BY <1>21 DEF Remove
<1>22. ASSUME NEW r \in Repositories, SyncListed(r) PROVE RecordsCheckout'
  BY <1>22 DEF SyncListed, StartSync
<1>23. ASSUME NEW r \in Repositories, BackoffEnds(r) PROVE RecordsCheckout'
  BY <1>23 DEF BackoffEnds
<1>24. CASE UNCHANGED vars  BY <1>24 DEF vars
<1>25. CASE \E q \in Owned : GitBreaks(q) \/ GitMends(q)
  BY <1>25 DEF GitBreaks, GitMends, Moves
<1> HIDE DEF RecordsCheckout
<1> QED
  BY <1>1, <1>2, <1>3, <1>4, <1>5, <1>6, <1>7, <1>8, <1>9, <1>10, <1>11, <1>12, <1>13,
      <1>14, <1>15, <1>16, <1>17, <1>18, <1>19, <1>20, <1>21, <1>22, <1>23, <1>24, <1>25 DEF Next

(* A step leaves a removed checkout in the trash.                          *)
LEMMA TrashStep ==
  ASSUME IInv, [Next]_vars
  PROVE  InTrash'
<1>0. TypeOK /\ IInv  BY DEF IInv
<1> USE <1>0, OpFacts DEF IInv, TypeOK, RowsOfOp, NoOrphanCheckout, RecordsCheckout, InTrash,
    InTrash, Managed, NoOp, Idle, rows, outside, Repositories, None
<1>1. CASE RemoteMoves  BY <1>1 DEF RemoteMoves, Moves
<1>2. CASE UserMoves  BY <1>2 DEF UserMoves, Moves
<1>3. CASE Crash  BY <1>3 DEF Crash
<1>4. CASE Tick  BY <1>4 DEF Tick
<1>5. CASE Look  BY <1>5 DEF Look
<1>6. CASE Inspect  BY <1>6 DEF Inspect
<1>7. CASE Clone  BY <1>7 DEF Clone
<1>8. CASE Activate  BY <1>8 DEF Activate
<1>9. CASE Identify  BY <1>9 DEF Identify
<1>10. CASE Fetch  BY <1>10 DEF Fetch
<1>11. CASE Checkout  BY <1>11 DEF Checkout
<1>12. CASE StepFails  BY <1>12 DEF StepFails
<1>13. CASE Record  BY <1>13 DEF Record
<1>14. CASE RecordFails  BY <1>14 DEF RecordFails
<1>15. CASE Refresh
  <2>1. CASE op' = NoOp  BY <1>15, <2>1 DEF Refresh
  <2>2. CASE op.kind # "remove" /\ op' = [op EXCEPT !.at = "fail", !.before = op.got]
    BY <1>15, <2>2 DEF Refresh
  <2> QED  BY <1>15, <2>1, <2>2 DEF Refresh
<1>16. CASE Fail  BY <1>16 DEF Fail
<1>17. CASE Delete  BY <1>17 DEF Delete
<1>18. CASE DeleteFails  BY <1>18 DEF DeleteFails
<1>19. ASSUME NEW r \in Repositories, Acquire(r) PROVE InTrash'
  BY <1>19 DEF Acquire
<1>20. ASSUME NEW r \in Repositories, Sync(r) PROVE InTrash'
  BY <1>20 DEF Sync, StartSync
<1>21. ASSUME NEW r \in Repositories, Remove(r) PROVE InTrash'
  BY <1>21 DEF Remove
<1>22. ASSUME NEW r \in Repositories, SyncListed(r) PROVE InTrash'
  BY <1>22 DEF SyncListed, StartSync
<1>23. ASSUME NEW r \in Repositories, BackoffEnds(r) PROVE InTrash'
  BY <1>23 DEF BackoffEnds
<1>24. CASE UNCHANGED vars  BY <1>24 DEF vars
<1>25. CASE \E q \in Owned : GitBreaks(q) \/ GitMends(q)
  BY <1>25 DEF GitBreaks, GitMends, Moves
<1> HIDE DEF InTrash
<1> QED
  BY <1>1, <1>2, <1>3, <1>4, <1>5, <1>6, <1>7, <1>8, <1>9, <1>10, <1>11, <1>12, <1>13,
      <1>14, <1>15, <1>16, <1>17, <1>18, <1>19, <1>20, <1>21, <1>22, <1>23, <1>24, <1>25 DEF Next

(* A step fails for a cause.                                               *)
LEMMA CausesStep ==
  ASSUME IInv, [Next]_vars
  PROVE  Causes'
<1>0. TypeOK /\ IInv  BY DEF IInv
<1> USE <1>0, OpFacts DEF IInv, TypeOK, RowsOfOp, NoOrphanCheckout, RecordsCheckout, InTrash,
    Causes, Identified, Managed, NoOp, Idle, rows, outside, Repositories, None
<1>1. CASE RemoteMoves  BY <1>1 DEF RemoteMoves, Moves
<1>2. CASE UserMoves  BY <1>2 DEF UserMoves, Moves
<1>3. CASE Crash  BY <1>3 DEF Crash
<1>4. CASE Tick  BY <1>4 DEF Tick
<1>5. CASE Look  BY <1>5 DEF Look
<1>6. CASE Inspect  BY <1>6 DEF Inspect
<1>7. CASE Clone  BY <1>7 DEF Clone
<1>8. CASE Activate  BY <1>8 DEF Activate
<1>9. CASE Identify  BY <1>9 DEF Identify
<1>10. CASE Fetch  BY <1>10 DEF Fetch
<1>11. CASE Checkout  BY <1>11 DEF Checkout
<1>12. CASE StepFails  BY <1>12 DEF StepFails
<1>13. CASE Record  BY <1>13 DEF Record
<1>14. CASE RecordFails  BY <1>14 DEF RecordFails
<1>15. CASE Refresh
  <2>1. CASE op' = NoOp  BY <1>15, <2>1 DEF Refresh
  <2>2. CASE op.kind # "remove" /\ op' = [op EXCEPT !.at = "fail", !.before = op.got]
    BY <1>15, <2>2 DEF Refresh
  <2> QED  BY <1>15, <2>1, <2>2 DEF Refresh
<1>16. CASE Fail  BY <1>16 DEF Fail
<1>17. CASE Delete  BY <1>17 DEF Delete
<1>18. CASE DeleteFails  BY <1>18 DEF DeleteFails
<1>19. ASSUME NEW r \in Repositories, Acquire(r) PROVE Causes'
  BY <1>19 DEF Acquire
<1>20. ASSUME NEW r \in Repositories, Sync(r) PROVE Causes'
  BY <1>20 DEF Sync, StartSync
<1>21. ASSUME NEW r \in Repositories, Remove(r) PROVE Causes'
  BY <1>21 DEF Remove
<1>22. ASSUME NEW r \in Repositories, SyncListed(r) PROVE Causes'
  BY <1>22 DEF SyncListed, StartSync
<1>23. ASSUME NEW r \in Repositories, BackoffEnds(r) PROVE Causes'
  BY <1>23 DEF BackoffEnds
<1>24. CASE UNCHANGED vars  BY <1>24 DEF vars
<1>25. CASE \E q \in Owned : GitBreaks(q) \/ GitMends(q)
  BY <1>25 DEF GitBreaks, GitMends, Moves
<1> HIDE DEF Causes
<1> QED
  BY <1>1, <1>2, <1>3, <1>4, <1>5, <1>6, <1>7, <1>8, <1>9, <1>10, <1>11, <1>12, <1>13,
      <1>14, <1>15, <1>16, <1>17, <1>18, <1>19, <1>20, <1>21, <1>22, <1>23, <1>24, <1>25 DEF Next

(* A step leaves ready rows at the commit of their checkout.               *)
LEMMA PlaceStep ==
  ASSUME IInv, [Next]_vars
  PROVE  ReadyNamesPlace'
<1>0. TypeOK /\ IInv  BY DEF IInv
<1> USE <1>0, OpFacts DEF IInv, TypeOK, RowsOfOp, NoOrphanCheckout, RecordsCheckout, InTrash,
    ReadyNamesPlace, Place, Managed, NoOp, Idle, rows, outside, Repositories, None
<1>1. CASE RemoteMoves  BY <1>1 DEF RemoteMoves, Moves
<1>2. CASE UserMoves  BY <1>2 DEF UserMoves, Moves
<1>3. CASE Crash  BY <1>3 DEF Crash
<1>4. CASE Tick  BY <1>4 DEF Tick
<1>5. CASE Look  BY <1>5 DEF Look
<1>6. CASE Inspect
  <2>1. CASE op' = [op EXCEPT !.at = "fail"]  BY <1>6, <2>1 DEF Inspect
  <2>2. CASE op' = [op EXCEPT !.at = "record", !.got = checkout[op.repo]]
    BY <1>6, <2>2 DEF Inspect
  <2> QED  BY <1>6, <2>1, <2>2 DEF Inspect
<1>7. CASE Clone  BY <1>7 DEF Clone
<1>8. CASE Activate  BY <1>8 DEF Activate
<1>9. CASE Identify  BY <1>9 DEF Identify
<1>10. CASE Fetch  BY <1>10 DEF Fetch
<1>11. CASE Checkout  BY <1>11 DEF Checkout
<1>12. CASE StepFails  BY <1>12 DEF StepFails
<1>13. CASE Record  BY <1>13 DEF Record
<1>14. CASE RecordFails  BY <1>14 DEF RecordFails
<1>15. CASE Refresh
  <2>1. CASE op' = NoOp  BY <1>15, <2>1 DEF Refresh
  <2>2. CASE op.kind # "remove" /\ op' = [op EXCEPT !.at = "fail", !.before = op.got]
    BY <1>15, <2>2 DEF Refresh
  <2> QED  BY <1>15, <2>1, <2>2 DEF Refresh
<1>16. CASE Fail  BY <1>16 DEF Fail
<1>17. CASE Delete  BY <1>17 DEF Delete
<1>18. CASE DeleteFails  BY <1>18 DEF DeleteFails
<1>19. ASSUME NEW r \in Repositories, Acquire(r) PROVE ReadyNamesPlace'
  BY <1>19 DEF Acquire
<1>20. ASSUME NEW r \in Repositories, Sync(r) PROVE ReadyNamesPlace'
  BY <1>20 DEF Sync, StartSync
<1>21. ASSUME NEW r \in Repositories, Remove(r) PROVE ReadyNamesPlace'
  BY <1>21 DEF Remove
<1>22. ASSUME NEW r \in Repositories, SyncListed(r) PROVE ReadyNamesPlace'
  BY <1>22 DEF SyncListed, StartSync
<1>23. ASSUME NEW r \in Repositories, BackoffEnds(r) PROVE ReadyNamesPlace'
  BY <1>23 DEF BackoffEnds
<1>24. CASE UNCHANGED vars  BY <1>24 DEF vars
<1>25. CASE \E q \in Owned : GitBreaks(q) \/ GitMends(q)
  BY <1>25 DEF GitBreaks, GitMends, Moves
<1> HIDE DEF ReadyNamesPlace
<1> QED
  BY <1>1, <1>2, <1>3, <1>4, <1>5, <1>6, <1>7, <1>8, <1>9, <1>10, <1>11, <1>12, <1>13,
      <1>14, <1>15, <1>16, <1>17, <1>18, <1>19, <1>20, <1>21, <1>22, <1>23, <1>24, <1>25 DEF Next

-----------------------------------------------------------------------------
(* The invariant holds at the start: there are no rows and no clones.      *)
LEMMA InitHolds == Init => IInv
<1> SUFFICES ASSUME Init PROVE IInv
  OBVIOUS
<1> USE DEF Init, NoOp, None, Repositories
<1>1. /\ state \in [Repositories -> {None, "acquiring", "syncing", "ready", "error"}]
      /\ head \in [Repositories -> Commits \cup {None}]
      /\ due \in [Repositories -> BOOLEAN]
      /\ remote \in [Repositories -> Commits]
      /\ checkout \in [Repositories -> Commits \cup {None}]
  OBVIOUS
<1>2. /\ listing \subseteq Repositories /\ unclean \subseteq Repositories
      /\ faulty \subseteq Repositories /\ moves \in 0..MaxMoves /\ crashes \in 0..MaxCrashes
  OBVIOUS
<1>3. /\ op \in [kind : {None, "acquire", "sync", "remove"}, repo : Repositories \cup {None},
                at : Steps \cup {None}, got : Commits \cup {None}, before : Commits \cup {None}]
      /\ op.repo = None /\ op.kind = None
      /\ op.at \in StepsOf(op.kind, op.repo)
  BY DEF StepsOf
<1>4. TypeOK  BY <1>1, <1>2, <1>3 DEF TypeOK
<1>5. NoOrphanCheckout /\ RowsOfOp /\ RecordsCheckout /\ ReadyNamesPlace /\ InTrash
      /\ Causes
  BY DEF NoOrphanCheckout, RowsOfOp, RecordsCheckout, ReadyNamesPlace, InTrash, Causes
<1> QED  BY <1>4, <1>5 DEF IInv

(* The invariant holds in every behaviour.                                 *)
LEMMA Invariant == Spec => []IInv
<1>1. IInv /\ [Next]_vars => IInv'
  <2> SUFFICES ASSUME IInv, [Next]_vars PROVE IInv'
    OBVIOUS
  <2>1. TypeOK  BY DEF IInv
  <2> QED  BY <2>1, TypesStep, OrphanStep, RowsStep, RecordStep, TrashStep,
            PlaceStep, CausesStep DEF IInv
<1> QED  BY <1>1, InitHolds, PTL DEF Spec

(* Types, and the steps each kind of operation may take: git never runs    *)
(* for the repository of a user.                                           *)
THEOREM TypesHold == Spec => []TypeOK
<1>1. IInv => TypeOK  BY DEF IInv
<1> QED  BY <1>1, Invariant, PTL

(* Whatever fails or crashes, every checkout in the storage of RepoKarta   *)
(* has a row that a synchronisation or a removal can find.                 *)
THEOREM NoOrphans == Spec => []NoOrphanCheckout
<1>1. IInv => NoOrphanCheckout  BY DEF IInv
<1> QED  BY <1>1, Invariant, PTL

(* A repository on a known host is in error only after something failed.   *)
THEOREM ErrorsHaveCauses == Spec => []ErrorHasCause
<1>1. IInv => ErrorHasCause  BY DEF IInv, Causes, ErrorHasCause
<1> QED  BY <1>1, Invariant, PTL

(* A ready row nobody works on names the commit of its checkout, unless a  *)
(* removal was cut short.                                                  *)
THEOREM ReadyRowsAreTrue == Spec => []ReadyMatchesCheckout
<1>1. IInv => ReadyMatchesCheckout
  BY DEF IInv, ReadyNamesPlace, Place, ReadyMatchesCheckout
<1> QED  BY <1>1, Invariant, PTL

(* A step that takes an owned repository that git can read out of the      *)
(* catalogue is one of a removal.                                          *)
LEMMA RemovalStep ==
  ASSUME IInv, [Next]_vars, NEW r \in Owned, Catalogued(r), ~Catalogued(r)', r \notin unread'
  PROVE  op'.kind = "remove" /\ op'.repo = r
<1>0. TypeOK /\ IInv  BY DEF IInv
<1> USE <1>0, OpFacts DEF IInv, TypeOK, RecordsCheckout, InTrash, Catalogued, Inspected, Managed, NoOp,
    Idle, rows, outside, Repositories, None
<1>1. CASE RemoteMoves  BY <1>1 DEF RemoteMoves, Moves
<1>2. CASE UserMoves  BY <1>2 DEF UserMoves, Moves
<1>3. CASE Crash  BY <1>3 DEF Crash
<1>4. CASE Tick  BY <1>4 DEF Tick
<1>5. CASE Look  BY <1>5 DEF Look
<1>6. CASE Inspect  BY <1>6 DEF Inspect
<1>7. CASE Clone  BY <1>7 DEF Clone
<1>8. CASE Activate  BY <1>8 DEF Activate
<1>9. CASE Identify  BY <1>9 DEF Identify
<1>10. CASE Fetch  BY <1>10 DEF Fetch
<1>11. CASE Checkout  BY <1>11 DEF Checkout
<1>12. CASE StepFails  BY <1>12 DEF StepFails
<1>13. CASE Record  BY <1>13 DEF Record
<1>14. CASE RecordFails  BY <1>14 DEF RecordFails
<1>15. CASE Refresh  BY <1>15 DEF Refresh
<1>16. CASE Fail  BY <1>16 DEF Fail
<1>17. CASE Delete  BY <1>17 DEF Delete
<1>18. CASE DeleteFails  BY <1>18 DEF DeleteFails
<1>19. ASSUME NEW q \in Repositories, Acquire(q) PROVE op'.kind = "remove" /\ op'.repo = r
  BY <1>19 DEF Acquire
<1>20. ASSUME NEW q \in Repositories, Sync(q) PROVE op'.kind = "remove" /\ op'.repo = r
  BY <1>20 DEF Sync, StartSync
<1>21. ASSUME NEW q \in Repositories, Remove(q) PROVE op'.kind = "remove" /\ op'.repo = r
  BY <1>21 DEF Remove
<1>22. ASSUME NEW q \in Repositories, SyncListed(q) PROVE op'.kind = "remove" /\ op'.repo = r
  BY <1>22 DEF SyncListed, StartSync
<1>23. ASSUME NEW q \in Repositories, BackoffEnds(q) PROVE op'.kind = "remove" /\ op'.repo = r
  BY <1>23 DEF BackoffEnds
<1>24. CASE UNCHANGED vars  BY <1>24 DEF vars
<1>25. CASE \E q \in Owned : GitBreaks(q) \/ GitMends(q)
  BY <1>25 DEF GitBreaks, GitMends, Moves
<1> QED
  BY <1>1, <1>2, <1>3, <1>4, <1>5, <1>6, <1>7, <1>8, <1>9, <1>10, <1>11, <1>12, <1>13,
      <1>14, <1>15, <1>16, <1>17, <1>18, <1>19, <1>20, <1>21, <1>22, <1>23, <1>24, <1>25 DEF Next

(* Only a removal takes an owned repository out of the catalogue, or git   *)
(* that can no longer read it (CatalogueRepositories).                     *)
THEOREM RemovalAlone == Spec => OnlyRemovalUncatalogues
<1>1. IInv /\ [Next]_vars =>
        [\A r \in Owned : Catalogued(r) /\ ~Catalogued(r)' =>
             (op'.kind = "remove" /\ op'.repo = r) \/ r \in unread']_vars
  BY RemovalStep
<1>2. Spec => [][Next]_vars  BY PTL DEF Spec
<1> QED  BY <1>1, <1>2, Invariant, PTL DEF OnlyRemovalUncatalogues
=============================================================================
