------------------------ MODULE ConversationsProofs ------------------------
(***************************************************************************)
(* Proofs about the live chats, for any number of conversations, requests, *)
(* deletions and sessions.                                                 *)
(***************************************************************************)
EXTENDS Conversations, TLAPS

(* What the steps of turns and deleters say of their records.              *)
Aims ==
  /\ \A t \in Turns : at[t] # "idle" => chat[t] \in drawn
  /\ \A t \in Turns : at[t] \in {"discard", "author", "claim"} \cup Claimed
                        => object[t] \in Numbers
  /\ \A t \in Turns : at[t] \in {"start", "create", "insert", "store", "register",
                                 "discard", "restart"}
                        => own[t] \in Numbers
  /\ \A d \in Deleters : doing[d] # "idle" => target[d] \in Chats

(* One request holds the start lock of a conversation.                     *)
Exclusive ==
  \A t, u \in Turns :
    at[t] \in Locked /\ at[u] \in Locked /\ chat[t] = chat[u] => t = u

Typed == TypeOK /\ Aims /\ Exclusive

Steps == Locked \cup Claimed \cup {"idle", "create", "store", "register", "claim"}
Places == {"idle", "check", "putback", "close", "revoke", "row"}

(* TypeOK by groups of variables.                                          *)
TableOK ==
  /\ rows \subseteq drawn /\ drawn \subseteq Chats
  /\ table \in [Chats -> 0..MaxStarts]
  /\ session \in [Numbers -> 0..MaxStarts]
  /\ open \subseteq Numbers /\ restored \subseteq Numbers
  /\ grant \in [Chats -> 0..MaxStarts]
  /\ active \subseteq Numbers
  /\ starts \in 0..MaxStarts
TurnsOK ==
  /\ at \in [Turns -> Steps]
  /\ chat \in [Turns -> Chats \cup {NoChat}]
  /\ object \in [Turns -> 0..MaxStarts]
  /\ own \in [Turns -> 0..MaxStarts]
  /\ interrupted \subseteq Turns
OthersOK ==
  /\ doing \in [Deleters -> Places]
  /\ target \in [Deleters -> Chats \cup {NoChat}]
  /\ held \in [Deleters -> 0..MaxStarts]
  /\ expired \subseteq Chats \X Numbers
  /\ revoking \subseteq Chats
  /\ closed \in BOOLEAN
Holders == [c \in Chats |-> {t \in Turns : chat[t] = c /\ at[t] \in Locked}]

(* TypeOK is the conjunction of its groups and the lock table.             *)
LEMMA TypeParts == TypeOK <=> TableOK /\ TurnsOK /\ OthersOK /\ starting = Holders
  BY DEF TypeOK, TableOK, TurnsOK, OthersOK, Holders, Steps, Places

(* Object and session numbers are natural numbers; 0 is not one of them.   *)
LEMMA NumbersNat == /\ MaxStarts \in Nat /\ 0 \in 0..MaxStarts
                    /\ Numbers \subseteq 0..MaxStarts
                    /\ \A n \in 0..MaxStarts : n # 0 => n \in Numbers
  BY StartsAssumption DEF Numbers

(* The inductive invariant behind TypeOK holds at first.                   *)
LEMMA TypedInit == Init => Typed
<1> SUFFICES ASSUME Init PROVE Typed
  OBVIOUS
<1>1. TableOK /\ OthersOK
  BY NumbersNat, StoredAssumption DEF Init, TableOK, OthersOK, Places
<1>2. TurnsOK
  BY NumbersNat DEF Init, TurnsOK, Steps
<1>3. starting = Holders
  BY DEF Init, Holders, Locked
<1>4. Aims /\ Exclusive
  BY DEF Init, Aims, Exclusive, Locked, Claimed, Running
<1>5. QED
  BY <1>1, <1>2, <1>3, <1>4, TypeParts DEF Typed

-----------------------------------------------------------------------------
(* A step of turn t leaves the other turns alone.                          *)
Only(t) ==
  /\ at' \in [Turns -> Steps]
  /\ chat' \in [Turns -> Chats \cup {NoChat}]
  /\ object' \in [Turns -> 0..MaxStarts]
  /\ own' \in [Turns -> 0..MaxStarts]
  /\ \A u \in Turns : u # t =>
       /\ at'[u] = at[u] /\ chat'[u] = chat[u]
       /\ object'[u] = object[u] /\ own'[u] = own[u]

(* Every step of a turn is a step of that turn only.                       *)
LEMMA OnlyTurn ==
  ASSUME Typed, NEW t \in Turns,
         \/ TurnStep(t) \/ Interrupt(t)
         \/ \E c \in Chats : Enter(t, c) \/ Create(t, c)
  PROVE  Only(t)
<1> USE NumbersNat, TypeParts DEF Typed, Aims, TurnsOK, TableOK, Only, Steps,
  Locked, Claimed, Running, Goto, Know, Learn, Return, Issue, turns, Numbers
<1>1. ASSUME NEW c \in Chats, Enter(t, c) PROVE Only(t)
  BY <1>1 DEF Enter
<1>2. ASSUME NEW c \in Chats, Create(t, c) PROVE Only(t)
  BY <1>2 DEF Create
<1>3. CASE Lookup(t)
  <2>1. chat[t] \in Chats /\ table[chat[t]] \in 0..MaxStarts
    BY <1>3 DEF Lookup
  <2>2. CASE Learn(t, table[chat[t]], 0) /\ Goto(t, "author")
    BY <2>1, <2>2
  <2>3. CASE Goto(t, "issue") /\ UNCHANGED <<chat, object, own>>
    BY <2>3
  <2>4. CASE Return(t)
    BY <2>4
  <2> HIDE DEF Goto, Learn, Know, Return, Only
  <2>5. QED
    BY <1>3, <2>2, <2>3, <2>4 DEF Lookup
<1>4. CASE IssueToResume(t)
  BY <1>4 DEF IssueToResume
<1>5. CASE Refuse(t)
  BY <1>5 DEF Refuse
<1>6. CASE Start(t)
  BY <1>6 DEF Start
<1>7. CASE StartFails(t)
  BY <1>7 DEF StartFails
<1>8. CASE Insert(t)
  <2>1. chat[t] \in Chats /\ own[t] \in 0..MaxStarts /\ table[chat[t]] \in 0..MaxStarts
    BY <1>8 DEF Insert
  <2>2. CASE Learn(t, own[t], 0) /\ Goto(t, "author")
    BY <2>1, <2>2
  <2>3. CASE Learn(t, table[chat[t]], own[t]) /\ Goto(t, "discard")
    BY <2>1, <2>3
  <2> HIDE DEF Goto, Learn, Know, Return, Only
  <2>4. QED
    BY <1>8, <2>2, <2>3 DEF Insert
<1>9. CASE Discard(t)
  BY <1>9 DEF Discard
<1>10. CASE Author(t)
  <2>1. CASE Goto(t, "claim") /\ UNCHANGED <<chat, object, own>>
    BY <2>1
  <2>2. CASE Return(t)
    BY <2>2
  <2> HIDE DEF Goto, Learn, Know, Return, Only
  <2>3. QED
    BY <1>10, <2>1, <2>2 DEF Author
<1>11. CASE StoreRow(t)
  <2>1. CASE Goto(t, "register") /\ UNCHANGED <<chat, object, own>>
    BY <2>1
  <2>2. CASE Return(t)
    BY <2>2
  <2> HIDE DEF Goto, Learn, Know, Return, Only
  <2>3. QED
    BY <1>11, <2>1, <2>2 DEF StoreRow
<1>12. CASE Register(t)
  BY <1>12 DEF Register
<1>13. CASE Claim(t)
  <2>1. CASE Goto(t, "verify") /\ UNCHANGED <<chat, object, own>>
    BY <2>1
  <2>2. CASE Return(t)
    BY <2>2
  <2> HIDE DEF Goto, Learn, Know, Return, Only
  <2>3. QED
    BY <1>13, <2>1, <2>2 DEF Claim
<1>14. CASE Verify(t)
  BY <1>14 DEF Verify
<1>15. CASE EndTurn(t)
  BY <1>15 DEF EndTurn
<1>16. CASE FailTurn(t)
  BY <1>16 DEF FailTurn
<1>17. CASE IssueToReplace(t)
  BY <1>17 DEF IssueToReplace
<1>18. CASE Replace(t)
  BY <1>18 DEF Replace
<1>19. CASE ReplaceFails(t)
  BY <1>19 DEF ReplaceFails
<1>20. CASE CloseStale(t)
  BY <1>20 DEF CloseStale
<1>21. CASE Drop(t)
  BY <1>21 DEF Drop
<1>22. CASE DropClose(t)
  BY <1>22 DEF DropClose
<1>23. CASE DropRevoke(t)
  BY <1>23 DEF DropRevoke
<1>24. CASE Release(t)
  BY <1>24 DEF Release
<1>25. CASE Interrupt(t)
  BY <1>25 DEF Interrupt
<1>90. QED
  BY <1>1, <1>2, <1>3, <1>4, <1>5, <1>6, <1>7, <1>8, <1>9, <1>10, <1>11, <1>12,
    <1>13, <1>14, <1>15, <1>16, <1>17, <1>18, <1>19, <1>20, <1>21, <1>22,
      <1>23, <1>24, <1>25 DEF TurnStep

(* A step of a turn keeps the types of what the turns share.               *)
LEMMA TurnData ==
  ASSUME NEW t \in Turns, Typed,
         \/ TurnStep(t) \/ Interrupt(t)
         \/ \E c \in Chats : Enter(t, c) \/ Create(t, c)
  PROVE  TableOK' /\ OthersOK'
<1> USE NumbersNat, TypeParts, StoredAssumption DEF Typed, Aims, TableOK,
  OthersOK, TurnsOK, store, sessions, deleters, reaper, turns, Issue, Revoke,
  Others, Closed, Verified, Claimed, Running
<1>1. ASSUME NEW c \in Chats, Enter(t, c) PROVE TableOK' /\ OthersOK'
  BY <1>1 DEF Enter
<1>2. ASSUME NEW c \in Chats, Create(t, c) PROVE TableOK' /\ OthersOK'
  BY <1>2 DEF Create
<1>3. CASE Lookup(t)
  BY <1>3 DEF Lookup
<1>4. CASE IssueToResume(t)
  BY <1>4 DEF IssueToResume
<1>5. CASE Refuse(t)
  BY <1>5 DEF Refuse
<1>6. CASE Start(t)
  BY <1>6 DEF Start
<1>7. CASE StartFails(t)
  BY <1>7 DEF StartFails
<1>8. CASE Insert(t)
  BY <1>8 DEF Insert
<1>9. CASE Discard(t)
  BY <1>9 DEF Discard
<1>10. CASE Author(t)
  BY <1>10 DEF Author
<1>11. CASE StoreRow(t)
  BY <1>11 DEF StoreRow
<1>12. CASE Register(t)
  BY <1>12 DEF Register
<1>13. CASE Claim(t)
  BY <1>13 DEF Claim
<1>14. CASE Verify(t)
  BY <1>14 DEF Verify
<1>15. CASE EndTurn(t)
  BY <1>15 DEF EndTurn
<1>16. CASE FailTurn(t)
  BY <1>16 DEF FailTurn
<1>17. CASE IssueToReplace(t)
  BY <1>17 DEF IssueToReplace
<1>18. CASE Replace(t)
  BY <1>18 DEF Replace
<1>19. CASE ReplaceFails(t)
  BY <1>19 DEF ReplaceFails
<1>20. CASE CloseStale(t)
  BY <1>20 DEF CloseStale
<1>21. CASE Drop(t)
  BY <1>21 DEF Drop
<1>22. CASE DropClose(t)
  BY <1>22 DEF DropClose
<1>23. CASE DropRevoke(t)
  BY <1>23 DEF DropRevoke
<1>24. CASE Release(t)
  BY <1>24 DEF Release
<1>25. CASE Interrupt(t)
  BY <1>25 DEF Interrupt
<1>26. QED
  BY <1>1, <1>2, <1>3, <1>4, <1>5, <1>6, <1>7, <1>8, <1>9, <1>10, <1>11, <1>12,
    <1>13, <1>14, <1>15, <1>16, <1>17, <1>18, <1>19, <1>20, <1>21, <1>22,
      <1>23, <1>24, <1>25 DEF TurnStep

(* A step of a turn keeps what the records of the turns say.               *)
LEMMA TurnAims ==
  ASSUME NEW t \in Turns, Typed, Only(t),
         \/ TurnStep(t) \/ Interrupt(t)
         \/ \E c \in Chats : Enter(t, c) \/ Create(t, c)
  PROVE  Aims'
<1> USE NumbersNat, TypeParts DEF Typed, Aims, Only, TableOK, TurnsOK, OthersOK,
  store, sessions, deleters, turns, Goto, Know, Learn, Return, Issue, Others,
  Locked, Claimed, Running, Steps
<1>1. ASSUME NEW c \in Chats, Enter(t, c) PROVE Aims'
  BY <1>1 DEF Enter
<1>2. ASSUME NEW c \in Chats, Create(t, c) PROVE Aims'
  BY <1>2 DEF Create
<1>3. CASE Lookup(t)
  BY <1>3 DEF Lookup
<1>4. CASE IssueToResume(t)
  BY <1>4 DEF IssueToResume
<1>5. CASE Refuse(t)
  BY <1>5 DEF Refuse
<1>6. CASE Start(t)
  BY <1>6 DEF Start
<1>7. CASE StartFails(t)
  BY <1>7 DEF StartFails
<1>8. CASE Insert(t)
  BY <1>8 DEF Insert
<1>9. CASE Discard(t)
  BY <1>9 DEF Discard
<1>10. CASE Author(t)
  BY <1>10 DEF Author
<1>11. CASE StoreRow(t)
  BY <1>11 DEF StoreRow
<1>12. CASE Register(t)
  BY <1>12 DEF Register
<1>13. CASE Claim(t)
  BY <1>13 DEF Claim
<1>14. CASE Verify(t)
  BY <1>14 DEF Verify
<1>15. CASE EndTurn(t)
  BY <1>15 DEF EndTurn
<1>16. CASE FailTurn(t)
  BY <1>16 DEF FailTurn
<1>17. CASE IssueToReplace(t)
  BY <1>17 DEF IssueToReplace
<1>18. CASE Replace(t)
  BY <1>18 DEF Replace
<1>19. CASE ReplaceFails(t)
  BY <1>19 DEF ReplaceFails
<1>20. CASE CloseStale(t)
  BY <1>20 DEF CloseStale
<1>21. CASE Drop(t)
  BY <1>21 DEF Drop
<1>22. CASE DropClose(t)
  BY <1>22 DEF DropClose
<1>23. CASE DropRevoke(t)
  BY <1>23 DEF DropRevoke
<1>24. CASE Release(t)
  BY <1>24 DEF Release
<1>25. CASE Interrupt(t)
  BY <1>25 DEF Interrupt
<1>26. QED
  BY <1>1, <1>2, <1>3, <1>4, <1>5, <1>6, <1>7, <1>8, <1>9, <1>10, <1>11, <1>12,
    <1>13, <1>14, <1>15, <1>16, <1>17, <1>18, <1>19, <1>20, <1>21, <1>22,
      <1>23, <1>24, <1>25 DEF TurnStep

-----------------------------------------------------------------------------
(* The start locks: a turn keeps what it holds, gives its lock up, or      *)
(* takes a free one.                                                       *)
Locks == starting = Holders /\ Exclusive

(* A turn that keeps what it holds.                                        *)
LEMMA LockStays ==
  ASSUME NEW t \in Turns, Locks, Only(t), starting' = starting,
         at[t] \in Locked <=> at'[t] \in Locked,
         at[t] \in Locked => chat'[t] = chat[t]
  PROVE  Locks'
<1>1. \A u \in Turns : (at'[u] \in Locked <=> at[u] \in Locked)
                       /\ (at[u] \in Locked => chat'[u] = chat[u])
  BY DEF Only
<1>2. Holders' = Holders
  BY <1>1 DEF Holders
<1>3. Exclusive'
  BY <1>1 DEF Locks, Exclusive
<1>4. QED
  BY <1>2, <1>3 DEF Locks

(* A turn that gives its start lock up.                                    *)
LEMMA LockLeaves ==
  ASSUME NEW t \in Turns, Locks, Only(t), starting' = Unlocked(chat[t]),
         at[t] \in Locked, at'[t] \notin Locked
  PROVE  Locks'
<1>1. \A u \in Turns : u # t => (at'[u] \in Locked <=> at[u] \in Locked)
                                /\ chat'[u] = chat[u]
  BY DEF Only
<1>2. starting' = Holders'
  <2>1. \A c \in Chats : c # chat[t] => Holders'[c] = Holders[c]
    BY <1>1 DEF Holders
  <2>2. chat[t] \in Chats => Holders'[chat[t]] = {}
    BY <1>1 DEF Holders, Locks, Exclusive
  <2>3. Holders' = [Holders EXCEPT ![chat[t]] = {}]
    BY <2>1, <2>2 DEF Holders
  <2>4. QED
    BY <2>3 DEF Locks, Unlocked
<1>3. Exclusive'
  BY <1>1 DEF Locks, Exclusive
<1>4. QED
  BY <1>2, <1>3 DEF Locks

(* A turn that takes a free start lock.                                    *)
LEMMA LockEnters ==
  ASSUME NEW t \in Turns, NEW c \in Chats, Locks, Only(t), starting[c] = {},
         starting' = [starting EXCEPT ![c] = {t}],
         at[t] \notin Locked, at'[t] \in Locked, chat'[t] = c
  PROVE  Locks'
<1>1. \A u \in Turns : u # t => (at'[u] \in Locked <=> at[u] \in Locked)
                                /\ chat'[u] = chat[u]
  BY DEF Only
<1>2. \A u \in Turns : at[u] \in Locked => chat[u] # c
  BY DEF Locks, Holders
<1>3. starting' = Holders'
  <2>1. \A d \in Chats : d # c => Holders'[d] = Holders[d]
    BY <1>1 DEF Holders
  <2>2. Holders'[c] = {t}
    BY <1>1, <1>2 DEF Holders
  <2>3. Holders' = [Holders EXCEPT ![c] = {t}]
    BY <2>1, <2>2 DEF Holders
  <2>4. QED
    BY <2>3 DEF Locks
<1>4. Exclusive'
  BY <1>1, <1>2 DEF Locks, Exclusive
<1>5. QED
  BY <1>3, <1>4 DEF Locks

(* A step of a turn keeps the start locks.                                 *)
LEMMA TurnLocks ==
  ASSUME NEW t \in Turns, Typed, Only(t),
         \/ TurnStep(t) \/ Interrupt(t)
         \/ \E c \in Chats : Enter(t, c) \/ Create(t, c)
  PROVE  Locks'
<1>0. Locks
  BY TypeParts DEF Typed, Locks
<1> USE <1>0, TypeParts DEF Typed, TurnsOK, Steps, Goto, Know, Learn, Return,
  Locked, Claimed, Running, turns
<1>1. ASSUME NEW c \in Chats, Enter(t, c) PROVE Locks'
  BY <1>1, LockEnters DEF Enter
<1>2. ASSUME NEW c \in Chats, Create(t, c) PROVE Locks'
  BY <1>2, LockStays DEF Create
<1>3. CASE Lookup(t)
  <2>1. CASE starting' = starting /\ at'[t] \in Locked /\ chat'[t] = chat[t]
    BY <1>3, <2>1, LockStays DEF Lookup
  <2>2. CASE starting' = Unlocked(chat[t]) /\ at'[t] = "idle"
    BY <1>3, <2>2, LockLeaves DEF Lookup
  <2>3. QED
    BY <1>3, <2>1, <2>2 DEF Lookup
<1>4. CASE IssueToResume(t)
  BY <1>4, LockStays DEF IssueToResume
<1>5. CASE Refuse(t)
  BY <1>5, LockLeaves DEF Refuse
<1>6. CASE Start(t)
  BY <1>6, LockStays DEF Start
<1>7. CASE StartFails(t)
  <2>1. CASE at[t] = "start"
    BY <1>7, <2>1, LockLeaves DEF StartFails
  <2>2. CASE at[t] # "start"
    BY <1>7, <2>2, LockStays DEF StartFails
  <2>3. QED
    BY <2>1, <2>2
<1>8. CASE Insert(t)
  BY <1>8, LockStays DEF Insert
<1>9. CASE Discard(t)
  BY <1>9, LockStays DEF Discard
<1>10. CASE Author(t)
  BY <1>10, LockLeaves DEF Author
<1>11. CASE StoreRow(t)
  BY <1>11, LockStays DEF StoreRow
<1>12. CASE Register(t)
  BY <1>12, LockStays DEF Register
<1>13. CASE Claim(t)
  BY <1>13, LockStays DEF Claim
<1>14. CASE Verify(t)
  BY <1>14, LockStays DEF Verify
<1>15. CASE EndTurn(t)
  BY <1>15, LockStays DEF EndTurn
<1>16. CASE FailTurn(t)
  BY <1>16, LockStays DEF FailTurn
<1>17. CASE IssueToReplace(t)
  BY <1>17, LockStays DEF IssueToReplace
<1>18. CASE Replace(t)
  BY <1>18, LockStays DEF Replace
<1>19. CASE ReplaceFails(t)
  BY <1>19, LockStays DEF ReplaceFails
<1>20. CASE CloseStale(t)
  BY <1>20, LockStays DEF CloseStale
<1>21. CASE Drop(t)
  BY <1>21, LockStays DEF Drop
<1>22. CASE DropClose(t)
  BY <1>22, LockStays DEF DropClose
<1>23. CASE DropRevoke(t)
  BY <1>23, LockStays DEF DropRevoke
<1>24. CASE Release(t)
  BY <1>24, LockStays DEF Release
<1>25. CASE Interrupt(t)
  BY <1>25, LockStays DEF Interrupt
<1>26. QED
  BY <1>1, <1>2, <1>3, <1>4, <1>5, <1>6, <1>7, <1>8, <1>9, <1>10, <1>11, <1>12,
    <1>13, <1>14, <1>15, <1>16, <1>17, <1>18, <1>19, <1>20, <1>21, <1>22,
      <1>23, <1>24, <1>25 DEF TurnStep

-----------------------------------------------------------------------------
(* The groups together, after a step.                                      *)
LEMMA TypedAfter == TableOK' /\ TurnsOK' /\ OthersOK' /\ Locks' /\ Aims' => Typed'
  BY DEF TypeOK, TableOK, TurnsOK, OthersOK, Holders, Steps, Places, Locks, Typed

(* Deletions, the reaper and Close leave the turns and their locks alone.  *)
LEMMA TurnsUntouched ==
  ASSUME Typed, UNCHANGED <<turns, starting>>, drawn \subseteq drawn'
  PROVE  /\ TurnsOK' /\ Locks'
         /\ \A t \in Turns : at'[t] # "idle" => chat'[t] \in drawn'
         /\ (\A d \in Deleters : doing'[d] # "idle" => target'[d] \in Chats) => Aims'
<1> USE TypeParts DEF turns, Typed
<1>1. TurnsOK'
  BY DEF TurnsOK
<1>2. Locks'
  BY DEF Locks, Holders, Exclusive
<1>3. QED
  BY <1>1, <1>2 DEF Aims

(* A step of DeleteConversation keeps the invariant.                       *)
LEMMA DeleteTyped ==
  ASSUME Typed, NEW d \in Deleters,
         DeleteStep(d) \/ \E c \in Chats : DeleteRemove(d, c)
  PROVE  Typed'
<1>1. UNCHANGED <<turns, starting>> /\ drawn' = drawn
  BY DEF DeleteStep, DeleteRemove, DeleteCheck, DeletePutBack, DeleteClose,
    DeleteRevoke, DeleteRow, DeleteFrame, store
<1>2. TableOK' /\ OthersOK' /\ \A e \in Deleters : doing'[e] # "idle" => target'[e] \in Chats
  <2> USE NumbersNat, TypeParts DEF Typed, Aims, TableOK, OthersOK, Places, store,
    sessions, reaper, turns, DeleteFrame, DeleteGoto, DeleteReturn, Revoke, Closed
  <2>1. ASSUME NEW c \in Chats, DeleteRemove(d, c)
        PROVE  TableOK' /\ OthersOK' /\ \A e \in Deleters : doing'[e] # "idle" => target'[e] \in Chats
    BY <2>1 DEF DeleteRemove
  <2>2. CASE DeleteCheck(d)
    BY <2>2 DEF DeleteCheck
  <2>3. CASE DeletePutBack(d)
    BY <2>3 DEF DeletePutBack
  <2>4. CASE DeleteClose(d)
    BY <2>4 DEF DeleteClose
  <2>5. CASE DeleteRevoke(d)
    BY <2>5 DEF DeleteRevoke
  <2>6. CASE DeleteRow(d)
    BY <2>6 DEF DeleteRow
  <2>7. QED
    BY <2>1, <2>2, <2>3, <2>4, <2>5, <2>6 DEF DeleteStep
<1>3. QED
  BY <1>1, <1>2, TurnsUntouched, TypedAfter

ReapStep == (\E C \in SUBSET Chats : Reap(C)) \/ ReapClose \/ ReapRevoke \/ Close

(* A step of reapIdle or Close keeps the invariant.                        *)
LEMMA ReapTyped ==
  ASSUME Typed, ReapStep
  PROVE  Typed'
<1>1. UNCHANGED <<turns, starting, drawn, deleters>>
  BY DEF ReapStep, Reap, ReapClose, ReapRevoke, Close, ReapFrame, store
<1>2. TableOK' /\ OthersOK'
  <2> USE NumbersNat, TypeParts DEF Typed, TableOK, OthersOK, store, deleters,
    ReapFrame, TakeOut, Revoke, Closed
  <2>1. ASSUME NEW C \in SUBSET Chats, Reap(C) PROVE TableOK' /\ OthersOK'
    BY <2>1 DEF Reap, MayReap
  <2>2. CASE ReapClose
    BY <2>2 DEF ReapClose
  <2>3. CASE ReapRevoke
    BY <2>3 DEF ReapRevoke
  <2>4. CASE Close
    BY <2>4 DEF Close
  <2>5. QED
    BY <2>1, <2>2, <2>3, <2>4 DEF ReapStep
<1>3. Aims'
  BY <1>1, TurnsUntouched DEF deleters, Typed, Aims
<1>4. QED
  BY <1>1, <1>2, <1>3, TurnsUntouched, TypedAfter

(* A step of Send keeps the invariant.                                     *)
LEMMA TurnTyped ==
  ASSUME Typed, NEW t \in Turns,
         \/ TurnStep(t) \/ Interrupt(t)
         \/ \E c \in Chats : Enter(t, c) \/ Create(t, c)
  PROVE  Typed' /\ Only(t)
<1>1. Only(t)
  BY OnlyTurn
<1>2. interrupted' \subseteq Turns
  <2> USE TypeParts DEF Typed, TurnsOK, Others
  <2>1. CASE Release(t) \/ Interrupt(t)
    BY <2>1 DEF Release, Interrupt
  <2>2. CASE ~Release(t) /\ ~Interrupt(t)
    BY <2>2 DEF TurnStep, Enter, Create, Lookup, IssueToResume, Refuse, Start,
      StartFails, Insert, Discard, Author, StoreRow, Register, Claim, Verify,
      EndTurn, FailTurn, IssueToReplace, Replace, ReplaceFails, CloseStale, Drop,
      DropClose, DropRevoke
  <2>3. QED
    BY <2>1, <2>2
<1>3. TurnsOK'
  BY <1>1, <1>2 DEF Only, TurnsOK
<1>4. TableOK' /\ OthersOK' /\ Aims' /\ Locks'
  BY <1>1, TurnData, TurnAims, TurnLocks
<1>5. QED
  BY <1>1, <1>3, <1>4, TypedAfter

(* Every step keeps the invariant.                                         *)
LEMMA TypedNext == Typed /\ [Next]_vars => Typed'
<1> SUFFICES ASSUME Typed, [Next]_vars PROVE Typed'
  OBVIOUS
<1>1. CASE UNCHANGED vars
  BY <1>1 DEF vars, Typed, TypeOK, Aims, Exclusive
<1>2. CASE Next
  BY <1>2, TurnTyped, DeleteTyped, ReapTyped DEF Next, ReapStep
<1>3. QED
  BY <1>1, <1>2

(* The records of requests, deletions and the reaper stay well formed, and *)
(* each start lock is held by exactly the request that is inside it.       *)
THEOREM TypeCorrect == Spec => []TypeOK
<1>1. Typed => TypeOK
  BY DEF Typed
<1>2. QED
  BY <1>1, TypedInit, TypedNext, PTL DEF Spec

-----------------------------------------------------------------------------
(* A claimed object is marked active, and one turn has claimed it.         *)
Claims ==
  /\ \A t \in Turns : at[t] \in Claimed => object[t] \in active
  /\ \A t, u \in Turns :
       at[t] \in Claimed /\ at[u] \in Claimed /\ object[t] = object[u] => t = u

(* An object that somebody can reach has a session.                        *)
Reached ==
  /\ \A c \in Chats : table[c] # 0 => session[table[c]] # 0
  /\ \A t \in Turns : object[t] # 0 => session[object[t]] # 0
  /\ \A t \in Turns : at[t] \in {"insert", "store", "register"} => session[own[t]] # 0
  /\ \A d \in Deleters : held[d] # 0 => session[held[d]] # 0

(* A session is numbered by its start, and belongs to one object.          *)
Unstarted == {"start", "create", "restart"}
Numbered ==
  /\ \A o, p \in Numbers : session[o] # 0 /\ session[o] = session[p] => o = p
  /\ \A o \in Numbers : session[o] <= starts
  /\ \A t \in Turns : own[t] <= starts
  /\ \A t \in Turns : at[t] \in Unstarted => \A o \in Numbers : session[o] # own[t]
  /\ \A t, u \in Turns :
       at[t] \in Unstarted /\ at[u] \in Unstarted /\ own[t] = own[u] => t = u

(* Only the CompareAndSwap enters, only the deferred Store leaves.         *)
LEMMA ClaimsTurn ==
  ASSUME Typed, Claims, NEW t \in Turns, Only(t),
         \/ TurnStep(t) \/ Interrupt(t)
         \/ \E c \in Chats : Enter(t, c) \/ Create(t, c)
  PROVE  Claims'
<1> USE TypeParts DEF Typed, TurnsOK, Aims, Steps, Locked, Claimed, Running
<1>1. CASE Claim(t)
  <2>1. CASE MayClaim(object[t]) /\ active' = active \cup {object[t]} /\ object' = object
    BY <2>1 DEF Claims, MayClaim, Only
  <2>2. CASE at'[t] = "idle" /\ active' = active
    BY <2>2 DEF Claims, Only
  <2>3. QED
    BY <1>1, <2>1, <2>2 DEF Claim, Goto, Return
<1>2. CASE Release(t)
  <2>1. at'[t] = "idle" /\ active' = active \ {object[t]} /\ at[t] = "release"
    BY <1>2 DEF Release, Return, Goto
  <2>2. QED
    BY <2>1 DEF Claims, Only
<1>3. CASE ~Claim(t) /\ ~Release(t)
  <2>1. active' = active
    BY <1>3 DEF TurnStep, Enter, Create, Lookup, IssueToResume, Refuse, Start,
      StartFails, Insert, Discard, Author, StoreRow, Register, Verify, EndTurn,
      FailTurn, Interrupt, IssueToReplace, Replace, ReplaceFails, CloseStale,
      Drop, DropClose, DropRevoke
  <2>2. at'[t] \in Claimed => at[t] \in Claimed /\ object'[t] = object[t]
    BY <1>3 DEF TurnStep, Enter, Create, Lookup, IssueToResume, Refuse, Start,
      StartFails, Insert, Discard, Author, StoreRow, Register, Verify, EndTurn,
      FailTurn, Interrupt, IssueToReplace, Replace, ReplaceFails, CloseStale,
      Drop, DropClose, DropRevoke, Goto, Know, Learn, Return
  <2>3. QED
    BY <2>1, <2>2 DEF Claims, Only
<1>4. QED
  BY <1>1, <1>2, <1>3

(* Sessions are started before their objects are handed on.                *)
LEMMA ReachedTurn ==
  ASSUME Typed, Reached, NEW t \in Turns, Only(t),
         \/ TurnStep(t) \/ Interrupt(t)
         \/ \E c \in Chats : Enter(t, c) \/ Create(t, c)
  PROVE  Reached'
<1> USE NumbersNat, TypeParts DEF Typed, TableOK, TurnsOK, Aims, Locked, Claimed,
  Running
<1>1. CASE Start(t)
  <2>1. /\ own[t] \in Numbers /\ own'[t] = own[t]
        /\ session' = [session EXCEPT ![own[t]] = own[t]]
        /\ table' = table /\ object' = object /\ held' = held
    BY <1>1 DEF Start, store, Others, deleters
  <2>2. own[t] # 0
    BY <2>1 DEF Numbers
  <2>3. \A o \in Numbers : session[o] # 0 => session'[o] # 0
    BY <2>1, <2>2
  <2>4. QED
    BY <2>1, <2>2, <2>3 DEF Reached, Only, OthersOK
<1>2. CASE Replace(t)
  <2>1. /\ own[t] \in Numbers /\ object[t] \in Numbers
        /\ session' = [session EXCEPT ![object[t]] = own[t]]
        /\ table' = table /\ object'[t] = object[t] /\ held' = held /\ at'[t] = "stale"
    BY <1>2 DEF Replace, store, Others, deleters, Learn, Know, Goto, Steps
  <2>2. own[t] # 0
    BY <2>1 DEF Numbers
  <2>3. \A o \in Numbers : session[o] # 0 => session'[o] # 0
    BY <2>1, <2>2
  <2>4. QED
    BY <2>1, <2>2, <2>3 DEF Reached, Only, OthersOK
<1>3. CASE ~Start(t) /\ ~Replace(t)
  <2>1. session' = session /\ held' = held
    BY <1>3 DEF TurnStep, Enter, Create, Lookup, IssueToResume, Refuse,
      StartFails, Insert, Discard, Author, StoreRow, Register, Claim, Verify,
      EndTurn, FailTurn, Interrupt, IssueToReplace, ReplaceFails, CloseStale,
      Drop, DropClose, DropRevoke, Release, sessions, Others, deleters
  <2>2. \A c \in Chats : table'[c] # 0 => session[table'[c]] # 0
    <3>1. CASE Insert(t)
      BY <3>1 DEF Insert, Reached
    <3>2. CASE Register(t)
      BY <3>2 DEF Register, Reached
    <3>3. CASE Drop(t)
      BY <3>3 DEF Drop, Reached
    <3>4. CASE ~Insert(t) /\ ~Register(t) /\ ~Drop(t)
      <4>1. table' = table
        BY <1>3, <3>4 DEF TurnStep, Enter, Create, Lookup, IssueToResume, Refuse,
          StartFails, Discard, Author, StoreRow, Claim, Verify, EndTurn, FailTurn,
          Interrupt, IssueToReplace, ReplaceFails, CloseStale, DropClose,
          DropRevoke, Release
      <4>2. QED
        BY <4>1 DEF Reached
    <3>5. QED
      BY <3>1, <3>2, <3>3, <3>4
  <2>3. object'[t] # 0 => session[object'[t]] # 0
    <3> USE DEF Goto, Know, Learn, Return, Steps
    <3>1. CASE Lookup(t)
      BY <3>1 DEF Lookup, Reached
    <3>2. CASE Insert(t)
      BY <3>2 DEF Insert, Reached
    <3>3. CASE Register(t)
      BY <3>3 DEF Register, Reached
    <3>4. CASE ~Insert(t) /\ ~Register(t) /\ ~Lookup(t)
      <4>1. object'[t] \in {0, object[t]}
        BY <1>3, <3>4 DEF TurnStep, Enter, Create, IssueToResume, Refuse,
          StartFails, Discard, Author, StoreRow, Claim, Verify, EndTurn, FailTurn,
          Interrupt, IssueToReplace, ReplaceFails, CloseStale, Drop, DropClose,
          DropRevoke, Release
      <4>2. QED
        BY <4>1 DEF Reached
    <3>5. QED
      BY <3>1, <3>2, <3>3, <3>4
  <2>4. at'[t] \in {"insert", "store", "register"} =>
          own'[t] = own[t] /\ at[t] \in {"insert", "store", "register"}
    BY <1>3 DEF TurnStep, Enter, Create, Lookup, IssueToResume, Refuse,
      StartFails, Insert, Discard, Author, StoreRow, Register, Claim, Verify,
      EndTurn, FailTurn, Interrupt, IssueToReplace, ReplaceFails, CloseStale,
      Drop, DropClose, DropRevoke, Release, Goto, Know, Learn, Return, Steps
  <2>5. QED
    BY <2>1, <2>2, <2>3, <2>4 DEF Reached, Only
<1>4. QED
  BY <1>1, <1>2, <1>3

(* A session number is new when it is issued, and used once.               *)
LEMMA NumberedTurn ==
  ASSUME Typed, Reached, Numbered, NEW t \in Turns, Only(t),
         \/ TurnStep(t) \/ Interrupt(t)
         \/ \E c \in Chats : Enter(t, c) \/ Create(t, c)
  PROVE  Numbered'
<1> USE StartsAssumption, NumbersNat, TypeParts DEF Typed, TableOK, TurnsOK, Aims,
  Locked, Claimed, Running, Unstarted
<1>1. CASE IssueToResume(t) \/ IssueToReplace(t) \/ \E c \in Chats : Create(t, c)
  <2>1. session' = session /\ starts' = starts + 1 /\ own'[t] = starts + 1
    BY <1>1 DEF IssueToResume, IssueToReplace, Create, Issue, Learn, Know
  <2>2. QED
    BY <2>1 DEF Numbered, Only
<1>2. CASE Start(t)
  <2>1. /\ session' = [session EXCEPT ![own[t]] = own[t]] /\ starts' = starts
        /\ own' = own /\ at'[t] \notin Unstarted
        /\ at[t] \in Unstarted /\ own[t] \in Numbers
    BY <1>2 DEF Start, Goto
  <2>2. QED
    BY <2>1 DEF Numbered, Only
<1>3. CASE Replace(t)
  <2>1. /\ session' = [session EXCEPT ![object[t]] = own[t]] /\ starts' = starts
        /\ own'[t] = session[object[t]] /\ at'[t] \notin Unstarted
        /\ at[t] \in Unstarted /\ own[t] \in Numbers /\ object[t] \in Numbers
    BY <1>3 DEF Replace, Goto, Learn, Know
  <2>2. \A o \in Numbers : session'[o] = IF o = object[t] THEN own[t] ELSE session[o]
    BY <2>1
  <2>3. own[t] # 0 /\ own[t] <= starts /\ session[object[t]] <= starts
    BY <2>1 DEF Numbered, Numbers
  <2>4. \A u \in Turns : at'[u] \in Unstarted =>
          u # t /\ at[u] \in Unstarted /\ own'[u] = own[u]
    BY <2>1 DEF Only
  <2>5. \A o \in Numbers : session[o] # own[t]
    BY <2>1 DEF Numbered
  <2> HIDE DEF Typed, TableOK, TurnsOK, Aims
  <2>6. \A o, p \in Numbers : session'[o] # 0 /\ session'[o] = session'[p] => o = p
    <3>1. \A o, p \in Numbers : session[o] # 0 /\ session[o] = session[p] => o = p
      BY DEF Numbered
    <3>2. QED
      BY <2>2, <2>5, <3>1
  <2>7. \A o \in Numbers : session'[o] <= starts'
    BY <2>1, <2>2, <2>3 DEF Numbered
  <2>8. \A u \in Turns : own'[u] <= starts'
    BY <2>1, <2>3 DEF Numbered, Only
  <2>9. \A u \in Turns : at'[u] \in Unstarted => \A o \in Numbers : session'[o] # own'[u]
    BY <2>1, <2>2, <2>4 DEF Numbered
  <2>10. \A u, v \in Turns :
          at'[u] \in Unstarted /\ at'[v] \in Unstarted /\ own'[u] = own'[v] => u = v
    BY <2>4 DEF Numbered
  <2> HIDE DEF Unstarted
  <2>11. QED
    BY <2>6, <2>7, <2>8, <2>9, <2>10 DEF Numbered
<1>4. CASE /\ ~Start(t) /\ ~Replace(t) /\ ~IssueToResume(t) /\ ~IssueToReplace(t)
           /\ ~\E c \in Chats : Create(t, c)
  <2>1. session' = session /\ starts' = starts
    BY <1>4 DEF TurnStep, Enter, Lookup, Refuse, StartFails, Insert, Discard,
      Author, StoreRow, Register, Claim, Verify, EndTurn, FailTurn, Interrupt,
      ReplaceFails, CloseStale, Drop, DropClose, DropRevoke, Release, sessions
  <2>2. own'[t] \in {0, own[t]} /\ at'[t] \notin Unstarted
    BY <1>4 DEF TurnStep, Enter, Lookup, Refuse, StartFails, Insert, Discard,
      Author, StoreRow, Register, Claim, Verify, EndTurn, FailTurn, Interrupt,
      ReplaceFails, CloseStale, Drop, DropClose, DropRevoke, Release, Goto, Know,
      Learn, Return, Steps
  <2>3. QED
    BY <2>1, <2>2 DEF Numbered, Only
<1>5. QED
  BY <1>1, <1>2, <1>3, <1>4

Linked == Claims /\ Reached /\ Numbered

(* The links between turns, objects and sessions hold at first.            *)
LEMMA LinkedInit == Init => Linked
  BY NumbersNat DEF Init, Linked, Claims, Reached, Numbered, Claimed, Running,
    Unstarted

(* Every step keeps the links, deletions included.                         *)
LEMMA LinkedNext == Typed /\ Linked /\ [Next]_vars => Linked'
<1> SUFFICES ASSUME Typed, Linked, [Next]_vars PROVE Linked'
  OBVIOUS
<1> USE DEF Linked
<1>1. CASE UNCHANGED vars
  BY <1>1 DEF vars, Claims, Reached, Numbered
<1>2. ASSUME NEW t \in Turns,
             \/ TurnStep(t) \/ Interrupt(t)
             \/ \E c \in Chats : Enter(t, c) \/ Create(t, c)
      PROVE  Linked'
  BY <1>2, TurnTyped, ClaimsTurn, ReachedTurn, NumberedTurn
<1>3. ASSUME NEW d \in Deleters,
             DeleteStep(d) \/ \E c \in Chats : DeleteRemove(d, c)
      PROVE  Linked'
  <2>1. UNCHANGED <<turns, active, session, starts>>
    BY <1>3 DEF DeleteStep, DeleteRemove, DeleteCheck, DeletePutBack, DeleteClose,
      DeleteRevoke, DeleteRow, DeleteFrame, sessions
  <2>2. Claims' /\ Numbered'
    BY <2>1 DEF Claims, Numbered, turns
  <2>3. \A c \in Chats : table'[c] # 0 => session[table'[c]] # 0
    BY <1>3, TypeParts DEF DeleteStep, DeleteRemove, DeleteCheck, DeletePutBack,
      DeleteClose, DeleteRevoke, DeleteRow, Reached, Typed, TableOK
  <2>4. \A e \in Deleters : held'[e] # 0 => session[held'[e]] # 0
    BY <1>3, TypeParts DEF DeleteStep, DeleteRemove, DeleteCheck, DeletePutBack,
      DeleteClose, DeleteRevoke, DeleteRow, DeleteGoto, DeleteReturn, Reached,
      Typed, OthersOK
  <2>5. Reached'
    BY <2>1, <2>3, <2>4 DEF Reached, turns
  <2>6. QED
    BY <2>2, <2>5
<1>4. CASE ReapStep
  <2>1. UNCHANGED <<turns, deleters, active, session, starts>>
    BY <1>4 DEF ReapStep, Reap, ReapClose, ReapRevoke, Close, ReapFrame
  <2>2. \A c \in Chats : table'[c] \in {0, table[c]}
    BY <1>4 DEF ReapStep, Reap, ReapClose, ReapRevoke, Close, TakeOut
  <2>3. QED
    BY <2>1, <2>2 DEF Claims, Reached, Numbered, turns, deleters
<1>5. QED
  BY <1>1, <1>2, <1>3, <1>4 DEF Next, ReapStep

(* Two turns never talk to the same provider session, whatever requests,   *)
(* deletions and reaping passes cross them: the claim is on the object,    *)
(* and objects have distinct sessions.                                     *)
THEOREM SessionsAreSeparate == Spec => []OneTurnPerSession
<1>1. Typed /\ Linked => OneTurnPerSession
  <2> SUFFICES ASSUME Typed, Linked, NEW t \in Turns, NEW u \in Turns,
                      at[t] \in Running, at[u] \in Running,
                      session[object[t]] = session[object[u]]
               PROVE  t = u
    BY DEF OneTurnPerSession
  <2>1. object[t] \in Numbers /\ object[u] \in Numbers
    BY DEF Typed, Aims, Claimed
  <2>2. session[object[t]] # 0
    BY <2>1 DEF Linked, Reached, Numbers
  <2>3. object[t] = object[u]
    BY <2>1, <2>2 DEF Linked, Numbered
  <2>4. QED
    BY <2>3 DEF Linked, Claims, Claimed
<1>2. QED
  BY <1>1, TypedInit, TypedNext, LinkedInit, LinkedNext, PTL DEF Spec

-----------------------------------------------------------------------------
(* Without deletions nobody puts an object back into the table.            *)

(* An object has one place in the table, that of its conversation; who     *)
(* drops it has taken it out, and so has the reaper.                       *)
Placed ==
  /\ \A c, d \in Chats : table[c] # 0 /\ table[c] = table[d] => c = d
  /\ \A t \in Turns, c \in Chats :
       object[t] # 0 /\ table[c] = object[t] => chat[t] = c
  /\ \A t \in Turns : at[t] = "close" => \A c \in Chats : table[c] # object[t]
  /\ \A e \in expired : \A c \in Chats : table[c] # e[2]
  /\ \A t \in Turns : at[t] \in Running => \A e \in expired : e[2] # object[t]

(* What a turn starts is its own until it registers it.                    *)
Started == {"insert", "store", "register", "discard"}
Making == {"start", "create"} \cup Started
Hidden ==
  /\ \A t \in Turns : at[t] \in Making => \A c \in Chats : table[c] # own[t]
  /\ \A t \in Turns : at[t] \in Making => \A e \in expired : e[2] # own[t]
  /\ \A t, u \in Turns : at[t] \in Making => object[u] # own[t]
  /\ \A t, u \in Turns :
       at[t] \in Making /\ at[u] \in Making /\ own[t] = own[u] => t = u
  /\ \A c \in Chats : table[c] <= starts
  /\ \A e \in expired : e[2] <= starts
  /\ \A t \in Turns : object[t] <= starts

(* The sessions of running turns, of the table and of what is still to be  *)
(* registered are open; the one a turn has replaced is nobody's.           *)
Kept ==
  /\ \A t \in Turns : at[t] \in Running => session[object[t]] \in open
  /\ \A c \in Chats : table[c] # 0 => session[table[c]] \in open
  /\ \A t \in Turns : at[t] \in Started => session[own[t]] = own[t] /\ own[t] \in open
  /\ \A t \in Turns : at[t] = "stale" => \A o \in Numbers : session[o] # own[t]
  /\ \A t, u \in Turns :
       at[t] = "stale" /\ at[u] \in Unstarted => own[u] # own[t]

(* A step of a turn keeps the places of the objects.                       *)
LEMMA PlacedTurn ==
  ASSUME Typed, Linked, Placed, Hidden, Kept, NEW t \in Turns, Only(t),
         \/ TurnStep(t) \/ Interrupt(t)
         \/ \E c \in Chats : Enter(t, c) \/ Create(t, c)
  PROVE  Placed'
<1> USE NumbersNat, StartsAssumption, TypeParts DEF Typed, TableOK, TurnsOK, Aims,
  Locked, Claimed, Running, Unstarted, Started, Making, Only, Goto, Know, Learn,
  Return, Issue, Others, reaper, sessions, Closed, Verified, Placed, Hidden
<1>1. ASSUME NEW c \in Chats, Enter(t, c) PROVE Placed'
  BY <1>1 DEF Enter
<1>2. ASSUME NEW c \in Chats, Create(t, c) PROVE Placed'
  BY <1>2 DEF Create
<1>3. CASE Lookup(t)
  BY <1>3 DEF Lookup
<1>4. CASE IssueToResume(t)
  BY <1>4 DEF IssueToResume
<1>5. CASE Refuse(t)
  BY <1>5 DEF Refuse
<1>6. CASE Start(t)
  BY <1>6 DEF Start
<1>7. CASE StartFails(t)
  BY <1>7 DEF StartFails
<1>8. CASE Insert(t)
  BY <1>8 DEF Insert
<1>9. CASE Discard(t)
  BY <1>9 DEF Discard
<1>10. CASE Author(t)
  BY <1>10 DEF Author
<1>11. CASE StoreRow(t)
  BY <1>11 DEF StoreRow
<1>12. CASE Register(t)
  BY <1>12 DEF Register
<1>13. CASE Claim(t)
  BY <1>13 DEF Claim
<1>14. CASE Verify(t)
  BY <1>14 DEF Verify
<1>15. CASE EndTurn(t)
  BY <1>15 DEF EndTurn
<1>16. CASE FailTurn(t)
  BY <1>16 DEF FailTurn
<1>17. CASE IssueToReplace(t)
  BY <1>17 DEF IssueToReplace
<1>18. CASE Replace(t)
  BY <1>18 DEF Replace
<1>19. CASE ReplaceFails(t)
  BY <1>19 DEF ReplaceFails
<1>20. CASE CloseStale(t)
  BY <1>20 DEF CloseStale
<1>21. CASE Drop(t)
  <2>1. /\ UNCHANGED <<chat, object, expired>>
        /\ at'[t] = "close" /\ at[t] = "drop" /\ object[t] # 0 /\ chat[t] \in Chats
    BY <1>21 DEF Drop, Numbers
  <2>2. \A c \in Chats : table'[c] \in {0, table[c]}
    BY <1>21 DEF Drop
  <2>3. table'[chat[t]] # object[t]
    BY <1>21, <2>1 DEF Drop
  <2>4. \A c \in Chats : table'[c] # object[t]
    BY <2>1, <2>2, <2>3
  <2>5. \A e \in expired : e[2] # 0
    BY DEF OthersOK, Numbers
  <2>6. \A c, d \in Chats : table'[c] # 0 /\ table'[c] = table'[d] => c = d
    BY <2>2
  <2>7. \A u \in Turns, c \in Chats :
          object[u] # 0 /\ table'[c] = object[u] => chat[u] = c
    BY <2>2
  <2>8. \A u \in Turns : at'[u] = "close" => \A c \in Chats : table'[c] # object[u]
    <3>1. \A u \in Turns : at[u] = "close" => object[u] # 0
      BY DEF Numbers
    <3>2. QED
      BY <2>1, <2>2, <2>4, <3>1
  <2>9. \A e \in expired : \A c \in Chats : table'[c] # e[2]
    BY <2>2, <2>5
  <2>10. \A u \in Turns : at'[u] \in Running => \A e \in expired : e[2] # object[u]
    BY <2>1
  <2> HIDE DEF Typed, Hidden, Only, Running
  <2>11. QED
    BY <2>1, <2>6, <2>7, <2>8, <2>9, <2>10
<1>22. CASE DropClose(t)
  BY <1>22 DEF DropClose
<1>23. CASE DropRevoke(t)
  BY <1>23 DEF DropRevoke
<1>24. CASE Release(t)
  BY <1>24 DEF Release
<1>25. CASE Interrupt(t)
  BY <1>25 DEF Interrupt
<1>26. QED
  BY <1>1, <1>2, <1>3, <1>4, <1>5, <1>6, <1>7, <1>8, <1>9, <1>10, <1>11, <1>12,
    <1>13, <1>14, <1>15, <1>16, <1>17, <1>18, <1>19, <1>20, <1>21, <1>22,
      <1>23, <1>24, <1>25 DEF TurnStep

(* A step of a turn hides what it has not registered.                      *)
LEMMA HiddenTurn ==
  ASSUME Typed, Linked, Placed, Hidden, NEW t \in Turns, Only(t),
         \/ TurnStep(t) \/ Interrupt(t)
         \/ \E c \in Chats : Enter(t, c) \/ Create(t, c)
  PROVE  Hidden'
<1> USE NumbersNat, StartsAssumption, TypeParts DEF Typed, TableOK, TurnsOK, Aims,
  Locked, Claimed, Running, Started, Making
<1>1. expired' = expired
  BY DEF TurnStep, Enter, Create, Lookup, IssueToResume, Refuse, Start,
    StartFails, Insert, Discard, Author, StoreRow, Register, Claim, Verify,
    EndTurn, FailTurn, Interrupt, IssueToReplace, Replace, ReplaceFails,
    CloseStale, Drop, DropClose, DropRevoke, Release, Others, reaper
<1>2. \A e \in expired : e[2] \in Numbers
  BY DEF OthersOK
<1>3. CASE IssueToResume(t) \/ IssueToReplace(t) \/ \E c \in Chats : Create(t, c)
  <2>1. /\ table' = table /\ starts' = starts + 1 /\ own'[t] = starts + 1
        /\ object'[t] \in {0, object[t]}
    BY <1>3 DEF IssueToResume, IssueToReplace, Create, Issue, Learn, Know
  <2>2. own[t] <= starts /\ \A u \in Turns : own[u] <= starts
    BY DEF Linked, Numbered
  <2>3. \A u \in Turns : own[u] \in Nat /\ object[u] \in Nat
    OBVIOUS
  <2>4. starts \in Nat /\ \A c \in Chats : table[c] \in Nat
    OBVIOUS
  <2>5. /\ \A e \in expired : e[2] \in Nat
        /\ \A u \in Turns : at[u] \in Making => own[u] # 0
    BY <1>2 DEF Numbers
  <2> HIDE DEF Typed, TableOK, TurnsOK, Aims
  <2>6. /\ \A u \in Turns : at'[u] \in Making => \A c \in Chats : table'[c] # own'[u]
        /\ \A u \in Turns : at'[u] \in Making => \A e \in expired : e[2] # own'[u]
    BY <1>1, <2>1, <2>2, <2>3, <2>4, <2>5 DEF Hidden, Only
  <2>7. \A u, v \in Turns : at'[u] \in Making => object'[v] # own'[u]
    BY <1>1, <2>1, <2>2, <2>3, <2>4, <2>5 DEF Hidden, Only
  <2>8. \A u, v \in Turns :
         at'[u] \in Making /\ at'[v] \in Making /\ own'[u] = own'[v] => u = v
    BY <1>1, <2>1, <2>2, <2>3, <2>4, <2>5 DEF Hidden, Only
  <2>9. /\ \A c \in Chats : table'[c] <= starts'
        /\ \A e \in expired : e[2] <= starts'
        /\ \A u \in Turns : object'[u] <= starts'
    BY <1>1, <2>1, <2>2, <2>3, <2>4, <2>5 DEF Hidden, Only
  <2> HIDE DEF Making
  <2>10. QED
    BY <1>1, <2>6, <2>7, <2>8, <2>9 DEF Hidden
<1>4. CASE Insert(t) \/ Register(t)
  <2>1. /\ at[t] \in Making /\ own[t] \in Numbers /\ chat[t] \in Chats
        /\ own[t] <= starts /\ starts' = starts
    BY <1>4 DEF Insert, Register, sessions, Linked, Numbered
  <2>2. CASE table' = [table EXCEPT ![chat[t]] = own[t]] /\ object'[t] = own[t]
             /\ at'[t] \notin Making
    BY <1>1, <2>1, <2>2 DEF Hidden, Only
  <2>3. CASE /\ table' = table /\ object'[t] = table[chat[t]] /\ own'[t] = own[t]
    BY <1>1, <2>1, <2>3 DEF Hidden, Only
  <2>4. QED
    BY <1>4, <2>1, <2>2, <2>3 DEF Insert, Register, Learn, Know, Goto
<1>5. CASE Lookup(t)
  <2>1. /\ table' = table /\ starts' = starts /\ at'[t] \notin Making
        /\ object'[t] \in {0, object[t], table[chat[t]]} /\ chat[t] \in Chats
    BY <1>5 DEF Lookup, sessions, Goto, Learn, Know, Return
  <2>2. \A u \in Turns : at[u] \in Making => own[u] # 0
    BY DEF Numbers
  <2>3. QED
    BY <1>1, <2>1, <2>2 DEF Hidden, Only
<1>6. CASE /\ ~IssueToResume(t) /\ ~IssueToReplace(t) /\ ~Insert(t) /\ ~Register(t)
           /\ ~Lookup(t) /\ ~\E c \in Chats : Create(t, c)
  <2>1. starts' = starts /\ \A c \in Chats : table'[c] \in {0, table[c]}
    BY <1>6 DEF TurnStep, Enter, Refuse, Start, StartFails, Discard, Author,
      StoreRow, Claim, Verify, EndTurn, FailTurn, Interrupt, Replace,
      ReplaceFails, CloseStale, Drop, DropClose, DropRevoke, Release, sessions
  <2>2. object'[t] \in {0, object[t]}
    BY <1>6 DEF TurnStep, Enter, Refuse, Start, StartFails, Discard, Author,
      StoreRow, Claim, Verify, EndTurn, FailTurn, Interrupt, Replace,
      ReplaceFails, CloseStale, Drop, DropClose, DropRevoke, Release, Goto, Know,
      Learn, Return, Steps
  <2>3. at'[t] \in Making => at[t] \in Making /\ own'[t] = own[t]
    BY <1>6 DEF TurnStep, Enter, Refuse, Start, StartFails, Discard, Author,
      StoreRow, Claim, Verify, EndTurn, FailTurn, Interrupt, Replace,
      ReplaceFails, CloseStale, Drop, DropClose, DropRevoke, Release, Goto, Know,
      Learn, Return, Steps
  <2>4. \A u \in Turns : at[u] \in Making => own[u] # 0
    BY DEF Numbers
  <2>5. /\ \A u \in Turns : at'[u] \in Making => \A c \in Chats : table'[c] # own'[u]
        /\ \A u \in Turns : at'[u] \in Making => \A e \in expired : e[2] # own'[u]
    BY <1>1, <2>1, <2>2, <2>3, <2>4 DEF Hidden, Only
  <2>6. \A u, v \in Turns : at'[u] \in Making => object'[v] # own'[u]
    BY <1>1, <2>1, <2>2, <2>3, <2>4 DEF Hidden, Only
  <2>7. \A u, v \in Turns :
         at'[u] \in Making /\ at'[v] \in Making /\ own'[u] = own'[v] => u = v
    BY <1>1, <2>1, <2>2, <2>3, <2>4 DEF Hidden, Only
  <2>8. /\ \A c \in Chats : table'[c] <= starts'
        /\ \A e \in expired : e[2] <= starts'
        /\ \A u \in Turns : object'[u] <= starts'
    BY <1>1, <2>1, <2>2, <2>3, <2>4 DEF Hidden, Only
  <2> HIDE DEF Making
  <2>9. QED
    BY <1>1, <2>5, <2>6, <2>7, <2>8 DEF Hidden
<1>7. QED
  BY <1>3, <1>4, <1>5, <1>6

(* A step that moves a turn to where it has no session of its own.         *)
LEMMA KeptQuiet ==
  ASSUME Kept, NEW t \in Turns, Only(t), UNCHANGED <<table, session, open>>,
         at'[t] \notin Running \cup Started \cup Unstarted
  PROVE  Kept'
  BY DEF Kept, Only, Running

(* A step of a turn may close a session that nobody else has.              *)
LEMMA KeptClose ==
  ASSUME Kept, NEW t \in Turns, Only(t), NEW s, UNCHANGED <<table, session>>,
         open' = open \ {s},
         at'[t] \notin Started \cup Unstarted \cup {"stale"},
         \A c \in Chats : table[c] # 0 => session[table[c]] # s,
         \A u \in Turns : at'[u] \in Running =>
           session[object'[u]] \in open /\ session[object'[u]] # s,
         \A u \in Turns : u # t /\ at[u] \in Started => own[u] # s
  PROVE  Kept'
  BY DEF Kept, Only

(* A step of a turn closes no session that is in use.                      *)
LEMMA KeptTurn ==
  ASSUME Typed, Linked, Placed, Hidden, Kept, NEW t \in Turns, Only(t),
         \/ TurnStep(t) \/ Interrupt(t)
         \/ \E c \in Chats : Enter(t, c) \/ Create(t, c)
  PROVE  Kept'
<1> USE DEF Running, Started, Unstarted
<1>1. CASE \/ Lookup(t) \/ Refuse(t) \/ StartFails(t) \/ Author(t) \/ Claim(t)
           \/ FailTurn(t) \/ EndTurn(t) \/ ReplaceFails(t) \/ DropRevoke(t) \/ Release(t)
           \/ \E c \in Chats : Enter(t, c)
  <2>1. UNCHANGED <<table, session, open>>
    BY <1>1 DEF Enter, Lookup, Refuse, StartFails, Author, Claim, FailTurn,
      EndTurn, ReplaceFails, DropRevoke, Release, sessions
  <2>2. at'[t] \notin Running \cup Started \cup Unstarted
    BY <1>1, TypeParts DEF Typed, TurnsOK, Enter, Lookup, Refuse, StartFails,
      Author, Claim, FailTurn, EndTurn, ReplaceFails, DropRevoke, Release, Goto,
      Return
  <2>3. QED
    BY <2>1, <2>2, KeptQuiet
<1>2. CASE Interrupt(t)
  BY <1>2 DEF Interrupt, sessions, Kept
<1>3. CASE IssueToResume(t) \/ IssueToReplace(t) \/ \E c \in Chats : Create(t, c)
  <2>1. /\ UNCHANGED <<table, session, open>>
        /\ at'[t] \in Unstarted /\ own'[t] = starts + 1 /\ object'[t] \in {0, object[t]}
        /\ at'[t] = "restart" => at[t] = "turn" /\ object'[t] = object[t]
    BY <1>3, TypeParts DEF Typed, TurnsOK, IssueToResume, IssueToReplace, Create,
      Issue, Goto, Learn, Know
  <2>2. \A u \in Turns : own[u] \in Nat /\ own[u] <= starts
    BY NumbersNat, TypeParts DEF Typed, TurnsOK, Linked, Numbered
  <2>3. starts \in Nat
    BY StartsAssumption, TypeParts DEF Typed, TableOK
  <2>4. \A u, v \in Turns : at'[u] = "stale" /\ at'[v] \in Unstarted => own'[v] # own'[u]
    BY <2>1, <2>2, <2>3 DEF Kept, Only
  <2>5. QED
    BY <2>1, <2>4 DEF Kept, Only
<1>4. CASE Start(t)
  <2>1. /\ own[t] \in Numbers /\ own'[t] = own[t] /\ at[t] \in Unstarted \cap Making
        /\ session' = [session EXCEPT ![own[t]] = own[t]] /\ open' = open \cup {own[t]}
        /\ table' = table /\ object' = object /\ at'[t] \in Started
    BY <1>4, TypeParts DEF Start, Goto, store, Typed, TurnsOK, Aims, Making
  <2>2. \A u \in Turns : at[u] \in Running => session'[object[u]] \in open'
    BY <2>1, TypeParts DEF Kept, Hidden, Typed, TableOK, Aims, Claimed
  <2>3. \A c \in Chats : table[c] # 0 => session'[table[c]] \in open'
    BY <2>1, NumbersNat, TypeParts DEF Kept, Hidden, Typed, TableOK
  <2>4. \A u \in Turns : at'[u] \in Started => session'[own'[u]] = own'[u] /\ own'[u] \in open'
    BY <2>1, TypeParts DEF Kept, Only, Typed, TableOK, Aims
  <2>5. \A u \in Turns : at'[u] = "stale" => \A o \in Numbers : session'[o] # own'[u]
    BY <2>1, TypeParts DEF Kept, Only, Typed, TableOK
  <2>6. \A u, v \in Turns : at'[u] = "stale" /\ at'[v] \in Unstarted => own'[v] # own'[u]
    BY <2>1 DEF Kept, Only
  <2>7. QED
    BY <2>1, <2>2, <2>3, <2>4, <2>5, <2>6 DEF Kept, Only
<1>5. CASE Insert(t) \/ Register(t)
  <2>1. /\ UNCHANGED <<session, open>> /\ own[t] \in Numbers /\ at[t] \in Started
        /\ at'[t] \notin Running \cup Unstarted
        /\ at'[t] \in Started => own'[t] = own[t]
    BY <1>5, TypeParts DEF Insert, Register, Goto, Learn, Know, sessions, Typed,
      TurnsOK, Aims
  <2>2. session[own[t]] = own[t] /\ own[t] \in open
    BY <2>1 DEF Kept
  <2>3. \A c \in Chats : table'[c] \in {table[c], own[t]}
    BY <1>5, TypeParts DEF Insert, Register, Typed, TableOK
  <2>4. \A c \in Chats : table'[c] # 0 => session[table'[c]] \in open
    BY <2>2, <2>3 DEF Kept
  <2>5. QED
    BY <2>1, <2>2, <2>4 DEF Kept, Only
<1>6. CASE Verify(t)
  <2>1. UNCHANGED <<table, session, open, object>> /\ at'[t] \in {"turn", "release"}
    BY <1>6, TypeParts DEF Verify, Goto, sessions, Typed, TurnsOK
  <2>2. at'[t] = "turn" => object[t] # 0 /\ table[chat[t]] = object[t] /\ chat[t] \in Chats
    BY <1>6, TypeParts DEF Verify, Verified, Goto, Typed, TurnsOK, TableOK, Aims,
      Claimed, Numbers
  <2>3. QED
    BY <2>1, <2>2 DEF Kept, Only
<1>7. CASE Replace(t)
  <2>1. /\ own[t] \in Numbers /\ object[t] \in Numbers /\ at[t] = "restart"
        /\ session' = [session EXCEPT ![object[t]] = own[t]]
        /\ open' = open \cup {own[t]} /\ table' = table
    BY <1>7 DEF Replace, store, Typed, Aims, Claimed, Running
  <2>2. /\ own'[t] = session[object[t]] /\ object'[t] = object[t] /\ at'[t] = "stale"
    BY <1>7, TypeParts DEF Replace, Typed, TurnsOK, Learn, Know, Goto
  <2>3. \A o \in Numbers : session'[o] = IF o = object[t] THEN own[t] ELSE session[o]
    BY <2>1, TypeParts DEF Typed, TableOK
  <2>4. \A o \in Numbers : session[o] # own[t]
    BY <2>1 DEF Linked, Numbered
  <2>5. session[object[t]] # 0
    BY <2>1 DEF Linked, Reached, Numbers
  <2>6. \A o \in Numbers : session'[o] # own'[t]
    BY <2>1, <2>2, <2>3, <2>4, <2>5 DEF Linked, Numbered
  <2>7. \A o \in Numbers : session[o] \in open => session'[o] \in open'
    BY <2>1, <2>3
  <2>8. \A u \in Turns : at'[u] \in Running =>
          at[u] \in Running /\ object'[u] = object[u] /\ object[u] \in Numbers
    BY <2>1, <2>2 DEF Only, Running, Typed, Aims, Claimed
  <2>9. \A u \in Turns : at'[u] \in Running => session'[object'[u]] \in open'
    BY <2>7, <2>8 DEF Kept
  <2>10. \A c \in Chats : table'[c] # 0 => session'[table'[c]] \in open'
    BY <2>1, <2>7, NumbersNat, TypeParts DEF Kept, Typed, TableOK
  <2>11. \A u \in Turns : at'[u] \in Started =>
           /\ u # t /\ at[u] \in Started /\ own'[u] = own[u]
           /\ own[u] \in Numbers /\ own[u] # object[t]
    BY <2>2 DEF Only, Hidden, Making, Typed, Aims
  <2>12. \A u \in Turns : at'[u] \in Started => session'[own'[u]] = own'[u] /\ own'[u] \in open'
    BY <2>1, <2>3, <2>11 DEF Kept
  <2>13. \A u \in Turns : at'[u] = "stale" => \A o \in Numbers : session'[o] # own'[u]
    BY <2>1, <2>3, <2>6 DEF Kept, Only
  <2>14. \A u, v \in Turns : at'[u] = "stale" /\ at'[v] \in Unstarted => own'[v] # own'[u]
    BY <2>1, <2>2 DEF Kept, Only, Linked, Numbered
  <2> HIDE DEF Started, Unstarted
  <2>15. QED
    BY <2>9, <2>10, <2>12, <2>13, <2>14 DEF Kept
<1>8. CASE Drop(t)
  <2>1. /\ UNCHANGED <<session, open>> /\ at'[t] = "close"
        /\ \A c \in Chats : table'[c] \in {0, table[c]}
    BY <1>8, TypeParts DEF Drop, sessions, Goto, Typed, TurnsOK, TableOK
  <2>2. QED
    BY <2>1 DEF Kept, Only
<1>9. CASE Discard(t) \/ (StoreRow(t) /\ open' = open \ {own[t]} /\ at'[t] = "idle")
  <2> DEFINE s == own[t]
  <2>1. /\ UNCHANGED <<table, session>> /\ open' = open \ {s}
        /\ at[t] \in Started /\ at[t] \in Making /\ at'[t] \in {"author", "idle"}
        /\ own[t] \in Numbers
    BY <1>9, TypeParts DEF Discard, StoreRow, Goto, Typed, TurnsOK, Aims, Making
  <2>2. session[own[t]] = own[t] /\ own[t] # 0
    BY <2>1 DEF Kept, Numbers
  <2>3. \A o \in Numbers : session[o] = own[t] => o = own[t]
    BY <2>1, <2>2 DEF Linked, Numbered
  <2>4. \A c \in Chats : table[c] # 0 => session[table[c]] # s
    BY <2>1, <2>3, NumbersNat, TypeParts DEF Hidden, Typed, TableOK
  <2>5. \A u \in Turns : at'[u] \in Running =>
          u # t /\ at[u] \in Running /\ object'[u] = object[u] /\ object[u] \in Numbers
    BY <2>1 DEF Only, Running, Typed, Aims, Claimed
  <2>6. \A u \in Turns : at'[u] \in Running =>
          session[object'[u]] \in open /\ session[object'[u]] # s
    BY <2>1, <2>3, <2>5 DEF Kept, Hidden
  <2>7. \A u \in Turns : u # t /\ at[u] \in Started => own[u] # s
    BY <2>1 DEF Hidden, Making
  <2>8. at'[t] \notin Started \cup Unstarted \cup {"stale"}
    BY <2>1
  <2> HIDE DEF s, Started, Unstarted
  <2>9. QED
    BY <2>1, <2>4, <2>6, <2>7, <2>8, KeptClose
<1>10. CASE StoreRow(t) /\ at'[t] = "register" /\ UNCHANGED <<open, own, object>>
  <2>1. UNCHANGED <<table, session>> /\ at[t] = "store"
    BY <1>10 DEF StoreRow
  <2>2. QED
    BY <1>10, <2>1 DEF Kept, Only, Running
<1>11. CASE CloseStale(t)
  <2> DEFINE s == own[t]
  <2>1. /\ UNCHANGED <<table, session>> /\ open' = open \ {s}
        /\ at[t] = "stale" /\ at'[t] = "turn" /\ object'[t] = object[t]
    BY <1>11, TypeParts DEF CloseStale, Goto, Know, Learn, Typed, TurnsOK
  <2>2. \A o \in Numbers : session[o] # own[t]
    BY <2>1 DEF Kept
  <2>3. \A c \in Chats : table[c] # 0 => session[table[c]] # s
    BY <2>2, NumbersNat, TypeParts DEF Typed, TableOK
  <2>4. \A u \in Turns : at'[u] \in Running =>
          at[u] \in Running /\ object'[u] = object[u] /\ object[u] \in Numbers
    BY <2>1 DEF Only, Running, Typed, Aims, Claimed
  <2>5. \A u \in Turns : at'[u] \in Running =>
          session[object'[u]] \in open /\ session[object'[u]] # s
    BY <2>2, <2>4 DEF Kept
  <2>6. \A u \in Turns : at[u] \in Started => own[u] \in Numbers
    BY DEF Typed, Aims
  <2>7. \A u \in Turns : u # t /\ at[u] \in Started => own[u] # s
    BY <2>2, <2>6 DEF Kept
  <2>8. at'[t] \notin Started \cup Unstarted \cup {"stale"}
    BY <2>1
  <2> HIDE DEF s, Started, Unstarted
  <2>9. QED
    BY <2>1, <2>3, <2>5, <2>7, <2>8, KeptClose
<1>12. CASE DropClose(t)
  <2> DEFINE s == session[object[t]]
  <2>1. /\ UNCHANGED <<table, session>> /\ open' = open \ {s}
        /\ at[t] = "close" /\ at'[t] = "revoke" /\ object[t] \in Numbers
    BY <1>12, TypeParts DEF DropClose, Closed, Goto, Typed, TurnsOK, Aims, Claimed
  <2>2. s # 0
    BY <2>1 DEF Linked, Reached, Numbers
  <2>3. \A o \in Numbers : session[o] = s => o = object[t]
    BY <2>1, <2>2 DEF Linked, Numbered
  <2>4. \A c \in Chats : table[c] # 0 => session[table[c]] # s
    BY <2>1, <2>3, NumbersNat, TypeParts DEF Placed, Typed, TableOK
  <2>5. \A u \in Turns : at'[u] \in Running =>
          /\ u # t /\ at[u] \in Running
          /\ object'[u] = object[u] /\ object[u] \in Numbers
    BY <2>1 DEF Only, Running, Typed, Aims, Claimed
  <2>6. \A u \in Turns : u # t /\ at[u] \in Running => object[u] # object[t]
    BY <2>1 DEF Linked, Claims, Claimed
  <2>7. \A u \in Turns : at'[u] \in Running =>
          session[object'[u]] \in open /\ session[object'[u]] # s
    BY <2>3, <2>5, <2>6 DEF Kept
  <2>8. \A u \in Turns : u # t /\ at[u] \in Started => own[u] # s
    BY <2>3 DEF Kept, Hidden, Making, Typed, Aims
  <2>9. at'[t] \notin Started \cup Unstarted \cup {"stale"}
    BY <2>1
  <2> HIDE DEF s, Started, Unstarted
  <2>10. QED
    BY <2>1, <2>4, <2>7, <2>8, <2>9, KeptClose
<1>13. StoreRow(t) => \/ open' = open \ {own[t]} /\ at'[t] = "idle"
                      \/ at'[t] = "register" /\ UNCHANGED <<open, own, object>>
  BY TypeParts DEF StoreRow, Return, Goto, Typed, TurnsOK
<1>14. QED
  BY <1>1, <1>2, <1>3, <1>4, <1>5, <1>6, <1>7, <1>8, <1>9, <1>10, <1>11, <1>12,
    <1>13 DEF TurnStep

(* The reaper and Close take out only what no turn has claimed, and close  *)
(* only what they took out.                                                *)
LEMMA TakeOutSafe ==
  ASSUME Typed, Linked, Placed, Hidden, Kept, NEW C \in SUBSET Chats,
         \A c \in C : table[c] # 0,
         \A t \in Turns, c \in C : at[t] \in Running => object[t] # table[c],
         TakeOut(C), ReapFrame, open' = open
  PROVE  Placed' /\ Hidden' /\ Kept'
<1> USE NumbersNat, TypeParts DEF Typed, TableOK, TurnsOK, Aims, ReapFrame, turns,
  Claimed
<1>1. \A c \in Chats : table'[c] \in {0, table[c]} /\ (c \in C => table'[c] = 0)
  BY DEF TakeOut
<1>2. \A e \in expired' : \E c \in C : e[2] = table[c]
  BY DEF TakeOut
<1>3. \A c \in Chats, d \in C : table'[c] # table[d]
  BY <1>1 DEF Placed
<1>4. Placed'
  <2>1. /\ \A e \in expired' : \A c \in Chats : table'[c] # e[2]
        /\ \A t \in Turns : at[t] \in Running => \A e \in expired' : e[2] # object[t]
    BY <1>2, <1>3
  <2>2. \A t \in Turns : at[t] = "close" => object[t] # 0
    BY DEF Numbers
  <2>3. QED
    BY <1>1, <2>1, <2>2 DEF Placed
<1>5. Hidden'
  <2>1. \A t \in Turns : at[t] \in Making => own[t] # 0
    BY DEF Making, Started, Numbers
  <2>2. 0 <= starts
    BY StartsAssumption
  <2>3. QED
    BY <1>1, <1>2, <2>1, <2>2 DEF Hidden
<1>6. Kept'
  BY <1>1 DEF Kept
<1>7. QED
  BY <1>4, <1>5, <1>6

(* A step of reapIdle or Close closes no session that is in use.           *)
LEMMA ReapKept ==
  ASSUME Typed, Linked, Placed, Hidden, Kept, ReapStep
  PROVE  Placed' /\ Hidden' /\ Kept'
<1>1. ASSUME NEW C \in SUBSET Chats, Reap(C) PROVE Placed' /\ Hidden' /\ Kept'
  <2>1. \A t \in Turns, c \in C : at[t] \in Running => object[t] # table[c]
    BY <1>1 DEF Reap, MayReap, Linked, Claims, Claimed
  <2>2. QED
    BY <1>1, <2>1, TakeOutSafe DEF Reap, MayReap
<1>2. CASE Close
  <2>1. \A t \in Turns : at[t] \notin Running
    BY <1>2 DEF Close, Running
  <2>2. QED
    BY <1>2, <2>1, TakeOutSafe DEF Close
<1>3. CASE ReapClose
  <2> PICK e \in expired : open' = open \ {session[e[2]]} /\ expired' = expired \ {e}
    BY <1>3 DEF ReapClose, Closed
  <2>1. /\ UNCHANGED <<table, session, starts, at, chat, object, own>>
        /\ e[2] \in Numbers
    BY <1>3, TypeParts DEF ReapClose, ReapFrame, turns, Typed, OthersOK
  <2>2. Placed' /\ Hidden'
    BY <2>1 DEF Placed, Hidden
  <2>3. \A o \in Numbers : session[o] \in open /\ o # e[2] => session[o] \in open'
    BY <2>1, TypeParts DEF Linked, Numbered, Typed, TableOK, Numbers
  <2>4. \A t \in Turns : at[t] \in Running => session[object[t]] \in open'
    BY <2>3 DEF Kept, Placed, Typed, Aims, Claimed
  <2>5. \A c \in Chats : table[c] # 0 => session[table[c]] \in open'
    BY <2>3, NumbersNat, TypeParts DEF Kept, Placed, Typed, TableOK
  <2>6. \A t \in Turns : at[t] \in Started => own[t] \in open'
    BY <2>3 DEF Kept, Hidden, Making, Started, Typed, Aims
  <2>7. QED
    BY <2>1, <2>2, <2>4, <2>5, <2>6 DEF Kept
<1>4. CASE ReapRevoke
  BY <1>4 DEF ReapRevoke, ReapFrame, turns, Placed, Hidden, Kept
<1>5. QED
  BY <1>1, <1>2, <1>3, <1>4 DEF ReapStep

Safe == Linked /\ Placed /\ Hidden /\ Kept

(* The invariant behind TurnKeepsSession holds at first.                   *)
LEMMA SafeInit == Init => Safe
  BY LinkedInit, NumbersNat DEF Init, Safe, Placed, Hidden, Kept, Running, Making,
    Started

(* Without deletions every step keeps it.                                  *)
LEMMA SafeNext == Deleters = {} /\ Typed /\ Safe /\ [Next]_vars => Safe'
<1> SUFFICES ASSUME Deleters = {}, Typed, Safe, [Next]_vars PROVE Safe'
  OBVIOUS
<1>1. Linked'
  BY LinkedNext DEF Safe
<1>2. CASE UNCHANGED vars
  BY <1>1, <1>2 DEF vars, Safe, Placed, Hidden, Kept
<1>3. ASSUME NEW t \in Turns,
             \/ TurnStep(t) \/ Interrupt(t)
             \/ \E c \in Chats : Enter(t, c) \/ Create(t, c)
      PROVE  Safe'
  BY <1>1, <1>3, TurnTyped, PlacedTurn, HiddenTurn, KeptTurn DEF Safe
<1>4. CASE ReapStep
  BY <1>1, <1>4, ReapKept DEF Safe
<1>5. QED
  BY <1>2, <1>3, <1>4 DEF Next, ReapStep

(* Where nobody deletes conversations, neither the reaper nor another turn *)
(* closes the session of a running turn.                                   *)
THEOREM SessionStaysOpen == ASSUME Deleters = {} PROVE Spec => []TurnKeepsSession
<1>1. Safe => TurnKeepsSession
  BY DEF Safe, Kept, TurnKeepsSession
<1>2. QED
  BY <1>1, TypedInit, TypedNext, SafeInit, SafeNext, PTL DEF Spec

-----------------------------------------------------------------------------
(* When every conversation is stored from the start and nobody deletes, a  *)
(* running turn has the object that is in the table.                       *)
Seated ==
  /\ drawn = Chats
  /\ \A t \in Turns : at[t] \notin {"create", "store", "register"}
  /\ \A t \in Turns : at[t] \in Running => table[chat[t]] = object[t]

(* A step of a turn leaves the objects of running turns in the table.      *)
LEMMA SeatedTurn ==
  ASSUME Typed, Linked, Seated, NEW t \in Turns, Only(t),
         \/ TurnStep(t) \/ Interrupt(t)
         \/ \E c \in Chats : Enter(t, c) \/ Create(t, c)
  PROVE  Seated'
<1> USE TypeParts DEF Typed, TableOK, TurnsOK, Aims, Locked, Claimed, Running,
  Steps
<1>1. drawn' = drawn /\ ~\E c \in Chats : Create(t, c)
  BY DEF Seated, TurnStep, Enter, Create, Lookup, IssueToResume, Refuse, Start,
    StartFails, Insert, Discard, Author, StoreRow, Register, Claim, Verify,
    EndTurn, FailTurn, Interrupt, IssueToReplace, Replace, ReplaceFails,
    CloseStale, Drop, DropClose, DropRevoke, Release, store
<1>2. at'[t] \notin {"create", "store", "register"}
  BY <1>1 DEF Seated, TurnStep, Enter, Create, Lookup, IssueToResume, Refuse,
    Start, StartFails, Insert, Discard, Author, StoreRow, Register, Claim, Verify,
    EndTurn, FailTurn, Interrupt, IssueToReplace, Replace, ReplaceFails,
    CloseStale, Drop, DropClose, DropRevoke, Release, Goto, Know, Learn, Return
<1>3. \A u \in Turns : at'[u] \in Running => table'[chat'[u]] = object'[u]
  <2>1. CASE Insert(t)
    <3>1. at'[t] \notin Running /\ at[t] \notin Running
      BY <2>1 DEF Insert, Goto
    <3>2. \A c \in Chats : table[c] # 0 => table'[c] = table[c]
      BY <2>1 DEF Insert
    <3>3. \A u \in Turns : u # t /\ at[u] \in Running => table[chat[u]] # 0 /\ chat[u] \in Chats
      BY DEF Seated, Numbers
    <3>4. QED
      BY <3>1, <3>2, <3>3 DEF Seated, Only
  <2>2. CASE Drop(t)
    <3>1. at'[t] = "close" /\ at[t] = "drop"
      BY <2>2 DEF Drop, Goto
    <3>2. \A c \in Chats : table[c] # object[t] => table'[c] = table[c]
      BY <2>2 DEF Drop, Verified
    <3>3. \A u \in Turns : u # t /\ at[u] \in Running =>
            object[u] # object[t] /\ chat[u] \in Chats
      BY <3>1 DEF Linked, Claims
    <3>4. QED
      BY <3>1, <3>2, <3>3 DEF Seated, Only
  <2>3. CASE ~Insert(t) /\ ~Drop(t)
    <3>1. table' = table
      BY <1>1, <2>3 DEF Seated, TurnStep, Enter, Lookup, IssueToResume, Refuse,
        Start, StartFails, Discard, Author, StoreRow, Register, Claim, Verify,
        EndTurn, FailTurn, Interrupt, IssueToReplace, Replace, ReplaceFails,
        CloseStale, DropClose, DropRevoke, Release
    <3>2. CASE Verify(t)
      <4>1. /\ chat' = chat /\ object' = object
            /\ at'[t] \in Running => table[chat[t]] = object[t]
        BY <3>2 DEF Verify, Verified, Goto
      <4>2. QED
        BY <3>1, <4>1 DEF Seated, Only
    <3>3. CASE ~Verify(t)
      <4>1. at'[t] \in Running =>
              at[t] \in Running /\ object'[t] = object[t] /\ chat'[t] = chat[t]
        BY <1>1, <2>3, <3>3 DEF Seated, TurnStep, Enter, Lookup, IssueToResume,
          Refuse, Start, StartFails, Discard, Author, StoreRow, Register, Claim,
          EndTurn, FailTurn, Interrupt, IssueToReplace, Replace, ReplaceFails,
          CloseStale, DropClose, DropRevoke, Release, Goto, Know, Learn, Return
      <4>2. QED
        BY <3>1, <4>1 DEF Seated, Only
    <3>4. QED
      BY <3>2, <3>3
  <2>4. QED
    BY <2>1, <2>2, <2>3
<1>4. QED
  BY <1>1, <1>2, <1>3 DEF Seated, Only

(* So does every step when nobody deletes.                                 *)
LEMMA SeatedNext == Deleters = {} /\ Typed /\ Linked /\ Seated /\ [Next]_vars => Seated'
<1> SUFFICES ASSUME Deleters = {}, Typed, Linked, Seated,
  [Next]_vars PROVE Seated'
  OBVIOUS
<1>1. CASE UNCHANGED vars
  BY <1>1 DEF vars, Seated
<1>2. ASSUME NEW t \in Turns,
             \/ TurnStep(t) \/ Interrupt(t)
             \/ \E c \in Chats : Enter(t, c) \/ Create(t, c)
      PROVE  Seated'
  BY <1>2, TurnTyped, SeatedTurn
<1>3. CASE ReapStep
  <2>1. UNCHANGED <<drawn, at, chat, object>>
    BY <1>3 DEF ReapStep, Reap, ReapClose, ReapRevoke, Close, ReapFrame, turns,
      store
  <2>2. \A t \in Turns : at[t] \in Running => table'[chat[t]] = table[chat[t]]
    <3>1. \A t \in Turns : at[t] \in Running =>
            chat[t] \in Chats /\ object[t] \in active /\ table[chat[t]] = object[t]
      BY TypeParts DEF Typed, TableOK, Aims, Linked, Claims, Claimed, Running,
        Seated
    <3>2. ASSUME NEW C \in SUBSET Chats, Reap(C), NEW t \in Turns,
      at[t] \in Running
          PROVE  table'[chat[t]] = table[chat[t]]
      BY <3>1, <3>2 DEF Reap, MayReap, TakeOut
    <3>3. CASE Close
      BY <3>3 DEF Close, Running
    <3>4. CASE ReapClose \/ ReapRevoke
      BY <3>4 DEF ReapClose, ReapRevoke
    <3>5. QED
      BY <1>3, <3>2, <3>3, <3>4 DEF ReapStep
  <2>3. QED
    BY <2>1, <2>2 DEF Seated
<1>4. QED
  BY <1>1, <1>2, <1>3 DEF Next, ReapStep

(* Where every conversation is stored from the start and nobody deletes,   *)
(* no conversation has two turns at once.                                  *)
THEOREM OneTurnAtATime ==
  ASSUME Deleters = {}, Stored = Chats
  PROVE  Spec => []OneTurn
<1>1. Init => Seated
  BY DEF Init, Seated, Running
<1>2. Linked /\ Seated => OneTurn
  BY DEF Linked, Claims, Claimed, Seated, OneTurn
<1>3. QED
  BY <1>1, <1>2, TypedInit, TypedNext, LinkedInit, LinkedNext, SeatedNext, PTL DEF
    Spec

-----------------------------------------------------------------------------
(* What EverySessionIsOwned rests on in the same setting.                  *)

(* A turn knows of a session of its own only while it starts, registers or *)
(* replaces one; a session that is not started yet is not open.            *)
Holding == Unstarted \cup Started \cup {"stale"}
Known ==
  /\ \A t \in Turns : at[t] \notin Holding => own[t] = 0
  /\ \A s \in open : s <= starts
  /\ \A t \in Turns : at[t] \in Unstarted => own[t] \notin open

LEMMA KnownTurn ==
  ASSUME Typed, Linked, Known, NEW t \in Turns, Only(t),
         \/ TurnStep(t) \/ Interrupt(t)
         \/ \E c \in Chats : Enter(t, c) \/ Create(t, c)
  PROVE  Known'
<1> USE TypeParts, NumbersNat DEF Typed, TableOK, TurnsOK, Aims
<1>1. CASE IssueToResume(t) \/ IssueToReplace(t) \/ \E c \in Chats : Create(t, c)
  <2>1. /\ open' = open /\ starts' = starts + 1 /\ own'[t] = starts + 1
        /\ at'[t] \in Unstarted
    BY <1>1 DEF IssueToResume, IssueToReplace, Create, Issue, Learn, Know, Goto,
      Unstarted
  <2>2. \A s \in open : s \in Nat
    BY DEF Numbers
  <2>3. starts \in Nat
    OBVIOUS
  <2>4. \A u \in Turns : at'[u] \in Unstarted => own'[u] \notin open
    BY <2>1, <2>2, <2>3 DEF Known, Only
  <2>5. \A s \in open : s <= starts'
    BY <2>1, <2>2, <2>3 DEF Known
  <2>6. \A u \in Turns : at'[u] \notin Holding => own'[u] = 0
    BY <2>1 DEF Known, Only, Holding
  <2>7. QED
    BY <2>1, <2>4, <2>5, <2>6 DEF Known
<1>2. CASE Start(t) \/ Replace(t)
  <2>1. /\ open' = open \cup {own[t]} /\ starts' = starts
        /\ at[t] \in Unstarted /\ at'[t] \in Started \cup {"stale"}
    BY <1>2 DEF Start, Replace, Goto, Unstarted, Started
  <2>2. at'[t] \notin Unstarted
    BY <2>1 DEF Unstarted, Started
  <2>3. own[t] <= starts
    BY DEF Linked, Numbered
  <2>4. \A u \in Turns : u # t /\ at[u] \in Unstarted => own[u] # own[t]
    BY <2>1 DEF Linked, Numbered
  <2>5. QED
    BY <2>1, <2>2, <2>3, <2>4 DEF Known, Only, Holding
<1>3. CASE /\ ~IssueToResume(t) /\ ~IssueToReplace(t) /\ ~Start(t) /\ ~Replace(t)
           /\ ~\E c \in Chats : Create(t, c)
  <2>1. open' \subseteq open /\ starts' = starts
    BY <1>3 DEF TurnStep, Enter, Lookup, Refuse, StartFails, Insert, Discard,
      Author, StoreRow, Register, Claim, Verify, EndTurn, FailTurn, Interrupt,
      ReplaceFails, CloseStale, Drop, DropClose, DropRevoke, Release, sessions,
      Closed
  <2>2. at'[t] \in Unstarted => at[t] \in Unstarted /\ own'[t] = own[t]
    BY <1>3 DEF TurnStep, Enter, Lookup, Refuse, StartFails, Insert, Discard,
      Author, StoreRow, Register, Claim, Verify, EndTurn, FailTurn, Interrupt,
      ReplaceFails, CloseStale, Drop, DropClose, DropRevoke, Release, Goto, Know,
      Learn, Return, Unstarted
  <2>3. at'[t] \notin Holding => own'[t] = 0
    <3>1. own'[t] = 0 \/ (own'[t] = own[t] /\ (at'[t] \notin Holding => at[t] \notin Holding))
      BY <1>3 DEF TurnStep, Enter, Lookup, Refuse, StartFails, Insert, Discard,
        Author, StoreRow, Register, Claim, Verify, EndTurn, FailTurn, Interrupt,
        ReplaceFails, CloseStale, Drop, DropClose, DropRevoke, Release, Goto, Know,
        Learn, Return, Unstarted, Started, Holding
    <3>2. QED
      BY <3>1 DEF Known
  <2>4. QED
    BY <2>1, <2>2, <2>3 DEF Known, Only
<1>4. QED
  BY <1>1, <1>2, <1>3

(* A step of a turn that neither registers nor starts a session, and drops *)
(* what it had only together with the process.                             *)
LEMMA OwnerStays ==
  ASSUME EverySessionIsOwned, NEW t \in Turns, Only(t),
         UNCHANGED <<table, session, expired>>, open' \subseteq open,
         own[t] \in open' => own'[t] = own[t],
         at[t] = "close" => session[object[t]] \notin open'
  PROVE  EverySessionIsOwned'
<1> SUFFICES ASSUME NEW s \in open'
             PROVE  \/ s \in Registered
                    \/ \E u \in Turns : own'[u] = s
                    \/ \E u \in Turns : at'[u] = "close" /\ session[object'[u]] = s
                    \/ \E e \in expired : session[e[2]] = s
  BY DEF EverySessionIsOwned, Registered
<1>1. CASE s \in Registered \/ \E e \in expired : session[e[2]] = s
  BY <1>1
<1>2. ASSUME NEW u \in Turns, own[u] = s PROVE own'[u] = s
  BY <1>2 DEF Only
<1>3. ASSUME NEW u \in Turns, at[u] = "close", session[object[u]] = s
      PROVE  at'[u] = "close" /\ session[object'[u]] = s
  BY <1>3 DEF Only
<1>4. QED
  BY <1>1, <1>2, <1>3 DEF EverySessionIsOwned

LEMMA OwnerTurn ==
  ASSUME Typed, Safe, Seated, Known, EverySessionIsOwned, NEW t \in Turns, Only(t),
         \/ TurnStep(t) \/ Interrupt(t)
         \/ \E c \in Chats : Enter(t, c) \/ Create(t, c)
  PROVE  EverySessionIsOwned'
<1> USE TypeParts, NumbersNat DEF Typed, TableOK, TurnsOK, Aims
<1>1. 0 \notin open
  BY DEF Numbers
<1>2. expired' = expired
  BY DEF TurnStep, Enter, Create, Lookup, IssueToResume, Refuse, Start,
    StartFails, Insert, Discard, Author, StoreRow, Register, Claim, Verify,
    EndTurn, FailTurn, Interrupt, IssueToReplace, Replace, ReplaceFails,
    CloseStale, Drop, DropClose, DropRevoke, Release, Others, reaper
<1>3. /\ ~\E c \in Chats : Create(t, c)
      /\ ~StoreRow(t) /\ ~Register(t) /\ at[t] # "create"
  BY DEF Seated, Create, StoreRow, Register
<1>4. CASE Start(t)
  <2>1. /\ UNCHANGED <<table, chat, object, own>> /\ open' = open \cup {own[t]}
        /\ session' = [session EXCEPT ![own[t]] = own[t]]
        /\ at[t] = "start" /\ at'[t] = "insert" /\ own[t] \in Numbers
    BY <1>3, <1>4 DEF Start, Goto, store
  <2>2. \A o \in Numbers : o # own[t] => session'[o] = session[o]
    BY <2>1
  <2>3. /\ \A c \in Chats : table[c] # own[t]
        /\ \A u \in Turns : object[u] # own[t]
        /\ \A e \in expired : e[2] # own[t] /\ e[2] \in Numbers
    BY <2>1 DEF Safe, Hidden, Making, OthersOK
  <2>4. Registered \subseteq Registered'
    BY <2>1, <2>2, <2>3 DEF Registered
  <2>5. ASSUME NEW s \in open
        PROVE  \/ s \in Registered'
               \/ \E u \in Turns : own'[u] = s
               \/ \E u \in Turns : at'[u] = "close" /\ session'[object'[u]] = s
               \/ \E e \in expired : session'[e[2]] = s
    <3>1. CASE s \in Registered \/ \E u \in Turns : own[u] = s
      BY <2>1, <2>4, <3>1
    <3>2. ASSUME NEW u \in Turns, at[u] = "close", session[object[u]] = s
          PROVE  at'[u] = "close" /\ session'[object'[u]] = s
      BY <2>1, <2>2, <2>3, <3>2 DEF Only, Claimed
    <3>3. ASSUME NEW e \in expired, session[e[2]] = s PROVE session'[e[2]] = s
      BY <2>2, <2>3, <3>3
    <3>4. QED
      BY <3>1, <3>2, <3>3 DEF EverySessionIsOwned
  <2>6. QED
    BY <1>2, <2>1, <2>5 DEF EverySessionIsOwned
<1>5. CASE Insert(t)
  <2>1. /\ UNCHANGED <<session, open>> /\ chat[t] \in Chats
        /\ at[t] = "insert" /\ own[t] \in Numbers /\ session[own[t]] = own[t]
    BY <1>5 DEF Insert, sessions, Safe, Kept, Started
  <2>2. CASE table[chat[t]] = 0
    <3>1. table' = [table EXCEPT ![chat[t]] = own[t]]
      BY <1>5, <2>2 DEF Insert
    <3>2. /\ table'[chat[t]] = own[t] /\ own[t] # 0
          /\ \A c \in Chats : table[c] # 0 => table'[c] = table[c]
      BY <2>1, <2>2, <3>1 DEF Numbers
    <3>3. own[t] \in Registered' /\ Registered \subseteq Registered'
      BY <2>1, <3>2 DEF Registered
    <3>4. QED
      BY <1>2, <2>1, <3>3 DEF EverySessionIsOwned, Only
  <2>3. CASE table[chat[t]] # 0
    <3>1. table' = table /\ own'[t] = own[t]
      BY <1>5, <2>3 DEF Insert, Learn, Know
    <3>2. QED
      BY <1>2, <2>1, <3>1, OwnerStays
  <2>4. QED
    BY <2>2, <2>3
<1>6. CASE Replace(t)
  <2>1. /\ UNCHANGED <<table, chat>> /\ open' = open \cup {own[t]}
        /\ session' = [session EXCEPT ![object[t]] = own[t]]
        /\ object'[t] = object[t] /\ own'[t] = session[object[t]]
        /\ at[t] = "restart" /\ at'[t] = "stale" /\ object[t] \in Numbers
        /\ chat[t] \in Chats
    BY <1>6 DEF Replace, Goto, Learn, Know, store, Claimed, Running
  <2>2. table[chat[t]] = object[t] /\ object[t] # 0
    BY <2>1 DEF Seated, Running, Numbers
  <2>3. /\ session'[object[t]] = own[t]
        /\ \A o \in Numbers : o # object[t] => session'[o] = session[o]
    BY <2>1
  <2>4. own[t] \in Registered'
    BY <2>1, <2>2, <2>3 DEF Registered
  <2>5. ASSUME NEW s \in open, s # session[object[t]], s # own[t]
        PROVE  \/ s \in Registered'
               \/ \E u \in Turns : own'[u] = s
               \/ \E u \in Turns : at'[u] = "close" /\ session'[object'[u]] = s
               \/ \E e \in expired : session'[e[2]] = s
    <3>1. ASSUME NEW c \in Chats, table[c] # 0, session[table[c]] = s
          PROVE  session'[table[c]] = s
      BY <2>3, <2>5, <3>1
    <3>2. s \in Registered => s \in Registered'
      BY <2>1, <3>1 DEF Registered
    <3>3. ASSUME NEW u \in Turns, own[u] = s PROVE own'[u] = s
      BY <2>5, <3>3 DEF Only
    <3>4. ASSUME NEW u \in Turns, at[u] = "close", session[object[u]] = s
          PROVE  at'[u] = "close" /\ session'[object'[u]] = s
      BY <2>1, <2>3, <2>5, <3>4 DEF Only, Claimed
    <3>5. ASSUME NEW e \in expired, session[e[2]] = s PROVE session'[e[2]] = s
      BY <2>3, <2>5, <3>5 DEF OthersOK
    <3>6. QED
      BY <3>2, <3>3, <3>4, <3>5 DEF EverySessionIsOwned
  <2>6. QED
    BY <1>2, <2>1, <2>4, <2>5 DEF EverySessionIsOwned
<1>7. CASE Drop(t)
  <2>1. /\ UNCHANGED <<session, open, object, own>> /\ at[t] = "drop"
        /\ at'[t] = "close"
        /\ \A c \in Chats : table'[c] = table[c] \/ table[c] = object[t]
    BY <1>7 DEF Drop, sessions, Goto, Verified
  <2>2. ASSUME NEW s \in Registered
        PROVE  s \in Registered' \/ s = session[object[t]]
    BY <2>1 DEF Registered
  <2>3. QED
    BY <1>2, <2>1, <2>2 DEF EverySessionIsOwned, Only
<1>8. CASE \/ Lookup(t) \/ IssueToResume(t) \/ Refuse(t) \/ StartFails(t)
           \/ Author(t) \/ Claim(t) \/ Verify(t) \/ EndTurn(t) \/ FailTurn(t)
           \/ IssueToReplace(t) \/ ReplaceFails(t) \/ DropRevoke(t)
           \/ Release(t) \/ Interrupt(t) \/ \E c \in Chats : Enter(t, c)
  <2>1. UNCHANGED <<table, session, open>> /\ at[t] # "close"
    BY <1>8 DEF Enter, Lookup, IssueToResume, Refuse, StartFails, Author, Claim,
      Verify, EndTurn, FailTurn, IssueToReplace, ReplaceFails, DropRevoke,
      Release, Interrupt, sessions
  <2>2. at[t] \in Unstarted \/ at[t] \notin Holding
    BY <1>8, <1>3 DEF Enter, Lookup, IssueToResume, Refuse, StartFails, Author, Claim,
      Verify, EndTurn, FailTurn, IssueToReplace, ReplaceFails, DropRevoke,
      Release, Interrupt, Unstarted, Started, Holding
  <2>3. own[t] \notin open
    BY <1>1, <2>2 DEF Known
  <2>4. QED
    BY <1>2, <2>1, <2>3, OwnerStays
<1>9. CASE Discard(t) \/ CloseStale(t)
  <2>1. UNCHANGED <<table, session>> /\ open' = open \ {own[t]} /\ at[t] # "close"
    BY <1>9 DEF Discard, CloseStale
  <2>2. QED
    BY <1>2, <2>1, OwnerStays
<1>10. CASE DropClose(t)
  <2>1. /\ UNCHANGED <<table, session, own>>
        /\ open' = open \ {session[object[t]]}
    BY <1>10 DEF DropClose, Closed
  <2>2. QED
    BY <1>2, <2>1, OwnerStays
<1>11. QED
  BY <1>3, <1>4, <1>5, <1>6, <1>7, <1>8, <1>9, <1>10 DEF TurnStep

(* The reaper and Close remember what they took out until it is closed.    *)
LEMMA OwnerReap ==
  ASSUME Typed, Known, EverySessionIsOwned, ReapStep
  PROVE  Known' /\ EverySessionIsOwned'
<1>1. /\ UNCHANGED <<session, starts, at, object, own>> /\ open' \subseteq open
  BY DEF ReapStep, Reap, ReapClose, ReapRevoke, Close, ReapFrame, turns, Closed
<1>2. Known'
  BY <1>1 DEF Known
<1>3. ASSUME NEW C \in SUBSET Chats, TakeOut(C), open' = open, expired = {},
             \A c \in C : table[c] # 0
      PROVE  EverySessionIsOwned'
  <2>1. ASSUME NEW s \in Registered
        PROVE  s \in Registered' \/ \E e \in expired' : session[e[2]] = s
    <3>1. PICK c \in Chats : table[c] # 0 /\ session[table[c]] = s
      BY DEF Registered
    <3>2. CASE c \in C
      <4>1. <<c, table[c]>> \in expired'
        BY <1>3, <3>2 DEF TakeOut
      <4>2. QED
        BY <3>1, <4>1
    <3>3. CASE c \notin C
      <4>1. table'[c] = table[c]
        BY <1>3, <3>3 DEF TakeOut
      <4>2. QED
        BY <1>1, <3>1, <4>1 DEF Registered
    <3>4. QED
      BY <3>2, <3>3
  <2>2. QED
    BY <1>1, <1>3, <2>1 DEF EverySessionIsOwned
<1>4. ASSUME NEW C \in SUBSET Chats, Reap(C) PROVE EverySessionIsOwned'
  BY <1>3, <1>4 DEF Reap, MayReap
<1>5. CASE Close
  <2> DEFINE C == {c \in Chats : table[c] # 0}
  <2>1. /\ TakeOut(C) /\ open' = open /\ expired = {}
        /\ C \in SUBSET Chats /\ \A c \in C : table[c] # 0
    BY <1>5 DEF Close
  <2> HIDE DEF C
  <2>2. QED
    BY <1>2, <1>3, <2>1
<1>6. CASE ReapClose
  <2>1. PICK e \in expired : open' = open \ {session[e[2]]} /\ expired' = expired \ {e}
    BY <1>6 DEF ReapClose, Closed
  <2>2. table' = table
    BY <1>6 DEF ReapClose
  <2>3. Registered' = Registered
    BY <1>1, <2>2 DEF Registered
  <2>4. ASSUME NEW s \in open', NEW f \in expired, session[f[2]] = s
        PROVE  f \in expired'
    BY <2>1, <2>4
  <2>5. QED
    BY <1>1, <1>2, <2>3, <2>4 DEF EverySessionIsOwned
<1>7. CASE ReapRevoke
  <2>1. UNCHANGED <<table, open, expired>>
    BY <1>7 DEF ReapRevoke
  <2>2. Registered' = Registered
    BY <1>1, <2>1 DEF Registered
  <2>3. QED
    BY <1>1, <1>2, <2>1, <2>2 DEF EverySessionIsOwned
<1>8. QED
  BY <1>2, <1>4, <1>5, <1>6, <1>7 DEF ReapStep

LEMMA OwnerNext ==
  Deleters = {} /\ Typed /\ Safe /\ Seated /\ Known /\ EverySessionIsOwned
    /\ [Next]_vars => Known' /\ EverySessionIsOwned'
<1> SUFFICES ASSUME Deleters = {}, Typed, Safe, Seated, Known,
                    EverySessionIsOwned, [Next]_vars
             PROVE  Known' /\ EverySessionIsOwned'
  OBVIOUS
<1>1. CASE UNCHANGED vars
  BY <1>1 DEF vars, Known, EverySessionIsOwned, Registered
<1>2. ASSUME NEW t \in Turns,
             \/ TurnStep(t) \/ Interrupt(t)
             \/ \E c \in Chats : Enter(t, c) \/ Create(t, c)
      PROVE  Known' /\ EverySessionIsOwned'
  <2>1. Only(t)
    BY <1>2, OnlyTurn
  <2>2. Known'
    BY <1>2, <2>1, KnownTurn DEF Safe
  <2>3. EverySessionIsOwned'
    BY <1>2, <2>1, OwnerTurn
  <2>4. QED
    BY <2>2, <2>3
<1>3. CASE ReapStep
  BY <1>3, OwnerReap
<1>4. QED
  BY <1>1, <1>2, <1>3 DEF Next, ReapStep

(* Where every conversation is stored from the start and nobody deletes,   *)
(* no provider process is ever forgotten, however requests that resume one *)
(* conversation, replacements of stale sessions and the reaper interleave. *)
THEOREM NoProcessForgotten ==
  ASSUME Deleters = {}, Stored = Chats
  PROVE  Spec => []EverySessionIsOwned
<1>1. Init => Seated /\ Known /\ EverySessionIsOwned
  BY DEF Init, Seated, Running, Known, Unstarted, EverySessionIsOwned
<1>2. Safe => Linked
  BY DEF Safe
<1>3. QED
  BY <1>1, <1>2, TypedInit, TypedNext, SafeInit, SafeNext, SeatedNext, OwnerNext, PTL
    DEF Spec
=============================================================================
