------------------------------ MODULE WorkQueue ------------------------------
(***************************************************************************)
(* What a background queue of RepoKarta promises, whatever list, set,      *)
(* signal channel or rerun mark it is made of: an item that a caller asks  *)
(* for is owed once the call has been accepted, even if a worker holds it  *)
(* just then; it stays owed until a worker takes it; a worker holds one    *)
(* item at a time; and nothing but a new start of the process forgets an   *)
(* item that is asked for, owed or held.                                   *)
(***************************************************************************)
EXTENDS Naturals

CONSTANTS Items,     \* what can be asked for
          Callers,   \* who asks
          Workers,   \* who does the work
          Exclusive  \* TRUE: no two workers hold the same item

VARIABLES asked,  \* the item each caller is asking for, as a set of at most one
          owed,   \* items that some worker has still to take
          busy,   \* the item each worker holds, as a set of at most one
          starts  \* how often the process was started again

vars == <<asked, owed, busy, starts>>

Init ==
  /\ asked = [c \in Callers |-> {}]
  /\ owed = {}
  /\ busy = [w \in Workers |-> {}]
  /\ starts = 0

Ask(c, i) ==
  /\ asked[c] = {}
  /\ asked' = [asked EXCEPT ![c] = {i}]
  /\ UNCHANGED <<owed, busy, starts>>

Accept(c) ==
  /\ asked[c] # {}
  /\ asked' = [asked EXCEPT ![c] = {}]
  /\ owed' = owed \cup asked[c]
  /\ UNCHANGED <<busy, starts>>

Take(w, i) ==
  /\ i \in owed
  /\ busy[w] = {}
  /\ Exclusive => \A v \in Workers : i \notin busy[v]
  /\ owed' = owed \ {i}
  /\ busy' = [busy EXCEPT ![w] = {i}]
  /\ UNCHANGED <<asked, starts>>

Finish(w) ==
  /\ busy[w] # {}
  /\ busy' = [busy EXCEPT ![w] = {}]
  /\ UNCHANGED <<asked, owed, starts>>

(* The process ends and starts again, with nothing in memory.              *)
Restart ==
  /\ starts' = starts + 1
  /\ asked' = [c \in Callers |-> {}]
  /\ owed' = {}
  /\ busy' = [w \in Workers |-> {}]

Next ==
  \/ \E c \in Callers, i \in Items : Ask(c, i)
  \/ \E c \in Callers : Accept(c)
  \/ \E w \in Workers, i \in Items : Take(w, i)
  \/ \E w \in Workers : Finish(w)
  \/ Restart

Spec == Init /\ [][Next]_vars
=============================================================================
