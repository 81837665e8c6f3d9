---------------------------- MODULE Conversations ----------------------------
(***************************************************************************)
(* The live chats of agent.Manager: the table of conversations under mu,   *)
(* the provider session behind each of them, and the credential that       *)
(* mcpserver.TokenAuthority grants for its tool calls.                     *)
(*                                                                         *)
(* Turns are goroutines inside Send, Deleters goroutines inside            *)
(* DeleteConversation; one goroutine runs reapIdle, and at the end Close.  *)
(* Every critical section, atomic operation, store call and provider call  *)
(* is one step.                                                            *)
(*                                                                         *)
(* The n-th startConversation makes the object n, starts the session n and *)
(* is issued the credential n; 0 is none of them.  A turn that replaces    *)
(* its session keeps its object.                                           *)
(***************************************************************************)
EXTENDS Naturals, FiniteSets

CONSTANTS Chats,     \* conversation IDs
          NoChat,    \* not one of them
          Stored,    \* those whose transcript is stored at first
          Turns,     \* goroutines inside Send at once (bound)
          Deleters,  \* goroutines inside DeleteConversation at once (bound)
          MaxStarts  \* bound on sessions ever started

ASSUME StoredAssumption == Stored \subseteq Chats /\ NoChat \notin Chats
ASSUME StartsAssumption == MaxStarts \in Nat

VARIABLES
  rows,     \* conversations with a row in the store
  drawn,    \* conversation IDs that exist or existed
  table,    \* conversations: the object of each ID
  session,  \* the session of each object
  open,     \* sessions whose provider process runs
  restored, \* sessions that resumed a provider cursor
  grant,    \* TokenAuthority: the credential each ID has
  active,   \* objects whose active flag is set
  starting, \* holder of each start lock, as a set
  starts,   \* sessions started so far
  at, chat, object, \* of each turn: its step, its ID and its object
  own,      \* of each turn: a session nobody else knows of
  interrupted, \* turns that the user stopped
  doing, target, held, \* of each deleter: its step, ID and object
  expired,  \* what reapIdle or Close took and has still to close
  revoking, \* the ID whose credential it revokes next, as a set
  closed    \* Close was called

store == <<rows, drawn>>
sessions == <<session, open, restored, starts>>
turns == <<at, chat, object, own, interrupted>>
deleters == <<doing, target, held>>
reaper == <<expired, revoking, closed>>
vars == <<rows, drawn, table, session, open, restored, grant, active, starting,
          starts, at, chat, object, own, interrupted, doing, target, held, expired,
          revoking, closed>>

-----------------------------------------------------------------------------
Numbers == 1..MaxStarts

Locked == {"lookup", "issue", "start", "insert", "discard", "author"}
Running == {"turn", "restart", "stale"}
Claimed == Running \cup {"verify", "drop", "close", "revoke", "release"}

Init ==
  /\ rows = Stored
  /\ drawn = Stored
  /\ table = [c \in Chats |-> 0]
  /\ session = [o \in Numbers |-> 0]
  /\ open = {} /\ restored = {}
  /\ grant = [c \in Chats |-> 0]
  /\ active = {}
  /\ starting = [c \in Chats |-> {}]
  /\ starts = 0
  /\ at = [t \in Turns |-> "idle"]
  /\ chat = [t \in Turns |-> NoChat]
  /\ object = [t \in Turns |-> 0]
  /\ own = [t \in Turns |-> 0]
  /\ interrupted = {}
  /\ doing = [d \in Deleters |-> "idle"]
  /\ target = [d \in Deleters |-> NoChat]
  /\ held = [d \in Deleters |-> 0]
  /\ expired = {} /\ revoking = {}
  /\ closed = FALSE

-----------------------------------------------------------------------------
(* Steps of a turn *)

Goto(t, s) == at' = [at EXCEPT ![t] = s]
Know(t, c, o, n) ==
  /\ chat' = [chat EXCEPT ![t] = c]
  /\ object' = [object EXCEPT ![t] = o]
  /\ own' = [own EXCEPT ![t] = n]
Learn(t, o, n) == Know(t, chat[t], o, n)
Return(t) == Goto(t, "idle") /\ Know(t, NoChat, 0, 0)
Others == UNCHANGED <<interrupted, deleters, reaper>>

Unlocked(c) == [starting EXCEPT ![c] = {}]

(* Issue: the credential that the ID had before is revoked.                *)
Issue(c) ==
  /\ starts < MaxStarts
  /\ starts' = starts + 1
  /\ grant' = [grant EXCEPT ![c] = starts + 1]

Revoke(c) == grant' = [grant EXCEPT ![c] = 0]

(* conversation, for a request that names an ID: take its start lock.      *)
Enter(t, c) ==
  /\ ~closed
  /\ at[t] = "idle"
  /\ c \in drawn
  /\ starting[c] = {}
  /\ starting' = [starting EXCEPT ![c] = {t}]
  /\ Goto(t, "lookup")
  /\ Know(t, c, 0, 0)
  /\ UNCHANGED <<store, table, sessions, grant, active>>
  /\ Others

Lookup(t) ==
  /\ at[t] = "lookup"
  /\ \E c \in {chat[t]} :
       \/ /\ table[c] # 0
          /\ Learn(t, table[c], 0)
          /\ Goto(t, "author")
          /\ UNCHANGED starting
       \/ /\ table[c] = 0 /\ c \in rows
          /\ Goto(t, "issue")
          /\ UNCHANGED <<chat, object, own, starting>>
       \/ /\ table[c] = 0 /\ c \notin rows
          /\ Return(t)
          /\ starting' = Unlocked(c)
  /\ UNCHANGED <<store, table, sessions, grant, active>>
  /\ Others

(* startConversation for a stored transcript.                              *)
IssueToResume(t) ==
  /\ at[t] = "issue"
  /\ Issue(chat[t])
  /\ Learn(t, 0, starts + 1)
  /\ Goto(t, "start")
  /\ UNCHANGED <<store, table, session, open, restored, active, starting>>
  /\ Others

(* The conversation cannot be resumed: the author differs, the provider is *)
(* missing or not signed in, or no credential was issued.                  *)
Refuse(t) ==
  /\ at[t] = "issue"
  /\ Return(t)
  /\ starting' = Unlocked(chat[t])
  /\ UNCHANGED <<store, table, sessions, grant, active>>
  /\ Others

(* conversation, for a request that names none: draw an ID and start.      *)
Create(t, c) ==
  /\ ~closed
  /\ at[t] = "idle"
  /\ c \notin drawn
  /\ drawn' = drawn \cup {c}
  /\ Issue(c)
  /\ Know(t, c, 0, starts + 1)
  /\ Goto(t, "create")
  /\ UNCHANGED <<rows, table, session, open, restored, active, starting>>
  /\ Others

(* adapter.Start returns a session, which may have resumed the cursor.     *)
Start(t) ==
  /\ at[t] \in {"start", "create"}
  /\ session' = [session EXCEPT ![own[t]] = own[t]]
  /\ open' = open \cup {own[t]}
  /\ \/ UNCHANGED restored
     \/ at[t] = "start" /\ restored' = restored \cup {own[t]}
  /\ Goto(t, IF at[t] = "start" THEN "insert" ELSE "store")
  /\ UNCHANGED <<store, table, grant, active, starting, starts, chat, object, own>>
  /\ Others

StartFails(t) ==
  /\ at[t] \in {"start", "create"}
  /\ Revoke(chat[t])
  /\ starting' = IF at[t] = "start" THEN Unlocked(chat[t]) ELSE starting
  /\ Return(t)
  /\ UNCHANGED <<store, table, sessions, active>>
  /\ Others

(* Register the resumed conversation, or take the one that is there.       *)
Insert(t) ==
  /\ at[t] = "insert"
  /\ \E c \in {chat[t]} :
       IF table[c] = 0
         THEN /\ table' = [table EXCEPT ![c] = own[t]]
              /\ Learn(t, own[t], 0)
              /\ Goto(t, "author")
         ELSE /\ Learn(t, table[c], own[t])
              /\ Goto(t, "discard")
              /\ UNCHANGED table
  /\ UNCHANGED <<store, sessions, grant, active, starting>>
  /\ Others

Discard(t) ==
  /\ at[t] = "discard"
  /\ open' = open \ {own[t]}
  /\ Learn(t, object[t], 0)
  /\ Goto(t, "author")
  /\ UNCHANGED <<store, table, session, restored, starts, grant, active, starting>>
  /\ Others

(* The checks at the end of conversation: UpdateConversationAuthor finds   *)
(* the row, or the request is turned away.                                 *)
Author(t) ==
  /\ at[t] = "author"
  /\ starting' = Unlocked(chat[t])
  /\ \/ /\ chat[t] \in rows
        /\ Goto(t, "claim")
        /\ UNCHANGED <<chat, object, own>>
     \/ Return(t)
  /\ UNCHANGED <<store, table, sessions, grant, active>>
  /\ Others

(* CreateConversation; without a row the session is closed again, and its  *)
(* credential left to expire.                                              *)
StoreRow(t) ==
  /\ at[t] = "store"
  /\ \/ /\ rows' = rows \cup {chat[t]}
        /\ Goto(t, "register")
        /\ UNCHANGED <<open, chat, object, own>>
     \/ /\ open' = open \ {own[t]}
        /\ Return(t)
        /\ UNCHANGED rows
  /\ UNCHANGED <<drawn, table, session, restored, starts, grant, active, starting>>
  /\ Others

Register(t) ==
  /\ at[t] = "register"
  /\ table' = [table EXCEPT ![chat[t]] = own[t]]
  /\ Learn(t, own[t], 0)
  /\ Goto(t, "claim")
  /\ UNCHANGED <<store, sessions, grant, active, starting>>
  /\ Others

\* Mutants of MayClaim and Verified.
ClaimsAlways(o) == TRUE
TrustsLookup(t) == object[t] # 0

(* The CompareAndSwap of active.                                           *)
MayClaim(o) == o \notin active

(* The object is still the one in the table.                               *)
Verified(t) == table[chat[t]] = object[t]

Claim(t) ==
  /\ at[t] = "claim"
  /\ \/ /\ MayClaim(object[t])
        /\ active' = active \cup {object[t]}
        /\ Goto(t, "verify")
        /\ UNCHANGED <<chat, object, own>>
     \/ /\ ~MayClaim(object[t])
        /\ Return(t)
        /\ UNCHANGED active
  /\ UNCHANGED <<store, table, sessions, grant, starting>>
  /\ Others

Verify(t) ==
  /\ at[t] = "verify"
  /\ Goto(t, IF Verified(t) THEN "turn" ELSE "release")
  /\ UNCHANGED <<store, table, sessions, grant, active, starting, chat, object, own>>
  /\ Others

(* The turn is over and its session stays: it completed, was interrupted,  *)
(* or a message could not be stored or forwarded.                          *)
EndTurn(t) ==
  /\ at[t] = "turn"
  /\ Goto(t, "release")
  /\ UNCHANGED <<store, table, sessions, grant, active, starting, chat, object, own>>
  /\ Others

(* The turn failed in a way that drops its session: the provider failed,   *)
(* the timeout passed, or the first or the last event was not delivered.   *)
FailTurn(t) ==
  /\ at[t] = "turn"
  /\ Goto(t, "drop")
  /\ UNCHANGED <<store, table, sessions, grant, active, starting, chat, object, own>>
  /\ Others

(* A session that resumed a cursor returns any error before it answered    *)
(* anything: start another one without the cursor.                         *)
IssueToReplace(t) ==
  /\ at[t] = "turn"
  /\ session[object[t]] \in restored
  /\ Issue(chat[t])
  /\ Learn(t, object[t], starts + 1)
  /\ Goto(t, "restart")
  /\ UNCHANGED <<store, table, session, open, restored, active, starting>>
  /\ Others

Replace(t) ==
  /\ at[t] = "restart"
  /\ session' = [session EXCEPT ![object[t]] = own[t]]
  /\ open' = open \cup {own[t]}
  /\ Learn(t, object[t], session[object[t]])
  /\ Goto(t, "stale")
  /\ UNCHANGED <<store, table, restored, starts, grant, active, starting>>
  /\ Others

ReplaceFails(t) ==
  /\ at[t] = "restart"
  /\ Revoke(chat[t])
  /\ Learn(t, object[t], 0)
  /\ Goto(t, "drop")
  /\ UNCHANGED <<store, table, sessions, active, starting>>
  /\ Others

CloseStale(t) ==
  /\ at[t] = "stale"
  /\ open' = open \ {own[t]}
  /\ Learn(t, object[t], 0)
  /\ Goto(t, "turn")
  /\ UNCHANGED <<store, table, session, restored, starts, grant, active, starting>>
  /\ Others

(* dropConversation: leave the table, close the session, revoke the        *)
(* credential of the ID.                                                   *)
Drop(t) ==
  /\ at[t] = "drop"
  /\ table' = IF Verified(t) THEN [table EXCEPT ![chat[t]] = 0] ELSE table
  /\ Goto(t, "close")
  /\ UNCHANGED <<store, sessions, grant, active, starting, chat, object, own>>
  /\ Others

\* Mutant of Closed.
ForgetsProcess(s) == open

Closed(s) == open \ {s}

DropClose(t) ==
  /\ at[t] = "close"
  /\ open' = Closed(session[object[t]])
  /\ Goto(t, "revoke")
  /\ UNCHANGED <<store, table, session, restored, starts, grant, active, starting,
                 chat, object, own>>
  /\ Others

DropRevoke(t) ==
  /\ at[t] = "revoke"
  /\ Revoke(chat[t])
  /\ Goto(t, "release")
  /\ UNCHANGED <<store, table, sessions, active, starting, chat, object, own>>
  /\ Others

(* The deferred Store of active, and the return from Send.                 *)
Release(t) ==
  /\ at[t] = "release"
  /\ active' = active \ {object[t]}
  /\ interrupted' = interrupted \ {t}
  /\ Return(t)
  /\ UNCHANGED <<store, table, sessions, grant, starting, deleters, reaper>>

(* Interrupt finds the active turn in the table and asks its session to    *)
(* stop, so that the Send of the session returns ErrInterrupted.  Its      *)
(* three reads are one step here.                                          *)
Interrupt(t) ==
  /\ at[t] = "turn"
  /\ Verified(t)
  /\ interrupted' = interrupted \cup {t}
  /\ UNCHANGED <<store, table, sessions, grant, active, starting, at, chat, object,
                 own, deleters, reaper>>

-----------------------------------------------------------------------------
(* DeleteConversation *)

DeleteFrame == UNCHANGED <<sessions, active, starting, turns, reaper>>
DeleteGoto(d, s) ==
  doing' = [doing EXCEPT ![d] = s] /\ UNCHANGED <<target, held>>
DeleteReturn(d) ==
  /\ doing' = [doing EXCEPT ![d] = "idle"]
  /\ target' = [target EXCEPT ![d] = NoChat]
  /\ held' = [held EXCEPT ![d] = 0]

(* Under mu: take the object of the ID out of the table.                   *)
DeleteRemove(d, c) ==
  /\ ~closed
  /\ doing[d] = "idle"
  /\ c \in drawn
  /\ table' = [table EXCEPT ![c] = 0]
  /\ doing' = [doing EXCEPT ![d] = IF table[c] = 0 THEN "revoke" ELSE "check"]
  /\ target' = [target EXCEPT ![d] = c]
  /\ held' = [held EXCEPT ![d] = table[c]]
  /\ UNCHANGED <<store, grant>>
  /\ DeleteFrame

DeleteCheck(d) ==
  /\ doing[d] = "check"
  /\ DeleteGoto(d, IF held[d] \in active THEN "putback" ELSE "close")
  /\ UNCHANGED <<store, table, grant>>
  /\ DeleteFrame

(* A turn is active: put the object back and refuse to delete.             *)
DeletePutBack(d) ==
  /\ doing[d] = "putback"
  /\ table' = [table EXCEPT ![target[d]] = held[d]]
  /\ DeleteReturn(d)
  /\ UNCHANGED <<store, grant>>
  /\ DeleteFrame

DeleteClose(d) ==
  /\ doing[d] = "close"
  /\ open' = Closed(session[held[d]])
  /\ DeleteGoto(d, "revoke")
  /\ UNCHANGED <<store, table, session, restored, starts, grant, active, starting,
                 turns, reaper>>

DeleteRevoke(d) ==
  /\ doing[d] = "revoke"
  /\ Revoke(target[d])
  /\ DeleteGoto(d, "row")
  /\ UNCHANGED <<store, table>>
  /\ DeleteFrame

(* The store deletes the row, or reports that it could not.                *)
DeleteRow(d) ==
  /\ doing[d] = "row"
  /\ \E gone \in {{}, {target[d]}} : rows' = rows \ gone
  /\ DeleteReturn(d)
  /\ UNCHANGED <<drawn, table, grant>>
  /\ DeleteFrame

-----------------------------------------------------------------------------
(* reapIdle and Close *)

ReapFrame == UNCHANGED <<store, restored, session, starts, active, starting, turns,
                         deleters>>

\* Mutant of MayReap.
ReapsActive(c) == table[c] # 0

(* An object that no turn has claimed; how long it was idle is left open.  *)
MayReap(c) == table[c] # 0 /\ table[c] \notin active

TakeOut(C) ==
  /\ expired' = {<<c, table[c]>> : c \in C}
  /\ table' = [c \in Chats |-> IF c \in C THEN 0 ELSE table[c]]

Reap(C) ==
  /\ ~closed
  /\ expired = {} /\ revoking = {}
  /\ C # {}
  /\ \A c \in C : MayReap(c)
  /\ TakeOut(C)
  /\ UNCHANGED <<open, grant, revoking, closed>>
  /\ ReapFrame

ReapClose ==
  /\ revoking = {}
  /\ \E e \in expired :
       /\ open' = Closed(session[e[2]])
       /\ expired' = expired \ {e}
       /\ revoking' = {e[1]}
  /\ UNCHANGED <<table, grant, closed>>
  /\ ReapFrame

ReapRevoke ==
  /\ \E c \in revoking : Revoke(c)
  /\ revoking' = {}
  /\ UNCHANGED <<table, open, expired, closed>>
  /\ ReapFrame

(* Close, after the HTTP server has waited for its requests.               *)
Close ==
  /\ ~closed
  /\ closed' = TRUE
  /\ expired = {} /\ revoking = {}
  /\ \A t \in Turns : at[t] = "idle"
  /\ \A d \in Deleters : doing[d] = "idle"
  /\ TakeOut({c \in Chats : table[c] # 0})
  /\ UNCHANGED <<open, grant, revoking>>
  /\ ReapFrame

-----------------------------------------------------------------------------
TurnStep(t) ==
  \/ Lookup(t) \/ IssueToResume(t) \/ Refuse(t) \/ Start(t) \/ StartFails(t)
  \/ Insert(t) \/ Discard(t) \/ Author(t) \/ StoreRow(t) \/ Register(t)
  \/ Claim(t) \/ Verify(t) \/ EndTurn(t) \/ FailTurn(t)
  \/ IssueToReplace(t) \/ Replace(t) \/ ReplaceFails(t) \/ CloseStale(t)
  \/ Drop(t) \/ DropClose(t) \/ DropRevoke(t) \/ Release(t)

DeleteStep(d) ==
  \/ DeleteCheck(d) \/ DeletePutBack(d) \/ DeleteClose(d) \/ DeleteRevoke(d)
  \/ DeleteRow(d)

Next ==
  \/ \E t \in Turns, c \in Chats : Enter(t, c) \/ Create(t, c)
  \/ \E t \in Turns : TurnStep(t) \/ Interrupt(t)
  \/ \E d \in Deleters, c \in Chats : DeleteRemove(d, c)
  \/ \E d \in Deleters : DeleteStep(d)
  \/ \E C \in SUBSET Chats : Reap(C)
  \/ ReapClose \/ ReapRevoke \/ Close

Spec == Init /\ [][Next]_vars

(* Goroutines are scheduled, and calls of a provider or of the store       *)
(* return: every turn has a timeout.  Nobody has to send, delete or reap.  *)
FairSpec ==
  /\ Spec
  /\ \A t \in Turns : WF_vars(TurnStep(t))
  /\ \A d \in Deleters : WF_vars(DeleteStep(d))
  /\ WF_vars(ReapClose \/ ReapRevoke)

-----------------------------------------------------------------------------
TypeOK ==
  /\ rows \subseteq drawn /\ drawn \subseteq Chats
  /\ table \in [Chats -> 0..MaxStarts]
  /\ session \in [Numbers -> 0..MaxStarts]
  /\ open \subseteq Numbers /\ restored \subseteq Numbers
  /\ grant \in [Chats -> 0..MaxStarts]
  /\ active \subseteq Numbers
  /\ starts \in 0..MaxStarts
  /\ at \in [Turns -> Locked \cup Claimed
                        \cup {"idle", "create", "store", "register", "claim"}]
  /\ chat \in [Turns -> Chats \cup {NoChat}]
  /\ object \in [Turns -> 0..MaxStarts]
  /\ own \in [Turns -> 0..MaxStarts]
  /\ interrupted \subseteq Turns
  /\ doing \in [Deleters -> {"idle", "check", "putback", "close", "revoke", "row"}]
  /\ target \in [Deleters -> Chats \cup {NoChat}]
  /\ held \in [Deleters -> 0..MaxStarts]
  /\ expired \subseteq Chats \X Numbers
  /\ revoking \subseteq Chats
  /\ closed \in BOOLEAN
  /\ starting = [c \in Chats |-> {t \in Turns : chat[t] = c /\ at[t] \in Locked}]

(* No two turns talk to the same provider session, so what it streams goes *)
(* to the turn that asked (active, and the start lock of conversation).    *)
OneTurnPerSession ==
  \A t, u \in Turns :
    (at[t] \in Running /\ at[u] \in Running
       /\ session[object[t]] = session[object[u]]) => t = u

(* No two turns of one conversation run at once: "conversation already has *)
(* an active turn".                                                        *)
OneTurn ==
  \A t, u \in Turns :
    (at[t] \in Running /\ at[u] \in Running /\ chat[t] = chat[u]) => t = u

(* Neither the reaper nor another turn closes the session of a running     *)
(* turn: Send claims the object before it looks at the table again, and    *)
(* reapIdle looks at the claim before it takes the object out.             *)
TurnKeepsSession ==
  \A t \in Turns : at[t] \in Running => session[object[t]] \in open

Registered == {session[table[c]] : c \in {d \in Chats : table[d] # 0}}

(* No provider process is forgotten: it belongs to a registered            *)
(* conversation, or a goroutine that knows it has still to register it or  *)
(* to close it.                                                            *)
EverySessionIsOwned ==
  \A s \in open :
    \/ s \in Registered
    \/ \E t \in Turns : own[t] = s
    \/ \E t \in Turns : at[t] = "close" /\ session[object[t]] = s
    \/ \E e \in expired : session[e[2]] = s

(* A session that no conversation in the table has is closed in the end,   *)
(* or registered.                                                          *)
LeftoverIsClosed ==
  \A s \in Numbers :
    (s \in open /\ s \notin Registered) ~> (s \notin open \/ s \in Registered)

(* tokens.go: "independently revocable credentials for provider sessions". *)
(* While a turn runs, the credential of its conversation is the one that   *)
(* its session was started with.                                           *)
TurnHasCredential ==
  \A t \in Turns : at[t] = "turn" => grant[chat[t]] = session[object[t]]

(* "cannot delete a conversation while a turn is active".                  *)
TurnKeepsTranscript ==
  \A t \in Turns : at[t] = "turn" => chat[t] \in rows

(* "Interrupt stops the active provider turn": a turn that was stopped is  *)
(* not sent to another session.                                            *)
InterruptStops ==
  \A t \in Turns : t \in interrupted => at[t] # "restart"

(* "Close releases every running provider subprocess."                     *)
CloseReleasesAll ==
  (closed /\ expired = {}) => open = {}
=============================================================================
