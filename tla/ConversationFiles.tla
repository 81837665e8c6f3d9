--------------------------- MODULE ConversationFiles ---------------------------
(***************************************************************************)
(* The images of stored conversations: a file per image beside the rows    *)
(* that refer to it.  AppendMessage writes the file inside the transaction *)
(* of its row, DeleteConversation removes files after its row is gone      *)
(* (store/store.go), and the cleanup of maintenance/maintenance.go removes *)
(* the files that no row refers to: it previews them, and plans again      *)
(* before it removes what was previewed.                                   *)
(*                                                                         *)
(* A message is an Append with one image; the file is named after the      *)
(* identifier of the row.  The content of a file, and with it its size and *)
(* its time, is the Append that wrote it.  SQLite has one writer at a time *)
(* and gives a new row the largest identifier plus one, whether a row had  *)
(* it before or not; PostgreSQL never gives an identifier twice, but may   *)
(* have done what it was asked to although no answer came back: the        *)
(* connection, or the context of the call, ended meanwhile.                *)
(***************************************************************************)
EXTENDS Integers, FiniteSets, FiniteSetsExt

CONSTANTS Backends,       \* configured databases: "sqlite" and "postgres"
          Conversations,  \* conversations that are stored
          Appends,        \* calls of AppendMessage
          Deletes,        \* calls of DeleteConversation
          Crashes         \* crashes of the process

ASSUME BackendAssumption == Backends \subseteq {"sqlite", "postgres"}
ASSUME AppendAssumption == IsFiniteSet(Appends)

VARIABLES
  backend,        \* Store.backend
  conversations,  \* rows of conversations
  rows,           \* committed rows of conversation_message_images
  sequence,       \* last identifier PostgreSQL gave
  files,          \* the conversation directory: name and content of each
  \* AppendMessage
  at, id,
  chat,           \* the conversation of each
  open,           \* appends whose transaction is open
  wrote,          \* appends with a file in writtenPaths
  unsure,         \* appends whose Commit failed for want of an answer
  \* DeleteConversation
  doing,
  target,         \* the conversation of each
  paths,          \* storagePaths
  \* the cleanup
  cleaning,       \* what it is doing
  live,           \* liveImages
  token,          \* the previewed items, with their size and time
  todo,           \* items of the plan that are still there
  checked,        \* the item that was looked at and is removed next
  \* what the properties remember
  seen,           \* appends under way when the preview was made ...
  missed,         \* ... and those when Execute read the references too
  robbed,         \* appends of both that lost their file to the cleanup
  crashed

append == <<at, chat, id, open, wrote, unsure>>
delete == <<doing, target, paths>>
cleanup == <<cleaning, live, token, todo, checked, seen, missed, robbed>>
vars == <<backend, conversations, rows, sequence, files,
          append, delete, cleanup, crashed>>

Ids == 1..Cardinality(Appends)

TypeOK ==
  /\ backend \in Backends
  /\ conversations \subseteq Conversations
  /\ rows \subseteq Appends
  /\ sequence \in Ids \cup {0}
  /\ files \subseteq Ids \X Appends
  /\ at \in [Appends -> {"idle", "write", "commit", "undo", "done"}]
  /\ chat \in [Appends -> Conversations]
  /\ id \in [Appends -> Ids \cup {0}]
  /\ open \subseteq Appends
  /\ wrote \subseteq Appends /\ unsure \subseteq Appends
  /\ doing \in [Deletes -> {"idle", "row", "files", "done"}]
  /\ target \in [Deletes -> Conversations]
  /\ paths \in [Deletes -> SUBSET Ids]
  /\ cleaning \in {"idle", "preview", "replan", "check", "unlink"}
  /\ live \subseteq Ids
  /\ token \subseteq Ids \X Appends
  /\ todo \subseteq Ids \X Appends /\ checked \subseteq Ids \X Appends
  /\ seen \subseteq Appends /\ missed \subseteq Appends /\ robbed \subseteq Appends
  /\ crashed \subseteq Crashes

-----------------------------------------------------------------------------
(* The database *)

\* Whether the connection of a call enforces foreign keys: OpenConfig says so
\* on one connection of the pool of SQLite, and PostgreSQL always does.
ForeignKeys == IF backend = "postgres" THEN {TRUE} ELSE BOOLEAN

ConversationImagePaths == {id[a] : a \in rows}

\* SQLite lets one transaction write; a foreign key makes PostgreSQL hold back
\* a delete while a row of the conversation is being inserted.
MayBegin == backend = "sqlite" => open = {}
MayDelete(c) == IF backend = "sqlite" THEN open = {} ELSE \A a \in open : chat[a] # c

\* Mutant: an identifier is left out.
NextIdSkips ==
  IF backend = "sqlite" THEN Max(ConversationImagePaths \cup {0}) + 2 ELSE sequence + 1
NextId ==
  IF backend = "sqlite" THEN Max(ConversationImagePaths \cup {0}) + 1 ELSE sequence + 1

\* The directory without the file of this name.
Without(i) == {file \in files : file[1] # i}

Running(a) == at[a] \notin {"idle", "done"}

-----------------------------------------------------------------------------
(* AppendMessage *)

Begin(a) ==
  /\ at[a] = "idle" /\ MayBegin
  /\ \E enforced \in ForeignKeys : enforced => chat[a] \in conversations
  /\ at' = [at EXCEPT ![a] = "write"]
  /\ id' = [id EXCEPT ![a] = NextId]
  /\ sequence' = IF backend = "sqlite" THEN 0 ELSE NextId
  /\ open' = open \cup {a}
  /\ UNCHANGED <<backend, conversations, rows, files, chat, wrote, unsure,
                 delete, cleanup, crashed>>

\* os.WriteFile, which a cancelled request does not stop.
Write(a) ==
  /\ at[a] = "write"
  /\ files' = Without(id[a]) \cup {<<id[a], a>>}
  /\ wrote' = wrote \cup {a}
  /\ at' = [at EXCEPT ![a] = "commit"]
  /\ UNCHANGED <<backend, conversations, rows, sequence, chat, id, open, unsure,
                 delete, cleanup, crashed>>

\* The file was written in part, or not at all: writtenPaths does not have it.
WriteFails(a) ==
  /\ at[a] = "write"
  /\ \E left \in BOOLEAN : files' = IF left THEN Without(id[a]) \cup {<<id[a], a>>} ELSE files
  /\ at' = [at EXCEPT ![a] = "undo"]
  /\ UNCHANGED <<backend, conversations, rows, sequence, chat, id, open, wrote, unsure,
                 delete, cleanup, crashed>>

\* The row of the image is inserted, and the transaction is committed.
Commit(a) ==
  /\ at[a] = "commit" /\ a \in open
  /\ rows' = rows \cup {a}
  /\ open' = open \ {a}
  /\ wrote' = wrote \ {a}
  /\ at' = [at EXCEPT ![a] = "done"]
  /\ UNCHANGED <<backend, conversations, sequence, files, chat, id, unsure,
                 delete, cleanup, crashed>>

\* PostgreSQL is asked to commit, and its answer does not arrive: for the
\* caller Commit failed, ...
CommitUnanswered(a) ==
  /\ at[a] = "commit" /\ a \in open /\ backend = "postgres"
  /\ unsure' = unsure \cup {a}
  /\ at' = [at EXCEPT ![a] = "undo"]
  /\ UNCHANGED <<backend, conversations, rows, sequence, files, chat, id, open, wrote,
                 delete, cleanup, crashed>>

\* ... but the row is stored, by then or later.
CommitLands(a) ==
  /\ a \in unsure /\ a \in open
  /\ rows' = rows \cup {a}
  /\ open' = open \ {a}
  /\ UNCHANGED <<backend, conversations, sequence, files, at, chat, id, wrote, unsure,
                 delete, cleanup, crashed>>

\* A statement fails, as every one does once the transaction is gone.
Fail(a) ==
  /\ at[a] = "commit"
  /\ at' = [at EXCEPT ![a] = "undo"]
  /\ UNCHANGED <<backend, conversations, rows, sequence, files, chat, id, open, wrote, unsure,
                 delete, cleanup, crashed>>

\* The transaction ends without its row: the deferred Rollback, a Commit that is
\* refused or never arrives, or the context, which ends it at any moment.
Rollback(a) ==
  /\ a \in open
  /\ open' = open \ {a}
  /\ UNCHANGED <<backend, conversations, rows, sequence, files, at, chat, id, wrote, unsure,
                 delete, cleanup, crashed>>

\* The deferred removal of writtenPaths.
Undo(a) ==
  /\ at[a] = "undo"
  /\ files' = IF a \in wrote THEN Without(id[a]) ELSE files
  /\ wrote' = wrote \ {a}
  /\ at' = [at EXCEPT ![a] = "done"]
  /\ UNCHANGED <<backend, conversations, rows, sequence, chat, id, open, unsure,
                 delete, cleanup, crashed>>

-----------------------------------------------------------------------------
(* DeleteConversation *)

\* Mutant: the images are not joined with the messages of the conversation.
ReadPathsUnjoined(d) ==
  /\ doing[d] = "idle"
  /\ doing' = [doing EXCEPT ![d] = "row"]
  /\ paths' = [paths EXCEPT ![d] = ConversationImagePaths]
  /\ UNCHANGED <<backend, conversations, rows, sequence, files, append, target, cleanup,
                 crashed>>
ReadPaths(d) ==
  /\ doing[d] = "idle"
  /\ doing' = [doing EXCEPT ![d] = "row"]
  /\ paths' = [paths EXCEPT ![d] = {id[a] : a \in {b \in rows : chat[b] = target[d]}}]
  /\ UNCHANGED <<backend, conversations, rows, sequence, files, append, target, cleanup,
                 crashed>>

\* ON DELETE CASCADE takes the rows of the messages where it is enforced.  When
\* the answer of PostgreSQL does not arrive, the call fails and removes no file.
DeleteRow(d) ==
  LET c == target[d] IN
  /\ doing[d] = "row" /\ c \in conversations /\ MayDelete(c)
  /\ conversations' = conversations \ {c}
  /\ \E enforced \in ForeignKeys :
       rows' = IF enforced THEN {a \in rows : chat[a] # c} ELSE rows
  /\ \E remove \in {paths[d]} \cup (IF backend = "postgres" THEN {{}} ELSE {}) :
       /\ paths' = [paths EXCEPT ![d] = remove]
       /\ doing' = [doing EXCEPT ![d] = IF remove = {} THEN "done" ELSE "files"]
  /\ UNCHANGED <<backend, sequence, files, append, target, cleanup, crashed>>

\* The statement fails, or finds no conversation.
DeleteFails(d) ==
  /\ doing[d] = "row"
  /\ doing' = [doing EXCEPT ![d] = "done"]
  /\ paths' = [paths EXCEPT ![d] = {}]
  /\ UNCHANGED <<backend, conversations, rows, sequence, files, append, target, cleanup,
                 crashed>>

DeleteFile(d) ==
  /\ doing[d] = "files"
  /\ \E i \in paths[d] :
       /\ files' = Without(i)
       /\ paths' = [paths EXCEPT ![d] = @ \ {i}]
       /\ doing' = [doing EXCEPT ![d] = IF paths[d] = {i} THEN "done" ELSE "files"]
  /\ UNCHANGED <<backend, conversations, rows, sequence, append, target, cleanup,
                 crashed>>

-----------------------------------------------------------------------------
(* The cleanup of the administrator *)

Cleanable == {item \in files : item[1] \notin live}

\* Inventory reads the references before it walks the directory.
PreviewRead ==
  /\ cleaning = "idle"
  /\ cleaning' = "preview"
  /\ live' = ConversationImagePaths
  /\ token' = {} /\ seen' = {}
  /\ UNCHANGED <<backend, conversations, rows, sequence, files, append, delete,
                 todo, checked, missed, robbed, crashed>>

PreviewScan ==
  /\ cleaning = "preview"
  /\ \E items \in SUBSET Cleanable :
       /\ token' = items
       /\ seen' = IF items = {} THEN {} ELSE {a \in Appends : Running(a)}
  /\ cleaning' = "idle" /\ live' = {}
  /\ UNCHANGED <<backend, conversations, rows, sequence, files, append, delete,
                 todo, checked, missed, robbed, crashed>>

\* Execute plans again, under mu.
ExecuteRead ==
  /\ cleaning = "idle" /\ token # {}
  /\ cleaning' = "replan"
  /\ live' = ConversationImagePaths
  /\ missed' = {a \in seen : Running(a)}
  /\ UNCHANGED <<backend, conversations, rows, sequence, files, append, delete,
                 token, todo, checked, seen, robbed, crashed>>

\* Mutant: the items are as they were, whatever refers to them by now.
ReplanUnread ==
  /\ cleaning = "replan" /\ token \subseteq files
  /\ cleaning' = "check" /\ todo' = token
  /\ token' = {} /\ live' = {} /\ seen' = {}
  /\ UNCHANGED <<backend, conversations, rows, sequence, files, append, delete,
                 checked, missed, robbed, crashed>>
\* The items are the ones of the preview, unchanged, and still cleanable.
Replan ==
  /\ cleaning = "replan" /\ token \subseteq Cleanable
  /\ cleaning' = "check" /\ todo' = token
  /\ token' = {} /\ live' = {} /\ seen' = {}
  /\ UNCHANGED <<backend, conversations, rows, sequence, files, append, delete,
                 checked, missed, robbed, crashed>>

\* removeExactFile looks at the file ...
CheckFile ==
  /\ cleaning = "check"
  /\ \E item \in todo \cap files : checked' = {item} /\ todo' = todo \ {item}
  /\ cleaning' = "unlink"
  /\ UNCHANGED <<backend, conversations, rows, sequence, files, append, delete,
                 live, token, seen, missed, robbed, crashed>>

\* ... and removes what has its name by then.
RemoveFile ==
  /\ cleaning = "unlink"
  /\ \E item \in checked :
       /\ files' = Without(item[1]) /\ files' # files
       /\ robbed' = robbed \cup {a \in missed : <<item[1], a>> \in files}
  /\ cleaning' = "check" /\ checked' = {}
  /\ UNCHANGED <<backend, conversations, rows, sequence, append, delete,
                 live, token, todo, seen, missed, crashed>>

\* All is done, the plan changed, an item is not what it was, or the request is over.
Stop ==
  /\ \/ cleaning \in {"replan", "check"}
     \/ cleaning = "unlink" /\ \A item \in checked : Without(item[1]) = files
  /\ cleaning' = "idle" /\ live' = {} /\ token' = {} /\ todo' = {} /\ checked' = {}
  /\ seen' = {} /\ missed' = {}
  /\ UNCHANGED <<backend, conversations, rows, sequence, files, append, delete,
                 robbed, crashed>>

-----------------------------------------------------------------------------
\* Transactions that are open are gone, unless PostgreSQL was asked to commit
\* them; the files are not; the key of the tokens is a new one.
Crash(k) ==
  /\ k \notin crashed
  /\ crashed' = crashed \cup {k}
  /\ at' = [a \in Appends |-> IF Running(a) THEN "done" ELSE at[a]]
  /\ open' = open \cap unsure /\ wrote' = {}
  /\ doing' = [d \in Deletes |-> IF doing[d] = "idle" THEN "idle" ELSE "done"]
  /\ paths' = [d \in Deletes |-> {}]
  /\ cleaning' = "idle" /\ live' = {} /\ token' = {} /\ todo' = {} /\ checked' = {}
  /\ seen' = {} /\ missed' = {}
  /\ UNCHANGED <<backend, conversations, rows, sequence, files, chat, id, unsure, target,
                 robbed>>

Init ==
  /\ backend \in Backends
  /\ conversations = Conversations
  /\ rows = {} /\ sequence = 0
  /\ files = {}
  /\ at = [a \in Appends |-> "idle"]
  /\ chat \in [Appends -> Conversations]
  /\ id = [a \in Appends |-> 0]
  /\ open = {} /\ wrote = {} /\ unsure = {}
  /\ doing = [d \in Deletes |-> "idle"]
  /\ target \in [Deletes -> Conversations]
  /\ paths = [d \in Deletes |-> {}]
  /\ cleaning = "idle" /\ live = {} /\ token = {} /\ todo = {} /\ checked = {}
  /\ seen = {} /\ missed = {} /\ robbed = {}
  /\ crashed = {}

Next ==
  \/ \E a \in Appends :
       Begin(a) \/ Write(a) \/ WriteFails(a) \/ Commit(a) \/ CommitUnanswered(a)
       \/ CommitLands(a) \/ Fail(a) \/ Rollback(a) \/ Undo(a)
  \/ \E d \in Deletes :
       ReadPaths(d) \/ DeleteRow(d) \/ DeleteFails(d) \/ DeleteFile(d)
  \/ PreviewRead \/ PreviewScan \/ ExecuteRead \/ Replan \/ CheckFile \/ RemoveFile \/ Stop
  \/ \E k \in Crashes : Crash(k)

Spec == Init /\ [][Next]_vars

-----------------------------------------------------------------------------
Reissued(a) == \E b \in Appends \ {a} : at[b] # "idle" /\ id[b] = id[a]


\* The deferred removal ran, or the process ended before it, and nobody knew
\* whether the row was stored.
Retracted(a) == a \in unsure /\ at[a] = "done"

(***************************************************************************)
(* A stored message can be read: the image of a committed row is there,    *)
(* whatever was appended, cancelled, deleted or cleaned up meanwhile.      *)
(* Three things are excepted: an append that was under way from before the *)
(* preview was made until after Execute had read the references; an        *)
(* identifier that SQLite gave to a second row; and a Commit that          *)
(* PostgreSQL carried out without its answer arriving, whose image the     *)
(* append itself has removed.                                              *)
(***************************************************************************)
Stored == {a \in rows : chat[a] \in conversations}
ImagesSurvive ==
  \A a \in Stored :
    <<id[a], a>> \in files \/ a \in robbed \/ Reissued(a) \/ Retracted(a)

(***************************************************************************)
(* DeleteConversation removes "only its exact RepoKarta-owned image files" *)
(* (the comment of store.go:1856): never the file that an append wrote for *)
(* another conversation.  Identifiers SQLite gave twice are excepted.      *)
(***************************************************************************)
DeletesOwnFiles ==
  [][\A d \in Deletes : \A i \in paths[d] \ paths'[d] :
       \A a \in Appends : <<i, a>> \in files /\ files' # files
         => chat[a] = target[d] \/ Reissued(a)]_vars

\* The two without the exception for SQLite.
OnlyItsFiles ==
  [][\A d \in Deletes : \A i \in paths[d] \ paths'[d] :
       \A a \in Appends : <<i, a>> \in files /\ files' # files => chat[a] = target[d]]_vars
AllImagesSurvive ==
  \A a \in Stored : <<id[a], a>> \in files \/ a \in robbed \/ Retracted(a)

\* "AppendMessage stores one transcript entry and its filesystem-backed images"
\* (store.go:1684): not without the exception for Commit.
StoredWithImages ==
  \A a \in Stored : <<id[a], a>> \in files \/ a \in robbed \/ Reissued(a)

\* "DeleteConversation removes the transcript" (store.go:1856).
TranscriptGoes == \A a \in rows : chat[a] \in conversations

=============================================================================
