------------------------------- MODULE WikiDocs -------------------------------
(***************************************************************************)
(* The deep wiki of one repository (docs/docs.go): the manifest with the   *)
(* survey and the pages, their Markdown files, the pages that are active   *)
(* in this process, and the requests that plan (Plan, Page and Export, at  *)
(* any time) and generate (Generate, one at a time).                       *)
(*                                                                         *)
(* A revision stands for a commit, 0 for none; the text of a page or of    *)
(* the survey is the revision it was written for.  What a diff says of a   *)
(* page is chosen freely.  The manifest is read and replaced under mu,     *)
(* which one of the writers, savePlan, keeps for a second step.            *)
(***************************************************************************)
EXTENDS Naturals

CONSTANTS Generators, \* goroutines in Generate
          Readers,    \* goroutines in Plan, Page or Export
          Slugs,      \* pages a plan may have
          Bootstrap,  \* bootstrapPageSpecs
          Asked,      \* the requests for Generate
          MaxHead,    \* bound: commits
          MaxRuns,    \* bound: calls of Generate
          MaxReads,   \* bound: calls of Plan, Page and Export
          MaxCrashes  \* bound

ASSUME BootstrapAssumption == Bootstrap \in Slugs
ASSUME BoundAssumption ==
  MaxHead \in Nat \ {0} /\ MaxRuns \in Nat /\ MaxReads \in Nat /\ MaxCrashes \in Nat

Survey == "__survey__"
None == "none"
ASSUME NamesAssumption ==
  {Survey, None} \cap Slugs = {} /\ None \notin Generators /\ Generators \cap Readers = {}

VARIABLES
  head,     \* revision of the structural snapshot that was read last
  survey,   \* manifest.Survey
  pages,    \* manifest.Pages
  text,     \* revision of the Markdown of the survey and of each page
  active,   \* activePages
  holder,   \* who holds the generation lock
  at,       \* program counters
  back,     \* where plan returns to
  site,     \* the Site a request works on
  todo,     \* pages it has still to look at
  page,     \* the page it is at
  request,  \* GenerateRequest: the page, or None for all, Refresh, and
            \* whether only the survey or only the plan is wanted
  count     \* bounds: runs, reads and crashes so far

disk == <<survey, pages, text>>
local == <<back, site, todo, page, request>>
vars == <<head, disk, active, holder, at, local, count>>

Requests == Generators \cup Readers
Revisions == 0..MaxHead
NoPage == [status |-> None, revision |-> 0, plan |-> 0]
NoSurvey == [status |-> None, revision |-> 0]
NoSite == [revision |-> 0, survey |-> NoSurvey, pages |-> [s \in Slugs |-> NoPage]]
NoRequest == [page |-> None, refresh |-> FALSE, only |-> "pages"]
GenerateRequests ==
  [page : Slugs \cup {None}, refresh : BOOLEAN, only : {"pages", "plan", "survey"}]
ASSUME AskedAssumption == Asked \subseteq GenerateRequests

Init ==
  /\ head = 1
  /\ survey = NoSurvey
  /\ pages = [s \in Slugs |-> NoPage]
  /\ text = [s \in Slugs \cup {Survey} |-> 0]
  /\ active = {}
  /\ holder = None
  /\ at = [p \in Requests |-> "idle"]
  /\ back = [p \in Requests |-> "idle"]
  /\ site = [p \in Requests |-> NoSite]
  /\ todo = [p \in Requests |-> {}]
  /\ page = [p \in Requests |-> None]
  /\ request = [p \in Requests |-> NoRequest]
  /\ count = [runs |-> 0, reads |-> 0, crashes |-> 0]

Goto(p, label) == at' = [at EXCEPT ![p] = label]

\* Mutant: savePlan gives mu back before it removes.
UnlockedEarly == TRUE
\* Nobody is inside mu, between the two steps of savePlan.
Unlocked == \A g \in Generators : at[g] # "removeTexts"

Crash ==
  /\ count.crashes < MaxCrashes
  /\ count' = [count EXCEPT !.crashes = @ + 1]
  /\ active' = {}
  /\ holder' = None
  /\ at' = [p \in Requests |-> "idle"]
  /\ back' = [p \in Requests |-> "idle"]
  /\ site' = [p \in Requests |-> NoSite]
  /\ todo' = [p \in Requests |-> {}]
  /\ page' = [p \in Requests |-> None]
  /\ request' = [p \in Requests |-> NoRequest]
  /\ UNCHANGED <<head, disk>>

-----------------------------------------------------------------------------
(* plan.                                                                   *)

(* RepositoryByID, the structural snapshot and the steering file; nothing  *)
(* else reads the revision, so this is where commits appear.               *)
SnapshotRead(p) ==
  /\ head' \in head..MaxHead
  /\ site' = [site EXCEPT ![p] = [NoSite EXCEPT !.revision = head']]
  /\ Goto(p, "load")

Read(r) ==
  /\ at[r] = "idle"
  /\ count.reads < MaxReads
  /\ count' = [count EXCEPT !.reads = @ + 1]
  /\ SnapshotRead(r)
  /\ UNCHANGED <<disk, active, holder, back, todo, page, request>>

Snapshot(p) ==
  /\ at[p] = "snapshot"
  /\ SnapshotRead(p)
  /\ UNCHANGED <<disk, active, holder, back, todo, page, request, count>>

(* The plan a reader is shown: the one for its revision, or else that of   *)
(* the page updated last; without any, the bootstrap page.                 *)
PlanChosen(revision) ==
  LET plans == {pages[s].plan : s \in Slugs} \ {0}
  IN  IF revision \in plans THEN {revision} ELSE IF plans = {} THEN {0} ELSE plans
Selected(plan) ==
  IF plan = 0 THEN {Bootstrap} ELSE {s \in Slugs : pages[s].plan = plan}

(* What becomes of a page: a new one is planned, one that nobody generates *)
(* was interrupted, one of another revision is stale if the diff says so.  *)
Examined(q, s, revision, changed) ==
  CASE q.status = None -> [q EXCEPT !.status = "planned"]
    [] q.status = "generating" /\ s \notin active -> [q EXCEPT !.status = "error"]
    [] q.status \in {"ready", "stale"} /\ q.revision \notin {0, revision} ->
         [q EXCEPT !.status = IF changed THEN "stale" ELSE "ready"]
    [] OTHER -> q

(* Whatever is active, other pages stay as they are.                       *)
MayChange(q, revision) ==
  \/ q.status \in {None, "generating"}
  \/ q.status \in {"ready", "stale"} /\ q.revision \notin {0, revision}

(* A reader forgets what it is done with.                                  *)
Kept(p, x, slugs) ==
  IF back[p] # "idle" THEN x
  ELSE [x EXCEPT !.pages = [s \in Slugs |-> IF s \in slugs THEN x.pages[s] ELSE NoPage],
                 !.survey = IF @.status = "generating" THEN @ ELSE NoSurvey]

(* loadManifest; what follows works on this copy.                          *)
Load(p) ==
  /\ at[p] = "load" /\ Unlocked
  /\ \E plan \in PlanChosen(site[p].revision) :
       LET copy == [site[p] EXCEPT !.survey = survey,
                      !.pages = [s \in Slugs |-> IF s \in Selected(plan) THEN pages[s] ELSE NoPage]]
           due == {s \in Selected(plan) : MayChange(copy.pages[s], copy.revision)}
       IN  /\ site' = [site EXCEPT ![p] = Kept(p, copy, due)]
           /\ todo' = [todo EXCEPT ![p] = due]
  /\ Goto(p, IF survey.status = "generating" THEN "recover" ELSE "examine")
  /\ UNCHANGED <<head, disk, active, holder, back, page, request, count>>

(* A survey under generation that no goroutine of this process generates   *)
(* was interrupted.                                                        *)
Recover(p) ==
  /\ at[p] = "recover"
  /\ IF Survey \in active
       THEN /\ site' = [site EXCEPT ![p].survey = IF back[p] = "idle" THEN NoSurvey ELSE @]
            /\ Goto(p, "examine")
       ELSE /\ site' = [site EXCEPT ![p].survey.status = "error"]
            /\ Goto(p, "saveSurvey")
  /\ UNCHANGED <<head, disk, active, holder, back, todo, page, request, count>>

SaveSurvey(p) ==
  /\ at[p] = "saveSurvey" /\ Unlocked
  /\ survey' = site[p].survey
  /\ site' = [site EXCEPT ![p].survey = IF back[p] = "idle" THEN NoSurvey ELSE @]
  /\ Goto(p, "examine")
  /\ UNCHANGED <<head, pages, text, active, holder, back, todo, page, request, count>>

Examine(p) ==
  /\ at[p] = "examine"
  /\ \E s \in todo[p], changed \in BOOLEAN :
       LET q == Examined(site[p].pages[s], s, site[p].revision, changed)
           rest == todo[p] \ {s}
       IN  /\ todo' = [todo EXCEPT ![p] = rest]
           /\ IF q = site[p].pages[s]
                THEN /\ site' = [site EXCEPT ![p] = Kept(p, @, rest)]
                     /\ UNCHANGED <<page, at>>
                ELSE /\ site' = [site EXCEPT ![p].pages[s] = q]
                     /\ page' = [page EXCEPT ![p] = s]
                     /\ Goto(p, "savePage")
  /\ UNCHANGED <<head, disk, active, holder, back, request, count>>

(* savePage puts the copy over whatever the manifest says by now.          *)
SavePage(p) ==
  /\ at[p] = "savePage" /\ Unlocked
  /\ pages' = [pages EXCEPT ![page[p]] = site[p].pages[page[p]]]
  /\ page' = [page EXCEPT ![p] = None]
  /\ site' = [site EXCEPT ![p] = Kept(p, @, todo[p])]
  /\ Goto(p, "examine")
  /\ UNCHANGED <<head, survey, text, active, holder, back, todo, request, count>>

(* A reader has its answer and forgets it.                                 *)
PlanEnds(p) ==
  /\ at[p] = "examine"
  /\ todo[p] = {}
  /\ Goto(p, back[p])
  /\ site' = IF back[p] = "idle" THEN [site EXCEPT ![p] = NoSite] ELSE site
  /\ UNCHANGED <<head, disk, active, holder, back, todo, page, request, count>>

(* Also the second Snapshot of Generate.                                   *)
PlanFails(p) ==
  /\ at[p] \in {"snapshot", "load", "saveSurvey", "savePage", "survey"}
  /\ Goto(p, IF back[p] = "idle" THEN "idle" ELSE "unlock")
  /\ site' = [site EXCEPT ![p] = NoSite]
  /\ todo' = [todo EXCEPT ![p] = {}]
  /\ page' = [page EXCEPT ![p] = None]
  /\ UNCHANGED <<head, disk, active, holder, back, request, count>>

Plan(p) ==
  \/ Snapshot(p) \/ Load(p) \/ Recover(p) \/ SaveSurvey(p)
  \/ Examine(p) \/ SavePage(p) \/ PlanEnds(p) \/ PlanFails(p)

-----------------------------------------------------------------------------
(* Generate.                                                               *)

SurveyReady(x) == x.survey.status = "ready" /\ x.survey.revision # 0
SurveyStale(x) == SurveyReady(x) /\ x.survey.revision # x.revision
PlanReady(x) == \E s \in Slugs : x.pages[s].plan # 0
PlanStale(x) == PlanReady(x) /\ \A s \in Slugs : x.pages[s].plan # x.revision

Generate(g) ==
  /\ at[g] = "idle"
  /\ \E q \in Asked : request' = [request EXCEPT ![g] = q]
  /\ count.runs < MaxRuns
  /\ count' = [count EXCEPT !.runs = @ + 1]
  /\ Goto(g, "lock")
  /\ UNCHANGED <<head, disk, active, holder, back, site, todo, page>>

Lock(g) ==
  /\ at[g] = "lock"
  /\ holder = None
  /\ holder' = g
  /\ back' = [back EXCEPT ![g] = "survey"]
  /\ Goto(g, "snapshot")
  /\ UNCHANGED <<head, disk, active, site, todo, page, request, count>>

(* shouldGenerateSurvey.                                                   *)
WantsSurvey(q, x) ==
  \/ ~SurveyReady(x)
  \/ SurveyStale(x) /\ (q.refresh \/ q.page # None)
  \/ q.page = None /\ q.refresh /\ q.only = "survey"

WantsPlan(q, x) ==
  \/ ~PlanReady(x)
  \/ q.page = None /\ q.refresh /\ (PlanStale(x) \/ q.only = "plan")

(* Marks what g is about to generate as under way.                         *)
Marked(g, s) ==
  /\ page' = [page EXCEPT ![g] = s]
  /\ active' = active \cup {s}
  /\ Goto(g, "begin")

StartSurvey(g) ==
  /\ at[g] = "survey"
  /\ WantsSurvey(request[g], site[g])
  /\ site' = [site EXCEPT ![g].survey =
                [status |-> "generating", revision |-> site[g].revision]]
  /\ Marked(g, Survey)
  /\ UNCHANGED <<head, disk, holder, back, todo, request, count>>

SkipSurvey(g) ==
  /\ at[g] = "survey"
  /\ ~WantsSurvey(request[g], site[g])
  /\ Goto(g, CASE request[g].only = "survey" -> "unlock"
                [] WantsPlan(request[g], site[g]) -> "replan"
                [] request[g].only = "plan" -> "unlock"
                [] OTHER -> "targets")
  /\ UNCHANGED <<head, disk, active, holder, local, count>>

(* generateKnowledgePlan: the provider answers with the pages of the wiki. *)
(* A page that stays keeps its text and its revision.                      *)
Planned(x, s) ==
  [status |-> IF x.pages[s] = NoPage THEN "planned" ELSE x.pages[s].status,
   revision |-> x.pages[s].revision, plan |-> x.revision]

(* The superseded pages are removed before the plan is saved.              *)
ReplanRemoves(g) ==
  /\ at[g] = "replan"
  /\ text[Survey] # 0
  /\ \E chosen \in SUBSET Slugs :
       /\ Bootstrap \in chosen
       /\ site' = [site EXCEPT ![g].pages = [s \in Slugs |->
                     IF s \in chosen THEN Planned(site[g], s) ELSE NoPage]]
       /\ text' = [s \in DOMAIN text |-> IF s \in Slugs \ chosen THEN 0 ELSE text[s]]
  /\ Goto(g, "savePlan")
  /\ UNCHANGED <<head, survey, pages, active, holder, back, todo, page, request, count>>

Replan(g) ==
  /\ at[g] = "replan"
  /\ text[Survey] # 0
  /\ \E chosen \in SUBSET Slugs :
       /\ Bootstrap \in chosen
       /\ site' = [site EXCEPT ![g].pages = [s \in Slugs |->
                     IF s \in chosen THEN Planned(site[g], s) ELSE NoPage]]
  /\ Goto(g, "savePlan")
  /\ UNCHANGED <<head, disk, active, holder, back, todo, page, request, count>>

(* savePlan: the manifest has the new pages and no others, ...             *)
SavePlan(g) ==
  /\ at[g] = "savePlan"
  /\ pages' = site[g].pages
  /\ todo' = [todo EXCEPT ![g] =
                {s \in Slugs : pages[s] # NoPage /\ site[g].pages[s] = NoPage}]
  /\ Goto(g, "removeTexts")
  /\ UNCHANGED <<head, survey, text, active, holder, back, site, page, request, count>>

(* ... and then the texts of the pages that are gone are removed; one that *)
(* cannot be is left behind.                                               *)
RemoveTexts(g) ==
  /\ at[g] = "removeTexts"
  /\ \E removed \in SUBSET todo[g] :
       text' = [s \in DOMAIN text |-> IF s \in removed THEN 0 ELSE text[s]]
  /\ todo' = [todo EXCEPT ![g] = {}]
  /\ back' = [back EXCEPT ![g] = IF request[g].only = "plan" THEN "unlock" ELSE "targets"]
  /\ Goto(g, "snapshot")
  /\ UNCHANGED <<head, survey, pages, active, holder, site, page, request, count>>

ReplanFails(g) ==
  /\ at[g] \in {"replan", "savePlan"}
  /\ Goto(g, "unlock")
  /\ UNCHANGED <<head, disk, active, holder, local, count>>

IsTarget(q, x, s) ==
  /\ x.pages[s] # NoPage
  /\ IF q.page = None
       THEN q.refresh \/ x.pages[s].status \in {"planned", "stale", "error"}
       ELSE /\ q.page = s
            /\ q.refresh \/ ~(x.pages[s].status = "ready" /\ x.pages[s].revision = x.revision)

Targets(g) ==
  /\ at[g] = "targets"
  /\ todo' = [todo EXCEPT ![g] = {s \in Slugs : IsTarget(request[g], site[g], s)}]
  /\ Goto(g, "pages")
  /\ UNCHANGED <<head, disk, active, holder, back, site, page, request, count>>

NextPage(g) ==
  /\ at[g] = "pages"
  /\ \E s \in todo[g] :
       /\ todo' = [todo EXCEPT ![g] = @ \ {s}]
       /\ site' = [site EXCEPT ![g].pages[s].status = "generating"]
       /\ Marked(g, s)
  /\ UNCHANGED <<head, disk, holder, back, request, count>>

NoMorePages(g) ==
  /\ at[g] = "pages"
  /\ todo[g] = {}
  /\ Goto(g, "unlock")
  /\ UNCHANGED <<head, disk, active, holder, local, count>>

(* The survey or a page: its checkpoint, the turn of the provider, its     *)
(* text, its record.                                                       *)
Saved(g) ==
  IF page[g] = Survey
    THEN survey' = site[g].survey /\ UNCHANGED pages
    ELSE pages' = [pages EXCEPT ![page[g]] = site[g].pages[page[g]]] /\ UNCHANGED survey

Becomes(g, status, revision) ==
  site' = IF page[g] = Survey
            THEN [site EXCEPT ![g].survey = [status |-> status, revision |-> site[g].revision]]
            ELSE [site EXCEPT ![g].pages[page[g]] =
                   [@ EXCEPT !.status = status, !.revision = revision]]

Revision(g) == IF page[g] = Survey THEN site[g].revision ELSE site[g].pages[page[g]].revision

Clears(g, next) ==
  /\ back' = [back EXCEPT ![g] = next]
  /\ Goto(g, "clear")

(* No checkpoint before the turn.                                          *)
BeginUnsaved(g) ==
  /\ at[g] = "begin"
  /\ Goto(g, "turn")
  /\ UNCHANGED <<head, disk, active, holder, local, count>>

Begin(g) ==
  /\ at[g] = "begin"
  /\ Saved(g)
  /\ Goto(g, "turn")
  /\ UNCHANGED <<head, text, active, holder, local, count>>

(* The record is saved before the text.                                    *)
TurnSavesRecord(g) ==
  /\ at[g] = "turn"
  /\ page[g] # Survey => text[Survey] # 0
  /\ Becomes(g, "ready", site[g].revision)
  /\ IF page[g] = Survey THEN UNCHANGED pages
       ELSE pages' = [pages EXCEPT ![page[g]] = site'[g].pages[page[g]]]
  /\ Goto(g, "write")
  /\ UNCHANGED <<head, survey, text, active, holder, back, todo, page, request, count>>

(* The provider answers and the answer is accepted, or not.                *)
Turn(g) ==
  /\ at[g] = "turn"
  /\ page[g] # Survey => text[Survey] # 0
  /\ Goto(g, "write")
  /\ UNCHANGED <<head, disk, active, holder, local, count>>

TurnFails(g) ==
  /\ at[g] = "turn" \/ (at[g] = "write" /\ page[g] # Survey)
  /\ Becomes(g, "error", Revision(g))
  /\ Goto(g, "fail")
  /\ UNCHANGED <<head, disk, active, holder, back, todo, page, request, count>>

Write(g) ==
  /\ at[g] = "write"
  /\ text' = [text EXCEPT ![page[g]] = site[g].revision]
  /\ Becomes(g, "ready", site[g].revision)
  /\ Goto(g, "done")
  /\ UNCHANGED <<head, survey, pages, active, holder, back, todo, page, request, count>>

Done(g) ==
  /\ at[g] = "done"
  /\ Saved(g)
  /\ Clears(g, IF page[g] = Survey THEN "again" ELSE "pages")
  /\ UNCHANGED <<head, text, active, holder, site, todo, page, request, count>>

(* A request for all pages goes on with the next one.                      *)
Fail(g) ==
  /\ at[g] = "fail"
  /\ Saved(g)
  /\ Clears(g, IF page[g] = Survey \/ request[g].page # None THEN "unlock" ELSE "pages")
  /\ UNCHANGED <<head, text, active, holder, site, todo, page, request, count>>

(* Returns without setPageActive(false).                                   *)
SaveFailsStaysActive(g) ==
  /\ at[g] \in {"begin", "done", "fail"} \/ (at[g] = "write" /\ page[g] = Survey)
  /\ page' = [page EXCEPT ![g] = None]
  /\ Goto(g, "unlock")
  /\ UNCHANGED <<head, disk, active, holder, back, site, todo, request, count>>

(* No text of the survey, or a checkpoint that cannot be saved.            *)
SaveFails(g) ==
  /\ at[g] \in {"begin", "done", "fail"} \/ (at[g] = "write" /\ page[g] = Survey)
  /\ Clears(g, "unlock")
  /\ UNCHANGED <<head, disk, active, holder, site, todo, page, request, count>>

(* The page stays the one that is worked on.                               *)
ClearKeepsPage(g) ==
  /\ at[g] = "clear"
  /\ active' = active \ {page[g]}
  /\ Goto(g, IF back[g] = "again" THEN "snapshot" ELSE back[g])
  /\ back' = [back EXCEPT ![g] = IF @ = "again" THEN "replan" ELSE @]
  /\ UNCHANGED <<head, disk, holder, site, todo, page, request, count>>

(* setPageActive(false); a new survey is followed by plan.                 *)
Clear(g) ==
  /\ at[g] = "clear"
  /\ active' = active \ {page[g]}
  /\ page' = [page EXCEPT ![g] = None]
  /\ IF back[g] = "again"
       THEN /\ Goto(g, "snapshot")
            /\ back' = [back EXCEPT ![g] =
                         IF request[g].only = "survey" THEN "unlock" ELSE "replan"]
       ELSE Goto(g, back[g]) /\ UNCHANGED back
  /\ UNCHANGED <<head, disk, holder, site, todo, request, count>>

Unlock(g) ==
  /\ at[g] = "unlock"
  /\ holder' = None
  /\ Goto(g, "idle")
  /\ back' = [back EXCEPT ![g] = "idle"]
  /\ site' = [site EXCEPT ![g] = NoSite]
  /\ todo' = [todo EXCEPT ![g] = {}]
  /\ request' = [request EXCEPT ![g] = NoRequest]
  /\ UNCHANGED <<head, disk, active, page, count>>

Generation(g) ==
  \/ StartSurvey(g) \/ SkipSurvey(g) \/ Replan(g) \/ SavePlan(g) \/ RemoveTexts(g)
  \/ ReplanFails(g) \/ Targets(g) \/ NextPage(g) \/ NoMorePages(g)
  \/ Begin(g) \/ Turn(g) \/ TurnFails(g) \/ Write(g) \/ Done(g)
  \/ Fail(g) \/ SaveFails(g) \/ Clear(g) \/ Unlock(g)

Next ==
  \/ Crash
  \/ \E r \in Readers : Read(r)
  \/ \E g \in Generators : Generate(g) \/ Lock(g) \/ Generation(g)
  \/ \E p \in Requests : Plan(p)

(* A provider turn has a deadline; the lock is a sync.Mutex, which hands   *)
(* itself to a goroutine that has waited long enough.                      *)
Fairness ==
  /\ \A p \in Requests : WF_vars(Plan(p))
  /\ \A g \in Generators : SF_vars(Lock(g)) /\ WF_vars(Generation(g))

Spec == Init /\ [][Next]_vars /\ Fairness

-----------------------------------------------------------------------------
Statuses == {None, "planned", "generating", "ready", "stale", "error"}
Survey_ == [status : Statuses \ {"planned", "stale"}, revision : Revisions]
Page_ == [status : Statuses, revision : Revisions, plan : Revisions]
PlanLabels == {"snapshot", "load", "recover", "saveSurvey", "examine", "savePage"}
MarkedLabels == {"begin", "turn", "write", "done", "fail", "clear"}
Labels == {"idle", "lock", "survey", "replan", "savePlan", "removeTexts",
           "targets", "pages", "unlock"}
            \cup PlanLabels \cup MarkedLabels

(* The type invariant: manifest, texts, requests and program counters; a   *)
(* request is at a page exactly while it generates or saves it.            *)
TypeOK ==
  /\ head \in 1..MaxHead
  /\ survey \in Survey_
  /\ pages \in [Slugs -> Page_]
  /\ text \in [Slugs \cup {Survey} -> Revisions]
  /\ active \subseteq Slugs \cup {Survey}
  /\ holder \in Generators \cup {None}
  /\ at \in [Requests -> Labels]
  /\ back \in [Requests -> Labels \cup {"again"}]
  /\ site \in [Requests -> [revision : Revisions, survey : Survey_, pages : [Slugs -> Page_]]]
  /\ todo \in [Requests -> SUBSET Slugs]
  /\ page \in [Requests -> Slugs \cup {Survey, None}]
  /\ \A p \in Requests : page[p] # None <=> at[p] \in MarkedLabels \cup {"savePage"}
  /\ request \in [Requests -> GenerateRequests \cup {NoRequest}]
  /\ count \in [runs : 0..MaxRuns, reads : 0..MaxReads, crashes : 0..MaxCrashes]

(* Generate (docs.go, every return after setPageActive): what is marked    *)
(* active is exactly what the one run that holds the lock works on, so no  *)
(* error path leaves a page that nobody may recover.                       *)
ActiveIsLive ==
  active = {page[g] : g \in {h \in Generators : holder = h /\ at[h] \in MarkedLabels}}

(* writeSurveyMarkdown before saveSurvey: a survey is ready only once its  *)
(* text is that of the revision it names, whatever crashes or fails and    *)
(* whatever copy of it a reader saves.                                     *)
SurveyReadyIsCurrent ==
  survey.status = "ready" => text[Survey] = survey.revision

(* writeMarkdown before savePage: a page that is shown as generated for a  *)
(* revision never has the text of an older one.                            *)
NeverAheadOfItsText ==
  \A s \in Slugs :
    pages[s].status \in {"ready", "stale"} /\ text[s] # 0 => pages[s].revision <= text[s]

(* savePlan, then removeSupersededPageMarkdown: a text is removed while the *)
(* manifest on disk has no page for it, neither the old one nor one that a *)
(* reader has saved again, so a crash between the two steps leaves a text  *)
(* without a page and never a page that has lost its text.                 *)
TextOutlivesPage ==
  [][\A s \in Slugs :
       text[s] # 0 /\ text'[s] = 0 => pages[s] = NoPage /\ pages'[s] = NoPage]_vars

(* A request for all pages goes on after a page that failed and ends; one  *)
(* that waits for the lock gets it.                                        *)
RequestsEnd == \A g \in Generators : at[g] # "idle" ~> at[g] = "idle"

(* What the error "Generation was interrupted" says (docs.go, plan): the   *)
(* page was under generation.  A reader that loaded the manifest during    *)
(* the run and examines the page after it says so of a finished page.      *)
ReadyWasNotInterrupted ==
  [][\A s \in Slugs : pages[s].status = "ready" => pages'[s].status # "error"]_vars
=============================================================================
