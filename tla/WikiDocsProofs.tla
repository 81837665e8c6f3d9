---------------------------- MODULE WikiDocsProofs ----------------------------
(***************************************************************************)
(* Proofs about WikiDocs, for any pages, readers and generators and any    *)
(* number of commits, runs and crashes: what is marked active is what the  *)
(* one run works on, and neither the survey nor a page is shown for a      *)
(* revision its text is not of.                                            *)
(***************************************************************************)
EXTENDS WikiDocs, TLAPS

(* Where plan returns to, and what a run goes on with.                     *)
Backs == {"idle", "survey", "unlock", "targets", "pages", "replan", "again"}

(* A reader only plans.  A generator is past the lock exactly while it     *)
(* holds it, and has somewhere to return to.                               *)
Staged ==
  /\ \A p \in Requests : back[p] \in Backs
  /\ \A r \in Readers : at[r] \in {"idle"} \cup PlanLabels /\ back[r] = "idle"
  /\ \A g \in Generators :
       /\ holder = g <=> at[g] \notin {"idle", "lock"}
       /\ at[g] \in {"idle", "lock"} <=> back[g] = "idle"
       /\ back[g] = "again" => at[g] = "clear"
  /\ \A p \in Requests : at[p] = "savePage" => page[p] \in Slugs

(* What a request may save as the survey: a recovered survey is an error,  *)
(* and while a survey is written none is ready in the manifest.            *)
SurveyCopies ==
  /\ \A p \in Requests : at[p] = "saveSurvey" => site[p].survey.status = "error"
  /\ \A g \in Generators : page[g] = Survey =>
       /\ at[g] = "begin" => site[g].survey.status = "generating"
       /\ at[g] \in {"turn", "write", "done", "fail"} => survey.status # "ready"
       /\ at[g] = "done" => site[g].survey.revision = text[Survey]
       /\ at[g] = "fail" => site[g].survey.status = "error"

(* A generator that has read its snapshot under the lock.                  *)
Current(g) == at[g] \notin {"idle", "lock", "snapshot", "unlock"}

(* No text, page or copy of a page is of a revision that was not read yet, *)
(* nor of a later one than that of the generator at work.                  *)
Bounded(revision) ==
  \A s \in Slugs :
    /\ text[s] <= revision /\ pages[s].revision <= revision
    /\ \A p \in Requests : site[p].pages[s].revision <= revision
RevisionsKnown ==
  /\ Bounded(head)
  /\ \A p \in Requests : site[p].revision <= head
  /\ \A g \in Generators : Current(g) => site[g].revision > 0 /\ Bounded(site[g].revision)

(* NeverAheadOfItsText, of every copy of a page that somebody may save.    *)
CopiesHaveText ==
  \A p \in Requests, s \in Slugs :
    site[p].pages[s].status \in {"ready", "stale"} /\ text[s] # 0 =>
      site[p].pages[s].revision <= text[s]

(* While savePlan keeps mu, the pages whose texts it is about to remove    *)
(* stay out of the manifest.                                               *)
Superseded ==
  \A g \in Generators : at[g] = "removeTexts" => \A s \in todo[g] : pages[s] = NoPage

IInv ==
  /\ TypeOK /\ Staged /\ ActiveIsLive
  /\ SurveyCopies /\ SurveyReadyIsCurrent
  /\ RevisionsKnown /\ CopiesHaveText /\ NeverAheadOfItsText
  /\ Superseded

-----------------------------------------------------------------------------
(* Types.                                                                  *)

USE NamesAssumption, BootstrapAssumption, BoundAssumption, AskedAssumption

Site_ == [revision : Revisions, survey : Survey_, pages : [Slugs -> Page_]]

(* The empty records are of their types.                                   *)
LEMMA EmptyTypes ==
  NoPage \in Page_ /\ NoSurvey \in Survey_ /\ NoSite \in Site_ /\ 0 \in Revisions
<1>1. 0 \in Revisions  BY DEF Revisions
<1>2. NoPage \in Page_ /\ NoSurvey \in Survey_
  BY <1>1 DEF NoPage, NoSurvey, Page_, Survey_, Statuses, None
<1> QED  BY <1>1, <1>2 DEF NoSite, Site_

(* Replacing the survey or the pages of a site.                            *)
LEMMA SiteTypes ==
  ASSUME NEW x \in Site_
  PROVE  /\ \A v \in Survey_ : [x EXCEPT !.survey = v] \in Site_
         /\ \A q \in [Slugs -> Page_] : [x EXCEPT !.pages = q] \in Site_
         /\ \A s \in Slugs, q \in Page_ : [x EXCEPT !.pages[s] = q] \in Site_
BY DEF Site_

(* A copy that is kept in part is of the type.                             *)
LEMMA KeptTypes ==
  ASSUME NEW p, NEW x \in Site_, NEW slugs
  PROVE  Kept(p, x, slugs) \in Site_
<1>1. CASE back[p] # "idle"  BY <1>1 DEF Kept
<1>2. CASE back[p] = "idle"
  <2> DEFINE q == [s \in Slugs |-> IF s \in slugs THEN x.pages[s] ELSE NoPage]
             v == IF x.survey.status = "generating" THEN x.survey ELSE NoSurvey
  <2>1. q \in [Slugs -> Page_] /\ v \in Survey_
    BY EmptyTypes DEF Site_
  <2>2. Kept(p, x, slugs) = [x EXCEPT !.pages = q, !.survey = v]
    BY <1>2 DEF Kept
  <2> HIDE DEF q, v
  <2> QED  BY <2>1, <2>2 DEF Site_
<1> QED  BY <1>1, <1>2

(* So is an examined page.                                                 *)
LEMMA ExaminedTypes ==
  ASSUME NEW q \in Page_, NEW s, NEW revision, NEW changed
  PROVE  Examined(q, s, revision, changed) \in Page_
BY DEF Examined, Page_, Statuses

(* A plan that a reader is shown is a revision.                            *)
LEMMA PlannedTypes ==
  ASSUME NEW x \in Site_, NEW s \in Slugs
  PROVE  Planned(x, s) \in Page_
<1>1. x.pages[s] \in Page_ /\ x.revision \in Revisions  BY DEF Site_
<1> QED  BY <1>1 DEF Planned, Page_, Statuses

(* The starting state.                                                     *)
LEMMA InitTypes == Init => TypeOK
<1> SUFFICES ASSUME Init PROVE TypeOK
  OBVIOUS
<1>1. head \in 1..MaxHead  BY DEF Init
<1>2. survey \in Survey_ /\ pages \in [Slugs -> Page_]
      /\ text \in [Slugs \cup {Survey} -> Revisions]
  BY EmptyTypes DEF Init
<1>3. site \in [Requests -> Site_]  BY EmptyTypes DEF Init
<1>4. /\ at \in [Requests -> Labels] /\ back \in [Requests -> Labels \cup {"again"}]
      /\ todo \in [Requests -> SUBSET Slugs]
      /\ page \in [Requests -> Slugs \cup {Survey, None}]
      /\ \A p \in Requests : page[p] # None <=> at[p] \in MarkedLabels \cup {"savePage"}
      /\ request \in [Requests -> GenerateRequests \cup {NoRequest}]
  BY DEF Init, Labels, MarkedLabels
<1>5. count \in [runs : 0..MaxRuns, reads : 0..MaxReads, crashes : 0..MaxCrashes]
  BY DEF Init
<1> QED  BY <1>1, <1>2, <1>3, <1>4, <1>5 DEF Init, TypeOK, Site_

(* What a step does to the program counter and to the page of one request. *)
LEMMA PageAt ==
  ASSUME TypeOK, NEW p \in Requests, NEW label \in Labels,
         NEW s \in Slugs \cup {Survey, None},
         s # None <=> label \in MarkedLabels \cup {"savePage"},
         Goto(p, label), page' = [page EXCEPT ![p] = s]
  PROVE  /\ at' \in [Requests -> Labels]
         /\ page' \in [Requests -> Slugs \cup {Survey, None}]
         /\ \A q \in Requests : page'[q] # None <=> at'[q] \in MarkedLabels \cup {"savePage"}
BY DEF TypeOK, Goto

(* The same when the page stays what it is.                                *)
LEMMA PageStays ==
  ASSUME TypeOK, NEW p \in Requests, NEW label \in Labels,
         at[p] \in MarkedLabels \cup {"savePage"} <=> label \in MarkedLabels \cup {"savePage"},
         Goto(p, label), page' = page
  PROVE  /\ at' \in [Requests -> Labels]
         /\ page' \in [Requests -> Slugs \cup {Survey, None}]
         /\ \A q \in Requests : page'[q] # None <=> at'[q] \in MarkedLabels \cup {"savePage"}
BY DEF TypeOK, Goto

(* A site that is replaced.                                                *)
LEMMA SiteReplaced ==
  ASSUME TypeOK, NEW p \in Requests, NEW x \in Site_, site' = [site EXCEPT ![p] = x]
  PROVE  site' \in [Requests -> Site_]
BY DEF TypeOK, Site_

(* What TypeOK says after a step, part by part.                            *)
Placed ==
  /\ at \in [Requests -> Labels]
  /\ page \in [Requests -> Slugs \cup {Survey, None}]
  /\ \A p \in Requests : page[p] # None <=> at[p] \in MarkedLabels \cup {"savePage"}
Sited == site \in [Requests -> Site_]
Stored ==
  /\ head \in 1..MaxHead
  /\ survey \in Survey_ /\ pages \in [Slugs -> Page_]
  /\ text \in [Slugs \cup {Survey} -> Revisions]
Planning ==
  /\ back \in [Requests -> Labels \cup {"again"}]
  /\ todo \in [Requests -> SUBSET Slugs]
  /\ request \in [Requests -> GenerateRequests \cup {NoRequest}]
Marks ==
  /\ active \subseteq Slugs \cup {Survey}
  /\ holder \in Generators \cup {None}
  /\ count \in [runs : 0..MaxRuns, reads : 0..MaxReads, crashes : 0..MaxCrashes]

LEMMA TypeParts == TypeOK <=> Placed /\ Sited /\ Stored /\ Planning /\ Marks
BY DEF TypeOK, Placed, Sited, Stored, Planning, Marks, Site_
LEMMA TypePartsNext == TypeOK' <=> Placed' /\ Sited' /\ Stored' /\ Planning' /\ Marks'
BY DEF TypeOK, Placed, Sited, Stored, Planning, Marks, Site_
(* A step of plan keeps the types.                                         *)
LEMMA SnapshotTypes ==
  ASSUME TypeOK, NEW p \in Requests, SnapshotRead(p),
         at[p] \notin MarkedLabels \cup {"savePage"},
         count' \in [runs : 0..MaxRuns, reads : 0..MaxReads, crashes : 0..MaxCrashes],
         UNCHANGED <<disk, active, holder, back, todo, page, request>>
  PROVE  TypeOK'
<1>1. Placed'
  BY PageStays DEF SnapshotRead, Placed, Labels, PlanLabels, MarkedLabels
<1>2. head' \in 1..MaxHead /\ head' \in Revisions
  BY DEF TypeOK, SnapshotRead, Revisions
<1>3. [NoSite EXCEPT !.revision = head'] \in Site_
  BY <1>2, EmptyTypes DEF Site_
<1>4. Sited'
  BY <1>3, SiteReplaced DEF SnapshotRead, Sited
<1> QED  BY <1>1, <1>2, <1>4, TypePartsNext DEF TypeOK, Stored, Planning, Marks, disk

LEMMA ReadTypes == ASSUME TypeOK, NEW r \in Readers, Read(r) PROVE TypeOK'
<1>1. r \in Requests  BY DEF Requests
<1>2. count' \in [runs : 0..MaxRuns, reads : 0..MaxReads, crashes : 0..MaxCrashes]
  BY DEF TypeOK, Read
<1>3. at[r] \notin MarkedLabels \cup {"savePage"}  BY DEF Read, MarkedLabels
<1> QED  BY <1>1, <1>2, <1>3, SnapshotTypes DEF Read

LEMMA LoadTypes == ASSUME TypeOK, NEW p \in Requests, Load(p) PROVE TypeOK'
<1>1. Placed'
  BY PageStays DEF Load, Placed, Labels, PlanLabels, MarkedLabels
<1>2. PICK plan \in PlanChosen(site[p].revision) :
        LET copy == [site[p] EXCEPT !.survey = survey,
                       !.pages = [s \in Slugs |-> IF s \in Selected(plan) THEN pages[s] ELSE NoPage]]
            due == {s \in Selected(plan) : MayChange(copy.pages[s], copy.revision)}
        IN  /\ site' = [site EXCEPT ![p] = Kept(p, copy, due)]
            /\ todo' = [todo EXCEPT ![p] = due]
  BY DEF Load
<1> DEFINE copy == [site[p] EXCEPT !.survey = survey,
                      !.pages = [s \in Slugs |-> IF s \in Selected(plan) THEN pages[s] ELSE NoPage]]
           due == {s \in Selected(plan) : MayChange(copy.pages[s], copy.revision)}
<1>3. copy \in Site_
  <2>1. [s \in Slugs |-> IF s \in Selected(plan) THEN pages[s] ELSE NoPage] \in [Slugs -> Page_]
    BY EmptyTypes DEF TypeOK
  <2>2. site[p] \in Site_ /\ survey \in Survey_  BY DEF TypeOK, Site_
  <2> QED  BY <2>1, <2>2 DEF Site_
<1>4. due \subseteq Slugs  BY DEF Selected
<1> HIDE DEF copy, due
<1>5. Sited'  BY <1>2, <1>3, KeptTypes, SiteReplaced DEF Sited, copy, due
<1>6. Planning'
  <2>1. todo' = [todo EXCEPT ![p] = due]  BY <1>2 DEF copy, due
  <2> QED  BY <1>4, <2>1 DEF Load, TypeOK, Planning
<1> QED  BY <1>1, <1>5, <1>6, TypePartsNext DEF Load, TypeOK, Stored, Marks, disk

LEMMA RecoverTypes == ASSUME TypeOK, NEW p \in Requests, Recover(p) PROVE TypeOK'
<1>1. Placed'
  BY PageStays DEF Recover, Placed, Labels, PlanLabels, MarkedLabels
<1>2. Sited'
  <2>1. site[p] \in Site_ /\ site[p].survey \in Survey_  BY DEF TypeOK, Site_
  <2>2. [site[p].survey EXCEPT !.status = "error"] \in Survey_
    BY <2>1 DEF Survey_, Statuses, None
  <2>3. PICK v \in Survey_ : site' = [site EXCEPT ![p] = [site[p] EXCEPT !.survey = v]]
    <3>1. CASE Survey \in active
      <4>1. CASE back[p] = "idle"  BY <3>1, <4>1, EmptyTypes DEF Recover
      <4>2. CASE back[p] # "idle"  BY <3>1, <4>2, <2>1 DEF Recover
      <4> QED  BY <4>1, <4>2
    <3>2. CASE Survey \notin active
      <4>1. site' = [site EXCEPT ![p] = [site[p] EXCEPT !.survey = [site[p].survey EXCEPT !.status = "error"]]]
        BY <3>2 DEF Recover
      <4> QED  BY <4>1, <2>2
    <3> QED  BY <3>1, <3>2
  <2> QED  BY <2>1, <2>3, SiteTypes, SiteReplaced DEF Sited
<1> QED  BY <1>1, <1>2, TypePartsNext DEF Recover, TypeOK, Stored, Planning, Marks, disk

LEMMA SaveSurveyTypes == ASSUME TypeOK, NEW p \in Requests, SaveSurvey(p) PROVE TypeOK'
<1>1. Placed'
  BY PageStays DEF SaveSurvey, Placed, Labels, PlanLabels, MarkedLabels
<1>2. site[p] \in Site_ /\ site[p].survey \in Survey_  BY DEF TypeOK, Site_
<1>3. Sited'
  <2>1. PICK v \in Survey_ : site' = [site EXCEPT ![p] = [site[p] EXCEPT !.survey = v]]
    <3>1. CASE back[p] = "idle"  BY <3>1, EmptyTypes DEF SaveSurvey
    <3>2. CASE back[p] # "idle"  BY <3>2, <1>2 DEF SaveSurvey
    <3> QED  BY <3>1, <3>2
  <2> QED  BY <1>2, <2>1, SiteTypes, SiteReplaced DEF Sited
<1> QED
  BY <1>1, <1>2, <1>3, TypePartsNext DEF SaveSurvey, TypeOK, Stored, Planning, Marks

LEMMA ExamineTypes == ASSUME TypeOK, NEW p \in Requests, Examine(p) PROVE TypeOK'
<1>1. PICK s \in todo[p], changed \in BOOLEAN :
        LET q == Examined(site[p].pages[s], s, site[p].revision, changed)
            rest == todo[p] \ {s}
        IN  /\ todo' = [todo EXCEPT ![p] = rest]
            /\ IF q = site[p].pages[s]
                 THEN /\ site' = [site EXCEPT ![p] = Kept(p, @, rest)]
                      /\ UNCHANGED <<page, at>>
                 ELSE /\ site' = [site EXCEPT ![p].pages[s] = q]
                      /\ page' = [page EXCEPT ![p] = s]
                      /\ Goto(p, "savePage")
  BY DEF Examine
<1>2. s \in Slugs /\ site[p] \in Site_ /\ site[p].pages[s] \in Page_
  BY <1>1 DEF TypeOK, Site_
<1> DEFINE q == Examined(site[p].pages[s], s, site[p].revision, changed)
<1>3. q \in Page_  BY <1>2, ExaminedTypes
<1> HIDE DEF q
<1>4. Placed' /\ Sited'
  <2>1. CASE q = site[p].pages[s]
    <3>1. UNCHANGED <<page, at>> /\ site' = [site EXCEPT ![p] = Kept(p, site[p], todo[p] \ {s})]
      BY <1>1, <2>1 DEF q
    <3>2. Sited'  BY <1>2, <3>1, KeptTypes, SiteReplaced DEF Sited
    <3> QED  BY <3>1, <3>2 DEF TypeOK, Placed
  <2>2. CASE q # site[p].pages[s]
    <3>1. /\ site' = [site EXCEPT ![p] = [site[p] EXCEPT !.pages[s] = q]]
          /\ page' = [page EXCEPT ![p] = s]
          /\ Goto(p, "savePage")
      BY <1>1, <2>2 DEF q
    <3>2. Sited'  BY <1>2, <1>3, <3>1, SiteTypes, SiteReplaced DEF Sited
    <3>3. Placed'
      <4>1. s \in Slugs \cup {Survey, None} /\ s # None  BY <1>2
      <4>2. "savePage" \in Labels  BY DEF Labels, PlanLabels
      <4> QED  BY <3>1, <4>1, <4>2, PageAt DEF Placed
    <3> QED  BY <3>2, <3>3
  <2> QED  BY <2>1, <2>2
<1>5. Planning'
  <2>1. todo' = [todo EXCEPT ![p] = todo[p] \ {s}]  BY <1>1
  <2> QED  BY <2>1 DEF Examine, TypeOK, Planning
<1> QED  BY <1>4, <1>5, TypePartsNext DEF Examine, TypeOK, Stored, Marks, disk

LEMMA SavePageTypes == ASSUME TypeOK, NEW p \in Requests, SavePage(p) PROVE TypeOK'
<1>1. Placed'
  BY PageAt DEF SavePage, Placed, Labels, PlanLabels, MarkedLabels
<1>2. site[p] \in Site_ /\ site[p].pages \in [Slugs -> Page_]  BY DEF TypeOK, Site_
<1>3. Sited'  BY <1>2, KeptTypes, SiteReplaced DEF SavePage, Sited
<1>4. pages' \in [Slugs -> Page_]  BY <1>2 DEF SavePage, TypeOK
<1> QED
  BY <1>1, <1>3, <1>4, TypePartsNext DEF SavePage, TypeOK, Stored, Planning, Marks

LEMMA PlanEndsTypes == ASSUME TypeOK, Staged, NEW p \in Requests, PlanEnds(p) PROVE TypeOK'
<1>1. back[p] \in Backs \ {"again"}
  BY DEF Staged, PlanEnds, Requests
<1>2. Placed'
  BY <1>1, PageStays DEF PlanEnds, Placed, Backs, Labels, PlanLabels, MarkedLabels
<1>3. Sited'
  BY EmptyTypes, SiteReplaced DEF PlanEnds, Sited, TypeOK, Site_
<1> QED  BY <1>2, <1>3, TypePartsNext DEF PlanEnds, TypeOK, Stored, Planning, Marks, disk

LEMMA PlanFailsTypes == ASSUME TypeOK, NEW p \in Requests, PlanFails(p) PROVE TypeOK'
<1>1. Placed'
  BY PageAt DEF PlanFails, Placed, Labels, PlanLabels, MarkedLabels
<1>2. Sited'  BY EmptyTypes, SiteReplaced DEF PlanFails, Sited
<1>3. Planning'  BY DEF PlanFails, TypeOK, Planning
<1> QED  BY <1>1, <1>2, <1>3, TypePartsNext DEF PlanFails, TypeOK, Stored, Marks, disk

LEMMA PlanTypes == ASSUME TypeOK, Staged, NEW p \in Requests, Plan(p) PROVE TypeOK'
<1>1. ASSUME Snapshot(p) PROVE TypeOK'
  BY <1>1, SnapshotTypes DEF Snapshot, TypeOK, MarkedLabels
<1> QED
  BY <1>1, LoadTypes, RecoverTypes, SaveSurveyTypes, ExamineTypes, SavePageTypes,
     PlanEndsTypes, PlanFailsTypes DEF Plan
LEMMA CrashTypes == ASSUME TypeOK, Crash PROVE TypeOK'
<1>1. Placed'  BY DEF Crash, Placed, Labels, MarkedLabels
<1>2. Sited'  BY EmptyTypes DEF Crash, Sited
<1>3. Planning'  BY DEF Crash, Planning, Labels
<1>4. count' \in [runs : 0..MaxRuns, reads : 0..MaxReads, crashes : 0..MaxCrashes]
  <2>1. /\ count \in [runs : 0..MaxRuns, reads : 0..MaxReads, crashes : 0..MaxCrashes]
        /\ count.crashes < MaxCrashes /\ count' = [count EXCEPT !.crashes = @ + 1]
    BY DEF Crash, TypeOK
  <2>2. count.crashes + 1 \in 0..MaxCrashes  BY <2>1
  <2> QED  BY <2>1, <2>2
<1>5. Marks'  BY <1>4 DEF Crash, Marks
<1> QED  BY <1>1, <1>2, <1>3, <1>5, TypePartsNext DEF Crash, TypeOK, Stored, disk

(* Generate and its lock.                                                  *)
LEMMA GenerateTypes == ASSUME TypeOK, NEW g \in Generators, Generate(g) PROVE TypeOK'
<1>0. g \in Requests  BY DEF Requests
<1>1. Placed'
  BY <1>0, PageStays DEF Generate, Placed, Labels, PlanLabels, MarkedLabels
<1>2. Planning'
  BY <1>0 DEF Generate, TypeOK, Planning
<1>3. Marks'
  <2>1. count' \in [runs : 0..MaxRuns, reads : 0..MaxReads, crashes : 0..MaxCrashes]
    BY DEF Generate, TypeOK
  <2> QED  BY <2>1 DEF Generate, TypeOK, Marks
<1> QED  BY <1>1, <1>2, <1>3, TypePartsNext DEF Generate, TypeOK, Stored, Sited, Site_, disk

LEMMA LockTypes == ASSUME TypeOK, NEW g \in Generators, Lock(g) PROVE TypeOK'
<1>0. g \in Requests  BY DEF Requests
<1>1. Placed'
  BY <1>0, PageStays DEF Lock, Placed, Labels, PlanLabels, MarkedLabels
<1>2. Planning'
  BY <1>0 DEF Lock, TypeOK, Planning, Labels
<1> QED
  BY <1>1, <1>2, TypePartsNext DEF Lock, TypeOK, Stored, Sited, Site_, Marks, disk

(* What g works on keeps its type, whatever becomes of it.                 *)
LEMMA BecomesTypes ==
  ASSUME TypeOK, NEW g \in Generators, at[g] \in MarkedLabels,
         NEW status \in {"error", "ready"}, NEW revision \in Revisions,
         Becomes(g, status, revision)
  PROVE  Sited'
<1>1. g \in Requests /\ site[g] \in Site_ /\ page[g] \in Slugs \cup {Survey}
  BY DEF TypeOK, Requests, Site_
<1>2. CASE page[g] = Survey
  <2>1. [status |-> status, revision |-> site[g].revision] \in Survey_
    BY <1>1 DEF Site_, Survey_, Statuses
  <2> QED  BY <1>1, <1>2, <2>1, SiteTypes, SiteReplaced DEF Becomes, Sited
<1>3. CASE page[g] # Survey
  <2>1. page[g] \in Slugs /\ site[g].pages[page[g]] \in Page_  BY <1>1, <1>3 DEF Site_
  <2>2. [site[g].pages[page[g]] EXCEPT !.status = status, !.revision = revision] \in Page_
    BY <2>1 DEF Page_, Statuses
  <2> DEFINE q == [site[g].pages[page[g]] EXCEPT !.status = status, !.revision = revision]
  <2>3. site' = [site EXCEPT ![g] = [site[g] EXCEPT !.pages[page[g]] = q]]
    BY <1>3 DEF Becomes
  <2> HIDE DEF q
  <2>4. [site[g] EXCEPT !.pages[page[g]] = q] \in Site_
    BY <1>1, <2>1, <2>2, SiteTypes DEF q
  <2> QED  BY <1>1, <2>3, <2>4, SiteReplaced DEF Sited
<1> QED  BY <1>2, <1>3

LEMMA SavedTypes ==
  ASSUME TypeOK, NEW g \in Generators, Saved(g)
  PROVE  survey' \in Survey_ /\ pages' \in [Slugs -> Page_]
<1>1. g \in Requests /\ site[g] \in Site_  BY DEF TypeOK, Requests, Site_
<1>2. site[g].survey \in Survey_ /\ site[g].pages \in [Slugs -> Page_]  BY <1>1 DEF Site_
<1> QED  BY <1>2 DEF Saved, TypeOK

LEMMA RevisionTypes ==
  ASSUME TypeOK, NEW g \in Generators, at[g] \in MarkedLabels
  PROVE  Revision(g) \in Revisions /\ site[g].revision \in Revisions
<1>1. g \in Requests /\ site[g] \in Site_ /\ page[g] \in Slugs \cup {Survey}
  BY DEF TypeOK, Requests, Site_
<1> QED  BY <1>1 DEF Revision, Site_, Page_

(* What a run does until it is at a page.                                  *)
LEMMA ChooseTypes ==
  ASSUME TypeOK, NEW g \in Generators,
         StartSurvey(g) \/ SkipSurvey(g) \/ Replan(g) \/ SavePlan(g) \/ RemoveTexts(g)
                \/ ReplanFails(g)
           \/ Targets(g) \/ NextPage(g) \/ NoMorePages(g) \/ Unlock(g)
  PROVE  TypeOK'
<1>0. g \in Requests /\ site[g] \in Site_  BY DEF TypeOK, Requests, Site_
<1>1. CASE StartSurvey(g)
  <2>1. Placed'
    BY <1>0, <1>1, PageAt DEF StartSurvey, Marked, Placed, Labels, MarkedLabels, Survey, None
  <2>2. [status |-> "generating", revision |-> site[g].revision] \in Survey_
    BY <1>0 DEF Site_, Survey_, Statuses, None
  <2>3. Sited'  BY <1>0, <1>1, <2>2, SiteTypes, SiteReplaced DEF StartSurvey, Sited
  <2>4. Marks'  BY <1>1 DEF StartSurvey, Marked, TypeOK, Marks
  <2> QED
    BY <1>1, <2>1, <2>3, <2>4, TypePartsNext DEF StartSurvey, TypeOK, Stored, Planning, disk
<1>2. CASE SkipSurvey(g)
  <2>1. Placed'
    BY <1>0, <1>2, PageStays DEF SkipSurvey, Placed, Labels, PlanLabels, MarkedLabels, local
  <2> QED
    BY <1>2, <2>1, TypePartsNext
    DEF SkipSurvey, TypeOK, Stored, Sited, Site_, Planning, Marks, disk, local
<1>3. CASE Replan(g)
  <2>1. Placed'
    BY <1>0, <1>3, PageStays DEF Replan, Placed, Labels, PlanLabels, MarkedLabels
  <2>2. Sited'
    <3>1. PICK chosen \in SUBSET Slugs :
            site' = [site EXCEPT ![g] = [site[g] EXCEPT !.pages = [s \in Slugs |->
                       IF s \in chosen THEN Planned(site[g], s) ELSE NoPage]]]
      BY <1>3 DEF Replan
    <3>2. [s \in Slugs |-> IF s \in chosen THEN Planned(site[g], s) ELSE NoPage]
            \in [Slugs -> Page_]
      BY <1>0, EmptyTypes, PlannedTypes
    <3> DEFINE q == [s \in Slugs |-> IF s \in chosen THEN Planned(site[g], s) ELSE NoPage]
    <3>3. q \in [Slugs -> Page_] /\ site' = [site EXCEPT ![g] = [site[g] EXCEPT !.pages = q]]
      BY <3>1, <3>2
    <3> HIDE DEF q
    <3> QED  BY <1>0, <3>3, SiteTypes, SiteReplaced DEF Sited
  <2> QED
    BY <1>3, <2>1, <2>2, TypePartsNext DEF Replan, TypeOK, Stored, Planning, Marks, disk
<1>4. CASE SavePlan(g)
  <2>1. Placed'
    BY <1>0, <1>4, PageStays DEF SavePlan, Placed, Labels, PlanLabels, MarkedLabels
  <2>2. pages' \in [Slugs -> Page_]  BY <1>0, <1>4 DEF SavePlan, Site_
  <2>3. Planning'  BY <1>4 DEF SavePlan, TypeOK, Planning
  <2> QED
    BY <1>4, <2>1, <2>2, <2>3, TypePartsNext
    DEF SavePlan, TypeOK, Stored, Sited, Site_, Marks
<1>9. CASE RemoveTexts(g)
  <2>1. Placed'
    BY <1>0, <1>9, PageStays DEF RemoveTexts, Placed, Labels, PlanLabels, MarkedLabels
  <2>2. text' \in [Slugs \cup {Survey} -> Revisions]
    BY <1>9, EmptyTypes DEF RemoveTexts, TypeOK
  <2>3. Planning'  BY <1>9 DEF RemoveTexts, TypeOK, Planning, Labels
  <2> QED
    BY <1>9, <2>1, <2>2, <2>3, TypePartsNext
    DEF RemoveTexts, TypeOK, Stored, Sited, Site_, Marks
<1>5. CASE ReplanFails(g) \/ NoMorePages(g)
  <2>1. Placed'
    BY <1>0, <1>5, PageStays
    DEF ReplanFails, NoMorePages, Placed, Labels, PlanLabels, MarkedLabels, local
  <2> QED
    BY <1>5, <2>1, TypePartsNext
    DEF ReplanFails, NoMorePages, TypeOK, Stored, Sited, Site_, Planning, Marks, disk, local
<1>6. CASE Targets(g)
  <2>1. Placed'
    BY <1>0, <1>6, PageStays DEF Targets, Placed, Labels, PlanLabels, MarkedLabels
  <2>2. Planning'  BY <1>6 DEF Targets, TypeOK, Planning
  <2> QED
    BY <1>6, <2>1, <2>2, TypePartsNext DEF Targets, TypeOK, Stored, Sited, Site_, Marks, disk
<1>7. CASE NextPage(g)
  <2>1. PICK s \in todo[g] :
          /\ todo' = [todo EXCEPT ![g] = @ \ {s}]
          /\ site' = [site EXCEPT ![g].pages[s].status = "generating"]
          /\ Marked(g, s)
    BY <1>7 DEF NextPage
  <2>2. s \in Slugs /\ s # None /\ site[g].pages[s] \in Page_
    BY <1>0, <2>1 DEF TypeOK, Site_
  <2>3. Placed'
    BY <1>0, <1>7, <2>1, <2>2, PageAt DEF NextPage, Marked, Placed, Labels, MarkedLabels
  <2>4. [site[g].pages[s] EXCEPT !.status = "generating"] \in Page_
    BY <2>2 DEF Page_, Statuses
  <2> DEFINE q == [site[g].pages[s] EXCEPT !.status = "generating"]
  <2>5. site' = [site EXCEPT ![g] = [site[g] EXCEPT !.pages[s] = q]]
    BY <2>1
  <2> HIDE DEF q
  <2>6. Sited'  BY <1>0, <2>2, <2>4, <2>5, SiteTypes, SiteReplaced DEF Sited, q
  <2>7. Planning' /\ Marks'
    BY <1>7, <2>1, <2>2 DEF NextPage, Marked, TypeOK, Planning, Marks
  <2> QED  BY <1>7, <2>3, <2>6, <2>7, TypePartsNext DEF NextPage, TypeOK, Stored, disk
<1>8. CASE Unlock(g)
  <2>1. Placed'
    BY <1>0, <1>8, PageStays DEF Unlock, Placed, Labels, PlanLabels, MarkedLabels
  <2>2. Sited'  BY <1>0, <1>8, EmptyTypes, SiteReplaced DEF Unlock, Sited
  <2>3. Planning' /\ Marks'
    BY <1>0, <1>8 DEF Unlock, TypeOK, Planning, Marks, Labels
  <2> QED  BY <1>8, <2>1, <2>2, <2>3, TypePartsNext DEF Unlock, TypeOK, Stored, disk
<1> QED  BY <1>1, <1>2, <1>3, <1>4, <1>5, <1>6, <1>7, <1>8, <1>9

(* What a run does at a page or at the survey.                             *)
LEMMA WorkTypes ==
  ASSUME TypeOK, Staged, NEW g \in Generators,
         Begin(g) \/ Turn(g) \/ TurnFails(g) \/ Write(g) \/ Done(g) \/ Fail(g)
           \/ SaveFails(g) \/ Clear(g)
  PROVE  TypeOK'
<1>0. g \in Requests /\ site[g] \in Site_  BY DEF TypeOK, Requests, Site_
<1>1. CASE Begin(g) \/ Turn(g)
  <2>1. Placed'
    BY <1>0, <1>1, PageStays DEF Begin, Turn, Placed, Labels, PlanLabels, MarkedLabels, local
  <2>2. survey' \in Survey_ /\ pages' \in [Slugs -> Page_]
    BY <1>1, SavedTypes DEF Begin, Turn, TypeOK, disk
  <2> QED
    BY <1>1, <2>1, <2>2, TypePartsNext
    DEF Begin, Turn, TypeOK, Stored, Sited, Site_, Planning, Marks, disk, local
<1>2. CASE TurnFails(g)
  <2>1. at[g] \in MarkedLabels  BY <1>2 DEF TurnFails, MarkedLabels
  <2>2. Placed'
    BY <1>0, <1>2, PageStays DEF TurnFails, Placed, Labels, PlanLabels, MarkedLabels
  <2>3. Sited'  BY <1>2, <2>1, RevisionTypes, BecomesTypes DEF TurnFails
  <2> QED
    BY <1>2, <2>2, <2>3, TypePartsNext DEF TurnFails, TypeOK, Stored, Planning, Marks, disk
<1>3. CASE Write(g)
  <2>1. at[g] \in MarkedLabels  BY <1>3 DEF Write, MarkedLabels
  <2>2. Placed'
    BY <1>0, <1>3, PageStays DEF Write, Placed, Labels, PlanLabels, MarkedLabels
  <2>3. Sited'  BY <1>3, <2>1, RevisionTypes, BecomesTypes DEF Write
  <2>4. text' \in [Slugs \cup {Survey} -> Revisions]
    BY <1>3, <2>1, RevisionTypes DEF Write, TypeOK
  <2> QED
    BY <1>3, <2>2, <2>3, <2>4, TypePartsNext DEF Write, TypeOK, Stored, Planning, Marks
<1>4. CASE Done(g) \/ Fail(g)
  <2>1. Placed'
    BY <1>0, <1>4, PageStays DEF Done, Fail, Clears, Placed, Labels, PlanLabels, MarkedLabels
  <2>2. survey' \in Survey_ /\ pages' \in [Slugs -> Page_]
    BY <1>4, SavedTypes DEF Done, Fail
  <2>3. Planning'
    BY <1>0, <1>4 DEF Done, Fail, Clears, TypeOK, Planning, Labels
  <2> QED
    BY <1>4, <2>1, <2>2, <2>3, TypePartsNext
    DEF Done, Fail, Clears, TypeOK, Stored, Sited, Site_, Marks
<1>5. CASE SaveFails(g)
  <2>1. Placed'
    BY <1>0, <1>5, PageStays DEF SaveFails, Clears, Placed, Labels, PlanLabels, MarkedLabels
  <2>2. Planning'
    BY <1>0, <1>5 DEF SaveFails, Clears, TypeOK, Planning, Labels
  <2> QED
    BY <1>5, <2>1, <2>2, TypePartsNext
    DEF SaveFails, Clears, TypeOK, Stored, Sited, Site_, Marks, disk
<1>6. CASE Clear(g)
  <2>1. back[g] \in Backs  BY <1>0 DEF Staged
  <2>2. Placed'
    BY <1>0, <1>6, <2>1, PageAt
    DEF Clear, Backs, Placed, Labels, PlanLabels, MarkedLabels
  <2>3. Planning'
    <3>1. back' \in [Requests -> Labels \cup {"again"}]
      <4>1. CASE back[g] = "again"  BY <1>6, <4>1 DEF Clear, TypeOK, Labels
      <4>2. CASE back[g] # "again"  BY <1>6, <4>2 DEF Clear, TypeOK
      <4> QED  BY <4>1, <4>2
    <3> QED  BY <1>6, <3>1 DEF Clear, TypeOK, Planning
  <2>4. Marks'  BY <1>6 DEF Clear, TypeOK, Marks
  <2> QED
    BY <1>6, <2>2, <2>3, <2>4, TypePartsNext DEF Clear, TypeOK, Stored, Sited, Site_, disk
<1> QED  BY <1>1, <1>2, <1>3, <1>4, <1>5, <1>6

LEMMA TypesStep == TypeOK /\ Staged /\ [Next]_vars => TypeOK'
<1> SUFFICES ASSUME TypeOK, Staged, [Next]_vars PROVE TypeOK'
  OBVIOUS
<1>1. CASE Crash  BY <1>1, CrashTypes
<1>2. CASE \E r \in Readers : Read(r)  BY <1>2, ReadTypes
<1>3. CASE \E g \in Generators : Generate(g) \/ Lock(g) \/ Generation(g)
  BY <1>3, GenerateTypes, LockTypes, ChooseTypes, WorkTypes DEF Generation
<1>4. CASE \E p \in Requests : Plan(p)  BY <1>4, PlanTypes
<1>5. CASE UNCHANGED vars
  BY <1>5, TypeParts, TypePartsNext
  DEF vars, disk, local, Placed, Sited, Stored, Planning, Marks
<1> QED  BY <1>1, <1>2, <1>3, <1>4, <1>5 DEF Next
-----------------------------------------------------------------------------
(* Who holds the lock, and where everybody is.                             *)

LEMMA InitStaged == Init => Staged
BY DEF Init, Staged, Backs, PlanLabels, Requests

(* One request moves on and the lock stays where it is.                    *)
LEMMA MovesOn ==
  ASSUME TypeOK, Staged, NEW p \in Requests, holder' = holder,
         \A q \in Requests \ {p} : at'[q] = at[q] /\ back'[q] = back[q] /\ page'[q] = page[q],
         back'[p] \in Backs,
         p \in Readers => at'[p] \in {"idle"} \cup PlanLabels /\ back'[p] = "idle",
         p \in Generators =>
           /\ at[p] \in {"idle", "lock"} <=> at'[p] \in {"idle", "lock"}
           /\ at'[p] \in {"idle", "lock"} <=> back'[p] = "idle"
           /\ back'[p] = "again" => at'[p] = "clear",
         at'[p] = "savePage" => page'[p] \in Slugs
  PROVE  Staged'
BY DEF Staged, Requests

LEMMA PlanStaged == ASSUME TypeOK, Staged, NEW p \in Requests, Plan(p) PROVE Staged'
<1>1. /\ holder' = holder /\ back' = back
      /\ \A q \in Requests \ {p} : at'[q] = at[q] /\ page'[q] = page[q]
  BY DEF TypeOK, Plan, Snapshot, SnapshotRead, Load, Recover, SaveSurvey, Examine, SavePage,
         PlanEnds, PlanFails, Goto
<1>2. at[p] \in PlanLabels \cup {"survey"} /\ back[p] \in Backs
  BY DEF Staged, Plan, Snapshot, Load, Recover, SaveSurvey, Examine, SavePage,
         PlanEnds, PlanFails, PlanLabels
<1>3. /\ \/ at'[p] \in (PlanLabels \ {"savePage"}) \cup {back[p], "idle", "unlock"}
         \/ at'[p] = "savePage" /\ page'[p] \in Slugs
      /\ at'[p] = "idle" => back[p] = "idle"
      /\ at'[p] = "unlock" => back[p] # "idle"
  <2> USE DEF TypeOK, Goto, PlanLabels
  <2>1. CASE Snapshot(p)  BY <2>1 DEF Snapshot, SnapshotRead
  <2>2. CASE Load(p)  BY <2>2 DEF Load
  <2>3. CASE Recover(p)  BY <2>3 DEF Recover
  <2>4. CASE SaveSurvey(p)  BY <2>4 DEF SaveSurvey
  <2>5. CASE Examine(p)
    <3>1. at'[p] = "examine" \/ (at'[p] = "savePage" /\ \E s \in todo[p] : page'[p] = s)
      BY <2>5 DEF Examine
    <3> QED  BY <3>1
  <2>6. CASE SavePage(p)  BY <2>6 DEF SavePage
  <2>7. CASE PlanEnds(p)  BY <2>7 DEF PlanEnds
  <2>8. CASE PlanFails(p)  BY <2>8 DEF PlanFails
  <2> QED  BY <2>1, <2>2, <2>3, <2>4, <2>5, <2>6, <2>7, <2>8 DEF Plan
<1> QED
  BY <1>1, <1>2, <1>3, MovesOn DEF Staged, Backs, PlanLabels

LEMMA GenerationStaged ==
  ASSUME TypeOK, Staged, NEW g \in Generators, Generation(g), ~Unlock(g)
  PROVE  Staged'
<1>0. g \in Requests /\ g \notin Readers  BY DEF Requests
<1>1. /\ holder' = holder
      /\ \A q \in Requests \ {g} : at'[q] = at[q] /\ back'[q] = back[q] /\ page'[q] = page[q]
  BY DEF TypeOK, Generation, StartSurvey, SkipSurvey, Replan, SavePlan, RemoveTexts,
         ReplanFails, Targets,
         NextPage, NoMorePages, Begin, Turn, TurnFails, Write, Done, Fail, SaveFails, Clear,
         Marked, Clears, Goto, local
<1>2. at[g] \notin {"idle", "lock"} /\ at'[g] # "savePage" /\ back[g] # "idle"
  BY <1>0 DEF TypeOK, Staged, Backs, Generation, StartSurvey, SkipSurvey, Replan, SavePlan,
         RemoveTexts,
         ReplanFails, Targets, NextPage, NoMorePages, Begin, Turn, TurnFails, Write, Done,
         Fail, SaveFails, Clear, Marked, Clears, Goto
<1>3. /\ at'[g] \notin {"idle", "lock"} /\ back'[g] \in Backs \ {"idle"}
      /\ back'[g] = "again" => at'[g] = "clear"
  <2>1. CASE Clear(g)
    BY <1>0, <1>2, <2>1 DEF TypeOK, Staged, Backs, Clear, Goto
  <2>2. CASE Done(g) \/ Fail(g) \/ SaveFails(g)
    BY <1>0, <1>2, <2>2 DEF TypeOK, Staged, Backs, Done, Fail, SaveFails, Clears, Goto
  <2>3. CASE SavePlan(g) \/ RemoveTexts(g)
    BY <1>0, <1>2, <2>3 DEF TypeOK, Staged, Backs, SavePlan, RemoveTexts, Goto
  <2>4. CASE StartSurvey(g) \/ SkipSurvey(g) \/ Replan(g) \/ ReplanFails(g) \/ Targets(g)
               \/ NextPage(g) \/ NoMorePages(g) \/ Begin(g) \/ Turn(g) \/ TurnFails(g) \/ Write(g)
    BY <1>0, <1>2, <2>4
    DEF TypeOK, Staged, Backs, StartSurvey, SkipSurvey, Replan, ReplanFails, Targets,
        NextPage, NoMorePages, Begin, Turn, TurnFails, Write, Marked, Goto, local
  <2> QED  BY <2>1, <2>2, <2>3, <2>4 DEF Generation
<1> QED  BY <1>0, <1>1, <1>2, <1>3, MovesOn

LEMMA StagedStep == TypeOK /\ Staged /\ [Next]_vars => Staged'
<1> SUFFICES ASSUME TypeOK, Staged, [Next]_vars PROVE Staged'
  OBVIOUS
<1>1. CASE Crash  BY <1>1 DEF Crash, Staged, Backs, PlanLabels, Requests
<1>2. ASSUME NEW r \in Readers, Read(r) PROVE Staged'
  BY <1>2, MovesOn DEF Read, SnapshotRead, Goto, TypeOK, Staged, PlanLabels, Requests
<1>3. ASSUME NEW g \in Generators, Generate(g) PROVE Staged'
  BY <1>3, MovesOn DEF Generate, Goto, TypeOK, Staged, Requests
<1>4. ASSUME NEW g \in Generators, Lock(g) PROVE Staged'
  <2>1. g \in Requests /\ at[g] = "lock" /\ holder = None /\ holder' = g /\ page' = page
    BY <1>4 DEF Lock, Requests
  <2>2. /\ at'[g] = "snapshot" /\ back'[g] = "survey"
        /\ \A q \in Requests \ {g} : at'[q] = at[q] /\ back'[q] = back[q]
    BY <1>4, <2>1 DEF Lock, Goto, TypeOK
  <2> QED  BY <2>1, <2>2 DEF Staged, Backs, Requests
<1>5. ASSUME NEW g \in Generators, Unlock(g) PROVE Staged'
  <2>1. g \in Requests /\ at[g] = "unlock" /\ holder' = None /\ page' = page
    BY <1>5 DEF Unlock, Requests
  <2>2. /\ at'[g] = "idle" /\ back'[g] = "idle"
        /\ \A q \in Requests \ {g} : at'[q] = at[q] /\ back'[q] = back[q]
    BY <1>5, <2>1 DEF Unlock, Goto, TypeOK
  <2> QED  BY <2>1, <2>2 DEF Staged, Backs, Requests
<1>6. ASSUME NEW g \in Generators, Generation(g), ~Unlock(g) PROVE Staged'
  BY <1>6, GenerationStaged
<1>7. ASSUME NEW p \in Requests, Plan(p) PROVE Staged'
  BY <1>7, PlanStaged
<1>8. CASE UNCHANGED vars
  BY <1>8 DEF vars, local, Staged
<1> QED  BY <1>1, <1>2, <1>3, <1>4, <1>5, <1>6, <1>7, <1>8 DEF Next
-----------------------------------------------------------------------------
(* What is active.                                                         *)

(* The generator that holds the lock is at work on a page, or nobody is.   *)
LEMMA AtWork ==
  ASSUME TypeOK, Staged, ActiveIsLive, NEW g \in Generators, at[g] \notin {"idle", "lock"}
  PROVE  /\ holder = g
         /\ at[g] \in MarkedLabels => active = {page[g]}
         /\ at[g] \notin MarkedLabels => active = {}
BY DEF Staged, ActiveIsLive

LEMMA StaysActive ==
  ASSUME ActiveIsLive, active' = active,
         \A h \in Generators :
           /\ holder' = h /\ at'[h] \in MarkedLabels <=> holder = h /\ at[h] \in MarkedLabels
           /\ holder = h /\ at[h] \in MarkedLabels => page'[h] = page[h]
  PROVE  ActiveIsLive'
BY DEF ActiveIsLive

(* A step of plan works on nothing and disturbs nobody else.               *)
LEMMA PlanUnmarked ==
  ASSUME TypeOK, Staged, NEW p \in Requests, Plan(p)
  PROVE  /\ holder' = holder /\ active' = active /\ text' = text
         /\ \A q \in Requests \ {p} : at'[q] = at[q] /\ page'[q] = page[q] /\ site'[q] = site[q]
         /\ at[p] \notin MarkedLabels /\ at'[p] \notin MarkedLabels
<1>1. /\ holder' = holder /\ active' = active /\ text' = text
      /\ \A q \in Requests \ {p} : at'[q] = at[q] /\ page'[q] = page[q] /\ site'[q] = site[q]
  <2> USE DEF TypeOK, Goto, disk
  <2>1. CASE Snapshot(p)  BY <2>1 DEF Snapshot, SnapshotRead
  <2>2. CASE Load(p)  BY <2>2 DEF Load
  <2>3. CASE Recover(p)  BY <2>3 DEF Recover
  <2>4. CASE SaveSurvey(p)  BY <2>4 DEF SaveSurvey
  <2>5. CASE Examine(p)  BY <2>5 DEF Examine
  <2>6. CASE SavePage(p)  BY <2>6 DEF SavePage
  <2>7. CASE PlanEnds(p)  BY <2>7 DEF PlanEnds
  <2>8. CASE PlanFails(p)  BY <2>8 DEF PlanFails
  <2> QED  BY <2>1, <2>2, <2>3, <2>4, <2>5, <2>6, <2>7, <2>8 DEF Plan
<1>2. at[p] \notin MarkedLabels
  BY DEF Plan, Snapshot, Load, Recover, SaveSurvey, Examine, SavePage, PlanEnds, PlanFails,
         MarkedLabels
<1>3. at'[p] \notin MarkedLabels
  <2> USE DEF TypeOK, Goto, MarkedLabels
  <2>1. CASE Snapshot(p)  BY <2>1 DEF Snapshot, SnapshotRead
  <2>2. CASE Load(p)  BY <2>2 DEF Load
  <2>3. CASE Recover(p)  BY <2>3 DEF Recover
  <2>4. CASE SaveSurvey(p)  BY <2>4 DEF SaveSurvey
  <2>5. CASE Examine(p)
    <3>1. at'[p] = "examine" \/ at'[p] = "savePage"
      BY <2>5 DEF Examine
    <3> QED  BY <3>1
  <2>6. CASE SavePage(p)  BY <2>6 DEF SavePage
  <2>7. CASE PlanEnds(p)  BY <2>7 DEF PlanEnds, Staged, Backs
  <2>8. CASE PlanFails(p)  BY <2>8 DEF PlanFails
  <2> QED  BY <2>1, <2>2, <2>3, <2>4, <2>5, <2>6, <2>7, <2>8 DEF Plan
<1> QED  BY <1>1, <1>2, <1>3

LEMMA PlanActive == ASSUME TypeOK, Staged, ActiveIsLive, NEW p \in Requests, Plan(p)
                    PROVE  ActiveIsLive'
BY PlanUnmarked, StaysActive DEF Requests

LEMMA GenerationActive ==
  ASSUME TypeOK, Staged, ActiveIsLive, NEW g \in Generators, Generation(g)
  PROVE  ActiveIsLive'
<1>0. g \in Requests /\ at[g] \notin {"idle", "lock"} /\ holder = g
  <2>1. g \in Requests  BY DEF Requests
  <2>2. at[g] \notin {"idle", "lock"}
    BY DEF Generation, StartSurvey, SkipSurvey, Replan, SavePlan, RemoveTexts, ReplanFails, Targets,
           NextPage, NoMorePages, Begin, Turn, TurnFails, Write, Done, Fail, SaveFails,
           Clear, Unlock
  <2> QED  BY <2>1, <2>2, AtWork
<1>1. \A h \in Generators \ {g} : holder' # h
  BY <1>0 DEF Generation, StartSurvey, SkipSurvey, Replan, SavePlan, RemoveTexts, ReplanFails,
         Targets,
         NextPage, NoMorePages, Begin, Turn, TurnFails, Write, Done, Fail, SaveFails,
         Clear, Unlock, Marked, Clears
<1>2. ASSUME NEW s, at[g] \in {"survey", "pages"}, Marked(g, s), holder' = holder
      PROVE  ActiveIsLive'
  <2>1. active = {}
    BY <1>0, <1>2, AtWork DEF MarkedLabels
  <2>2. active' = {s} /\ page'[g] = s /\ at'[g] \in MarkedLabels
    BY <1>0, <1>2, <2>1 DEF Marked, Goto, TypeOK, MarkedLabels
  <2> QED  BY <1>0, <1>1, <1>2, <2>2 DEF ActiveIsLive
<1>3. CASE StartSurvey(g)
  <2>1. at[g] \in {"survey", "pages"} /\ Marked(g, Survey) /\ holder' = holder
    BY <1>3 DEF StartSurvey
  <2> QED  BY <1>2, <2>1
<1>4. CASE NextPage(g)
  <2>1. at[g] \in {"survey", "pages"} /\ holder' = holder /\ \E s \in todo[g] : Marked(g, s)
    BY <1>4 DEF NextPage
  <2> QED  BY <1>2, <2>1
<1>5. CASE Clear(g)
  <2>1. active = {page[g]}  BY <1>0, <1>5, AtWork DEF Clear, MarkedLabels
  <2>2. active' = {}  BY <1>5, <2>1 DEF Clear
  <2>3. at'[g] \notin MarkedLabels
    <3>1. \/ at'[g] = "snapshot"
          \/ at'[g] = back[g] /\ back[g] # "again"
      BY <1>0, <1>5 DEF Clear, Goto, TypeOK
    <3>2. back[g] \in Backs  BY <1>0 DEF Staged
    <3> QED  BY <3>1, <3>2 DEF Backs, MarkedLabels
  <2> QED  BY <1>1, <2>2, <2>3 DEF ActiveIsLive
<1>6. CASE SkipSurvey(g) \/ Replan(g) \/ SavePlan(g) \/ RemoveTexts(g) \/ ReplanFails(g)
       \/ Targets(g)
             \/ NoMorePages(g) \/ Unlock(g)
  <2>1. at[g] \notin MarkedLabels /\ at'[g] \notin MarkedLabels /\ active' = active
    BY <1>0, <1>6 DEF SkipSurvey, Replan, SavePlan, RemoveTexts, ReplanFails, Targets,
           NoMorePages, Unlock,
           Goto, TypeOK, MarkedLabels
  <2> QED  BY <1>0, <1>1, <2>1, StaysActive
<1>7. CASE Begin(g) \/ Turn(g) \/ TurnFails(g) \/ Write(g) \/ Done(g) \/ Fail(g) \/ SaveFails(g)
  <2>1. /\ at[g] \in MarkedLabels /\ at'[g] \in MarkedLabels
        /\ active' = active /\ holder' = holder /\ page' = page
    BY <1>0, <1>7 DEF Begin, Turn, TurnFails, Write, Done, Fail, SaveFails, Clears, Goto,
           TypeOK, MarkedLabels, local
  <2> QED  BY <1>0, <1>1, <2>1, StaysActive
<1> QED  BY <1>3, <1>4, <1>5, <1>6, <1>7 DEF Generation

LEMMA ActiveStep == TypeOK /\ Staged /\ ActiveIsLive /\ [Next]_vars => ActiveIsLive'
<1> SUFFICES ASSUME TypeOK, Staged, ActiveIsLive, [Next]_vars PROVE ActiveIsLive'
  OBVIOUS
<1>1. CASE Crash  BY <1>1 DEF Crash, ActiveIsLive, MarkedLabels, Requests
<1>2. ASSUME NEW r \in Readers, Read(r) PROVE ActiveIsLive'
  BY <1>2, StaysActive DEF Read, SnapshotRead, Goto, TypeOK, Requests
<1>3. ASSUME NEW g \in Generators, Generate(g) PROVE ActiveIsLive'
  BY <1>3, StaysActive DEF Generate, Goto, TypeOK, Requests, MarkedLabels
<1>4. ASSUME NEW g \in Generators, Lock(g) PROVE ActiveIsLive'
  <2>1. at'[g] \notin MarkedLabels /\ holder = None /\ holder' = g /\ active' = active
    BY <1>4 DEF Lock, Goto, TypeOK, Requests, MarkedLabels
  <2> QED  BY <2>1, StaysActive
<1>5. ASSUME NEW g \in Generators, Generation(g) PROVE ActiveIsLive'
  BY <1>5, GenerationActive
<1>6. ASSUME NEW p \in Requests, Plan(p) PROVE ActiveIsLive'
  BY <1>6, PlanActive
<1>7. CASE UNCHANGED vars  BY <1>7 DEF vars, local, ActiveIsLive
<1> QED  BY <1>1, <1>2, <1>3, <1>4, <1>5, <1>6, <1>7 DEF Next
-----------------------------------------------------------------------------
(* The survey and its text.                                                *)

(* One request moves on; no survey becomes ready and no text of one is     *)
(* written.                                                                *)
LEMMA SurveyStays ==
  ASSUME TypeOK, SurveyCopies, SurveyReadyIsCurrent, NEW p \in Requests,
         \A q \in Requests \ {p} : at'[q] = at[q] /\ page'[q] = page[q] /\ site'[q] = site[q],
         survey'.status # "ready" \/ survey' = survey,
         text'[Survey] = text[Survey],
         at'[p] = "saveSurvey" => site'[p].survey.status = "error",
         p \in Generators /\ page'[p] = Survey =>
           /\ at'[p] = "begin" => site'[p].survey.status = "generating"
           /\ at'[p] \in {"turn", "write", "done", "fail"} => survey'.status # "ready"
           /\ at'[p] = "done" => site'[p].survey.revision = text[Survey]
           /\ at'[p] = "fail" => site'[p].survey.status = "error"
  PROVE  SurveyCopies' /\ SurveyReadyIsCurrent'
BY DEF SurveyCopies, SurveyReadyIsCurrent, Requests

(* Only the generator that holds the lock works on the survey.             *)
LEMMA OneSurvey ==
  ASSUME TypeOK, Staged, NEW g \in Generators, at[g] \in MarkedLabels,
         NEW h \in Generators \ {g}
  PROVE  page[h] # Survey
<1>1. holder = g  BY DEF Staged, MarkedLabels
<1>2. at[h] \in {"idle", "lock"}  BY <1>1 DEF Staged
<1>3. h \in Requests  BY DEF Requests
<1> QED  BY <1>2, <1>3 DEF TypeOK, MarkedLabels, Survey, None

LEMMA PlanSurvey ==
  ASSUME TypeOK, Staged, TypeOK', Staged', SurveyCopies, SurveyReadyIsCurrent,
         NEW p \in Requests, Plan(p)
  PROVE  SurveyCopies' /\ SurveyReadyIsCurrent'
<1>1. /\ text' = text /\ at'[p] \notin MarkedLabels
      /\ \A q \in Requests \ {p} : at'[q] = at[q] /\ page'[q] = page[q] /\ site'[q] = site[q]
  BY PlanUnmarked
<1>2. page'[p] # Survey
  <2>1. CASE page'[p] = None  BY <2>1 DEF Survey, None
  <2>2. CASE page'[p] # None
    <3>1. at'[p] = "savePage"  BY <1>1, <2>2 DEF TypeOK
    <3>2. page'[p] \in Slugs  BY <3>1 DEF Staged
    <3> QED  BY <3>2, NamesAssumption
  <2> QED  BY <2>1, <2>2
<1>3. survey' = survey \/ survey'.status = "error"
  <2>1. CASE SaveSurvey(p)  BY <2>1 DEF SaveSurvey, SurveyCopies
  <2>2. CASE ~SaveSurvey(p)
    BY <2>2 DEF Plan, Snapshot, Load, Recover, Examine, SavePage, PlanEnds, PlanFails, disk
  <2> QED  BY <2>1, <2>2
<1>4. at'[p] = "saveSurvey" => site'[p].survey.status = "error"
  <2> USE DEF TypeOK, Goto
  <2>1. CASE Snapshot(p)  BY <2>1 DEF Snapshot, SnapshotRead
  <2>2. CASE Load(p)  BY <2>2 DEF Load
  <2>3. CASE Recover(p)
    <3>1. CASE Survey \in active  BY <2>3, <3>1 DEF Recover
    <3>2. CASE Survey \notin active
      <4>1. site[p] \in Site_  BY DEF TypeOK, Site_
      <4>2. site' = [site EXCEPT ![p] = [site[p] EXCEPT !.survey = [site[p].survey EXCEPT !.status = "error"]]]
        BY <2>3, <3>2 DEF Recover
      <4> QED  BY <4>1, <4>2 DEF Site_, Survey_
    <3> QED  BY <3>1, <3>2
  <2>4. CASE SaveSurvey(p)  BY <2>4 DEF SaveSurvey
  <2>5. CASE Examine(p)
    <3>1. at'[p] = "examine" \/ at'[p] = "savePage"
      BY <2>5 DEF Examine
    <3> QED  BY <3>1
  <2>6. CASE SavePage(p)  BY <2>6 DEF SavePage
  <2>7. CASE PlanEnds(p)
    <3>1. at'[p] = back[p]  BY <2>7 DEF PlanEnds
    <3> QED  BY <3>1 DEF Staged, Backs
  <2>8. CASE PlanFails(p)  BY <2>8 DEF PlanFails
  <2> QED  BY <2>1, <2>2, <2>3, <2>4, <2>5, <2>6, <2>7, <2>8 DEF Plan
<1> QED  BY <1>1, <1>2, <1>3, <1>4, SurveyStays

(* What a run does besides writing a text or saving one that is done.      *)
LEMMA RunSurvey ==
  ASSUME TypeOK, Staged, SurveyCopies, SurveyReadyIsCurrent,
         NEW g \in Generators, Generation(g), ~Write(g), ~Done(g)
  PROVE  SurveyCopies' /\ SurveyReadyIsCurrent'
<1>0. g \in Requests /\ site[g] \in Site_  BY DEF TypeOK, Requests, Site_
<1>1. \A q \in Requests \ {g} : at'[q] = at[q] /\ page'[q] = page[q] /\ site'[q] = site[q]
  BY DEF TypeOK, Generation, StartSurvey, SkipSurvey, Replan, SavePlan, RemoveTexts,
         ReplanFails, Targets,
         NextPage, NoMorePages, Begin, Turn, TurnFails, Fail, SaveFails, Clear, Unlock,
         Marked, Clears, Becomes, Goto, local
<1>2. text'[Survey] = text[Survey]
  <2>1. CASE RemoveTexts(g)  BY <1>0, <2>1, NamesAssumption DEF RemoveTexts, TypeOK
  <2>2. CASE ~RemoveTexts(g)
    BY <2>2 DEF Generation, StartSurvey, SkipSurvey, Replan, SavePlan, ReplanFails, Targets, NextPage,
           NoMorePages, Begin, Turn, TurnFails, Fail, SaveFails, Clear, Unlock, disk
  <2> QED  BY <2>1, <2>2
<1>3. CASE StartSurvey(g)
  <2>1. /\ at'[g] = "begin" /\ survey' = survey
        /\ site' = [site EXCEPT ![g] = [site[g] EXCEPT !.survey =
                      [status |-> "generating", revision |-> site[g].revision]]]
    BY <1>0, <1>3 DEF StartSurvey, Marked, Goto, TypeOK, disk
  <2>2. site'[g].survey.status = "generating"  BY <1>0, <2>1 DEF TypeOK, Site_
  <2> QED  BY <1>0, <1>1, <1>2, <2>1, <2>2, SurveyStays
<1>4. CASE NextPage(g)
  <2>1. PICK s \in todo[g] : Marked(g, s)  BY <1>4 DEF NextPage
  <2>2. s \in Slugs  BY <1>0, <2>1 DEF TypeOK
  <2>3. page'[g] # Survey /\ at'[g] = "begin" /\ survey' = survey
    BY <1>0, <1>4, <2>1, <2>2 DEF NextPage, Marked, Goto, TypeOK, disk
  <2> QED  BY <1>0, <1>1, <1>2, <2>3, SurveyStays
<1>5. CASE SkipSurvey(g) \/ Replan(g) \/ SavePlan(g) \/ RemoveTexts(g) \/ ReplanFails(g)
       \/ Targets(g)
             \/ NoMorePages(g) \/ Unlock(g)
  <2>1. at[g] \notin MarkedLabels \cup {"savePage"} /\ page' = page /\ survey' = survey
        /\ at'[g] # "saveSurvey"
    BY <1>0, <1>5 DEF SkipSurvey, Replan, SavePlan, RemoveTexts, ReplanFails, Targets,
           NoMorePages, Unlock,
           TypeOK, MarkedLabels, Goto, disk, local
  <2>2. page[g] = None  BY <1>0, <2>1 DEF TypeOK
  <2> QED  BY <1>0, <1>1, <1>2, <2>1, <2>2, SurveyStays DEF Survey, None
<1>6. CASE Begin(g) \/ Turn(g)
  <2>1. /\ at'[g] \in {"turn", "write"} /\ page' = page /\ site' = site
        /\ at'[g] = "turn" => at[g] = "begin" /\ Saved(g)
        /\ at'[g] = "write" => at[g] = "turn" /\ survey' = survey
    BY <1>0, <1>6 DEF Begin, Turn, TypeOK, Goto, disk, local
  <2>2. survey' = survey \/ (page[g] = Survey /\ survey' = site[g].survey /\ at[g] = "begin")
    BY <2>1 DEF Saved
  <2>3. page[g] = Survey => survey'.status # "ready"
    BY <2>1, <2>2 DEF SurveyCopies, Saved
  <2> QED  BY <1>0, <1>1, <1>2, <2>1, <2>2, <2>3, SurveyStays
<1>7. CASE TurnFails(g)
  <2>1. /\ at'[g] = "fail" /\ page' = page /\ survey' = survey /\ at[g] \in {"turn", "write"}
        /\ Becomes(g, "error", Revision(g))
    BY <1>0, <1>7 DEF TurnFails, TypeOK, Goto, disk
  <2>2. page[g] = Survey => site'[g].survey.status = "error"
    <3> SUFFICES ASSUME page[g] = Survey PROVE site'[g].survey.status = "error"
      OBVIOUS
    <3>1. site' = [site EXCEPT ![g] = [site[g] EXCEPT !.survey =
                     [status |-> "error", revision |-> site[g].revision]]]
      BY <2>1 DEF Becomes
    <3> QED  BY <1>0, <3>1 DEF TypeOK, Site_
  <2>3. page[g] = Survey => survey.status # "ready"
    BY <2>1 DEF SurveyCopies
  <2> QED  BY <1>0, <1>1, <1>2, <2>1, <2>2, <2>3, SurveyStays
<1>8. CASE Fail(g) \/ SaveFails(g) \/ Clear(g)
  <2>1. at'[g] \notin {"begin", "turn", "write", "done", "fail", "saveSurvey"}
    <3>1. CASE Fail(g) \/ SaveFails(g)
      BY <1>0, <3>1 DEF Fail, SaveFails, Clears, TypeOK, Goto
    <3>2. CASE Clear(g)
      <4>1. at'[g] = "snapshot" \/ (at'[g] = back[g] /\ back[g] # "again")
        BY <1>0, <3>2 DEF Clear, TypeOK, Goto
      <4>2. back[g] \in Backs  BY <1>0 DEF Staged
      <4> QED  BY <4>1, <4>2 DEF Backs
    <3> QED  BY <1>8, <3>1, <3>2
  <2>2. survey' = survey \/ survey'.status # "ready"
    BY <1>8 DEF Fail, SaveFails, Clear, Saved, SurveyCopies, disk
  <2> QED  BY <1>0, <1>1, <1>2, <2>1, <2>2, SurveyStays
<1> QED  BY <1>3, <1>4, <1>5, <1>6, <1>7, <1>8 DEF Generation

(* The text comes first and the record after it.                           *)
LEMMA WriteSurvey ==
  ASSUME TypeOK, Staged, SurveyCopies, SurveyReadyIsCurrent,
         NEW g \in Generators, Write(g) \/ Done(g)
  PROVE  SurveyCopies' /\ SurveyReadyIsCurrent'
<1>0. /\ g \in Requests /\ site[g] \in Site_ /\ page' = page
      /\ at[g] \in MarkedLabels /\ at'[g] \in {"done", "clear"}
      /\ \A q \in Requests \ {g} : at'[q] = at[q] /\ page'[q] = page[q] /\ site'[q] = site[q]
  BY DEF TypeOK, Requests, Site_, Write, Done, Becomes, Clears, Goto, MarkedLabels
<1>1. CASE page[g] # Survey
  <2>1. survey' = survey /\ text'[Survey] = text[Survey]
    BY <1>1 DEF Write, Done, Saved, TypeOK
  <2> QED  BY <1>0, <1>1, <2>1, SurveyStays
<1>2. CASE page[g] = Survey /\ Write(g)
  <2>1. /\ survey' = survey /\ survey.status # "ready" /\ at'[g] = "done"
        /\ text'[Survey] = site[g].revision
    BY <1>0, <1>2 DEF Write, SurveyCopies, TypeOK, Goto
  <2>2. site'[g].survey.revision = site[g].revision
    <3>1. site' = [site EXCEPT ![g] = [site[g] EXCEPT !.survey =
                     [status |-> "ready", revision |-> site[g].revision]]]
      BY <1>2 DEF Write, Becomes
    <3> QED  BY <1>0, <3>1 DEF TypeOK, Site_
  <2>3. \A h \in Generators \ {g} : page'[h] # Survey
    BY <1>0, OneSurvey
  <2>4. SurveyCopies'
    BY <1>0, <2>1, <2>2, <2>3 DEF SurveyCopies, Requests
  <2> QED  BY <2>1, <2>4 DEF SurveyReadyIsCurrent
<1>3. CASE page[g] = Survey /\ Done(g)
  <2>1. /\ survey' = site[g].survey /\ text' = text /\ site' = site
        /\ site[g].survey.revision = text[Survey] /\ at'[g] = "clear"
    BY <1>0, <1>3 DEF Done, Saved, SurveyCopies, TypeOK, Clears, Goto
  <2>2. \A h \in Generators \ {g} : page'[h] # Survey
    BY <1>0, OneSurvey
  <2>3. SurveyCopies'
    BY <1>0, <2>1, <2>2 DEF SurveyCopies, Requests
  <2> QED  BY <2>1, <2>3 DEF SurveyReadyIsCurrent
<1> QED  BY <1>1, <1>2, <1>3

LEMMA SurveyStep ==
  ASSUME TypeOK, Staged, TypeOK', Staged', SurveyCopies, SurveyReadyIsCurrent, [Next]_vars
  PROVE  SurveyCopies' /\ SurveyReadyIsCurrent'
<1>1. CASE Crash
  BY <1>1 DEF Crash, SurveyCopies, SurveyReadyIsCurrent, Requests, Survey, None, disk
<1>2. ASSUME NEW r \in Readers, Read(r) PROVE SurveyCopies' /\ SurveyReadyIsCurrent'
  <2>1. /\ r \in Requests /\ r \notin Generators /\ at'[r] = "load" /\ UNCHANGED disk
        /\ \A q \in Requests \ {r} : at'[q] = at[q] /\ page'[q] = page[q] /\ site'[q] = site[q]
    BY <1>2 DEF Read, SnapshotRead, Goto, TypeOK, Requests
  <2> QED  BY <2>1, SurveyStays DEF disk
<1>3. ASSUME NEW g \in Generators, Generate(g) \/ Lock(g)
      PROVE  SurveyCopies' /\ SurveyReadyIsCurrent'
  <2>1. /\ g \in Requests /\ at'[g] \in {"lock", "snapshot"} /\ UNCHANGED disk
        /\ \A q \in Requests \ {g} : at'[q] = at[q] /\ page'[q] = page[q] /\ site'[q] = site[q]
    BY <1>3 DEF Generate, Lock, Goto, TypeOK, Requests
  <2> QED  BY <2>1, SurveyStays DEF disk
<1>4. ASSUME NEW g \in Generators, Generation(g) PROVE SurveyCopies' /\ SurveyReadyIsCurrent'
  BY <1>4, RunSurvey, WriteSurvey
<1>5. ASSUME NEW p \in Requests, Plan(p) PROVE SurveyCopies' /\ SurveyReadyIsCurrent'
  BY <1>5, PlanSurvey
<1>6. CASE UNCHANGED vars
  BY <1>6 DEF vars, disk, local, SurveyCopies, SurveyReadyIsCurrent
<1> QED  BY <1>1, <1>2, <1>3, <1>4, <1>5, <1>6 DEF Next
-----------------------------------------------------------------------------
(* Pages, their copies and their texts.                                    *)

Shown == {"ready", "stale"}

(* What there is of a page, in the manifest and in the copies of it.       *)
Known(s) == {NoPage, pages[s]} \cup {site[p].pages[s] : p \in Requests}

(* A record of the revision of one there is, shown only if that one is.    *)
From(q, s) ==
  \E o \in Known(s) : q.revision = o.revision /\ (q.status \in Shown => o.status \in Shown)

(* A step that writes no text carries records from one place to another.   *)
Carries ==
  \A s \in Slugs :
    /\ From(pages'[s], s)
    /\ \A p \in Requests : From(site'[p].pages[s], s)
    /\ text'[s] \in {0, text[s]}

LEMMA FromKnown ==
  ASSUME NEW s \in Slugs
  PROVE  From(NoPage, s) /\ From(pages[s], s) /\ \A p \in Requests : From(site[p].pages[s], s)
BY DEF From, Known

(* Only one request changes its copy.                                      *)
LEMMA CarriedByOne ==
  ASSUME TypeOK, NEW p \in Requests, \A q \in Requests \ {p} : site'[q] = site[q],
         \A s \in Slugs : /\ pages'[s] = pages[s] \/ From(pages'[s], s)
                          /\ From(site'[p].pages[s], s)
                          /\ text'[s] \in {0, text[s]}
  PROVE  Carries
BY FromKnown DEF Carries

LEMMA KeptPages ==
  ASSUME NEW p, NEW x \in Site_, NEW slugs
  PROVE  /\ Kept(p, x, slugs).revision = x.revision
         /\ \A s \in Slugs : Kept(p, x, slugs).pages[s] \in {x.pages[s], NoPage}
<1>1. CASE back[p] # "idle"  BY <1>1 DEF Kept
<1>2. CASE back[p] = "idle"
  <2> DEFINE q == [s \in Slugs |-> IF s \in slugs THEN x.pages[s] ELSE NoPage]
             v == IF x.survey.status = "generating" THEN x.survey ELSE NoSurvey
  <2>1. Kept(p, x, slugs) = [x EXCEPT !.pages = q, !.survey = v]
    BY <1>2 DEF Kept
  <2>2. \A s \in Slugs : q[s] \in {x.pages[s], NoPage}
    OBVIOUS
  <2> HIDE DEF q, v
  <2> QED  BY <2>1, <2>2 DEF Site_
<1> QED  BY <1>1, <1>2

(* A page keeps its revision when it is examined, and is shown only if it  *)
(* was.                                                                    *)
LEMMA ExaminedFrom ==
  ASSUME NEW q \in Page_, NEW s, NEW revision, NEW changed
  PROVE  /\ Examined(q, s, revision, changed).revision = q.revision
         /\ Examined(q, s, revision, changed).status \in Shown => q.status \in Shown
BY DEF Examined, Page_, Shown

(* The texts follow from what is carried.                                  *)
LEMMA CarriedText ==
  ASSUME TypeOK, CopiesHaveText, NeverAheadOfItsText, Carries
  PROVE  CopiesHaveText' /\ NeverAheadOfItsText'
<1>1. ASSUME NEW s \in Slugs, NEW q, From(q, s), q.status \in Shown, text'[s] # 0
      PROVE  q.revision <= text'[s]
  <2>1. text'[s] = text[s] /\ text[s] # 0  BY <1>1 DEF Carries
  <2>2. PICK o \in Known(s) : q.revision = o.revision /\ o.status \in Shown
    BY <1>1 DEF From
  <2>3. o.revision <= text[s]
    BY <2>1, <2>2 DEF Known, Shown, CopiesHaveText, NeverAheadOfItsText, NoPage, None
  <2> QED  BY <2>1, <2>2, <2>3
<1> QED  BY <1>1 DEF Carries, CopiesHaveText, NeverAheadOfItsText, Shown

(* Bounded, after the step.                                                *)
BoundedNext(revision) ==
  \A s \in Slugs :
    /\ text'[s] <= revision /\ pages'[s].revision <= revision
    /\ \A p \in Requests : site'[p].pages[s].revision <= revision

LEMMA CarriedBound ==
  ASSUME TypeOK, Carries, NEW revision \in Nat, Bounded(revision)
  PROVE  BoundedNext(revision)
<1>1. ASSUME NEW s \in Slugs, NEW q, From(q, s) PROVE q.revision <= revision
  <2>1. PICK o \in Known(s) : q.revision = o.revision  BY <1>1 DEF From
  <2>2. o.revision <= revision  BY <2>1 DEF Known, Bounded, NoPage
  <2> QED  BY <2>1, <2>2
<1>2. ASSUME NEW s \in Slugs PROVE text'[s] <= revision  BY DEF Carries, Bounded
<1> QED  BY <1>1, <1>2 DEF Carries, BoundedNext

LEMMA SiteRevisions ==
  ASSUME TypeOK
  PROVE  head \in Nat /\ \A p \in Requests : site[p].revision \in Nat
BY DEF TypeOK, Revisions

(* No request reads the snapshot.                                          *)
LEMMA CarriedRevisions ==
  ASSUME TypeOK, RevisionsKnown, Carries, head' = head,
         \A p \in Requests : site'[p].revision \in {0, site[p].revision},
         \A g \in Generators : Current(g)' => Current(g) /\ site'[g].revision = site[g].revision
  PROVE  RevisionsKnown'
<1>1. BoundedNext(head)  BY CarriedBound, SiteRevisions DEF RevisionsKnown
<1>2. \A p \in Requests : site'[p].revision <= head
  BY SiteRevisions DEF RevisionsKnown
<1>3. ASSUME NEW g \in Generators, Current(g)'
      PROVE  site'[g].revision > 0 /\ BoundedNext(site'[g].revision)
  <2>1. /\ Current(g) /\ g \in Requests /\ site'[g].revision = site[g].revision
    BY <1>3 DEF Requests
  <2>2. site[g].revision > 0 /\ Bounded(site[g].revision)  BY <2>1 DEF RevisionsKnown
  <2>3. BoundedNext(site[g].revision)  BY <2>1, <2>2, CarriedBound, SiteRevisions
  <2> QED  BY <2>1, <2>2, <2>3
<1> QED  BY <1>1, <1>2, <1>3 DEF RevisionsKnown, Bounded, BoundedNext

(* One request reads the snapshot: of no earlier revision than all before. *)
LEMMA SnapshotCarries ==
  ASSUME TypeOK, Staged, RevisionsKnown, CopiesHaveText, NeverAheadOfItsText,
         NEW p \in Requests, SnapshotRead(p), UNCHANGED disk,
         \A q \in Requests \ {p} : at'[q] = at[q]
  PROVE  RevisionsKnown' /\ CopiesHaveText' /\ NeverAheadOfItsText'
<1>1. /\ head' \in Nat /\ head' >= head /\ head' > 0 /\ head \in Nat
      /\ site'[p] = [NoSite EXCEPT !.revision = head']
      /\ \A q \in Requests \ {p} : site'[q] = site[q]
  BY DEF SnapshotRead, TypeOK
<1>2. site'[p].revision = head' /\ \A s \in Slugs : site'[p].pages[s] = NoPage
  BY <1>1 DEF NoSite
<1>3. Carries
  BY <1>1, <1>2, CarriedByOne, FromKnown DEF disk
<1>4. BoundedNext(head')
  <2>1. \A s \in Slugs : /\ text[s] \in Nat /\ pages[s].revision \in Nat
                         /\ \A q \in Requests : site[q].pages[s].revision \in Nat
    BY DEF TypeOK, Revisions, Page_
  <2>2. Bounded(head')  BY <1>1, <2>1 DEF RevisionsKnown, Bounded
  <2> QED  BY <1>1, <1>3, <2>2, CarriedBound
<1>5. ASSUME NEW q \in Requests PROVE site'[q].revision <= head'
  <2>1. site[q].revision \in Nat /\ site[q].revision <= head
    BY SiteRevisions DEF RevisionsKnown
  <2>2. CASE q = p
    <3>1. head' <= head'  BY <1>1
    <3> QED  BY <1>2, <2>2, <3>1
  <2>3. CASE q # p
    <3>1. site'[q].revision = site[q].revision  BY <1>1, <2>3
    <3> QED  BY <1>1, <2>1, <3>1
  <2> QED  BY <2>2, <2>3
<1>6. ASSUME NEW g \in Generators, Current(g)'
      PROVE  site'[g].revision > 0 /\ BoundedNext(site'[g].revision)
  <2>1. CASE g = p  BY <1>1, <1>2, <1>4, <2>1
  <2>2. CASE g # p
    <3>1. g \in Requests /\ at'[g] = at[g] /\ site'[g] = site[g]
      BY <1>1, <2>2 DEF Requests
    <3>2. Current(g)  BY <1>6, <3>1 DEF Current
    <3>3. site[g].revision > 0 /\ Bounded(site[g].revision)  BY <3>2 DEF RevisionsKnown
    <3>4. BoundedNext(site[g].revision)  BY <1>3, <3>1, <3>3, CarriedBound, SiteRevisions
    <3> QED  BY <3>1, <3>3, <3>4
  <2> QED  BY <2>1, <2>2
<1> QED  BY <1>3, <1>4, <1>5, <1>6, CarriedText DEF RevisionsKnown, Bounded, BoundedNext
(* What every step of plan but Snapshot, and every step of a run but Write,*)
(* leaves: the copies of all others, the lock and the snapshot's revision. *)
LEMMA PlanCarries ==
  ASSUME TypeOK, Staged, NEW p \in Requests, Plan(p), ~Snapshot(p)
  PROVE  /\ Carries /\ head' = head
         /\ site'[p].revision \in {0, site[p].revision}
         /\ Current(p)' => Current(p) /\ site'[p].revision = site[p].revision
<1>0. /\ site[p] \in Site_ /\ text' = text /\ site[p].revision \in Revisions
      /\ \A s \in Slugs : site[p].pages[s] \in Page_
      /\ \A q \in Requests \ {p} : site'[q] = site[q]
  BY PlanUnmarked DEF TypeOK, Site_
<1>1. NoSite.revision = 0 /\ \A s \in Slugs : NoSite.pages[s] = NoPage  BY DEF NoSite
<1>a. head' = head
  BY DEF Plan, Load, Recover, SaveSurvey, Examine, SavePage, PlanEnds, PlanFails
<1> SUFFICES /\ \A s \in Slugs : /\ pages'[s] = pages[s] \/ From(pages'[s], s)
                                 /\ From(site'[p].pages[s], s)
             /\ site'[p].revision \in {0, site[p].revision}
             /\ Current(p)' => Current(p) /\ site'[p].revision = site[p].revision
  BY <1>0, <1>a, CarriedByOne
<1>2. CASE Load(p)
  <2>1. PICK plan \in PlanChosen(site[p].revision) :
          LET copy == [site[p] EXCEPT !.survey = survey,
                         !.pages = [s \in Slugs |-> IF s \in Selected(plan) THEN pages[s] ELSE NoPage]]
              due == {s \in Selected(plan) : MayChange(copy.pages[s], copy.revision)}
          IN  site' = [site EXCEPT ![p] = Kept(p, copy, due)]
    BY <1>2 DEF Load
  <2> DEFINE copy == [site[p] EXCEPT !.survey = survey,
                       !.pages = [s \in Slugs |-> IF s \in Selected(plan) THEN pages[s] ELSE NoPage]]
             due == {s \in Selected(plan) : MayChange(copy.pages[s], copy.revision)}
  <2>2. /\ copy \in Site_ /\ copy.revision = site[p].revision
        /\ \A s \in Slugs : copy.pages[s] \in {pages[s], NoPage}
    <3>1. survey \in Survey_ /\ \A s \in Slugs : pages[s] \in Page_  BY DEF TypeOK
    <3> QED  BY <1>0, <3>1, EmptyTypes DEF Site_
  <2>3. site'[p] = Kept(p, copy, due)  BY <2>1 DEF TypeOK
  <2> HIDE DEF copy, due
  <2>4. /\ site'[p].revision = site[p].revision
        /\ \A s \in Slugs : site'[p].pages[s] \in {pages[s], NoPage}
    BY <2>2, <2>3, KeptPages
  <2>5. pages' = pages /\ Current(p)  BY <1>2 DEF Load, disk, Current
  <2> QED  BY <2>4, <2>5, FromKnown
<1>3. CASE Recover(p) \/ SaveSurvey(p)
  <2>1. PICK v : site' = [site EXCEPT ![p] = [site[p] EXCEPT !.survey = v]] \/ site' = site
    <3>1. CASE Recover(p) /\ Survey \in active  BY <3>1 DEF Recover
    <3>2. CASE Recover(p) /\ Survey \notin active
      <4>1. site' = [site EXCEPT ![p] = [site[p] EXCEPT !.survey = [site[p].survey EXCEPT !.status = "error"]]]
        BY <3>2 DEF Recover
      <4> QED  BY <4>1
    <3>3. CASE SaveSurvey(p)  BY <3>3 DEF SaveSurvey
    <3> QED  BY <1>3, <3>1, <3>2, <3>3
  <2>2. /\ site'[p].revision = site[p].revision
        /\ \A s \in Slugs : site'[p].pages[s] = site[p].pages[s]
    BY <1>0, <2>1 DEF TypeOK, Site_
  <2>3. pages' = pages /\ Current(p)  BY <1>3 DEF Recover, SaveSurvey, disk, Current
  <2> QED  BY <2>2, <2>3, FromKnown
<1>4. CASE Examine(p)
  <2>1. PICK s \in todo[p], changed \in BOOLEAN :
          LET q == Examined(site[p].pages[s], s, site[p].revision, changed)
          IN  \/ site' = [site EXCEPT ![p] = Kept(p, @, todo[p] \ {s})]
              \/ site' = [site EXCEPT ![p].pages[s] = q]
    BY <1>4 DEF Examine
  <2> DEFINE q == Examined(site[p].pages[s], s, site[p].revision, changed)
  <2>2. s \in Slugs /\ From(q, s)
    <3>1. s \in Slugs  BY <2>1 DEF TypeOK
    <3>2. site[p].pages[s] \in Known(s)  BY DEF Known
    <3> QED  BY <1>0, <3>1, <3>2, ExaminedFrom DEF From
  <2> HIDE DEF q
  <2>3. pages' = pages /\ Current(p)  BY <1>4 DEF Examine, disk, Current
  <2>4. CASE site' = [site EXCEPT ![p] = Kept(p, @, todo[p] \ {s})]
    <3>1. site'[p] = Kept(p, site[p], todo[p] \ {s})  BY <2>4 DEF TypeOK
    <3>2. /\ site'[p].revision = site[p].revision
          /\ \A r \in Slugs : site'[p].pages[r] \in {site[p].pages[r], NoPage}
      BY <1>0, <3>1, KeptPages
    <3> QED  BY <2>3, <3>2, FromKnown
  <2>5. CASE site' = [site EXCEPT ![p].pages[s] = q]
    <3>1. site'[p] = [site[p] EXCEPT !.pages[s] = q]  BY <2>5 DEF TypeOK
    <3>2. /\ site'[p].revision = site[p].revision /\ site'[p].pages[s] = q
          /\ \A r \in Slugs \ {s} : site'[p].pages[r] = site[p].pages[r]
      BY <1>0, <2>2, <3>1 DEF Site_
    <3> QED  BY <2>2, <2>3, <3>2, FromKnown
  <2> QED  BY <2>1, <2>4, <2>5 DEF q
<1>5. CASE SavePage(p)
  <2>1. /\ page[p] \in Slugs /\ Current(p)
        /\ pages' = [pages EXCEPT ![page[p]] = site[p].pages[page[p]]]
        /\ site'[p] = Kept(p, site[p], todo[p])
    BY <1>5 DEF SavePage, Staged, TypeOK, Current
  <2>2. \A s \in Slugs : pages'[s] = pages[s] \/ From(pages'[s], s)
    BY <2>1, FromKnown DEF TypeOK
  <2>3. /\ site'[p].revision = site[p].revision
        /\ \A r \in Slugs : site'[p].pages[r] \in {site[p].pages[r], NoPage}
    BY <1>0, <2>1, KeptPages
  <2> QED  BY <2>1, <2>2, <2>3, FromKnown
<1>6. CASE PlanEnds(p)
  <2>1. /\ pages' = pages /\ site'[p] \in {NoSite, site[p]} /\ Current(p)
        /\ site'[p] = NoSite \/ back[p] # "idle"
        /\ at'[p] = back[p]
    BY <1>6 DEF PlanEnds, TypeOK, disk, Goto, Current
  <2>2. Current(p)' => site'[p] = site[p]
    BY <1>6, <2>1 DEF PlanEnds, TypeOK, Current
  <2> QED  BY <1>1, <2>1, <2>2, FromKnown
<1>7. CASE PlanFails(p)
  <2>1. pages' = pages /\ site'[p] = NoSite /\ at'[p] \in {"idle", "unlock"}
    BY <1>7 DEF PlanFails, TypeOK, disk, Goto
  <2>2. ~Current(p)'  BY <2>1 DEF Current
  <2> QED  BY <1>1, <2>1, <2>2, FromKnown
<1> QED  BY <1>2, <1>3, <1>4, <1>5, <1>6, <1>7 DEF Plan

LEMMA RunCarries ==
  ASSUME TypeOK, Staged, NEW g \in Generators, Generation(g), ~Write(g) \/ page[g] = Survey
  PROVE  /\ Carries /\ head' = head
         /\ site'[g].revision \in {0, site[g].revision}
         /\ Current(g)' => Current(g) /\ site'[g].revision = site[g].revision
<1>0. /\ g \in Requests /\ site[g] \in Site_ /\ site[g].revision \in Revisions
      /\ \A s \in Slugs : site[g].pages[s] \in Page_
  BY DEF TypeOK, Site_, Requests
<1>1. \A q \in Requests \ {g} : site'[q] = site[q]
  BY DEF TypeOK, Generation, StartSurvey, SkipSurvey, Replan, SavePlan, RemoveTexts,
         ReplanFails, Targets,
         NextPage, NoMorePages, Begin, Turn, TurnFails, Write, Done, Fail, SaveFails, Clear,
         Unlock, Becomes, local
<1>2. head' = head
  BY DEF Generation, StartSurvey, SkipSurvey, Replan, SavePlan, RemoveTexts, ReplanFails, Targets,
         NextPage, NoMorePages, Begin, Turn, TurnFails, Write, Done, Fail, SaveFails, Clear,
         Unlock
<1>3. Unlock(g) \/ Current(g)
  BY DEF Generation, StartSurvey, SkipSurvey, Replan, SavePlan, RemoveTexts, ReplanFails, Targets,
         NextPage, NoMorePages, Begin, Turn, TurnFails, Write, Done, Fail, SaveFails, Clear,
         Current
<1>4. \A s \in Slugs : text'[s] \in {0, text[s]}
  <2>1. CASE RemoveTexts(g)  BY <2>1 DEF RemoveTexts, TypeOK
  <2>2. CASE Write(g)  BY <2>2 DEF Write, TypeOK
  <2>3. CASE ~RemoveTexts(g) /\ ~Write(g)
    BY <2>3 DEF Generation, StartSurvey, SkipSurvey, Replan, SavePlan, ReplanFails, Targets,
         NextPage, NoMorePages, Begin, Turn, TurnFails, Done, Fail, SaveFails, Clear,
         Unlock, disk
  <2> QED  BY <2>1, <2>2, <2>3
<1> SUFFICES /\ \A s \in Slugs : /\ pages'[s] = pages[s] \/ From(pages'[s], s)
                                 /\ From(site'[g].pages[s], s)
             /\ site'[g].revision \in {0, site[g].revision}
             /\ Current(g)' => Current(g) /\ site'[g].revision = site[g].revision
  BY <1>0, <1>1, <1>2, <1>4, CarriedByOne
<1>5. CASE Unlock(g)
  <2>1. pages' = pages /\ site'[g] = NoSite /\ at'[g] = "idle"
    BY <1>0, <1>5 DEF Unlock, TypeOK, disk, Goto
  <2> QED  BY <2>1, FromKnown DEF NoSite, Current
<1>6. CASE ~Unlock(g)
  <2>1. \A s \in Slugs : pages'[s] = pages[s] \/ From(pages'[s], s)
    <3>1. CASE SavePlan(g)
      BY <1>0, <3>1, FromKnown DEF SavePlan
    <3>2. CASE Begin(g) \/ Done(g) \/ Fail(g)
      <4>1. \/ pages' = pages
            \/ /\ page[g] # Survey
               /\ pages' = [pages EXCEPT ![page[g]] = site[g].pages[page[g]]]
        BY <3>2 DEF Begin, Done, Fail, Saved
      <4> QED  BY <1>0, <4>1, FromKnown DEF TypeOK
    <3>3. CASE ~(SavePlan(g) \/ Begin(g) \/ Done(g) \/ Fail(g))
      <4>1. pages' = pages
        BY <3>3 DEF Generation, StartSurvey, SkipSurvey, Replan, RemoveTexts, ReplanFails,
               Targets, NextPage,
             NoMorePages, Turn, TurnFails, Write, SaveFails, Clear, Unlock, disk
      <4> QED  BY <4>1
    <3> QED  BY <3>1, <3>2, <3>3
  <2>2. /\ site'[g].revision = site[g].revision
        /\ \A s \in Slugs : From(site'[g].pages[s], s)
    <3>1. ASSUME NEW v, site' = [site EXCEPT ![g] = [site[g] EXCEPT !.survey = v]]
          PROVE  /\ site'[g].revision = site[g].revision
                 /\ \A r \in Slugs : From(site'[g].pages[r], r)
      <4>1. /\ site'[g].revision = site[g].revision
            /\ \A s \in Slugs : site'[g].pages[s] = site[g].pages[s]
        BY <1>0, <3>1 DEF TypeOK, Site_
      <4> QED  BY <1>0, <4>1, FromKnown
    <3>2. ASSUME NEW s \in Slugs, NEW q, From(q, s),
                 site' = [site EXCEPT ![g] = [site[g] EXCEPT !.pages[s] = q]]
          PROVE  /\ site'[g].revision = site[g].revision
                 /\ \A r \in Slugs : From(site'[g].pages[r], r)
      <4>1. /\ site'[g].revision = site[g].revision /\ site'[g].pages[s] = q
            /\ \A r \in Slugs \ {s} : site'[g].pages[r] = site[g].pages[r]
        BY <1>0, <3>2 DEF TypeOK, Site_
      <4> QED  BY <1>0, <3>2, <4>1, FromKnown
    <3>3. CASE StartSurvey(g)
      <4>1. site' = [site EXCEPT ![g] = [site[g] EXCEPT !.survey =
                       [status |-> "generating", revision |-> site[g].revision]]]
        BY <3>3 DEF StartSurvey
      <4> QED  BY <3>1, <4>1
    <3>4. CASE Replan(g)
      <4>a. PICK chosen \in SUBSET Slugs : site' = [site EXCEPT ![g] = [site[g] EXCEPT
                !.pages = [s \in Slugs |->
                            IF s \in chosen THEN Planned(site[g], s) ELSE NoPage]]]
        BY <3>4 DEF Replan
      <4>1. site'[g] = [site[g] EXCEPT !.pages = [s \in Slugs |->
                            IF s \in chosen THEN Planned(site[g], s) ELSE NoPage]]
        BY <1>0, <4>a DEF TypeOK
      <4>2. /\ site'[g].revision = site[g].revision
            /\ \A s \in Slugs : site'[g].pages[s] \in {Planned(site[g], s), NoPage}
        BY <1>0, <4>1 DEF Site_
      <4>3. ASSUME NEW s \in Slugs PROVE From(Planned(site[g], s), s)
        BY <1>0 DEF Planned, From, Known, Shown
      <4> QED  BY <4>2, <4>3, FromKnown
    <3>5. CASE NextPage(g)
      <4>1. PICK s \in Slugs : site' = [site EXCEPT ![g].pages[s].status = "generating"]
        BY <1>0, <3>5 DEF NextPage, TypeOK
      <4> DEFINE q == [site[g].pages[s] EXCEPT !.status = "generating"]
      <4>2. site' = [site EXCEPT ![g] = [site[g] EXCEPT !.pages[s] = q]]
        BY <4>1
      <4>3. From(q, s)
        BY <1>0 DEF From, Known, Shown, Page_
      <4> HIDE DEF q
      <4> QED  BY <3>2, <4>2, <4>3
    <3>6. CASE TurnFails(g) /\ page[g] # Survey
      <4>1. page[g] \in Slugs
        BY <1>0, <3>6 DEF TurnFails, TypeOK, MarkedLabels
      <4> DEFINE s == page[g]
                 q == [site[g].pages[s] EXCEPT !.status = "error", !.revision = site[g].pages[s].revision]
      <4>2. site' = [site EXCEPT ![g] = [site[g] EXCEPT !.pages[s] = q]]
        BY <3>6 DEF TurnFails, Becomes, Revision
      <4>3. From(q, s)
        BY <1>0, <4>1 DEF From, Known, Shown, Page_
      <4> HIDE DEF q
      <4> QED  BY <3>2, <4>1, <4>2, <4>3
    <3>7. CASE (TurnFails(g) \/ Write(g)) /\ page[g] = Survey
      <4>1. \E v : site' = [site EXCEPT ![g] = [site[g] EXCEPT !.survey = v]]
        BY <3>7 DEF TurnFails, Write, Becomes
      <4> QED  BY <3>1, <4>1
    <3>8. CASE ~(StartSurvey(g) \/ Replan(g) \/ NextPage(g) \/ TurnFails(g) \/ Write(g))
      <4>1. site' = site
        BY <1>6, <3>8 DEF Generation, SkipSurvey, SavePlan, RemoveTexts, ReplanFails, Targets,
               NoMorePages,
             Begin, Turn, Done, Fail, SaveFails, Clear, local
      <4> QED  BY <1>0, <4>1, FromKnown
    <3> QED  BY <3>3, <3>4, <3>5, <3>6, <3>7, <3>8
  <2> QED  BY <1>3, <1>6, <2>1, <2>2
<1> QED  BY <1>5, <1>6

(* The text of a page is of the revision of the generator at work, which   *)
(* is that of no earlier snapshot than any other.                          *)
LEMMA WritePage ==
  ASSUME TypeOK, Staged, RevisionsKnown, CopiesHaveText, NeverAheadOfItsText,
         NEW g \in Generators, Write(g), page[g] # Survey
  PROVE  RevisionsKnown' /\ CopiesHaveText' /\ NeverAheadOfItsText'
<1> DEFINE s == page[g]
           R == site[g].revision
           q == [site[g].pages[s] EXCEPT !.status = "ready", !.revision = R]
<1>1. /\ g \in Requests /\ s \in Slugs /\ at[g] = "write" /\ site[g] \in Site_
      /\ site[g].pages[s] \in Page_
  BY DEF Requests, Write, TypeOK, MarkedLabels, Site_
<1>2. /\ text' = [text EXCEPT ![s] = R] /\ pages' = pages /\ head' = head
      /\ site' = [site EXCEPT ![g] = [site[g] EXCEPT !.pages[s] = q]]
      /\ at' = [at EXCEPT ![g] = "done"]
  BY DEF Write, Becomes, Goto
<1>3. q.revision = R /\ q.status = "ready"  BY <1>1 DEF Page_
<1> HIDE DEF q
<1>4. /\ site'[g].revision = R /\ site'[g].pages[s] = q
      /\ \A r \in Slugs \ {s} : site'[g].pages[r] = site[g].pages[r]
      /\ \A p \in Requests \ {g} : site'[p] = site[p]
  BY <1>1, <1>2 DEF TypeOK, Site_
<1>5. Current(g) /\ R > 0 /\ Bounded(R) /\ R \in Nat /\ R <= head /\ head \in Nat
  BY <1>1, SiteRevisions DEF Current, RevisionsKnown
<1>6. text'[s] = R /\ \A r \in Slugs \ {s} : text'[r] = text[r]
  BY <1>1, <1>2 DEF TypeOK
<1>7. ASSUME NEW p \in Requests, NEW r \in Slugs, p # g \/ r # s
      PROVE  site'[p].pages[r] = site[p].pages[r]
  BY <1>4, <1>7
<1>8. BoundedNext(R)
  BY <1>2, <1>3, <1>4, <1>5, <1>6, <1>7 DEF Bounded, BoundedNext
<1>9. BoundedNext(head)
  <2>1. \A r \in Slugs : /\ text'[r] <= head /\ pages'[r].revision <= head
    BY <1>2, <1>5, <1>6 DEF RevisionsKnown, Bounded
  <2>2. \A p \in Requests, r \in Slugs : site'[p].pages[r].revision <= head
    BY <1>3, <1>4, <1>5, <1>7 DEF RevisionsKnown, Bounded
  <2> QED  BY <2>1, <2>2 DEF BoundedNext
<1>10. \A h \in Generators \ {g} : ~Current(h)'
  <2>1. \A h \in Generators \ {g} : at[h] \in {"idle", "lock"}
    BY <1>1 DEF Staged
  <2> QED  BY <1>1, <1>2, <2>1 DEF Current, TypeOK, Requests
<1>11. RevisionsKnown'
  <2>1. \A p \in Requests : site'[p].revision <= head
    BY <1>4, <1>5 DEF RevisionsKnown
  <2> QED  BY <1>2, <1>4, <1>5, <1>8, <1>9, <1>10, <2>1 DEF RevisionsKnown, Bounded, BoundedNext
<1>12. CopiesHaveText'
  <2> SUFFICES ASSUME NEW p \in Requests, NEW r \in Slugs,
                      site'[p].pages[r].status \in Shown, text'[r] # 0
               PROVE  site'[p].pages[r].revision <= text'[r]
    BY DEF CopiesHaveText, Shown
  <2>1. CASE r = s  BY <1>6, <1>8, <2>1 DEF BoundedNext
  <2>2. CASE r # s  BY <1>6, <1>7, <2>2 DEF CopiesHaveText, Shown
  <2> QED  BY <2>1, <2>2
<1>13. NeverAheadOfItsText'
  <2> SUFFICES ASSUME NEW r \in Slugs, pages[r].status \in Shown, text'[r] # 0
               PROVE  pages[r].revision <= text'[r]
    BY <1>2 DEF NeverAheadOfItsText, Shown
  <2>1. CASE r = s  BY <1>2, <1>6, <1>8, <2>1 DEF BoundedNext
  <2>2. CASE r # s  BY <1>6, <2>2 DEF NeverAheadOfItsText, Shown
  <2> QED  BY <2>1, <2>2
<1> QED  BY <1>11, <1>12, <1>13
(* One request moves on and only carries pages.                            *)
LEMMA OneCarries ==
  ASSUME TypeOK, RevisionsKnown, CopiesHaveText, NeverAheadOfItsText, NEW p \in Requests,
         \A q \in Requests \ {p} : at'[q] = at[q] /\ site'[q] = site[q],
         Carries, head' = head, site'[p].revision \in {0, site[p].revision},
         Current(p)' => Current(p) /\ site'[p].revision = site[p].revision
  PROVE  RevisionsKnown' /\ CopiesHaveText' /\ NeverAheadOfItsText'
<1>1. \A q \in Requests : site'[q].revision \in {0, site[q].revision}
  OBVIOUS
<1>2. ASSUME NEW g \in Generators, Current(g)'
      PROVE  Current(g) /\ site'[g].revision = site[g].revision
  <2>1. CASE g = p  BY <1>2, <2>1
  <2>2. CASE g # p
    <3>1. at'[g] = at[g] /\ site'[g] = site[g]  BY <2>2 DEF Requests
    <3> QED  BY <1>2, <3>1 DEF Current
  <2> QED  BY <2>1, <2>2
<1> QED  BY <1>1, <1>2, CarriedRevisions, CarriedText

LEMMA PagesStep ==
  ASSUME TypeOK, Staged, RevisionsKnown, CopiesHaveText, NeverAheadOfItsText, [Next]_vars
  PROVE  RevisionsKnown' /\ CopiesHaveText' /\ NeverAheadOfItsText'
<1>1. CASE Crash
  <2>1. /\ head' = head /\ UNCHANGED disk
        /\ \A p \in Requests : site'[p] = NoSite /\ at'[p] = "idle"
    BY <1>1 DEF Crash
  <2>2. NoSite.revision = 0 /\ \A s \in Slugs : NoSite.pages[s] = NoPage  BY DEF NoSite
  <2>3. Carries  BY <2>1, <2>2, FromKnown DEF Carries, disk
  <2>4. \A g \in Generators : ~Current(g)'  BY <2>1 DEF Current, Requests
  <2> QED  BY <2>1, <2>2, <2>3, <2>4, CarriedRevisions, CarriedText
<1>2. ASSUME NEW r \in Readers, Read(r)
      PROVE  RevisionsKnown' /\ CopiesHaveText' /\ NeverAheadOfItsText'
  <2>1. /\ r \in Requests /\ SnapshotRead(r) /\ UNCHANGED disk
        /\ \A q \in Requests \ {r} : at'[q] = at[q]
    BY <1>2 DEF Read, SnapshotRead, Goto, TypeOK, Requests
  <2> QED  BY <2>1, SnapshotCarries
<1>3. ASSUME NEW p \in Requests, Snapshot(p)
      PROVE  RevisionsKnown' /\ CopiesHaveText' /\ NeverAheadOfItsText'
  <2>1. /\ SnapshotRead(p) /\ UNCHANGED disk /\ \A q \in Requests \ {p} : at'[q] = at[q]
    BY <1>3 DEF Snapshot, SnapshotRead, Goto, TypeOK
  <2> QED  BY <2>1, SnapshotCarries
<1>4. ASSUME NEW p \in Requests, Plan(p), ~Snapshot(p)
      PROVE  RevisionsKnown' /\ CopiesHaveText' /\ NeverAheadOfItsText'
  <2>1. \A q \in Requests \ {p} : at'[q] = at[q] /\ site'[q] = site[q]
    BY <1>4, PlanUnmarked
  <2> QED  BY <1>4, <2>1, PlanCarries, OneCarries
<1>5. ASSUME NEW g \in Generators, Generate(g) \/ Lock(g)
      PROVE  RevisionsKnown' /\ CopiesHaveText' /\ NeverAheadOfItsText'
  <2>1. /\ g \in Requests /\ UNCHANGED <<head, disk, site>> /\ at'[g] \in {"lock", "snapshot"}
        /\ \A q \in Requests \ {g} : at'[q] = at[q]
    BY <1>5 DEF Generate, Lock, Goto, TypeOK, Requests
  <2>2. Carries  BY <2>1, FromKnown DEF Carries, disk
  <2>3. ~Current(g)'  BY <2>1 DEF Current
  <2> QED  BY <2>1, <2>2, <2>3, OneCarries
<1>6. ASSUME NEW g \in Generators, Generation(g)
      PROVE  RevisionsKnown' /\ CopiesHaveText' /\ NeverAheadOfItsText'
  <2>1. CASE Write(g) /\ page[g] # Survey
    BY <2>1, WritePage
  <2>2. CASE ~Write(g) \/ page[g] = Survey
    <3>1. g \in Requests  BY DEF Requests
    <3>2. \A q \in Requests \ {g} : at'[q] = at[q] /\ site'[q] = site[q]
      BY <1>6 DEF TypeOK, Generation, StartSurvey, SkipSurvey, Replan, SavePlan, RemoveTexts,
             ReplanFails,
           Targets, NextPage, NoMorePages, Begin, Turn, TurnFails, Write, Done, Fail,
           SaveFails, Clear, Unlock, Marked, Clears, Becomes, Goto, local
    <3> QED  BY <1>6, <2>2, <3>1, <3>2, RunCarries, OneCarries
  <2> QED  BY <2>1, <2>2
<1>7. CASE UNCHANGED vars
  <2>1. UNCHANGED <<head, pages, text, at, site>>  BY <1>7 DEF vars, disk, local
  <2> QED  BY <2>1 DEF RevisionsKnown, Bounded, Current, CopiesHaveText, NeverAheadOfItsText
<1> QED  BY <1>1, <1>2, <1>3, <1>4, <1>5, <1>6, <1>7 DEF Next
-----------------------------------------------------------------------------
(* The pages whose texts are removed.                                      *)

(* A step of anybody else leaves them alone: it waits for mu, or it is of  *)
(* a run, which only the holder of the lock is in.                         *)
LEMMA SupersededStay ==
  ASSUME TypeOK, Staged, NEW g \in Generators, at[g] = "removeTexts", [Next]_vars,
         at'[g] = "removeTexts"
  PROVE  todo'[g] = todo[g] /\ pages' = pages
<1>0. g \in Requests /\ holder = g /\ ~Unlocked  BY DEF Requests, Staged, Unlocked
<1>1. ~Crash  BY <1>0 DEF Crash
<1>2. ASSUME NEW r \in Readers, Read(r) PROVE todo'[g] = todo[g] /\ pages' = pages
  BY <1>2 DEF Read, disk
<1>3. ASSUME NEW h \in Generators, Generate(h) \/ Lock(h)
      PROVE  todo'[g] = todo[g] /\ pages' = pages
  BY <1>3 DEF Generate, Lock, disk
<1>4. ASSUME NEW h \in Generators PROVE ~Generation(h)
  <2>1. CASE h = g
    BY <1>0, <2>1 DEF Generation, StartSurvey, SkipSurvey, Replan, SavePlan, RemoveTexts,
         ReplanFails, Targets, NextPage, NoMorePages, Begin, Turn, TurnFails, Write, Done,
         Fail, SaveFails, Clear, Unlock, Goto, TypeOK
  <2>2. CASE h # g
    <3>1. at[h] \in {"idle", "lock"}  BY <1>0, <2>2 DEF Staged
    <3> QED
      BY <3>1 DEF Generation, StartSurvey, SkipSurvey, Replan, SavePlan, RemoveTexts,
         ReplanFails, Targets, NextPage, NoMorePages, Begin, Turn, TurnFails, Write, Done,
         Fail, SaveFails, Clear, Unlock
  <2> QED  BY <2>1, <2>2
<1>5. ASSUME NEW p \in Requests, Plan(p) PROVE todo'[g] = todo[g] /\ pages' = pages
  <2>1. p # g
    BY <1>5 DEF Plan, Snapshot, Load, Recover, SaveSurvey, Examine, SavePage, PlanEnds, PlanFails
  <2>2. ~Load(p) /\ ~SaveSurvey(p) /\ ~SavePage(p)  BY <1>0 DEF Load, SaveSurvey, SavePage
  <2> QED
    BY <1>0, <1>5, <2>1, <2>2
    DEF Plan, Snapshot, Recover, Examine, PlanEnds, PlanFails, TypeOK, disk
<1>6. CASE UNCHANGED vars  BY <1>6 DEF vars, disk, local
<1> QED  BY <1>1, <1>2, <1>3, <1>4, <1>5, <1>6 DEF Next

(* Nobody else brings a generator there.                                   *)
LEMMA SupersededFrom ==
  ASSUME TypeOK, Staged, NEW g \in Generators, at'[g] = "removeTexts", [Next]_vars
  PROVE  at[g] = "removeTexts" \/ SavePlan(g)
<1>0. g \in Requests  BY DEF Requests
<1>1. CASE Crash  BY <1>0, <1>1 DEF Crash
<1>2. ASSUME NEW r \in Readers, Read(r) PROVE at[g] = "removeTexts"
  BY <1>0, <1>2 DEF Read, SnapshotRead, Goto, TypeOK
<1>3. ASSUME NEW h \in Generators, Generate(h) \/ Lock(h) PROVE at[g] = "removeTexts"
  BY <1>0, <1>3 DEF Generate, Lock, Goto, TypeOK
<1>4. ASSUME NEW h \in Generators, Generation(h), ~SavePlan(h) PROVE at[g] = "removeTexts"
  <2>1. CASE h = g
    <3>1. CASE Clear(h)
      <4>1. at'[g] = "snapshot" \/ at'[g] = back[g]
        BY <1>0, <2>1, <3>1 DEF Clear, Goto, TypeOK
      <4> QED  BY <1>0, <4>1 DEF Staged, Backs
    <3>2. CASE ~Clear(h)
      BY <1>0, <1>4, <2>1, <3>2
      DEF Generation, StartSurvey, SkipSurvey, Replan, RemoveTexts, ReplanFails, Targets,
          NextPage, NoMorePages, Begin, Turn, TurnFails, Write, Done, Fail, SaveFails,
          Unlock, Marked, Clears, Goto, TypeOK
    <3> QED  BY <3>1, <3>2
  <2>2. CASE h # g
    BY <1>0, <1>4, <2>2
    DEF Generation, StartSurvey, SkipSurvey, Replan, RemoveTexts, ReplanFails, Targets,
        NextPage, NoMorePages, Begin, Turn, TurnFails, Write, Done, Fail, SaveFails, Clear,
        Unlock, Marked, Clears, Goto, TypeOK
  <2> QED  BY <2>1, <2>2
<1>5. ASSUME NEW h \in Generators, SavePlan(h) PROVE at[g] = "removeTexts" \/ SavePlan(g)
  BY <1>0, <1>5 DEF SavePlan, Goto, TypeOK
<1>6. ASSUME NEW p \in Requests, Plan(p) PROVE at[g] = "removeTexts"
  <2>1. CASE p = g
    <3>1. CASE PlanEnds(p)
      <4>1. at'[g] = back[g]  BY <1>0, <2>1, <3>1 DEF PlanEnds, Goto, TypeOK
      <4> QED  BY <1>0, <4>1 DEF Staged, Backs
    <3>2. CASE Examine(p)
      <4>1. at'[g] = at[g] \/ at'[g] = "savePage"
        BY <1>0, <2>1, <3>2 DEF Examine, Goto, TypeOK
      <4> QED  BY <4>1
    <3>3. CASE ~PlanEnds(p) /\ ~Examine(p)
      BY <1>0, <1>6, <2>1, <3>3
      DEF Plan, Snapshot, SnapshotRead, Load, Recover, SaveSurvey, SavePage, PlanFails,
          Goto, TypeOK
    <3> QED  BY <3>1, <3>2, <3>3
  <2>2. CASE p # g
    <3>1. at'[g] = at[g]  BY <1>0, <1>6, <2>2, PlanUnmarked
    <3> QED  BY <3>1
  <2> QED  BY <2>1, <2>2
<1>7. CASE UNCHANGED vars  BY <1>7 DEF vars
<1> QED  BY <1>1, <1>2, <1>3, <1>4, <1>5, <1>6, <1>7 DEF Next

LEMMA SupersededStep == TypeOK /\ Staged /\ Superseded /\ [Next]_vars => Superseded'
<1> SUFFICES ASSUME TypeOK, Staged, Superseded, [Next]_vars,
                    NEW g \in Generators, at'[g] = "removeTexts", NEW s \in todo'[g]
             PROVE  pages'[s] = NoPage
  BY DEF Superseded
<1>1. CASE at[g] = "removeTexts"
  <2>1. todo'[g] = todo[g] /\ pages' = pages  BY <1>1, SupersededStay
  <2> QED  BY <1>1, <2>1 DEF Superseded
<1>2. CASE SavePlan(g)
  BY <1>2 DEF SavePlan, TypeOK, Requests
<1> QED  BY <1>1, <1>2, SupersededFrom
-----------------------------------------------------------------------------
(* The theorems.                                                           *)

LEMMA InitHolds == Init => IInv
<1> SUFFICES ASSUME Init PROVE IInv
  OBVIOUS
<1>1. TypeOK /\ Staged  BY InitTypes, InitStaged
<1>2. \A p \in Requests : at[p] = "idle" /\ page[p] = None /\ site[p] = NoSite
  BY DEF Init
<1>3. ActiveIsLive
  BY <1>2 DEF Init, ActiveIsLive, MarkedLabels, Requests
<1>4. SurveyCopies /\ SurveyReadyIsCurrent
  <2>1. survey.status # "ready"  BY DEF Init, NoSurvey, None
  <2> QED  BY <1>2, <2>1 DEF SurveyCopies, SurveyReadyIsCurrent, Requests, Survey, None
<1>5. NoSite.revision = 0 /\ \A s \in Slugs : NoSite.pages[s] = NoPage
  BY DEF NoSite
<1>6. \A s \in Slugs : pages[s] = NoPage /\ text[s] = 0  BY DEF Init
<1>7. RevisionsKnown
  BY <1>2, <1>5, <1>6 DEF RevisionsKnown, Bounded, Current, Init, NoPage, Requests
<1>8. CopiesHaveText /\ NeverAheadOfItsText
  BY <1>2, <1>5, <1>6 DEF CopiesHaveText, NeverAheadOfItsText
<1>9. Superseded  BY <1>2 DEF Superseded, Requests
<1> QED  BY <1>1, <1>3, <1>4, <1>7, <1>8, <1>9 DEF IInv

LEMMA StepHolds == IInv /\ [Next]_vars => IInv'
<1> SUFFICES ASSUME IInv, [Next]_vars PROVE IInv'
  OBVIOUS
<1>1. TypeOK' /\ Staged'  BY TypesStep, StagedStep DEF IInv
<1>2. ActiveIsLive'  BY ActiveStep DEF IInv
<1>3. SurveyCopies' /\ SurveyReadyIsCurrent'  BY <1>1, SurveyStep DEF IInv
<1>4. RevisionsKnown' /\ CopiesHaveText' /\ NeverAheadOfItsText'  BY PagesStep DEF IInv
<1>5. Superseded'  BY SupersededStep DEF IInv
<1> QED  BY <1>1, <1>2, <1>3, <1>4, <1>5 DEF IInv

LEMMA Holds == Spec => []IInv
BY InitHolds, StepHolds, PTL DEF Spec

(* Every state is of its types, for any pages, requests and bounds, and a  *)
(* request is at a page exactly while it generates or saves it.            *)
THEOREM TypesHold == Spec => []TypeOK
<1>1. IInv => TypeOK  BY DEF IInv
<1> QED  BY <1>1, Holds, PTL

(* What is marked active is what the one run that holds the lock works on, *)
(* on every path out of Generate (docs.go) and after every crash.          *)
THEOREM ActiveIsWhatRuns == Spec => []ActiveIsLive
<1>1. IInv => ActiveIsLive  BY DEF IInv
<1> QED  BY <1>1, Holds, PTL

(* A survey that is shown as ready has the text of the revision it names,  *)
(* whoever saves which copy of the manifest (docs.go, saveSurvey).         *)
THEOREM SurveyIsCurrent == Spec => []SurveyReadyIsCurrent
<1>1. IInv => SurveyReadyIsCurrent  BY DEF IInv
<1> QED  BY <1>1, Holds, PTL

(* No page is shown for a later revision than that of its text, although   *)
(* readers save stale copies of it over the manifest (docs.go, savePage).  *)
THEOREM PagesHaveTheirText == Spec => []NeverAheadOfItsText
<1>1. IInv => NeverAheadOfItsText  BY DEF IInv
<1> QED  BY <1>1, Holds, PTL

(* A text is removed only while the manifest on disk has no page for it    *)
(* and gets none, whatever readers and crashes come between the manifest   *)
(* and the removal (docs.go, savePlan).                                    *)
THEOREM TextGoesWithPage == Spec => TextOutlivesPage
<1>1. ASSUME IInv, [Next]_vars
      PROVE  [\A s \in Slugs :
                text[s] # 0 /\ text'[s] = 0 => pages[s] = NoPage /\ pages'[s] = NoPage]_vars
  <2> SUFFICES ASSUME NEW s \in Slugs, text[s] # 0, text'[s] = 0, Next
               PROVE  pages[s] = NoPage /\ pages'[s] = NoPage
    BY <1>1
  <2>1. TypeOK /\ Staged /\ RevisionsKnown /\ Superseded  BY <1>1 DEF IInv
  <2>2. text' # text  OBVIOUS
  <2>3. PICK g \in Generators : RemoveTexts(g) \/ Write(g)
    <3>1. \A p \in Requests : ~Plan(p)  BY <2>1, <2>2, PlanUnmarked
    <3> QED
      BY <2>2, <3>1
      DEF Next, Crash, Read, Generate, Lock, Generation, StartSurvey, SkipSurvey, Replan,
          SavePlan, ReplanFails, Targets, NextPage, NoMorePages, Begin, Turn, TurnFails, Done,
          Fail, SaveFails, Clear, Unlock, disk
  <2>4. CASE RemoveTexts(g)
    <3>1. s \in todo[g] /\ at[g] = "removeTexts" /\ pages' = pages
      BY <2>1, <2>4 DEF RemoveTexts, TypeOK
    <3> QED  BY <2>1, <3>1 DEF Superseded
  <2>5. CASE Write(g)
    <3>1. site[g].revision > 0
      BY <2>1, <2>5 DEF Write, RevisionsKnown, Current
    <3>2. text' = [text EXCEPT ![page[g]] = site[g].revision]  BY <2>5 DEF Write
    <3> QED  BY <2>1, <3>1, <3>2 DEF TypeOK
  <2> QED  BY <2>3, <2>4, <2>5
<1> QED  BY <1>1, Holds, PTL DEF Spec, TextOutlivesPage
=============================================================================
