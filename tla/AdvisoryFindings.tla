--------------------------- MODULE AdvisoryFindings ---------------------------
(***************************************************************************)
(* Findings beside the refresh of the advisories it reads: the answer is   *)
(* built from the snapshot as it is, from the declarations of the indexed  *)
(* repositories and from the ranges of the advisories                      *)
(* (dependencies/advisories.go, buildFindings).                            *)
(*                                                                         *)
(* A declaration has a repository, a package, a location (its manifest and *)
(* line), and a version that is exact, not known or not valid.  A package  *)
(* is of one ecosystem; ecosystems may share a name.  The severities, the  *)
(* filters, the pages of an answer and which declaration of a finding is   *)
(* shown first are left out.                                               *)
(***************************************************************************)
EXTENDS AdvisoryRefresh, OsvRanges

CONSTANTS Inventories,  \* sets of declarations that may be asked about
          Affected,     \* what each advisory affects of each package
          Name,         \* of a package, in lower case, without its ecosystem
          Withdrawn,    \* advisories that were withdrawn
          Questions,    \* what may be asked of a single advisory
          Versions

ASSUME WithdrawnAssumption == Withdrawn \subseteq Advisories
ASSUME AffectedAssumption == Affected \in [Advisories -> [Packages -> Seq(AffectedType)]]
ASSUME InventoriesAssumption ==
  \A D \in Inventories : \A d \in D :
    d.known \in {"exact", "unknown", "invalid"} /\ (d.known = "exact" => d.version \in Nat)
ASSUME QuestionsAssumption == Questions \subseteq AffectedType /\ Versions \subseteq Nat

VARIABLE answer   \* the last answer, until something else happens

NoAnswer == [of |-> "none"]

-----------------------------------------------------------------------------
(* buildFindings.                                                          *)

(* Ecosystems of OSV, versions that are known, that are valid, packages of *)
(* the snapshot: what is left out at each step is counted as a gap.        *)
Covered(D) == {d \in D : d.package \in Packages}
Versioned(D) == {d \in Covered(D) : d.known # "unknown"}
Valid(D) == {d \in Versioned(D) : d.known # "invalid"}
Checked(D) == {d \in Valid(D) : d.package \in snapshot.packages}

(* The gaps are counted, and the state is the one of the snapshot.         *)
StateWithGaps(D) == SnapshotState

State(D) ==
  IF SnapshotState = "ready" /\ Checked(D) # D THEN "partial" ELSE SnapshotState

MatchingAffected(d, id) ==
  \E k \in DOMAIN Affected[id][d.package] :
    AffectedVersion(d.version, Affected[id][d.package][k]).matched

(* Withdrawn advisories are matched like the others.                       *)
MatchesWithdrawn(D) ==
  {m \in Checked(D) \X snapshot.ids : MatchingAffected(m[1], m[2])}

Matches(D) ==
  {m \in Checked(D) \X (snapshot.ids \ Withdrawn) : MatchingAffected(m[1], m[2])}

(* deduplicateFindings: what one finding is about.  It has every location  *)
(* that its matches were found at.                                         *)
Group(d, id) ==
  [advisory |-> id, repository |-> d.repository, name |-> Name[d.package],
   version |-> d.version]

Finding(g, D) ==
  [group |-> g,
   occurrences |-> {m[1].location : m \in {n \in Matches(D) : Group(n[1], n[2]) = g}}]

Deduplicated(D) == {Finding(Group(m[1], m[2]), D) : m \in Matches(D)}

BuildFindings(D) ==
  [of |-> "findings", declarations |-> D, state |-> State(D),
   findings |-> IF snapshot.exists THEN Deduplicated(D) ELSE {}]

(* A request; neither a refresh under way nor its progress changes the     *)
(* answer, so it is asked while there is none.                             *)
Quiet == answer = NoAnswer /\ progress = Idle /\ run = NoRun /\ ~cancelled

Findings ==
  /\ Quiet
  /\ \E D \in Inventories :
       /\ {d.package : d \in Covered(D)} = declared
       /\ answer' = BuildFindings(D)
  /\ UNCHANGED vars

(* affectedVersion of one advisory, whatever its ranges are.               *)
Match ==
  /\ Quiet /\ declared = {} /\ ~snapshot.exists
  /\ \E v \in Versions, affected \in Questions :
       answer' = [of |-> "match", version |-> v, affected |-> affected,
                  result |-> AffectedVersion(v, affected)]
  /\ UNCHANGED vars

FindingsInit == Init /\ answer = NoAnswer
FindingsNext == Findings \/ Match \/ (Next /\ answer' = NoAnswer)
FindingsSpec == FindingsInit /\ [][FindingsNext]_<<vars, answer>> /\ Fairness

-----------------------------------------------------------------------------
(***************************************************************************)
(* docs/dependency-advisories.md: "check_state: ready" and no finding is a *)
(* clean result.  A ready answer has every advisory that affects a         *)
(* declaration, with the location of that declaration, whatever was        *)
(* refreshed, failed or expired before.                                    *)
(***************************************************************************)
IsAffected(d, id) ==
  \E k \in DOMAIN Affected[id][d.package] : Affects(d.version, Affected[id][d.package][k])

ReadyIsClean ==
  answer.of = "findings" /\ answer.state = "ready" =>
    \A d \in answer.declarations : \A id \in Osv[d.package] \ Withdrawn :
      d.known = "exact" /\ IsAffected(d, id) =>
        \E f \in answer.findings : f.group = Group(d, id) /\ d.location \in f.occurrences

(* docs/dependency-advisories.md, matching and evidence: whatever is found *)
(* is found at a declaration of that repository, name and version, which   *)
(* the advisory affects; what was merged kept nobody else's location.      *)
FindingsAreTrue ==
  answer.of = "findings" =>
    \A f \in answer.findings :
      /\ f.group.advisory \notin Withdrawn /\ f.occurrences # {}
      /\ \A l \in f.occurrences : \E d \in answer.declarations :
           /\ d.location = l /\ d.known = "exact" /\ d.package \in Packages
           /\ Group(d, f.group.advisory) = f.group /\ IsAffected(d, f.group.advisory)

(* What they ask of the advisories: a range that is introduced again was   *)
(* ended in between, and no version ends a range in two ways.              *)
RangesEnd ==
  \A id \in Advisories, p \in Packages : \A k \in DOMAIN Affected[id][p] :
    LET ranges == Affected[id][p][k].ranges
    IN  \A n \in DOMAIN ranges : ~ranges[n].git => EndedBetween(ranges[n].events)

RangesEndOnce ==
  \A id \in Advisories, p \in Packages : \A k \in DOMAIN Affected[id][p] :
    LET ranges == Affected[id][p][k].ranges
    IN  \A n \in DOMAIN ranges : ~ranges[n].git => OneEndEach(ranges[n].events)

(* docs/dependency-advisories.md: fixed boundaries are exclusive, those of *)
(* last_affected inclusive, in whichever order the events are listed.  The *)
(* version offered as the fix of a range lies outside of it, and it is the *)
(* nearest that does.                                                      *)
RangesAreExact ==
  answer.of = "match" /\ (\A k \in DOMAIN answer.affected.ranges :
                            Regular(answer.affected.ranges[k].events)) =>
    /\ answer.result.matched <=> Affects(answer.version, answer.affected)
    /\ answer.result.fixed # NoFix /\ answer.affected.versions = {}
         /\ Len(answer.affected.ranges) = 1 =>
         /\ answer.version < answer.result.fixed
         /\ ~Affects(answer.result.fixed, answer.affected)
         /\ \A v \in answer.version..(answer.result.fixed - 1) : Affects(v, answer.affected)

(* The first half of it, without the premise.                              *)
EveryRangeIsExact ==
  answer.of = "match" => (answer.result.matched <=> Affects(answer.version, answer.affected))
=============================================================================
