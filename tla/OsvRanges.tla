------------------------------ MODULE OsvRanges ------------------------------
(***************************************************************************)
(* The versions an advisory affects (dependencies/advisories.go): the      *)
(* events of each range are sorted and read from the lowest on.            *)
(*                                                                         *)
(* Versions are numbers in the order of their ecosystem; two spellings of  *)
(* a version are not told apart.  0 is the mark "0", before every version, *)
(* and Star the mark "*", after every version.                             *)
(***************************************************************************)
EXTENDS Naturals, SequencesExt

CONSTANT Star
ASSUME StarAssumption == Star \in Nat

NoFix == 0   \* no version that fixes is known

Event(kind, version) == [kind |-> kind, version |-> version]
Introduces(event) == event.kind = "introduced"

EventType == [kind : {"introduced", "fixed", "last_affected", "limit"}, version : Nat]

(* What an advisory affects: versions, and ranges as lists of events.      *)
AffectedType ==
  [versions : SUBSET Nat, ranges : Seq([git : BOOLEAN, events : Seq(EventType)])]

(* Whether v is still before the end that the event sets: "fixed" and      *)
(* "limit" are exclusive, "last_affected" is not.                          *)
BeforeEnd(v, event) ==
  IF event.kind = "last_affected" THEN v <= event.version ELSE v < event.version

-----------------------------------------------------------------------------
(* sortedOSVEvents.                                                        *)

Before(left, right) ==
  \/ left.version < right.version
  \/ left.version = right.version /\ Introduces(left) /\ ~Introduces(right)

(* The events are read in the order of the advisory.                       *)
Unsorted(events) == events

(* The sort is stable; an event goes after those that come first.          *)
First(events, i, j) ==
  \/ Before(events[i], events[j])
  \/ ~Before(events[j], events[i]) /\ i < j

Place(events, i) == Cardinality({j \in DOMAIN events : First(events, j, i)}) + 1

SortedOSVEvents(events) ==
  [n \in DOMAIN events |-> events[CHOOSE i \in DOMAIN events : Place(events, i) = n]]

(* eventsContain, one event: a match ends the loop.                        *)
ReadEvent(v, found, event) ==
  CASE found.matched -> found
    [] ~found.matched /\ Introduces(event) -> [found EXCEPT !.active = event.version <= v]
    [] OTHER -> [active  |-> found.active /\ BeforeEnd(v, event),
                 matched |-> found.active /\ BeforeEnd(v, event),
                 fixed   |-> IF found.active /\ BeforeEnd(v, event) /\ event.kind = "fixed"
                               THEN event.version ELSE NoFix]

(* What was found after n events.                                          *)
NothingFound == [active |-> FALSE, matched |-> FALSE, fixed |-> NoFix]
Found(v, events) ==
  LET found[n \in 0..Len(events)] ==
        IF n = 0 THEN NothingFound ELSE ReadEvent(v, found[n - 1], events[n])
  IN  found

EventsContain(v, events) ==
  LET found == Found(v, events)[Len(events)]
  IN  [matched |-> found.active, fixed |-> found.fixed]

(* The ranges of an advisory are lists of events; git says which of them   *)
(* are about commits.  These are skipped, but for their fixes.             *)
FixesAfter(v, ranges) ==
  {f \in UNION {{r.events[i].version : i \in {j \in DOMAIN r.events : r.events[j].kind = "fixed"}}
                : r \in {ranges[k] : k \in DOMAIN ranges}} : f > v}

NearestFixed(v, ranges) ==
  LET fixes == FixesAfter(v, ranges) IN IF fixes = {} THEN NoFix ELSE Min(fixes)

AffectedVersion(v, affected) ==
  LET In(k) == EventsContain(v, SortedOSVEvents(affected.ranges[k].events))
      hits == {k \in DOMAIN affected.ranges : ~affected.ranges[k].git /\ In(k).matched}
  IN  IF v \in affected.versions
        THEN [matched |-> TRUE, fixed |-> NearestFixed(v, affected.ranges)]
      ELSE IF hits # {} THEN In(Min(hits))
      ELSE [matched |-> FALSE, fixed |-> NoFix]

-----------------------------------------------------------------------------
(* What the ranges mean (docs/dependency-advisories.md): v is affected     *)
(* when it was introduced and nothing has ended it since.                  *)

Covers(v, events) ==
  \E i \in DOMAIN events :
    /\ Introduces(events[i]) /\ events[i].version <= v
    /\ \A j \in DOMAIN events :
         ~Introduces(events[j]) /\ events[j].version >= events[i].version
           => BeforeEnd(v, events[j])

Affects(v, affected) ==
  \/ v \in affected.versions
  \/ \E k \in DOMAIN affected.ranges :
       ~affected.ranges[k].git /\ Covers(v, affected.ranges[k].events)

(* A range that is introduced again was ended in between.                  *)
EndedBetween(events) ==
  \A i, j \in DOMAIN events :
    Introduces(events[i]) /\ Introduces(events[j]) /\ events[i].version < events[j].version
      => \E k \in DOMAIN events :
           /\ ~Introduces(events[k]) /\ events[i].version <= events[k].version
           /\ events[k].version < events[j].version

(* No version ends a range in two ways.                                    *)
OneEndEach(events) ==
  \A i, j \in DOMAIN events :
    ~Introduces(events[i]) /\ ~Introduces(events[j]) /\ events[i].version = events[j].version
      => events[i].kind = events[j].kind

Regular(events) == EndedBetween(events) /\ OneEndEach(events)
=============================================================================
