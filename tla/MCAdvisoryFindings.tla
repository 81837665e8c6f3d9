-------------------------- MODULE MCAdvisoryFindings --------------------------
(* Two packages of one name, in two ecosystems, with an advisory in        *)
(* common.  Every list of up to three events is asked about, and those of  *)
(* four with two introductions.                                            *)
EXTENDS AdvisoryFindings, TLC

CONSTANTS p1, p2, a1, a2, a3

OsvAnswers == p1 :> {a1, a2} @@ p2 :> {a2, a3}

Introduced(v) == Event("introduced", v)
Fixed(v) == Event("fixed", v)
RangeOf(events) == [git |-> FALSE, events |-> events]

Of(versions, ranges) == [versions |-> versions, ranges |-> ranges]
Commits == [git |-> TRUE, events |-> <<Introduced(0)>>]

AffectedBy ==
  a1 :> (p1 :> <<Of({}, <<RangeOf(<<Fixed(2), Introduced(0)>>), RangeOf(<<Introduced(3)>>)>>)>> @@
         p2 :> <<>>) @@
  a2 :> (p1 :> <<Of({1}, <<Commits>>)>> @@
         p2 :> <<Of({}, <<RangeOf(<<Introduced(0), Fixed(1)>>)>>), Of({1}, <<>>)>>) @@
  a3 :> (p1 :> <<>> @@
         p2 :> <<Of({}, <<RangeOf(<<Introduced(2), Event("last_affected", 2)>>)>>)>>)

SameName == [p \in Packages |-> "name"]

Places == {<<"r1", "l1">>, <<"r1", "l2">>, <<"r2", "l1">>}
Declaration(p, place, known, v) ==
  [repository |-> place[1], location |-> place[2], package |-> p, known |-> known, version |-> v]
Declarations ==
  {Declaration(p, place, "exact", v) : p \in Packages, place \in Places, v \in {1, 2}} \cup
  {Declaration(p, <<"r1", "l1">>, k, 1) : p \in Packages, k \in {"unknown", "invalid"}} \cup
  {Declaration("unsupported", <<"r1", "l1">>, "exact", 1)}
AskedInventories == {{d, e} : d, e \in Declarations}

AskedVersions == 1..4
Events ==
  {Introduced(v) : v \in 0..3} \cup {Fixed(v) : v \in 1..4} \cup
  {Event("last_affected", v) : v \in 1..3} \cup {Event("limit", v) : v \in {3, Star}}
Lists ==
  UNION {[1..n -> Events] : n \in 1..3} \cup
  {<<Introduced(a), Fixed(b), Introduced(c), e>> : a, c \in 0..3, b \in 1..3, e \in Events}
AskedAdvisories ==
  {[versions |-> {}, ranges |-> <<RangeOf(l)>>] : l \in Lists} \cup
  {[versions |-> {2}, ranges |-> <<[git |-> g, events |-> <<Introduced(1), e>>],
                                   RangeOf(<<Introduced(3), Fixed(4)>>)>>] :
     g \in BOOLEAN, e \in Events}

ASSUME RangesAssumption == RangesEnd /\ RangesEndOnce
=============================================================================
