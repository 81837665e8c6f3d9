----------------------------- MODULE MCWikiDocs -----------------------------
(* The deep wiki of one repository with the overview and one more page.    *)
EXTENDS WikiDocs

CONSTANT other

(* What the page of the wiki sends: the missing pages, a new plan with all *)
(* of them again, one page.                                                *)
AskedPages ==
  {[page |-> None, refresh |-> FALSE, only |-> "pages"],
   [page |-> None, refresh |-> TRUE, only |-> "pages"],
   [page |-> other, refresh |-> FALSE, only |-> "pages"]}
=============================================================================
