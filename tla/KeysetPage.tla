----------------------------- MODULE KeysetPage -----------------------------
(***************************************************************************)
(* Reading a table page by page: each SELECT takes, in key order, the      *)
(* first rows whose key is beyond the last one read.  Used by getQuads and *)
(* by the search-index rebuild.                                            *)
(***************************************************************************)
EXTENDS Naturals, FiniteSets

\* ORDER BY key LIMIT n: the n smallest keys of S.
FirstOf(S, n) == {k \in S : Cardinality({j \in S : j < k}) < n}

GreatestOf(S) == CHOOSE k \in S : \A j \in S : j <= k

\* A mutant: the row at the anchor is read again.
PageFrom(S, anchor, n) == FirstOf({k \in S : k >= anchor}, n)

\* WHERE key > anchor ORDER BY key LIMIT n, over the selected rows S.
PageAfter(S, anchor, n) == FirstOf({k \in S : k > anchor}, n)

\* Mutants: paging by offset; no anchor.
AnchorByCount(page, anchor) == anchor + Cardinality(page)
AnchorStays(page, anchor) == anchor

\* The anchor after a page: its last key, or where it was if the page is empty.
AnchorAfter(page, anchor) == IF page = {} THEN anchor ELSE GreatestOf(page)
=============================================================================
