--------------------------- MODULE ReorderResults ---------------------------
(***************************************************************************)
(* ReorderByIndex by itself, over any sequence of results: what it yields  *)
(* for indices that arrive in any order and with gaps.                     *)
(***************************************************************************)
EXTENDS ReorderByIndex

VARIABLE given   \* the indices in the order of arrival; items are numbered

resvars == <<given, rvars>>
Arriving(g) == ReorderInit([k \in DOMAIN g |-> <<g[k], k>>])

ResultsInit == given \in Seq(Nat) /\ Arriving(given)
ResultsSpec == ResultsInit /\ [][ReorderNext /\ UNCHANGED given]_resvars

\* When the indices are distinct, each item comes out exactly once and in
\* index order, whatever the order of arrival and whatever gaps there are; and
\* while results still arrive, every item received is yielded or buffered.
AllInOrder ==
  IsInjective(given) =>
    /\ \A j, k \in DOMAIN yielded : j < k => given[yielded[j]] < given[yielded[k]]
    /\ Ended => Range(yielded) = DOMAIN given
    /\ source # <<>> => Range(yielded) \cup {buffer[i] : i \in DOMAIN buffer}
                          = DOMAIN given \ {source[k][2] : k \in DOMAIN source}
=============================================================================
