------------------------------ MODULE MCRfList --------------------------------
(***************************************************************************)
(* Instances of RfList for TLC: pages of twenty and nineteen entries, a    *)
(* page cut to five, and one person followed through all of them.          *)
(***************************************************************************)
EXTENDS RfList, TLC

CONSTANTS k1, k2, A, B, cut, p

TwoChecks == {k1, k2}
TwoPages == {A, B}
Entries == [c \in {A, B, cut} |-> CASE c = A -> 20 [] c = B -> 19 [] c = cut -> 5]
Followed == [c \in {A, B, cut} |-> IF c = cut THEN {} ELSE {p}]
Alike == Permutations(TwoChecks)
=============================================================================
