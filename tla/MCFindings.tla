------------------------------ MODULE MCFindings ------------------------------
(***************************************************************************)
(* Instances of Findings for TLC.                                          *)
(***************************************************************************)
EXTENDS Findings, TLC

CONSTANTS r1, r2, p1, p2, anna, vera

TwoRuns == {r1, r2}
OnePerson == {p1}
TwoPeople == {p1, p2}
TwoNames == {anna, vera}
TwoLists == <<{anna}, {vera}>>
OneList == <<{anna}>>
Alike == Permutations(TwoRuns) \union Permutations({p1, p2})
=============================================================================
