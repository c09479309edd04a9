---------------------------- MODULE MCSourceReads -----------------------------
(***************************************************************************)
(* Instances of SourceReads for TLC: five references, four of one host.   *)
(***************************************************************************)
EXTENDS SourceReads

CONSTANTS h1, h2

TwoHosts == {h1, h2}
AllButOne == [r \in Refs |-> IF r = 2 THEN h2 ELSE h1]
OneAtOnce == [h \in TwoHosts |-> 1]
TwoAtOnce == [h \in TwoHosts |-> 2]
Pauses == {1, 2}
=============================================================================
