---------------------------- MODULE MCJunkHolds ----------------------------
(* Instances of JunkHolds for TLC. *)
EXTENDS JunkHolds, TLC

CONSTANTS p1, p2     \* commands
============================================================================
