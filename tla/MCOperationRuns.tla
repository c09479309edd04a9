--------------------------- MODULE MCOperationRuns ---------------------------
(***************************************************************************)
(* Instances of OperationRuns for TLC.                                     *)
(***************************************************************************)
EXTENDS OperationRuns, TLC

CONSTANTS s1, s2

Monitor(mode, chain) == [op |-> "monitor", mode |-> mode, chain |-> chain]

\* The chain from its load, and a step the operator presses alone.
ChainRequests == {Monitor("load", TRUE), Monitor("entities", FALSE)}

\* The chain from its load only.
LoadChain == {Monitor("load", TRUE)}

\* A step of the monitor and an operation beside it.
MixedRequests ==
  {Monitor("purge", FALSE), [op |-> "extract-entities", mode |-> "whole", chain |-> FALSE]}

\* A chain, and runs beside it.
EndingRequests == LoadChain \cup MixedRequests

SourceSymmetry == Permutations(Sources)
=============================================================================
