-------------------------- MODULE MCInvestigationRuns --------------------------
(***************************************************************************)
(* Instances of InvestigationRuns for TLC.                                 *)
(***************************************************************************)
EXTENDS InvestigationRuns, TLC

CONSTANTS p1, p2, t1, t2, f1

TwoProcs == {p1, p2}
TwoTasks == {t1, t2}
OneTask == {t1}
OneFollow == {f1}
NoFollow == {}

\* What may go wrong: crashes, cancels, failures, drops.
OneFailure == {0} \X {0} \X {0, 1} \X {0}
OneCrash == {0, 1} \X {0} \X {0} \X {0}
TwoCrashes == {0, 1, 2} \X {0} \X {0} \X {0}
TwoCancels == {0} \X {0, 1, 2} \X {0} \X {0}
\* Crashes, or one of the others.
CrashesOrOther == TwoCrashes \union {<<0, 1, 0, 0>>, <<0, 0, 1, 0>>, <<0, 0, 0, 1>>}
=============================================================================
