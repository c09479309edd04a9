-------------------------- MODULE MCMonitoringRuns --------------------------
(***************************************************************************)
(* Instances of MonitoringRuns for TLC.                                    *)
(***************************************************************************)
EXTENDS MonitoringRuns, TLC

CONSTANTS w1, w2, s1

Load(source, kind, plan) == [scope |-> source, kind |-> kind, plan |-> plan]
DerivedJob == [scope |-> DerivedScope, kind |-> "derived", plan |-> DerivedStages]

\* A full run of a source, a backfill and a resolution that compete for it, and a
\* derived run that the full run meets at the derived locks.
MCRequests ==
  {Load(s1, "regular", LoadStages \o Resolution \o DerivedStages),
   Load(s1, "backfill", LoadStages), Load(s1, "resolve_only", Resolution), DerivedJob}

\* A full run of a source and a derived run that meet at the derived locks.
DerivedRequests ==
  {DerivedJob, Load(s1, "regular", LoadStages \o Resolution \o DerivedStages)}

WorkerSymmetry == Permutations(Workers)
=============================================================================
