--------------------------- MODULE MonitoringRuns ---------------------------
(***************************************************************************)
(* Automated monitoring runs: rows of monitoring_runs shared by worker     *)
(* processes (packages/court-orchestrator, ADR 0013).  A worker aborts the *)
(* stale runs, inserts its row, goes through the stages of its plan unit   *)
(* by unit, and finishes the row; every bookkeeping write is fenced on the *)
(* row still being "running".  A worker may crash or raise anywhere, may   *)
(* be paused so long that its heartbeat grows stale, and may go on after   *)
(* its run was aborted and replaced.  Each action is one transaction.      *)
(***************************************************************************)
EXTENDS Naturals, Sequences

CONSTANTS
  Workers,     \* processes that call run_source, resolve_source, run_derived
  Sources,     \* registered sources
  Requests,    \* the jobs that schedules, operators and Dagster ask for
  MaxRuns,     \* bound on the rows ever inserted
  MaxUnits,    \* bound on the units of work a stage finds pending
  NoWorker     \* "nobody holds this advisory lock"

DerivedScope == "derived"
Scopes == Sources \cup {DerivedScope}
RunIds == 1..MaxRuns

\* MonitoringStage, in the order run_source and _run_derived_stages call them.
LoadStages == <<"discovery", "ingestion", "extraction">>
Resolution == <<"resolution">>
DerivedStages == <<"ai_entity_review", "classification", "rf_matching", "findings">>
Stages == {"discovery", "ingestion", "extraction", "resolution",
           "ai_entity_review", "classification", "rf_matching", "findings"}

\* The stages that take a session-level advisory lock.
LockedStages == {"ai_entity_review", "classification", "rf_matching", "findings"}

\* The stages that loop over items with a heartbeat before each and record an
\* item's failure; the others make their writes in one call.
LoopedStages == {"ingestion", "extraction", "resolution", "classification", "rf_matching"}

\* with_resolution and with_derived of run_source; resolve_source; run_derived.
SourcePlans == {LoadStages, LoadStages \o Resolution,
                LoadStages \o Resolution \o DerivedStages}
Jobs ==
  [scope : Sources, kind : {"regular", "backfill"}, plan : SourcePlans]
    \cup [scope : Sources, kind : {"resolve_only"}, plan : {Resolution}]
    \cup [scope : {DerivedScope}, kind : {"derived"}, plan : {DerivedStages}]

ASSUME RequestsAssumption == Requests \subseteq Jobs
ASSUME BoundsAssumption == MaxRuns \in Nat /\ MaxUnits \in Nat
ASSUME NamesAssumption == DerivedScope \notin Sources /\ NoWorker \notin Workers

Completed == {"completed", "completed_with_errors"}
Terminal == Completed \cup {"failed", "aborted"}
Statuses == {"none", "running"} \cup Terminal
Pcs == {"idle", "inserting", "entering", "fencing", "looping", "writing",
        "counting", "recording", "finishing", "checkpointing"}

VARIABLES
  lastId,      \* the newest row's id
  status,      \* run -> status ("none": no such row)
  job,         \* run -> the request it was started for
  stale,       \* run -> heartbeat_at is older than stale_run_after
  hasErrors,   \* run -> error_count > 0
  metrics,     \* run -> the stages whose stage_metrics are those of their end
  progress,    \* run -> the stages whose stage_metrics tell how far they are
  checkpoint,  \* source -> last_successful_run_id, 0 for none
  lock,        \* locked stage -> the worker whose connection holds it
  pc,          \* worker -> what its next transaction is
  want,        \* worker -> the request it is serving
  run,         \* worker -> RunHandle.run_id, 0 without one
  todo,        \* worker -> stages left, the current one first
  left,        \* worker -> units left in the current stage
  raised,      \* worker -> an exception other than the fence is being handled
  late         \* history: units a worker committed after its run had ended

rows == <<lastId, status, job, stale, hasErrors, metrics, progress, checkpoint>>
handles == <<want, run, todo, left, raised, late>>
vars == <<rows, lock, pc, handles>>

NoJob == [scope |-> DerivedScope, kind |-> "derived", plan |-> <<>>]

Init ==
  /\ lastId = 0
  /\ status = [r \in RunIds |-> "none"]
  /\ job = [r \in RunIds |-> NoJob]
  /\ stale = [r \in RunIds |-> FALSE]
  /\ hasErrors = [r \in RunIds |-> FALSE]
  /\ metrics = [r \in RunIds |-> {}] /\ progress = [r \in RunIds |-> {}]
  /\ checkpoint = [s \in Sources |-> 0]
  /\ lock = [g \in LockedStages |-> NoWorker]
  /\ pc = [w \in Workers |-> "idle"]
  /\ want = [w \in Workers |-> NoJob]
  /\ run = [w \in Workers |-> 0]
  /\ todo = [w \in Workers |-> <<>>]
  /\ left = [w \in Workers |-> 0]
  /\ raised = [w \in Workers |-> FALSE]
  /\ late = [w \in Workers |-> 0]

-----------------------------------------------------------------------------
Stage(w) == Head(todo[w])
Alive(w) == status[run[w]] = "running"
Goto(w, label) == pc' = [pc EXCEPT ![w] = label]

\* The advisory lock goes with the `with` block, or with the dead connection.
Release(w) == lock' = [g \in LockedStages |-> IF lock[g] = w THEN NoWorker ELSE lock[g]]

\* The process is done with its run, or with a request that got none.
Forget(w) ==
  /\ Goto(w, "idle")
  /\ want' = [want EXCEPT ![w] = NoJob]
  /\ run' = [run EXCEPT ![w] = 0]
  /\ todo' = [todo EXCEPT ![w] = <<>>]
  /\ left' = [left EXCEPT ![w] = 0]
  /\ raised' = [raised EXCEPT ![w] = FALSE]
  /\ late' = [late EXCEPT ![w] = 0]

\* Changed form of Beat for the mutation checks: the fence is missing.
BeatUnfenced(w) == stale' = [stale EXCEPT ![run[w]] = FALSE]

\* A write of the worker that got through the fence: heartbeat_at = now().
Beat(w) ==
  /\ Alive(w)
  /\ stale' = [stale EXCEPT ![run[w]] = FALSE]

\* heartbeat_at falls behind: the process is dead, paused, waiting, or in a
\* unit of work that takes longer than stale_run_after.
GrowStale(r) ==
  /\ status[r] = "running" /\ ~stale[r]
  /\ stale' = [stale EXCEPT ![r] = TRUE]
  /\ UNCHANGED <<lastId, status, job, hasErrors, metrics, progress, checkpoint, lock, pc, handles>>

-----------------------------------------------------------------------------
\* Changed form of AbortStaleRuns: a start that sweeps nothing.
AbortNothing(w, j) ==
  /\ pc[w] = "idle"
  /\ want' = [want EXCEPT ![w] = j]
  /\ Goto(w, "inserting")
  /\ UNCHANGED <<rows, lock, run, todo, left, raised, late>>

\* start_run, first transaction: abort every stale run, of any scope.
AbortStaleRuns(w, j) ==
  /\ pc[w] = "idle"
  /\ status' = [r \in RunIds |->
                  IF status[r] = "running" /\ stale[r] THEN "aborted" ELSE status[r]]
  /\ want' = [want EXCEPT ![w] = j]
  /\ Goto(w, "inserting")
  /\ UNCHANGED <<lastId, job, stale, hasErrors, metrics, progress, checkpoint, lock,
                 run, todo, left, raised, late>>

\* Changed forms of ScopeTaken: no unique index; an index that ignores stale rows.
ScopeNeverTaken(scope) == FALSE
ScopeTakenByFresh(scope) ==
  \E r \in RunIds : status[r] = "running" /\ ~stale[r] /\ job[r].scope = scope

ScopeTaken(scope) == \E r \in RunIds : status[r] = "running" /\ job[r].scope = scope

\* start_run, second transaction: the row, unless the unique index refuses it.
InsertRun(w) ==
  /\ pc[w] = "inserting"
  /\ ~ScopeTaken(want[w].scope)
  /\ lastId < MaxRuns
  /\ lastId' = lastId + 1
  /\ status' = [status EXCEPT ![lastId + 1] = "running"]
  /\ job' = [job EXCEPT ![lastId + 1] = want[w]]
  /\ run' = [run EXCEPT ![w] = lastId + 1]
  /\ todo' = [todo EXCEPT ![w] = want[w].plan]
  /\ Goto(w, "entering")
  /\ UNCHANGED <<stale, hasErrors, metrics, progress, checkpoint, lock, want, left, raised, late>>

\* MonitoringAlreadyRunningError; the second disjunct is only the model's bound.
AlreadyRunning(w) ==
  /\ pc[w] = "inserting"
  /\ ScopeTaken(want[w].scope) \/ lastId = MaxRuns
  /\ Forget(w)
  /\ UNCHANGED <<rows, lock>>

-----------------------------------------------------------------------------
\* A stage of its own connection, or a derived stage whose lock is free.
EnterStage(w) ==
  /\ pc[w] = "entering"
  /\ \/ /\ Stage(w) \notin LockedStages
        /\ UNCHANGED lock
     \/ /\ Stage(w) \in LockedStages
        /\ lock[Stage(w)] = NoWorker
        /\ lock' = [lock EXCEPT ![Stage(w)] = w]
  /\ Goto(w, "fencing")
  /\ UNCHANGED <<rows, handles>>

LockIsTaken(w) == Stage(w) \in LockedStages /\ lock[Stage(w)] # NoWorker

\* while_waiting: a run that waits for the lock keeps its heartbeat fresh.
BeatWhileWaiting(w) ==
  /\ pc[w] = "entering" /\ LockIsTaken(w)
  /\ Beat(w)
  /\ UNCHANGED <<lastId, status, job, hasErrors, metrics, progress, checkpoint, lock, pc, handles>>

\* _stage: the fence at the start of a stage, then its pending work is read.
FenceStage(w) ==
  /\ pc[w] = "fencing"
  /\ Beat(w)
  /\ \E n \in 0..MaxUnits :
       left' = [left EXCEPT ![w] = IF Stage(w) \in {"discovery", "findings"} THEN 1 ELSE n]
  /\ Goto(w, "looping")
  /\ UNCHANGED <<lastId, status, job, hasErrors, metrics, progress, checkpoint, lock,
                 want, run, todo, raised, late>>

\* A looped stage beats before each item; the batches have no beat between units.  The
\* beat of the first extraction run to resolve, and of every tenth after it, puts the
\* progress of the stage into its metrics.
BeginUnit(w) ==
  /\ pc[w] = "looping" /\ left[w] > 0
  /\ \/ Stage(w) \in LoopedStages /\ Beat(w)
     \/ Stage(w) \notin LoopedStages /\ UNCHANGED stale
  /\ \/ /\ Stage(w) = "resolution"
        /\ progress' = [progress EXCEPT ![run[w]] = @ \cup {"resolution"}]
     \/ Stage(w) # "resolution" /\ UNCHANGED progress
  /\ Goto(w, "writing")
  /\ UNCHANGED <<lastId, status, job, hasErrors, metrics, checkpoint, lock, handles>>

\* The owning service commits the unit in its own transaction: store, extract,
\* resolve, review, classify, match, evaluate.  No fence guards it.  Discovery
\* only reads.  The AI review counts inside the batch and goes to the next.
CommitUnit(w) ==
  /\ pc[w] = "writing"
  /\ late' = [late EXCEPT ![w] =
                IF Alive(w) \/ Stage(w) = "discovery" THEN @ ELSE @ + 1]
  /\ \/ /\ Stage(w) = "ai_entity_review"
        /\ left' = [left EXCEPT ![w] = @ - 1]
        /\ Goto(w, "looping")
     \/ /\ Stage(w) # "ai_entity_review"
        /\ Goto(w, "counting")
        /\ UNCHANGED left
  /\ UNCHANGED <<rows, lock, want, run, todo, raised>>

\* A document without text or outside the period is counted, and may be the one
\* that ends a period's load; an extraction that already exists is not counted.
SkipUnit(w) ==
  /\ pc[w] = "writing"
  /\ \/ /\ Stage(w) = "ingestion"
        /\ \E n \in {1, left[w]} : left' = [left EXCEPT ![w] = n]
        /\ Goto(w, "counting")
     \/ /\ Stage(w) = "extraction"
        /\ left' = [left EXCEPT ![w] = @ - 1]
        /\ Goto(w, "looping")
  /\ UNCHANGED <<rows, lock, want, run, todo, raised, late>>

\* An item's exception: isolated, to be recorded on the run.
FailUnit(w) ==
  /\ pc[w] = "writing" /\ Stage(w) \in LoopedStages
  /\ Goto(w, "recording")
  /\ UNCHANGED <<rows, lock, handles>>

\* add_counters.
CountUnit(w) ==
  /\ pc[w] = "counting"
  /\ Beat(w)
  /\ left' = [left EXCEPT ![w] = @ - 1]
  /\ Goto(w, "looping")
  /\ UNCHANGED <<lastId, status, job, hasErrors, metrics, progress, checkpoint, lock,
                 want, run, todo, raised, late>>

\* Changed form of RecordFailure: a failed item is counted off twice.
RecordFailureTwice(w) ==
  /\ pc[w] = "recording"
  /\ Beat(w)
  /\ hasErrors' = [hasErrors EXCEPT ![run[w]] = TRUE]
  /\ left' = [left EXCEPT ![w] = @ - 1]
  /\ Goto(w, "counting")
  /\ UNCHANGED <<lastId, status, job, metrics, progress, checkpoint, lock, want, run, todo, raised, late>>

\* record_failure: error_count and the item's row in one fenced transaction.
\* Ingestion counts documents_failed after it.
RecordFailure(w) ==
  /\ pc[w] = "recording"
  /\ Beat(w)
  /\ hasErrors' = [hasErrors EXCEPT ![run[w]] = TRUE]
  /\ \/ Stage(w) = "ingestion" /\ Goto(w, "counting") /\ UNCHANGED left
     \/ /\ Stage(w) # "ingestion"
        /\ left' = [left EXCEPT ![w] = @ - 1]
        /\ Goto(w, "looping")
  /\ UNCHANGED <<lastId, status, job, metrics, progress, checkpoint, lock, want, run, todo, raised, late>>

\* set_stage_metrics at the normal end of a stage, in place of what its progress left, then
\* its lock goes.
EndStage(w) ==
  /\ pc[w] = "looping" /\ left[w] = 0
  /\ Beat(w)
  /\ metrics' = [metrics EXCEPT ![run[w]] = @ \cup {Stage(w)}]
  /\ progress' = [progress EXCEPT ![run[w]] = @ \ {Stage(w)}]
  /\ Release(w)
  /\ todo' = [todo EXCEPT ![w] = Tail(@)]
  /\ Goto(w, IF Len(todo[w]) = 1 THEN "finishing" ELSE "entering")
  /\ UNCHANGED <<lastId, status, job, hasErrors, checkpoint, want, run, left, raised, late>>

-----------------------------------------------------------------------------
\* The next transaction of the worker is one that _update_running guards.
AtFence(w) ==
  \/ pc[w] \in {"fencing", "counting", "recording"}
  \/ pc[w] = "looping" /\ (left[w] = 0 \/ Stage(w) \in LoopedStages)
  \/ pc[w] = "entering" /\ LockIsTaken(w)

\* MonitoringRunAbortedError: the run was aborted while its worker was alive.
StoppedByFence(w) ==
  /\ AtFence(w) /\ ~Alive(w)
  /\ Release(w)
  /\ Goto(w, "finishing")
  /\ UNCHANGED <<rows, handles>>

\* Changed form of StageRaises: the exception is swallowed.
StageRaisesUnseen(w) ==
  /\ pc[w] \in {"entering", "fencing", "looping", "writing", "counting", "recording"}
  /\ Release(w)
  /\ Goto(w, "finishing")
  /\ UNCHANGED <<rows, handles>>

\* Any other exception, or an interrupt, leaves the stages.
StageRaises(w) ==
  /\ pc[w] \in {"entering", "fencing", "looping", "writing", "counting", "recording"}
  /\ raised' = [raised EXCEPT ![w] = TRUE]
  /\ Release(w)
  /\ Goto(w, "finishing")
  /\ UNCHANGED <<rows, want, run, todo, left, late>>

Outcome(w) ==
  CASE ~Alive(w) -> status[run[w]]
    [] Alive(w) /\ raised[w] -> "failed"
    [] Alive(w) /\ ~raised[w] /\ hasErrors[run[w]] -> "completed_with_errors"
    [] OTHER -> "completed"

\* finish_run: locks the row; one that is not running keeps its status.  The
\* handle of a regular run that completed goes on to move the checkpoint.
FinishRun(w) ==
  /\ pc[w] = "finishing"
  /\ status' = [status EXCEPT ![run[w]] = Outcome(w)]
  /\ \/ /\ want[w].kind = "regular" /\ Outcome(w) \in Completed
        /\ Goto(w, "checkpointing")
        /\ UNCHANGED handles
     \/ /\ ~(want[w].kind = "regular" /\ Outcome(w) \in Completed)
        /\ Forget(w)
  /\ UNCHANGED <<lastId, job, stale, hasErrors, metrics, progress, checkpoint, lock>>

\* Changed form of UpdateCheckpoint: the newest row instead of the finished one.
UpdateCheckpointToNewest(w) ==
  /\ pc[w] = "checkpointing"
  /\ checkpoint' = [checkpoint EXCEPT ![want[w].scope] = lastId]
  /\ Forget(w)
  /\ UNCHANGED <<lastId, status, job, stale, hasErrors, metrics, progress, lock>>

\* update_checkpoint: an upsert that asks nothing of the row it replaces.
UpdateCheckpoint(w) ==
  /\ pc[w] = "checkpointing"
  /\ checkpoint' = [checkpoint EXCEPT ![want[w].scope] = run[w]]
  /\ Forget(w)
  /\ UNCHANGED <<lastId, status, job, stale, hasErrors, metrics, progress, lock>>

\* The process dies, or a statement of the finish itself fails.
Crash(w) ==
  /\ pc[w] # "idle"
  /\ Release(w)
  /\ Forget(w)
  /\ UNCHANGED rows

-----------------------------------------------------------------------------
\* What a worker that keeps running does next.
Progress(w) ==
  \/ InsertRun(w) \/ AlreadyRunning(w)
  \/ EnterStage(w) \/ FenceStage(w) \/ BeginUnit(w)
  \/ CommitUnit(w) \/ SkipUnit(w) \/ FailUnit(w) \/ CountUnit(w) \/ RecordFailure(w)
  \/ EndStage(w) \/ StoppedByFence(w) \/ FinishRun(w) \/ UpdateCheckpoint(w)

Next ==
  \/ \E r \in RunIds : GrowStale(r)
  \/ \E w \in Workers :
       \/ \E j \in Requests : AbortStaleRuns(w, j)
       \/ BeatWhileWaiting(w)
       \/ Progress(w)
       \/ StageRaises(w)
       \/ Crash(w)

Spec == Init /\ [][Next]_vars

Abandoned(r) == \A w \in Workers : run[w] # r

\* Workers keep running unless they crash; the schedule keeps asking for runs;
\* time passes for a run nobody serves.  Staleness of a served run, exceptions
\* and crashes may happen but need not.
Fairness ==
  /\ \A w \in Workers : WF_vars(Progress(w))
  /\ \A w \in Workers : WF_vars(\E j \in Requests : AbortStaleRuns(w, j))
  /\ \A r \in RunIds : WF_vars(Abandoned(r) /\ GrowStale(r))

FairSpec == Spec /\ Fairness

-----------------------------------------------------------------------------
\* Every variable has its type.
TypeOK ==
  /\ lastId \in 0..MaxRuns
  /\ status \in [RunIds -> Statuses]
  /\ job \in [RunIds -> Jobs \cup {NoJob}]
  /\ stale \in [RunIds -> BOOLEAN]
  /\ hasErrors \in [RunIds -> BOOLEAN]
  /\ metrics \in [RunIds -> SUBSET Stages] /\ progress \in [RunIds -> SUBSET Stages]
  /\ checkpoint \in [Sources -> RunIds \cup {0}]
  /\ lock \in [LockedStages -> Workers \cup {NoWorker}]
  /\ pc \in [Workers -> Pcs]
  /\ want \in [Workers -> Jobs \cup {NoJob}]
  /\ run \in [Workers -> RunIds \cup {0}]
  /\ todo \in [Workers -> Seq(Stages)]
  /\ left \in [Workers -> 0..MaxUnits \cup {1}]
  /\ raised \in [Workers -> BOOLEAN]
  /\ late \in [Workers -> Nat]

\* Two workers whose runs are both still running work in different scopes,
\* whatever was aborted, crashed or restarted before: one load per source.
LiveWorkersApart ==
  \A v, w \in Workers :
    v # w /\ run[v] # 0 /\ run[w] # 0 /\ Alive(v) /\ Alive(w)
      => job[run[v]].scope # job[run[w]].scope

\* A worker whose run was aborted under it commits at most the unit it was in;
\* only the batch of AI reviews, which never beats, gets further.
FencedWithinOneUnit ==
  \A w \in Workers : late[w] > 1 => Stage(w) = "ai_entity_review"

\* "At most the unit of work in progress when the abort happened completes"
\* (docs/adr/0013-automated-monitoring.md), with no exception for a stage.
AtMostOneUnitAfterAbort == \A w \in Workers : late[w] <= 1

\* A run that completed ended every stage of its plan and shows none as under
\* way, and its status tells whether an item of it failed: neither a crash, a
\* fence, an exception nor a replaced worker can produce a completed run with a
\* stage missing or left half way.
CompletedMeansWhole ==
  \A r \in RunIds : status[r] \in Completed =>
    /\ metrics[r] = {job[r].plan[i] : i \in 1..Len(job[r].plan)} /\ progress[r] = {}
    /\ (status[r] = "completed_with_errors") <=> hasErrors[r]

\* The checkpoint of a source names a regular run of that source that completed,
\* never one that was aborted, failed, or only resolved or refilled.
CheckpointNamesGoodRun ==
  \A s \in Sources : checkpoint[s] # 0 =>
    /\ job[checkpoint[s]].scope = s
    /\ job[checkpoint[s]].kind = "regular"
    /\ status[checkpoint[s]] \in Completed

\* A derived stage's lock is held exactly while its worker is in that stage:
\* no fence, exception or crash leaves it behind, and nobody is inside without.
LockHeldExactlyInside ==
  \A g \in LockedStages, w \in Workers :
    lock[g] = w <=> /\ pc[w] \in {"fencing", "looping", "writing", "counting", "recording"}
                    /\ Stage(w) = g

\* A row that ended is never written again by a run's worker: not its status,
\* not its failures, not its stage metrics (the fence of _update_running).
EndedRunsFrozen ==
  [][\A r \in RunIds : status[r] \in Terminal =>
       /\ status'[r] = status[r]
       /\ hasErrors'[r] = hasErrors[r]
       /\ metrics'[r] = metrics[r] /\ progress'[r] = progress[r]]_vars

\* last_successful_run_id never goes back to an older run.
CheckpointNeverGoesBack ==
  [][\A s \in Sources : checkpoint'[s] >= checkpoint[s]]_vars

\* Every run ends: also one whose process crashed, so a crash never blocks its
\* scope forever, and one that waits for the lock of a derived stage.
RunsEnd == \A r \in RunIds : (status[r] = "running") ~> (status[r] \in Terminal)

\* The rows keep the promises of the ledger, whatever the workers do.
Ledger == INSTANCE RunLedger WITH
  state <- status,
  scopeOf <- [r \in RunIds |-> job[r].scope],
  regular <- [r \in RunIds |-> job[r].kind = "regular"],
  marker <- checkpoint
ImplementsLedger == Ledger!LedgerSpec
=============================================================================
