---------------------------- MODULE OperationRuns ----------------------------
(***************************************************************************)
(* Operator operation runs: rows of operator_operation_runs, the executor  *)
(* thread of each run, and the command it runs as a process (ADR 0016),    *)
(* with the chain "do everything" of the monitor operation, the nightly    *)
(* cycle that starts the same chain from Dagster, and the source loads     *)
(* that a load command and the schedules make side by side.                *)
(*                                                                         *)
(* A thread writes its row only while the row is running: stop() and the   *)
(* sweep of stale runs end a row at once, and its process learns of it at  *)
(* the next beat.  A worker may die under its thread (the process goes on  *)
(* unwatched), and a write of a thread may fail.                           *)
(***************************************************************************)
EXTENDS Naturals, FiniteSets

CONSTANTS
  Sources,     \* the enabled sources of a load
  Requests,    \* what the operator asks for: [op, mode, chain]
  MaxRuns      \* bound on the rows ever inserted

RunIds == 1..MaxRuns
Scheduled == MaxRuns + 1     \* holder of a source: a load of the schedules

Operations == {"monitor", "extract-entities"}
Modes == {"whole", "load", "resolve", "purge", "entities", "rosfin", "figurants", "political"}
AllRequests == [op : Operations, mode : Modes, chain : BOOLEAN]

ASSUME RequestsAssumption == Requests \subseteq AllRequests
ASSUME BoundsAssumption == MaxRuns \in Nat

\* The modes whose command takes the scope of each source in monitoring_runs.
SourceModes == {"whole", "load", "resolve"}

\* MONITOR_CYCLE: the step after a step; the last one and the modes outside the
\* cycle have none.
Following == [load |-> "purge", purge |-> "entities", entities |-> "figurants",
              figurants |-> "political"]

Live == {"pending", "running"}
Ended == {"succeeded", "failed", "interrupted"}
Codes == {"none", "ok", "error", "busy"}     \* no code, 0, another one, 3
Threads == {"none", "claiming", "spawning", "supervising", "stopping", "expiring",
            "finishing", "failing", "chaining", "sweeping", "inserting", "gone"}

VARIABLES
  lastId,      \* the newest row's id
  status,      \* run -> status ("none": no such row)
  req,         \* run -> its operation, mode and chain flag
  code,        \* run -> return_code of the row
  stale,       \* run -> coalesce(heartbeat_at, created_at) is older than STALE_AFTER
  started,     \* the runs with a started_at
  prev,        \* history: run -> the run whose thread started it, 0 for a caller's
  nightly,     \* run -> its registry is the one of the Dagster cycle
  thread,      \* run -> what its executor thread does next
  proc,        \* run -> its process: "none", "alive" or "ended"
  exit,        \* run -> the process's exit code
  left,        \* run -> sources its process has not come to
  outcome,     \* history: run -> how its process's sources ended
  asked,       \* caller -> the request between the two transactions of start
  cleared,     \* the cycle found no load running and a recent one done
  holder,      \* source -> the run, or Scheduled, whose source run is running
  opened,      \* source -> the runs started before that source run
  fresh,       \* the runs after whose start a source run started and completed
  loaded       \* some source run completed lately

rows == <<lastId, status, req, code, stale, started, prev, nightly>>
processes == <<proc, exit, left, outcome>>
loads == <<holder, opened, fresh, loaded>>
vars == <<rows, thread, processes, asked, cleared, loads>>

Callers == {"operator", "cycle"}
NoRequest == [op |-> "extract-entities", mode |-> "whole", chain |-> FALSE]
Nothing == [op |-> "nothing", mode |-> "whole", chain |-> FALSE]
PurgeChain == [op |-> "monitor", mode |-> "purge", chain |-> TRUE]

Init ==
  /\ lastId = 0
  /\ status = [r \in RunIds |-> "none"]
  /\ req = [r \in RunIds |-> NoRequest]
  /\ code = [r \in RunIds |-> "none"]
  /\ stale = [r \in RunIds |-> FALSE]
  /\ started = {}
  /\ prev = [r \in RunIds |-> 0]
  /\ nightly = [r \in RunIds |-> FALSE]
  /\ thread = [r \in RunIds |-> "none"]
  /\ proc = [r \in RunIds |-> "none"]
  /\ exit = [r \in RunIds |-> "none"]
  /\ left = [r \in RunIds |-> {}]
  /\ outcome = [r \in RunIds |-> {}]
  /\ asked = [c \in Callers |-> Nothing]
  /\ cleared = FALSE
  /\ holder = [s \in Sources |-> 0]
  /\ opened = [s \in Sources |-> {}]
  /\ fresh = {}
  /\ loaded = FALSE

-----------------------------------------------------------------------------
Thread(r, label) == thread' = [thread EXCEPT ![r] = label]

\* _running_here: the thread's own row, while nobody ended it.
RunningHere(r) == status[r] = "running"

\* A row nobody beats for falls behind; so does one whose beats cannot be stored.
GrowStale(r) ==
  /\ status[r] \in Live /\ ~stale[r]
  /\ stale' = [stale EXCEPT ![r] = TRUE]
  /\ UNCHANGED <<lastId, status, req, code, started, prev, nightly, thread, processes,
                 asked, cleared, loads>>

\* Changed form of Interrupted: a pending row has no heartbeat to go stale.
InterruptedIfRunning ==
  [r \in RunIds |-> IF status[r] = "running" /\ stale[r] THEN "interrupted" ELSE status[r]]

\* interrupt_stale_runs: start, list_runs, runs_of and get all begin with it.
Interrupted ==
  [r \in RunIds |-> IF status[r] \in Live /\ stale[r] THEN "interrupted" ELSE status[r]]

InterruptStaleRuns ==
  /\ status' = Interrupted
  /\ UNCHANGED <<lastId, req, code, stale, started, prev, nightly, thread, processes,
                 asked, cleared, loads>>

\* stop, also the second half of stop_chain_after: the row ends at once.
Stop(r) ==
  /\ status[r] \in Live
  /\ status' = [status EXCEPT ![r] = "interrupted"]
  /\ UNCHANGED <<lastId, req, code, stale, started, prev, nightly, thread, processes,
                 asked, cleared, loads>>

-----------------------------------------------------------------------------
\* The partial unique index: one live row of an operation.
Taken(op) == \E r \in RunIds : status[r] \in Live /\ req[r].op = op

\* The INSERT of start, and the thread that is to run it.
Insert(request, parent, night) ==
  /\ ~Taken(request.op)
  /\ lastId < MaxRuns
  /\ lastId' = lastId + 1
  /\ status' = [status EXCEPT ![lastId + 1] = "pending"]
  /\ req' = [req EXCEPT ![lastId + 1] = request]
  /\ prev' = [prev EXCEPT ![lastId + 1] = parent]
  /\ nightly' = [nightly EXCEPT ![lastId + 1] = night]
  /\ UNCHANGED <<code, stale, started>>

Refused(request) == Taken(request.op) \/ lastId = MaxRuns

\* start by a caller, first transaction: sweep.  The cycle asks for the purge
\* once wait_for_load let it through.
Ask(c, request) ==
  /\ asked[c] = Nothing
  /\ c = "cycle" => cleared /\ request = PurgeChain
  /\ c = "operator" => request \in Requests
  /\ asked' = [asked EXCEPT ![c] = request]
  /\ cleared' = IF c = "cycle" THEN FALSE ELSE cleared
  /\ status' = Interrupted
  /\ UNCHANGED <<lastId, req, code, stale, started, prev, nightly, thread, processes, loads>>

\* Second transaction: a pending row and its thread.
Start(c) ==
  /\ asked[c] # Nothing
  /\ Insert(asked[c], 0, c = "cycle")
  /\ Thread(lastId + 1, "claiming")
  /\ asked' = [asked EXCEPT ![c] = Nothing]
  /\ UNCHANGED <<processes, cleared, loads>>

\* OperationConflictError.
Conflict(c) ==
  /\ asked[c] # Nothing
  /\ Refused(asked[c])
  /\ asked' = [asked EXCEPT ![c] = Nothing]
  /\ UNCHANGED <<rows, thread, processes, cleared, loads>>

\* wait_for_load: no source run is running and one ended well lately.
WaitForLoad ==
  /\ ~cleared /\ asked["cycle"] = Nothing
  /\ \A s \in Sources : holder[s] = 0
  /\ loaded
  /\ cleared' = TRUE
  /\ UNCHANGED <<rows, thread, processes, asked, loads>>

-----------------------------------------------------------------------------
\* _claim: pending -> running, unless the row was ended meanwhile.
Claim(r) ==
  /\ thread[r] = "claiming"
  /\ \/ /\ status[r] = "pending"
        /\ status' = [status EXCEPT ![r] = "running"]
        /\ stale' = [stale EXCEPT ![r] = FALSE]
        /\ started' = started \cup {r}
        /\ Thread(r, "spawning")
     \/ /\ status[r] # "pending"
        /\ Thread(r, "gone")
        /\ UNCHANGED <<status, stale, started>>
  /\ UNCHANGED <<lastId, req, code, prev, nightly, processes, asked, cleared, loads>>

\* Popen: the status is not looked at again before the first beat.
Spawn(r) ==
  /\ thread[r] = "spawning"
  /\ proc' = [proc EXCEPT ![r] = "alive"]
  /\ left' = [left EXCEPT ![r] = IF req[r].op = "monitor" /\ req[r].mode \in SourceModes
                                 THEN Sources ELSE {}]
  /\ Thread(r, "supervising")
  /\ UNCHANGED <<rows, exit, outcome, asked, cleared, loads>>

\* Changed form of Beat: a run that is no longer ours goes on.
BeatAnyway(r) ==
  /\ thread[r] = "supervising" /\ proc[r] = "alive"
  /\ stale' = [stale EXCEPT ![r] = FALSE]
  /\ UNCHANGED <<lastId, status, req, code, started, prev, nightly, thread, processes,
                 asked, cleared, loads>>

\* _heartbeat: False once the row is not running any more, and then SIGINT.  A
\* beat the database did not take counts as taken and changes nothing.
Beat(r) ==
  /\ thread[r] = "supervising" /\ proc[r] = "alive"
  /\ \/ /\ RunningHere(r)
        /\ stale' = [stale EXCEPT ![r] = FALSE]
        /\ UNCHANGED thread
     \/ /\ ~RunningHere(r)
        /\ Thread(r, "stopping")
        /\ UNCHANGED stale
  /\ UNCHANGED <<lastId, status, req, code, started, prev, nightly, processes,
                 asked, cleared, loads>>

\* The cycle's runner: past STEP_TIMEOUT the beat answers "stop".
Expire(r) ==
  /\ thread[r] = "supervising" /\ proc[r] = "alive" /\ nightly[r]
  /\ Thread(r, "expiring")
  /\ stale' = IF RunningHere(r) THEN [stale EXCEPT ![r] = FALSE] ELSE stale
  /\ UNCHANGED <<lastId, status, req, code, started, prev, nightly, processes,
                 asked, cleared, loads>>

\* _stop: a process that outlives STOP_GRACE is killed.
Kill(r) ==
  /\ thread[r] \in {"stopping", "expiring"} /\ proc[r] = "alive"
  /\ proc' = [proc EXCEPT ![r] = "ended"]
  /\ exit' = [exit EXCEPT ![r] = "error"]
  /\ UNCHANGED <<rows, thread, left, outcome, asked, cleared, loads>>

\* Changed form of Collect: a process that has no exit code yet counts as a 0.
CollectUnwaited(r) ==
  /\ thread[r] \in {"supervising", "stopping", "expiring"}
  /\ exit' = [exit EXCEPT ![r] = IF proc[r] = "alive" THEN "ok" ELSE @]
  /\ Thread(r, "finishing")
  /\ UNCHANGED <<rows, proc, left, outcome, asked, cleared, loads>>

\* process.wait(): the result; the cycle's runner turns a 0 on its signal into 124.
Collect(r) ==
  /\ thread[r] \in {"supervising", "stopping", "expiring"} /\ proc[r] = "ended"
  /\ exit' = [exit EXCEPT ![r] = IF thread[r] = "expiring" /\ @ = "ok" THEN "error" ELSE @]
  /\ Thread(r, "finishing")
  /\ UNCHANGED <<rows, proc, left, outcome, asked, cleared, loads>>

\* Popen fails, or an exception leaves the runner, which kills the process first.
RunnerRaises(r) ==
  /\ thread[r] \in {"spawning", "supervising", "stopping", "expiring"}
  /\ proc' = [proc EXCEPT ![r] = IF @ = "alive" THEN "ended" ELSE @]
  /\ exit' = [exit EXCEPT ![r] = IF proc[r] = "alive" THEN "error" ELSE @]
  /\ Thread(r, "failing")
  /\ UNCHANGED <<rows, left, outcome, asked, cleared, loads>>

\* Changed form of Finish: the row is written whatever became of it.
FinishUnfenced(r) ==
  /\ thread[r] = "finishing"
  /\ status' = [status EXCEPT ![r] = IF exit[r] = "ok" THEN "succeeded" ELSE "failed"]
  /\ code' = [code EXCEPT ![r] = exit[r]]
  /\ stale' = [stale EXCEPT ![r] = FALSE]
  /\ Thread(r, "chaining")
  /\ UNCHANGED <<lastId, req, started, prev, nightly, processes, asked, cleared, loads>>

\* _finish after a result: fenced; it may also fail and only be logged.
Finish(r) ==
  /\ thread[r] = "finishing"
  /\ \/ /\ RunningHere(r)
        /\ status' = [status EXCEPT ![r] = IF exit[r] = "ok" THEN "succeeded" ELSE "failed"]
        /\ code' = [code EXCEPT ![r] = exit[r]]
        /\ stale' = [stale EXCEPT ![r] = FALSE]
     \/ UNCHANGED <<status, code, stale>>
  /\ Thread(r, "chaining")
  /\ UNCHANGED <<lastId, req, started, prev, nightly, processes, asked, cleared, loads>>

\* _finish after an exception: failed, no code, and no chain.
FinishFailed(r) ==
  /\ thread[r] = "failing"
  /\ \/ /\ RunningHere(r)
        /\ status' = [status EXCEPT ![r] = "failed"]
        /\ stale' = [stale EXCEPT ![r] = FALSE]
     \/ UNCHANGED <<status, stale>>
  /\ Thread(r, "gone")
  /\ UNCHANGED <<lastId, req, code, started, prev, nightly, processes, asked, cleared, loads>>

-----------------------------------------------------------------------------
\* _load_partly_done: by the row's code and by the runs of any source since.
LoadPartlyDone(r) == code[r] # "busy" /\ r \in fresh

\* Changed form of GoesOn: the ending is taken from the process, not the row.
GoesOnByExit(r) ==
  /\ req[r].op = "monitor" /\ req[r].chain
  /\ req[r].mode \in DOMAIN Following
  /\ \/ exit[r] = "ok"
     \/ exit[r] = "error" /\ req[r].mode = "load" /\ LoadPartlyDone(r)

\* next_in_chain, of the row as the database has it.
GoesOn(r) ==
  /\ req[r].op = "monitor" /\ req[r].chain
  /\ req[r].mode \in DOMAIN Following
  /\ \/ status[r] = "succeeded"
     \/ status[r] = "failed" /\ req[r].mode = "load" /\ LoadPartlyDone(r)

\* _continue_chain reads the row back; a failure of that read ends the chain too.
ReadBack(r) ==
  /\ thread[r] = "chaining"
  /\ \/ GoesOn(r) /\ Thread(r, "sweeping")
     \/ Thread(r, "gone")
  /\ UNCHANGED <<rows, processes, asked, cleared, loads>>

\* start of the next step: sweep, then insert with a thread, or a conflict.
ChainSweep(r) ==
  /\ thread[r] = "sweeping"
  /\ status' = Interrupted
  /\ Thread(r, "inserting")
  /\ UNCHANGED <<lastId, req, code, stale, started, prev, nightly, processes,
                 asked, cleared, loads>>

ChainStart(r) ==
  /\ thread[r] = "inserting"
  /\ Insert([op |-> "monitor", mode |-> Following[req[r].mode], chain |-> TRUE], r, nightly[r])
  /\ thread' = [thread EXCEPT ![r] = "gone", ![lastId + 1] = "claiming"]
  /\ UNCHANGED <<processes, asked, cleared, loads>>

ChainBlocked(r) ==
  /\ thread[r] = "inserting"
  /\ Refused(req[r])
  /\ Thread(r, "gone")
  /\ UNCHANGED <<rows, processes, asked, cleared, loads>>

\* The worker dies: its thread is gone, the process it started goes on unwatched.
ThreadDies(r) ==
  /\ thread[r] \notin {"none", "gone"}
  /\ Thread(r, "gone")
  /\ UNCHANGED <<rows, processes, asked, cleared, loads>>

-----------------------------------------------------------------------------
\* A source run starts in a free scope: of a load process or of the schedules.
TakeSource(s, h) ==
  /\ holder[s] = 0
  /\ holder' = [holder EXCEPT ![s] = h]
  /\ opened' = [opened EXCEPT ![s] = started]
  /\ UNCHANGED <<fresh, loaded>>

\* It ends well, or it fails.
FreeSource(s, good) ==
  /\ holder' = [holder EXCEPT ![s] = 0]
  /\ fresh' = IF good THEN fresh \cup opened[s] ELSE fresh
  /\ loaded' = (loaded \/ good)
  /\ opened' = [opened EXCEPT ![s] = {}]

ScheduledLoadStarts(s) ==
  /\ TakeSource(s, Scheduled)
  /\ UNCHANGED <<rows, thread, processes, asked, cleared>>

ScheduledLoadEnds(s) ==
  /\ holder[s] = Scheduled
  /\ \E good \in BOOLEAN : FreeSource(s, good)
  /\ UNCHANGED <<rows, thread, processes, asked, cleared>>

LoadSource(r, s) ==
  /\ proc[r] = "alive" /\ s \in left[r]
  /\ TakeSource(s, r)
  /\ left' = [left EXCEPT ![r] = @ \ {s}]
  /\ UNCHANGED <<rows, thread, proc, exit, outcome, asked, cleared>>

\* MonitoringAlreadyRunningError: the source is skipped.
SkipSource(r, s) ==
  /\ proc[r] = "alive" /\ s \in left[r]
  /\ holder[s] # 0
  /\ left' = [left EXCEPT ![r] = @ \ {s}]
  /\ outcome' = [outcome EXCEPT ![r] = @ \cup {"skipped"}]
  /\ UNCHANGED <<rows, thread, proc, exit, asked, cleared, loads>>

SourceEnds(r, s) ==
  /\ proc[r] = "alive" /\ holder[s] = r
  /\ \E good \in BOOLEAN :
       /\ FreeSource(s, good)
       /\ outcome' = [outcome EXCEPT ![r] = @ \cup {IF good THEN "loaded" ELSE "failed"}]
  /\ UNCHANGED <<rows, thread, proc, exit, left, asked, cleared>>

\* run_monitoring_command and merge_lane_exit_codes: a failure outweighs a source
\* that was already running.
ExitCode(r) ==
  IF "failed" \in outcome[r] THEN "error"
  ELSE IF "skipped" \in outcome[r] THEN "busy" ELSE "ok"

\* The command comes to its end; one that loads nothing may fail at will.
ProcessEnds(r) ==
  /\ proc[r] = "alive" /\ left[r] = {}
  /\ \A s \in Sources : holder[s] # r
  /\ proc' = [proc EXCEPT ![r] = "ended"]
  /\ exit' = [exit EXCEPT ![r] = ExitCode(r)]
  /\ UNCHANGED <<rows, thread, left, outcome, asked, cleared, loads>>

\* It crashes, is killed, or ends on SIGINT, anywhere.
ProcessDies(r) ==
  /\ proc[r] = "alive"
  /\ proc' = [proc EXCEPT ![r] = "ended"]
  /\ exit' = [exit EXCEPT ![r] = "error"]
  /\ UNCHANGED <<rows, thread, left, outcome, asked, cleared, loads>>

\* The source run of a process that is gone: closed by its KeyboardInterrupt, or
\* aborted as stale by the next start (MonitoringRuns).
AbortSource(s) ==
  /\ holder[s] \in RunIds /\ proc[holder[s]] = "ended"
  /\ FreeSource(s, FALSE)
  /\ UNCHANGED <<rows, thread, processes, asked, cleared>>

-----------------------------------------------------------------------------
\* What a thread that lives does next, and what its process does.
ThreadStep(r) ==
  \/ Claim(r) \/ Spawn(r) \/ Beat(r) \/ Kill(r) \/ Collect(r) \/ Finish(r) \/ FinishFailed(r)
  \/ ReadBack(r) \/ ChainSweep(r) \/ ChainStart(r) \/ ChainBlocked(r)

ProcessStep(r) ==
  \/ \E s \in Sources : LoadSource(r, s) \/ SkipSource(r, s) \/ SourceEnds(r, s)
  \/ ProcessEnds(r)

Next ==
  \/ InterruptStaleRuns
  \/ WaitForLoad
  \/ \E c \in Callers :
       \/ \E request \in Requests \cup {PurgeChain} : Ask(c, request)
       \/ Start(c)
       \/ Conflict(c)
  \/ \E r \in RunIds :
       \/ GrowStale(r) \/ Stop(r)
       \/ ThreadStep(r) \/ Expire(r) \/ RunnerRaises(r) \/ ThreadDies(r)
       \/ ProcessStep(r) \/ ProcessDies(r)
  \/ \E s \in Sources : ScheduledLoadStarts(s) \/ ScheduledLoadEnds(s) \/ AbortSource(s)

Spec == Init /\ [][Next]_vars

Unattended(r) == thread[r] \in {"none", "gone"}

\* Threads run unless their worker dies, the console polls the list of runs, and
\* time passes for a row nobody beats for.  A command may hang for ever.
Fairness ==
  /\ WF_vars(InterruptStaleRuns)
  /\ \A r \in RunIds : WF_vars(ThreadStep(r))
  /\ \A r \in RunIds : WF_vars(Unattended(r) /\ GrowStale(r))

FairSpec == Spec /\ Fairness

\* Commands that come to an end: a console run has no deadline of its own.
CommandsEnd ==
  /\ \A r \in RunIds : WF_vars(ProcessStep(r))
  /\ \A s \in Sources : WF_vars(ScheduledLoadEnds(s)) /\ WF_vars(AbortSource(s))

-----------------------------------------------------------------------------
\* Every variable has its type.
TypeOK ==
  /\ lastId \in 0..MaxRuns
  /\ status \in [RunIds -> {"none"} \cup Live \cup Ended]
  /\ req \in [RunIds -> AllRequests]
  /\ code \in [RunIds -> Codes] /\ exit \in [RunIds -> Codes]
  /\ stale \in [RunIds -> BOOLEAN] /\ nightly \in [RunIds -> BOOLEAN]
  /\ started \subseteq RunIds /\ fresh \subseteq started
  /\ prev \in [RunIds -> RunIds \cup {0}]
  /\ thread \in [RunIds -> Threads]
  /\ proc \in [RunIds -> {"none", "alive", "ended"}]
  /\ left \in [RunIds -> SUBSET Sources]
  /\ outcome \in [RunIds -> SUBSET {"loaded", "failed", "skipped"}]
  /\ asked \in [Callers -> AllRequests \cup {Nothing}]
  /\ cleared \in BOOLEAN /\ loaded \in BOOLEAN
  /\ holder \in [Sources -> RunIds \cup {0, Scheduled}]
  /\ opened \in [Sources -> SUBSET RunIds]

\* A step is started by the chain only after the step before it in the cycle, and
\* only when that row ended well, or is a load that failed once a source was
\* loaded, whether a source failed or its process crashed or was killed.  So a
\* run that was stopped or swept away, however late its process ends, has no
\* successor, and no run has two.
StoppedChainEnds ==
  /\ TypeOK
  /\ \A r \in RunIds : prev[r] # 0 =>
       LET q == prev[r]
       IN  /\ req[q].chain /\ req[q].mode \in DOMAIN Following
           /\ req[r].mode = Following[req[q].mode]
           /\ \/ status[q] = "succeeded"
              \/ status[q] = "failed" /\ req[q].mode = "load" /\ LoadPartlyDone(q)
  /\ \A q, r \in RunIds : q # r /\ prev[q] # 0 => prev[q] # prev[r]

\* The purge never starts while the command of the load before it is alive, nor
\* any step beside the step before it, whoever signalled that one and when.
ChainStepsApart ==
  \A r \in RunIds : prev[r] # 0 => proc[prev[r]] = "ended"

\* A row that ended keeps its ending: the late result of a process that was
\* stopped or lost does not overwrite "interrupted".
EndedRowsFrozen ==
  [][\A r \in RunIds : status[r] \in Ended =>
       status'[r] = status[r] /\ code'[r] = code[r]]_vars

\* If commands end, every run ends: also one that no thread ever claimed, one
\* whose worker died and one whose ending could not be stored.
RunsEnd ==
  CommandsEnd => \A r \in RunIds : (status[r] \in Live) ~> (status[r] \in Ended)

\* The process of a run that was stopped or swept away ends, even a command that
\* hangs and answers no SIGINT, unless the worker that watched it died.
StoppedProcessEnds ==
  \A r \in RunIds :
    (status[r] = "interrupted" /\ proc[r] = "alive") ~> (proc[r] = "ended" \/ thread[r] = "gone")

\* The rows end, and so do the processes behind them.
EverythingEnds == RunsEnd /\ StoppedProcessEnds

\* "All are one operation: they never run at once" (OperationParameters.mode).
NeverAtOnce ==
  \A q, r \in RunIds :
    proc[q] = "alive" /\ proc[r] = "alive" /\ req[q].op = req[r].op => q = r

\* "A step stopped, lost or crashed ends the chain" (OperationParameters.chain), of a
\* load whose process was killed or died before its end: its failure is no source's.
CrashedLoadEndsChain ==
  \A r \in RunIds : prev[r] # 0 /\ exit[prev[r]] = "error" => "failed" \in outcome[prev[r]]

\* "... and no source was skipped because another load was running"
\* (_load_partly_done), of a load that a chain goes on from.
NoSourceSkipped ==
  \A r \in RunIds : prev[r] # 0 /\ req[prev[r]].mode = "load"
    => "skipped" \notin outcome[prev[r]]

\* "at least one source's own run, started by this load, reached its end"
\* (_load_partly_done), of a load that a chain goes on from.
OwnSourceLoaded ==
  \A r \in RunIds : prev[r] # 0 /\ req[prev[r]].mode = "load"
    => "loaded" \in outcome[prev[r]]

\* "never beside a load that still writes" (wait_for_load), of the cycle's purge.
CycleNeverBesideLoad ==
  \A r \in RunIds : proc[r] = "alive" /\ nightly[r] /\ req[r].mode = "purge"
    => \A s \in Sources : holder[s] # Scheduled
=============================================================================
