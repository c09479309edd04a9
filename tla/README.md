# Formal model of court-monitor

TLA+ modules that model the concurrent and failure-prone core of court-monitor,
TLC configurations that check them on small instances, and TLAPS proofs that hold
for every instance. Paths below are relative to the repository root, and to the
package when the component names it; `PROJECT.json` writes them in full.

Contents: the system; the modules, one section each; the runs and their bounds; the
proofs; disagreements; what is assumed and what is left out; the plan.

## The system and its components

court-monitor collects publications about criminal cases, extracts the people and
events in them, resolves mentions to persons and groups them to entities, tells the
political cases, matches the Rosfinmonitoring list and keeps findings. It is a modular
monolith of workspace packages (`packages/court-*`) with one application
(`apps/court-monitor`). Several processes share one PostgreSQL database: API workers,
Dagster runs, CLI commands started by either. They coordinate only through rows, unique
indexes, row locks and advisory locks.

| Component | State it keeps | Operations | What makes it correct | Module |
|---|---|---|---|---|
| Monitoring runs (`court-orchestrator`: `service.py`, `repository.py`, `locks.py`) | `monitoring_runs`, its items, `source_monitoring_states`, advisory locks of the derived stages | start, heartbeat, stages, item failures, finish, checkpoint, abort of stale runs | one live load per source; an ended row is never rewritten; a completed run is whole; the checkpoint names a good run; every run ends | `MonitoringRuns`, `RunLedger` |
| Operation runs (`operations.py`, `dagster_location/cycle.py`, `cli/monitoring.py`) | `operator_operation_runs`, executor threads, child processes | start, claim, beat, stop, stale sweep, finish, chain | a chain goes on only after a step that earned it; a late result changes nothing; a stopped process ends | `OperationRuns` |
| Source load (`court-ingestion`: `service.py`, `sources/discovery_pagination.py`, adapters, persistence) | `source_documents`, `articles`, the mark of the last complete load | discover newest first, stop at known, ingest each document | nothing published is lost between two loads, or the loss is visible | `SourceLoad` |
| Fetching (`concurrency.py`, `service.py`, `monitor_core/ingestion/retry.py`) | gates per host and per run, cooldowns, read-ahead tasks | acquire the gates, send, honour Retry-After, retry, cancel | limits hold, no place of a gate is lost, every document has its result | `SourceReads` |
| Junk screen (`court-processing`: `junk/*`) | junk holds, tombstones, articles | hold, screen, release, purge, re-extract, restore | a person's word is carried out; a purge deletes nothing that was in the work, released or held when it picked it | `JunkHolds` |
| Person resolution v2 (`persons/resolution/*`) | persons, links, decisions, reviews | resolve a mention under block locks, AI review, manual review, merge | no duplicate person, one outcome per decision, no mention lost in a merge | `PersonResolution`, `IdentityRegister` |
| Entities, roles, verdicts (`processing/identity`, `processing/roles`, `court-analysis`: `politics`) | `entity_groups` and the rows that hang on them, a person's decisions by key | rebuild from the mentions, merge, remove, correct, assign roles and verdicts | a word said at any moment holds after the next cycle; every mention in one entity | `EntityGroups`, `EntityKeys` |
| Rosfinmonitoring (`court-analysis`: `rosfinmonitoring/*`) | snapshots, entries, days of inclusion, matches | download or capture, confirm, import, match | only whole lists are matched, never an older one after a newer | `RfList` |
| Findings (`court-results`: `findings.py`; `court-analysis`: `pending.py`, `persecution`) | classifications, matches, findings | select what is stale, classify, match, evaluate criteria, deactivate what is missing | a stale result is made again; the active findings come from one evaluation | `Findings` |
| Interactive investigation (`court-investigation`, LangGraph) | investigation runs (progress, state JSON), advisory lock per run | start, resume, plan, search by tasks, follow up, report, store | one worker per run, its searches within its slots, none made twice | `InvestigationRuns` |
| Models' answers and spend (`court-platform/llm`, caches of `court-processing`) | answer caches, spend ledger | ask within a budget, cache by input and version | spend bounded, a cached answer belongs to its input | not modelled |
| Extraction (`processing/extraction`) | extraction runs, mentions, charges | text rules and model prompts | data, not control | in `JunkHolds` |
| Web application (`apps/court-monitor/web`), Dagster jobs, CLI | sessions, schedules | handlers over the services above | request-local callers | as callers |
| Airtable, database access, migrations, frontend, evaluation tools | - | - | outside the core | not modelled |

Behaviours that are hard here: two processes in the same scope, a worker that is
paused longer than its heartbeat allows and goes on, crashes between two
transactions, lost writes of a thread, stop requests racing the end of a process,
decisions read in one transaction and used in another after a model took minutes to
answer, timestamps that are not commit times.

## Modules

### `RunLedger` and `MonitoringRuns`

`RunLedger` says what the table of runs promises, with no worker in sight: a run
opens in a free scope, closes once, and a checkpoint only names a completed regular
run. `MonitoringRuns` is the detailed model; the run `monitoring_runs` checks that it
implements the ledger (`ImplementsLedger`).

State: `status`, `job`, `hasErrors`, `stale` are columns of
`monitoring_runs` (`stale` is "`heartbeat_at` is older than `stale_run_after`");
`metrics` and `progress` are its `stage_metrics`: a key whose value is what `_stage` writes at
the normal end of a stage is in `metrics`; the one that `resolve` writes before the first
extraction run and every tenth after it, while the stage is under way, is in `progress` until
the end of the stage replaces it (the model may write it before any extraction run).
`checkpoint` is `source_monitoring_states.last_successful_run_id`; `lock` is the
session-level advisory lock of each derived stage; `want`, `run`, `todo`, `left`,
`raised` are the local state of a worker (request, `RunHandle`, stages left, units
left, a handled exception). `late` is a history variable.

Actions are transactions: `start_run` is two (`AbortStaleRuns`, then `InsertRun` or
`AlreadyRunning`); `_stage` is `EnterStage` and `FenceStage`; a unit of work is
`BeginUnit`, then `CommitUnit`, `SkipUnit` or `FailUnit`, then `CountUnit` or
`RecordFailure`; a stage ends in `EndStage`, `StoppedByFence` or `StageRaises`; the run
in `FinishRun` and `UpdateCheckpoint`. `Crash` takes a process away at any of these
points, and a crash releases its advisory lock. Items are abstracted to a number of
units of work in a stage, chosen when the stage reads its pending work.

Fairness (`FairSpec`, only for `RunsEnd`): a worker that has not crashed keeps taking
steps; the schedule keeps asking for runs (each start sweeps); time passes for a
run that no process serves. Staleness of a served run and exceptions are not fair.

### `OperationRuns`

The rows of `operator_operation_runs`, the executor thread of each run, its process,
and the sources that load commands and schedules take. `thread` is the position in
`_execute` / `_continue_chain`; `proc` and `exit` are the child process; `asked` is a
caller between the two transactions of `start`; `holder`, `opened` and `fresh` are
what `_load_partly_done` can see of `monitoring_runs`: `fresh` is the set of
operation runs since whose `started_at` some source run completed. The `worker_id`
test of `_running_here` is not a variable: only a run's own thread writes with its
id. The models a chain carries, output tails and command lines are left out.

Fairness: threads take steps unless their worker dies, the console polls the list of
runs (each list sweeps), time passes for a row that nobody beats for. A console run has
no deadline, so that runs end is stated under `CommandsEnd` (every process ends by
itself); that the process of a stopped run ends needs no such premise: its thread kills
it. `EverythingEnds` is the conjunction of the two.

### `SourceLoad`

The loads of one source, from the listing to the row of the run. A post is its place in
the order of publication, so "newest first" is the order of numbers. `source` is what
the source is like (how it pages, which kinds of load are made of it and for which
publication dates, how much is there at first, and the bounds on posts, removals, posts that
grow old and broken loads), chosen once; `published` and `removed` are the site; `aged` is the
newest post older than the channel's history window (`TELEGRAM_HISTORY_DAYS`); `stored` is `source_documents` of the source; `last` is what
`previous_load_completed` reads (the newest row with discovery metrics); `load` is the
call of `_discover` and `_ingest` under way: the references found, the page number or
oldest post seen, the ceiling, the end of the history window as it was before the first
page, the references still to read.

`StartLoad` computes `stop_at_known` and the ceiling (`FIRST_LOAD_LIMIT` for the first
load and after a broken one) from the kind of the load and the dates asked for; `NextPage`
and `EndDiscovery` are one fetched page each, with the four reasons paging ends (nothing
new, all known, a post older than the history window, the ceiling); `NoPreview` is a channel
whose web preview is shut: its first page redirects, and the load goes on with nothing
discovered. `ReadFails`, `SkipNoText`, `SkipOlder`, `SkipOutside` and `Store` are the result
of one document in discovery order; a document later than the dates asked for, or of unknown
date when any is asked for, is skipped. `Finish` and `Break` end the run. `Publish`,
`Remove` and `Age` are the site and the calendar, between any two pages. A post removed, or
a new one, is what moves posts from one page number to another. Page parsing and search
adapters are left out; results are consumed in discovery order, which is what `read_many`
(module `SourceReads`) promises.

A load that completes has not seen what lay behind the history window, or behind a shut
preview, and the next regular load stops at the known page above it all the same. `floor` is
the newest post that was so out of sight of a completed load, and `LoadedWithoutHoles` and
`PublishedIsRead` are stated of the posts above it, and of sources only regular loads without
dates are made of (`OnlyRegular`); what other loads, the window and the shut preview break is
under "Disagreements".
Fairness (`LoadFairSpec`, for `PublishedIsRead`): the schedule starts loads, a load goes on
and reads; a load may break, at most `breaks` times, and a read may fail for ever (a
failed post is an allowed end of the property).

### `SourceReads`

What is between a load and the network: `read_many` starts reads ahead of the results it
hands over, a read passes the gate of the reader, the gate of its host (and the pause the
host asked for), then the gate of the run, and only then sends. `task` is the read of
each reference, with its stage, the calls made and the wait left; `readers`, `domain`,
`budget` are the free places of the three gates; `cooldown` is `_DomainGate`'s; `created`,
`taken`, `phase` are the position of `read_many`.

`Begin`, `EnterDomain`, `Paused`, `Send` are the way in (`_GateHolder.__aenter__`);
`Answered`, `Broken` and the way out with every gate given back (`Leaves`); `Retry`,
`SendsAgain`, `GivesUp`, `Backoffs` are the retrying fetcher, whose jitter makes the pause
any length in a range; `BodyRead` the rest of the answer, which is read past the gates;
`Take`, `Stop`, `Cancel`, `Close` are the reader. `Tick` is time.
Fairness (for `EverythingIsRead`): tasks and requests go on, time passes, the reader
takes results or stops.

### `InvestigationRuns`

One stored investigation and the processes that work on it. `status`, `progress` are the
row; `lock` is the process whose connection holds the session advisory lock; `phase` is
where `investigate` / `resume` and the graph nodes stand; `state` is the state of the
LangGraph of a process; `todo`, `active`, `unfinished` are the branches of a round that
wait for a slot, work, or outlived their timeout in a thread; `writes` are the calls of
the store in `asyncio.to_thread`, `live` while the process waits for them. An evidence
item is left out: a search stands for what it found, and `spent` counts it.

Actions: `Investigate`, `Resume`, `Claim`, `Busy`, `ClaimRaises`, `CancelClaim`,
`GiveBack`, `Release` (`_claim`, `_release_when_idle`); `Load`, `LoadNothing` (`resume`
under the claim); `Plan`, `Clarify`, `StartSearch`, `EndSearch`, `TimeOut`, `LateEnds`,
`Cover`, `FollowUp`, `Report`, `FailRun` (the nodes and `_within_a_slot`); `Write` and
`WriteFails` (one transaction of `run_store`, and what its caller does next); `Cancel`,
`Crash`, `DropConnection`. Planner, models and wording are nondeterministic: any subset
of the searches of the size the ceiling leaves. `Mishaps` is the set of combinations of
crashes, cancels, store failures and lost connections that may come; `SearchesMadeOnce`
is stated of histories with crashes only (`OnlyCrashes`): with the others it does not
hold, see below. After a lost claim two processes may both follow up, so the type
invariant bounds neither the rounds nor what was spent.
Fairness (for `ClaimsEnd`): a process that works goes on, a search and its late thread
end by their timeouts, a store call returns.

### `JunkHolds`

Articles, their latest extraction, the rows of `junk_screen_holds`, the purges and the
operator. `run`, `crim`, `mev` describe the latest successful extraction of an article
(version, criminal-case event by the rules, the event a release writes); `hold` is the
row; `redo` is where `reextract` of an article stands; `pc`, `batch`, `scored`, `owed`
are a `purge-junk` command. `Pick`, `Judge`, `PurgeBatch` split the transaction of
`_purge_batch` where it reads the batch, asks the screen, and writes: at READ COMMITTED
others commit in between. `Outdated`, `FindEventless`, `Restore`, `FindUnread`, `Write`,
`End` are the rest of the command; `MarkJunk`, `Unrelease`, `HoldAgain`, `Release` and
`AskReextract` / `Reextract` / `DecideReextract` are the words of the operator; `Deploy`
and `ExtractArticle` are a new version of the extraction and the monitoring that applies it.
The screen's score is the constant `CaseLike`, the reader's answer is nondeterministic.
`Beside` names the words a run lets an operator say while a purge is alive; the others
are said between purges. The run `junk` says `junk`, `release` and `again` beside the purge;
the words that break a promise are under "Disagreements".
`OnlyOvertakenIsPurged` says what the code does keep of "junk is what has no criminal-case
event" and "a held article is never purged": a purge deletes an article that is in the work,
released or held only if it became so after the pick, by somebody else. The history variable
`meanwhile` remembers, for each purge, what the extractions, the operator, the reader and
the other purges did to the articles it has in hand; no guard reads it.
`WordIsCarriedOut` has two halves: what a person marked junk is purged
(`MarkedIsPurged`), and what a person released comes back to the work
(`ReleasedIsInWork`).
Fairness: the nightly cycle starts purges, and one that is not stopped goes on.

### `IdentityRegister` and `PersonResolution`

`IdentityRegister` says what the tables of persons promise, with no worker, lock or
reviewer in sight: resolution decides mentions nobody decided, and the persons it adds are
alone with their names; a review settles one mention that was left pending; a merge makes
one of two active persons, and all mentions of the first are of the second. Nothing else
changes a decision, a link or a person. `PersonResolution` is the detailed model; the run
`persons` checks that it implements the register (`ImplementsRegister`).

Mentions, the persons created for them, decisions, and the transactions that write
them. The writes of a worker stay in `buffer` until `Commit` (READ COMMITTED: others do
not see them); `keys` are the advisory transaction locks of the identity blocks it has
taken, in sorted order, for all names of its extraction run before it resolves any;
`plan` is the one decision between `PlanMention` (reads) and `WritePlan` (the flush, from
which a foreign key pins the person linked to). People submit an action to a pending
decision (`SubmitWord`), the model is asked in one transaction and answers in another
(`Ask`, `Answer`, `Skip`); `ApplyLink`, `ApplyCreate`, `ApplyMerge`, `MergeConflict` are
`review_decision` and `merge_persons_in_session`. Which names are candidates of each
other (`Alike`), which share block keys (`KeysOf`) and which are complete (`Complete`)
are constants: the comparison of names is data. Aliases learned by promotion, event
links and `redecide.py` are left out.
Fairness: workers go on and are started again for runs that are not decided; a
transaction of a review ends. Workers may fail `MaxAborts` times.

### `EntityKeys` and `EntityGroups`

`EntityKeys` has the pure part: what a kept key means among today's (`Today`,
`Resolved`), which key of a joined set keeps its place (`KeepsFirst`, `KeepsAll`), the
merge of decided pairs (`MergeDecided`), the corrected names (`Renamed`, then one turn of
`JoinNamed` for each, in the list's order `ComesFirst`). `EntityGroups` has the
steps of the operator's cycle and the person who decides between their transactions:
`extracted` are the mentions, `groups` the rows of `entity_groups` with their role,
verdict and match, `word` what a person said, by key, `excluded` the exclusion list of
officials, `step` the running step and what it read, `check` a check of the list that
was started by hand.

`entities` reads the mentions and asks for names (`naming`), reads the pairs decided
(`merging`), the corrected names (`joining`), joins what they make one and takes out the
removed (`removing`), and writes all entities; `figurants` reads, puts the titled on the
exclusion list (`remembering`), asks and writes all roles;
`political` matches the list, beyond doubt (`Listed`) or by name only (`Possible`), merges what leaves no choice, reads the figurants, asks and
writes all verdicts. A word (`pair`, `reset`, `name`, `remove`, `restore`, `role`,
`verdict`, `mark`) comes between any two of these. Model answers are sets of possible
answers; the names of the three keys of the instance are a form with a patronymic, one
without, and a declined form of it.
Fairness (for `AfterwardsAsSaid`, `EverybodyIsJudged`): the cycle takes its next step,
and a check of the list ends.

### `RfList`

Pages the site publishes day by day (`published`), snapshots in the order of their ids
(`snaps`: page, date, day it was last fetched, whether its entries are saved, where the
day of inclusion of each person followed comes from), the snapshot the matches were made
from (`matched`) and the processes (`check`, `lock`). A check downloads today's page or
takes a capture of the archive; a page that is stored was seen again (`Confirm`), a
capture not newer than the list in use is left (`ReadLatest`), a page too short is refused
(`Parse`); the snapshot and its entries are two transactions (`Create`, `Save`). Under the
lock the check chooses the snapshot, carries the days over, fills them from the copy and
the operator's table, and writes the matches (`Lock`, `Carry`, `FillDays`, `Match`). An
import by hand goes through `Parse`, `Create` and `Save`. A process may stop between any
two transactions.
Fairness (for `ChangedListIsMatched`): the site goes back to answering, checks are
started and go on.

### `Findings`

The derived stages over person-based results. `facts` is what the classifier and the
matcher would say of the committed evidence of a person; `stamp` is the newest timestamp
that evidence carries, which is the start of a transaction or a clock read inside it,
not its commit; `began` is the open transaction that changes it; `class`, `match`,
`finding` are the three tables; `run` is each run: its stage, the people it selected,
what it read of the person at hand (`saw`) and since when, the snapshot it matched, and
what the one transaction of the findings has found and deactivated so far.

`Classify` and `MatchRosfinmonitoring` select the people under the stage's lock, `Look`
reads the evidence of one, `WriteClassification` and `WriteMatch` commit its result,
`Fail` leaves it for a later run; `EvaluateFindings`, `Confirm`, `Deactivate`, `Record`
are the statements of an evaluation, each of which sees what is committed by then;
`Begin`, `Commit`, `Merge` are the transactions of resolution and reviews, `Import` the
import of a list; `Stop` is a crash, or a run that finds at a heartbeat that it was
replaced. `Longest` and `Working` are how long a transaction and a person's turn last at
most: the code states the first in a comment ("Longer than any ER / review transaction
plus clock skew", `pending.py:27`) and assumes the second.
The scoring of a classification, the levels of a match (absent or not), the evidence
queries of one person and the Airtable export are data or one read.

## Runs

`tlc -workers 2 -config <cfg> <module>` in this directory; the module is the cfg's name
without `.cfg`, and without `Live`.

| Run | cfg | Bounds | What it asks, and why the bounds are enough |
|---|---|---|---|
| `monitoring_runs` | `MCMonitoringRuns` | 2 workers, 1 source, 2 runs, 2 units a stage, four requests | everything that goes wrong needs one run aborted and its successor in the same scope, or a source run and a derived run at one lock: two workers and two rows. Two units let a worker be fenced between them |
| `monitoring_ends` | `MCMonitoringRunsLive` | 2 workers, 2 runs, no units, full and derived request | waiting for the lock of a crashed or slow worker; units add nothing to waiting |
| `operations` | `MCOperationRuns` | 2 runs, the chain from its load, 1 source | the hand-over from a step to the next, with a stop, a sweep, a dead worker or a dead process in each place |
| `operations_end` | `MCOperationRunsLive` | 2 runs, chain, purge and extraction | two operations beside each other and the second step of a chain |
| `load` | `MCSourceLoad` | pages of 2, ceilings 3 and 5, 1 post per page gap, at most 3 since the last load; a site by page number (6 posts, 2 before the first load, 2 broken loads), a channel by the oldest post seen (4 posts, 1 removed, 2 grown old, 2 loads broken or shut out), a channel with every kind of load (4 posts, dates 1 and 3, 1 post grown old); post 3 has no text, post 2 no date | three pages; a broken load after the first page and again after it; a period below the first page of what is stored, one that ends before the newest post, one that begins behind the history window. The gap between two completed loads stays below the ceiling of a load after a broken one: what happens above it is a disagreement |
| `source_reads` | `MCSourceReads` | 5 references, 4 of one host, 2 workers, 2 requests in all, 1 per host, 2 attempts, pauses up to 2 | the window of the reader is 4, so one reference is started late; two requests of one host meet at its gate, and a request of the other host passes beside them |
| `investigation` | `MCInvestigationRuns` | 2 processes, 2 searches (1 local) and a follow-up, 2 slots, a ceiling of 3, 2 when resumed; up to 2 crashes, or one cancel, failure or lost connection | parallel records, a late search against the slots, and a resume of a resume |
| `junk` | `MCJunkHolds` | 3 articles (one outdated), batches of 2, 2 versions, 1 stop | a batch with an article of each verdict, a second extraction of each, and a release or a return to the check of an article in hand |
| `persons` | `MCPersonResolution` | 4 mentions in 2 runs, 3 of one name, blocks crossed, 2 workers, 2 people, 1 model, 1 abort | two workers with overlapping keys, a merge beside a link, two reviews of one decision: every interleaving is one of the register's steps |
| `entities` | `MCEntityGroups` | 3 mentions (one comes later), 3 keys, two disputed pairs, 2 words, 1 check by hand or broken step | a word between any two transactions of a step, a second one that meets what the first did, and a mention that changes the key an entity keeps |
| `rf_list` | `MCRfList` | 2 processes, 2 whole pages and a cut one, 2 days, 1 bad download, 1 stop or import | a check overtaken by another one, on the day the list changes |
| `findings` | `MCFindings` | 2 runs, 2 people, 2 names, 2 snapshots, 1 transaction of 1 step, turns of 1, interval 3, 1 failure or stop | a transaction that is open while a person is classified and matched, a merge, and a list imported between the stages of two runs |

`CHECK_DEADLOCK FALSE` appears where everything may be done and the bounds used up: an
investigation that ended, mentions that are all decided, reads that are all taken, runs
that are all over. Symmetry is used for the workers of `monitoring_runs` and the runs and
people of `findings`, which check no liveness property.

## Proofs

`tlapm <module>.tla` checks them. The theorems rest on the named assumptions on the
constants in the module they are about, which say that bounds are numbers, functions have
their domains and nobody is no member. What more any of them assumes is named below: three
such assumptions of whole modules, and the hypotheses of the theorems about `SourceLoad` and
`JunkHolds`, which say how a site behaves and what may happen beside a purge.
`IngestionProofs` and `CycleStepsProofs` are about two components each, which is why the
definitions of `SourceLoad` and `JunkHolds` that every module has carry a prefix
(`LoadSpec`, `JunkSpec`).

| Module | Theorem | Property |
|---|---|---|
| `MonitoringRunsProofs` | `TypeCorrect` | `TypeOK` |
| | `LiveApart` | `LiveWorkersApart` |
| | `Fenced` | `FencedWithinOneUnit` |
| | `CheckpointGood` | `CheckpointNamesGoodRun` |
| | `Frozen` | `EndedRunsFrozen` |
| | `LocksRight` | `LockHeldExactlyInside` |
| | `CompletedWhole` | `CompletedMeansWhole` |
| | `LedgerImplemented` | `ImplementsLedger` |
| `OperationRunsProofs` | `SpecEndedRowsFrozen` | `EndedRowsFrozen` |
| | `SpecStoppedChainEnds` | `StoppedChainEnds` |
| | `SpecChainStepsApart` | `ChainStepsApart` |
| `PersonResolutionProofs` | `SpecDecidedOnce` | `DecidedOnce` |
| | `SpecMergeTakesEveryMention` | `MergeTakesEveryMention` |
| | `SpecNoDuplicate` | `NoDuplicate` |
| | `SpecMergesLeadToActive` | `MergesLeadToActive` |
| | `RegisterImplemented` | `ImplementsRegister` |
| `InvestigationRunsProofs` | `SpecSearchesWithinSlots` | `SearchesWithinSlots` |
| | `SpecSearchesMadeOnce` | `SearchesMadeOnce` |
| `CycleStepsProofs`, of `EntityGroups` | `SpecEveryMentionOnce` | `EveryMentionOnce` |
| | `SpecNobodyWithoutRole` | `NobodyWithoutRole` |
| the same, of `JunkHolds` | `JunkTypeCorrect` | `JunkTypeOK` |
| | `JunkEvents` | `ModelsEventIsReleased` |
| | `JunkPurges` | `OnlyOvertakenIsPurged` |
| `RfListProofs` | `SpecMatchedIsWhole` | `MatchedIsWhole` |
| | `SpecListNeverGoesBack` | `ListNeverGoesBack` |
| | `SpecEstablishedDayStays` | `EstablishedDayStays` |
| `IngestionProofs`, of `SourceReads` | `SpecRequestsWithinLimits` | `RequestsWithinLimits` |
| | `SpecBudgetIsNotSpentWaiting` | `BudgetIsNotSpentWaiting` |
| | `SpecNoReadGoesOnUnseen` | `NoReadGoesOnUnseen` |
| | `SpecReadAheadIsBounded` | `ReadAheadIsBounded` |
| the same, of `SourceLoad` | `LoadTypeCorrect` | `LoadTypeOK` |
| | `LoadsWithoutHoles` | `LoadedWithoutHoles` |
| | `PeriodWhole` | `PeriodIsLoaded` |
| | `NothingPastTheKnown` | `PastKnownInSightIsLoaded` |
| `FindingsProofs` | `SpecStaleIsPending` | `StaleIsPending` |
| | `SpecFindingsOfOneEvaluation` | `FindingsOfOneEvaluation` |
| | `SpecOneRunIsEnough` | `OneRunIsEnough` |

`EndedRunsFrozen`, `LockHeldExactlyInside`, `DecidedOnce` (which `ImplementsRegister`
includes, but for the register calling both applied and reviewed final) and
`ReadAheadIsBounded` are proved and in no run. `PastKnownInSightIsLoaded` is
proved under hypotheses without which it fails, and is in no run: the behaviours it leaves
out are listed under "Disagreements" as those of `PastKnownIsLoaded`.

**MonitoringRuns**, for any sets of workers and sources, any requests of the shapes the
commands make (`RequestsAssumption`), any bounds. The invariant is `IInv`. None of the
properties is inductive alone:

- `RowsAreDense`: ids are handed out in order and every row carries a request. Without it
  `InsertRun` could overwrite a row that exists.
- `OneRunningPerScope`: the partial unique index as a fact about rows. That two live
  workers are apart follows from it only together with
- `HandlesMatchRows`: a handle names a row inserted for its own request, and no two
  workers share one. This is what makes "the scope of the row" and "the scope the worker
  works in" the same.
- `ControlOK`: in a stage there is a stage left, in a unit a unit left, and a worker that
  is about to write the checkpoint has a completed regular run (`CheckpointNamesGoodRun`
  rests on it: the row has been frozen since).
- `LateOK`: a unit counted as late belongs to a run that has ended, and every way to the
  next unit passes a fence. The only stage with more than one late unit is the batch of
  AI reviews.

`CompletedMeansWhole` needs `WholeInv`: besides itself, that rows not yet inserted are blank
(`FreshRowsBlank`) and that, while a run is running, the stages that ended and those its
worker has left make up its plan, the worker gets to the end without an exception only with
nothing left (`PlanIsKept`), and the row shows progress only of the stage its worker is in, or
of the one it raised in (`ShowsProgress`). `LockHeldExactlyInside` is
inductive over `IInv`. `LedgerImplemented` maps the rows to `RunLedger` and shows that
`Init` is an initial ledger and that each action opens, closes or checkpoints one run, or
changes nothing the ledger sees.

**OperationRuns**, for any callers, sources and number of runs. The invariant is again
called `IInv`: ids are handed out in order (`RowsAreDense`); a thread past its process
has waited for it, and one that sweeps and inserts for the next step has read that the
chain goes on (`ThreadsWait`); a row that follows another was inserted by a thread that
is gone since, whose process had ended and whose row had ended well, or as a load that had
failed with a source loaded since its start, crashed and killed ones included
(`ChainsFollow`); and no two rows follow one (`OneSuccessor`). What makes it inductive is that a row that ended
is never written again: so what the thread read stays true until the insert, although no
lock is held between the two, and a stop pressed meanwhile finds nothing to stop.

**PersonResolution**, for any workers, reviewers, names and runs, from `KeysAssumption`:
every name has a block key. (`normalizer.py:53` makes one of every token that is not an
initial; two workers could resolve a name of initials alone at once, which the models
leave out.) A lock has one holder (`KeysApart`), a worker holds the blocks of everything
it resolves (`WorkersLocked`), so no two workers resolve mentions of one name
(`HolderIsOne`), and what a worker has planned is undecided until it commits
(`WorkersFirst`). A reviewer works on a pending decision under its row lock, alone
(`ReviewsApart`). `DecidedOnce` follows. `NamesAreNew` says that no active person is known
by a name that a worker is about to create a person by: a worker looks under the lock, a
reviewer that creates a person holds the same blocks, and a merge only hands names from
one active person to another. `MergeTakesEveryMention` needs in addition that a worker
links to itself only a person it creates (`CreatedWhenDecided`): what it has linked to
anybody else pins the row that the merge locks. `MergesLeadToActive` has a second invariant,
`PInv`, beside `IInv`: what is stored, and what is about to be written, names persons, or
those the same transaction creates (`PlansNamePersons`), since a person is never removed;
and no persons are merged among themselves only (`NoCircle`). A merge keeps the last,
because the person it merges into is read as active under the lock of its row: it was in no
such set before, and is in none after.

`RegisterImplemented` shows that every step is a step of `IdentityRegister` or changes
nothing it sees. A worker's whole `Commit` is one `Resolve` of the register: what it writes
is still undecided (`WorkersFirst`) although it was planned long before, its new persons are
alone with their names, also among themselves (`NamesAreNew`), and a mention is linked
exactly when its decision is final (`LinkedWhenDecided`). A reviewer's creation needs one
invariant more: a mention that waits has no person of its own yet (`PendingHasNone`). The
register says less than the other properties in two places: a decision may choose a person
that has been merged meanwhile, as the code's may (`LinkedIsActive` below), and what a
worker has written but not committed is invisible to it, which is why
`MergeTakesEveryMention` is stated apart.

**InvestigationRuns**, for any processes, searches, slots, ceilings and mishaps, in two
invariants. `IInv` gives `SearchesWithinSlots`: a process waits for one call of the store
at a time, but for the records of its searches, and goes on only with that call's answer
(`Awaited`, `CallsApart`); it leaves a round with no search of its own and lets go of the
run with none left in a thread (`SearchPhases`); and as long as no connection is lost, who
is past the claim holds it (`HolderIsOne`), so the searches under way are one process's,
which takes a slot only when one is free (`OwnWithinSlots`). `Once` gives
`SearchesMadeOnce` and is stated of histories in which processes only die: whoever started
a run and has not planned it is alone with it (`FreshIsAlone`), since no resume gets past
a row without a plan; a call that replaces the whole progress, the plan's and the
coverage's, waits beside no record and no other such call (`SavesAlone`) and holds
everything the row does (`SavesKeep`); what a failed run leaves in threads is written
while its result is, which closes the row (`LeftAtEnd`); and the process at work knows
every search the row holds and has none of them among those it is about to make
(`Knows`). A cancel breaks `LeftAtEnd`: its process lets go of the run with a call still
in its thread, which then goes on beside the next process ("Disagreements").

**EntityGroups**, for any mentions, keys, pairs, words and answers. Five pieces of code make
or change the set of entities, and each has a lemma: from entities that share no mention it
makes entities that share none. For `merge_decided` the lemma is that keys joined through
any number of pairs are joined to the same keys (`JoinedAlike`): what is closed under the
pairs and holds a key holds all keys joined to it, and so does the rest of today's keys. For
`merge_groups` it is that a pair is two keys and that the clear pairs share none, which
`merge_clear_pairs` sees to; the code merges them one after the other, the model at once.
The invariant `IInv` says the same of the stored entities and of those a rebuild has in hand
(`Stored`, `InHand`), since the rebuild replaces all of the former by the latter; that the
figurants step knows every entity there is until it writes (`AsksOfAll`: words only merge,
rename and remove, and no rebuild runs beside it); and that a check of the cycle's is waited
for (`CheckKnown`). From these, everybody is judged from then on (`JudgedSince`): a merge
keeps one of two roles, and no word takes one away.

**RfList**: the lock has one holder, and whoever holds it has chosen a snapshot that is
whole and not older than the one matched (`ChosenInv`), because snapshots only get
entries while they are new and the choice is made under the lock. Days of inclusion
follow from the same invariant on what is stored.

**SourceReads**: the free places of each gate and the reads that stand behind it add up
to its size (`IInv`; the sums are cardinalities, so the sets of references are finite).
From that, no more requests than places; that the run's place is only held by a read
that holds its host's; and that everything is given back when the reader has closed.

**Findings**: from `SettleAssumption`, `Longest + Working < Settle`. `ClockInv`: nothing is
stamped or dated in the future, an open transaction and a person's turn keep their
lengths. `SawInv`: what a run has read of a person is still there, or what replaced it is
stamped at most `Longest` before the reading began. `HoldsInv`: a stored result is older
than the stamp plus the interval, or it is what the evidence gives. A commit that
replaces the evidence is stamped at most `Longest` ago, and so makes every older result
pending; a result written from something replaced meanwhile is dated at most `Working`
after the reading, so it is pending too. For the evaluations (`EvaluationInv`): two runs
are never both inside the findings, and one that has deactivated what it missed has seen
every active finding, so that after `Record` all active ones are its own.
`OneRunIsEnough` rests on these and on `CalmInv`: a run since whose selection nothing was
committed or imported has everybody it has behind it classified and matched as the evidence
says (`CalmClass`, `CalmMatch`), since whoever it did not select was right (`HoldsInv`). Other
runs go on beside it and may overwrite its results; the lock of a stage sees to it that who
still writes in a stage the calm run has left has read after it began, and so writes the same
(`CalmRead`). That is why its own evaluation, statement by statement, finds the people wanted
(`CalmFound`).

**SourceLoad**, for any sources, page sizes, ceilings and shifts. `LoadSound` says what a
listing brings, however many pages it took: every post down to where the last page ended
(`Bottom`), but for those published since the first page (`ListedWell`). A page number
counts from the newest post, so posts published between two pages push known ones onto the
next page, which only brings them again; but a post taken down, or a page's worth of new ones,
would carry an unread post past the reader. `Steady` excludes both for sites with page
numbers, and nothing is asked of sites paged by date. What a listing leaves out is
therefore older than everything it brought, or newer, or behind the history window, and it
ends in one of four ways: at a known page, at the end, at the ceiling, or at the window's.
Three theorems follow:

- `PeriodWhole`: a load for a period reads down to the period's start, or to the end of the
  history window if that comes first, where the ceiling admits as much (`Ample`: a source
  that is read for dates publishes no more than one load lists).
- `LoadsWithoutHoles` rests on `OnePiece`: what regular loads store lies in one piece. What is
  unread of the last completed load's posts lies below all that is stored (`OldAreBelow`), what
  came since above (`NewAreAbove`), and a load that reads after a broken one takes up what
  is between (`ReadsAPiece`). Unread here is what is above `floor`. A load after a broken one may not stop at a known page, so it
  ends at its ceiling; `Ceilings` says that at least the backlog between two completed loads
  fits into it. The code's ceilings are `discovery_limit` of the source and
  `FIRST_LOAD_LIMIT`, 500 (`ingestion/service.py:50`).
- `NothingPastTheKnown` adds that all loads are regular ones for no dates, and gives what the
  code keeps of the promise of the docstring at `discovery_pagination.py:72`: past a known page
  nothing is unread that no completed load was kept from seeing.

The runs' sources satisfy the hypotheses, and each is needed: TLC finds
`LoadedWithoutHoles` violated without `Ceilings` (`load` with `Followed` of 6 posts, 2 of them
there at first and none that grows old, `PageSize = 1`, `FirstLimit = 2`, `MaxBacklog = 4`),
with a removal (`Paged` with
`breaks = 0`, `removals = 1`), and with a shift of a whole page (`Paged` of 7 posts,
`NoText = {}`, `FirstLimit = 5`, `MaxShift = 2`, `MaxBacklog = 5`; with `MaxShift = 1` it
holds); and `PeriodIsLoaded` without `Ample` (`Channel` of 6 posts, 5 of them there at first,
`Limit = 3`).

**JunkHolds**, for any articles, batches, versions and stops. A purge has articles in hand
(`Doomed`) from the pick to the delete, over a model's answer, and looks at none of them
again: what holds of them must hold through every step of everybody else. `JunkSound` are
the types and that what is in hand and still stored was extracted. `JunkEvents` adds
`EventsAreReleases`: an event of a release stands at a released article, or at one whose
hold a later extraction has deleted, and what a purge is about to restore is released still.
It needs that nothing said meanwhile takes a release back (`ReleasesStand`). `JunkPurges`
has no such hypothesis: it holds of any number of purges and whatever is said beside them.
It adds that of every doomed article still stored `meanwhile` explains what has become of it:
a case found by the rules by an extraction meanwhile, an event of a model or a release by a
release or a restoring, a hold by a return to the check or by the other purge that held it
back. The pick makes this true, as it takes neither the held nor what is in the work; a step
that only takes events, releases and holds away keeps it (`StillExplained`); and each step
of somebody else that gives one is told (`MeetAdds`, `OthersAreTold`). A purge's own steps
before its delete give none. TLC finds `InWorkIsNotPurged`, the same without the explanation,
violated with `{"again", "release"}`, with `{"junk", "reextract"}` and with two purges, and
`ModelsEventIsReleased` with `{"unrelease"}`.

Only model-checked: every liveness property, since liveness under fairness is beyond TLAPS
(`RunsEnd`, `EverythingEnds`, `PublishedIsRead`, `ClaimsEnd`, `WordIsCarriedOut`,
`EveryMentionIsDecided`, `AfterwardsAsSaid`, `EverybodyIsJudged`, `ChangedListIsMatched` and
`EverythingIsRead`).

## Disagreements

What a docstring, an ADR or a wiki page says and the code does not keep. The properties are
defined in the modules; each is violated in the run's configuration when it takes the place
of the run's properties (under `Spec` instead of `FairSpec`, `LoadSpec`, `JunkSpec`
likewise), with the constants changed as said. TLC shows the behaviour within seconds to two
minutes.

| Property | Run, and what to change in it | What happens |
|---|---|---|
| `AtMostOneUnitAfterAbort` | `monitoring_runs`; `Requests <- DerivedRequests` | `review_entities` hands a batch of decisions to one call, each committed on its own, with no heartbeat between (`service.py:689`): several units after an abort; ADR 0013:132 says at most one |
| `CheckpointNeverGoesBack` | `monitoring_runs` | `finish_run` frees the scope before the checkpoint is written and `update_checkpoint` does not compare (`repository.py:372`): an older run replaces the checkpoint of a newer one |
| `NeverAtOnce` | `operations`; `Requests <- ChainRequests` | a stop ends the row and frees the index while the process still lives (`operations.py:396`); :69 says the modes of the monitor never run at once |
| `CrashedLoadEndsChain` | `operations` | a load whose process crashed or was killed after a source was loaded has failed "in part" like one that a source failed in (`operations.py:688`): the chain goes on to the purge. :78 says that a step stopped, lost or crashed ends the chain, and `next_in_chain` (:716) that any failure but that of some of many sources does |
| `NoSourceSkipped` | `operations`; `Sources = {s1, s2}` | a command returns 1 when one source failed and another was skipped, so the load counts as partly done (`operations.py:697`), which promises that none was skipped |
| `OwnSourceLoaded` | `operations`; `Sources = {s1, s2}` | `_load_partly_done` counts every source run completed since `started_at`, whoever started it (`operations.py:699`) |
| `CycleNeverBesideLoad` | `operations` | `wait_for_load` looks once; a scheduled load may start beside the purge of the cycle (`dagster_location/cycle.py:129`) |
| `PastKnownIsLoaded` | `load`; `Sources = {[Followed EXCEPT !.posts = 6, !.archive = 2, !.ages = 0]}`, `PageSize = 1`, `FirstLimit = 2`, `MaxBacklog = 4` | the load after a broken one has the ceiling of a first load: what lies beyond it no later load lists (`service.py:477`) |
| `PastKnownIsLoaded` | `load`; `Sources = {[Paged EXCEPT !.breaks = 0, !.removals = 1]}` | a post taken down between two pages fetched by number moves an unread one to the page already read; a known page beyond it ends the paging (`discovery_pagination.py:83`) |
| `PastKnownIsLoaded` | `load`; `Sources = {[Followed EXCEPT !.dates = {3}, !.ages = 0, !.breaks = 0]}`, `PageSize = 1`, `FirstLimit = 5` | a load for a period, which skips what is older, counts as the completed load the next one may stop at (`repository.py:394`); :72 of `discovery_pagination.py` says that past a known page lie loaded publications |
| `PastKnownIsLoaded` | `load`; `Sources = {[Followed EXCEPT !.breaks = 0]}` | after a pause longer than its history window a channel is read down to the window's end and the load completes (`telegram/source_adapter.py:123`): the posts of the pause before it are never listed again. `discover_until_known` says that past a known page "lie posts an earlier run already loaded" (`telegram/source_adapter.py:85`) |
| `PastKnownIsLoaded` | `load`; `Sources = {[Followed EXCEPT !.ages = 0]}` | a channel whose preview is shut yields no reference and no error, and the load of nothing completes (`telegram/source_adapter.py:106`): after a broken load it counts as the completed one the next may stop at, and what the broken load owed stays unread |
| `FailedIsReadAgain` | `load` | a document whose read failed lies behind the page at which the next load stops (`service.py:514`) |
| `InFlightWithinLimits` | `source_reads`; `References = 3`, `MaxDelay = 1` | the gates are left when the head of the answer has come, and the body is read after that (`concurrency.py:512`): more bodies of a host are read at once than it allows |
| `HostIsLeftAlone` | `source_reads`; `References = 3`, `DomainLimit <- TwoAtOnce` | a request that waits for the run's gate does not look at the cooldown again (`concurrency.py:457`) |
| `LimitsStayLowered` | `investigation`; `Tasks <- OneTask`, `Slots = 1`, `Ceiling = 2`, `Asked = {1, 2}`, `Mishaps <- TwoCancels` | the save of a cancelled process, still in its thread, puts back the ceiling a resume has lowered (`nodes.py:188`) |
| `RecordsAlwaysKept` | `investigation`; `Asked = {3}`, `Mishaps <- TwoCancels` | the same late save replaces the progress the resuming process has recorded in (`run_store.py:112`) |
| `NewRunAnswers` | `investigation`; `Tasks <- OneTask`, `Follow <- NoFollow`, `Slots = 1`, `Ceiling = 2`, `Asked = {2}`, `MaxRounds = 0`, `Mishaps <- OneFailure` | `investigate` claims outside its handlers: a store that fails there raises (`investigation/service.py:144`) |
| `StoppedRunIsFound` | the same with `Mishaps <- OneCrash` | a run stopped before its plan has no progress; `resume` raises "not found" and nothing ends the row (`investigation/service.py:180`) |
| `HeldIsNotPurged` | `junk`; `Articles = {1, 2}`, `Old = {}`, `CaseLike = {1}`, `MaxStops = 0`, `Beside = {"again"}` | purge.py picks a batch, lets a model score it and deletes it by id without a second look at the holds: an article the operator puts back on the check in between is deleted, although "A held article is never purged ... until a person calls it junk" (`junk/purge.py:19`) |
| `HeldIsNotPurged` | the same with `Purges = {p1, p2}`, `Beside = {}` | `ON CONFLICT DO NOTHING` returns only the rows it wrote: an article another purge held meanwhile is deleted (`purge.py:220`) |
| `InWorkIsNotPurged` | the same with `Beside = {"junk", "reextract"}` | `reextract` commits an event between the pick and the delete (`purge.py:156`) |
| `ModelsEventIsReleased` | the same with `Beside = {"unrelease"}` | `read_holds` restores events without taking the holds: `unrelease` may commit in between (`hold_reader.py:343`) |
| `ReleasedIsRemembered` | the same with `Beside = {}` | `reextract` deletes the hold in whatever status it is by then (`holds.py:129`) |
| `FoundLosesTheRow` | `junk` with its fairness; `Articles = {1}`, `CaseLike = {1}`, `Old = {}`, `BatchSize = 1`, `MaxStops = 0`, `Beside = {}` | the extraction of the monitoring does not delete the hold of an article it finds an event in (`extraction/persistence.py:26`) |
| `LinkedIsActive` | `persons`; `NameOf <- FourAlike`, `RunOf <- OneRun`, `KeysOf <- OneKey`, `Alike <- Itself`, `Complete <- Ivan`, one worker, one person, `MaxAborts = 0` | `_require_active` reads without a lock: a merge commits before the link is written (`review.py:374`) |
| `NoAlikeDuplicate` | `persons`; three mentions, `NameOf <- TwoNames`, `RunOf <- ThreeRuns`, `KeysOf <- Apart`, `Alike <- AllAlike`, no reviewers, `MaxAborts = 0` | candidates are found by trigrams, blocks are full tokens: two misspelled forms share no lock (`persons/resolution/service.py:342`) |
| `AiMakesNoNamesake` | `persons`; three mentions, `NameOf <- TwoNames`, `RunOf <- ThreeRuns`, `Alike <- AllAlike`, one worker, one person, `MaxAborts = 0` | the answer is applied to the stored candidates; a namesake created meanwhile is not among them (`ai_review_service.py:205`) |
| `PersonsWordStays` | `entities`; `Says = {"pair"}`, `MaxWords = 1`, `MaxBeside = 0` | the merge of the check writes "same" over what a person decided of the pair since it read the decisions (`disputes.py:433`) |
| `RemovedStaysOut` | `entities`; `Says = {"remove"}`, `MaxWords = 1`, `MaxBeside = 0` | a removal said after a rebuild read the removals is undone until the next one (`collector.py:440`) |
| `RoleStaysAsSaid` | `entities`; `Says = {"role"}`, `MaxWords = 1`, `MaxBeside = 0` | a role said while the model answers is written over until the next cycle (`roles.py:695`) |
| `SamePersonsSameKeys` | `entities`; `Says = {"name"}`, `MaxWords = 1`, `MaxBeside = 0` | the correction of a name and the rebuild keep different keys of one person (`overrides.py:92`) |
| `UnchangedIsInUse` | `rf_list`; `MaxTroubles = 2` | a snapshot whose import stopped counts as the page being known: "unchanged", while an older list is in use (`rf_check.py`, `persistence.py:26`) |
| `KnownDayStaysKnown` | `rf_list`; `MaxTroubles = 2` | the days come from the snapshot before by id, which may not be whole (`inclusion_store.py:151`) |
| `CaptureIsNotOlder` | `rf_list`; `MaxTroubles = 2` | the age of a capture is compared before it is parsed and stored (`rf_check.py:305`) |
| `FindingsOfLatestList` | `findings` | a run evaluates against the snapshot it matched, read before it waits for the lock of the findings: it may put the findings back to an older list (`findings.py:92`); ADR 0013 says "for the latest snapshot" |

Two more limits met while modelling: `SearchesWithinSlots` holds as long as no connection
of a claim is lost (`drops = 0`), because nothing notices that the advisory lock went
with it (`run_store.py:53`); and `SearchesMadeOnce` is stated of crashes only, because a
record that could not be written is a search the next resume makes again ("costs the
record, not the run").

## Assumed of the environment

PostgreSQL at READ COMMITTED: a transaction sees what was committed before each statement;
a unique index refuses the second of two conflicting rows; a row lock and a transaction
advisory lock last to the end of the transaction, a session advisory lock to the end of
the connection. A crash of a process ends its transactions and connections. Clocks are
compared only in `Findings`, where the skew between hosts is part of `Longest`; elsewhere
"stale" may become true at any time for a run that is not served (and, in
`MonitoringRuns`, for one that is), so heartbeat intervals and thresholds are no bounds
on what may happen. An operating-system process that gets SIGKILL ends. The event loop of
a load runs one task at a time and its semaphores are fair.

## Not modelled

- Models' answers: the spend ledger, its budget and the batches of cached answers
  (`court-platform/llm`, `processing/answers.py`). In the models a provider answers
  anything, late or not at all.
- In `SourceReads`: metrics, robots.txt, the connection pool, parsing;
  `benchmark.py` reads without the gate of the reader.
- In `EntityGroups`: unnamed figurants and their identification, aliases and bare
  surnames, charges, nameless political cases, edits of the exclusion list itself.
- In `RfList`: `backfill_birth_dates`, how the operator's table is read from Airtable,
  the comparison of names.
- In `Findings`: marks of done entities and chat questions, single writes each.
- The text of an extraction, evidence, reports and prompts: data; what the models need of
  them are constants and nondeterministic choices.
- Web handlers, authentication, CLI parsing, frontend, Airtable, migrations, evaluation
  tools: request-local, presentation or one-shot commands. They are most of the code by
  lines: queries that build a page of the site hold no state and no step in them depends
  on another process.
- Row locks as something that workers of `PersonResolution` wait for: only the merge that
  waits for a worker's links is modelled, not the worker that waits for a merge.

## Plan

Done: `RunLedger`, `MonitoringRuns`, `OperationRuns`, `IdentityRegister`,
`PersonResolution`, `RfList`, `SourceReads`, `SourceLoad`, `InvestigationRuns`,
`EntityGroups`, `JunkHolds` and `Findings`
with proofs of every safety and action property their runs check.

Next, in order of what matters:

1. `PersonResolution`: promotion of aliases, `redecide.py`, row locks as waits.
2. `ModelAnswers`: the spend ledger and the batches of cached answers.
3. A composition of `OperationRuns` and `MonitoringRuns`: a stopped operation whose
   process serves a source run.
4. `EntityGroups`: the identification of unnamed figurants.
