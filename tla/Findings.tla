------------------------------- MODULE Findings -------------------------------
(***************************************************************************)
(* The derived stages of a monitoring run: the people whose results are    *)
(* older than their evidence are classified and matched with the latest    *)
(* snapshot of the list, and the ones found political and not listed       *)
(* become findings.  Runs of several sources do this at the same time, and *)
(* transactions of entity resolution and of reviews, stamped when they     *)
(* start and seen when they commit, change the evidence under them.        *)
(*                                                                         *)
(* Evidence is what the classifier and the matcher would say of it: the    *)
(* person is political or not, and goes by a name.  Lists[s] holds the     *)
(* names whose absence from snapshot s the matcher does not confirm.       *)
(***************************************************************************)
EXTENDS Naturals, Sequences

CONSTANTS
  Runs, People, Names,
  Lists,       \* the snapshots, in the order they are imported
  Settle,      \* EVIDENCE_SETTLE_INTERVAL
  Longest,     \* how long a transaction that changes evidence lasts at most
  Working,     \* how long one person is classified or matched at most
  MaxTime,     \* bound on the clock, which starts at Settle
  MaxChanges,  \* bound on the transactions that change evidence
  MaxTroubles  \* bound on the people that fail and the runs that stop

Facts == [political : BOOLEAN, name : Names]
Snapshots == 1 .. Len(Lists)

ASSUME ListsAssumption == Lists \in Seq(SUBSET Names)
\* "Longer than any ER / review transaction plus clock skew", and than a person's turn.
ASSUME SettleAssumption ==
  /\ {Settle, Longest, Working} \subseteq Nat
  /\ Longest + Working < Settle
ASSUME BoundsAssumption == {MaxTime, MaxChanges, MaxTroubles} \subseteq Nat
ASSUME NobodyAssumption == "nobody" \notin People

VARIABLES
  now,       \* the clock
  facts,     \* what the committed evidence says of each person
  status,    \* persons.status, or "none" before the person is created
  stamp,     \* the newest timestamp on the person's committed evidence
  began,     \* when the open transaction that changes the person began, or 0
  lists,     \* how many snapshots are imported
  class,     \* persecution_classifications: at = 0 when there is no row
  match,     \* rosfin_matches, by snapshot and person: at = 0 when there is no row
  finding,   \* monitoring_findings
  run,       \* what each run is doing
  changes, troubles  \* how many there were so far

evidence == <<facts, status, stamp, began, changes>>
vars == <<now, evidence, lists, class, match, finding, run, troubles>>

Nobody == "nobody"
Never == 0
\* What is said of people nothing is committed about plays no part.
Unknown == CHOOSE f \in Facts : TRUE
NoClass == [at |-> Never, political |-> FALSE]
NoMatch == [at |-> Never, absent |-> FALSE]
NoFinding == [active |-> FALSE, by |-> {}, list |-> 0]
Waiting == [stage |-> "classification", inside |-> FALSE, todo |-> {},
            who |-> Nobody, saw |-> {}, since |-> 0, list |-> 0, step |-> "read",
            found |-> {}, doomed |-> {}, calm |-> FALSE]

\* The matcher confirms that a name is absent from snapshot s.
Absent(name, s) == name \notin Lists[s]

\* An empty database, or what a run leaves that ended long after the evidence changed.
Init ==
  /\ now = Settle
  /\ facts \in [People -> Facts]
  /\ status \in [People -> {"none", "active"}]
  /\ \A p \in People : status[p] = "none" => facts[p] = Unknown
  /\ stamp = [p \in People |-> 0]
  /\ began = [p \in People |-> 0]
  /\ lists \in {0, 1} \intersect (0 .. Len(Lists))
  /\ lists = 0 => \A p \in People : status[p] = "none"
  /\ class = [p \in People |->
       IF status[p] = "none" THEN NoClass
       ELSE [at |-> Settle, political |-> facts[p].political]]
  /\ match = [s \in Snapshots |-> [p \in People |->
       IF s > lists \/ status[p] = "none" THEN NoMatch
       ELSE [at |-> Settle, absent |-> Absent(facts[p].name, s)]]]
  /\ finding = [p \in People |->
       IF lists = 0 THEN NoFinding
       ELSE [active |-> status[p] = "active" /\ facts[p].political
                          /\ Absent(facts[p].name, lists),
             by |-> {}, list |-> lists]]
  /\ run = [r \in Runs |-> Waiting]
  /\ changes = 0 /\ troubles = 0

-----------------------------------------------------------------------------
(* Which results are still to be made.                                     *)

\* Changed form of Older: the result has only to be younger than the stamp.
OlderThanStamp(at, p) == at = Never \/ at < stamp[p]

\* _older, with the interval active_evidence_changes adds; no row is older than anything.
Older(at, p) == at = Never \/ at < stamp[p] + Settle

Active(p) == status[p] = "active"
PendingClassification == {p \in People : Active(p) /\ Older(class[p].at, p)}
PendingMatch(s) == {p \in People : Active(p) /\ Older(match[s][p].at, p)}

-----------------------------------------------------------------------------
(* The evidence changes.                                                   *)

\* Runs that began before are not calm any more: what they read may be gone.
Disturbed == [r \in Runs |-> [run[r] EXCEPT !.calm = FALSE]]

Begin(p) ==
  /\ changes < MaxChanges
  /\ status[p] # "merged" /\ began[p] = 0
  /\ began' = [began EXCEPT ![p] = now]
  /\ changes' = changes + 1
  /\ UNCHANGED <<now, facts, status, stamp, lists, class, match, finding, run, troubles>>

\* The rows a commit shows carry the start of the transaction or a clock read inside it.
Stamped(p) ==
  \E at \in began[p] .. now :
    stamp' = [stamp EXCEPT ![p] = IF at > @ THEN at ELSE @]

\* Changed form of Joined: a merge leaves the timestamps of its target alone.
JoinedUnstamped(p) == stamp' = stamp

\* A merge comes with the review of a decision, whose reviewed_at is read here.
Joined(p) == Stamped(p)

Commit(p) ==
  /\ began[p] # 0 /\ status[p] # "merged"
  /\ \E f \in Facts : facts' = [facts EXCEPT ![p] = f]
  /\ Stamped(p)
  /\ status' = [status EXCEPT ![p] = "active"]
  /\ began' = [began EXCEPT ![p] = 0]
  /\ run' = Disturbed
  /\ UNCHANGED <<now, lists, class, match, finding, changes, troubles>>

\* merge_persons: the mentions, links and aliases of p become q's, in q's transaction.
Merge(p, q) ==
  /\ p # q /\ Active(p) /\ Active(q)
  /\ began[q] # 0 /\ began[p] = 0
  /\ \E n \in Names :
       facts' = [facts EXCEPT ![q] = [political |-> @.political \/ facts[p].political,
                                      name |-> n]]
  /\ Joined(q)
  /\ status' = [status EXCEPT ![p] = "merged"]
  /\ began' = [began EXCEPT ![q] = 0]
  /\ run' = Disturbed
  /\ UNCHANGED <<now, lists, class, match, finding, changes, troubles>>

Import ==
  /\ lists < Len(Lists)
  /\ lists' = lists + 1
  /\ run' = Disturbed
  /\ UNCHANGED <<now, evidence, class, match, finding, troubles>>

Tick ==
  /\ now < MaxTime
  /\ \A p \in People : began[p] = 0 \/ now < began[p] + Longest
  /\ \A r \in Runs : run[r].who = Nobody \/ now < run[r].since + Working
  /\ now' = now + 1
  /\ UNCHANGED <<evidence, lists, class, match, finding, run, troubles>>

-----------------------------------------------------------------------------
(* The stages.                                                             *)

\* Changed form of Free: nobody takes the lock of the findings.
FreeButFindings(s) == s = "findings" \/ \A r \in Runs : run[r].stage = s => ~run[r].inside

\* The advisory lock monitoring:derived:<stage>.
Free(s) == \A r \in Runs : run[r].stage = s => ~run[r].inside

\* The lock is taken, and the run still holds its row.
Enters(r, s) == run[r].stage = s /\ ~run[r].inside /\ Free(s)

OnlyRun == UNCHANGED <<now, evidence, lists, class, match, finding, troubles>>

Classify(r) ==
  /\ Enters(r, "classification")
  /\ run' = [run EXCEPT ![r] = [@ EXCEPT !.inside = TRUE, !.todo = PendingClassification,
                                         !.calm = TRUE]]
  /\ OnlyRun

MatchRosfinmonitoring(r) ==
  /\ Enters(r, "rf_matching")
  /\ IF lists = 0
       THEN run' = [run EXCEPT ![r].stage = "findings"]
       ELSE run' = [run EXCEPT ![r] = [@ EXCEPT !.inside = TRUE, !.list = lists,
                                                !.todo = PendingMatch(lists)]]
  /\ OnlyRun

InPeople(r) == run[r].inside /\ run[r].stage \in {"classification", "rf_matching"}

\* The evidence of the next person is read, after a heartbeat.
Look(r, p) ==
  /\ InPeople(r)
  /\ run[r].who = Nobody /\ p \in run[r].todo
  /\ run' = [run EXCEPT ![r] = [@ EXCEPT !.who = p, !.todo = run[r].todo \ {p},
                                         !.saw = {facts[p]}, !.since = now]]
  /\ OnlyRun

Done(r) == run' = [run EXCEPT ![r] = [@ EXCEPT !.who = Nobody, !.saw = {}, !.since = 0]]

\* The result is dated between the reading and the commit.
WriteClassification(r) ==
  /\ run[r].stage = "classification" /\ run[r].who # Nobody
  /\ \E at \in run[r].since .. now, f \in run[r].saw :
       class' = [class EXCEPT ![run[r].who] = [at |-> at, political |-> f.political]]
  /\ Done(r)
  /\ UNCHANGED <<now, evidence, lists, match, finding, troubles>>

WriteMatch(r) ==
  /\ run[r].stage = "rf_matching" /\ run[r].who # Nobody
  /\ \E at \in run[r].since .. now, f \in run[r].saw :
       match' = [match EXCEPT ![run[r].list][run[r].who] =
                   [at |-> at, absent |-> Absent(f.name, run[r].list)]]
  /\ Done(r)
  /\ UNCHANGED <<now, evidence, lists, class, finding, troubles>>

\* record_failure: the person is left for a later run.
Fail(r) ==
  /\ run[r].who # Nobody /\ troubles < MaxTroubles
  /\ run' = [run EXCEPT ![r] = [@ EXCEPT !.who = Nobody, !.saw = {}, !.since = 0,
                                         !.calm = FALSE]]
  /\ troubles' = troubles + 1
  /\ UNCHANGED <<now, evidence, lists, class, match, finding>>

Leave(r) ==
  /\ InPeople(r) /\ run[r].todo = {} /\ run[r].who = Nobody
  /\ run' = [run EXCEPT ![r] = [@ EXCEPT !.inside = FALSE,
               !.stage = IF run[r].stage = "classification" THEN "rf_matching" ELSE "findings"]]
  /\ OnlyRun

-----------------------------------------------------------------------------
(* The findings: one transaction, whose statements each see what is        *)
(* committed by then.                                                      *)

Over == [Waiting EXCEPT !.stage = "over"]

SkipFindings(r) ==
  /\ Enters(r, "findings") /\ run[r].list = 0
  /\ run' = [run EXCEPT ![r] = Over]
  /\ OnlyRun

EvaluateFindings(r) ==
  /\ Enters(r, "findings") /\ run[r].list # 0
  /\ run' = [run EXCEPT ![r] = [@ EXCEPT !.inside = TRUE,
               !.found = {p \in People : class[p].at # Never /\ class[p].political}]]
  /\ OnlyRun

Evaluating(r, step) == run[r].stage = "findings" /\ run[r].inside /\ run[r].step = step

\* Active people whose absence from the snapshot is confirmed; no row confirms nothing.
Confirm(r) ==
  /\ Evaluating(r, "read")
  /\ run' = [run EXCEPT ![r] = [@ EXCEPT !.step = "confirmed",
               !.found = {p \in run[r].found : /\ Active(p)
                                               /\ match[run[r].list][p].at # Never
                                               /\ match[run[r].list][p].absent}]]
  /\ OnlyRun

\* Changed form of Missing: findings stay active.
MissingNone(r) == {}

\* _deactivate_missing
Missing(r) == {p \in People : finding[p].active} \ run[r].found

Deactivate(r) ==
  /\ Evaluating(r, "confirmed")
  /\ run' = [run EXCEPT ![r] = [@ EXCEPT !.step = "deactivated", !.doomed = Missing(r)]]
  /\ OnlyRun

Record(r) ==
  /\ Evaluating(r, "deactivated")
  /\ finding' = [p \in People |->
       IF p \in run[r].found THEN [active |-> TRUE, by |-> {r}, list |-> run[r].list]
       ELSE IF p \in run[r].doomed THEN [finding[p] EXCEPT !.active = FALSE]
       ELSE finding[p]]
  /\ run' = [run EXCEPT ![r] = Over]
  /\ UNCHANGED <<now, evidence, lists, class, match, troubles>>

-----------------------------------------------------------------------------
(* Processes that stop, and runs that find at a heartbeat that they were    *)
(* replaced: the open transaction is lost, and the lock with its           *)
(* connection.                                                             *)

Stop(r) ==
  /\ run[r].stage # "over" /\ troubles < MaxTroubles
  /\ run' = [run EXCEPT ![r] = Over]
  /\ troubles' = troubles + 1
  /\ UNCHANGED <<now, evidence, lists, class, match, finding>>

Next ==
  \/ \E p \in People : Begin(p) \/ Commit(p)
  \/ \E p, q \in People : Merge(p, q)
  \/ Import \/ Tick
  \/ \E r \in Runs :
       \/ Classify(r) \/ MatchRosfinmonitoring(r)
       \/ \E p \in People : Look(r, p)
       \/ WriteClassification(r) \/ WriteMatch(r) \/ Fail(r) \/ Leave(r)
       \/ SkipFindings(r) \/ EvaluateFindings(r) \/ Confirm(r) \/ Deactivate(r) \/ Record(r)
       \/ Stop(r)

Spec == Init /\ [][Next]_vars

-----------------------------------------------------------------------------
(* Properties.                                                             *)

Stages == {"classification", "rf_matching", "findings", "over"}
Run == [stage : Stages, inside : BOOLEAN, todo : SUBSET People, who : People \union {Nobody},
        saw : SUBSET Facts, since : Nat, list : 0 .. Len(Lists),
        step : {"read", "confirmed", "deactivated"}, found : SUBSET People,
        doomed : SUBSET People, calm : BOOLEAN]

TypeOK ==
  /\ now \in Nat
  /\ facts \in [People -> Facts]
  /\ status \in [People -> {"none", "active", "merged"}]
  /\ stamp \in [People -> Nat]
  /\ began \in [People -> Nat]
  /\ lists \in 0 .. Len(Lists)
  /\ class \in [People -> [at : Nat, political : BOOLEAN]]
  /\ match \in [Snapshots -> [People -> [at : Nat, absent : BOOLEAN]]]
  /\ finding \in [People -> [active : BOOLEAN, by : SUBSET Runs, list : 0 .. Len(Lists)]]
  /\ run \in [Runs -> Run]
  /\ changes \in Nat /\ troubles \in Nat

\* A stored result is what the committed evidence gives.
ClassificationHolds(p) == class[p].political = facts[p].political
MatchHolds(s, p) == match[s][p].absent = Absent(facts[p].name, s)

\* A person whose stored classification or match is not what the committed evidence gives
\* is selected again, however a transaction was stamped before and committed after the
\* result was made (pending.py:1, active_evidence_changes).
StaleIsPending ==
  /\ TypeOK
  /\ \A p \in People :
       Active(p) => ClassificationHolds(p) \/ p \in PendingClassification
  /\ \A p \in People, s \in Snapshots :
       Active(p) => MatchHolds(s, p) \/ p \in PendingMatch(s)

\* The people who now are political, active and not on the latest snapshot.
Wanted == {p \in People : Active(p) /\ facts[p].political /\ Absent(facts[p].name, lists)}

\* A run that ends its findings with no item failed and nothing committed or imported since
\* it selected its people leaves exactly the people wanted now active, whatever older runs
\* and other runs beside it did (evaluate_findings, _deactivate_missing).
OneRunIsEnough ==
  [][\A r \in Runs :
       (Evaluating(r, "deactivated") /\ run'[r].stage = "over" /\ run[r].calm
          /\ troubles' = troubles)
         => {p \in People : finding'[p].active} = Wanted]_vars

\* All active findings were seen last by one run against one snapshot: two evaluations never
\* mix (the findings lock, findings.py:134).
FindingsOfOneEvaluation ==
  \A p, q \in People : finding[p].active /\ finding[q].active =>
    finding[p].by = finding[q].by /\ finding[p].list = finding[q].list

\* ADR 0013: "RF status not_matched for the latest snapshot": an evaluation does not put
\* back what one against a newer snapshot recorded.  It does: a run evaluates against the
\* snapshot it matched, and another run may have matched and evaluated a newer one since.
FindingsOfLatestList ==
  [][\A p \in People : finding'[p].active => finding'[p].list >= finding[p].list]_vars
=============================================================================
