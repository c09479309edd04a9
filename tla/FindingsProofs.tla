---------------------------- MODULE FindingsProofs ----------------------------
(***************************************************************************)
(* What holds of the derived stages for any runs, people, names, snapshots *)
(* and lengths of time, as long as the transactions that change evidence   *)
(* and a person's turn together are shorter than Settle: see Findings.     *)
(***************************************************************************)
EXTENDS Findings, TLAPS

\* Transactions and turns keep to their lengths.
ClockInv ==
  /\ \A p \in People : /\ stamp[p] <= now /\ class[p].at <= now
                       /\ \A s \in Snapshots : match[s][p].at <= now
                       /\ began[p] # 0 => began[p] <= now /\ now <= began[p] + Longest
  /\ \A r \in Runs : run[r].who # Nobody =>
       run[r].since <= now /\ now <= run[r].since + Working

\* A fact a run has read is still there, or what replaced it is stamped late enough.
SawInv ==
  \A r \in Runs : run[r].who # Nobody =>
    \A f \in run[r].saw : f = facts[run[r].who] \/ run[r].since <= stamp[run[r].who] + Longest

\* What StaleIsPending says, of people who are not active, too.
HoldsInv ==
  \A p \in People :
    /\ Older(class[p].at, p) \/ ClassificationHolds(p)
    /\ \A s \in Snapshots : Older(match[s][p].at, p) \/ MatchHolds(s, p)

IInv == TypeOK /\ ClockInv /\ SawInv /\ HoldsInv

-----------------------------------------------------------------------------
LEMMA TypeInit == Init => TypeOK
<1> SUFFICES ASSUME Init PROVE TypeOK
  OBVIOUS
<1> USE DEF Init
<1>1. Settle \in Nat /\ Settle # Never
  BY SettleAssumption DEF Never
<1>2. Len(Lists) \in Nat
  BY ListsAssumption
<1>3. lists \in 0 .. Len(Lists)
  BY <1>2
<1>4. /\ class \in [People -> [at : Nat, political : BOOLEAN]]
      /\ match \in [Snapshots -> [People -> [at : Nat, absent : BOOLEAN]]]
  BY <1>1 DEF NoClass, NoMatch, Never, Facts, Absent
<1>5. finding \in [People -> [active : BOOLEAN, by : SUBSET Runs, list : 0 .. Len(Lists)]]
  <2>1. CASE lists = 0
    BY <1>2, <2>1 DEF NoFinding
  <2>2. CASE lists # 0
    BY <1>3, <2>2 DEF Facts
  <2> QED BY <2>1, <2>2
<1>6. run \in [Runs -> Run]
  BY <1>2 DEF Waiting, Run, Stages
<1> QED BY <1>1, <1>3, <1>4, <1>5, <1>6 DEF TypeOK

LEMMA InvInit == Init => IInv
<1> SUFFICES ASSUME Init PROVE IInv
  OBVIOUS
<1>1. TypeOK
  BY TypeInit
<1>2. Settle \in Nat /\ Settle # Never
  BY SettleAssumption DEF Never
<1>3. ClockInv
  BY <1>2 DEF Init, ClockInv, NoClass, NoMatch, Never, Waiting
<1>4. SawInv
  BY DEF Init, SawInv, Waiting
<1>5. HoldsInv
  <2> SUFFICES ASSUME NEW p \in People
               PROVE  /\ Older(class[p].at, p) \/ ClassificationHolds(p)
                      /\ \A s \in Snapshots : Older(match[s][p].at, p) \/ MatchHolds(s, p)
    BY DEF HoldsInv
  <2>1. Older(class[p].at, p) \/ ClassificationHolds(p)
    BY DEF Init, Older, ClassificationHolds, NoClass
  <2>2. ASSUME NEW s \in Snapshots PROVE Older(match[s][p].at, p) \/ MatchHolds(s, p)
    BY DEF Init, Older, MatchHolds, NoMatch
  <2> QED BY <2>1, <2>2
<1> QED BY <1>1, <1>3, <1>4, <1>5 DEF IInv

-----------------------------------------------------------------------------
(* Types, action by action.                                                *)

LEMMA TypeStep == TypeOK /\ [Next]_vars => TypeOK'
<1> SUFFICES ASSUME TypeOK, [Next]_vars PROVE TypeOK'
  OBVIOUS
<1> USE DEF TypeOK
<1>l. Len(Lists) \in Nat
  BY ListsAssumption
<1>s. ASSUME NEW p \in People, Stamped(p) PROVE stamp' \in [People -> Nat]
  <2>1. PICK at \in began[p] .. now : stamp' = [stamp EXCEPT ![p] = IF at > @ THEN at ELSE @]
    BY <1>s DEF Stamped
  <2>2. at \in Nat
    BY <2>1
  <2> QED BY <2>1, <2>2
<1>d. Disturbed \in [Runs -> Run]
  <2>1. ASSUME NEW r \in Runs PROVE [run[r] EXCEPT !.calm = FALSE] \in Run
    BY DEF Run
  <2> QED BY <2>1 DEF Disturbed
<1>r. Over \in Run
  <2>1. Waiting \in Run
    <3>1. 0 \in 0 .. Len(Lists)
      BY <1>l
    <3> QED BY <3>1 DEF Waiting, Run, Stages
  <2> QED BY <2>1 DEF Over, Run, Stages
<1>u. ASSUME NEW r \in Runs, NEW x \in Run, run' = [run EXCEPT ![r] = x]
      PROVE  run' \in [Runs -> Run]
  BY <1>u
<1>o. ASSUME OnlyRun, run' \in [Runs -> Run] PROVE TypeOK'
  BY <1>o DEF OnlyRun, evidence
<1>1. ASSUME NEW p \in People, Begin(p) PROVE TypeOK'
  BY <1>1 DEF Begin
<1>2. ASSUME NEW p \in People, Commit(p) PROVE TypeOK'
  <2>1. facts' \in [People -> Facts]
    BY <1>2 DEF Commit
  <2> QED BY <1>2, <1>s, <1>d, <2>1 DEF Commit
<1>3. ASSUME NEW p \in People, NEW q \in People, Merge(p, q) PROVE TypeOK'
  <2>1. PICK n \in Names :
          facts' = [facts EXCEPT ![q] = [political |-> @.political \/ facts[p].political,
                                         name |-> n]]
    BY <1>3 DEF Merge
  <2>2. facts' \in [People -> Facts]
    BY <2>1 DEF Facts
  <2> QED BY <1>3, <1>s, <1>d, <2>2 DEF Merge, Joined
<1>4. CASE Import
  BY <1>4, <1>l, <1>d DEF Import, evidence
<1>5. CASE Tick
  BY <1>5 DEF Tick, evidence
<1>6. ASSUME NEW r \in Runs, Classify(r) PROVE TypeOK'
  <2>1. run[r] \in Run
    OBVIOUS
  <2>2. [run[r] EXCEPT !.inside = TRUE, !.todo = PendingClassification, !.calm = TRUE] \in Run
    BY <2>1 DEF Run, Stages, PendingClassification
  <2> QED BY <1>6, <1>u, <1>o, <2>2 DEF Classify
<1>7. ASSUME NEW r \in Runs, MatchRosfinmonitoring(r) PROVE TypeOK'
  <2>1. run[r] \in Run
    OBVIOUS
  <2>2. CASE lists = 0
    <3>1. [run[r] EXCEPT !.stage = "findings"] \in Run
      BY <2>1 DEF Run, Stages
    <3> QED BY <1>7, <1>u, <1>o, <2>2, <3>1 DEF MatchRosfinmonitoring
  <2>3. CASE lists # 0
    <3>1. [run[r] EXCEPT !.inside = TRUE, !.list = lists, !.todo = PendingMatch(lists)] \in Run
      BY <2>1 DEF Run, PendingMatch
    <3> QED BY <1>7, <1>u, <1>o, <2>3, <3>1 DEF MatchRosfinmonitoring
  <2> QED BY <2>2, <2>3
<1>8. ASSUME NEW r \in Runs, NEW p \in People, Look(r, p) PROVE TypeOK'
  <2> DEFINE x == [run[r] EXCEPT !.who = p, !.todo = run[r].todo \ {p},
                             !.saw = {facts[p]}, !.since = now]
  <2>1. run[r] \in Run /\ {facts[p]} \in SUBSET Facts
    OBVIOUS
  <2>2. x \in Run
    BY <2>1 DEF Run, Stages
  <2>3. run' = [run EXCEPT ![r] = x]
    BY <1>8, Zenon DEF Look
  <2> HIDE DEF x
  <2>4. run' \in [Runs -> Run]
    BY <1>u, <2>2, <2>3
  <2> QED BY <1>8, <1>o, <2>4 DEF Look
<1>9. ASSUME NEW r \in Runs, WriteClassification(r) PROVE TypeOK'
  <2>1. PICK at \in run[r].since .. now, f \in run[r].saw :
          class' = [class EXCEPT ![run[r].who] = [at |-> at, political |-> f.political]]
    BY <1>9 DEF WriteClassification
  <2>2. at \in Nat /\ f \in Facts
    BY <2>1 DEF Run
  <2>3. class' \in [People -> [at : Nat, political : BOOLEAN]]
    BY <2>1, <2>2 DEF Facts
  <2>4. run' \in [Runs -> Run]
    <3>1. [run[r] EXCEPT !.who = Nobody, !.saw = {}, !.since = 0] \in Run
      BY DEF Run
    <3> QED BY <1>9, <1>u, <3>1 DEF WriteClassification, Done
  <2> QED BY <1>9, <2>3, <2>4 DEF WriteClassification, evidence
<1>10. ASSUME NEW r \in Runs, WriteMatch(r) PROVE TypeOK'
  <2>1. PICK at \in run[r].since .. now, f \in run[r].saw :
          match' = [match EXCEPT ![run[r].list][run[r].who] =
                      [at |-> at, absent |-> Absent(f.name, run[r].list)]]
    BY <1>10 DEF WriteMatch
  <2>2. at \in Nat
    BY <2>1 DEF Run
  <2>3. match' \in [Snapshots -> [People -> [at : Nat, absent : BOOLEAN]]]
    BY <2>1, <2>2 DEF Absent
  <2>4. run' \in [Runs -> Run]
    <3>1. [run[r] EXCEPT !.who = Nobody, !.saw = {}, !.since = 0] \in Run
      BY DEF Run
    <3> QED BY <1>10, <1>u, <3>1 DEF WriteMatch, Done
  <2> QED BY <1>10, <2>3, <2>4 DEF WriteMatch, evidence
<1>11. ASSUME NEW r \in Runs, Fail(r) PROVE TypeOK'
  <2>1. [run[r] EXCEPT !.who = Nobody, !.saw = {}, !.since = 0, !.calm = FALSE] \in Run
    BY DEF Run
  <2>2. run' \in [Runs -> Run]
    BY <1>11, <1>u, <2>1 DEF Fail
  <2> QED BY <1>11, <2>2 DEF Fail, evidence
<1>12. ASSUME NEW r \in Runs, Leave(r) PROVE TypeOK'
  <2>1. run[r] \in Run
    OBVIOUS
  <2>2. [run[r] EXCEPT !.inside = FALSE,
          !.stage = IF run[r].stage = "classification" THEN "rf_matching" ELSE "findings"] \in Run
    BY <2>1 DEF Run, Stages
  <2> QED BY <1>12, <1>u, <1>o, <2>2 DEF Leave
<1>13. ASSUME NEW r \in Runs, SkipFindings(r) PROVE TypeOK'
  BY <1>13, <1>r, <1>u, <1>o DEF SkipFindings
<1>14. ASSUME NEW r \in Runs, EvaluateFindings(r) PROVE TypeOK'
  <2> DEFINE x == [run[r] EXCEPT !.inside = TRUE,
                  !.found = {p \in People : class[p].at # Never /\ class[p].political}]
  <2>1. run[r] \in Run
    OBVIOUS
  <2>2. x \in Run
    BY <2>1 DEF Run, Stages
  <2>3. run' = [run EXCEPT ![r] = x]
    BY <1>14, Zenon DEF EvaluateFindings
  <2> HIDE DEF x
  <2>4. run' \in [Runs -> Run]
    BY <1>u, <2>2, <2>3
  <2> QED BY <1>14, <1>o, <2>4 DEF EvaluateFindings
<1>15. ASSUME NEW r \in Runs, Confirm(r) PROVE TypeOK'
  <2> DEFINE x == [run[r] EXCEPT !.step = "confirmed",
                  !.found = {p \in run[r].found : /\ Active(p)
                                                  /\ match[run[r].list][p].at # Never
                                                  /\ match[run[r].list][p].absent}]
  <2>1. run[r] \in Run
    OBVIOUS
  <2>2. x \in Run
    BY <2>1 DEF Run, Stages
  <2>3. run' = [run EXCEPT ![r] = x]
    BY <1>15, Zenon DEF Confirm
  <2> HIDE DEF x
  <2>4. run' \in [Runs -> Run]
    BY <1>u, <2>2, <2>3
  <2> QED BY <1>15, <1>o, <2>4 DEF Confirm
<1>16. ASSUME NEW r \in Runs, Deactivate(r) PROVE TypeOK'
  <2> DEFINE x == [run[r] EXCEPT !.step = "deactivated", !.doomed = Missing(r)]
  <2>1. run[r] \in Run
    OBVIOUS
  <2>2. x \in Run
    BY <2>1 DEF Run, Missing
  <2>3. run' = [run EXCEPT ![r] = x]
    BY <1>16, Zenon DEF Deactivate
  <2> HIDE DEF x
  <2>4. run' \in [Runs -> Run]
    BY <1>u, <2>2, <2>3
  <2> QED BY <1>16, <1>o, <2>4 DEF Deactivate
<1>17. ASSUME NEW r \in Runs, Record(r) PROVE TypeOK'
  <2>1. run[r].list \in 0 .. Len(Lists)
    BY DEF Run
  <2>2. finding' \in [People -> [active : BOOLEAN, by : SUBSET Runs, list : 0 .. Len(Lists)]]
    BY <1>17, <2>1 DEF Record
  <2> QED BY <1>17, <1>r, <1>u, <2>2 DEF Record, evidence
<1>18. ASSUME NEW r \in Runs, Stop(r) PROVE TypeOK'
  BY <1>18, <1>r, <1>u DEF Stop, evidence
<1>19. CASE UNCHANGED vars
  BY <1>19 DEF vars, evidence
<1> QED BY <1>1, <1>2, <1>3, <1>4, <1>5, <1>6, <1>7, <1>8, <1>9, <1>10, <1>11, <1>12, <1>13,
           <1>14, <1>15, <1>16, <1>17, <1>18, <1>19 DEF Next

-----------------------------------------------------------------------------
(* What a step does to the evidence and to what the runs have read.        *)

\* The evidence of p is replaced, as Commit and Merge do.
Replaced(p) ==
  /\ began[p] # 0 /\ Stamped(p)
  /\ \A x \in People \ {p} : facts'[x] = facts[x]
  /\ began' = [began EXCEPT ![p] = 0]
  /\ run' = Disturbed
  /\ UNCHANGED <<now, class, match>>

\* What run x has read of a person stays, or is let go.
KeptOrGone(x) ==
  \/ run'[x].who = Nobody
  \/ run'[x].who = run[x].who /\ run'[x].saw = run[x].saw /\ run'[x].since = run[x].since

Quiet ==
  /\ UNCHANGED <<now, facts, stamp, began, class, match>>
  /\ \A x \in Runs : KeptOrGone(x)

\* Every step is one of these six.
LEMMA Steps ==
  ASSUME TypeOK, [Next]_vars
  PROVE  \/ \E p \in People : Begin(p) \/ Replaced(p)
         \/ Tick
         \/ \E r \in Runs : WriteClassification(r) \/ WriteMatch(r)
         \/ \E r \in Runs, p \in People : Look(r, p)
         \/ Quiet
<1> DEFINE Goal == \/ \E p \in People : Begin(p) \/ Replaced(p)
                   \/ Tick
                   \/ \E r \in Runs : WriteClassification(r) \/ WriteMatch(r)
                   \/ \E r \in Runs, p \in People : Look(r, p)
                   \/ Quiet
<1>t. \A x \in Runs : run[x] \in Run
  BY DEF TypeOK
<1>o. Over.who = Nobody
  BY DEF Over, Waiting
<1>q. ASSUME OnlyRun, \A x \in Runs : KeptOrGone(x) PROVE Goal
  BY <1>q DEF OnlyRun, evidence, Quiet
<1>1. ASSUME NEW p \in People, Commit(p) PROVE Goal
  BY <1>1 DEF Commit, Replaced, TypeOK
<1>2. ASSUME NEW p \in People, NEW q \in People, Merge(p, q) PROVE Goal
  BY <1>2 DEF Merge, Joined, Replaced, TypeOK
<1>3. CASE Import
  BY <1>3, <1>t DEF Import, evidence, Quiet, KeptOrGone, Disturbed, Run
<1>4. ASSUME NEW r \in Runs, Classify(r) PROVE Goal
  BY <1>4, <1>t, <1>q DEF Classify, KeptOrGone, TypeOK, Run
<1>5. ASSUME NEW r \in Runs, MatchRosfinmonitoring(r) PROVE Goal
  <2>1. ASSUME NEW x \in Runs PROVE KeptOrGone(x)
    <3>1. CASE lists = 0
      <4>1. run' = [run EXCEPT ![r] = [run[r] EXCEPT !.stage = "findings"]]
        BY <1>5, <3>1 DEF MatchRosfinmonitoring
      <4> QED BY <1>t, <4>1 DEF KeptOrGone, TypeOK, Run
    <3>2. CASE lists # 0
      <4>1. run' = [run EXCEPT ![r] = [run[r] EXCEPT !.inside = TRUE, !.list = lists,
                                                     !.todo = PendingMatch(lists)]]
        BY <1>5, <3>2 DEF MatchRosfinmonitoring
      <4> QED BY <1>t, <4>1 DEF KeptOrGone, TypeOK, Run
    <3> QED BY <3>1, <3>2
  <2> QED BY <1>5, <1>q, <2>1 DEF MatchRosfinmonitoring
<1>6. ASSUME NEW r \in Runs, Fail(r) PROVE Goal
  BY <1>6, <1>t DEF Fail, KeptOrGone, Quiet, TypeOK, Run, evidence
<1>7. ASSUME NEW r \in Runs, Leave(r) PROVE Goal
  <2>1. \A x \in Runs : KeptOrGone(x)
    BY <1>7, <1>t DEF Leave, KeptOrGone, TypeOK, Run
  <2> QED BY <1>7, <1>q, <2>1 DEF Leave
<1>8. ASSUME NEW r \in Runs, SkipFindings(r) PROVE Goal
  BY <1>8, <1>o, <1>q DEF SkipFindings, KeptOrGone, TypeOK
<1>9. ASSUME NEW r \in Runs, EvaluateFindings(r) PROVE Goal
  BY <1>9, <1>t, <1>q DEF EvaluateFindings, KeptOrGone, TypeOK, Run
<1>10. ASSUME NEW r \in Runs, Confirm(r) PROVE Goal
  <2>1. \A x \in Runs : KeptOrGone(x)
    BY <1>10, <1>t DEF Confirm, KeptOrGone, TypeOK, Run
  <2> QED BY <1>10, <1>q, <2>1 DEF Confirm
<1>11. ASSUME NEW r \in Runs, Deactivate(r) PROVE Goal
  BY <1>11, <1>t, <1>q DEF Deactivate, KeptOrGone, TypeOK, Run
<1>12. ASSUME NEW r \in Runs, Record(r) PROVE Goal
  BY <1>12, <1>o DEF Record, KeptOrGone, Quiet, TypeOK, evidence
<1>13. ASSUME NEW r \in Runs, Stop(r) PROVE Goal
  BY <1>13, <1>o DEF Stop, KeptOrGone, Quiet, TypeOK, evidence
<1>14. CASE UNCHANGED vars
  BY <1>14 DEF vars, evidence, Quiet, KeptOrGone
<1> QED BY <1>1, <1>2, <1>3, <1>4, <1>5, <1>6, <1>7, <1>8, <1>9, <1>10, <1>11, <1>12, <1>13,
           <1>14 DEF Next

\* A commit stamps a person at most Longest before it, and nobody else.
LEMMA StampRises ==
  ASSUME TypeOK, ClockInv, NEW p \in People, Replaced(p)
  PROVE  /\ \A x \in People : stamp[x] <= stamp'[x] /\ stamp'[x] <= now
         /\ now <= stamp'[p] + Longest
<1>1. PICK at \in began[p] .. now : stamp' = [stamp EXCEPT ![p] = IF at > @ THEN at ELSE @]
  BY DEF Replaced, Stamped
<1>2. /\ now \in Nat /\ at \in Nat /\ Longest \in Nat
      /\ \A x \in People : stamp[x] \in Nat /\ began[x] \in Nat /\ stamp[x] <= now
  BY SettleAssumption DEF TypeOK, ClockInv
<1>3. now <= began[p] + Longest
  BY DEF ClockInv, Replaced
<1>4. stamp'[p] = IF at > stamp[p] THEN at ELSE stamp[p]
  BY <1>1 DEF TypeOK
<1>5. \A x \in People : x # p => stamp'[x] = stamp[x]
  BY <1>1 DEF TypeOK
<1> QED BY <1>1, <1>2, <1>3, <1>4, <1>5

-----------------------------------------------------------------------------
(* The clock, what was read, and what is stored.                           *)

LEMMA ClockStep == TypeOK /\ ClockInv /\ TypeOK' /\ [Next]_vars => ClockInv'
<1> SUFFICES ASSUME TypeOK, ClockInv, TypeOK', [Next]_vars PROVE ClockInv'
  OBVIOUS
<1>n. Nobody \notin People
  BY NobodyAssumption DEF Nobody
<1>t. /\ now \in Nat /\ Longest \in Nat /\ Working \in Nat
      /\ \A x \in People : /\ stamp[x] \in Nat /\ began[x] \in Nat /\ class[x].at \in Nat
                           /\ \A s \in Snapshots : match[s][x].at \in Nat
      /\ \A x \in Runs : run[x] \in Run /\ run[x].since \in Nat
  <2>1. now \in Nat /\ Longest \in Nat /\ Working \in Nat
    BY SettleAssumption DEF TypeOK
  <2>2. \A x \in People : stamp[x] \in Nat /\ began[x] \in Nat /\ class[x].at \in Nat
    BY DEF TypeOK
  <2>3. \A x \in People, s \in Snapshots : match[s][x].at \in Nat
    BY DEF TypeOK
  <2>4. \A x \in Runs : run[x] \in Run /\ run[x].since \in Nat
    BY DEF TypeOK, Run
  <2> QED BY <2>1, <2>2, <2>3, <2>4
<1>1. ASSUME NEW p \in People, Begin(p) PROVE ClockInv'
  BY <1>1, <1>t DEF Begin, ClockInv, TypeOK
<1>2. ASSUME NEW p \in People, Replaced(p) PROVE ClockInv'
  <2>1. \A x \in People : stamp'[x] <= now'
    BY <1>2, StampRises DEF Replaced
  <2>2. \A x \in People : began'[x] # 0 => began'[x] <= now' /\ now' <= began'[x] + Longest
    BY <1>2, <1>t DEF Replaced, ClockInv, TypeOK
  <2>3. \A x \in Runs : run'[x].who = run[x].who /\ run'[x].since = run[x].since
    BY <1>2, <1>t DEF Replaced, Disturbed, Run
  <2> QED BY <1>2, <2>1, <2>2, <2>3 DEF Replaced, ClockInv
<1>3. CASE Tick
  BY <1>3, <1>t DEF Tick, evidence, ClockInv
<1>4. ASSUME NEW r \in Runs, WriteClassification(r) PROVE ClockInv'
  <2>1. PICK at \in run[r].since .. now, f \in run[r].saw :
          class' = [class EXCEPT ![run[r].who] = [at |-> at, political |-> f.political]]
    BY <1>4 DEF WriteClassification
  <2>2. \A x \in People : class'[x].at <= now
    BY <1>t, <2>1 DEF ClockInv, TypeOK
  <2>3. \A x \in Runs : run'[x].who = Nobody \/ run'[x] = run[x]
    BY <1>4, <1>t DEF WriteClassification, Done, TypeOK, Run
  <2> QED BY <1>4, <2>2, <2>3 DEF WriteClassification, ClockInv, evidence
<1>5. ASSUME NEW r \in Runs, WriteMatch(r) PROVE ClockInv'
  <2>1. PICK at \in run[r].since .. now, f \in run[r].saw :
          match' = [match EXCEPT ![run[r].list][run[r].who] =
                      [at |-> at, absent |-> Absent(f.name, run[r].list)]]
    BY <1>5 DEF WriteMatch
  <2>2. ASSUME NEW x \in People, NEW s \in Snapshots PROVE match'[s][x].at <= now
    <3>1. CASE s = run[r].list /\ x = run[r].who
      <4>1. match'[s][x].at = at
        BY <2>1, <3>1 DEF TypeOK
      <4> QED BY <1>t, <4>1
    <3>2. CASE ~(s = run[r].list /\ x = run[r].who)
      <4>1. match'[s][x] = match[s][x]
        BY <2>1, <3>2 DEF TypeOK
      <4> QED BY <4>1 DEF ClockInv
    <3> QED BY <3>1, <3>2
  <2>3. \A x \in Runs : run'[x].who = Nobody \/ run'[x] = run[x]
    BY <1>5, <1>t DEF WriteMatch, Done, TypeOK, Run
  <2> QED BY <1>5, <2>2, <2>3 DEF WriteMatch, ClockInv, evidence
<1>6. ASSUME NEW r \in Runs, NEW p \in People, Look(r, p) PROVE ClockInv'
  <2>1. run'[r].since = now /\ \A x \in Runs : x # r => run'[x] = run[x]
    BY <1>6, <1>t DEF Look, TypeOK, Run
  <2>2. now <= now + Working
    BY <1>t
  <2> QED BY <1>6, <1>t, <2>1, <2>2 DEF Look, OnlyRun, ClockInv, evidence
<1>7. CASE Quiet
  BY <1>7 DEF Quiet, KeptOrGone, ClockInv
<1> QED BY <1>1, <1>2, <1>3, <1>4, <1>5, <1>6, <1>7, Steps

LEMMA SawStep == TypeOK /\ ClockInv /\ SawInv /\ [Next]_vars => SawInv'
<1> SUFFICES ASSUME TypeOK, ClockInv, SawInv, [Next]_vars,
                    NEW x \in Runs, run'[x].who # Nobody, NEW f \in run'[x].saw
             PROVE  \/ f = facts'[run'[x].who]
                    \/ run'[x].since <= stamp'[run'[x].who] + Longest
  BY DEF SawInv
<1>t. /\ now \in Nat /\ Longest \in Nat
      /\ \A y \in People : stamp[y] \in Nat
      /\ \A y \in Runs : run[y] \in Run /\ run[y].since \in Nat
  BY SettleAssumption DEF TypeOK, Run
<1>k. ASSUME UNCHANGED <<facts, stamp>>, KeptOrGone(x)
      PROVE  \/ f = facts'[run'[x].who]
             \/ run'[x].since <= stamp'[run'[x].who] + Longest
  BY <1>k DEF KeptOrGone, SawInv
<1>1. ASSUME NEW p \in People, Begin(p)
      PROVE  \/ f = facts'[run'[x].who]
             \/ run'[x].since <= stamp'[run'[x].who] + Longest
  BY <1>1, <1>k DEF Begin, KeptOrGone
<1>2. ASSUME NEW p \in People, Replaced(p)
      PROVE  \/ f = facts'[run'[x].who]
             \/ run'[x].since <= stamp'[run'[x].who] + Longest
  <2>1. run'[x].who = run[x].who /\ run'[x].saw = run[x].saw /\ run'[x].since = run[x].since
    BY <1>2, <1>t DEF Replaced, Disturbed, Run
  <2>2. run[x].who \in People /\ run[x].since <= now
    BY <1>t, <2>1 DEF Run, ClockInv
  <2>3. \A y \in People : stamp'[y] \in Nat /\ stamp[y] <= stamp'[y]
    <3>1. PICK at \in began[p] .. now : stamp' = [stamp EXCEPT ![p] = IF at > @ THEN at ELSE @]
      BY <1>2 DEF Replaced, Stamped
    <3>2. at \in Nat
      BY <3>1 DEF TypeOK
    <3>3. stamp' \in [People -> Nat]
      BY <3>1, <3>2 DEF TypeOK
    <3> QED BY <1>2, <3>3, StampRises
  <2>4. CASE run[x].who = p
    <3>1. now <= stamp'[p] + Longest
      BY <1>2, StampRises
    <3> QED BY <1>t, <2>1, <2>2, <2>3, <2>4, <3>1
  <2>5. CASE run[x].who # p
    <3>1. facts'[run[x].who] = facts[run[x].who]
      BY <1>2, <2>2, <2>5 DEF Replaced
    <3>2. f = facts[run[x].who] \/ run[x].since <= stamp[run[x].who] + Longest
      BY <2>1 DEF SawInv
    <3> QED BY <1>t, <2>1, <2>2, <2>3, <3>1, <3>2
  <2> QED BY <2>4, <2>5
<1>3. CASE Tick
  BY <1>3, <1>k DEF Tick, evidence, KeptOrGone
<1>4. ASSUME NEW r \in Runs, WriteClassification(r) \/ WriteMatch(r)
      PROVE  \/ f = facts'[run'[x].who]
             \/ run'[x].since <= stamp'[run'[x].who] + Longest
  <2>1. Done(r)
    BY <1>4 DEF WriteClassification, WriteMatch
  <2>2. KeptOrGone(x)
    BY <1>t, <2>1 DEF Done, KeptOrGone, TypeOK, Run
  <2> QED BY <1>4, <1>k, <2>2 DEF WriteClassification, WriteMatch, evidence
<1>5. ASSUME NEW r \in Runs, NEW p \in People, Look(r, p)
      PROVE  \/ f = facts'[run'[x].who]
             \/ run'[x].since <= stamp'[run'[x].who] + Longest
  <2>1. CASE x = r
    <3>1. run'[x].who = p /\ run'[x].saw = {facts[p]}
      BY <1>5, <1>t, <2>1 DEF Look, TypeOK, Run
    <3> QED BY <1>5, <3>1 DEF Look, OnlyRun, evidence
  <2>2. CASE x # r
    BY <1>5, <1>k, <2>2 DEF Look, OnlyRun, evidence, KeptOrGone, TypeOK
  <2> QED BY <2>1, <2>2
<1>6. CASE Quiet
  BY <1>6, <1>k DEF Quiet
<1> QED BY <1>1, <1>2, <1>3, <1>4, <1>5, <1>6, Steps

LEMMA HoldsStep ==
  TypeOK /\ ClockInv /\ SawInv /\ HoldsInv /\ TypeOK' /\ [Next]_vars => HoldsInv'
<1> SUFFICES ASSUME TypeOK, ClockInv, SawInv, HoldsInv, TypeOK', [Next]_vars PROVE HoldsInv'
  OBVIOUS
<1>t. /\ now \in Nat /\ Longest \in Nat /\ Working \in Nat /\ Settle \in Nat
      /\ Longest + Working < Settle
      /\ \A x \in People : /\ stamp[x] \in Nat /\ stamp'[x] \in Nat /\ class[x].at \in Nat
                           /\ \A s \in Snapshots : match[s][x].at \in Nat
      /\ \A x \in Runs : run[x] \in Run /\ run[x].since \in Nat
  <2>1. /\ now \in Nat /\ Longest \in Nat /\ Working \in Nat /\ Settle \in Nat
        /\ Longest + Working < Settle
    BY SettleAssumption DEF TypeOK
  <2>2. \A x \in People : stamp[x] \in Nat /\ stamp'[x] \in Nat /\ class[x].at \in Nat
    BY DEF TypeOK
  <2>3. \A x \in People, s \in Snapshots : match[s][x].at \in Nat
    BY DEF TypeOK
  <2>4. \A x \in Runs : run[x] \in Run /\ run[x].since \in Nat
    BY DEF TypeOK, Run
  <2> QED BY <2>1, <2>2, <2>3, <2>4
<1>k. ASSUME UNCHANGED <<facts, stamp, class, match>> PROVE HoldsInv'
  BY <1>k DEF HoldsInv, Older, ClassificationHolds, MatchHolds
<1>l. ASSUME NEW r \in Runs, run[r].who # Nobody, NEW f \in run[r].saw,
             NEW at \in run[r].since .. now
      PROVE  \/ f = facts[run[r].who]
             \/ at < stamp[run[r].who] + Settle
  <2>1. f = facts[run[r].who] \/ run[r].since <= stamp[run[r].who] + Longest
    BY <1>l DEF SawInv
  <2>2. now <= run[r].since + Working /\ run[r].who \in People
    BY <1>l, <1>t DEF ClockInv, Run
  <2>3. at \in Nat /\ at <= now
    BY <1>t
  <2> QED BY <1>t, <2>1, <2>2, <2>3
<1>1. ASSUME NEW p \in People, Replaced(p) PROVE HoldsInv'
  <2> SUFFICES ASSUME NEW x \in People
               PROVE  /\ (Older(class[x].at, x) \/ ClassificationHolds(x))'
                      /\ \A s \in Snapshots : (Older(match[s][x].at, x) \/ MatchHolds(s, x))'
    BY DEF HoldsInv
  <2>1. stamp[x] <= stamp'[x] /\ now <= stamp'[p] + Longest
    BY <1>1, StampRises
  <2>2. class' = class /\ match' = match
    BY <1>1 DEF Replaced
  <2>3. CASE x = p
    <3>1. class[x].at <= now /\ \A s \in Snapshots : match[s][x].at <= now
      BY DEF ClockInv
    <3> QED BY <1>t, <2>1, <2>2, <2>3, <3>1 DEF Older
  <2>4. CASE x # p
    <3>1. facts'[x] = facts[x]
      BY <1>1, <2>4 DEF Replaced
    <3>2. (Older(class[x].at, x) \/ ClassificationHolds(x))'
      BY <1>t, <2>1, <2>2, <3>1 DEF HoldsInv, Older, ClassificationHolds
    <3>3. ASSUME NEW s \in Snapshots PROVE (Older(match[s][x].at, x) \/ MatchHolds(s, x))'
      BY <1>t, <2>1, <2>2, <3>1 DEF HoldsInv, Older, MatchHolds
    <3> QED BY <3>2, <3>3
  <2> QED BY <2>3, <2>4
<1>2. ASSUME NEW r \in Runs, WriteClassification(r) PROVE HoldsInv'
  <2>1. PICK at \in run[r].since .. now, f \in run[r].saw :
          class' = [class EXCEPT ![run[r].who] = [at |-> at, political |-> f.political]]
    BY <1>2 DEF WriteClassification
  <2>2. /\ run[r].who # Nobody
        /\ UNCHANGED <<facts, stamp, match>>
    BY <1>2 DEF WriteClassification, evidence
  <2>3. f = facts[run[r].who] \/ at < stamp[run[r].who] + Settle
    BY <1>l, <2>1, <2>2
  <2>4. ASSUME NEW x \in People PROVE (Older(class[x].at, x) \/ ClassificationHolds(x))'
    <3>1. CASE x = run[r].who
      <4>1. class'[x] = [at |-> at, political |-> f.political]
        BY <2>1, <3>1 DEF TypeOK
      <4> QED BY <2>2, <2>3, <3>1, <4>1 DEF Older, ClassificationHolds
    <3>2. CASE x # run[r].who
      <4>1. class'[x] = class[x]
        BY <2>1, <3>2 DEF TypeOK
      <4> QED BY <2>2, <4>1 DEF HoldsInv, Older, ClassificationHolds
    <3> QED BY <3>1, <3>2
  <2>5. \A x \in People, s \in Snapshots : (Older(match[s][x].at, x) \/ MatchHolds(s, x))'
    BY <2>2 DEF HoldsInv, Older, MatchHolds
  <2> QED BY <2>4, <2>5 DEF HoldsInv
<1>3. ASSUME NEW r \in Runs, WriteMatch(r) PROVE HoldsInv'
  <2>1. PICK at \in run[r].since .. now, f \in run[r].saw :
          match' = [match EXCEPT ![run[r].list][run[r].who] =
                      [at |-> at, absent |-> Absent(f.name, run[r].list)]]
    BY <1>3 DEF WriteMatch
  <2>2. /\ run[r].who # Nobody
        /\ UNCHANGED <<facts, stamp, class>>
    BY <1>3 DEF WriteMatch, evidence
  <2>3. f = facts[run[r].who] \/ at < stamp[run[r].who] + Settle
    BY <1>l, <2>1, <2>2
  <2>4. ASSUME NEW x \in People, NEW s \in Snapshots
        PROVE  (Older(match[s][x].at, x) \/ MatchHolds(s, x))'
    <3>1. CASE x = run[r].who /\ s = run[r].list
      <4>1. match'[s][x] = [at |-> at, absent |-> Absent(f.name, s)]
        BY <2>1, <3>1 DEF TypeOK
      <4> QED BY <2>2, <2>3, <3>1, <4>1 DEF Older, MatchHolds
    <3>2. CASE ~(x = run[r].who /\ s = run[r].list)
      <4>1. match'[s][x] = match[s][x]
        BY <2>1, <3>2 DEF TypeOK
      <4> QED BY <2>2, <4>1 DEF HoldsInv, Older, MatchHolds
    <3> QED BY <3>1, <3>2
  <2>5. \A x \in People : (Older(class[x].at, x) \/ ClassificationHolds(x))'
    BY <2>2 DEF HoldsInv, Older, ClassificationHolds
  <2> QED BY <2>4, <2>5 DEF HoldsInv
<1>4. ASSUME NEW p \in People, Begin(p) PROVE HoldsInv'
  BY <1>4, <1>k DEF Begin
<1>5. CASE Tick
  BY <1>5, <1>k DEF Tick, evidence
<1>6. ASSUME NEW r \in Runs, NEW p \in People, Look(r, p) PROVE HoldsInv'
  BY <1>6, <1>k DEF Look, OnlyRun, evidence
<1>7. CASE Quiet
  BY <1>7, <1>k DEF Quiet
<1> QED BY <1>1, <1>2, <1>3, <1>4, <1>5, <1>6, <1>7, Steps

\* In every run, a person whose stored classification or match is not what the committed
\* evidence gives is among those a later run selects, for any Settle longer than a
\* transaction and a person's turn together.
THEOREM SpecStaleIsPending == Spec => []StaleIsPending
<1>1. Init => IInv
  BY InvInit
<1>2. IInv /\ [Next]_vars => IInv'
  BY TypeStep, ClockStep, SawStep, HoldsStep DEF IInv
<1>3. IInv => StaleIsPending
  BY DEF IInv, HoldsInv, StaleIsPending, PendingClassification, PendingMatch
<1> QED BY <1>1, <1>2, <1>3, PTL DEF Spec

-----------------------------------------------------------------------------
(* One evaluation at a time.                                               *)

\* Whoever has deactivated what it misses has seen every finding that is active.
EvaluationInv ==
  /\ \A r, x \in Runs : run[r].stage = "findings" /\ run[r].inside
                          /\ run[x].stage = "findings" /\ run[x].inside => r = x
  /\ \A r \in Runs : run[r].step # "read" => run[r].stage = "findings" /\ run[r].inside
  /\ \A r \in Runs : Evaluating(r, "deactivated") =>
       \A p \in People : finding[p].active => p \in run[r].found \union run[r].doomed
  /\ FindingsOfOneEvaluation

\* Run x is where it was with its findings, or outside them with nothing begun.
SameOrOutside(x) ==
  \/ /\ run'[x].stage = run[x].stage /\ run'[x].inside = run[x].inside
     /\ run'[x].step = run[x].step /\ run'[x].found = run[x].found
     /\ run'[x].doomed = run[x].doomed
  \/ run'[x].step = "read" /\ ~(run'[x].stage = "findings" /\ run'[x].inside)

LEMMA EvaluationInit == Init => EvaluationInv
  BY DEF Init, EvaluationInv, Waiting, Evaluating, FindingsOfOneEvaluation, NoFinding

LEMMA EvaluationStep == TypeOK /\ EvaluationInv /\ [Next]_vars => EvaluationInv'
<1> SUFFICES ASSUME TypeOK, EvaluationInv, [Next]_vars PROVE EvaluationInv'
  OBVIOUS
<1>t. \A x \in Runs : run[x] \in Run
  BY DEF TypeOK
<1>v. Over.stage = "over" /\ Over.step = "read"
  BY DEF Over, Waiting
<1>s. ASSUME finding' = finding, \A x \in Runs : SameOrOutside(x) PROVE EvaluationInv'
  BY <1>s DEF SameOrOutside, EvaluationInv, Evaluating, FindingsOfOneEvaluation
<1>d. ASSUME run' = Disturbed PROVE \A x \in Runs : SameOrOutside(x)
  BY <1>d, <1>t DEF Disturbed, SameOrOutside, Run
<1>c. ASSUME NEW r \in Runs, run[r].stage # "findings", run'[r].step = run[r].step,
             run'[r].stage # "findings" \/ ~run'[r].inside,
             \A x \in Runs : x # r => run'[x] = run[x]
      PROVE  \A x \in Runs : SameOrOutside(x)
  BY <1>c DEF SameOrOutside, EvaluationInv
<1>1. ASSUME NEW p \in People, Begin(p) PROVE EvaluationInv'
  BY <1>1, <1>s DEF Begin, SameOrOutside
<1>2. ASSUME NEW p \in People, Commit(p) PROVE EvaluationInv'
  BY <1>2, <1>s, <1>d DEF Commit
<1>3. ASSUME NEW p \in People, NEW q \in People, Merge(p, q) PROVE EvaluationInv'
  BY <1>3, <1>s, <1>d DEF Merge
<1>4. CASE Import
  BY <1>4, <1>s, <1>d DEF Import
<1>5. CASE Tick
  BY <1>5, <1>s DEF Tick, SameOrOutside
<1>6. ASSUME NEW r \in Runs, Classify(r) PROVE EvaluationInv'
  <2>1. /\ run'[r].step = run[r].step /\ run'[r].stage = "classification"
        /\ \A x \in Runs : x # r => run'[x] = run[x]
    BY <1>6, <1>t DEF Classify, Enters, TypeOK, Run
  <2> QED BY <1>6, <1>s, <1>c, <2>1 DEF Classify, Enters, OnlyRun
<1>7. ASSUME NEW r \in Runs, MatchRosfinmonitoring(r) PROVE EvaluationInv'
  <2>1. CASE lists = 0
    <3>1. run' = [run EXCEPT ![r] = [run[r] EXCEPT !.stage = "findings"]] /\ ~run[r].inside
      BY <1>7, <2>1 DEF MatchRosfinmonitoring, Enters
    <3>2. /\ run'[r].step = run[r].step /\ ~run'[r].inside
          /\ \A x \in Runs : x # r => run'[x] = run[x]
      BY <1>t, <3>1 DEF TypeOK, Run
    <3> QED BY <1>7, <1>s, <1>c, <3>2 DEF MatchRosfinmonitoring, Enters, OnlyRun
  <2>2. CASE lists # 0
    <3>1. /\ run' = [run EXCEPT ![r] = [run[r] EXCEPT !.inside = TRUE, !.list = lists,
                                                     !.todo = PendingMatch(lists)]]
          /\ run[r].stage = "rf_matching"
      BY <1>7, <2>2 DEF MatchRosfinmonitoring, Enters
    <3>2. /\ run'[r].step = run[r].step /\ run'[r].stage = "rf_matching"
          /\ \A x \in Runs : x # r => run'[x] = run[x]
      BY <1>t, <3>1 DEF TypeOK, Run
    <3> QED BY <1>7, <1>s, <1>c, <3>2 DEF MatchRosfinmonitoring, Enters, OnlyRun
  <2> QED BY <2>1, <2>2
<1>8. ASSUME NEW r \in Runs, NEW p \in People, Look(r, p) PROVE EvaluationInv'
  <2>1. \A x \in Runs : SameOrOutside(x)
    BY <1>8, <1>t DEF Look, SameOrOutside, TypeOK, Run
  <2> QED BY <1>8, <1>s, <2>1 DEF Look, OnlyRun
<1>9. ASSUME NEW r \in Runs, WriteClassification(r) \/ WriteMatch(r) PROVE EvaluationInv'
  <2>1. Done(r) /\ finding' = finding
    BY <1>9 DEF WriteClassification, WriteMatch
  <2>2. \A x \in Runs : SameOrOutside(x)
    BY <1>t, <2>1 DEF Done, SameOrOutside, TypeOK, Run
  <2> QED BY <1>s, <2>1, <2>2
<1>10. ASSUME NEW r \in Runs, Fail(r) PROVE EvaluationInv'
  <2>1. \A x \in Runs : SameOrOutside(x)
    BY <1>10, <1>t DEF Fail, SameOrOutside, TypeOK, Run
  <2> QED BY <1>10, <1>s, <2>1 DEF Fail
<1>11. ASSUME NEW r \in Runs, Leave(r) PROVE EvaluationInv'
  <2>1. /\ run'[r].step = run[r].step /\ ~run'[r].inside
        /\ \A x \in Runs : x # r => run'[x] = run[x]
    BY <1>11, <1>t DEF Leave, TypeOK, Run
  <2> QED BY <1>11, <1>s, <1>c, <2>1 DEF Leave, InPeople, OnlyRun
<1>12. ASSUME NEW r \in Runs, SkipFindings(r) PROVE EvaluationInv'
  BY <1>12, <1>s, <1>v DEF SkipFindings, SameOrOutside, OnlyRun, TypeOK
<1>13. ASSUME NEW r \in Runs, EvaluateFindings(r) PROVE EvaluationInv'
  <2>1. /\ run'[r].stage = "findings" /\ run'[r].step = run[r].step
        /\ run[r].step = "read"
        /\ \A x \in Runs : x # r => run'[x] = run[x]
        /\ finding' = finding
    BY <1>13, <1>t DEF EvaluateFindings, Enters, OnlyRun, EvaluationInv, TypeOK, Run
  <2>2. \A x \in Runs : x # r => ~(run[x].stage = "findings" /\ run[x].inside)
    BY <1>13 DEF EvaluateFindings, Enters, Free
  <2>3. run'[r].inside
    BY <1>13, <1>t DEF EvaluateFindings, TypeOK, Run
  <2> QED BY <2>1, <2>2, <2>3 DEF EvaluationInv, Evaluating, FindingsOfOneEvaluation
<1>14. ASSUME NEW r \in Runs, Confirm(r) PROVE EvaluationInv'
  <2>1. /\ run'[r].stage = "findings" /\ run'[r].inside /\ run'[r].step = "confirmed"
        /\ \A x \in Runs : x # r => run'[x] = run[x]
    BY <1>14, <1>t DEF Confirm, Evaluating, TypeOK, Run
  <2> QED BY <1>14, <2>1 DEF Confirm, OnlyRun, EvaluationInv, Evaluating,
                             FindingsOfOneEvaluation
<1>15. ASSUME NEW r \in Runs, Deactivate(r) PROVE EvaluationInv'
  <2>1. /\ run'[r].stage = "findings" /\ run'[r].inside /\ run'[r].step = "deactivated"
        /\ run'[r].found = run[r].found /\ run'[r].doomed = Missing(r)
        /\ \A x \in Runs : x # r => run'[x] = run[x]
    BY <1>15, <1>t DEF Deactivate, Evaluating, TypeOK, Run
  <2>2. \A p \in People : finding[p].active => p \in run'[r].found \union run'[r].doomed
    BY <2>1 DEF Missing
  <2>3. finding' = finding
    BY <1>15 DEF Deactivate, OnlyRun
  <2>4. \A x \in Runs : x # r => ~Evaluating(x, "deactivated")
    BY <1>15 DEF Deactivate, Evaluating, EvaluationInv
  <2> QED BY <1>15, <2>1, <2>2, <2>3, <2>4 DEF Deactivate, EvaluationInv, Evaluating,
                                             FindingsOfOneEvaluation
<1>16. ASSUME NEW r \in Runs, Record(r) PROVE EvaluationInv'
  <2>1. \A p \in People : finding[p].active => p \in run[r].found \union run[r].doomed
    BY <1>16 DEF Record, EvaluationInv
  <2>2. \A p \in People : finding'[p].active => p \in run[r].found
    BY <1>16, <2>1 DEF Record, TypeOK
  <2>3. \A p \in run[r].found : finding'[p] = [active |-> TRUE, by |-> {r},
                                               list |-> run[r].list]
    BY <1>16 DEF Record, TypeOK, Run
  <2>4. FindingsOfOneEvaluation'
    BY <2>2, <2>3 DEF FindingsOfOneEvaluation
  <2>5. run'[r] = Over /\ \A x \in Runs : x # r => run'[x] = run[x]
    BY <1>16 DEF Record, TypeOK
  <2>6. \A x \in Runs : x # r => ~(run[x].stage = "findings" /\ run[x].inside)
    BY <1>16 DEF Record, Evaluating, EvaluationInv
  <2> QED BY <1>v, <2>4, <2>5, <2>6 DEF EvaluationInv, Evaluating
<1>17. ASSUME NEW r \in Runs, Stop(r) PROVE EvaluationInv'
  BY <1>17, <1>s, <1>v DEF Stop, SameOrOutside, TypeOK
<1>18. CASE UNCHANGED vars
  BY <1>18, <1>s DEF vars, SameOrOutside
<1> QED BY <1>1, <1>2, <1>3, <1>4, <1>5, <1>6, <1>7, <1>8, <1>9, <1>10, <1>11, <1>12, <1>13,
           <1>14, <1>15, <1>16, <1>17, <1>18 DEF Next

\* In every run, the active findings all come from one evaluation against one snapshot:
\* the lock of the findings keeps two of them apart, and each deactivates all it did not
\* find before it records what it did.
THEOREM SpecFindingsOfOneEvaluation == Spec => []FindingsOfOneEvaluation
<1> DEFINE Inv == TypeOK /\ EvaluationInv
<1>1. Init => Inv
  BY TypeInit, EvaluationInit
<1>2. Inv /\ [Next]_vars => Inv'
  BY TypeStep, EvaluationStep
<1>3. Inv => FindingsOfOneEvaluation
  BY DEF EvaluationInv
<1> HIDE DEF Inv
<1> QED BY <1>1, <1>2, <1>3, PTL DEF Spec
-----------------------------------------------------------------------------
(* One run is enough.                                                      *)

\* Where a run can be: the people's turns are inside the stages, a snapshot is chosen on
\* entering the matching, and two runs are never inside one stage.
Place(r) ==
  /\ run[r].who # Nobody => InPeople(r) /\ run[r].since # 0
  /\ run[r].stage = "classification" => run[r].list = 0
  /\ run[r].stage = "rf_matching" => (run[r].list # 0 <=> run[r].inside)
  /\ run[r].stage = "findings" /\ run[r].inside => run[r].list # 0
  /\ run[r].stage = "classification" /\ run[r].calm => run[r].inside
  /\ run[r].stage = "over" => ~run[r].calm

PlacesInv ==
  /\ now # 0
  /\ \A r \in Runs : Place(r)
  /\ \A r, x \in Runs :
       run[r].inside /\ run[x].inside /\ run[r].stage = run[x].stage => r = x

\* What a run has read of a person is what the evidence still says.
SawFresh(x) == run[x].who # Nobody => run[x].saw \subseteq {facts[run[x].who]}

ClassGood(p) == class[p].at # Never /\ ClassificationHolds(p)
MatchGood(s, p) == match[s][p].at # Never /\ MatchHolds(s, p)
Ahead(r) == run[r].todo \union {run[r].who}

\* Whoever may still write to a stage that a calm run has left read after it had started.
CalmRead(r) ==
  /\ SawFresh(r)
  /\ run[r].stage # "classification" =>
       \A x \in Runs : run[x].stage = "classification" => SawFresh(x)
  /\ run[r].stage = "findings" => \A x \in Runs : run[x].stage = "rf_matching" => SawFresh(x)

\* The people a calm run has behind it are classified and matched as they are.
CalmClass(r) ==
  \A p \in People : Active(p) =>
    ClassGood(p) \/ (run[r].stage = "classification" /\ p \in Ahead(r))

CalmMatch(r) ==
  run[r].list # 0 =>
    /\ run[r].list = lists
    /\ \A p \in People : Active(p) =>
         MatchGood(run[r].list, p) \/ (run[r].stage = "rf_matching" /\ p \in Ahead(r))

CalmFound(r) ==
  run[r].stage = "findings" /\ run[r].inside =>
    IF run[r].step = "read"
      THEN \A p \in People : Active(p) => (p \in run[r].found <=> facts[p].political)
      ELSE run[r].found = Wanted

Calm(r) == CalmRead(r) /\ CalmClass(r) /\ CalmMatch(r) /\ CalmFound(r)

CalmInv == \A r \in Runs : run[r].calm => Calm(r)

\* The facts of TypeOK that the steps below rest on.
LEMMA Records ==
  ASSUME TypeOK
  PROVE  /\ \A r \in Runs : run[r] \in Run
         /\ Nobody \notin People
BY NobodyAssumption DEF TypeOK, Nobody

\* What the steps of one run do to it.
LookDone(r, p) ==
  /\ run[r].who = Nobody /\ p \in run[r].todo /\ InPeople(r)
  /\ run'[r].who = p /\ run'[r].todo = run[r].todo \ {p}
  /\ run'[r].saw = {facts[p]} /\ run'[r].since = now
  /\ run'[r].stage = run[r].stage /\ run'[r].inside = run[r].inside
  /\ run'[r].list = run[r].list /\ run'[r].step = run[r].step
  /\ run'[r].found = run[r].found /\ run'[r].calm = run[r].calm

\* A turn ends, with the result written or not.
TurnEnds(r) ==
  /\ run'[r].who = Nobody /\ run'[r].todo = run[r].todo /\ run'[r].saw = {}
  /\ run'[r].stage = run[r].stage /\ run'[r].inside = run[r].inside
  /\ run'[r].list = run[r].list /\ run'[r].step = run[r].step
  /\ run'[r].found = run[r].found

\* A run that has nobody in its turn keeps it so.
NoTurn(r) ==
  /\ run'[r].who = run[r].who /\ run'[r].saw = run[r].saw /\ run'[r].since = run[r].since

ToFindings(r) ==
  /\ NoTurn(r) /\ run'[r].stage = "findings" /\ ~run'[r].inside
  /\ run'[r].list = run[r].list /\ run'[r].step = run[r].step /\ run'[r].calm = run[r].calm

Others(r) == \A x \in Runs \ {r} : run'[x] = run[x]

LEMMA ClassifyDoes ==
  ASSUME TypeOK, NEW r \in Runs, Classify(r)
  PROVE  /\ NoTurn(r) /\ Others(r) /\ OnlyRun
         /\ run[r].stage = "classification" /\ ~run[r].inside
         /\ run'[r].stage = "classification" /\ run'[r].inside
         /\ run'[r].todo = PendingClassification /\ run'[r].calm
         /\ run'[r].list = run[r].list /\ run'[r].step = run[r].step
         /\ \A x \in Runs : run[x].stage = "classification" => ~run[x].inside
<1>1. run' = [run EXCEPT ![r] = [run[r] EXCEPT !.inside = TRUE, !.todo = PendingClassification,
                                               !.calm = TRUE]]
  BY Zenon DEF Classify
<1>2. run[r] \in Run
  BY Records
<1>3. Enters(r, "classification") /\ OnlyRun
  BY DEF Classify
<1> QED BY <1>1, <1>2, <1>3 DEF TypeOK, Run, NoTurn, Others, Enters, Free

LEMMA MatchDoes ==
  ASSUME TypeOK, NEW r \in Runs, MatchRosfinmonitoring(r)
  PROVE  /\ NoTurn(r) /\ Others(r) /\ OnlyRun
         /\ run[r].stage = "rf_matching" /\ ~run[r].inside
         /\ run'[r].step = run[r].step /\ run'[r].calm = run[r].calm
         /\ \/ lists = 0 /\ ToFindings(r)
            \/ /\ lists # 0 /\ run'[r].stage = "rf_matching" /\ run'[r].inside
               /\ run'[r].list = lists /\ run'[r].todo = PendingMatch(lists)
         /\ \A x \in Runs : run[x].stage = "rf_matching" => ~run[x].inside
<1>1. run[r] \in Run
  BY Records
<1>2. Enters(r, "rf_matching") /\ OnlyRun
  BY DEF MatchRosfinmonitoring
<1>3. CASE lists = 0
  <2>1. run' = [run EXCEPT ![r] = [run[r] EXCEPT !.stage = "findings"]]
    BY <1>3 DEF MatchRosfinmonitoring
  <2> QED BY <1>1, <1>2, <1>3, <2>1 DEF TypeOK, Run, NoTurn, Others, ToFindings, Enters, Free
<1>4. CASE lists # 0
  <2>1. run' = [run EXCEPT ![r] = [run[r] EXCEPT !.inside = TRUE, !.list = lists,
                                                 !.todo = PendingMatch(lists)]]
    BY <1>4 DEF MatchRosfinmonitoring
  <2> QED BY <1>1, <1>2, <1>4, <2>1 DEF TypeOK, Run, NoTurn, Others, Enters, Free
<1> QED BY <1>3, <1>4

LEMMA LookDoes ==
  ASSUME TypeOK, NEW r \in Runs, NEW p \in People, Look(r, p)
  PROVE  LookDone(r, p) /\ Others(r) /\ OnlyRun
<1>1. run' = [run EXCEPT ![r] = [run[r] EXCEPT !.who = p, !.todo = run[r].todo \ {p},
                                               !.saw = {facts[p]}, !.since = now]]
  BY Zenon DEF Look
<1>2. run[r] \in Run
  BY Records
<1>3. InPeople(r) /\ run[r].who = Nobody /\ p \in run[r].todo /\ OnlyRun
  BY DEF Look
<1> QED BY <1>1, <1>2, <1>3 DEF TypeOK, Run, LookDone, Others

LEMMA DoneDoes ==
  ASSUME TypeOK, NEW r \in Runs, Done(r)
  PROVE  TurnEnds(r) /\ Others(r) /\ run'[r].calm = run[r].calm
<1>1. run[r] \in Run
  BY Records
<1> QED BY <1>1 DEF Done, TypeOK, Run, TurnEnds, Others

LEMMA FailDoes ==
  ASSUME TypeOK, NEW r \in Runs, Fail(r)
  PROVE  /\ TurnEnds(r) /\ Others(r) /\ ~run'[r].calm
         /\ UNCHANGED <<now, evidence, lists, class, match, finding>>
<1>1. run[r] \in Run
  BY Records
<1> QED BY <1>1 DEF Fail, TypeOK, Run, TurnEnds, Others

LEMMA LeaveDoes ==
  ASSUME TypeOK, NEW r \in Runs, Leave(r)
  PROVE  /\ Others(r) /\ OnlyRun /\ NoTurn(r)
         /\ run[r].inside /\ run[r].todo = {} /\ run[r].who = Nobody
         /\ run'[r].calm = run[r].calm /\ run'[r].list = run[r].list /\ ~run'[r].inside
         /\ run'[r].step = run[r].step
         /\ \/ run[r].stage = "classification" /\ run'[r].stage = "rf_matching"
            \/ run[r].stage = "rf_matching" /\ run'[r].stage = "findings"
<1>1. run' = [run EXCEPT ![r] = [run[r] EXCEPT !.inside = FALSE,
               !.stage = IF run[r].stage = "classification" THEN "rf_matching" ELSE "findings"]]
  BY Zenon DEF Leave
<1>2. run[r] \in Run
  BY Records
<1>3. InPeople(r) /\ run[r].todo = {} /\ run[r].who = Nobody /\ OnlyRun
  BY DEF Leave
<1> QED BY <1>1, <1>2, <1>3 DEF TypeOK, Run, InPeople, Others, NoTurn

LEMMA EvaluateDoes ==
  ASSUME TypeOK, NEW r \in Runs, EvaluateFindings(r)
  PROVE  /\ Others(r) /\ OnlyRun /\ NoTurn(r)
         /\ run[r].stage = "findings" /\ ~run[r].inside /\ run[r].list # 0
         /\ run'[r].stage = "findings" /\ run'[r].inside
         /\ run'[r].calm = run[r].calm /\ run'[r].list = run[r].list
         /\ run'[r].step = run[r].step
         /\ run'[r].found = {p \in People : class[p].at # Never /\ class[p].political}
         /\ \A x \in Runs : run[x].stage = "findings" => ~run[x].inside
<1> DEFINE F == {p \in People : class[p].at # Never /\ class[p].political}
<1>1. run' = [run EXCEPT ![r] = [run[r] EXCEPT !.inside = TRUE, !.found = F]]
  BY Zenon DEF EvaluateFindings
<1>2. run[r] \in Run
  BY Records
<1>3. Enters(r, "findings") /\ run[r].list # 0 /\ OnlyRun
  BY DEF EvaluateFindings
<1> HIDE DEF F
<1>4. /\ Others(r) /\ NoTurn(r)
      /\ run'[r].stage = run[r].stage /\ run'[r].inside
      /\ run'[r].calm = run[r].calm /\ run'[r].list = run[r].list
      /\ run'[r].step = run[r].step /\ run'[r].found = F
  BY <1>1, <1>2 DEF TypeOK, Run, Others, NoTurn
<1> QED BY <1>3, <1>4 DEF Enters, Free, F

LEMMA ConfirmDoes ==
  ASSUME TypeOK, NEW r \in Runs, Confirm(r)
  PROVE  /\ Others(r) /\ OnlyRun /\ NoTurn(r) /\ Evaluating(r, "read")
         /\ run'[r].stage = run[r].stage /\ run'[r].inside = run[r].inside
         /\ run'[r].calm = run[r].calm /\ run'[r].list = run[r].list
         /\ run'[r].step = "confirmed"
         /\ run'[r].found = {p \in run[r].found : /\ Active(p)
                                                  /\ match[run[r].list][p].at # Never
                                                  /\ match[run[r].list][p].absent}
<1> DEFINE F == {p \in run[r].found : /\ Active(p)
                                      /\ match[run[r].list][p].at # Never
                                      /\ match[run[r].list][p].absent}
<1>1. run' = [run EXCEPT ![r] = [run[r] EXCEPT !.step = "confirmed", !.found = F]]
  BY Zenon DEF Confirm
<1>2. run[r] \in Run
  BY Records
<1>3. Evaluating(r, "read") /\ OnlyRun
  BY DEF Confirm
<1> HIDE DEF F
<1>4. /\ Others(r) /\ NoTurn(r)
      /\ run'[r].stage = run[r].stage /\ run'[r].inside = run[r].inside
      /\ run'[r].calm = run[r].calm /\ run'[r].list = run[r].list
      /\ run'[r].step = "confirmed" /\ run'[r].found = F
  BY <1>1, <1>2 DEF TypeOK, Run, Others, NoTurn
<1> QED BY <1>3, <1>4 DEF F

LEMMA DeactivateDoes ==
  ASSUME TypeOK, NEW r \in Runs, Deactivate(r)
  PROVE  /\ Others(r) /\ OnlyRun /\ NoTurn(r) /\ Evaluating(r, "confirmed")
         /\ run'[r].stage = run[r].stage /\ run'[r].inside = run[r].inside
         /\ run'[r].calm = run[r].calm /\ run'[r].list = run[r].list
         /\ run'[r].step = "deactivated" /\ run'[r].found = run[r].found
<1>1. run[r] \in Run
  BY Records
<1> QED BY <1>1 DEF Deactivate, TypeOK, Run, Others, NoTurn

LEMMA OverDoes ==
  ASSUME TypeOK, NEW r \in Runs, SkipFindings(r) \/ Record(r) \/ Stop(r)
  PROVE  /\ Others(r) /\ run'[r] = Over
         /\ UNCHANGED <<now, evidence, lists, class, match>>
BY DEF SkipFindings, Record, Stop, OnlyRun, TypeOK, Others

LEMMA OverIsOutside ==
  /\ Over.stage = "over" /\ Over.who = Nobody /\ ~Over.inside /\ Over.list = 0
  /\ ~Over.calm /\ Over.saw = {} /\ Over.step = "read"
BY DEF Over, Waiting

-----------------------------------------------------------------------------
(* Where the runs are.                                                     *)

LEMMA PlacesInit == Init => PlacesInv
<1> SUFFICES ASSUME Init PROVE PlacesInv
  OBVIOUS
<1>1. now # 0
  BY SettleAssumption DEF Init
<1> QED BY <1>1 DEF Init, PlacesInv, Place, Waiting

LEMMA PlacesStep == TypeOK /\ PlacesInv /\ [Next]_vars => PlacesInv'
<1> SUFFICES ASSUME TypeOK, PlacesInv, [Next]_vars PROVE PlacesInv'
  OBVIOUS
<1>t. now \in Nat /\ \A x \in Runs : run[x] \in Run
  BY DEF TypeOK
<1>p. \A x \in Runs : Place(x)
  BY DEF PlacesInv
<1>n. ASSUME NEW r \in Runs, Place(r)', Others(r), now' = now,
             \/ ~run'[r].inside
             \/ run[r].inside /\ run'[r].stage = run[r].stage
             \/ \A x \in Runs : run[x].stage = run'[r].stage => ~run[x].inside
      PROVE  PlacesInv'
  <2>1. \A x \in Runs \ {r} : run'[x] = run[x]
    BY <1>n DEF Others
  <2>2. \A x \in Runs \ {r} : Place(x)'
    BY <1>p, <2>1 DEF Place, InPeople
  <2> QED BY <1>n, <2>1, <2>2 DEF PlacesInv
<1>d. ASSUME run' = Disturbed, now' = now PROVE PlacesInv'
  BY <1>d, <1>t DEF Disturbed, PlacesInv, Place, InPeople, Run
<1>1. ASSUME NEW p \in People, Begin(p) \/ Commit(p) PROVE PlacesInv'
  BY <1>1, <1>d DEF Begin, Commit, PlacesInv, Place, InPeople
<1>2. ASSUME NEW p \in People, NEW q \in People, Merge(p, q) PROVE PlacesInv'
  BY <1>2, <1>d DEF Merge
<1>3. CASE Import
  BY <1>3, <1>d DEF Import
<1>4. CASE Tick
  BY <1>4, <1>t DEF Tick, PlacesInv, Place, InPeople
<1>5. ASSUME NEW r \in Runs, Classify(r) PROVE PlacesInv'
  <2>1. ~InPeople(r)
    BY <1>5, ClassifyDoes DEF InPeople
  <2>2. run'[r].who = Nobody
    BY <1>5, <1>p, <2>1, ClassifyDoes DEF Place, NoTurn
  <2>3. now' = now /\ run'[r].list = 0
    BY <1>5, <1>p, ClassifyDoes DEF OnlyRun, Place
  <2>4. Place(r)'
    BY <1>5, <2>2, <2>3, ClassifyDoes DEF Place
  <2>5. Others(r) /\ \A x \in Runs : run[x].stage = run'[r].stage => ~run[x].inside
    BY <1>5, ClassifyDoes
  <2> QED BY <1>n, <2>3, <2>4, <2>5
<1>6. ASSUME NEW r \in Runs, MatchRosfinmonitoring(r) PROVE PlacesInv'
  <2>1. run[r].who = Nobody
    BY <1>6, <1>p, MatchDoes DEF InPeople, Place
  <2>2. now' = now /\ run'[r].who = Nobody
    BY <1>6, <2>1, MatchDoes DEF OnlyRun, NoTurn
  <2>3. Place(r)'
    BY <1>6, <2>2, MatchDoes DEF ToFindings, Place
  <2>4. /\ Others(r)
        /\ \/ ~run'[r].inside
           \/ \A x \in Runs : run[x].stage = run'[r].stage => ~run[x].inside
    BY <1>6, MatchDoes DEF ToFindings
  <2> QED BY <1>n, <2>2, <2>3, <2>4
<1>7. ASSUME NEW r \in Runs, NEW p \in People, Look(r, p) PROVE PlacesInv'
  <2>1. LookDone(r, p) /\ Others(r) /\ now' = now
    BY <1>7, LookDoes DEF OnlyRun
  <2>2. Place(r)'
    BY <1>p, <2>1 DEF LookDone, InPeople, Place, PlacesInv
  <2> QED BY <1>n, <2>1, <2>2 DEF LookDone, InPeople
<1>8. ASSUME NEW r \in Runs, WriteClassification(r) \/ WriteMatch(r) \/ Fail(r) PROVE PlacesInv'
  <2>1. TurnEnds(r) /\ Others(r) /\ now' = now /\ (run'[r].calm => run[r].calm)
    BY <1>8, DoneDoes, FailDoes DEF WriteClassification, WriteMatch
  <2>2. Place(r)'
    BY <1>p, <2>1 DEF TurnEnds, Place
  <2> QED BY <1>n, <2>1, <2>2 DEF TurnEnds
<1>9. ASSUME NEW r \in Runs, Leave(r) PROVE PlacesInv'
  <2>1. now' = now /\ run'[r].who = Nobody
    BY <1>9, LeaveDoes DEF OnlyRun, NoTurn
  <2>2. Place(r)'
    BY <1>9, <1>p, <2>1, LeaveDoes DEF Place
  <2>3. Others(r) /\ ~run'[r].inside
    BY <1>9, LeaveDoes
  <2> QED BY <1>n, <2>1, <2>2, <2>3
<1>10. ASSUME NEW r \in Runs, EvaluateFindings(r) PROVE PlacesInv'
  <2>1. now' = now /\ run[r].who = Nobody
    BY <1>10, <1>p, EvaluateDoes DEF OnlyRun, Place, InPeople
  <2>2. Place(r)'
    BY <1>10, <2>1, EvaluateDoes DEF NoTurn, Place
  <2>3. Others(r) /\ \A x \in Runs : run[x].stage = run'[r].stage => ~run[x].inside
    BY <1>10, EvaluateDoes
  <2> QED BY <1>n, <2>1, <2>2, <2>3
<1>11. ASSUME NEW r \in Runs, Confirm(r) \/ Deactivate(r) PROVE PlacesInv'
  <2>1. /\ Others(r) /\ NoTurn(r) /\ now' = now /\ run[r].stage = "findings" /\ run[r].inside
        /\ run'[r].stage = "findings" /\ run'[r].inside /\ run'[r].list = run[r].list
    BY <1>11, ConfirmDoes, DeactivateDoes DEF OnlyRun, Evaluating
  <2>2. Place(r)'
    BY <1>p, <2>1 DEF Place, InPeople, NoTurn
  <2> QED BY <1>n, <2>1, <2>2
<1>12. ASSUME NEW r \in Runs, SkipFindings(r) \/ Record(r) \/ Stop(r) PROVE PlacesInv'
  <2>1. Others(r) /\ run'[r] = Over /\ now' = now
    BY <1>12, OverDoes
  <2>2. Place(r)'
    BY <2>1, OverIsOutside DEF Place
  <2> QED BY <1>n, <2>1, <2>2, OverIsOutside
<1>13. CASE UNCHANGED vars
  BY <1>13 DEF vars, evidence, PlacesInv, Place, InPeople
<1> QED BY <1>1, <1>2, <1>3, <1>4, <1>5, <1>6, <1>7, <1>8, <1>9, <1>10, <1>11, <1>12, <1>13
        DEF Next

-----------------------------------------------------------------------------
(* What a calm run has behind it.                                          *)

\* Person p's classification is as it was, or what run a read of p was written.
ClassWritten(a, p) ==
  \/ class'[p] = class[p]
  \/ /\ run[a].stage = "classification" /\ run[a].who = p /\ class'[p].at # Never
     /\ \E f \in run[a].saw : class'[p].political = f.political

MatchWritten(a, s, p) ==
  \/ match'[s][p] = match[s][p]
  \/ /\ run[a].stage = "rf_matching" /\ run[a].who = p /\ s = run[a].list
     /\ match'[s][p].at # Never
     /\ \E f \in run[a].saw : match'[s][p].absent = Absent(f.name, s)

\* A step of run a.
StepOf(a) ==
  /\ Others(a) /\ UNCHANGED <<now, facts, status, lists>>
  /\ \A p \in People : ClassWritten(a, p) /\ \A s \in Snapshots : MatchWritten(a, s, p)
  /\ \/ run'[a].who = Nobody
     \/ /\ run'[a].stage = run[a].stage
        /\ SawFresh(a)' \/ (run'[a].who = run[a].who /\ run'[a].saw = run[a].saw)

\* A step of one run leaves what the others have behind them.
LEMMA OthersStayCalm ==
  ASSUME TypeOK, PlacesInv, CalmInv, NEW a \in Runs, StepOf(a),
         NEW r \in Runs \ {a}, run'[r].calm
  PROVE  Calm(r)'
<1> USE DEF StepOf
<1>1. run'[r] = run[r] /\ run[r].calm /\ run[r] \in Run
  BY Records DEF Others
<1>2. Calm(r)
  BY <1>1 DEF CalmInv
<1>3. facts' = facts /\ status' = status /\ lists' = lists /\ Wanted' = Wanted
  BY DEF Wanted, Active
<1>4. ASSUME NEW x \in Runs, SawFresh(x), x # a \/ run'[a].stage = run[a].stage \/ run'[a].who = Nobody
      PROVE  SawFresh(x)'
  BY <1>3, <1>4 DEF SawFresh, Others
<1>5. CalmRead(r)'
  <2>1. SawFresh(r)'
    BY <1>1, <1>2, <1>4 DEF Calm, CalmRead
  <2>2. ASSUME NEW x \in Runs, NEW g \in {"classification", "rf_matching"},
               run[x].stage = g => SawFresh(x), run'[x].stage = g
        PROVE  SawFresh(x)'
    <3>1. CASE x # a
      BY <2>2, <3>1, <1>4 DEF Others
    <3>2. CASE x = a /\ run'[a].who = Nobody
      BY <3>2 DEF SawFresh
    <3>3. CASE x = a /\ run'[a].stage = run[a].stage
      BY <2>2, <3>3, <1>4
    <3> QED BY <3>1, <3>2, <3>3
  <2> QED BY <1>1, <1>2, <2>1, <2>2 DEF Calm, CalmRead
<1>6. CalmClass(r)'
  <2> SUFFICES ASSUME NEW p \in People, status[p] = "active"
               PROVE  (ClassGood(p) \/ (run[r].stage = "classification" /\ p \in Ahead(r)))'
    BY <1>3 DEF CalmClass, Active
  <2>1. CASE class'[p] = class[p]
    BY <1>1, <1>2, <1>3, <2>1 DEF Calm, CalmClass, ClassGood, ClassificationHolds, Ahead, Active
  <2>2. CASE class'[p] # class[p]
    <3>1. /\ run[a].stage = "classification" /\ run[a].who = p /\ class'[p].at # Never
          /\ \E f \in run[a].saw : class'[p].political = f.political
      BY <2>2 DEF ClassWritten
    <3>2. run[a].inside /\ p # Nobody
      BY <3>1, Records DEF PlacesInv, Place, InPeople
    <3>3. run[r].stage # "classification"
      BY <1>1, <3>1, <3>2 DEF PlacesInv, Place
    <3>4. SawFresh(a)
      BY <1>2, <3>1, <3>3 DEF Calm, CalmRead
    <3>5. class'[p].political = facts[p].political
      BY <3>1, <3>2, <3>4 DEF SawFresh
    <3> QED BY <1>3, <3>1, <3>5 DEF ClassGood, ClassificationHolds
  <2> QED BY <2>1, <2>2
<1>7. CalmMatch(r)'
  <2>1. CASE run[r].list = 0
    BY <1>1, <2>1 DEF CalmMatch
  <2>2. CASE run[r].list # 0
    <3> DEFINE s == run[r].list
    <3>1. s = lists /\ s \in Snapshots
      BY <1>1, <1>2, <2>2, ListsAssumption DEF Calm, CalmMatch, Run, Snapshots
    <3>2. ASSUME NEW p \in People, status[p] = "active"
          PROVE  (MatchGood(run[r].list, p) \/ (run[r].stage = "rf_matching" /\ p \in Ahead(r)))'
      <4>1. CASE match'[s][p] = match[s][p]
        BY <1>1, <1>2, <1>3, <2>2, <3>2, <4>1
           DEF Calm, CalmMatch, MatchGood, MatchHolds, Ahead, Active
      <4>2. CASE match'[s][p] # match[s][p]
        <5>1. /\ run[a].stage = "rf_matching" /\ run[a].who = p /\ match'[s][p].at # Never
              /\ \E f \in run[a].saw : match'[s][p].absent = Absent(f.name, s)
          BY <3>1, <4>2 DEF MatchWritten
        <5>2. run[a].inside /\ p # Nobody
          BY <5>1, Records DEF PlacesInv, Place, InPeople
        <5>3. run[r].stage = "findings"
          BY <1>1, <2>2, <5>1, <5>2 DEF PlacesInv, Place, Run, Stages
        <5>4. SawFresh(a)
          BY <1>2, <5>1, <5>3 DEF Calm, CalmRead
        <5>5. match'[s][p].absent = Absent(facts[p].name, s)
          BY <5>1, <5>2, <5>4 DEF SawFresh
        <5> QED BY <1>1, <1>3, <5>1, <5>5 DEF MatchGood, MatchHolds
      <4> QED BY <4>1, <4>2
    <3> QED BY <1>1, <1>3, <3>1, <3>2 DEF CalmMatch, Active
  <2> QED BY <2>1, <2>2
<1>8. CalmFound(r)'
  BY <1>1, <1>2, <1>3 DEF Calm, CalmFound, Active
<1> QED BY <1>5, <1>6, <1>7, <1>8 DEF Calm

\* A step of a run that writes nothing but its own state, and begins no turn.
LEMMA OwnStep ==
  ASSUME NEW a \in Runs, Others(a), UNCHANGED <<now, evidence, lists, class, match>>,
         \/ run'[a].who = Nobody
         \/ run'[a].stage = run[a].stage /\ NoTurn(a)
  PROVE  StepOf(a)
BY DEF StepOf, evidence, ClassWritten, MatchWritten, NoTurn

\* A calm run that reads or writes nothing stays as it was.
LEMMA SameStaysCalm ==
  ASSUME CalmInv, UNCHANGED <<facts, status, lists, class, match, run>>
  PROVE  CalmInv'
BY DEF CalmInv, Calm, CalmRead, SawFresh, CalmClass, CalmMatch, CalmFound, ClassGood, MatchGood,
   ClassificationHolds, MatchHolds, Ahead, Active, Wanted, Evaluating

LEMMA CalmInit == Init => CalmInv
BY DEF Init, CalmInv, Waiting

\* Nobody has a turn in a stage that a run has just left or is about to enter.
LEMMA Unread ==
  ASSUME PlacesInv, NEW g, \A x \in Runs : run[x].stage = g => ~run[x].inside
  PROVE  \A x \in Runs : run[x].stage = g => run[x].who = Nobody
BY DEF PlacesInv, Place, InPeople

LEMMA CalmStep ==
  TypeOK /\ HoldsInv /\ PlacesInv /\ EvaluationInv /\ CalmInv /\ [Next]_vars => CalmInv'
<1> SUFFICES ASSUME TypeOK, HoldsInv, PlacesInv, EvaluationInv, CalmInv, [Next]_vars PROVE CalmInv'
  OBVIOUS
<1>t. \A x \in Runs : run[x] \in Run
  BY DEF TypeOK
<1>p. \A x \in Runs : Place(x)
  BY DEF PlacesInv
<1>a. ASSUME NEW a \in Runs, StepOf(a), run'[a].calm => Calm(a)'
      PROVE  CalmInv'
  BY <1>a, OthersStayCalm DEF CalmInv
<1>d. ASSUME run' = Disturbed PROVE CalmInv'
  BY <1>d, <1>t DEF Disturbed, CalmInv, Run
<1>w. ASSUME UNCHANGED <<facts, status, lists>> PROVE Wanted' = Wanted
  BY <1>w DEF Wanted, Active
<1>1. ASSUME NEW p \in People, Begin(p) PROVE CalmInv'
  BY <1>1, SameStaysCalm DEF Begin
<1>2. ASSUME NEW p \in People, Commit(p) PROVE CalmInv'
  BY <1>2, <1>d DEF Commit
<1>3. ASSUME NEW p \in People, NEW q \in People, Merge(p, q) PROVE CalmInv'
  BY <1>3, <1>d DEF Merge
<1>4. CASE Import
  BY <1>4, <1>d DEF Import
<1>5. CASE Tick
  BY <1>5, SameStaysCalm DEF Tick, evidence
<1>6. ASSUME NEW r \in Runs, Classify(r) PROVE CalmInv'
  <2>1. /\ run[r].who = Nobody /\ run'[r].who = Nobody
        /\ UNCHANGED <<now, evidence, lists, class, match>> /\ Others(r)
    BY <1>6, <1>p, ClassifyDoes DEF Place, InPeople, NoTurn, OnlyRun
  <2>2. /\ run'[r].stage = "classification" /\ run'[r].list = 0
        /\ run'[r].todo = PendingClassification
    BY <1>6, <1>p, ClassifyDoes DEF Place
  <2>3. CalmRead(r)'
    BY <2>1, <2>2 DEF CalmRead, SawFresh
  <2>4. CalmClass(r)'
    <3> SUFFICES ASSUME NEW p \in People, Active(p), p \notin PendingClassification
                 PROVE  ClassGood(p)
      BY <2>1, <2>2 DEF CalmClass, Active, ClassGood, ClassificationHolds, Ahead, evidence
    <3> QED BY DEF PendingClassification, HoldsInv, Older, ClassGood
  <2>5. CalmMatch(r)' /\ CalmFound(r)'
    BY <2>2 DEF CalmMatch, CalmFound
  <2>6. StepOf(r)
    BY <2>1, OwnStep
  <2> QED BY <1>a, <2>3, <2>4, <2>5, <2>6 DEF Calm
<1>7. ASSUME NEW r \in Runs, MatchRosfinmonitoring(r) PROVE CalmInv'
  <2>1. /\ run[r].who = Nobody /\ run'[r].who = Nobody /\ run'[r].calm = run[r].calm
        /\ UNCHANGED <<now, evidence, lists, class, match>> /\ Others(r)
        /\ run[r].stage = "rf_matching" /\ ~run[r].inside
    BY <1>7, <1>p, MatchDoes DEF Place, InPeople, NoTurn, OnlyRun
  <2>2. \/ lists = 0 /\ run'[r].stage = "findings" /\ ~run'[r].inside /\ run'[r].list = 0
        \/ /\ lists # 0 /\ run'[r].stage = "rf_matching" /\ run'[r].list = lists
           /\ run'[r].todo = PendingMatch(lists)
    BY <1>7, <1>p, MatchDoes DEF Place, ToFindings
  <2>3. \A x \in Runs : run[x].stage = "rf_matching" => run[x].who = Nobody
    BY <1>7, MatchDoes, Unread
  <2>4. ASSUME run'[r].calm PROVE Calm(r)'
    <3>1. Calm(r)
      BY <2>1, <2>4 DEF CalmInv
    <3>2. CalmRead(r)'
      <4>1. \A x \in Runs : run'[x].stage = "classification" => SawFresh(x)'
        BY <2>1, <2>2, <3>1 DEF Calm, CalmRead, SawFresh, Others, evidence
      <4>2. \A x \in Runs : run'[x].stage = "rf_matching" => SawFresh(x)'
        BY <2>1, <2>3 DEF SawFresh, Others
      <4> QED BY <2>1, <4>1, <4>2 DEF CalmRead, SawFresh
    <3>3. CalmClass(r)'
      BY <2>1, <2>2, <3>1 DEF Calm, CalmClass, ClassGood, ClassificationHolds, Active, evidence
    <3>4. CalmMatch(r)'
      <4>1. CASE lists = 0
        BY <2>2, <4>1 DEF CalmMatch
      <4>2. CASE lists # 0
        <5>1. lists \in Snapshots
          BY <4>2, ListsAssumption DEF TypeOK, Snapshots
        <5>2. \A p \in People : Active(p) => MatchGood(lists, p) \/ p \in PendingMatch(lists)
          BY <5>1 DEF HoldsInv, Older, PendingMatch, MatchGood
        <5> QED BY <2>1, <2>2, <4>2, <5>2
                DEF CalmMatch, MatchGood, MatchHolds, Active, Ahead, evidence
      <4> QED BY <4>1, <4>2
    <3>5. CalmFound(r)'
      BY <2>2 DEF CalmFound
    <3> QED BY <3>2, <3>3, <3>4, <3>5 DEF Calm
  <2>5. StepOf(r)
    BY <2>1, OwnStep
  <2> QED BY <1>a, <2>4, <2>5
<1>8. ASSUME NEW r \in Runs, NEW p \in People, Look(r, p) PROVE CalmInv'
  <2>1. LookDone(r, p) /\ Others(r) /\ UNCHANGED <<now, evidence, lists, class, match>>
    BY <1>8, LookDoes DEF OnlyRun
  <2>2. SawFresh(r)'
    BY <2>1 DEF LookDone, SawFresh, evidence
  <2>3. StepOf(r)
    BY <2>1, <2>2 DEF StepOf, LookDone, ClassWritten, MatchWritten, evidence
  <2>4. ASSUME run'[r].calm PROVE Calm(r)'
    <3>1. Calm(r)
      BY <2>1, <2>4 DEF CalmInv, LookDone
    <3>2. CalmRead(r)'
      BY <2>1, <2>2, <3>1 DEF Calm, CalmRead, SawFresh, LookDone, Others, evidence
    <3>3. Ahead(r) \cap People \subseteq Ahead(r)'
      BY <2>1, Records DEF Ahead, LookDone
    <3>4. CalmClass(r)'
      BY <2>1, <3>1, <3>3 DEF Calm, CalmClass, ClassGood, ClassificationHolds, Active, LookDone,
                              evidence
    <3>5. CalmMatch(r)'
      BY <2>1, <3>1, <3>3 DEF Calm, CalmMatch, MatchGood, MatchHolds, Active, LookDone, evidence
    <3>6. CalmFound(r)'
      BY <2>1, <3>1 DEF Calm, CalmFound, LookDone, InPeople
    <3> QED BY <3>2, <3>4, <3>5, <3>6 DEF Calm
  <2> QED BY <1>a, <2>3, <2>4
<1>9. ASSUME NEW r \in Runs, WriteClassification(r) PROVE CalmInv'
  <2>1. /\ TurnEnds(r) /\ Others(r) /\ run'[r].calm = run[r].calm
        /\ UNCHANGED <<now, evidence, lists, match>>
        /\ run[r].stage = "classification" /\ run[r].who # Nobody
    BY <1>9, DoneDoes DEF WriteClassification
  <2>2. PICK at \in run[r].since .. now, f \in run[r].saw :
          class' = [class EXCEPT ![run[r].who] = [at |-> at, political |-> f.political]]
    BY <1>9 DEF WriteClassification
  <2>3. at # Never
    BY <1>p, <1>t, <2>1, <2>2 DEF Place, Run, Never, TypeOK
  <2>4. /\ \A p \in People \ {run[r].who} : class'[p] = class[p]
        /\ run[r].who \in People => class'[run[r].who] = [at |-> at, political |-> f.political]
    BY <2>2 DEF TypeOK
  <2>5. StepOf(r)
    BY <2>1, <2>2, <2>3, <2>4 DEF StepOf, ClassWritten, MatchWritten, TurnEnds, evidence
  <2>6. ASSUME run'[r].calm PROVE Calm(r)'
    <3>1. Calm(r)
      BY <2>1, <2>6 DEF CalmInv
    <3>2. CalmRead(r)'
      BY <2>1 DEF CalmRead, SawFresh, TurnEnds
    <3>3. f = facts[run[r].who]
      BY <2>1, <2>2, <3>1 DEF Calm, CalmRead, SawFresh
    <3>4. \A p \in People : p = run[r].who => ClassGood(p)'
      BY <2>1, <2>3, <2>4, <3>3 DEF ClassGood, ClassificationHolds, evidence
    <3>5. CalmClass(r)'
      BY <2>1, <2>4, <3>1, <3>4 DEF Calm, CalmClass, ClassGood, ClassificationHolds, Active,
                                    TurnEnds, Ahead, evidence
    <3>6. CalmMatch(r)' /\ CalmFound(r)'
      BY <1>p, <2>1 DEF CalmMatch, CalmFound, Place, TurnEnds
    <3> QED BY <3>2, <3>5, <3>6 DEF Calm
  <2> QED BY <1>a, <2>5, <2>6
<1>10. ASSUME NEW r \in Runs, WriteMatch(r) PROVE CalmInv'
  <2>1. /\ TurnEnds(r) /\ Others(r) /\ run'[r].calm = run[r].calm
        /\ UNCHANGED <<now, evidence, lists, class>>
        /\ run[r].stage = "rf_matching" /\ run[r].who # Nobody
    BY <1>10, DoneDoes DEF WriteMatch
  <2> DEFINE s == run[r].list
  <2>2. PICK at \in run[r].since .. now, f \in run[r].saw :
          match' = [match EXCEPT ![s][run[r].who] = [at |-> at, absent |-> Absent(f.name, s)]]
    BY <1>10 DEF WriteMatch
  <2>3. at # Never
    BY <1>p, <1>t, <2>1, <2>2 DEF Place, Run, Never, TypeOK
  <2>4. s \in Snapshots
    BY <1>p, <1>t, <2>1, ListsAssumption DEF Place, InPeople, Run, Snapshots
  <2>5. /\ \A x \in Snapshots, p \in People :
             ~(x = s /\ p = run[r].who) => match'[x][p] = match[x][p]
        /\ run[r].who \in People =>
             match'[s][run[r].who] = [at |-> at, absent |-> Absent(f.name, s)]
    BY <2>2, <2>4 DEF TypeOK
  <2>6. \A p \in People, x \in Snapshots : MatchWritten(r, x, p)
    BY <2>1, <2>2, <2>3, <2>5 DEF MatchWritten
  <2>7. StepOf(r)
    BY <2>1, <2>6 DEF StepOf, ClassWritten, TurnEnds, evidence
  <2>8. ASSUME run'[r].calm PROVE Calm(r)'
    <3>1. Calm(r)
      BY <2>1, <2>8 DEF CalmInv
    <3>2. CalmRead(r)'
      <4>1. \A x \in Runs : run'[x].stage = "classification" => SawFresh(x)'
        BY <2>1, <3>1 DEF Calm, CalmRead, SawFresh, Others, TurnEnds, evidence
      <4> QED BY <2>1, <4>1 DEF CalmRead, SawFresh, TurnEnds
    <3>3. f = facts[run[r].who]
      BY <2>1, <2>2, <3>1 DEF Calm, CalmRead, SawFresh
    <3>4. CalmClass(r)'
      BY <2>1, <3>1 DEF Calm, CalmClass, ClassGood, ClassificationHolds, Active, TurnEnds, evidence
    <3>5. \A p \in People : p = run[r].who => MatchGood(s, p)'
      BY <2>1, <2>3, <2>5, <3>3 DEF MatchGood, MatchHolds, TurnEnds, evidence
    <3>6. run'[r].list = s /\ s # 0
      BY <1>p, <2>1 DEF TurnEnds, Place, InPeople
    <3>7. \A p \in People : status'[p] = "active" =>
            MatchGood(s, p)' \/ (run'[r].stage = "rf_matching" /\ p \in Ahead(r)')
      <4> SUFFICES ASSUME NEW p \in People, status[p] = "active", p # run[r].who
                   PROVE  MatchGood(s, p)' \/ (run'[r].stage = "rf_matching" /\ p \in Ahead(r)')
        BY <2>1, <3>5 DEF evidence
      <4>1. match'[s][p] = match[s][p]
        BY <2>4, <2>5
      <4>2. MatchGood(s, p) \/ p \in run[r].todo
        BY <3>1, <3>6 DEF Calm, CalmMatch, Active, Ahead
      <4> QED BY <2>1, <3>6, <4>1, <4>2 DEF MatchGood, MatchHolds, Ahead, TurnEnds, evidence
    <3>8. CalmMatch(r)'
      BY <2>1, <3>1, <3>6, <3>7 DEF Calm, CalmMatch, Active
    <3>9. CalmFound(r)'
      BY <2>1 DEF CalmFound, TurnEnds
    <3> QED BY <3>2, <3>4, <3>8, <3>9 DEF Calm
  <2> QED BY <1>a, <2>7, <2>8
<1>11. ASSUME NEW r \in Runs, Fail(r) PROVE CalmInv'
  <2>1. StepOf(r) /\ ~run'[r].calm
    BY <1>11, FailDoes, OwnStep DEF TurnEnds
  <2> QED BY <1>a, <2>1
<1>12. ASSUME NEW r \in Runs, Leave(r) PROVE CalmInv'
  <2>1. /\ Others(r) /\ UNCHANGED <<now, evidence, lists, class, match>>
        /\ run[r].inside /\ ~run'[r].inside /\ run[r].todo = {} /\ run[r].who = Nobody
        /\ run'[r].who = Nobody /\ run'[r].calm = run[r].calm /\ run'[r].list = run[r].list
        /\ \/ run[r].stage = "classification" /\ run'[r].stage = "rf_matching"
           \/ run[r].stage = "rf_matching" /\ run'[r].stage = "findings"
    BY <1>12, LeaveDoes DEF NoTurn, OnlyRun
  <2>2. StepOf(r)
    BY <2>1, OwnStep
  <2>3. \A x \in Runs : run[x].stage = run[r].stage => run[x].who = Nobody
    BY <1>p, <2>1 DEF PlacesInv, Place, InPeople
  <2>4. ASSUME run'[r].calm PROVE Calm(r)'
    <3>1. Calm(r)
      BY <2>1, <2>4 DEF CalmInv
    <3>2. \A p \in People : p \notin Ahead(r)
      BY <2>1, Records DEF Ahead
    <3>3. \A x \in Runs : SawFresh(x) => SawFresh(x)'
      BY <2>1 DEF SawFresh, Others, evidence
    <3>4. \A x \in Runs : run'[x].stage = "classification" => SawFresh(x)'
      BY <2>1, <2>3, <3>1, <3>3 DEF Calm, CalmRead, SawFresh, Others
    <3>5. run'[r].stage = "findings" =>
            \A x \in Runs : run'[x].stage = "rf_matching" => SawFresh(x)'
      BY <2>1, <2>3, <3>3 DEF SawFresh, Others
    <3>6. CalmRead(r)'
      BY <2>1, <3>4, <3>5 DEF CalmRead, SawFresh
    <3>7. CalmClass(r)'
      BY <2>1, <3>1, <3>2 DEF Calm, CalmClass, ClassGood, ClassificationHolds, Active, evidence
    <3>8. CalmMatch(r)'
      BY <2>1, <3>1, <3>2 DEF Calm, CalmMatch, MatchGood, MatchHolds, Active, evidence
    <3>9. CalmFound(r)'
      BY <2>1 DEF CalmFound
    <3> QED BY <3>6, <3>7, <3>8, <3>9 DEF Calm
  <2> QED BY <1>a, <2>2, <2>4
<1>13. ASSUME NEW r \in Runs, EvaluateFindings(r) \/ Confirm(r) \/ Deactivate(r) PROVE CalmInv'
  <2>1. /\ Others(r) /\ UNCHANGED <<now, evidence, lists, class, match>> /\ NoTurn(r)
        /\ run[r].stage = "findings" /\ run'[r].stage = "findings"
        /\ run'[r].calm = run[r].calm /\ run'[r].list = run[r].list /\ run'[r].inside
    BY <1>13, EvaluateDoes, ConfirmDoes, DeactivateDoes DEF OnlyRun, Evaluating
  <2>2. StepOf(r)
    BY <2>1, OwnStep
  <2>3. ASSUME run'[r].calm PROVE Calm(r)'
    <3>1. Calm(r)
      BY <2>1, <2>3 DEF CalmInv
    <3>2. CalmRead(r)'
      BY <2>1, <3>1 DEF Calm, CalmRead, SawFresh, Others, NoTurn, evidence
    <3>3. CalmClass(r)' /\ CalmMatch(r)'
      BY <2>1, <3>1 DEF Calm, CalmClass, CalmMatch, ClassGood, MatchGood, ClassificationHolds,
                        MatchHolds, Active, evidence
    <3>4. Wanted' = Wanted /\ \A p \in People : Active(p)' = Active(p) /\ facts'[p] = facts[p]
      BY <2>1, <1>w DEF Active, evidence
    <3>5. \A p \in People : Active(p) => class[p].at # Never /\ class[p].political = facts[p].political
      BY <2>1, <3>1 DEF Calm, CalmClass, ClassGood, ClassificationHolds
    <3>6. run[r].list # 0
      BY <1>p, <1>13, EvaluateDoes, ConfirmDoes, DeactivateDoes DEF Place, Evaluating
    <3>7. /\ run[r].list = lists
          /\ \A p \in People : Active(p) =>
               /\ match[run[r].list][p].at # Never
               /\ match[run[r].list][p].absent = Absent(facts[p].name, lists)
      BY <2>1, <3>1, <3>6 DEF Calm, CalmMatch, MatchGood, MatchHolds
    <3>8. CASE EvaluateFindings(r)
      <4>1. run'[r].step = "read"
        BY <3>8, EvaluateDoes, <1>t DEF EvaluationInv, Run
      <4>2. run'[r].found = {p \in People : class[p].at # Never /\ class[p].political}
        BY <3>8, EvaluateDoes
      <4> QED BY <3>2, <3>3, <3>4, <3>5, <4>1, <4>2 DEF Calm, CalmFound
    <3>9. CASE Confirm(r)
      <4>1. /\ run'[r].step = "confirmed" /\ Evaluating(r, "read")
            /\ run'[r].found = {p \in run[r].found : /\ Active(p)
                                                    /\ match[run[r].list][p].at # Never
                                                    /\ match[run[r].list][p].absent}
        BY <3>9, ConfirmDoes
      <4>2. \A p \in People : Active(p) => (p \in run[r].found <=> facts[p].political)
        BY <3>1, <4>1 DEF Calm, CalmFound, Evaluating
      <4>3. run[r].found \subseteq People
        BY <1>t DEF Run
      <4>4. run'[r].found = Wanted
        BY <3>7, <4>1, <4>2, <4>3 DEF Wanted
      <4> QED BY <3>2, <3>3, <3>4, <4>1, <4>4 DEF Calm, CalmFound
    <3>10. CASE Deactivate(r)
      <4>1. run'[r].step = "deactivated" /\ run'[r].found = run[r].found /\ Evaluating(r, "confirmed")
        BY <3>10, DeactivateDoes
      <4>2. run[r].found = Wanted
        BY <3>1, <4>1 DEF Calm, CalmFound, Evaluating
      <4> QED BY <3>2, <3>3, <3>4, <4>1, <4>2 DEF Calm, CalmFound
    <3> QED BY <1>13, <3>8, <3>9, <3>10
  <2> QED BY <1>a, <2>2, <2>3
<1>14. ASSUME NEW r \in Runs, SkipFindings(r) \/ Record(r) \/ Stop(r) PROVE CalmInv'
  <2>1. Others(r) /\ run'[r] = Over /\ UNCHANGED <<now, evidence, lists, class, match>>
    BY <1>14, OverDoes
  <2>2. StepOf(r)
    BY <2>1, OverIsOutside, OwnStep
  <2> QED BY <1>a, <2>1, <2>2, OverIsOutside
<1>15. CASE UNCHANGED vars
  BY <1>15, SameStaysCalm DEF vars, evidence
<1> QED BY <1>1, <1>2, <1>3, <1>4, <1>5, <1>6, <1>7, <1>8, <1>9, <1>10, <1>11, <1>12, <1>13,
           <1>14, <1>15 DEF Next

\* What a calm run leaves.
Enough ==
  \A r \in Runs :
    (Evaluating(r, "deactivated") /\ run'[r].stage = "over" /\ run[r].calm /\ troubles' = troubles)
      => {p \in People : finding'[p].active} = Wanted

LEMMA RecordIsEnough ==
  ASSUME TypeOK, EvaluationInv, CalmInv, NEW r \in Runs, run[r].calm, Record(r)
  PROVE  {p \in People : finding'[p].active} = Wanted
<1>1. Evaluating(r, "deactivated") /\ run[r] \in Run
  BY Records DEF Record
<1>2. run[r].found = Wanted
  BY <1>1 DEF CalmInv, Calm, CalmFound, Evaluating
<1>3. \A p \in People : finding[p].active => p \in run[r].found \union run[r].doomed
  BY <1>1 DEF EvaluationInv
<1>4. \A p \in People : finding[p] \in [active : BOOLEAN, by : SUBSET Runs, list : 0 .. Len(Lists)]
  BY DEF TypeOK
<1>5. ASSUME NEW p \in People PROVE finding'[p].active <=> p \in run[r].found
  <2>1. finding'[p] = IF p \in run[r].found
                        THEN [active |-> TRUE, by |-> {r}, list |-> run[r].list]
                        ELSE IF p \in run[r].doomed THEN [finding[p] EXCEPT !.active = FALSE]
                        ELSE finding[p]
    BY DEF Record
  <2>2. [finding[p] EXCEPT !.active = FALSE].active = FALSE
    BY <1>4
  <2> QED BY <1>3, <2>1, <2>2
<1> QED BY <1>2, <1>5 DEF Wanted

\* Only a run that records its findings ends after it has deactivated what it missed.
LEMMA EndsRecorded ==
  ASSUME TypeOK, [Next]_vars, NEW r \in Runs, Evaluating(r, "deactivated"),
         run'[r].stage = "over", troubles' = troubles
  PROVE  Record(r)
<1>t. run[r].stage = "findings" /\ run[r].step = "deactivated" /\ \A x \in Runs : run[x] \in Run
  BY DEF Evaluating, TypeOK
<1>1. ASSUME NEW p \in People, Begin(p) PROVE FALSE
  BY <1>1, <1>t DEF Begin
<1>2. ASSUME run' = Disturbed PROVE FALSE
  BY <1>2, <1>t DEF Disturbed, Run
<1>3. CASE Tick
  BY <1>3, <1>t DEF Tick
<1>4. ASSUME NEW a \in Runs, Others(a), run'[a].stage = "over" => a # r PROVE FALSE
  BY <1>4, <1>t DEF Others
<1>5. ASSUME NEW a \in Runs, Classify(a) PROVE FALSE
  BY <1>5, <1>4, ClassifyDoes
<1>6. ASSUME NEW a \in Runs, MatchRosfinmonitoring(a) PROVE FALSE
  BY <1>6, <1>4, MatchDoes DEF ToFindings
<1>7. ASSUME NEW a \in Runs, NEW p \in People, Look(a, p) PROVE FALSE
  BY <1>7, <1>t, <1>4, LookDoes DEF LookDone
<1>8. ASSUME NEW a \in Runs, WriteClassification(a) \/ WriteMatch(a) \/ Fail(a) PROVE FALSE
  <2>1. TurnEnds(a) /\ Others(a)
    BY <1>8, DoneDoes, FailDoes DEF WriteClassification, WriteMatch
  <2> QED BY <1>t, <1>4, <2>1 DEF TurnEnds
<1>9. ASSUME NEW a \in Runs, Leave(a) PROVE FALSE
  BY <1>9, <1>4, LeaveDoes
<1>10. ASSUME NEW a \in Runs, EvaluateFindings(a) PROVE FALSE
  BY <1>10, <1>4, EvaluateDoes
<1>11. ASSUME NEW a \in Runs, Confirm(a) \/ Deactivate(a) PROVE FALSE
  <2>1. Others(a) /\ run'[a].stage = run[a].stage
    BY <1>11, ConfirmDoes, DeactivateDoes
  <2> QED BY <1>t, <1>4, <2>1
<1>12. ASSUME NEW a \in Runs, SkipFindings(a) PROVE FALSE
  <2>1. Others(a) /\ ~run[a].inside
    BY <1>12, OverDoes DEF SkipFindings, Enters
  <2>2. a # r
    BY <2>1 DEF Evaluating
  <2> QED BY <1>4, <2>1, <2>2
<1>13. ASSUME NEW a \in Runs, Stop(a) PROVE FALSE
  BY <1>13 DEF Stop, TypeOK
<1>14. ASSUME NEW a \in Runs, Record(a) PROVE a = r
  BY <1>14, <1>4, OverDoes
<1>15. CASE UNCHANGED vars
  BY <1>15, <1>t DEF vars
<1>16. ASSUME NEW p \in People, NEW q \in People, Merge(p, q) PROVE FALSE
  BY <1>16, <1>2 DEF Merge
<1>17. ASSUME NEW p \in People, Commit(p) PROVE FALSE
  BY <1>17, <1>2 DEF Commit
<1>18. CASE Import
  BY <1>18, <1>2 DEF Import
<1> QED BY <1>1, <1>3, <1>5, <1>6, <1>7, <1>8, <1>9, <1>10, <1>11, <1>12, <1>13, <1>14, <1>15,
           <1>16, <1>17, <1>18 DEF Next

\* One run that nothing disturbs leaves exactly the people wanted active, for any number of
\* runs beside it and before it, people, snapshots and lengths of time that keep
\* SettleAssumption.
THEOREM SpecOneRunIsEnough == Spec => OneRunIsEnough
<1> DEFINE Inv == IInv /\ EvaluationInv /\ PlacesInv /\ CalmInv
<1>1. Init => Inv
  BY InvInit, EvaluationInit, PlacesInit, CalmInit
<1>2. Inv /\ [Next]_vars => Inv'
  BY TypeStep, ClockStep, SawStep, HoldsStep, EvaluationStep, PlacesStep, CalmStep DEF IInv
<1>3. Inv /\ [Next]_vars => [Enough]_vars
  BY RecordIsEnough, EndsRecorded DEF Enough, IInv
<1>4. [][Enough]_vars => OneRunIsEnough
  BY PTL DEF OneRunIsEnough, Enough
<1> HIDE DEF Inv
<1> QED BY <1>1, <1>2, <1>3, <1>4, PTL DEF Spec
=============================================================================
