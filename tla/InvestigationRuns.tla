--------------------------- MODULE InvestigationRuns ---------------------------
(***************************************************************************)
(* One stored investigation run and the processes that work on it: the one *)
(* that started it and those that resume it after a crash or a cancel      *)
(* (court-investigation: service, nodes, run_store).                       *)
(*                                                                         *)
(* A process claims the run (an advisory lock), makes its searches within  *)
(* slots, and writes what it does to the run's row.  Every write is made   *)
(* in a thread the process waits for; a cancelled process stops waiting,   *)
(* and the thread goes on.  Evidence is left out: a search stands for it.  *)
(***************************************************************************)
EXTENDS Naturals, FiniteSets

CONSTANTS
  Procs,        \* the processes
  NoProc,       \* nobody
  Tasks,        \* the searches of the first round
  Follow,       \* the searches of the later rounds
  Local,        \* the searches made in a thread, which nobody can stop
  Slots,        \* max_parallel_searches
  Ceiling,      \* max_searches of the service
  Asked,        \* the ceilings a resume may ask for
  MaxRounds,    \* max_followups
  Mishaps       \* what may go wrong: numbers of crashes, cancels, failures and drops

Searches == Tasks \union Follow

ASSUME SearchAssumption == Local \subseteq Searches /\ NoProc \notin Procs
ASSUME BoundAssumption ==
  /\ {Slots, Ceiling, MaxRounds} \subseteq Nat /\ Asked \subseteq Nat
  /\ Mishaps \subseteq Nat \X Nat \X Nat \X Nat

VARIABLES
  status,      \* of the row: "none", "running" or "ended"
  progress,    \* of the row
  lock,        \* the process whose connection holds the advisory lock
  phase,       \* process -> where its call stands
  resumed,     \* the processes whose call is a resume
  state,       \* process -> its graph's state
  todo,        \* process -> the branches of the round that wait for a slot
  active,      \* process -> the searches it waits for
  unfinished,  \* process -> local searches it no longer waits for, still working
  writes,      \* calls of the store under way, in their threads
  outcome,     \* process -> how its last call ended
  lowest,      \* history: the lowest ceiling the row was held to
  crashes, cancels, failures, drops

row == <<status, progress, lowest>>
calls == <<phase, resumed, state, outcome>>
searching == <<todo, active, unfinished>>
mishaps == <<crashes, cancels, failures, drops>>
vars == <<row, lock, calls, searching, writes, mishaps>>

Phases == {"idle", "claiming", "giving back", "intake", "loading", "narrowing", "planning",
           "searching", "covering", "deciding", "following", "finishing", "closing"}
\* The phases in which the graph runs: a node may raise, or the hard stop end it.
InGraph == {"intake", "planning", "searching", "covering", "deciding", "following"}

Blank == [planned |-> FALSE, done |-> {}, tasks |-> {}, round |-> 0, spent |-> 0,
          limit |-> Ceiling]

Init ==
  /\ status = "none" /\ progress = Blank /\ lowest = Ceiling
  /\ lock = NoProc
  /\ phase = [p \in Procs |-> "idle"] /\ resumed = {}
  /\ state = [p \in Procs |-> Blank]
  /\ todo = [p \in Procs |-> {}]
  /\ active = [p \in Procs |-> {}] /\ unfinished = [p \in Procs |-> {}]
  /\ writes = {}
  /\ outcome = [p \in Procs |-> "none"]
  /\ crashes = 0 /\ cancels = 0 /\ failures = 0 /\ drops = 0

-----------------------------------------------------------------------------
Goto(p, label) == phase' = [phase EXCEPT ![p] = label]

Smaller(a, b) == IF a <= b THEN a ELSE b

\* planner.cap: as many of the searches as the ceiling leaves.
Capped(tasks, remaining) ==
  {K \in SUBSET tasks : Cardinality(K) = Smaller(Cardinality(tasks), remaining)}

Left(s) == IF s.spent < s.limit THEN s.limit - s.spent ELSE 0

\* A call of the store: its thread, for which the process waits while it is "live".
Call(p, op, s, task) ==
  [by |-> p, op |-> op, s |-> s, task |-> task, live |-> TRUE]

Abandoned(p) == {[w EXCEPT !.live = w.live /\ w.by # p] : w \in writes}

-----------------------------------------------------------------------------
(* The claim.                                                              *)

\* investigate, once its row is created: a row that is not leaves the run unstored.
Investigate(p) ==
  /\ phase[p] = "idle" /\ status = "none"
  /\ status' = "running"
  /\ state' = [state EXCEPT ![p] = Blank]
  /\ resumed' = resumed \ {p}
  /\ Goto(p, "claiming")
  /\ outcome' = [outcome EXCEPT ![p] = "none"]
  /\ UNCHANGED <<progress, lowest, lock, searching, writes, mishaps>>

\* resume with a ceiling of its own, at most the service's; a finished run is answered
\* without a claim.
Resume(p, limit) ==
  /\ phase[p] = "idle" /\ status = "running"
  /\ state' = [state EXCEPT ![p] = [Blank EXCEPT !.limit = Smaller(limit, Ceiling)]]
  /\ resumed' = resumed \union {p}
  /\ Goto(p, "claiming")
  /\ outcome' = [outcome EXCEPT ![p] = "none"]
  /\ UNCHANGED <<row, lock, searching, writes, mishaps>>

Claim(p) ==
  /\ phase[p] = "claiming" /\ lock = NoProc
  /\ lock' = p
  /\ Goto(p, IF p \in resumed THEN "loading" ELSE "intake")
  /\ UNCHANGED <<row, resumed, state, outcome, searching, writes, mishaps>>

Busy(p) ==
  /\ phase[p] \in {"claiming", "giving back"} /\ lock # NoProc
  /\ outcome' = [outcome EXCEPT ![p] = "busy"]
  /\ Goto(p, "idle")
  /\ UNCHANGED <<row, lock, resumed, state, searching, writes, mishaps>>

\* The connection of the claim cannot be had.
ClaimRaises(p) ==
  /\ phase[p] = "claiming"
  /\ failures' = failures + 1
  /\ outcome' = [outcome EXCEPT ![p] = "raised"]
  /\ Goto(p, "idle")
  /\ UNCHANGED <<row, lock, resumed, state, searching, writes, crashes, cancels, drops>>
  /\ mishaps' \in Mishaps

\* Changed form of CancelClaim: the caller goes, and the thread's claim stays.
CancelClaimAndGo(p) ==
  /\ phase[p] = "claiming"
  /\ cancels' = cancels + 1
  /\ lock' = IF lock = NoProc THEN p ELSE lock
  /\ Goto(p, "idle")
  /\ UNCHANGED <<row, resumed, state, outcome, searching, writes, crashes, failures, drops>>
  /\ mishaps' \in Mishaps

\* Cancelled while the claim is being taken: its thread goes on, and what it takes is
\* given back.
CancelClaim(p) ==
  /\ phase[p] = "claiming"
  /\ cancels' = cancels + 1
  /\ Goto(p, "giving back")
  /\ UNCHANGED <<row, lock, resumed, state, outcome, searching, writes, crashes, failures, drops>>
  /\ mishaps' \in Mishaps

GiveBack(p) ==
  /\ phase[p] = "giving back" /\ lock = NoProc
  /\ lock' = p
  /\ Goto(p, "closing")
  /\ UNCHANGED <<row, resumed, state, outcome, searching, writes, mishaps>>

\* Changed form of Idle: what a search still does in its thread is not waited for.
IdleAtOnce(p) == phase[p] = "closing"

\* _release_when_idle: no local search of the run works any more.
Idle(p) == phase[p] = "closing" /\ unfinished[p] = {}

Release(p) ==
  /\ Idle(p)
  /\ lock' = IF lock = p THEN NoProc ELSE lock
  /\ Goto(p, "idle")
  /\ UNCHANGED <<row, resumed, state, outcome, searching, writes, mishaps>>

-----------------------------------------------------------------------------
(* resume: the run is read again under the claim and held to the lower of  *)
(* its own ceiling and the one asked for, stored before anything runs.     *)

LoadNothing(p) ==
  /\ phase[p] = "loading" /\ (status = "ended" \/ ~progress.planned)
  /\ outcome' = [outcome EXCEPT ![p] = IF status = "ended" THEN "result" ELSE "not found"]
  /\ Goto(p, "closing")
  /\ UNCHANGED <<row, lock, resumed, state, searching, writes, mishaps>>

HeldTo(p) == Smaller(progress.limit, state[p].limit)

\* Changed form of Owed: the searches of the round, those made among them.
OwedAll == progress.tasks

\* The searches of the round in progress that were never made.
Owed == progress.tasks \ progress.done

Load(p) ==
  /\ phase[p] = "loading" /\ status = "running" /\ progress.planned
  /\ LET held == [progress EXCEPT !.limit = HeldTo(p)] IN
     \E owed \in Capped(Owed, Left(held)) :
       LET s == [held EXCEPT !.tasks = owed] IN
       /\ state' = [state EXCEPT ![p] = s]
       /\ writes' = writes \union {Call(p, "narrow", s, "none")}
  /\ Goto(p, "narrowing")
  /\ UNCHANGED <<row, lock, resumed, outcome, searching, mishaps>>

-----------------------------------------------------------------------------
(* The graph.                                                              *)

Plan(p) ==
  /\ phase[p] = "intake"
  /\ \E tasks \in Capped(Tasks, Left(state[p])) :
       LET s == [state[p] EXCEPT !.planned = TRUE, !.tasks = tasks] IN
       /\ state' = [state EXCEPT ![p] = s]
       /\ writes' = writes \union {Call(p, "plan", s, "none")}
  /\ Goto(p, "planning")
  /\ UNCHANGED <<row, lock, resumed, outcome, searching, mishaps>>

\* What the process writes last: a result of any kind.
End(p, others) ==
  /\ writes' = others \union {Call(p, "finish", Blank, "none")}
  /\ Goto(p, "finishing")

\* No subject in the question: a request for clarification, without a plan.
Clarify(p) ==
  /\ phase[p] = "intake"
  /\ End(p, writes)
  /\ UNCHANGED <<row, lock, resumed, state, outcome, searching, mishaps>>

Recording(p) == {w.task : w \in {x \in writes : x.by = p /\ x.live /\ x.op = "record"}}

\* A local search keeps its slot until its work really ends.
FreeSlots(p) == Cardinality(active[p] \union unfinished[p]) < Slots

StartSearch(p, t) ==
  /\ phase[p] = "searching" /\ FreeSlots(p)
  /\ t \in todo[p]
  /\ todo' = [todo EXCEPT ![p] = @ \ {t}]
  /\ active' = [active EXCEPT ![p] = @ \union {t}]
  /\ UNCHANGED <<row, lock, calls, unfinished, writes, mishaps>>

\* An answer or an error: either is recorded as a search made.
EndSearch(p, t) ==
  /\ t \in active[p]
  /\ active' = [active EXCEPT ![p] = @ \ {t}]
  /\ writes' = writes \union {Call(p, "record", Blank, t)}
  /\ UNCHANGED <<row, lock, calls, todo, unfinished, mishaps>>

\* Its time is up: a network search is cancelled, a local one works on in its thread.
TimeOut(p, t) ==
  /\ t \in active[p] \intersect Local
  /\ active' = [active EXCEPT ![p] = @ \ {t}]
  /\ unfinished' = [unfinished EXCEPT ![p] = @ \union {t}]
  /\ writes' = writes \union {Call(p, "record", Blank, t)}
  /\ UNCHANGED <<row, lock, calls, todo, mishaps>>

LateEnds(p, t) ==
  /\ t \in unfinished[p]
  /\ unfinished' = [unfinished EXCEPT ![p] = @ \ {t}]
  /\ UNCHANGED <<row, lock, calls, todo, active, writes, mishaps>>

\* The searches of the round are made: merge_evidence, then coverage, which saves all.
Cover(p) ==
  /\ phase[p] = "searching"
  /\ todo[p] \union active[p] \union Recording(p) = {}
  /\ writes' = writes \union {Call(p, "save", state[p], "none")}
  /\ Goto(p, "covering")
  /\ UNCHANGED <<row, lock, resumed, state, outcome, searching, mishaps>>

FollowUp(p) ==
  LET s == state[p] IN
  /\ phase[p] = "deciding"
  /\ s.round < MaxRounds /\ s.spent < s.limit
  /\ Follow \ s.done # {}
  /\ \E tasks \in Capped(Follow \ s.done, Left(s)) :
       LET next == [s EXCEPT !.tasks = tasks, !.round = @ + 1] IN
       /\ state' = [state EXCEPT ![p] = next]
       /\ writes' = writes \union {Call(p, "round", next, "none")}
  /\ Goto(p, "following")
  /\ UNCHANGED <<row, lock, resumed, outcome, searching, mishaps>>

\* Enough is known, or the time, the rounds or the searches are spent.
Report(p) ==
  /\ phase[p] = "deciding"
  /\ End(p, writes)
  /\ UNCHANGED <<row, lock, resumed, state, outcome, searching, mishaps>>

\* The searches the process stops waiting for: the local ones work on.
Abandon(p) ==
  /\ todo' = [todo EXCEPT ![p] = {}]
  /\ active' = [active EXCEPT ![p] = {}]
  /\ unfinished' = [unfinished EXCEPT ![p] = @ \union (active[p] \intersect Local)]

\* A node raised, or the hard stop of the graph: a failed result.
FailRun(p) ==
  /\ phase[p] \in InGraph
  /\ Abandon(p)
  /\ End(p, Abandoned(p))
  /\ UNCHANGED <<row, lock, resumed, state, outcome, mishaps>>

Cancel(p) ==
  /\ phase[p] \in InGraph \union {"loading", "narrowing", "finishing"}
  /\ cancels' = cancels + 1
  /\ Abandon(p)
  /\ writes' = Abandoned(p)
  /\ Goto(p, "closing")
  /\ UNCHANGED <<row, lock, resumed, state, outcome, crashes, failures, drops>>
  /\ mishaps' \in Mishaps

-----------------------------------------------------------------------------
(* The store: each call is a transaction on the row, if it is running.     *)

\* Changed form of Written: a search's record replaces the list it read before.
WrittenOver(w) ==
  CASE w.op \in {"plan", "save"} -> w.s
    [] w.op = "record" /\ progress.planned ->
         [progress EXCEPT !.done = state[w.by].done \union {w.task}, !.spent = @ + 1]
    [] w.op = "round" /\ progress.planned ->
         [progress EXCEPT !.tasks = w.s.tasks, !.round = @ + 1]
    [] w.op = "narrow" -> [progress EXCEPT !.tasks = w.s.tasks, !.limit = w.s.limit]
    [] w.op = "finish" -> Blank
    [] OTHER -> progress

\* save_progress replaces the progress; update_progress changes one that is there.
Written(w) ==
  CASE w.op \in {"plan", "save"} -> w.s
    [] w.op = "record" /\ progress.planned ->
         [progress EXCEPT !.done = @ \union {w.task}, !.spent = @ + 1]
    [] w.op = "round" /\ progress.planned ->
         [progress EXCEPT !.tasks = w.s.tasks, !.round = @ + 1]
    [] w.op = "narrow" /\ progress.planned ->
         [progress EXCEPT !.tasks = w.s.tasks, !.limit = w.s.limit]
    [] w.op = "finish" -> Blank
    [] OTHER -> progress

Awaiting == [plan |-> "planning", narrow |-> "narrowing", save |-> "covering",
             round |-> "following", finish |-> "finishing", record |-> "searching"]
After == [plan |-> "searching", narrow |-> "searching", save |-> "deciding",
          round |-> "searching", finish |-> "closing"]

\* The process that waited for the call goes on.
GoOn(w) ==
  /\ IF w.live /\ w.op # "record"
     THEN /\ Goto(w.by, After[w.op])
          /\ todo' = [todo EXCEPT ![w.by] =
                        IF After[w.op] = "searching" THEN state[w.by].tasks ELSE {}]
     ELSE UNCHANGED <<phase, todo>>
  /\ state' = IF w.live /\ w.op = "record"
              THEN [state EXCEPT ![w.by].done = @ \union {w.task}, ![w.by].spent = @ + 1]
              ELSE state
  /\ outcome' = IF w.live /\ w.op = "finish"
                THEN [outcome EXCEPT ![w.by] = "result"] ELSE outcome

Write(w) ==
  /\ w \in writes
  /\ writes' = writes \ {w}
  /\ IF status = "running"
     THEN /\ progress' = Written(w)
          /\ status' = IF w.op = "finish" THEN "ended" ELSE status
          /\ lowest' = IF w.op = "narrow" /\ progress.planned
                       THEN Smaller(lowest, w.s.limit) ELSE lowest
     ELSE UNCHANGED row
  /\ GoOn(w)
  /\ UNCHANGED <<lock, resumed, active, unfinished, mishaps>>

\* A write that fails costs the record, not the run; but a resume that cannot store
\* what it is held to does not go on.
WriteFails(w) ==
  /\ w \in writes
  /\ failures' = failures + 1
  /\ writes' = writes \ {w}
  /\ IF w.live /\ w.op = "narrow"
     THEN /\ outcome' = [outcome EXCEPT ![w.by] = "store error"]
          /\ Goto(w.by, "closing") /\ UNCHANGED <<state, todo>>
     ELSE GoOn(w)
  /\ UNCHANGED <<row, lock, resumed, active, unfinished, crashes, cancels, drops>>
  /\ mishaps' \in Mishaps

-----------------------------------------------------------------------------
\* The process dies: its threads go with it, its connection lets go of the run.
Crash(p) ==
  /\ phase[p] # "idle"
  /\ crashes' = crashes + 1
  /\ Goto(p, "idle")
  /\ todo' = [todo EXCEPT ![p] = {}]
  /\ active' = [active EXCEPT ![p] = {}] /\ unfinished' = [unfinished EXCEPT ![p] = {}]
  /\ writes' = {w \in writes : w.by # p}
  /\ lock' = IF lock = p THEN NoProc ELSE lock
  /\ UNCHANGED <<row, resumed, state, outcome, cancels, failures, drops>>
  /\ mishaps' \in Mishaps

\* The connection that holds the lock is lost: PostgreSQL lets go of the lock.
DropConnection ==
  /\ lock # NoProc
  /\ drops' = drops + 1
  /\ lock' = NoProc
  /\ UNCHANGED <<row, calls, searching, writes, crashes, cancels, failures>>
  /\ mishaps' \in Mishaps

Works(p) ==
  \/ Claim(p) \/ Busy(p) \/ GiveBack(p) \/ Release(p)
  \/ LoadNothing(p) \/ Load(p) \/ Plan(p) \/ Clarify(p)
  \/ \E t \in Searches : StartSearch(p, t)
  \/ Cover(p) \/ FollowUp(p) \/ Report(p)

Ends(p) == \E t \in Searches : EndSearch(p, t) \/ TimeOut(p, t)
Late(p) == \E t \in Searches : LateEnds(p, t)
Writes == \E w \in writes : Write(w) \/ WriteFails(w)

Next ==
  \/ \E p \in Procs :
       \/ Investigate(p) \/ \E limit \in Asked : Resume(p, limit)
       \/ Works(p) \/ Ends(p) \/ Late(p)
       \/ ClaimRaises(p) \/ CancelClaim(p) \/ FailRun(p) \/ Cancel(p) \/ Crash(p)
  \/ Writes
  \/ DropConnection

Spec == Init /\ [][Next]_vars

\* A process that works goes on, a search ends by its timeout, its thread's work is cut
\* by the database at the same timeout, and a call of the store returns.
FairSpec ==
  /\ Spec
  /\ \A p \in Procs : WF_vars(Works(p)) /\ WF_vars(Ends(p)) /\ WF_vars(Late(p))
  /\ WF_vars(Writes)

-----------------------------------------------------------------------------
States == [planned : BOOLEAN, done : SUBSET Searches, tasks : SUBSET Searches,
           round : Nat, spent : Nat, limit : 0..Ceiling]

TypeOK ==
  /\ status \in {"none", "running", "ended"} /\ progress \in States /\ lowest \in 0..Ceiling
  /\ lock \in Procs \union {NoProc}
  /\ phase \in [Procs -> Phases] /\ resumed \subseteq Procs
  /\ state \in [Procs -> States]
  /\ todo \in [Procs -> SUBSET Searches]
  /\ active \in [Procs -> SUBSET Searches] /\ unfinished \in [Procs -> SUBSET Local]
  /\ \A w \in writes : w.live => phase[w.by] = Awaiting[w.op]

\* The searches made for the run, each with the process that makes it.
UnderWay == {s \in Procs \X Searches : s[2] \in active[s[1]] \union unfinished[s[1]]}

\* The searches made for the run at once, whichever processes make them, are never more
\* than its slots: a resume waits for what a stopped process still does (_within_a_slot,
\* _release_when_idle), as long as the claim's connection is not lost.
SearchesWithinSlots ==
  /\ TypeOK
  /\ drops = 0 => Cardinality(UnderWay) <= Slots

\* Nothing went wrong yet but that processes died.
OnlyCrashes == cancels = 0 /\ failures = 0 /\ drops = 0

\* Once lowered, the ceiling a run is held to stays lowered: "a run stopped again must
\* not come back with the wider limits it had before" (resume).
LimitsStayLowered ==
  status = "running" /\ progress.planned => progress.limit <= lowest

\* "The searches of a round end in parallel, and none may lose another's record" (RunStore),
\* and "the searches its progress holds are not made again" (resume), whichever process stops
\* in whatever place and whichever goes on.
SearchesMadeOnce ==
  [][OnlyCrashes /\ status = "running" =>
       /\ status' = "running" => progress.done \subseteq progress'.done
       /\ \A p \in Procs : active'[p] \cap progress.done \subseteq active[p]]_vars

\* The records are kept whatever went wrong.
RecordsAlwaysKept ==
  [][status = "running" /\ status' = "running" => progress.done \subseteq progress'.done]_vars

\* A claim ends, however the call of its process ends: a run held by nobody who works
\* on it could never be resumed.
ClaimsEnd == \A p \in Procs : lock = p ~> lock # p

\* A question asked anew gets a result: "whatever goes wrong inside is a result with
\* status failed, never an exception" (service.py).
NewRunAnswers == \A p \in Procs : outcome[p] = "raised" => p \in resumed

\* A run stopped before it was planned is started again by a resume (resume).
StoppedRunIsFound == \A p \in Procs : outcome[p] # "not found"
=============================================================================
