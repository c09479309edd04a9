----------------------------- MODULE SourceReads ------------------------------
(***************************************************************************)
(* The documents of one run are read ahead by a few workers, and every     *)
(* request goes through the gates of the run's HTTP client: a number of    *)
(* requests per host, then a number in all, and the pause a host asked     *)
(* for.  A request that fails may be sent again; the reader may stop at    *)
(* any moment, and what goes on is cancelled then.                         *)
(*                                                                         *)
(* References are numbered in the order of discovery.  Time is counted in  *)
(* steps of Tick; what a page holds and how it is parsed is left out.      *)
(***************************************************************************)
EXTENDS Naturals, FiniteSets

CONSTANTS
  References,      \* how many there are to read
  Hosts, Host,     \* reference -> the host it is read from
  Workers,         \* download_workers
  MaxConcurrency,  \* max_concurrency
  DomainLimit,     \* host -> concurrency_for
  MaxAttempts,     \* max_attempts
  BaseDelay, MaxDelay, \* the first backoff and the longest pause
  Jitter,          \* jitter_ratio, in hundredths
  RetryAfters      \* what a host may ask for

Refs == 1..References

ASSUME SizesAssumption ==
  /\ References \in Nat
  /\ {Workers, MaxConcurrency, MaxAttempts} \subseteq Nat \ {0}
  /\ {BaseDelay, MaxDelay} \subseteq Nat /\ RetryAfters \subseteq Nat
  /\ Jitter \in 0..100
ASSUME HostsAssumption == Host \in [Refs -> Hosts] /\ DomainLimit \in [Hosts -> Nat \ {0}]

VARIABLES
  task,      \* what the read of each reference is doing
  readers,   \* the free places of read_many's gate
  domain,    \* the free places of each host's gate
  budget,    \* the free places of the run's gate
  cooldown,  \* how long each host is still to be left alone
  created,   \* references that have a task
  taken,     \* references whose result was handed over
  phase      \* of read_many: "reading", "closing", "closed"

gates == <<readers, domain, budget>>
reader == <<created, taken, phase>>
vars == <<task, readers, domain, budget, cooldown, created, taken, phase>>

Smaller(a, b) == IF a < b THEN a ELSE b
Larger(a, b) == IF a > b THEN a ELSE b

Task(stage) == [stage |-> stage, calls |-> 0, wait |-> 0, answer |-> "none", after |-> 0]

\* The references whose reads are started before any result is taken.
Window == Smaller(2 * Workers, References)

Init ==
  /\ created = Window
  /\ task = [r \in Refs |-> Task(IF r <= Window THEN "queued" ELSE "none")]
  /\ readers = Workers
  /\ domain = DomainLimit
  /\ budget = MaxConcurrency
  /\ cooldown = [h \in Hosts |-> 0]
  /\ taken = 0
  /\ phase = "reading"

-----------------------------------------------------------------------------
(* A read: through the gates, the request, and again.                      *)

At(r, stage) == phase = "reading" /\ task[r].stage = stage
Goes(r, stage) == task' = [task EXCEPT ![r].stage = stage]

\* The readers' gate is fair: the first task created is the first to pass.
Begin(r) ==
  /\ At(r, "queued")
  /\ readers > 0
  /\ \A q \in Refs : q < r => task[q].stage # "queued"
  /\ readers' = readers - 1
  /\ Goes(r, "domain")
  /\ UNCHANGED <<domain, budget, cooldown, reader>>

\* Changed form of EnterDomain: the run's gate is taken with the host's, before the pause.
EnterDomainAndBudget(r) ==
  LET h == Host[r] IN
  /\ At(r, "domain")
  /\ domain[h] > 0 /\ budget > 0
  /\ domain' = [domain EXCEPT ![h] = @ - 1]
  /\ budget' = budget - 1
  /\ task' = [task EXCEPT ![r].stage = "pause", ![r].wait = cooldown[h]]
  /\ UNCHANGED <<readers, cooldown, reader>>

\* The host's gate, and its pause, looked at once.
EnterDomain(r) ==
  LET h == Host[r] IN
  /\ At(r, "domain")
  /\ domain[h] > 0
  /\ domain' = [domain EXCEPT ![h] = @ - 1]
  /\ task' = [task EXCEPT ![r].stage = "pause", ![r].wait = cooldown[h]]
  /\ UNCHANGED <<readers, budget, cooldown, reader>>

Paused(r) ==
  /\ At(r, "pause")
  /\ task[r].wait = 0
  /\ Goes(r, "global")
  /\ UNCHANGED <<gates, cooldown, reader>>

Send(r) ==
  /\ At(r, "global")
  /\ budget > 0
  /\ budget' = budget - 1
  /\ task' = [task EXCEPT ![r].stage = "sent", ![r].calls = @ + 1]
  /\ UNCHANGED <<readers, domain, cooldown, reader>>

\* Both gates are left.
Leaves(r) ==
  /\ budget' = budget + 1
  /\ domain' = [domain EXCEPT ![Host[r]] = @ + 1]

\* The head of the answer: the gates are left, and the body is still to come.  A host may
\* ask for a pause (429 and 503), or fail without one.
Answered(r, answer, after) ==
  /\ At(r, "sent")
  /\ Leaves(r)
  /\ task' = [task EXCEPT ![r].stage = "body", ![r].answer = answer, ![r].after = after]
  /\ cooldown' = IF answer = "pause"
                 THEN [cooldown EXCEPT ![Host[r]] = Larger(@, Smaller(after, MaxDelay))]
                 ELSE cooldown
  /\ UNCHANGED <<readers, reader>>

\* Changed form of Broken: a failure leaves only the run's gate.
BrokenInside(r) ==
  /\ At(r, "sent")
  /\ budget' = budget + 1
  /\ task' = [task EXCEPT ![r].stage = "failed", ![r].after = 0]
  /\ UNCHANGED <<readers, domain, cooldown, reader>>

\* No answer: a timeout, a dropped connection.
Broken(r) ==
  /\ At(r, "sent")
  /\ Leaves(r)
  /\ task' = [task EXCEPT ![r].stage = "failed", ![r].after = 0]
  /\ UNCHANGED <<readers, cooldown, reader>>

\* The body is read, or breaks off; what failed for a time is a failure of the attempt.
BodyRead(r) ==
  /\ At(r, "body")
  /\ \/ /\ task[r].answer = "final"
        /\ task' = [task EXCEPT ![r] = Task("done")]
        /\ readers' = readers + 1
     \/ /\ task[r].answer \in {"pause", "error"}
        /\ Goes(r, "failed")
        /\ UNCHANGED readers
     \/ /\ task' = [task EXCEPT ![r].stage = "failed", ![r].after = 0]
        /\ UNCHANGED readers
  /\ UNCHANGED <<domain, budget, cooldown, reader>>

\* The wait doubles with every failure, up to the ceiling, and is then made uneven.
Backoffs(failures) ==
  LET even == Smaller(MaxDelay, BaseDelay * 2 ^ (failures - 1)) IN
  {delay \in 0..(2 * MaxDelay) : 100 * delay \in ((100 - Jitter) * even)..((100 + Jitter) * even)}

\* A host's own pause is honoured up to the same ceiling.
Retry(r) ==
  /\ At(r, "failed")
  /\ task[r].calls < MaxAttempts
  /\ \E delay \in Backoffs(task[r].calls) :
       task' = [task EXCEPT ![r].stage = "backoff", ![r].answer = "none", ![r].after = 0,
                  ![r].wait = Larger(delay, Smaller(task[r].after, MaxDelay))]
  /\ UNCHANGED <<gates, cooldown, reader>>

\* The failure of the last attempt is the document's result.
GivesUp(r) ==
  /\ At(r, "failed")
  /\ task[r].calls = MaxAttempts
  /\ task' = [task EXCEPT ![r] = Task("done")]
  /\ readers' = readers + 1
  /\ UNCHANGED <<domain, budget, cooldown, reader>>

\* Changed form of SendsAgain: a repeated request passes the host's gate no more.
SendsAgainPast(r) ==
  /\ At(r, "backoff")
  /\ task[r].wait = 0
  /\ Goes(r, "global")
  /\ UNCHANGED <<gates, cooldown, reader>>

SendsAgain(r) ==
  /\ At(r, "backoff")
  /\ task[r].wait = 0
  /\ Goes(r, "domain")
  /\ UNCHANGED <<gates, cooldown, reader>>

-----------------------------------------------------------------------------
(* Time, and the reader.                                                   *)

Less(n) == IF n = 0 THEN 0 ELSE n - 1

Tick ==
  /\ phase = "reading"
  /\ \/ \E r \in Refs : task[r].wait > 0
     \/ \E h \in Hosts : cooldown[h] > 0
  /\ task' = [r \in Refs |-> [task[r] EXCEPT !.wait = Less(@)]]
  /\ cooldown' = [h \in Hosts |-> Less(cooldown[h])]
  /\ UNCHANGED <<gates, reader>>

\* Results are handed over in the order of discovery; each makes room for one task more.
Take ==
  /\ phase = "reading" /\ taken < References
  /\ task[taken + 1].stage = "done"
  /\ taken' = taken + 1
  /\ created' = Smaller(created + 1, References)
  /\ task' = IF created < References
             THEN [task EXCEPT ![created + 1] = Task("queued")]
             ELSE task
  /\ UNCHANGED <<gates, cooldown, phase>>

\* The reader stops: the period was reached, a document could not be stored, an interrupt.
Stop ==
  /\ phase = "reading"
  /\ phase' = "closing"
  /\ UNCHANGED <<task, gates, cooldown, created, taken>>

Passed == {"domain", "pause", "global", "sent", "body", "failed", "backoff"}
InDomain == {"pause", "global", "sent"}

\* A cancelled read lets go of every gate it passed.
Cancel(r) ==
  /\ phase = "closing"
  /\ task[r].stage \in Passed \union {"queued"}
  /\ task' = [task EXCEPT ![r] = Task("cancelled")]
  /\ readers' = IF task[r].stage \in Passed THEN readers + 1 ELSE readers
  /\ domain' = IF task[r].stage \in InDomain THEN [domain EXCEPT ![Host[r]] = @ + 1] ELSE domain
  /\ budget' = IF task[r].stage = "sent" THEN budget + 1 ELSE budget
  /\ UNCHANGED <<cooldown, reader>>

Running == Passed \union {"queued"}

\* Changed form of Close: the reader does not wait for the reads it cancelled.
CloseAtOnce ==
  /\ \/ phase = "reading" /\ taken = References
     \/ phase = "closing"
  /\ phase' = "closed"
  /\ UNCHANGED <<task, gates, cooldown, created, taken>>

\* Everything was handed over, or everything that went on has ended.
Close ==
  /\ \/ phase = "reading" /\ taken = References
     \/ phase = "closing" /\ \A r \in Refs : task[r].stage \notin Running
  /\ phase' = "closed"
  /\ UNCHANGED <<task, gates, cooldown, created, taken>>

-----------------------------------------------------------------------------

Step(r) ==
  \/ Begin(r) \/ EnterDomain(r) \/ Paused(r) \/ Send(r) \/ BodyRead(r) \/ Broken(r)
  \/ Retry(r) \/ GivesUp(r) \/ SendsAgain(r) \/ Cancel(r)
  \/ Answered(r, "final", 0) \/ Answered(r, "error", 0)
  \/ \E after \in RetryAfters : Answered(r, "pause", after)

Next == Tick \/ Take \/ Stop \/ Close \/ \E r \in Refs : Step(r)

Spec == Init /\ [][Next]_vars

\* The loop runs every task that can go on, time passes, and the reader takes what there is.
\* Every request is answered or times out; nothing says that the reader stops.
FairSpec ==
  /\ Spec
  /\ WF_vars(Tick) /\ WF_vars(Take) /\ WF_vars(Close)
  /\ \A r \in Refs : WF_vars(Step(r))

-----------------------------------------------------------------------------
(* Properties.                                                             *)

Sent == {r \in Refs : task[r].stage = "sent"}
Inside(h) == {r \in Refs : task[r].stage \in InDomain /\ Host[r] = h}
Reading == {r \in Refs : task[r].stage \in Passed}

Answers == {"none", "final", "error", "pause"}
TaskState == [stage : {"none", "queued", "done", "cancelled"} \union Passed, calls : 0..MaxAttempts,
              wait : Nat, answer : Answers, after : Nat]

TypeOK ==
  /\ task \in [Refs -> TaskState]
  /\ readers \in Nat /\ budget \in Nat /\ domain \in [Hosts -> Nat]
  /\ cooldown \in [Hosts -> Nat]
  /\ created \in 0..References /\ taken \in 0..References
  /\ phase \in {"reading", "closing", "closed"}

\* Whatever is answered, fails, waits or is cancelled, no more requests wait for an answer
\* of a host, or in all, than the gates allow, and no document asks more often than it may.
RequestsWithinLimits ==
  /\ TypeOK
  /\ Cardinality(Sent) <= MaxConcurrency
  /\ \A h \in Hosts : Cardinality({r \in Sent : Host[r] = h}) <= DomainLimit[h]

\* «a request must never hold the global gate while it waits for its domain, or one slow site
\* would spend the whole budget of the run on waiting» (concurrency.py:406): what is spent of
\* the budget is spent on requests a host is answering.
BudgetIsNotSpentWaiting == Cardinality(Sent) + budget = MaxConcurrency

\* «no read goes on unseen» (service.py:141): after the reader has closed, nothing is under
\* way and every gate is free again, however the reads ended.
NoReadGoesOnUnseen ==
  phase = "closed" =>
    /\ Reading = {}
    /\ readers = Workers /\ budget = MaxConcurrency /\ domain = DomainLimit

\* «no more than twice `workers` articles are read ahead and wait in memory» (service.py:111).
ReadAheadIsBounded ==
  Cardinality({r \in Refs : r > taken /\ task[r].stage # "none"}) <= 2 * Workers

\* Every reference has a result in the end, unless the reader stops; and then everything
\* comes to an end.
EverythingIsRead ==
  /\ <>(phase = "closed")
  /\ [](\A r \in Refs : created >= r => <>(phase # "reading" \/ taken >= r))

\* «remembers a site's `Retry-After` so the next requests to it wait» (concurrency.py:4): no
\* request goes to a host that is to be left alone.
HostIsLeftAlone ==
  [][\A r \in Refs : Send(r) => cooldown[Host[r]] = 0]_vars

\* «How many requests may be in flight to this domain at once» (concurrency.py:163): a
\* request is in flight until its answer was read.
InFlightWithinLimits ==
  \A h \in Hosts :
    Cardinality({r \in Refs : task[r].stage \in {"sent", "body"} /\ Host[r] = h}) <= DomainLimit[h]
=============================================================================
