-------------------------- MODULE IngestionProofs ---------------------------
(***************************************************************************)
(* Proofs about the two components of the ingestion, for any sizes.        *)
(*                                                                         *)
(* SourceReads: the places of every gate are accounted for by the reads    *)
(* that passed it.  Each action moves one read, so it is enough to compare *)
(* what the action takes from the gates with the sets that one read left   *)
(* and entered.                                                            *)
(*                                                                         *)
(* SourceLoad: what a listing brought lies in one piece, and so does what  *)
(* regular loads store.                                                    *)
(***************************************************************************)
EXTENDS SourceReads, SourceLoad, FiniteSetTheorems, WellFoundedInduction, TLAPS

One(b) == IF b THEN 1 ELSE 0

\* The places of the three gates: those taken and those free.
BudgetAccount == Cardinality(Sent) + budget = MaxConcurrency
ReadersAccount == Cardinality(Reading) + readers = Workers
HostAccount(h) == Cardinality(Inside(h)) + domain[h] = DomainLimit[h]
Accounts == BudgetAccount /\ ReadersAccount /\ \A h \in Hosts : HostAccount(h)

\* The window of the reader: what was taken is done, what is beyond the window not begun.
WindowInv ==
  /\ created = Smaller(taken + 2 * Workers, References)
  /\ \A q \in Refs : q <= taken => task[q].stage = "done"
  /\ \A q \in Refs : q > created => task[q].stage = "none"

\* A read on its way to a request has one left to make.
Asking == {"queued", "domain", "pause", "global", "backoff"}
CallsLeft == \A q \in Refs : task[q].stage \in Asking => task[q].calls < MaxAttempts

ClosedInv == phase = "closed" => \A q \in Refs : task[q].stage \notin Running

IInv == TypeOK /\ Accounts /\ WindowInv /\ CallsLeft /\ ClosedInv

-----------------------------------------------------------------------------
(* Counting.                                                               *)

\* A set of references is finite, and its size a number.
LEMMA RefsFinite ==
  ASSUME NEW S, S \subseteq Refs
  PROVE  IsFiniteSet(S) /\ Cardinality(S) \in Nat
<1>1. IsFiniteSet(Refs)
  BY SizesAssumption, FS_Interval DEF Refs
<1> QED BY <1>1, FS_Subset, FS_CardinalityType

\* Two sets that differ at most in one reference differ in size by that reference.
LEMMA CountChange ==
  ASSUME NEW S, NEW T, S \subseteq Refs, T \subseteq Refs,
         NEW r \in Refs, S \ {r} = T \ {r}
  PROVE  Cardinality(S) + One(r \in T) = Cardinality(T) + One(r \in S)
<1> DEFINE U == S \ {r}
<1>1. IsFiniteSet(U) /\ Cardinality(U) \in Nat /\ r \notin U
  BY RefsFinite
<1>2. Cardinality(U \union {r}) = Cardinality(U) + 1
  BY <1>1, FS_AddElement
<1>3. S = IF r \in S THEN U \union {r} ELSE U
  OBVIOUS
<1>4. T = IF r \in T THEN U \union {r} ELSE U
  OBVIOUS
<1> HIDE DEF U
<1>5. Cardinality(S) = Cardinality(U) + One(r \in S)
  <2>1. CASE r \in S
    BY <1>2, <1>3, <2>1 DEF One
  <2>2. CASE r \notin S
    BY <1>1, <1>3, <2>2 DEF One
  <2> QED BY <2>1, <2>2
<1>6. Cardinality(T) = Cardinality(U) + One(r \in T)
  <2>1. CASE r \in T
    BY <1>2, <1>4, <2>1 DEF One
  <2>2. CASE r \notin T
    BY <1>1, <1>4, <2>2 DEF One
  <2> QED BY <2>1, <2>2
<1> QED BY <1>1, <1>5, <1>6 DEF One

\* When one read changes its stage, each count changes by that read.
LEMMA OneMoves ==
  ASSUME NEW r \in Refs, \A q \in Refs \ {r} : task'[q].stage = task[q].stage
  PROVE  /\ Cardinality(Sent)' + One(task[r].stage = "sent")
              = Cardinality(Sent) + One(task'[r].stage = "sent")
         /\ Cardinality(Reading)' + One(task[r].stage \in Passed)
              = Cardinality(Reading) + One(task'[r].stage \in Passed)
         /\ \A h \in Hosts :
              Cardinality(Inside(h))' + One(task[r].stage \in InDomain /\ Host[r] = h)
                = Cardinality(Inside(h)) + One(task'[r].stage \in InDomain /\ Host[r] = h)
<1>1. Cardinality(Sent') + One(r \in Sent) = Cardinality(Sent) + One(r \in Sent')
  <2>1. Sent \subseteq Refs /\ Sent' \subseteq Refs /\ Sent' \ {r} = Sent \ {r}
    BY DEF Sent
  <2> QED BY <2>1, CountChange
<1>2. Cardinality(Reading') + One(r \in Reading) = Cardinality(Reading) + One(r \in Reading')
  <2>1. Reading \subseteq Refs /\ Reading' \subseteq Refs /\ Reading' \ {r} = Reading \ {r}
    BY DEF Reading
  <2> QED BY <2>1, CountChange
<1>3. ASSUME NEW h \in Hosts
      PROVE  Cardinality(Inside(h)') + One(r \in Inside(h))
               = Cardinality(Inside(h)) + One(r \in Inside(h)')
  <2>1. Inside(h) \subseteq Refs /\ Inside(h)' \subseteq Refs /\ Inside(h)' \ {r} = Inside(h) \ {r}
    BY DEF Inside
  <2> QED BY <2>1, CountChange
<1>4. /\ (r \in Sent) = (task[r].stage = "sent")
      /\ (r \in Sent') = (task'[r].stage = "sent")
  BY DEF Sent
<1>5. /\ (r \in Reading) = (task[r].stage \in Passed)
      /\ (r \in Reading') = (task'[r].stage \in Passed)
  BY DEF Reading
<1>6. \A h \in Hosts : /\ (r \in Inside(h)) = (task[r].stage \in InDomain /\ Host[r] = h)
                       /\ (r \in Inside(h)') = (task'[r].stage \in InDomain /\ Host[r] = h)
  BY DEF Inside
<1> QED BY <1>1, <1>2, <1>3, <1>4, <1>5, <1>6

-----------------------------------------------------------------------------
(* The start.                                                              *)

LEMMA WindowInRange == Window \in 0..References /\ Window <= 2 * Workers
BY SizesAssumption DEF Window, Smaller

THEOREM InitIInv == Init => IInv
<1> SUFFICES ASSUME Init PROVE IInv
  OBVIOUS
<1>1. /\ Window \in 0..References
      /\ \A stage \in {"none", "queued"} : Task(stage) \in TaskState
  BY WindowInRange, SizesAssumption DEF Task, TaskState, Answers
<1>2. TypeOK
  <2>1. task \in [Refs -> TaskState]
    BY <1>1 DEF Init
  <2> QED BY <1>1, <2>1, SizesAssumption, HostsAssumption DEF Init, TypeOK
<1>3. \A q \in Refs : task[q].stage \in {"none", "queued"} /\ task[q].calls = 0
  BY DEF Init, Task
<1>4. Accounts
  <2>1. Sent = {} /\ Reading = {} /\ \A h \in Hosts : Inside(h) = {}
    BY <1>3 DEF Sent, Reading, Inside, Passed, InDomain
  <2>2. Cardinality({}) = 0
    BY FS_EmptySet
  <2> QED
    BY <2>1, <2>2, SizesAssumption, HostsAssumption
    DEF Init, Accounts, BudgetAccount, ReadersAccount, HostAccount
<1>5. WindowInv
  <2>1. created = Smaller(taken + 2 * Workers, References)
    BY SizesAssumption DEF Init, Window, Smaller
  <2>2. \A q \in Refs : q <= Window \/ task[q].stage = "none"
    BY DEF Init, Task
  <2> QED BY <2>1, <2>2, <1>1, SizesAssumption DEF Init, WindowInv, Refs
<1>6. CallsLeft
  BY <1>3, SizesAssumption DEF CallsLeft
<1>7. ClosedInv
  BY DEF Init, ClosedInv
<1> QED BY <1>2, <1>4, <1>5, <1>6, <1>7 DEF IInv

-----------------------------------------------------------------------------
(* The steps of one read.                                                  *)

OthersStay(r) == \A q \in Refs \ {r} : task'[q] = task[q]

\* What the read takes from a gate, the gate loses.
Balanced(r) ==
  /\ budget' + One(task'[r].stage = "sent") = budget + One(task[r].stage = "sent")
  /\ readers' + One(task'[r].stage \in Passed) = readers + One(task[r].stage \in Passed)
  /\ \A h \in Hosts : domain'[h] + One(task'[r].stage \in InDomain /\ Host[r] = h)
                        = domain[h] + One(task[r].stage \in InDomain /\ Host[r] = h)

\* What a step of one read is to the reader and its window.
LEMMA OneReadsWindow ==
  ASSUME IInv, TypeOK', NEW r \in Refs, UNCHANGED reader,
         task[r].stage \in Running,
         OthersStay(r),
         phase # "closed",
         task'[r].stage \in Asking => task'[r].calls < MaxAttempts
  PROVE  WindowInv' /\ CallsLeft' /\ ClosedInv'
<1>1. WindowInv'
  <2>1. r > taken /\ r <= created
    BY DEF IInv, TypeOK, WindowInv, Running, Passed, Refs
  <2>2. created' = created /\ taken' = taken
    BY DEF reader
  <2>3. \A q \in Refs : q <= taken \/ q > created => task'[q] = task[q]
    BY <2>1 DEF IInv, TypeOK, Refs, OthersStay
  <2>4. created' = Smaller(taken' + 2 * Workers, References)
    BY <2>2 DEF IInv, WindowInv
  <2> QED BY <2>2, <2>3, <2>4 DEF IInv, WindowInv
<1>2. CallsLeft'
  BY DEF IInv, CallsLeft, OthersStay
<1>3. ClosedInv'
  BY DEF ClosedInv, reader
<1> QED BY <1>1, <1>2, <1>3

\* What leaves a gate's free places enters the places taken.
LEMMA Balance ==
  ASSUME NEW was \in Nat, NEW is \in Nat, NEW free \in Nat, NEW free1 \in Nat,
         NEW out \in Nat, NEW in \in Nat, NEW limit,
         was + free = limit, is + out = was + in, free1 + in = free + out
  PROVE  is + free1 = limit
OBVIOUS

\* What a step of one read takes from the gates and gives back to them.
LEMMA OneReadsAccounts ==
  ASSUME IInv, TypeOK', NEW r \in Refs,
         OthersStay(r),
         Balanced(r)
  PROVE  Accounts'
<1>1. /\ Cardinality(Sent)' + One(task[r].stage = "sent")
           = Cardinality(Sent) + One(task'[r].stage = "sent")
      /\ Cardinality(Reading)' + One(task[r].stage \in Passed)
           = Cardinality(Reading) + One(task'[r].stage \in Passed)
      /\ \A h \in Hosts :
           Cardinality(Inside(h))' + One(task[r].stage \in InDomain /\ Host[r] = h)
             = Cardinality(Inside(h)) + One(task'[r].stage \in InDomain /\ Host[r] = h)
  BY OneMoves DEF OthersStay
<1>2. /\ budget \in Nat /\ budget' \in Nat /\ readers \in Nat /\ readers' \in Nat
      /\ \A h \in Hosts : domain[h] \in Nat /\ domain'[h] \in Nat
  BY DEF IInv, TypeOK
<1>3. /\ Cardinality(Sent) \in Nat /\ Cardinality(Sent)' \in Nat
      /\ Cardinality(Reading) \in Nat /\ Cardinality(Reading)' \in Nat
  BY RefsFinite DEF Sent, Reading
<1>4. ASSUME NEW h \in Hosts
      PROVE  Cardinality(Inside(h)) \in Nat /\ Cardinality(Inside(h))' \in Nat
  BY RefsFinite DEF Inside
<1>5. BudgetAccount'
  <2>1. One(task[r].stage = "sent") \in Nat /\ One(task'[r].stage = "sent") \in Nat
    BY DEF One
  <2>2. Cardinality(Sent) + budget = MaxConcurrency
    BY DEF IInv, Accounts, BudgetAccount
  <2>3. Cardinality(Sent)' + budget' = MaxConcurrency
    BY <1>1, <1>2, <1>3, <2>1, <2>2, Balance DEF Balanced
  <2> QED BY <2>3 DEF BudgetAccount
<1>6. ReadersAccount'
  <2>1. One(task[r].stage \in Passed) \in Nat /\ One(task'[r].stage \in Passed) \in Nat
    BY DEF One
  <2>2. Cardinality(Reading) + readers = Workers
    BY DEF IInv, Accounts, ReadersAccount
  <2>3. Cardinality(Reading)' + readers' = Workers
    BY <1>1, <1>2, <1>3, <2>1, <2>2, Balance DEF Balanced
  <2> QED BY <2>3 DEF ReadersAccount
<1>7. ASSUME NEW h \in Hosts PROVE HostAccount(h)'
  <2> DEFINE was == task[r].stage \in InDomain /\ Host[r] = h
             is == task'[r].stage \in InDomain /\ Host[r] = h
  <2>1. One(was) \in Nat /\ One(is) \in Nat
    BY DEF One
  <2>2. /\ Cardinality(Inside(h))' + One(was) = Cardinality(Inside(h)) + One(is)
        /\ domain'[h] + One(is) = domain[h] + One(was)
    BY <1>1 DEF Balanced
  <2>3. Cardinality(Inside(h)) + domain[h] = DomainLimit[h]
    BY DEF IInv, Accounts, HostAccount
  <2> HIDE DEF was, is
  <2>4. Cardinality(Inside(h))' + domain'[h] = DomainLimit[h]
    BY <1>2, <1>4, <2>1, <2>2, <2>3, Balance
  <2> QED BY <2>4 DEF HostAccount
<1> QED BY <1>5, <1>6, <1>7 DEF Accounts

LEMMA OneReadMoves ==
  ASSUME IInv, TypeOK', NEW r \in Refs,
         OthersStay(r),
         UNCHANGED reader, phase # "closed", task[r].stage \in Running,
         task'[r].stage \in Asking => task'[r].calls < MaxAttempts,
         Balanced(r)
  PROVE  IInv'
<1>1. WindowInv' /\ CallsLeft' /\ ClosedInv'
  BY OneReadsWindow
<1>2. Accounts'
  BY OneReadsAccounts
<1> QED BY <1>1, <1>2 DEF IInv

\* A stage of a read decides what it holds.
LEMMA Holds ==
  /\ \A s \in {"none", "queued", "done", "cancelled"} : s \notin Passed /\ s \notin InDomain
  /\ "domain" \in Passed \ InDomain /\ "body" \in Passed \ InDomain
  /\ "failed" \in Passed \ InDomain /\ "backoff" \in Passed \ InDomain
  /\ "pause" \in InDomain /\ "global" \in InDomain /\ "sent" \in InDomain
  /\ InDomain \subseteq Passed /\ Passed \subseteq Running /\ "queued" \in Running
BY DEF Passed, InDomain, Running

LEMMA TaskType ==
  /\ \A stage \in {"none", "queued", "done", "cancelled"} :
       Task(stage) \in TaskState /\ Task(stage).stage = stage /\ Task(stage).calls = 0
BY SizesAssumption DEF Task, TaskState, Answers

LEMMA BeginIInv ==
  ASSUME IInv, NEW r \in Refs, Begin(r)
  PROVE  IInv'
<1>1. TypeOK'
  BY TaskType DEF IInv, TypeOK, Begin, At, Goes, gates, reader, TaskState, Passed
<1>2. task[r].stage = "queued" /\ task'[r].stage = "domain" /\ task'[r].calls = task[r].calls
  BY TaskType DEF IInv, TypeOK, Begin, At, Goes, TaskState
<1>3. task'[r].stage \in Asking => task'[r].calls < MaxAttempts
  BY <1>2 DEF IInv, CallsLeft, Asking, Begin
<1>4. readers' + 1 = readers /\ budget' = budget /\ domain' = domain
  BY DEF IInv, TypeOK, Begin, gates
<1>5. OthersStay(r)
  BY DEF IInv, TypeOK, Begin, Goes, OthersStay
<1>6. Balanced(r)
  BY <1>2, <1>4, Holds, HostsAssumption DEF One, IInv, TypeOK, Balanced
<1>7. UNCHANGED reader /\ phase # "closed" /\ task[r].stage \in Running
  BY <1>2, Holds DEF Begin, At
<1> QED BY <1>1, <1>3, <1>5, <1>6, <1>7, OneReadMoves

LEMMA EnterDomainIInv ==
  ASSUME IInv, NEW r \in Refs, EnterDomain(r)
  PROVE  IInv'
<1>1. TypeOK'
  <2>1. Host[r] \in Hosts /\ domain[Host[r]] \in Nat /\ cooldown[Host[r]] \in Nat
    BY HostsAssumption DEF IInv, TypeOK
  <2>2. domain' \in [Hosts -> Nat]
    BY <2>1 DEF IInv, TypeOK, EnterDomain
  <2>3. task' \in [Refs -> TaskState]
    BY <2>1 DEF IInv, TypeOK, EnterDomain, TaskState, Passed
  <2> QED BY <2>2, <2>3 DEF IInv, TypeOK, EnterDomain, reader
<1>2. task[r].stage = "domain" /\ task'[r].stage = "pause" /\ task'[r].calls = task[r].calls
  BY HostsAssumption, SizesAssumption DEF IInv, TypeOK, EnterDomain, At, Goes, TaskState
<1>3. task'[r].stage \in Asking => task'[r].calls < MaxAttempts
  BY <1>2 DEF IInv, CallsLeft, Asking, EnterDomain
<1>4. readers' = readers /\ budget' = budget
      /\ domain[Host[r]] > 0 /\ domain' = [domain EXCEPT ![Host[r]] = @ - 1]
  BY DEF IInv, TypeOK, EnterDomain, gates
<1>5. OthersStay(r)
  BY DEF IInv, TypeOK, EnterDomain, Goes, OthersStay
<1>6. Balanced(r)
  BY <1>2, <1>4, Holds, HostsAssumption DEF One, IInv, TypeOK, Balanced
<1>7. UNCHANGED reader /\ phase # "closed" /\ task[r].stage \in Running
  BY <1>2, Holds DEF EnterDomain, At
<1> QED BY <1>1, <1>3, <1>5, <1>6, <1>7, OneReadMoves

LEMMA PausedIInv ==
  ASSUME IInv, NEW r \in Refs, Paused(r)
  PROVE  IInv'
<1>1. TypeOK'
  BY TaskType DEF IInv, TypeOK, Paused, At, Goes, gates, reader, TaskState, Passed
<1>2. task[r].stage = "pause" /\ task'[r].stage = "global" /\ task'[r].calls = task[r].calls
  BY TaskType DEF IInv, TypeOK, Paused, At, Goes, TaskState
<1>3. task'[r].stage \in Asking => task'[r].calls < MaxAttempts
  BY <1>2 DEF IInv, CallsLeft, Asking, Paused
<1>4. readers' = readers /\ budget' = budget /\ domain' = domain
  BY DEF IInv, TypeOK, Paused, gates
<1>5. OthersStay(r)
  BY DEF IInv, TypeOK, Paused, Goes, OthersStay
<1>6. Balanced(r)
  BY <1>2, <1>4, Holds, HostsAssumption DEF One, IInv, TypeOK, Balanced
<1>7. UNCHANGED reader /\ phase # "closed" /\ task[r].stage \in Running
  BY <1>2, Holds DEF Paused, At
<1> QED BY <1>1, <1>3, <1>5, <1>6, <1>7, OneReadMoves

LEMMA SendIInv ==
  ASSUME IInv, NEW r \in Refs, Send(r)
  PROVE  IInv'
<1>1. TypeOK'
  BY TaskType DEF IInv, TypeOK, Send, At, Goes, gates, reader, TaskState, Passed
<1>2. task[r].stage = "global" /\ task'[r].stage = "sent" /\ task'[r].calls = task[r].calls + 1
  BY TaskType DEF IInv, TypeOK, Send, At, Goes, TaskState
<1>3. task'[r].stage \in Asking => task'[r].calls < MaxAttempts
  BY <1>2 DEF IInv, CallsLeft, Asking, Send
<1>4. readers' = readers /\ budget' + 1 = budget /\ domain' = domain
  BY DEF IInv, TypeOK, Send, gates
<1>5. OthersStay(r)
  BY DEF IInv, TypeOK, Send, Goes, OthersStay
<1>6. Balanced(r)
  BY <1>2, <1>4, Holds, HostsAssumption DEF One, IInv, TypeOK, Balanced
<1>7. UNCHANGED reader /\ phase # "closed" /\ task[r].stage \in Running
  BY <1>2, Holds DEF Send, At
<1> QED BY <1>1, <1>3, <1>5, <1>6, <1>7, OneReadMoves

LEMMA AnsweredIInv ==
  ASSUME IInv, NEW r \in Refs, NEW answer \in Answers, NEW after \in Nat,
         Answered(r, answer, after)
  PROVE  IInv'
<1>1. TypeOK'
  <2>1. Host[r] \in Hosts /\ domain[Host[r]] \in Nat /\ cooldown[Host[r]] \in Nat
    BY HostsAssumption DEF IInv, TypeOK
  <2>2. domain' \in [Hosts -> Nat]
    BY <2>1 DEF IInv, TypeOK, Answered, Leaves
  <2>3. task' \in [Refs -> TaskState]
    BY DEF IInv, TypeOK, Answered, TaskState, Passed
  <2>4. cooldown' \in [Hosts -> Nat]
    BY <2>1, SizesAssumption DEF IInv, TypeOK, Answered, Larger, Smaller
  <2> QED BY <2>2, <2>3, <2>4 DEF IInv, TypeOK, Answered, reader, Leaves
<1>2. task[r].stage = "sent" /\ task'[r].stage = "body" /\ task'[r].calls = task[r].calls
  BY HostsAssumption, SizesAssumption DEF IInv, TypeOK, Answered, At, Goes, TaskState
<1>3. task'[r].stage \in Asking => task'[r].calls < MaxAttempts
  BY <1>2 DEF IInv, CallsLeft, Asking, Answered
<1>4. readers' = readers /\ budget' = budget + 1
      /\ domain' = [domain EXCEPT ![Host[r]] = @ + 1]
  BY DEF IInv, TypeOK, Answered, gates, Leaves
<1>5. OthersStay(r)
  BY DEF IInv, TypeOK, Answered, Goes, OthersStay
<1>6. Balanced(r)
  BY <1>2, <1>4, Holds, HostsAssumption DEF One, IInv, TypeOK, Balanced
<1>7. UNCHANGED reader /\ phase # "closed" /\ task[r].stage \in Running
  BY <1>2, Holds DEF Answered, At
<1> QED BY <1>1, <1>3, <1>5, <1>6, <1>7, OneReadMoves

LEMMA BrokenIInv ==
  ASSUME IInv, NEW r \in Refs, Broken(r)
  PROVE  IInv'
<1>1. TypeOK'
  <2>1. Host[r] \in Hosts /\ domain[Host[r]] \in Nat /\ cooldown[Host[r]] \in Nat
    BY HostsAssumption DEF IInv, TypeOK
  <2>2. domain' \in [Hosts -> Nat]
    BY <2>1 DEF IInv, TypeOK, Broken, Leaves
  <2>3. task' \in [Refs -> TaskState]
    BY DEF IInv, TypeOK, Broken, TaskState, Passed
  <2> QED BY <2>2, <2>3 DEF IInv, TypeOK, Broken, reader, Leaves
<1>2. task[r].stage = "sent" /\ task'[r].stage = "failed" /\ task'[r].calls = task[r].calls
  BY HostsAssumption, SizesAssumption DEF IInv, TypeOK, Broken, At, Goes, TaskState
<1>3. task'[r].stage \in Asking => task'[r].calls < MaxAttempts
  BY <1>2 DEF IInv, CallsLeft, Asking, Broken
<1>4. readers' = readers /\ budget' = budget + 1
      /\ domain' = [domain EXCEPT ![Host[r]] = @ + 1]
  BY DEF IInv, TypeOK, Broken, gates, Leaves
<1>5. OthersStay(r)
  BY DEF IInv, TypeOK, Broken, Goes, OthersStay
<1>6. Balanced(r)
  BY <1>2, <1>4, Holds, HostsAssumption DEF One, IInv, TypeOK, Balanced
<1>7. UNCHANGED reader /\ phase # "closed" /\ task[r].stage \in Running
  BY <1>2, Holds DEF Broken, At
<1> QED BY <1>1, <1>3, <1>5, <1>6, <1>7, OneReadMoves

LEMMA RetryIInv ==
  ASSUME IInv, NEW r \in Refs, Retry(r)
  PROVE  IInv'
<1>1. TypeOK'
  <2>1. PICK delay \in Backoffs(task[r].calls) :
          task' = [task EXCEPT ![r].stage = "backoff", ![r].answer = "none", ![r].after = 0,
                     ![r].wait = Larger(delay, Smaller(task[r].after, MaxDelay))]
    BY DEF Retry
  <2>2. Larger(delay, Smaller(task[r].after, MaxDelay)) \in Nat
    BY SizesAssumption DEF IInv, TypeOK, TaskState, Backoffs, Larger, Smaller
  <2> DEFINE new == [task[r] EXCEPT !.stage = "backoff", !.answer = "none", !.after = 0,
                       !.wait = Larger(delay, Smaller(task[r].after, MaxDelay))]
  <2>3. new \in TaskState
    BY <2>2 DEF IInv, TypeOK, TaskState, Passed, Answers
  <2>4. task' = [task EXCEPT ![r] = new]
    BY <2>1
  <2> HIDE DEF new
  <2>5. task' \in [Refs -> TaskState]
    BY <2>3, <2>4 DEF IInv, TypeOK
  <2> QED BY <2>5 DEF IInv, TypeOK, Retry, gates, reader
<1>2. task[r].stage = "failed" /\ task'[r].stage = "backoff" /\ task'[r].calls = task[r].calls
  BY TaskType DEF IInv, TypeOK, Retry, At, Goes, TaskState
<1>3. task'[r].stage \in Asking => task'[r].calls < MaxAttempts
  BY <1>2 DEF IInv, CallsLeft, Asking, Retry
<1>4. readers' = readers /\ budget' = budget /\ domain' = domain
  BY DEF IInv, TypeOK, Retry, gates
<1>5. OthersStay(r)
  BY DEF IInv, TypeOK, Retry, Goes, OthersStay
<1>6. Balanced(r)
  BY <1>2, <1>4, Holds, HostsAssumption DEF One, IInv, TypeOK, Balanced
<1>7. UNCHANGED reader /\ phase # "closed" /\ task[r].stage \in Running
  BY <1>2, Holds DEF Retry, At
<1> QED BY <1>1, <1>3, <1>5, <1>6, <1>7, OneReadMoves

LEMMA GivesUpIInv ==
  ASSUME IInv, NEW r \in Refs, GivesUp(r)
  PROVE  IInv'
<1>1. TypeOK'
  BY TaskType DEF IInv, TypeOK, GivesUp, At, Goes, gates, reader, TaskState, Passed
<1>2. task[r].stage = "failed" /\ task'[r].stage = "done"
  BY TaskType DEF IInv, TypeOK, GivesUp, At, Goes, TaskState
<1>3. task'[r].stage \in Asking => task'[r].calls < MaxAttempts
  BY <1>2 DEF IInv, CallsLeft, Asking, GivesUp
<1>4. readers' = readers + 1 /\ budget' = budget /\ domain' = domain
  BY DEF IInv, TypeOK, GivesUp, gates
<1>5. OthersStay(r)
  BY DEF IInv, TypeOK, GivesUp, Goes, OthersStay
<1>6. Balanced(r)
  BY <1>2, <1>4, Holds, HostsAssumption DEF One, IInv, TypeOK, Balanced
<1>7. UNCHANGED reader /\ phase # "closed" /\ task[r].stage \in Running
  BY <1>2, Holds DEF GivesUp, At
<1> QED BY <1>1, <1>3, <1>5, <1>6, <1>7, OneReadMoves

LEMMA SendsAgainIInv ==
  ASSUME IInv, NEW r \in Refs, SendsAgain(r)
  PROVE  IInv'
<1>1. TypeOK'
  BY TaskType DEF IInv, TypeOK, SendsAgain, At, Goes, gates, reader, TaskState, Passed
<1>2. task[r].stage = "backoff" /\ task'[r].stage = "domain" /\ task'[r].calls = task[r].calls
  BY TaskType DEF IInv, TypeOK, SendsAgain, At, Goes, TaskState
<1>3. task'[r].stage \in Asking => task'[r].calls < MaxAttempts
  BY <1>2 DEF IInv, CallsLeft, Asking, SendsAgain
<1>4. readers' = readers /\ budget' = budget /\ domain' = domain
  BY DEF IInv, TypeOK, SendsAgain, gates
<1>5. OthersStay(r)
  BY DEF IInv, TypeOK, SendsAgain, Goes, OthersStay
<1>6. Balanced(r)
  BY <1>2, <1>4, Holds, HostsAssumption DEF One, IInv, TypeOK, Balanced
<1>7. UNCHANGED reader /\ phase # "closed" /\ task[r].stage \in Running
  BY <1>2, Holds DEF SendsAgain, At
<1> QED BY <1>1, <1>3, <1>5, <1>6, <1>7, OneReadMoves

LEMMA BodyReadIInv ==
  ASSUME IInv, NEW r \in Refs, BodyRead(r)
  PROVE  IInv'
<1>1. TypeOK'
  <2>1. task' \in [Refs -> TaskState]
    BY TaskType DEF IInv, TypeOK, BodyRead, Goes, TaskState, Passed
  <2> QED BY <2>1 DEF IInv, TypeOK, BodyRead, reader
<1>2. /\ task[r].stage = "body"
      /\ \/ task'[r].stage = "done" /\ readers' = readers + 1
         \/ task'[r].stage = "failed" /\ readers' = readers
  BY TaskType DEF IInv, TypeOK, BodyRead, At, Goes, TaskState
<1>3. task'[r].stage \in Asking => task'[r].calls < MaxAttempts
  BY <1>2 DEF Asking
<1>4. budget' = budget /\ domain' = domain
  BY DEF BodyRead
<1>5. OthersStay(r)
  BY DEF IInv, TypeOK, BodyRead, Goes, OthersStay
<1>6. Balanced(r)
  BY <1>2, <1>4, Holds DEF One, IInv, TypeOK, Balanced
<1>7. UNCHANGED reader /\ phase # "closed" /\ task[r].stage \in Running
  BY <1>2, Holds DEF BodyRead, At
<1> QED BY <1>1, <1>3, <1>5, <1>6, <1>7, OneReadMoves

\* A cancelled read gives back what its stage says it holds, and no more.
LEMMA CancelIInv ==
  ASSUME IInv, NEW r \in Refs, Cancel(r)
  PROVE  IInv'
<1>1. task' = [task EXCEPT ![r] = Task("cancelled")] /\ task'[r].stage = "cancelled"
  BY TaskType DEF IInv, TypeOK, Cancel
<1>2. TypeOK'
  <2>1. Host[r] \in Hosts /\ domain[Host[r]] \in Nat
    BY HostsAssumption DEF IInv, TypeOK
  <2>2. task' \in [Refs -> TaskState]
    BY <1>1, TaskType DEF IInv, TypeOK
  <2>3. domain' \in [Hosts -> Nat]
    BY <2>1 DEF IInv, TypeOK, Cancel
  <2>4. readers' \in Nat /\ budget' \in Nat
    BY DEF IInv, TypeOK, Cancel
  <2> QED BY <2>2, <2>3, <2>4 DEF IInv, TypeOK, Cancel, reader
<1>3. task'[r].stage \notin Asking
  BY <1>1 DEF Asking
<1>4. OthersStay(r)
  BY <1>1 DEF IInv, TypeOK, OthersStay
<1>5. Balanced(r)
  <2>1. /\ One(task'[r].stage = "sent") = 0
        /\ One(task'[r].stage \in Passed) = 0
        /\ \A h \in Hosts : One(task'[r].stage \in InDomain /\ Host[r] = h) = 0
    BY <1>1, Holds DEF One
  <2>2. budget' = budget + One(task[r].stage = "sent")
    BY DEF Cancel, One, IInv, TypeOK
  <2>3. readers' = readers + One(task[r].stage \in Passed)
    BY DEF Cancel, One, IInv, TypeOK
  <2>4. \A h \in Hosts :
          domain'[h] = domain[h] + One(task[r].stage \in InDomain /\ Host[r] = h)
    BY HostsAssumption DEF Cancel, One, IInv, TypeOK
  <2> QED BY <1>2, <2>1, <2>2, <2>3, <2>4 DEF Balanced, TypeOK
<1>6. UNCHANGED reader /\ phase # "closed" /\ task[r].stage \in Running
  BY DEF Cancel, Running
<1> QED BY <1>2, <1>3, <1>4, <1>5, <1>6, OneReadMoves

-----------------------------------------------------------------------------
(* Time, and the reader.                                                   *)

\* Nothing is counted that a step leaves where it is.
LEMMA SameStages ==
  ASSUME IInv, UNCHANGED gates,
         \A q \in Refs : (task'[q].stage = task[q].stage
                           \/ {task[q].stage, task'[q].stage} \subseteq {"none", "queued"})
  PROVE  Accounts'
<1>1. Sent' = Sent /\ Reading' = Reading /\ \A h \in Hosts : Inside(h)' = Inside(h)
  BY DEF Sent, Reading, Inside, Passed, InDomain
<1> QED BY <1>1 DEF IInv, Accounts, BudgetAccount, ReadersAccount, HostAccount, gates

LEMMA TickIInv ==
  ASSUME IInv, Tick
  PROVE  IInv'
<1>1. \A q \in Refs : /\ task'[q] \in TaskState
                       /\ task'[q].stage = task[q].stage /\ task'[q].calls = task[q].calls
  BY DEF IInv, TypeOK, Tick, Less, TaskState
<1>2. TypeOK'
  <2>1. task' \in [Refs -> TaskState]
    BY <1>1 DEF Tick
  <2>2. cooldown' \in [Hosts -> Nat]
    <3>1. \A n \in Nat : Less(n) \in Nat
      BY DEF Less
    <3>2. cooldown \in [Hosts -> Nat] /\ cooldown' = [h \in Hosts |-> Less(cooldown[h])]
      BY DEF IInv, TypeOK, Tick
    <3> QED BY <3>1, <3>2
  <2> QED BY <2>1, <2>2 DEF IInv, TypeOK, Tick, gates, reader
<1>3. Accounts'
  BY <1>1, SameStages DEF Tick
<1>4. WindowInv'
  <2>1. created' = created /\ taken' = taken
    BY DEF Tick, reader
  <2> QED BY <1>1, <2>1 DEF IInv, WindowInv
<1>5. CallsLeft'
  BY <1>1 DEF IInv, CallsLeft
<1>6. ClosedInv'
  BY DEF Tick, ClosedInv, reader
<1> QED BY <1>2, <1>3, <1>4, <1>5, <1>6 DEF IInv

\* The result at the head of the window is taken, and the window moves on by one.
LEMMA TakeIInv ==
  ASSUME IInv, Take
  PROVE  IInv'
<1>1. /\ taken \in 0..References /\ taken < References /\ taken' = taken + 1
      /\ created \in 0..References /\ created = Smaller(taken + 2 * Workers, References)
      /\ phase' = phase /\ phase = "reading"
  BY DEF IInv, TypeOK, WindowInv, Take
<1>2. created' = Smaller(taken' + 2 * Workers, References) /\ created' \in 0..References
  BY <1>1, SizesAssumption DEF Take, Smaller
<1>3. taken + 1 <= created /\ created <= created'
  BY <1>1, SizesAssumption DEF Take, Smaller
<1>4. /\ task' \in [Refs -> TaskState]
      /\ \A q \in Refs :
           \/ task'[q] = task[q]
           \/ /\ q = created' /\ q > created
              /\ task[q].stage = "none" /\ task'[q] = Task("queued")
  <2>1. CASE created < References
    <3>1. created + 1 \in Refs /\ created + 1 = created' /\ task[created + 1].stage = "none"
      BY <1>1, <2>1, SizesAssumption DEF IInv, WindowInv, Refs, Take, Smaller
    <3>2. task' = [task EXCEPT ![created + 1] = Task("queued")]
      BY <2>1 DEF Take
    <3>3. task \in [Refs -> TaskState] /\ Task("queued") \in TaskState
      BY TaskType DEF IInv, TypeOK
    <3>4. task' \in [Refs -> TaskState]
      BY <3>2, <3>3
    <3>5. task'[created + 1] = Task("queued") /\ \A q \in Refs \ {created + 1} : task'[q] = task[q]
      BY <3>1, <3>2, <3>3
    <3>6. created' > created
      BY <1>1, <3>1
    <3> QED BY <3>1, <3>4, <3>5, <3>6
  <2>2. CASE ~(created < References)
    <3>1. task' = task
      BY <2>2 DEF Take
    <3> QED BY <3>1 DEF IInv, TypeOK
  <2> QED BY <2>1, <2>2
<1>5. TypeOK'
  <2>1. taken' \in 0..References
    BY <1>1, SizesAssumption
  <2> QED BY <1>2, <1>4, <2>1 DEF IInv, TypeOK, Take, gates
<1>6. Accounts'
  BY <1>4, TaskType, SameStages DEF Take
<1>7. WindowInv'
  <2>1. ASSUME NEW q \in Refs, q <= taken' PROVE task'[q].stage = "done"
    <3>1. q <= taken \/ q = taken + 1
      BY <1>1, <2>1 DEF Refs
    <3>2. task[q].stage = "done"
      BY <3>1 DEF IInv, WindowInv, Take
    <3> QED BY <1>4, <3>2
  <2>2. ASSUME NEW q \in Refs, q > created' PROVE task'[q].stage = "none"
    <3>1. q > created /\ q # created'
      BY <1>1, <1>2, <1>3, <2>2 DEF Refs
    <3> QED BY <1>4, <3>1 DEF IInv, WindowInv
  <2> QED BY <1>2, <2>1, <2>2 DEF WindowInv
<1>8. CallsLeft'
  BY <1>4, TaskType, SizesAssumption DEF IInv, CallsLeft
<1>9. ClosedInv'
  BY <1>1 DEF ClosedInv
<1> QED BY <1>5, <1>6, <1>7, <1>8, <1>9 DEF IInv

LEMMA StopIInv ==
  ASSUME IInv, Stop
  PROVE  IInv'
<1>1. TypeOK' /\ WindowInv' /\ CallsLeft' /\ ClosedInv'
  BY DEF Stop, IInv, TypeOK, WindowInv, CallsLeft, ClosedInv, gates
<1>2. Accounts'
  BY SameStages DEF Stop
<1> QED BY <1>1, <1>2 DEF IInv

\* When everything was taken, every read is done; otherwise the close waited for them.
LEMMA CloseIInv ==
  ASSUME IInv, Close
  PROVE  IInv'
<1>1. TypeOK' /\ WindowInv' /\ CallsLeft'
  BY DEF Close, IInv, TypeOK, WindowInv, CallsLeft, gates
<1>2. Accounts'
  BY SameStages DEF Close
<1>3. \A q \in Refs : task[q].stage \notin Running
  <2>1. CASE taken = References
    <3>1. \A q \in Refs : task[q].stage = "done"
      BY <2>1, SizesAssumption DEF IInv, WindowInv, Refs
    <3> QED BY <3>1 DEF Running, Passed
  <2>2. CASE taken # References
    BY <2>2 DEF Close
  <2> QED BY <2>1, <2>2
<1>4. ClosedInv'
  BY <1>3 DEF Close, ClosedInv
<1> QED BY <1>1, <1>2, <1>4 DEF IInv

LEMMA StutterIInv ==
  ASSUME IInv, UNCHANGED vars
  PROVE  IInv'
<1>1. TypeOK' /\ WindowInv' /\ CallsLeft' /\ ClosedInv'
  BY DEF vars, IInv, TypeOK, WindowInv, CallsLeft, ClosedInv
<1>2. Accounts'
  BY SameStages DEF vars, gates
<1> QED BY <1>1, <1>2 DEF IInv

-----------------------------------------------------------------------------
(* The invariant, and what follows from it.                                *)

THEOREM NextIInv == IInv /\ [Next]_vars => IInv'
<1> SUFFICES ASSUME IInv, [Next]_vars PROVE IInv'
  OBVIOUS
<1>1. ASSUME NEW r \in Refs, Step(r) PROVE IInv'
  <2>1. CASE Begin(r) BY <2>1, BeginIInv
  <2>2. CASE EnterDomain(r) BY <2>2, EnterDomainIInv
  <2>3. CASE Paused(r) BY <2>3, PausedIInv
  <2>4. CASE Send(r) BY <2>4, SendIInv
  <2>5. CASE BodyRead(r) BY <2>5, BodyReadIInv
  <2>6. CASE Broken(r) BY <2>6, BrokenIInv
  <2>7. CASE Retry(r) BY <2>7, RetryIInv
  <2>8. CASE GivesUp(r) BY <2>8, GivesUpIInv
  <2>9. CASE SendsAgain(r) BY <2>9, SendsAgainIInv
  <2>10. CASE Cancel(r) BY <2>10, CancelIInv
  <2>11. ASSUME NEW answer \in Answers, NEW after \in Nat, Answered(r, answer, after)
         PROVE  IInv'
    BY <2>11, AnsweredIInv
  <2>12. RetryAfters \subseteq Nat /\ {"final", "error", "pause"} \subseteq Answers
    BY SizesAssumption DEF Answers
  <2> QED
    BY <1>1, <2>1, <2>2, <2>3, <2>4, <2>5, <2>6, <2>7, <2>8, <2>9, <2>10, <2>11, <2>12 DEF Step
<1> QED BY <1>1, TickIInv, TakeIInv, StopIInv, CloseIInv, StutterIInv DEF Next

THEOREM SpecIInv == Spec => []IInv
<1> QED BY InitIInv, NextIInv, PTL DEF Spec

\* The requests that wait for an answer of one host have passed its gate.
LEMMA SentInside ==
  ASSUME IInv, NEW h \in Hosts
  PROVE  Cardinality({r \in Sent : Host[r] = h}) <= DomainLimit[h]
<1> DEFINE SentTo == {r \in Sent : Host[r] = h}
<1>1. SentTo \subseteq Inside(h) /\ Inside(h) \subseteq Refs
  BY DEF Sent, Inside, InDomain
<1>2. IsFiniteSet(Inside(h)) /\ Cardinality(Inside(h)) \in Nat /\ Cardinality(SentTo) \in Nat
  BY <1>1, RefsFinite
<1>3. Cardinality(SentTo) <= Cardinality(Inside(h))
  BY <1>1, <1>2, FS_Subset
<1>4. Cardinality(Inside(h)) + domain[h] = DomainLimit[h] /\ domain[h] \in Nat
  BY DEF IInv, Accounts, HostAccount, TypeOK
<1> QED BY <1>2, <1>3, <1>4

\* However reads fail, wait, are repeated or are cancelled, the gates of LimitedTransport let
\* no more requests through than max_concurrency and concurrency_for(host).
THEOREM SpecRequestsWithinLimits == Spec => []RequestsWithinLimits
<1>1. IInv => RequestsWithinLimits
  <2> SUFFICES ASSUME IInv PROVE RequestsWithinLimits
    OBVIOUS
  <2>1. Cardinality(Sent) \in Nat
    BY RefsFinite DEF Sent
  <2>2. Cardinality(Sent) <= MaxConcurrency
    BY <2>1 DEF IInv, TypeOK, Accounts, BudgetAccount
  <2> QED BY <2>2, SentInside DEF IInv, RequestsWithinLimits
<1> QED BY <1>1, SpecIInv, PTL

\* A place of the run's gate is held only by a request a host is answering, never by one
\* that waits for its host's gate or pause (RequestGates).
THEOREM SpecBudgetIsNotSpentWaiting == Spec => []BudgetIsNotSpentWaiting
<1>1. IInv => BudgetIsNotSpentWaiting
  BY DEF IInv, Accounts, BudgetAccount, BudgetIsNotSpentWaiting
<1> QED BY <1>1, SpecIInv, PTL

\* When read_many has returned or was closed, nothing is under way and no gate has lost a place.
THEOREM SpecNoReadGoesOnUnseen == Spec => []NoReadGoesOnUnseen
<1>1. IInv => NoReadGoesOnUnseen
  <2> SUFFICES ASSUME IInv, phase = "closed" PROVE NoReadGoesOnUnseen
    BY DEF NoReadGoesOnUnseen
  <2>1. \A q \in Refs : task[q].stage \notin Passed
    BY Holds DEF IInv, ClosedInv
  <2>2. Reading = {} /\ Sent = {} /\ \A h \in Hosts : Inside(h) = {}
    BY <2>1, Holds DEF Reading, Sent, Inside
  <2>3. Cardinality({}) = 0
    BY FS_EmptySet
  <2>4. readers = Workers /\ budget = MaxConcurrency
    BY <2>2, <2>3 DEF IInv, TypeOK, Accounts, BudgetAccount, ReadersAccount
  <2>5. ASSUME NEW h \in Hosts PROVE domain[h] = DomainLimit[h]
    <3>1. 0 + domain[h] = DomainLimit[h]
      BY <2>2, <2>3 DEF IInv, Accounts, HostAccount
    <3> QED BY <3>1 DEF IInv, TypeOK
  <2>6. domain = DomainLimit
    BY <2>5, HostsAssumption DEF IInv, TypeOK
  <2> QED BY <2>2, <2>4, <2>6 DEF NoReadGoesOnUnseen
<1> QED BY <1>1, SpecIInv, PTL

\* read_many never has more than twice `workers` reads that were begun and not handed over.
THEOREM SpecReadAheadIsBounded == Spec => []ReadAheadIsBounded
<1>1. IInv => ReadAheadIsBounded
  <2> SUFFICES ASSUME IInv PROVE ReadAheadIsBounded
    OBVIOUS
  <2> DEFINE Ahead == {r \in Refs : r > taken /\ task[r].stage # "none"}
  <2>1. taken \in Nat /\ created \in Nat /\ created <= taken + 2 * Workers
    BY SizesAssumption DEF IInv, TypeOK, WindowInv, Smaller
  <2>2. Ahead \subseteq (taken + 1)..created
    BY <2>1 DEF IInv, WindowInv, Refs
  <2>3. /\ IsFiniteSet((taken + 1)..created)
        /\ Cardinality((taken + 1)..created)
             = IF taken + 1 > created THEN 0 ELSE created - (taken + 1) + 1
    BY <2>1, FS_Interval
  <2>4. Cardinality(Ahead) \in Nat /\ Cardinality(Ahead) <= Cardinality((taken + 1)..created)
    BY <2>2, <2>3, FS_Subset, RefsFinite
  <2>5. Cardinality((taken + 1)..created) <= 2 * Workers
    BY <2>1, <2>3, SizesAssumption
  <2>6. Cardinality((taken + 1)..created) \in Nat
    BY <2>1, <2>3
  <2>7. Cardinality(Ahead) <= 2 * Workers
    BY <2>4, <2>5, <2>6, SizesAssumption
  <2> QED BY <2>7 DEF ReadAheadIsBounded
<1> QED BY <1>1, SpecIInv, PTL

(***************************************************************************)
(* SourceLoad.  A post is a number, so a listing is told by how far down   *)
(* it has come (Bottom): what is above and was not brought was published   *)
(* since the first page.  Where the paging ends, something is left below:  *)
(* for the ceiling, then there are as many newer posts as the ceiling      *)
(* allows; for a page it knows, then something stored lies above what is   *)
(* left.  From that the stored posts keep together, load after load.       *)
(***************************************************************************)

------------------------------------------------------------------------------
(* The newest of a set *)

\* A finite set of posts has a newest one.
LEMMA Greatest ==
  ASSUME NEW S \in SUBSET Int, IsFiniteSet(S), S # {}
  PROVE  \E m \in S : \A k \in S : k <= m
<1> DEFINE Above(m) == {k \in S : k >= m}
           T == {Above(m) : m \in S}
<1>1. IsWellFoundedOn(StrictSubsetOrdering(S), SUBSET S)
  BY FS_StrictSubsetOrderingWellFounded, FS_FiniteSubsetsOfFinite
<1>2. T \subseteq SUBSET S /\ T # {}
  OBVIOUS
<1>3. PICK X \in T : \A Y \in T : <<Y, X>> \notin StrictSubsetOrdering(S)
  <2> HIDE DEF T
  <2> QED  BY <1>1, <1>2, WFMin
<1>4. PICK m \in S : X = Above(m)
  BY <1>3
<1>5. ASSUME NEW k \in S, k > m PROVE FALSE
  <2>1. Above(k) \in T
    OBVIOUS
  <2>2. Above(k) \subseteq X /\ m \in X /\ m \notin Above(k)
    <3>1. m \in Int /\ k \in Int
      OBVIOUS
    <3>2. \A j \in S : j \in Int /\ (j >= k => j >= m)
      BY <3>1, <1>5
    <3>3. m \in Above(m) /\ m \notin Above(k)
      BY <3>1, <1>5
    <3>4. \A j : j \in Above(k) <=> j \in S /\ j >= k
      OBVIOUS
    <3>5. \A j : j \in Above(m) <=> j \in S /\ j >= m
      OBVIOUS
    <3> HIDE DEF Above, T
    <3> QED  BY <1>4, <3>2, <3>3, <3>4, <3>5
  <2>3. Above(k) \in SUBSET S /\ X \in SUBSET S
    BY <1>2, <1>3, <2>1
  <2> HIDE DEF T, Above
  <2>4. <<Above(k), X>> \in StrictSubsetOrdering(S)
    BY <2>2, <2>3 DEF StrictSubsetOrdering
  <2> QED  BY <1>3, <2>1, <2>4
<1> QED  BY <1>5

\* ... and an oldest one.
LEMMA Least ==
  ASSUME NEW S \in SUBSET Int, IsFiniteSet(S), S # {}
  PROVE  \E m \in S : \A k \in S : m <= k
<1> DEFINE Below(m) == {k \in S : k <= m}
           T == {Below(m) : m \in S}
<1>1. IsWellFoundedOn(StrictSubsetOrdering(S), SUBSET S)
  BY FS_StrictSubsetOrderingWellFounded, FS_FiniteSubsetsOfFinite
<1>2. T \subseteq SUBSET S /\ T # {}
  OBVIOUS
<1>3. PICK X \in T : \A Y \in T : <<Y, X>> \notin StrictSubsetOrdering(S)
  <2> HIDE DEF T
  <2> QED  BY <1>1, <1>2, WFMin
<1>4. PICK m \in S : X = Below(m)
  BY <1>3
<1>5. ASSUME NEW k \in S, k < m PROVE FALSE
  <2>1. Below(k) \in T
    OBVIOUS
  <2>2. Below(k) \subseteq X /\ m \in X /\ m \notin Below(k)
    <3>1. m \in Int /\ k \in Int
      OBVIOUS
    <3>2. \A j \in S : j \in Int /\ (j <= k => j <= m)
      BY <3>1, <1>5
    <3>3. m \in Below(m) /\ m \notin Below(k)
      BY <3>1, <1>5
    <3>4. \A j : j \in Below(k) <=> j \in S /\ j <= k
      OBVIOUS
    <3>5. \A j : j \in Below(m) <=> j \in S /\ j <= m
      OBVIOUS
    <3> HIDE DEF Below, T
    <3> QED  BY <1>4, <3>2, <3>3, <3>4, <3>5
  <2>3. Below(k) \in SUBSET S /\ X \in SUBSET S
    BY <1>2, <1>3, <2>1
  <2> HIDE DEF T, Below
  <2>4. <<Below(k), X>> \in StrictSubsetOrdering(S)
    BY <2>2, <2>3 DEF StrictSubsetOrdering
  <2> QED  BY <1>3, <2>1, <2>4
<1> QED  BY <1>5

\* A set of posts is finite.
LEMMA PostsFinite ==
  ASSUME MaxPosts \in Nat, NEW S, S \subseteq Posts
  PROVE  IsFiniteSet(S) /\ Cardinality(S) \in Nat /\ \A p \in S : p \in Int
<1>1. IsFiniteSet(Posts)
  BY FS_Interval DEF Posts
<1>2. IsFiniteSet(S)
  BY <1>1, FS_Subset
<1>3. \A p \in S : p \in Int
  BY DEF Posts
<1> QED  BY <1>2, <1>3, FS_CardinalityType

NewerIn(S, p) == {r \in S : r > p}

\* The newest n are those with fewer than n newer ones.
LEMMA NewestDef ==
  ASSUME NEW S, NEW n
  PROVE  \A p : p \in Newest(S, n) <=> p \in S /\ Cardinality(NewerIn(S, p)) < n
<1> SUFFICES ASSUME NEW p
             PROVE  p \in Newest(S, n) <=> p \in S /\ Cardinality(NewerIn(S, p)) < n
  OBVIOUS
<1> DEFINE Few(r) == Cardinality({q \in S : q > r}) < n
<1>1. Newest(S, n) = {r \in S : Few(r)}
  BY DEF Newest
<1>2. Few(p) <=> Cardinality(NewerIn(S, p)) < n
  BY DEF NewerIn
<1> HIDE DEF Few
<1> QED  BY <1>1, <1>2

\* The newest of a set are of it.
LEMMA NewestWithin == \A S, n : Newest(S, n) \subseteq S
  BY DEF Newest

\* The newer ones of a set of posts are finitely many.
LEMMA NewerFinite ==
  ASSUME MaxPosts \in Nat, NEW S, S \subseteq Posts, NEW p
  PROVE  /\ NewerIn(S, p) \subseteq S /\ IsFiniteSet(NewerIn(S, p))
         /\ Cardinality(NewerIn(S, p)) \in Nat
<1>1. NewerIn(S, p) \subseteq S
  BY DEF NewerIn
<1> QED  BY <1>1, PostsFinite

\* What is left out is older than what is taken.
LEMMA NewestAreNewer ==
  ASSUME MaxPosts \in Nat, NEW S, S \subseteq Posts, NEW n \in Int
  PROVE  \A p \in S \ Newest(S, n) : \A q \in Newest(S, n) : q > p
<1> SUFFICES ASSUME NEW p \in S \ Newest(S, n), NEW q \in Newest(S, n) PROVE q > p
  OBVIOUS
<1>1. Cardinality(NewerIn(S, q)) < n /\ ~(Cardinality(NewerIn(S, p)) < n) /\ q \in S
  BY NewestDef
<1>2. p \in Int /\ q \in Int /\ \A r \in S : r \in Int
  BY <1>1, PostsFinite
<1>3. SUFFICES ASSUME q <= p PROVE FALSE
  BY <1>2
<1>4. NewerIn(S, p) \subseteq NewerIn(S, q)
  <2> SUFFICES ASSUME NEW r \in S, r > p PROVE r > q
    BY DEF NewerIn
  <2> QED  BY <1>2, <1>3
<1>5. Cardinality(NewerIn(S, p)) <= Cardinality(NewerIn(S, q))
  BY <1>4, NewerFinite, FS_Subset
<1>6. Cardinality(NewerIn(S, p)) \in Nat /\ Cardinality(NewerIn(S, q)) \in Nat
  BY NewerFinite
<1> QED  BY <1>1, <1>5, <1>6

\* If some are left out, as many as asked for are taken.
LEMMA NewestAreEnough ==
  ASSUME MaxPosts \in Nat, NEW S, S \subseteq Posts, NEW n \in Int
  PROVE  Newest(S, n) # S => Cardinality(Newest(S, n)) >= n
<1> SUFFICES ASSUME Newest(S, n) # S PROVE Cardinality(Newest(S, n)) >= n
  OBVIOUS
<1> DEFINE out == S \ Newest(S, n)
<1>1. out \subseteq Posts /\ out # {} /\ out \subseteq S
  BY NewestWithin
<1>2. out \in SUBSET Int /\ \A r \in S : r \in Int
  BY <1>1, PostsFinite
<1>3. IsFiniteSet(out)
  BY <1>1, PostsFinite
<1>4. PICK p \in out : \A k \in out : k <= p
  <2> HIDE DEF out
  <2> QED  BY <1>1, <1>2, <1>3, Greatest
<1>5. NewerIn(S, p) \subseteq Newest(S, n)
  <2> SUFFICES ASSUME NEW r \in S, r > p, r \in out PROVE FALSE
    BY DEF NewerIn
  <2> HIDE DEF out
  <2> QED  BY <1>1, <1>2, <1>4
<1>6. ~(Cardinality(NewerIn(S, p)) < n)
  BY NewestDef
<1>7. IsFiniteSet(Newest(S, n)) /\ Cardinality(Newest(S, n)) \in Nat
  BY NewestWithin, PostsFinite
<1>8. Cardinality(NewerIn(S, p)) <= Cardinality(Newest(S, n))
  BY <1>5, <1>7, FS_Subset
<1>9. Cardinality(NewerIn(S, p)) \in Nat
  BY NewerFinite
<1> QED  BY <1>6, <1>7, <1>8, <1>9

\* No more are taken than asked for.
LEMMA NewestAreNoMore ==
  ASSUME MaxPosts \in Nat, NEW S, S \subseteq Posts, NEW n \in Nat
  PROVE  Cardinality(Newest(S, n)) <= n
<1> DEFINE new == Newest(S, n)
<1>1. new \subseteq S /\ new \subseteq Posts /\ \A r \in S : r \in Int
  BY NewestWithin, PostsFinite
<1>2. new \subseteq S /\ IsFiniteSet(new) /\ Cardinality(new) \in Nat /\ \A r \in S : r \in Int
  <2> HIDE DEF new
  <2> QED  BY <1>1, PostsFinite
<1>3. CASE new = {}
  BY <1>3, FS_EmptySet
<1>4. CASE new # {}
  <2>1. new \in SUBSET Int
    BY <1>2
  <2>2. PICK m \in new : \A k \in new : m <= k
    <3> HIDE DEF new
    <3> QED  BY <1>2, <1>4, <2>1, Least
  <2>3. Cardinality(NewerIn(S, m)) < n /\ m \in S
    BY NewestDef
  <2> HIDE DEF new
  <2>4. new \subseteq NewerIn(S, m) \cup {m}
    <3> SUFFICES ASSUME NEW k \in new, k # m PROVE k \in S /\ k > m
      BY DEF NewerIn
    <3> QED  BY <1>2, <2>2, <2>3
  <2>5. IsFiniteSet(NewerIn(S, m)) /\ Cardinality(NewerIn(S, m)) \in Nat
    BY NewerFinite
  <2>6. /\ IsFiniteSet(NewerIn(S, m) \cup {m})
        /\ Cardinality(NewerIn(S, m) \cup {m}) <= Cardinality(NewerIn(S, m)) + 1
    BY <2>5, FS_AddElement
  <2>7. Cardinality(new) <= Cardinality(NewerIn(S, m) \cup {m})
    BY <2>4, <2>6, FS_Subset
  <2>8. Cardinality(NewerIn(S, m) \cup {m}) \in Nat
    BY <2>6, FS_CardinalityType
  <2>9. Cardinality(new) <= n
    BY <1>2, <2>3, <2>5, <2>6, <2>7, <2>8
  <2> QED  BY <2>9 DEF new
<1> QED  BY <1>3, <1>4

\* The newest one of a set that is not empty.
LEMMA NewestOne ==
  ASSUME MaxPosts \in Nat, NEW S, S \subseteq Posts, NEW p, Newest(S, 1) = {p}
  PROVE  p \in S /\ \A q \in S : q <= p
<1>1. p \in S /\ p \in Newest(S, 1) /\ \A r \in S : r \in Int
  BY NewestWithin, PostsFinite
<1>2. ASSUME NEW q \in S, q > p PROVE FALSE
  <2>1. q \in S \ Newest(S, 1) /\ 1 \in Int
    BY <1>1, <1>2
  <2>2. p > q
    BY <1>1, <2>1, NewestAreNewer
  <2> QED  BY <1>1, <1>2, <2>2
<1> QED  BY <1>1, <1>2

------------------------------------------------------------------------------
(* The listing *)

USE DEF siteVars, readVars, pastVars

\* What the repository's settings allow: see the README.

\* A listing with page numbers is not shifted by a whole page between two requests, and
\* nothing that is taken down shifts it the other way.
Steady == \A s \in Sources : s.paging = "page" => s.removals = 0 /\ MaxShift < PageSize

Listable == IF source.paging = "before" THEN Visible \ NoText ELSE Visible
ToRead == Visible \ NoText

\* How far down the pages fetched so far reach.
Bottom == IF source.paging = "page"
          THEN published - shift - load.page * PageSize + 1
          ELSE IF load.page = 0 THEN MaxPosts + 1 ELSE load.before

LoadRecords ==
  [phase : {"none", "listing", "reading"}, kind : AllKinds, from : Nat, to : Nat,
   cutoff : Nat, until : BOOLEAN, limit : Nat, top : Nat, page : Nat, before : Nat,
   refs : SUBSET Posts, todo : SUBSET Posts, older : Nat]

\* The posts a listing brought are those down to Bottom, but for the ones published since
\* its first page, which are newer than all of them.
ListedWell ==
  load.phase = "listing" =>
    /\ load.todo = {} /\ load.older = 0
    /\ load.page = 0 => load.refs = {} /\ load.before = 0 /\ published - shift = load.top
    /\ published - shift >= load.top
    /\ \A o \in stored : o <= load.top
    /\ load.until => last = "completed" /\ load.from = 0
    /\ Cardinality(load.refs) <= load.limit
    /\ load.page > 0 /\ source.paging = "before" =>
         load.before > 0 /\ load.before + load.page <= MaxPosts + 1
    /\ \A q \in load.refs : q >= Bottom
    /\ \A p \in Listable \ load.refs : p >= Bottom =>
         /\ p > load.top /\ \A q \in load.refs : q < p
         /\ source.paging = "page" /\ load.page > 0 => p >= Bottom + PageSize

LoadGoes ==
  /\ top <= published /\ published - top <= MaxBacklog
  /\ stored \subseteq 1..published /\ published <= source.posts
  /\ source.paging = "page" => removed = {} /\ aged = 0
  /\ load.phase # "none" =>
       /\ load.kind \in source.kinds
       /\ top <= load.top /\ load.top <= published /\ load.refs \subseteq 1..published
       /\ load.from > 0 \/ load.to > 0 => source.dates # {}
       /\ load.from > 0 => load.limit = Limit
       /\ source.paging = "page" => load.cutoff = 0
       /\ \A q \in load.refs : q > load.cutoff
  /\ load.phase = "none" => load = NoLoad

\* What the assumptions say of the source and the sizes.
LEMMA SourceFacts ==
  ASSUME LoadTypeOK
  PROVE  /\ source.paging \in {"page", "before"} /\ source.kinds \subseteq AllKinds
         /\ source.posts \in 0..MaxPosts /\ source.archive \in 0..source.posts
         /\ source.removals \in Nat /\ source.breaks \in Nat /\ source.dates \subseteq Nat
         /\ PageSize \in Nat \ {0} /\ Limit \in Nat \ {0} /\ FirstLimit \in Nat \ {0}
         /\ StopAfterOlder \in Nat \ {0} /\ MaxPosts \in Nat /\ MaxShift \in Nat
         /\ MaxBacklog \in Nat
  BY SourcesAssumption, LoadSizesAssumption DEF LoadTypeOK

\* A load is a record, whether it is under way or not.
LEMMA LoadShape ==
  ASSUME LoadTypeOK
  PROVE  load \in LoadRecords
<1>1. /\ 0..MaxPosts \subseteq Nat /\ 0..StopAfterOlder \subseteq Nat
      /\ {Limit, FirstLimit} \subseteq Nat
  BY SourceFacts
<1>2. CASE load = NoLoad
  BY <1>2 DEF NoLoad, LoadRecords, AllKinds
<1>3. CASE load # NoLoad
  BY <1>1, <1>3 DEF LoadTypeOK, LoadRecords
<1> QED  BY <1>2, <1>3

\* The visible posts are published ones.
LEMMA VisiblePosts ==
  ASSUME LoadTypeOK
  PROVE  /\ published \in Nat /\ Visible \subseteq 1..published
         /\ Visible \subseteq 1..MaxPosts /\ Posts = 1..MaxPosts
         /\ \A p \in Visible : p \in Nat
         /\ Listable \subseteq Visible /\ ToRead \subseteq Listable
         /\ ToRead \subseteq Visible
  BY SourceFacts DEF LoadTypeOK, Visible, Posts, Listable, ToRead

\* The page a post is on: its rank divided by the size of a page.
LEMMA PageOfRank ==
  ASSUME NEW x \in Nat, NEW d \in Nat \ {0}, NEW k \in Nat
  PROVE  x \div d = k <=> k * d <= x /\ x < k * d + d
  OBVIOUS

\* A page of a listing with page numbers.
LEMMA NumberedPage ==
  ASSUME LoadTypeOK, source.paging = "page", removed = {}, load.page \in Nat
  PROVE  /\ Visible = 1..published
         /\ \A p \in 1..published :
              p \in Page <=> /\ load.page * PageSize <= published - p
                             /\ published - p < load.page * PageSize + PageSize
<1>1. Visible = 1..published
  BY DEF Visible
<1>2. SUFFICES ASSUME NEW p \in 1..published
               PROVE  p \in Page <=> /\ load.page * PageSize <= published - p
                                     /\ published - p < load.page * PageSize + PageSize
  BY <1>1
<1>3. published \in Nat /\ PageSize \in Nat \ {0}
  BY SourceFacts, VisiblePosts
<1> DEFINE rank == Cardinality({q \in Visible : q > p})
<1>4. rank = published - p
  <2>1. {q \in Visible : q > p} = (p + 1)..published
    BY <1>1, <1>3
  <2>2. Cardinality((p + 1)..published) = published - p
    BY <1>3, FS_Interval
  <2> QED  BY <2>1, <2>2
<1>5. p \in Page <=> rank \div PageSize = load.page
  BY <1>1 DEF Page
<1> HIDE DEF rank
<1>6. published - p \in Nat
  BY <1>3
<1> QED  BY <1>3, <1>4, <1>5, <1>6, PageOfRank

\* What the next page of a listing holds.
LEMMA PageFacts ==
  ASSUME Steady, LoadTypeOK, LoadGoes, ListedWell, load.phase = "listing"
  PROVE  /\ Bottom \in Int /\ Page \subseteq Visible
         /\ \A p \in Visible : p \notin Page /\ p < Bottom => \A q \in Page : q > p
         /\ \A q \in Listable : q \in Page /\ q \notin load.refs /\ load.page > 0 => q < Bottom
         /\ load.page = 0 => \A p \in Visible : p >= Bottom => p \in Page
         /\ Page = {} \/ (source.paging = "page" /\ Page \subseteq load.refs)
              => \A p \in Visible : p >= Bottom
         /\ source.paging = "before" => \A q \in Page : q < Bottom
<1>1. /\ PageSize \in Int /\ load \in LoadRecords /\ published \in Nat
      /\ shift \in 0..MaxShift /\ MaxShift \in Nat
      /\ PageSize \in Nat \ {0} /\ MaxPosts \in Nat /\ source \in Sources
      /\ source.paging \in {"page", "before"}
  BY SourceFacts, LoadShape, VisiblePosts DEF LoadTypeOK
<1>2. load.page \in Nat /\ load.before \in Nat /\ load.refs \subseteq Posts
  BY <1>1 DEF LoadRecords
<1>3. CASE source.paging = "page"
  <2> DEFINE B == published - shift - load.page * PageSize + 1
             P == Page
  <2>1. removed = {} /\ MaxShift < PageSize /\ Bottom = B /\ Listable = Visible
    BY <1>1, <1>3 DEF LoadGoes, Steady, Bottom, Listable
  <2>2. load.page * PageSize \in Nat /\ (load.page = 0 => load.page * PageSize = 0)
    BY <1>1, <1>2
  <2>3. B \in Int
    BY <1>1, <2>2
  <2>4. /\ Visible = 1..published
        /\ \A p \in 1..published :
             p \in P <=> /\ load.page * PageSize <= published - p
                         /\ published - p < load.page * PageSize + PageSize
    BY <1>2, <1>3, <2>1, NumberedPage
  <2>5. P \subseteq 1..published
    BY <1>3, <2>4 DEF Page
  <2>6. /\ \A q \in load.refs : q >= B
        /\ \A p \in 1..published : p \notin load.refs /\ p >= B /\ load.page > 0
             => p >= B + PageSize
    BY <1>3, <2>1, <2>4 DEF ListedWell
  <2>7. load.refs \subseteq Int
    BY <1>1, <1>2 DEF Posts
  <2> HIDE DEF P
  <2> DEFINE m == load.page * PageSize
  <2> HIDE DEF m
  <2>8. /\ B = published - shift - m + 1 /\ m \in Nat /\ (load.page = 0 => m = 0)
        /\ \A p \in 1..published : p \in P <=> m <= published - p /\ published - p < m + PageSize
    BY <2>2, <2>4 DEF m
  <2> HIDE DEF B
  <2>9. \A p \in 1..published : p \notin P /\ p < B => \A q \in P : q > p
    BY <1>1, <2>5, <2>8
  <2>10. \A q \in 1..published : q \in P /\ q \notin load.refs /\ load.page > 0 => q < B
    BY <1>1, <2>1, <2>3, <2>6, <2>8
  <2>11. load.page = 0 => \A p \in 1..published : p >= B => p \in P
    BY <1>1, <2>1, <2>8
  <2>12. ASSUME P \subseteq load.refs, NEW p \in 1..published, p < B PROVE FALSE
    <3>1. B - 1 \in 1..published
      BY <1>1, <2>3, <2>8, <2>12
    <3>2. B - 1 \in P
      BY <1>1, <2>1, <2>8, <3>1
    <3>3. ~(B - 1 >= B)
      BY <2>3
    <3> QED  BY <2>6, <2>12, <3>2, <3>3
  <2>13. P = {} \/ P \subseteq load.refs => \A p \in 1..published : p >= B
    <3> SUFFICES ASSUME P \subseteq load.refs, NEW p \in 1..published PROVE p >= B
      OBVIOUS
    <3>1. ~(p < B)
      BY <2>12
    <3> QED  BY <1>1, <2>3, <3>1
  <2> QED  BY <1>3, <2>1, <2>3, <2>4, <2>5, <2>9, <2>10, <2>11, <2>13 DEF P
<1>4. CASE source.paging = "before"
  <2> DEFINE S == {p \in Visible : load.before = 0 \/ p < load.before}
  <2>1. Page = Newest(S, PageSize)
    BY <1>4 DEF Page
  <2>2. /\ S \subseteq Visible /\ S \subseteq Posts /\ Posts = 1..MaxPosts
        /\ Visible \subseteq 1..MaxPosts
    BY VisiblePosts
  <2>3. Bottom \in Int /\ \A p \in Visible : p \in S <=> p < Bottom
    <3>1. CASE load.page = 0
      <4>1. load.before = 0 /\ Bottom = MaxPosts + 1
        BY <1>4, <3>1 DEF ListedWell, Bottom
      <4>2. \A p \in Visible : p \in S /\ p < MaxPosts + 1
        BY <1>1, <2>2, <4>1
      <4> QED  BY <1>1, <4>1, <4>2
    <3>2. CASE load.page # 0
      <4>1. load.before > 0 /\ Bottom = load.before
        BY <1>2, <1>4, <3>2 DEF ListedWell, Bottom
      <4> QED  BY <1>2, <4>1
    <3> QED  BY <3>1, <3>2
  <2> HIDE DEF S
  <2>4. Page \subseteq S
    BY <2>1, NewestWithin
  <2>5. \A p \in S \ Page : \A q \in Page : q > p
    BY <1>1, <2>1, <2>2, NewestAreNewer
  <2>6. ASSUME Page = {} PROVE S = {}
    <3>1. CASE Newest(S, PageSize) = S
      BY <2>1, <2>6, <3>1
    <3>2. CASE Newest(S, PageSize) # S
      <4>1. Cardinality(Newest(S, PageSize)) >= PageSize
        BY <1>1, <2>2, <3>2, NewestAreEnough
      <4> QED  BY <1>1, <2>1, <2>6, <4>1, FS_EmptySet
    <3> QED  BY <3>1, <3>2
  <2>7. \A p \in Visible : p \in Int
    BY VisiblePosts
  <2>8. load.page = 0 => \A p \in Visible : ~(p >= Bottom)
    <3> SUFFICES ASSUME load.page = 0, NEW p \in Visible PROVE ~(p >= Bottom)
      OBVIOUS
    <3>1. Bottom = MaxPosts + 1 /\ p \in 1..MaxPosts
      BY <1>4, <2>2 DEF Bottom
    <3> QED  BY <1>1, <3>1
  <2>9. Page = {} => \A p \in Visible : p >= Bottom
    BY <2>3, <2>6, <2>7
  <2>10. Listable \subseteq Visible
    BY VisiblePosts
  <2> QED  BY <1>4, <2>2, <2>3, <2>4, <2>5, <2>8, <2>9, <2>10
<1> QED  BY <1>1, <1>3, <1>4

\* The references a page may add.
Fresh == {p \in Page \cap Listable : p \notin load.refs /\ p > load.cutoff}

Listed == load.refs \cup Added

\* The newest of them are added, and all of them unless the ceiling is reached.
LEMMA AddedFacts ==
  ASSUME Steady, LoadTypeOK, LoadGoes, ListedWell, load.phase = "listing"
  PROVE  /\ Added \subseteq Fresh /\ Listed \subseteq 1..published
         /\ \A p \in Fresh \ Added : \A q \in Added : q > p
         /\ Cardinality(Listed) <= load.limit
         /\ Added # Fresh => Cardinality(Listed) = load.limit
         /\ PagingEnds <=> \/ Page = {}
                           \/ source.paging = "page" /\ Added = {}
                           \/ ReachedKnown \/ ReachedCutoff
                           \/ Cardinality(Listed) = load.limit
<1> DEFINE n == load.limit - Cardinality(load.refs)
<1>1. load \in LoadRecords /\ published \in Nat /\ MaxPosts \in Nat
  BY LoadShape, VisiblePosts, SourceFacts
<1>2. load.limit \in Nat /\ load.refs \subseteq Posts /\ load.refs \subseteq 1..published
  BY <1>1, VisiblePosts DEF LoadRecords, LoadGoes
<1>3. IsFiniteSet(load.refs) /\ Cardinality(load.refs) \in Nat
  BY <1>1, <1>2, PostsFinite
<1>4. n \in Nat /\ n \in Int
  BY <1>2, <1>3 DEF ListedWell
<1>5. /\ Added = Newest(Fresh, n)
      /\ Fresh \subseteq Posts /\ Fresh \subseteq 1..published
  <2>1. Page \subseteq Visible /\ Visible \subseteq Posts
        /\ Visible \subseteq 1..published
    BY PageFacts, VisiblePosts
  <2>2. Fresh = {p \in Page \ load.refs : p > load.cutoff}
                  \ (IF source.paging = "before" THEN NoText ELSE {})
    BY <2>1 DEF Fresh, Listable
  <2> QED  BY <2>1, <2>2 DEF Added, Fresh
<1> HIDE DEF n
<1>6. Added \subseteq Fresh
  BY <1>5, NewestWithin
<1>7. \A p \in Fresh \ Added : \A q \in Added : q > p
  BY <1>1, <1>4, <1>5, NewestAreNewer
<1>8. IsFiniteSet(Added) /\ Cardinality(Added) \in Nat
  BY <1>1, <1>5, <1>6, PostsFinite
<1>9. Cardinality(Listed) = Cardinality(load.refs) + Cardinality(Added)
  <2>1. load.refs \cap Added = {}
    BY <1>6 DEF Fresh
  <2>2. /\ Cardinality(Listed) = Cardinality(load.refs) + Cardinality(Added)
                              - Cardinality(load.refs \cap Added)
        /\ Cardinality({}) = 0
    BY <1>3, <1>8, FS_Union, FS_EmptySet DEF Listed
  <2>3. Cardinality(load.refs \cap Added) = 0
    BY <2>1, <2>2
  <2> QED  BY <1>3, <1>8, <2>2, <2>3
<1>10. Cardinality(Added) <= n
  BY <1>1, <1>4, <1>5, NewestAreNoMore
<1>11. Added # Fresh => Cardinality(Added) >= n
  BY <1>1, <1>4, <1>5, NewestAreEnough
<1>12. /\ Cardinality(Listed) <= load.limit
       /\ Added # Fresh => Cardinality(Listed) = load.limit
  BY <1>2, <1>3, <1>4, <1>8, <1>9, <1>10, <1>11 DEF n
<1>13. PagingEnds <=> \/ Page = {}
                      \/ source.paging = "page" /\ Added = {}
                      \/ ReachedKnown \/ ReachedCutoff
                      \/ Cardinality(Listed) = load.limit
  BY DEF PagingEnds, Listed
<1>14. Listed \subseteq 1..published
  BY <1>2, <1>5, <1>6 DEF Listed
<1> QED  BY <1>6, <1>7, <1>12, <1>13, <1>14

\* What a listing that goes on, or ends, leaves out: what was published since its first page,
\* and what lies further down, because of the ceiling, the history window, a page it knows,
\* or the next page.
LEMMA LeftOut ==
  ASSUME Steady, LoadTypeOK, LoadGoes, ListedWell, load.phase = "listing",
         NEW p \in Listable \ Listed
  PROVE  \/ p > load.top /\ \A q \in Listed : q < p
         \/ (\A q \in Listed : q > p) /\ Cardinality(Listed) = load.limit
         \/ (\A q \in Listed : q > p) /\ p < Bottom /\ p \notin Page
         \/ p <= load.cutoff
<1>1. /\ load \in LoadRecords /\ published \in Nat /\ MaxPosts \in Nat /\ Bottom \in Int
      /\ p \in Int /\ Listed \subseteq Int /\ p \in Visible /\ PageSize \in Nat
      /\ load.cutoff \in Nat
  <2>1. Listed \subseteq 1..published /\ Listable \subseteq Visible
    BY AddedFacts, VisiblePosts
  <2>2. load \in LoadRecords /\ load.cutoff \in Nat
    BY LoadShape DEF LoadRecords
  <2>3. MaxPosts \in Nat /\ PageSize \in Nat
    BY SourceFacts
  <2>4. Bottom \in Int
    BY PageFacts
  <2> QED  BY <2>1, <2>2, <2>3, <2>4, VisiblePosts
<1>2. p \notin load.refs /\ p \notin Added /\ load.page \in Nat
  BY <1>1 DEF Listed, LoadRecords
<1>3. CASE p \in Page /\ ~(p <= load.cutoff)
  <2>1. p \in Fresh \ Added
    BY <1>1, <1>2, <1>3 DEF Fresh
  <2>2. Cardinality(Listed) = load.limit /\ \A q \in Added : q > p
    BY <2>1, AddedFacts
  <2>3. CASE p < Bottom
    <3>1. \A q \in load.refs : q >= Bottom
      BY DEF ListedWell
    <3>2. \A q \in load.refs : q > p
      BY <1>1, <2>3, <3>1 DEF Listed
    <3> QED  BY <2>2, <3>2 DEF Listed
  <2>4. CASE load.page = 0
    <3>1. load.refs = {}
      BY <2>4 DEF ListedWell
    <3> QED  BY <2>2, <3>1 DEF Listed
  <2>5. CASE load.page > 0
    BY <1>1, <1>2, <1>3, <2>3, <2>5, PageFacts
  <2> QED  BY <1>2, <2>4, <2>5
<1>4. CASE p \notin Page /\ p < Bottom
  <2>1. \A q \in Page : q > p
    BY <1>1, <1>4, PageFacts
  <2>2. Added \subseteq Page
    BY AddedFacts DEF Fresh
  <2>3. \A q \in load.refs : q >= Bottom
    BY DEF ListedWell
  <2>4. \A q \in load.refs : q > p
    BY <1>1, <1>4, <2>3 DEF Listed
  <2> QED  BY <1>4, <2>1, <2>2, <2>4 DEF Listed
<1>5. CASE p \notin Page /\ p >= Bottom
  <2>1. p > load.top /\ \A q \in load.refs : q < p
    BY <1>2, <1>5 DEF ListedWell
  <2>2. load.page > 0
    BY <1>1, <1>2, <1>5, PageFacts
  <2>3. \A q \in Added : q < Bottom
    BY <2>2, AddedFacts, PageFacts DEF Fresh
  <2>4. \A q \in Added : q < p
    BY <1>1, <1>5, <2>3 DEF Listed
  <2> QED  BY <2>1, <2>4 DEF Listed
<1> QED  BY <1>1, <1>3, <1>4, <1>5

\* A listing at its ceiling that leaves out a post has as many newer ones.
LEMMA CeilingIsDeep ==
  ASSUME published \in Nat, NEW S, S \subseteq 1..published, NEW p \in Nat,
         \A q \in S : q > p
  PROVE  p > published \/ Cardinality(S) <= published - p
<1>1. SUFFICES ASSUME p <= published PROVE Cardinality(S) <= published - p
  OBVIOUS
<1>2. S \subseteq (p + 1)..published
  OBVIOUS
<1>3. IsFiniteSet((p + 1)..published) /\ Cardinality((p + 1)..published) = published - p
  <2> DEFINE a == p + 1
  <2>1. a \in Int /\ published \in Int
    OBVIOUS
  <2> HIDE DEF a
  <2>2. /\ IsFiniteSet(a..published)
        /\ Cardinality(a..published) = IF a > published THEN 0 ELSE published - a + 1
    BY <2>1, FS_Interval
  <2> QED  BY <1>1, <2>2 DEF a
<1>4. S \in SUBSET ((p + 1)..published)
  BY <1>2
<1>5. Cardinality(S) <= Cardinality((p + 1)..published)
  BY <1>3, <1>4, FS_Subset
<1> QED  BY <1>3, <1>5

\* The oldest of a page.
LEMMA OldestOfPage ==
  ASSUME Steady, LoadTypeOK, LoadGoes, ListedWell, load.phase = "listing",
         Page # {}
  PROVE  LET m == CHOOSE p \in Page : \A q \in Page : p <= q
         IN  m \in Page /\ \A q \in Page : m <= q
<1>1. Page \subseteq Posts /\ MaxPosts \in Nat
  BY PageFacts, VisiblePosts, SourceFacts
<1>2. IsFiniteSet(Page) /\ Page \in SUBSET Int
  BY <1>1, PostsFinite
<1>3. \E p \in Page : \A q \in Page : p <= q
  BY <1>2, Least
<1> QED  BY <1>3

------------------------------------------------------------------------------
(* The steps *)

\* The record of a load under way.
OpenLoads ==
  [phase : {"none", "listing", "reading"}, kind : AllKinds, from : 0..MaxPosts,
   to : 0..MaxPosts, cutoff : 0..MaxPosts, until : BOOLEAN, limit : {Limit, FirstLimit},
   top : 0..MaxPosts, page : 0..MaxPosts, before : 0..MaxPosts, refs : SUBSET Posts,
   todo : SUBSET Posts, older : 0..StopAfterOlder]

\* A load under way has a record of that shape.
LEMMA OpenShape ==
  ASSUME LoadTypeOK, load.phase # "none"
  PROVE  load \in OpenLoads
  BY DEF LoadTypeOK, OpenLoads, NoLoad

\* A step that keeps the types of the posts and the load keeps those of all the rest.
LEMMA TypeKept ==
  ASSUME LoadTypeOK, load' \in OpenLoads, shift' \in 0..MaxShift,
         UNCHANGED <<siteVars, readVars, pastVars, breaks>>
  PROVE  LoadTypeOK'
  BY DEF LoadTypeOK, OpenLoads

\* What is left to read is of the listing, and what was read of it was handled.
ReadShape ==
  load.phase = "reading" =>
    /\ load.todo \subseteq load.refs
    /\ load.todo # {} => load.older < StopAfterOlder
    /\ \A q \in load.refs \ NoText :
         q \in load.todo \cup stored \cup everFailed \/ Outside(q)

LoadSound == LoadTypeOK /\ ListedWell /\ LoadGoes /\ ReadShape

\* The invariant holds at first.
LEMMA LoadStarts ==
  ASSUME LoadInit
  PROVE  LoadSound
<1>1. source \in Sources /\ source.archive \in 0..source.posts /\ source.posts \in 0..MaxPosts
      /\ source.breaks \in Nat /\ MaxPosts \in Nat /\ MaxShift \in Nat /\ MaxBacklog \in Nat
  BY SourcesAssumption, LoadSizesAssumption DEF LoadInit
<1>2. load.phase = "none"
  BY DEF LoadInit, NoLoad
<1>3. LoadTypeOK
  BY <1>1 DEF LoadInit, LoadTypeOK
<1>4. LoadGoes
  BY <1>1, <1>2 DEF LoadInit, LoadGoes
<1> QED  BY <1>2, <1>3, <1>4 DEF LoadSound, ListedWell, ReadShape

\* ListedWell depends on the load, the posts and what was known before.
LEMMA NoListing ==
  ASSUME load'.phase # "listing" PROVE ListedWell'
  BY DEF ListedWell

\* ReadShape is about a load that reads.
LEMMA NoReading ==
  ASSUME load'.phase # "reading" PROVE ReadShape'
  BY DEF ReadShape

\* A post published during a listing is newer than everything the listing brought.
LEMMA PublishKeeps ==
  ASSUME Steady, LoadSound, Publish
  PROVE  LoadSound'
<1>1. /\ published \in Nat /\ shift \in Nat /\ MaxPosts \in Nat /\ MaxShift \in Nat
      /\ PageSize \in Nat \ {0} /\ source.posts \in 0..MaxPosts /\ MaxBacklog \in Nat
      /\ top \in Nat /\ source.paging \in {"page", "before"}
  BY SourceFacts, VisiblePosts DEF LoadSound, LoadTypeOK
<1>2. /\ published' = published + 1 /\ published < source.posts
      /\ published - top < MaxBacklog
      /\ load.phase = "listing" => shift < MaxShift /\ shift' = shift + 1
      /\ load.phase # "listing" => shift' = 0
      /\ UNCHANGED <<source, removed, aged, readVars, pastVars, breaks, load>>
  BY DEF Publish
<1>3. LoadTypeOK'
  BY <1>1, <1>2 DEF LoadSound, LoadTypeOK
<1>4. 1..published \subseteq 1..published'
  BY <1>1, <1>2
<1>5. LoadGoes'
  <2>1. load.phase # "none" => load.top \in Nat
    BY <1>1, OpenShape DEF LoadSound, OpenLoads
  <2>2. LoadGoes
    BY DEF LoadSound
  <2>3. /\ top' <= published' /\ published' - top' <= MaxBacklog
        /\ stored' \subseteq 1..published' /\ published' <= source'.posts
        /\ source'.paging = "page" => removed' = {} /\ aged' = 0
    BY <1>1, <1>2, <1>4, <2>2 DEF LoadGoes
  <2>4. load'.phase # "none" =>
          top' <= load'.top /\ load'.top <= published' /\ load'.refs \subseteq 1..published'
    BY <1>1, <1>2, <1>4, <2>1, <2>2 DEF LoadGoes
  <2> QED  BY <1>2, <2>2, <2>3, <2>4 DEF LoadGoes
<1>6. ReadShape'
  BY <1>2 DEF LoadSound, ReadShape, Outside, BeforePeriod
<1>7. ASSUME load.phase = "listing" PROVE ListedWell'
  <2>1. load \in OpenLoads
    BY <1>7, OpenShape DEF LoadSound
  <2>2. /\ load.page \in Nat /\ load.top \in Nat /\ load.refs \subseteq 1..published
        /\ load.page * PageSize \in Nat /\ (load.page > 0 => load.page * PageSize >= PageSize)
    BY <1>1, <1>7, <2>1 DEF OpenLoads, LoadSound, LoadGoes
  <2> DEFINE m == load.page * PageSize
  <2> HIDE DEF m
  <2>3. /\ published' - shift' = published - shift
        /\ source.paging = "page" => Bottom = published - shift - m + 1
        /\ Bottom' = Bottom
    <3>1. published' - shift' = published - shift
      BY <1>1, <1>2, <1>7
    <3> QED  BY <1>2, <3>1 DEF Bottom, m
  <2>4. Listable' \subseteq Listable \cup {published + 1}
    <3>1. Visible' \subseteq Visible \cup {published + 1}
      BY <1>1, <1>2 DEF Visible
    <3> QED  BY <1>2, <3>1 DEF Listable
  <2>5. published + 1 > load.top /\ \A q \in load.refs : q < published + 1
    BY <1>1, <1>7, <2>2 DEF LoadSound, LoadGoes
  <2>6. source.paging = "page" /\ load.page > 0 => published + 1 >= Bottom + PageSize
    BY <1>1, <2>2, <2>3 DEF m
  <2>7. ListedWell
    BY DEF LoadSound
  <2>8. \A p \in Listable' \ load.refs : p >= Bottom =>
         /\ p > load.top /\ \A q \in load.refs : q < p
         /\ source.paging = "page" /\ load.page > 0 => p >= Bottom + PageSize
    BY <1>7, <2>4, <2>5, <2>6, <2>7 DEF ListedWell
  <2> QED  BY <1>2, <1>7, <2>3, <2>7, <2>8 DEF ListedWell
<1> QED  BY <1>2, <1>3, <1>5, <1>6, <1>7, NoListing DEF LoadSound

\* A removal moves no page that is asked for by the oldest post seen.
LEMMA RemoveKeeps ==
  ASSUME Steady, LoadSound, NEW p \in Posts, Remove(p)
  PROVE  LoadSound'
<1>1. /\ p \in Visible /\ removed' = removed \cup {p}
      /\ Cardinality(removed) < source.removals
      /\ UNCHANGED <<source, published, aged, shift, readVars, pastVars, breaks, load>>
  BY DEF Remove
<1>2. source.paging # "page"
  <2> SUFFICES ASSUME source.paging = "page" PROVE FALSE
    OBVIOUS
  <2>1. removed = {} /\ source.removals = 0
    BY DEF LoadSound, LoadGoes, LoadTypeOK, Steady
  <2> QED  BY <1>1, <2>1, FS_EmptySet
<1>3. Visible' \subseteq Visible
  BY <1>1 DEF Visible
<1>4. Listable' \subseteq Listable
  BY <1>1, <1>3 DEF Listable
<1>5. LoadTypeOK' /\ LoadGoes' /\ ReadShape'
  <2>1. LoadTypeOK'
    BY <1>1 DEF LoadSound, LoadTypeOK
  <2>2. LoadGoes'
    BY <1>1, <1>2 DEF LoadSound, LoadGoes
  <2>3. ReadShape'
    BY <1>1 DEF LoadSound, ReadShape, Outside, BeforePeriod
  <2> QED  BY <2>1, <2>2, <2>3
<1>6. Bottom' = Bottom
  BY <1>1 DEF Bottom
<1>7. ListedWell'
  BY <1>1, <1>4, <1>6 DEF LoadSound, ListedWell
<1> QED  BY <1>5, <1>7 DEF LoadSound

\* A listing begins with nothing brought.
LEMMA StartKeeps ==
  ASSUME Steady, LoadSound, Start
  PROVE  LoadSound'
<1>1. /\ published \in 0..MaxPosts /\ MaxPosts \in Nat /\ MaxShift \in Nat /\ StopAfterOlder \in Nat
      /\ source.kinds \subseteq AllKinds /\ top \in Nat
      /\ Listable \subseteq 1..published /\ Posts = 1..MaxPosts
      /\ source.paging \in {"page", "before"} /\ PageSize \in Nat
      /\ aged \in 0..MaxPosts /\ Dates \subseteq 0..MaxPosts
  <2>1. LoadTypeOK
    BY DEF LoadSound
  <2>2. published \in 0..MaxPosts /\ top \in 0..MaxPosts /\ aged \in 0..MaxPosts
    BY <2>1 DEF LoadTypeOK
  <2>3. Dates \subseteq 0..MaxPosts
    BY <2>1, <2>2, SourceFacts DEF Dates
  <2> QED  BY <2>1, <2>2, <2>3, SourceFacts, VisiblePosts
<1>2. PICK kind \in source.kinds, from \in Dates, to \in Dates : StartLoad(kind, from, to)
  BY DEF Start
<1>3. DiscoveryLimit(kind, from) \in {Limit, FirstLimit}
      /\ (from > 0 => DiscoveryLimit(kind, from) = Limit)
      /\ StopAtKnown(kind, from) \in BOOLEAN
      /\ (StopAtKnown(kind, from) => from = 0 /\ last = "completed")
  BY DEF DiscoveryLimit, StopAtKnown
<1>4. /\ load' = [phase |-> "listing", kind |-> kind, from |-> from, to |-> to, cutoff |-> aged,
                  until |-> StopAtKnown(kind, from), limit |-> DiscoveryLimit(kind, from),
                  top |-> published, page |-> 0, before |-> 0, refs |-> {}, todo |-> {},
                  older |-> 0]
      /\ shift' = 0 /\ (from > 0 \/ to > 0 => source.dates # {})
      /\ UNCHANGED <<siteVars, readVars, pastVars, breaks>>
  <2>1. from > 0 \/ to > 0 => source.dates # {}
    BY <1>2 DEF Dates
  <2> QED  BY <1>2, <2>1 DEF StartLoad, NoLoad
<1>5. load' \in OpenLoads
  BY <1>1, <1>3, <1>4 DEF OpenLoads
<1>6. LoadTypeOK'
  BY <1>1, <1>4, <1>5 DEF LoadSound, LoadTypeOK, OpenLoads
<1>7. LoadGoes'
  BY <1>1, <1>2, <1>3, <1>4 DEF LoadSound, LoadGoes
<1>8. ReadShape'
  BY <1>4 DEF ReadShape
<1>9. ListedWell'
  <2>1. Cardinality({}) = 0 /\ DiscoveryLimit(kind, from) \in Nat
    BY <1>3, FS_EmptySet, SourceFacts DEF LoadSound
  <2>2. Bottom' > published /\ Listable' = Listable
    BY <1>1, <1>4 DEF Bottom, Listable, Visible
  <2>3. \A p \in Listable' : ~(p >= Bottom')
    <3>1. Bottom' \in Int
      BY <1>1, <1>4 DEF Bottom
    <3> QED  BY <1>1, <2>2, <3>1
  <2>4. \A o \in stored : o <= published
    BY <1>1 DEF LoadSound, LoadGoes
  <2> QED  BY <1>1, <1>3, <1>4, <2>1, <2>3, <2>4 DEF ListedWell
<1> QED  BY <1>6, <1>7, <1>8, <1>9 DEF LoadSound

\* The numbers of the pages are bounded: each has a post, older than those of the ones before.
LEMMA PageIsBounded ==
  ASSUME Steady, LoadSound, load.phase = "listing", Page # {}
  PROVE  load.page + 1 \in 0..MaxPosts
<1>1. /\ load \in OpenLoads /\ published \in Nat /\ MaxPosts \in Nat /\ PageSize \in Nat \ {0}
      /\ published <= MaxPosts /\ source.paging \in {"page", "before"}
  <2>1. LoadTypeOK
    BY DEF LoadSound
  <2>2. load \in OpenLoads
    BY <2>1, OpenShape
  <2>3. published \in 0..MaxPosts
    BY <2>1 DEF LoadTypeOK
  <2> QED  BY <2>1, <2>2, <2>3, SourceFacts
<1>2. load.page \in Nat /\ load.before \in Nat
  BY <1>1 DEF OpenLoads
<1>3. PICK q \in Page : TRUE
  OBVIOUS
<1>4. q \in 1..published /\ q < MaxPosts + 1
  BY <1>1, <1>3, PageFacts, VisiblePosts DEF LoadSound
<1>5. CASE source.paging = "page"
  <2>1. removed = {}
    BY <1>5 DEF LoadSound, LoadGoes
  <2>2. load.page * PageSize <= published - q
    BY <1>2, <1>3, <1>4, <1>5, <2>1, NumberedPage DEF LoadSound
  <2>3. load.page * PageSize \in Nat /\ load.page * PageSize >= load.page
    BY <1>1, <1>2
  <2>4. load.page * PageSize <= published - q /\ load.page * PageSize \in Nat
        /\ load.page * PageSize >= load.page
    BY <2>2, <2>3
  <2> DEFINE m == load.page * PageSize
  <2> HIDE DEF m
  <2>5. m <= published - q /\ m \in Nat /\ m >= load.page
    BY <2>4 DEF m
  <2> QED  BY <1>1, <1>2, <1>4, <2>5
<1>6. CASE source.paging = "before"
  <2>1. CASE load.page = 0
    BY <1>1, <1>4, <2>1
  <2>2. CASE load.page > 0
    <3>1. load.before > 0 /\ load.before + load.page <= MaxPosts + 1 /\ Bottom = load.before
      BY <1>6, <2>2 DEF LoadSound, ListedWell, Bottom
    <3>2. q < Bottom
      BY <1>3, <1>6, PageFacts DEF LoadSound
    <3> QED  BY <1>1, <1>2, <1>4, <3>1, <3>2
  <2> QED  BY <1>2, <2>1, <2>2
<1> QED  BY <1>1, <1>5, <1>6

\* A page takes Bottom down to its oldest post and leaves nothing above it out.
LEMMA NextPageKeeps ==
  ASSUME Steady, LoadSound, NextPage
  PROVE  LoadSound'
<1> DEFINE m == CHOOSE p \in Page : \A q \in Page : p <= q
<1>1. load.phase = "listing" /\ LoadTypeOK
  BY DEF NextPage, LoadSound
<1>2. /\ published \in 0..MaxPosts /\ shift \in 0..MaxShift /\ source \in Sources
      /\ source.paging \in {"page", "before"}
      /\ MaxPosts \in Nat /\ MaxShift \in Nat /\ PageSize \in Nat \ {0}
  BY <1>1, SourceFacts DEF LoadTypeOK
<1>3. /\ load.phase = "listing" /\ load \in OpenLoads /\ published \in Nat /\ MaxPosts \in Nat
      /\ PageSize \in Nat \ {0} /\ published <= MaxPosts /\ source.paging \in {"page", "before"}
      /\ shift \in Nat /\ shift <= MaxShift /\ MaxShift \in Nat /\ source \in Sources
      /\ Posts = 1..MaxPosts
  BY <1>1, <1>2, OpenShape, VisiblePosts
<1>4. /\ Page # {} /\ Added = Fresh /\ Cardinality(Listed) <= load.limit
      /\ Listed \subseteq 1..published
      /\ \A q \in Listed : q > load.cutoff
      /\ \A q \in Page \cap Listable : q \in Listed
  <2>1. /\ Page # {} /\ Added = Fresh /\ Cardinality(Listed) <= load.limit
        /\ Listed \subseteq 1..published /\ ~ReachedCutoff
    BY <1>3, AddedFacts DEF LoadSound, NextPage
  <2>2. \A q \in load.refs : q > load.cutoff
    BY <1>3 DEF LoadSound, LoadGoes
  <2>3. \A q \in Page : q \in Int /\ load.cutoff \in Int
    BY <1>3, PageFacts, VisiblePosts DEF LoadSound, OpenLoads
  <2> QED  BY <2>1, <2>2, <2>3 DEF Listed, Fresh, ReachedCutoff
<1>5. m \in Page /\ \A q \in Page : m <= q
  BY <1>3, <1>4, OldestOfPage DEF LoadSound
<1>6. load' = [load EXCEPT !.refs = Listed, !.page = load.page + 1, !.before = m]
      /\ shift' = 0
      /\ UNCHANGED <<siteVars, readVars, pastVars, breaks>>
  BY DEF NextPage, Listed
<1> HIDE DEF m
<1>7. /\ load'.phase = "listing" /\ load'.refs = Listed /\ load'.page = load.page + 1
      /\ load'.before = m /\ load'.kind = load.kind /\ load'.from = load.from
      /\ load'.to = load.to /\ load'.cutoff = load.cutoff
      /\ load'.until = load.until /\ load'.limit = load.limit /\ load'.top = load.top
      /\ load'.todo = load.todo /\ load'.older = load.older
  BY <1>3, <1>6 DEF OpenLoads
<1>8. /\ load.page \in Nat /\ load.before \in Nat /\ load.top \in Nat
      /\ load.refs \subseteq 1..published
  BY <1>3 DEF OpenLoads, LoadSound, LoadGoes
<1>9. m \in 1..published /\ m \in Int
  BY <1>3, <1>5, PageFacts, VisiblePosts DEF LoadSound
<1>10. load' \in OpenLoads
  <2>1. load.page + 1 \in 0..MaxPosts
    BY <1>3, <1>4, PageIsBounded
  <2>2. m \in 0..MaxPosts /\ Listed \in SUBSET Posts
    BY <1>3, <1>4, <1>9
  <2> QED  BY <1>3, <1>6, <2>1, <2>2 DEF OpenLoads
<1>11. LoadTypeOK'
  <2>1. shift' \in 0..MaxShift /\ Posts' = Posts
    BY <1>3, <1>6 DEF Posts
  <2> QED  BY <1>1, <1>6, <1>10, <2>1, TypeKept
<1>12. LoadGoes'
  BY <1>3, <1>4, <1>6, <1>7 DEF LoadSound, LoadGoes
<1>13. ReadShape'
  BY <1>7, NoReading, <1>3
<1>14. Listable' = Listable /\ Listable \subseteq 1..published /\ Listable \subseteq Visible
  BY <1>6, VisiblePosts DEF Listable, Visible, LoadSound
<1>15. Bottom \in Int /\ \A q \in load.refs : q >= Bottom
  BY <1>3, PageFacts DEF LoadSound, ListedWell
\* The bottom goes down to the end of the page.
<1>16. /\ Bottom' \in Int /\ Bottom' <= Bottom
       /\ \A q \in Page : q >= Bottom'
       /\ \A p \in Visible : p < Bottom /\ p >= Bottom' => p \in Page
       /\ source.paging = "page" => Bottom' = Bottom + shift - PageSize
  <2>1. CASE source.paging = "page"
    <3> DEFINE k == load.page * PageSize
    <3>1. (load.page + 1) * PageSize = k + PageSize /\ k \in Nat
      BY <1>3, <1>8
    <3>2. Bottom = published - shift - k + 1 /\ Bottom' = published - (k + PageSize) + 1
      BY <1>3, <1>6, <1>7, <2>1, <3>1 DEF Bottom
    <3>3. MaxShift < PageSize /\ removed = {}
      BY <1>3, <2>1 DEF Steady, LoadSound, LoadGoes
    <3>4. /\ Visible = 1..published
          /\ \A p \in 1..published : p \in Page <=> /\ k <= published - p
                                                    /\ published - p < k + PageSize
      BY <1>8, <2>1, <3>3, NumberedPage DEF LoadSound
    <3>5. Page \subseteq 1..published
      BY <1>3, <3>4, PageFacts DEF LoadSound
    <3> HIDE DEF k
    <3>6. Bottom' \in Int /\ Bottom' <= Bottom /\ Bottom' = Bottom + shift - PageSize
      BY <1>3, <3>1, <3>2, <3>3
    <3>7. \A q \in Page : q >= Bottom'
      BY <1>3, <3>1, <3>2, <3>4, <3>5
    <3>8. \A p \in Visible : p < Bottom /\ p >= Bottom' => p \in Page
      BY <1>3, <3>1, <3>2, <3>4
    <3> QED  BY <2>1, <3>6, <3>7, <3>8
  <2>2. CASE source.paging = "before"
    <3>1. Bottom' = m
      BY <1>3, <1>6, <1>7, <1>8, <2>2 DEF Bottom
    <3>2. m < Bottom
      BY <1>3, <1>5, <2>2, PageFacts DEF LoadSound
    <3>3. \A p \in Visible : p \notin Page /\ p < Bottom => m > p
      BY <1>3, <1>5, PageFacts DEF LoadSound
    <3>4. \A p \in Visible : p \in Int
      BY <1>14, VisiblePosts DEF LoadSound
    <3> QED  BY <1>5, <1>9, <1>15, <2>2, <3>1, <3>2, <3>3, <3>4
  <2> QED  BY <1>3, <2>1, <2>2
<1>17. \A q \in Listed : q >= Bottom'
  <2>1. \A q \in load.refs : q >= Bottom'
    BY <1>8, <1>15, <1>16
  <2> QED  BY <1>4, <1>16, <2>1 DEF Listed, Fresh
<1>18. ASSUME NEW p \in Listable \ Listed, p >= Bottom'
       PROVE  /\ p > load.top /\ \A q \in Listed : q < p
              /\ source.paging = "page" => p >= Bottom' + PageSize
  <2>1. p \notin load.refs /\ p \notin Page /\ p \in Visible /\ p \in Int
    BY <1>4, <1>14 DEF Listed, Fresh
  <2>2. p >= Bottom
    BY <1>15, <1>16, <1>18, <2>1
  <2>3. load.page > 0
    BY <1>3, <1>8, <2>1, <2>2, PageFacts DEF LoadSound
  <2>4. /\ p > load.top /\ \A q \in load.refs : q < p
        /\ source.paging = "page" => p >= Bottom + PageSize
    BY <1>3, <1>18, <2>1, <2>2, <2>3 DEF LoadSound, ListedWell
  <2>5. \A q \in Fresh : q < p
    <3>1. \A q \in Fresh : q \in Listable /\ q \in Page /\ q \notin load.refs
      BY DEF Fresh
    <3>2. \A q \in Listable : q \in Int
      BY <1>3, <1>14
    <3>3. \A q \in Fresh : q \in Listable /\ q \in Page /\ q \notin load.refs /\ q \in Int
      BY <3>1, <3>2
    <3>4. \A q \in Listable : q \in Page /\ q \notin load.refs => q < Bottom
      BY <1>3, <2>3, PageFacts DEF LoadSound
    <3> QED  BY <1>15, <2>1, <2>2, <3>3, <3>4
  <2>6. source.paging = "page" => p >= Bottom' + PageSize
    <3> SUFFICES ASSUME source.paging = "page" PROVE p >= Bottom' + PageSize
      OBVIOUS
    <3>1. MaxShift < PageSize
      BY <1>3 DEF Steady
    <3> QED  BY <1>3, <1>15, <1>16, <2>1, <2>4, <3>1
  <2> QED  BY <1>4, <2>4, <2>5, <2>6 DEF Listed
<1>19. source.paging = "before" => load'.before > 0 /\ load'.before + load'.page <= MaxPosts + 1
  <2> SUFFICES ASSUME source.paging = "before" PROVE m > 0 /\ m + load.page + 1 <= MaxPosts + 1
    BY <1>7, <1>8, <1>9
  <2>1. m < Bottom
    BY <1>3, <1>5, PageFacts DEF LoadSound
  <2>2. CASE load.page = 0
    BY <1>3, <1>9, <2>2
  <2>3. CASE load.page > 0
    <3>1. load.before + load.page <= MaxPosts + 1 /\ Bottom = load.before
      BY <1>3, <2>3 DEF LoadSound, ListedWell, Bottom
    <3>2. MaxPosts \in Nat /\ m < load.before
      BY <1>3, <2>1, <3>1
    <3> QED  BY <1>8, <1>9, <3>1, <3>2
  <2> QED  BY <1>8, <2>2, <2>3
<1>20. ListedWell'
  <2>1. published >= load.top
    BY <1>3 DEF LoadSound, LoadGoes
  <2>2. ListedWell
    BY DEF LoadSound
  <2>3. load'.page > 0 /\ load'.page # 0 /\ published - 0 >= load.top
    BY <1>3, <1>7, <1>8, <2>1
  <2> QED  BY <1>3, <1>4, <1>6, <1>7, <1>14, <1>17, <1>18, <1>19, <2>2, <2>3 DEF ListedWell
<1> QED  BY <1>11, <1>12, <1>13, <1>20 DEF LoadSound

\* The end of the listing.
LEMMA EndDiscoveryKeeps ==
  ASSUME Steady, LoadSound, EndDiscovery
  PROVE  LoadSound'
<1>1. load.phase = "listing" /\ load \in OpenLoads /\ LoadTypeOK
  BY OpenShape DEF EndDiscovery, LoadSound
<1> DEFINE todo == IF load.kind = "refetch" THEN Listed ELSE Listed \ stored
<1>2. /\ load' = [load EXCEPT !.phase = "reading", !.refs = Listed, !.todo = todo]
      /\ last' = "broken" /\ shift' = 0
      /\ UNCHANGED <<siteVars, readVars, top, floor, breaks>>
  BY DEF EndDiscovery, Listed
<1>3. Listed \subseteq 1..published /\ todo \subseteq Listed /\ \A q \in Listed : q > load.cutoff
  BY <1>1, AddedFacts DEF LoadSound, LoadGoes, Listed, Fresh
<1>4. /\ load'.phase = "reading" /\ load'.refs = Listed /\ load'.todo = todo
      /\ load'.kind = load.kind /\ load'.from = load.from /\ load'.top = load.top
      /\ load'.to = load.to /\ load'.cutoff = load.cutoff
      /\ load'.limit = load.limit /\ load'.older = load.older
  BY <1>1, <1>2 DEF OpenLoads
<1>5. MaxPosts \in Nat /\ published \in 0..MaxPosts /\ MaxShift \in Nat
  BY <1>1, SourceFacts DEF LoadTypeOK
<1>6. load' \in OpenLoads
  <2>1. 1..published \subseteq Posts
    BY <1>5 DEF Posts
  <2> HIDE DEF todo
  <2>2. Listed \in SUBSET Posts /\ todo \in SUBSET Posts
    BY <1>3, <2>1
  <2> QED  BY <1>1, <1>2, <2>2 DEF OpenLoads
<1>7. LoadTypeOK'
  BY <1>1, <1>2, <1>5, <1>6 DEF LoadTypeOK, OpenLoads
<1>8. LoadGoes'
  BY <1>1, <1>2, <1>3, <1>4 DEF LoadSound, LoadGoes
<1>9. ReadShape'
  <2>1. load.older = 0 /\ StopAfterOlder \in Nat \ {0}
    BY <1>1, SourceFacts DEF LoadSound, ListedWell
  <2> QED  BY <1>2, <1>3, <1>4, <2>1 DEF ReadShape
<1> QED  BY <1>4, <1>7, <1>8, <1>9, NoListing DEF LoadSound

\* A listing that is shut brings nothing.
LEMMA NoPreviewKeeps ==
  ASSUME Steady, LoadSound, NoPreview
  PROVE  LoadSound'
<1>1. load.phase = "listing" /\ load \in OpenLoads /\ LoadTypeOK /\ source.breaks \in Nat
      /\ MaxPosts \in Nat /\ MaxShift \in Nat /\ StopAfterOlder \in Nat \ {0}
  BY OpenShape, SourceFacts DEF NoPreview, LoadSound
<1>2. /\ load' = [load EXCEPT !.phase = "reading", !.cutoff = load.top]
      /\ load.page = 0 /\ source.paging = "before"
      /\ breaks < source.breaks /\ breaks' = breaks + 1 /\ last' = "broken" /\ shift' = 0
      /\ UNCHANGED <<siteVars, readVars, top, floor>>
  BY DEF NoPreview
<1>3. load.refs = {} /\ load.todo = {} /\ load.older = 0
  BY <1>1, <1>2 DEF LoadSound, ListedWell
<1>4. /\ load'.phase = "reading" /\ load'.refs = {} /\ load'.todo = {}
      /\ load'.kind = load.kind /\ load'.from = load.from /\ load'.top = load.top
      /\ load'.to = load.to /\ load'.limit = load.limit /\ load'.older = 0
  BY <1>1, <1>2, <1>3 DEF OpenLoads
<1>5. load' \in OpenLoads
  BY <1>1, <1>2 DEF OpenLoads
<1>6. LoadTypeOK'
  BY <1>1, <1>2, <1>5 DEF LoadTypeOK, OpenLoads
<1>7. LoadGoes'
  BY <1>1, <1>2, <1>4 DEF LoadSound, LoadGoes
<1>8. ReadShape'
  BY <1>1, <1>4 DEF ReadShape
<1> QED  BY <1>4, <1>6, <1>7, <1>8, NoListing DEF LoadSound

\* Time that passes changes no listing that has begun.
LEMMA AgeKeeps ==
  ASSUME Steady, LoadSound, Age
  PROVE  LoadSound'
<1>1. /\ source.paging = "before" /\ aged < published /\ aged' = aged + 1
      /\ UNCHANGED <<source, published, removed, readVars, pastVars, shift, breaks, load>>
  BY DEF Age
<1>2. published \in 0..MaxPosts /\ MaxPosts \in Nat /\ aged \in 0..MaxPosts
  BY SourceFacts DEF LoadSound, LoadTypeOK
<1>3. LoadTypeOK'
  BY <1>1, <1>2 DEF LoadSound, LoadTypeOK
<1>4. LoadGoes' /\ ReadShape'
  BY <1>1 DEF LoadSound, LoadGoes, ReadShape, Outside
<1>5. Bottom' = Bottom /\ Listable' = Listable
  BY <1>1 DEF Bottom, Listable, Visible
<1>6. ListedWell'
  BY <1>1, <1>5 DEF LoadSound, ListedWell
<1> QED  BY <1>3, <1>4, <1>6 DEF LoadSound

\* The end of a load.
LEMMA LoadEndsKeep ==
  ASSUME Steady, LoadSound, DiscoveryFails \/ Finish \/ Break
  PROVE  LoadSound'
<1>1. /\ load.phase # "none" /\ LoadTypeOK /\ source.breaks \in Nat
      /\ MaxShift \in Nat /\ MaxPosts \in Nat
  BY SourceFacts DEF DiscoveryFails, Finish, Break, LoadSound
<1>2. /\ load' = NoLoad /\ load'.phase = "none"
      /\ UNCHANGED <<siteVars, readVars>>
      /\ last' \in {last, "completed"} /\ top' \in {top, load.top}
      /\ floor' \in {floor, load.cutoff}
      /\ breaks' = breaks \/ (breaks < source.breaks /\ breaks' = breaks + 1)
      /\ shift' = shift \/ shift' = 0
  BY DEF DiscoveryFails, Finish, Break, NoLoad
<1>3. /\ load.top \in 0..MaxPosts /\ top <= load.top /\ load.top <= published
      /\ load.cutoff \in 0..MaxPosts
  BY <1>1, OpenShape DEF OpenLoads, LoadSound, LoadGoes
<1>4. LoadTypeOK'
  BY <1>1, <1>2, <1>3 DEF LoadTypeOK
<1>5. LoadGoes'
  <2>1. published \in Nat /\ top \in Nat /\ MaxBacklog \in Nat
    BY <1>1, SourceFacts DEF LoadTypeOK
  <2>2. top' <= published /\ published - top' <= MaxBacklog
    BY <1>1, <1>2, <1>3, <2>1 DEF LoadSound, LoadGoes
  <2> QED  BY <1>2, <2>2 DEF LoadSound, LoadGoes
<1> QED  BY <1>2, <1>4, <1>5, NoListing, NoReading DEF LoadSound

\* What is before the period is outside the dates, whether it has a date or not, and so is all
\* that is older still.
LEMMA BeforeIsOutside ==
  ASSUME LoadSound, load \in OpenLoads, NEW p \in Posts, BeforePeriod(p),
         NEW q \in Posts, q <= p
  PROVE  Outside(q) /\ load.from > 0
<1>1. p \in Nat \ {0} /\ q \in Nat /\ load.from \in Nat
  BY SourceFacts DEF LoadSound, OpenLoads, Posts
<1> QED  BY <1>1 DEF BeforePeriod, Outside

\* What reading one post does, whatever its result.
LEMMA ReadDoes ==
  ASSUME LoadSound, NEW p \in Posts,
         \/ ReadFails(p) \/ SkipNoText(p) \/ SkipOlder(p) \/ SkipOutside(p) \/ Store(p)
  PROVE  /\ load.phase = "reading" /\ load \in OpenLoads
         /\ p \in load.todo /\ \A q \in load.todo : q <= p
         /\ load'.phase = "reading" /\ load'.refs = load.refs /\ load'.kind = load.kind
         /\ load'.from = load.from /\ load'.top = load.top /\ load'.limit = load.limit
         /\ load'.to = load.to /\ load'.cutoff = load.cutoff
         /\ load' \in OpenLoads
         /\ load'.todo = load.todo \ {p} \/ (load'.todo = {} /\ BeforePeriod(p))
         /\ load'.todo # {} => load'.older < StopAfterOlder
         /\ p \in stored' \cup everFailed' \cup NoText \/ Outside(p)
         /\ stored' \in {stored, stored \cup {p}}
         /\ everFailed' \in {everFailed, everFailed \cup {p}}
         /\ failed' \subseteq everFailed'
         /\ UNCHANGED <<siteVars, pastVars, shift, breaks>>
<1>1. load.phase = "reading" /\ Newest(load.todo, 1) = {p} /\ load \in OpenLoads
  BY OpenShape DEF ReadFails, SkipNoText, SkipOlder, SkipOutside, Store, Result,
     LoadSound
<1>2. p \in load.todo /\ \A q \in load.todo : q <= p
  <2>1. load.todo \subseteq Posts /\ MaxPosts \in Nat
    BY <1>1, SourceFacts DEF OpenLoads, LoadSound
  <2> QED  BY <1>1, <2>1, NewestOne
<1>3. load.older < StopAfterOlder /\ load.older \in Nat /\ StopAfterOlder \in Nat \ {0}
  BY <1>1, <1>2, SourceFacts DEF LoadSound, ReadShape, OpenLoads
<1> DEFINE ReadAs(todo, older) ==
             load' = [load EXCEPT !.todo = todo, !.older = older]
           May(todo, older) ==
             /\ todo \in {load.todo \ {p}, {}} /\ older \in 0..StopAfterOlder
             /\ todo = load.todo \ {p} \/ BeforePeriod(p)
             /\ todo # {} => older < StopAfterOlder
<1>4. PICK todo, older : ReadAs(todo, older) /\ May(todo, older)
  <2>1. CASE ReadFails(p) \/ SkipNoText(p)
    <3>1. ReadAs(load.todo \ {p}, load.older)
      BY <2>1 DEF ReadFails, SkipNoText, Read
    <3>2. May(load.todo \ {p}, load.older)
      BY <1>3
    <3> HIDE DEF ReadAs, May
    <3> QED  BY <3>1, <3>2
  <2>2. CASE SkipOutside(p) \/ Store(p)
    <3>1. ReadAs(load.todo \ {p}, 0)
      BY <2>2 DEF SkipOutside, Store, Read
    <3>2. May(load.todo \ {p}, 0)
      BY <1>3
    <3> HIDE DEF ReadAs, May
    <3> QED  BY <3>1, <3>2
  <2>3. CASE SkipOlder(p)
    <3>1. load.older + 1 \in 0..StopAfterOlder /\ BeforePeriod(p)
      BY <1>3, <2>3 DEF SkipOlder
    <3>2. CASE load.older + 1 >= StopAfterOlder
      <4>1. ReadAs({}, load.older + 1)
        BY <2>3, <3>2 DEF SkipOlder, Read
      <4>2. May({}, load.older + 1)
        BY <3>1
      <4> HIDE DEF ReadAs, May
      <4> QED  BY <4>1, <4>2
    <3>3. CASE ~(load.older + 1 >= StopAfterOlder)
      <4>1. ReadAs(load.todo \ {p}, load.older + 1)
        BY <2>3, <3>3 DEF SkipOlder, Read
      <4>2. May(load.todo \ {p}, load.older + 1)
        BY <1>3, <3>1, <3>3
      <4> HIDE DEF ReadAs, May
      <4> QED  BY <4>1, <4>2
    <3> HIDE DEF ReadAs, May
    <3> QED  BY <3>2, <3>3
  <2> HIDE DEF ReadAs, May
  <2> QED  BY <2>1, <2>2, <2>3
<1>5. /\ load'.phase = "reading" /\ load'.refs = load.refs /\ load'.kind = load.kind
      /\ load'.from = load.from /\ load'.top = load.top /\ load'.limit = load.limit
      /\ load'.to = load.to /\ load'.cutoff = load.cutoff
      /\ load' \in OpenLoads /\ load'.todo = todo /\ load'.older = older
  BY <1>1, <1>4 DEF OpenLoads
<1>6. /\ p \in stored' \cup everFailed' \cup NoText \/ Outside(p)
      /\ stored' \in {stored, stored \cup {p}} /\ everFailed' \in {everFailed, everFailed \cup {p}}
      /\ UNCHANGED <<siteVars, pastVars, shift, breaks>>
  <2>1. CASE SkipOlder(p)
    <3>1. p <= p
      BY SourceFacts DEF LoadSound, Posts
    <3>2. Outside(p)
      BY <1>1, <2>1, <3>1, BeforeIsOutside DEF SkipOlder
    <3> QED  BY <2>1, <3>2 DEF SkipOlder
  <2>2. CASE ReadFails(p) \/ SkipNoText(p) \/ SkipOutside(p) \/ Store(p)
    BY <2>2 DEF ReadFails, SkipNoText, SkipOutside, Store
  <2> QED  BY <2>1, <2>2
<1>7. failed' \subseteq everFailed'
  BY DEF ReadFails, SkipNoText, SkipOlder, SkipOutside, Store, LoadSound, LoadTypeOK
<1> QED  BY <1>1, <1>2, <1>4, <1>5, <1>6, <1>7

\* The reading of a post.
LEMMA ReadsKeep ==
  ASSUME Steady, LoadSound, NEW p \in Posts,
         \/ ReadFails(p) \/ SkipNoText(p) \/ SkipOlder(p) \/ SkipOutside(p) \/ Store(p)
  PROVE  LoadSound'
<1>1. /\ load.phase = "reading" /\ load \in OpenLoads /\ p \in load.todo
      /\ \A q \in load.todo : q <= p
      /\ load'.phase = "reading" /\ load'.refs = load.refs /\ load'.kind = load.kind
      /\ load'.from = load.from /\ load'.top = load.top /\ load'.limit = load.limit
      /\ load'.to = load.to /\ load'.cutoff = load.cutoff
      /\ load' \in OpenLoads
      /\ UNCHANGED <<siteVars, pastVars, shift, breaks>>
      /\ failed' \subseteq everFailed'
  BY ReadDoes
<1>2. /\ load'.todo = load.todo \ {p} \/ (load'.todo = {} /\ BeforePeriod(p))
      /\ load'.todo # {} => load'.older < StopAfterOlder
      /\ p \in stored' \cup everFailed' \cup NoText \/ Outside(p)
      /\ stored' \in {stored, stored \cup {p}} /\ everFailed' \in {everFailed, everFailed \cup {p}}
  BY ReadDoes
<1>3. load.todo \subseteq load.refs /\ load.refs \subseteq 1..published
  BY <1>1 DEF LoadSound, ReadShape, LoadGoes
<1>4. LoadTypeOK'
  BY <1>1, <1>2 DEF LoadSound, LoadTypeOK, OpenLoads
<1>5. LoadGoes'
  BY <1>1, <1>2, <1>3 DEF LoadSound, LoadGoes
<1>6. ReadShape'
  <2>1. ASSUME NEW q \in load.refs \ NoText
        PROVE  q \in load'.todo \cup stored' \cup everFailed' \/ Outside(q)
    <3>1. q \in load.todo \cup stored \cup everFailed \/ Outside(q)
      BY <1>1, <2>1 DEF LoadSound, ReadShape
    <3>2. CASE q \in load.todo /\ BeforePeriod(p)
      <4>1. q <= p /\ q \in Posts
        BY <1>1, <3>2 DEF OpenLoads
      <4> QED  BY <1>1, <3>2, <4>1, BeforeIsOutside
    <3>3. CASE q \in load.todo /\ ~BeforePeriod(p)
      BY <1>2, <2>1, <3>3
    <3> QED  BY <1>2, <3>1, <3>2, <3>3
  <2>2. \A q : Outside(q)' <=> Outside(q)
    BY <1>1 DEF Outside
  <2> QED  BY <1>1, <1>2, <1>3, <2>1, <2>2 DEF ReadShape
<1> QED  BY <1>1, <1>4, <1>5, <1>6, NoListing DEF LoadSound

\* Every step keeps the invariant.
LEMMA LoadStep ==
  ASSUME Steady, LoadSound, [LoadNext]_loadVars
  PROVE  LoadSound'
<1>1. CASE UNCHANGED loadVars
  BY <1>1 DEF loadVars, LoadSound, LoadTypeOK, ListedWell, LoadGoes, ReadShape, Listable, Bottom,
     Visible, Outside
<1>2. CASE ReadOne
  BY <1>2, ReadsKeep DEF ReadOne
<1> QED  BY <1>1, <1>2, PublishKeeps, AgeKeeps, RemoveKeeps, StartKeeps, NextPageKeeps,
            EndDiscoveryKeeps, NoPreviewKeeps, LoadEndsKeep DEF LoadNext

\* The invariant behind the theorems about a load: what the listing brought and left out.
THEOREM LoadInvariant ==
  ASSUME Steady
  PROVE  LoadSpec => []LoadSound
<1>1. LoadInit => LoadSound
  BY LoadStarts
<1>2. LoadSound /\ [LoadNext]_loadVars => LoadSound'
  BY LoadStep
<1> QED  BY <1>1, <1>2, PTL DEF LoadSpec

\* The types of the posts, the load and the rest at every moment.
THEOREM LoadTypeCorrect ==
  ASSUME Steady
  PROVE  LoadSpec => []LoadTypeOK
<1>1. LoadSound => LoadTypeOK
  BY DEF LoadSound
<1> QED  BY <1>1, LoadInvariant, PTL

------------------------------------------------------------------------------
(* Where the paging ends *)

\* A post with something to read that no page brought: it was published since the first
\* page, or it lies below all that were brought, and a ceiling or a known page is why, or it
\* is older than the history window.
LEMMA WhereItEnds ==
  ASSUME Steady, LoadSound, load.phase = "listing", PagingEnds
  PROVE  \A p \in ToRead \ Listed :
           \/ p > load.top /\ \A q \in Listed : q < p
           \/ (\A q \in Listed : q > p) /\ Cardinality(Listed) = load.limit
           \/ (\A q \in Listed : q > p) /\ ReachedKnown
           \/ p <= load.cutoff
<1> SUFFICES ASSUME NEW p \in ToRead \ Listed, p < Bottom, p \notin Page, ~(p <= load.cutoff),
                    ~ReachedKnown, Cardinality(Listed) # load.limit
             PROVE  FALSE
  <2>1. ToRead \subseteq Listable
    BY VisiblePosts DEF LoadSound
  <2> QED  BY <2>1, LeftOut DEF LoadSound
<1>1. p \in Visible /\ p \in Int /\ Bottom \in Int
  BY VisiblePosts, PageFacts DEF LoadSound
<1>2. ~(p >= Bottom)
  BY <1>1
<1>3. Page = {} \/ (source.paging = "page" /\ Added = {}) \/ ReachedCutoff
  BY AddedFacts DEF LoadSound
<1>4. CASE Page = {}
  BY <1>1, <1>2, <1>4, PageFacts DEF LoadSound
<1>5. CASE source.paging = "page" /\ Added = {}
  <2>1. Fresh = {}
    BY <1>5, AddedFacts DEF LoadSound
  <2>2. Page \subseteq Visible /\ Listable = Visible
    BY <1>5, PageFacts DEF LoadSound, Listable
  <2>3. load.cutoff = 0 /\ \A q \in Visible : q > 0
    BY <1>5, VisiblePosts DEF LoadSound, LoadGoes
  <2>4. Page \subseteq load.refs
    BY <2>1, <2>2, <2>3 DEF Fresh
  <2> QED  BY <1>1, <1>2, <1>5, <2>4, PageFacts DEF LoadSound
<1>6. CASE ReachedCutoff
  <2>1. PICK r \in Page : r <= load.cutoff
    BY <1>6 DEF ReachedCutoff
  <2>2. r > p /\ r \in Int /\ load.cutoff \in Int
    <3>1. Page \subseteq Visible /\ \A q \in Visible : q \in Int
      BY PageFacts, VisiblePosts DEF LoadSound
    <3>2. load.cutoff \in Int
      BY LoadShape DEF LoadSound, LoadRecords
    <3> QED  BY <1>1, <1>2, <2>1, <3>1, <3>2, PageFacts DEF LoadSound
  <2> QED  BY <1>1, <2>1, <2>2
<1> QED  BY <1>3, <1>4, <1>5, <1>6

\* What the step that ends the listing leaves behind.
LEMMA DiscoveryDoes ==
  ASSUME Steady, LoadSound, EndDiscovery
  PROVE  /\ load.phase = "listing" /\ PagingEnds /\ load \in OpenLoads
         /\ load'.phase = "reading" /\ load'.refs = Listed /\ load'.kind = load.kind
         /\ load'.top = load.top /\ load'.from = load.from /\ load'.to = load.to
         /\ load'.cutoff = load.cutoff /\ last' = "broken"
         /\ UNCHANGED <<siteVars, readVars, top, floor, breaks>>
<1>1. load.phase = "listing" /\ load \in OpenLoads /\ PagingEnds
  BY OpenShape DEF EndDiscovery, LoadSound
<1> DEFINE todo == IF load.kind = "refetch" THEN Listed ELSE Listed \ stored
<1>2. /\ load' = [load EXCEPT !.phase = "reading", !.refs = Listed, !.todo = todo]
      /\ last' = "broken"
      /\ UNCHANGED <<siteVars, readVars, top, floor, breaks>>
  BY DEF EndDiscovery, Listed
<1> HIDE DEF todo
<1>3. /\ load'.phase = "reading" /\ load'.refs = Listed /\ load'.kind = load.kind
      /\ load'.top = load.top /\ load'.from = load.from /\ load'.to = load.to
      /\ load'.cutoff = load.cutoff
  BY <1>1, <1>2 DEF OpenLoads
<1> QED  BY <1>1, <1>2, <1>3

\* ... and the one that finds the listing shut.
LEMMA NoPreviewDoes ==
  ASSUME LoadSound, NoPreview
  PROVE  /\ load.phase = "listing" /\ load'.phase = "reading" /\ load'.refs = {}
         /\ load'.top = load.top /\ load'.from = load.from /\ load'.to = load.to
         /\ load'.cutoff = load.top /\ last' = "broken" /\ load.top \in Nat
         /\ UNCHANGED <<siteVars, readVars, top, floor>>
<1>1. load.phase = "listing" /\ load \in OpenLoads /\ load.page = 0 /\ load.refs = {}
      /\ MaxPosts \in Nat
  BY OpenShape, SourceFacts DEF NoPreview, LoadSound, ListedWell
<1>2. /\ load' = [load EXCEPT !.phase = "reading", !.cutoff = load.top]
      /\ last' = "broken" /\ UNCHANGED <<siteVars, readVars, top, floor>>
  BY DEF NoPreview
<1>3. /\ load'.phase = "reading" /\ load'.refs = {} /\ load'.top = load.top
      /\ load'.from = load.from /\ load'.to = load.to /\ load'.cutoff = load.top
      /\ load.top \in Nat
  BY <1>1, <1>2 DEF OpenLoads
<1> QED  BY <1>1, <1>2, <1>3

\* What is visible depends on the site's posts only.
LEMMA SamePosts ==
  ASSUME UNCHANGED <<published, removed>>
  PROVE  Visible' = Visible /\ ToRead' = ToRead
  BY DEF Visible, ToRead

\* The site publishes one post more, ...
LEMMA MorePosts ==
  ASSUME LoadSound, Publish
  PROVE  /\ ToRead' \subseteq ToRead \cup {published + 1} /\ published \in Nat
         /\ UNCHANGED <<source, removed, aged, readVars, pastVars, breaks, load>>
<1>1. published \in Nat
  BY VisiblePosts DEF LoadSound
<1>2. /\ published' = published + 1
      /\ UNCHANGED <<source, removed, aged, readVars, pastVars, breaks, load>>
  BY DEF Publish
<1>3. 1..(published + 1) \subseteq 1..published \cup {published + 1}
  BY <1>1
<1> QED  BY <1>1, <1>2, <1>3 DEF Visible, ToRead

\* ... or takes one down.
LEMMA FewerPosts ==
  ASSUME NEW p, Remove(p)
  PROVE  /\ ToRead' \subseteq ToRead
         /\ UNCHANGED <<source, published, aged, shift, readVars, pastVars, breaks, load>>
  BY DEF Remove, Visible, ToRead

------------------------------------------------------------------------------
(* A load for a period *)

\* Where loads for a period are made, a load lists as many posts as the site ever publishes.
Ample == \A s \in Sources : s.dates # {} => s.posts <= Limit

\* A load for a period has listed all there was when it began, but for what it could not see.
PeriodListed ==
  load.phase = "reading" /\ load.from > 0 =>
    \A p \in ToRead \ load.refs : p > load.top \/ p <= load.cutoff

\* No load for a period is under way at first.
LEMMA PeriodInit ==
  ASSUME LoadInit PROVE PeriodListed
  BY DEF LoadInit, NoLoad, PeriodListed

\* Every step keeps what a period's listing brought.
LEMMA PeriodStep ==
  ASSUME Steady, Ample, LoadSound, PeriodListed, [LoadNext]_loadVars
  PROVE  PeriodListed'
<1>1. CASE UNCHANGED loadVars
  BY <1>1 DEF loadVars, PeriodListed, Visible, ToRead
<1>2. CASE Publish
  <2> SUFFICES ASSUME load.phase = "reading", load.from > 0,
                      NEW p \in ToRead' \ load.refs
               PROVE  p > load.top \/ p <= load.cutoff
    BY <1>2, MorePosts DEF PeriodListed
  <2>1. load.top <= published /\ load.top \in Int /\ published \in Nat
    BY <1>2, MorePosts, OpenShape, SourceFacts DEF LoadSound, LoadGoes, OpenLoads
  <2> QED  BY <1>2, <2>1, MorePosts DEF PeriodListed
<1>3. CASE \E p \in Posts : Remove(p)
  BY <1>3, FewerPosts DEF PeriodListed
<1>4. CASE Start \/ NextPage
  <2>1. load'.phase = "listing"
    <3>1. CASE Start
      BY <3>1 DEF Start, StartLoad, NoLoad
    <3>2. CASE NextPage
      <4>1. load \in OpenLoads /\ load.phase = "listing"
        BY <3>2, OpenShape DEF NextPage, LoadSound
      <4> QED  BY <3>2, <4>1 DEF NextPage, OpenLoads
    <3> QED  BY <1>4, <3>1, <3>2
  <2> QED  BY <2>1 DEF PeriodListed
<1>5. CASE EndDiscovery
  <2>1. load.from \in Nat
    BY <1>5, DiscoveryDoes, SourceFacts DEF LoadSound, OpenLoads
  <2> SUFFICES ASSUME load.from > 0, NEW p \in ToRead \ Listed
               PROVE  p > load.top \/ p <= load.cutoff
    BY <1>5, DiscoveryDoes, SamePosts DEF PeriodListed
  <2>2. load.phase = "listing" /\ PagingEnds /\ source.dates # {} /\ load.from # 0
        /\ load.limit = Limit /\ source \in Sources
    BY <1>5, <2>1, DiscoveryDoes DEF LoadSound, LoadGoes, LoadTypeOK
  <2>3. p \in 1..published /\ published \in Nat /\ published <= Limit /\ Limit \in Nat
    <3>1. source.posts \in Nat /\ Limit \in Nat /\ published \in Nat /\ p \in 1..published
      BY SourceFacts, VisiblePosts DEF LoadSound
    <3>2. published <= source.posts /\ source.posts <= Limit
      BY <2>2 DEF LoadSound, LoadGoes, Ample
    <3> QED  BY <3>1, <3>2
  <2>4. ~ReachedKnown
    BY <2>2 DEF ReachedKnown, LoadSound, ListedWell
  <2>5. CASE (\A q \in Listed : q > p) /\ Cardinality(Listed) = load.limit
    <3>1. Listed \subseteq 1..published
      BY <2>2, AddedFacts DEF LoadSound
    <3>2. p > published \/ Cardinality(Listed) <= published - p
      <4>1. p \in Nat /\ \A q \in Listed : q > p
        BY <2>3, <2>5
      <4> QED  BY <2>3, <3>1, <4>1, CeilingIsDeep
    <3> QED  BY <2>2, <2>3, <2>5, <3>2
  <2> QED  BY <2>2, <2>4, <2>5, WhereItEnds
<1>6. CASE DiscoveryFails \/ Finish \/ Break
  BY <1>6 DEF DiscoveryFails, Finish, Break, NoLoad, PeriodListed
<1>7. CASE Age
  <2>1. UNCHANGED <<published, removed, load>>
    BY <1>7 DEF Age
  <2> QED  BY <2>1, SamePosts DEF PeriodListed
<1>8. CASE NoPreview
  <2>1. /\ load'.refs = {} /\ load'.top = load.top /\ load'.cutoff = load.top /\ load.top \in Nat
        /\ UNCHANGED <<published, removed>> /\ \A p \in ToRead : p \in Nat
    BY <1>8, NoPreviewDoes, VisiblePosts DEF LoadSound
  <2> QED  BY <2>1, SamePosts DEF PeriodListed
<1>9. ASSUME NEW p \in Posts,
             \/ ReadFails(p) \/ SkipNoText(p) \/ SkipOlder(p) \/ SkipOutside(p) \/ Store(p)
      PROVE  PeriodListed'
  <2>1. /\ load.phase = "reading" /\ load'.refs = load.refs /\ load'.from = load.from
        /\ load'.cutoff = load.cutoff
        /\ load'.top = load.top /\ UNCHANGED <<published, removed>>
    BY <1>9, ReadDoes
  <2> QED  BY <2>1, SamePosts DEF PeriodListed
<1> QED  BY <1>1, <1>2, <1>3, <1>4, <1>5, <1>6, <1>9, <1>7, <1>8 DEF LoadNext, ReadOne

\* What a load for a period has not read by its end is outside the period or not there.
LEMMA PeriodFinish ==
  ASSUME LoadSound, PeriodListed, Finish, load.from > 0
  PROVE  \A p \in load.from..load.top :
           p > load.cutoff /\ (load.to = 0 \/ p <= load.to) =>
             p \in stored \cup NoText \cup Undated \cup everFailed \cup removed
<1> SUFFICES ASSUME NEW p \in load.from..load.top, p > load.cutoff, load.to = 0 \/ p <= load.to,
                    p \notin NoText \cup Undated \cup removed
             PROVE  p \in stored \cup everFailed
  OBVIOUS
<1>1. load.phase = "reading" /\ load.todo = {} /\ load \in OpenLoads
  BY OpenShape DEF Finish, LoadSound
<1>2. load.top <= published /\ published \in Nat /\ load.from \in Nat /\ load.top \in Nat
      /\ load.to \in Nat /\ load.cutoff \in Nat
  BY <1>1, VisiblePosts, SourceFacts DEF LoadSound, LoadGoes, OpenLoads
<1>3. p \in 1..published /\ ~(p < load.from) /\ ~(p > load.top) /\ ~(p <= load.cutoff)
  BY <1>2
<1>4. p \in ToRead
  BY <1>3 DEF ToRead, Visible
<1>5. p \in load.refs
  BY <1>1, <1>3, <1>4 DEF PeriodListed
<1>6. ~Outside(p)
  BY <1>2, <1>3 DEF Outside
<1> QED  BY <1>1, <1>5, <1>6 DEF LoadSound, ReadShape

\* A load for a period that completes has gone through the whole of it (PeriodIsLoaded),
\* whatever was stored before, where the ceiling of a load is not below the site's posts:
\* neither a known page nor the lower ceiling of a first load ends its paging.  What was older
\* than a channel's history window when it began is not of it, nor what has no date.
THEOREM PeriodWhole ==
  ASSUME Steady, Ample
  PROVE  LoadSpec => PeriodIsLoaded
<1> DEFINE Inv == LoadSound /\ PeriodListed
<1>1. LoadInit => Inv
  BY LoadStarts, PeriodInit
<1>2. Inv /\ [LoadNext]_loadVars => Inv'
  BY LoadStep, PeriodStep
<1>3. Inv /\ [LoadNext]_loadVars =>
        [Finish /\ load.from > 0 =>
           \A p \in load.from..load.top :
             p > load.cutoff /\ (load.to = 0 \/ p <= load.to) =>
               p \in stored \cup NoText \cup Undated \cup everFailed \cup removed]_loadVars
  BY PeriodFinish
<1> HIDE DEF Inv
<1> QED  BY <1>1, <1>2, <1>3, PTL DEF LoadSpec, PeriodIsLoaded

------------------------------------------------------------------------------
(* The loads of a source of which only regular loads are made *)

\* No more is published between two completed loads than the lower ceiling lists.
Ceilings == MaxBacklog <= Limit /\ MaxBacklog <= FirstLimit

Unread == {p \in ToRead \ (stored \cup everFailed) : p > floor}

\* What was there before the last completed load and is unread lies below all that is stored.
OldAreBelow == \A p \in Unread : p <= top => \A o \in stored : o > p

\* After a completed load, what it did not see lies above all that is stored.
NewAreAbove == last = "completed" => \A p \in Unread : p > top => \A o \in stored : o < p

\* While a load reads, what it did not list lies above or below all that it did and all that
\* is stored, or it was out of its sight.
ReadsAPiece ==
  load.phase = "reading" =>
    /\ load.from = 0 /\ load.to = 0 /\ last = "broken"
    /\ \A o \in stored : o <= load.top \/ o \in load.refs
    /\ \A p \in ToRead \ load.refs :
         \/ p > load.top /\ \A q \in load.refs : q < p
         \/ /\ p <= load.top /\ \A q \in load.refs : q > p
            /\ p \in Unread => \A o \in stored : o > p
         \/ p <= load.cutoff

OnePiece == OnlyRegular => OldAreBelow /\ NewAreAbove /\ ReadsAPiece

\* Where the posts, the stored ones and the marks of a load lie.
LEMMA Places ==
  ASSUME LoadSound
  PROVE  /\ published \in Nat /\ top \in Nat /\ top <= published
         /\ ToRead \subseteq 1..published /\ Unread \subseteq ToRead
         /\ stored \subseteq 1..published
         /\ \A p \in ToRead : p \in Int
         /\ \A o \in stored : o \in Int
         /\ load.phase # "none" => /\ load.top \in Nat /\ top <= load.top /\ load.top <= published
                                   /\ load.refs \subseteq 1..published /\ load.cutoff \in Nat
         /\ floor \in Nat
<1>1. published \in Nat /\ top \in Nat /\ floor \in Nat
  BY VisiblePosts, SourceFacts DEF LoadSound, LoadTypeOK
<1>2. load.phase # "none" => load.top \in Nat /\ load.cutoff \in Nat
  BY OpenShape, SourceFacts DEF LoadSound, OpenLoads
<1>3. /\ top <= published /\ ToRead \subseteq 1..published /\ Unread \subseteq ToRead
      /\ stored \subseteq 1..published
  BY VisiblePosts DEF LoadSound, LoadGoes, Unread
<1> QED  BY <1>1, <1>2, <1>3 DEF LoadSound, LoadGoes

\* Nothing is stored at first.
LEMMA PieceInit ==
  ASSUME LoadInit PROVE OnePiece
  BY DEF LoadInit, NoLoad, OnePiece, OldAreBelow, NewAreAbove, ReadsAPiece

\* A post that a finished listing left out is above or below what it brought, and if it is
\* below and unread, below all that is stored.
LEMMA LeftOutApart ==
  ASSUME Steady, Ceilings, LoadSound, OldAreBelow, NewAreAbove,
         load.phase = "listing", PagingEnds
  PROVE  \A p \in ToRead \ Listed :
           \/ p > load.top /\ \A q \in Listed : q < p
           \/ /\ p <= load.top /\ \A q \in Listed : q > p
              /\ p \in Unread => \A o \in stored : o > p
           \/ p <= load.cutoff
<1> SUFFICES ASSUME NEW p \in ToRead \ Listed, \A q \in Listed : q > p,
                    Cardinality(Listed) = load.limit \/ ReachedKnown
             PROVE  p <= load.top /\ (p \in Unread => \A o \in stored : o > p)
  BY WhereItEnds
<1>1. /\ published \in Nat /\ top \in Nat /\ top <= published /\ p \in 1..published
      /\ load.top \in Nat /\ top <= load.top /\ p \in Int /\ \A o \in stored : o \in Int
      /\ Listed \subseteq 1..published
  BY Places, AddedFacts DEF LoadSound
<1>2. CASE Cardinality(Listed) = load.limit
  <2>1. p \in Nat /\ ~(p > published)
    BY <1>1
  <2>2. Cardinality(Listed) <= published - p
    BY <1>1, <2>1, CeilingIsDeep
  <2>3. load.limit \in {Limit, FirstLimit} /\ published - top <= MaxBacklog
        /\ MaxBacklog \in Nat /\ Limit \in Nat /\ FirstLimit \in Nat
    BY OpenShape, SourceFacts DEF LoadSound, LoadGoes, OpenLoads
  <2>4. MaxBacklog <= load.limit /\ load.limit \in Nat
    BY <2>3 DEF Ceilings
  <2>5. p <= top
    BY <1>1, <1>2, <2>2, <2>3, <2>4
  <2> QED  BY <1>1, <2>5 DEF OldAreBelow
<1>3. CASE ReachedKnown
  <2>1. load.until /\ Added # {} /\ Added \subseteq stored
    BY <1>3 DEF ReachedKnown
  <2>2. PICK q \in stored : q > p
    BY <2>1 DEF Listed
  <2>3. q <= load.top /\ last = "completed" /\ q \in Int
    BY <1>1, <2>1 DEF LoadSound, ListedWell
  <2>4. p <= load.top
    BY <1>1, <2>2, <2>3
  <2>5. ASSUME p \in Unread PROVE p <= top
    <3>1. ~(q < p)
      BY <1>1, <2>2, <2>3
    <3> QED  BY <1>1, <2>3, <2>5, <3>1 DEF NewAreAbove
  <2> QED  BY <2>4, <2>5 DEF OldAreBelow
<1> QED  BY <1>2, <1>3

\* The end of a listing hands LeftOutApart to the reading.
LEMMA PieceEnds ==
  ASSUME Steady, Ceilings, LoadSound, OnePiece, EndDiscovery
  PROVE  OnePiece'
<1> SUFFICES ASSUME OnlyRegular PROVE OldAreBelow' /\ NewAreAbove' /\ ReadsAPiece'
  BY DiscoveryDoes DEF OnePiece, OnlyRegular
<1>1. /\ load.phase = "listing" /\ PagingEnds /\ load'.phase = "reading"
      /\ load'.refs = Listed /\ load'.from = load.from /\ load'.to = load.to
      /\ load'.top = load.top /\ load'.cutoff = load.cutoff /\ last' = "broken"
      /\ UNCHANGED <<siteVars, readVars, top, floor, breaks>>
  BY DiscoveryDoes
<1>2. ToRead' = ToRead /\ Unread' = Unread
  BY <1>1, SamePosts DEF Unread
<1>3. OldAreBelow' /\ NewAreAbove'
  BY <1>1, <1>2 DEF OnePiece, OldAreBelow, NewAreAbove
<1>4. load.from = 0 /\ load.to = 0 /\ \A o \in stored : o <= load.top
  <2>1. load.from \in Nat /\ load.to \in Nat
    BY <1>1, OpenShape, SourceFacts DEF LoadSound, OpenLoads
  <2> QED  BY <1>1, <2>1 DEF LoadSound, ListedWell, LoadGoes, OnlyRegular
<1>5. \A p \in ToRead \ Listed :
        \/ p > load.top /\ \A q \in Listed : q < p
        \/ /\ p <= load.top /\ \A q \in Listed : q > p
           /\ p \in Unread => \A o \in stored : o > p
        \/ p <= load.cutoff
  BY <1>1, LeftOutApart DEF OnePiece
<1> QED  BY <1>1, <1>2, <1>3, <1>4, <1>5 DEF ReadsAPiece

\* A shut listing puts all there was out of sight.
LEMMA PieceShut ==
  ASSUME LoadSound, OnePiece, NoPreview
  PROVE  OnePiece'
<1> SUFFICES ASSUME OnlyRegular PROVE OldAreBelow' /\ NewAreAbove' /\ ReadsAPiece'
  BY NoPreviewDoes DEF OnePiece, OnlyRegular
<1>1. /\ load.phase = "listing" /\ load'.phase = "reading" /\ load'.refs = {}
      /\ load'.from = load.from /\ load'.to = load.to /\ load'.top = load.top
      /\ load'.cutoff = load.top /\ last' = "broken" /\ load.top \in Nat
      /\ UNCHANGED <<siteVars, readVars, top, floor>>
  BY NoPreviewDoes
<1>2. ToRead' = ToRead /\ Unread' = Unread
  BY <1>1, SamePosts DEF Unread
<1>3. OldAreBelow' /\ NewAreAbove'
  BY <1>1, <1>2 DEF OnePiece, OldAreBelow, NewAreAbove
<1>4. load.from = 0 /\ load.to = 0 /\ \A o \in stored : o <= load.top
  <2>1. load.from \in Nat /\ load.to \in Nat
    BY <1>1, OpenShape, SourceFacts DEF LoadSound, OpenLoads
  <2> QED  BY <1>1, <2>1 DEF LoadSound, ListedWell, LoadGoes, OnlyRegular
<1>5. \A p \in ToRead : p > load.top \/ p <= load.top
  BY <1>1, Places
<1> QED  BY <1>1, <1>2, <1>3, <1>4, <1>5 DEF ReadsAPiece

\* The newest post that is still to be read is above every other unread one it may pass.
LEMMA PieceReads ==
  ASSUME Steady, LoadSound, OnePiece, NEW r \in Posts,
         \/ ReadFails(r) \/ SkipNoText(r) \/ SkipOlder(r) \/ SkipOutside(r) \/ Store(r)
  PROVE  OnePiece'
<1>1. /\ load.phase = "reading" /\ r \in load.todo /\ \A q \in load.todo : q <= r
      /\ load'.phase = "reading" /\ load'.refs = load.refs /\ load'.from = load.from
      /\ load'.to = load.to /\ load'.top = load.top /\ load'.cutoff = load.cutoff
      /\ stored' \in {stored, stored \cup {r}} /\ everFailed' \in {everFailed, everFailed \cup {r}}
      /\ UNCHANGED <<siteVars, pastVars, shift, breaks>>
  BY ReadDoes
<1> SUFFICES ASSUME OnlyRegular PROVE OldAreBelow' /\ NewAreAbove' /\ ReadsAPiece'
  BY <1>1 DEF OnePiece, OnlyRegular
<1>2. /\ OldAreBelow /\ load.from = 0 /\ load.to = 0 /\ last = "broken"
      /\ \A o \in stored : o <= load.top \/ o \in load.refs
      /\ \A p \in ToRead \ load.refs :
           \/ p > load.top /\ \A q \in load.refs : q < p
           \/ /\ p <= load.top /\ \A q \in load.refs : q > p
              /\ p \in Unread => \A o \in stored : o > p
           \/ p <= load.cutoff
  BY <1>1 DEF OnePiece, ReadsAPiece
<1>3. /\ ToRead' = ToRead /\ Unread' \subseteq Unread
      /\ r \in stored' => r \notin Unread'
  BY <1>1, SamePosts DEF Unread
<1>4. /\ top \in Nat /\ load.top \in Nat /\ top <= load.top
      /\ \A p \in ToRead : p \in Int
      /\ load.todo \subseteq load.refs /\ r \in load.refs /\ r \in Int
      /\ load.cutoff \in Nat /\ r > load.cutoff
  BY <1>1, Places DEF LoadSound, ReadShape, LoadGoes
<1>5. NewAreAbove'
  BY <1>1, <1>2 DEF NewAreAbove
<1>6. OldAreBelow'
  <2> SUFFICES ASSUME NEW p \in Unread', p <= top, NEW o \in stored' PROVE o > p
    BY <1>1 DEF OldAreBelow
  <2>1. p \in Unread /\ p \in ToRead /\ p \in Int
    BY <1>3, <1>4 DEF Unread
  <2>2. CASE o \in stored
    BY <1>2, <2>1, <2>2 DEF OldAreBelow
  <2>3. CASE o = r /\ r \notin stored
    <3>1. r \in stored' /\ p # r
      BY <1>3, <2>3
    <3>2. CASE p \in load.refs
      <4>1. p \in load.todo
        <5>1. ~Outside(p)
          BY <1>2, <2>1, Places DEF Outside
        <5> QED  BY <1>1, <2>1, <3>2, <5>1 DEF LoadSound, ReadShape, Unread, ToRead
      <4>2. p <= r
        BY <1>1, <4>1
      <4> QED  BY <1>4, <2>1, <2>3, <3>1, <4>2
    <3>3. CASE p \notin load.refs
      <4>1. ~(p > load.top)
        BY <1>4, <2>1
      <4>2. r > p
        BY <1>2, <1>4, <2>1, <3>3, <4>1
      <4> QED  BY <2>3, <4>2
    <3> QED  BY <3>2, <3>3
  <2> QED  BY <1>1, <2>2, <2>3
<1>7. ReadsAPiece'
  <2>1. \A o \in stored' : o <= load.top \/ o \in load.refs
    BY <1>1, <1>2, <1>4
  <2>2. ASSUME NEW p \in ToRead \ load.refs
        PROVE  \/ p > load.top /\ \A q \in load.refs : q < p
               \/ /\ p <= load.top /\ \A q \in load.refs : q > p
                  /\ p \in Unread' => \A o \in stored' : o > p
               \/ p <= load.cutoff
    <3>1. CASE p > load.top /\ \A q \in load.refs : q < p
      BY <3>1
    <3>2. CASE /\ p <= load.top /\ \A q \in load.refs : q > p
               /\ p \in Unread => \A o \in stored : o > p
      BY <1>1, <1>3, <1>4, <3>2
    <3> QED  BY <1>2, <3>1, <3>2
  <2> QED  BY <1>1, <1>2, <1>3, <2>1, <2>2 DEF ReadsAPiece
<1> QED  BY <1>5, <1>6, <1>7

\* When all that was listed is read, the new mark of the completed load is right.
LEMMA PieceFinish ==
  ASSUME Steady, LoadSound, OnePiece, Finish
  PROVE  OnePiece'
<1>1. /\ load.phase = "reading" /\ load.todo = {} /\ top' = load.top
      /\ load'.phase = "none"
      /\ UNCHANGED <<siteVars, readVars, shift, breaks>>
  BY DEF Finish, NoLoad
<1> SUFFICES ASSUME OnlyRegular PROVE OldAreBelow' /\ NewAreAbove' /\ ReadsAPiece'
  BY <1>1 DEF OnePiece, OnlyRegular
<1>2. Unread' \subseteq {p \in Unread : p > load.cutoff} /\ Unread \subseteq ToRead
  <2>1. load.cutoff \in Nat /\ floor \in Nat /\ \A p \in ToRead : p \in Int
    BY <1>1, Places
  <2>2. floor' = IF load.cutoff > floor THEN load.cutoff ELSE floor
    BY DEF Finish
  <2> QED  BY <1>1, <2>1, <2>2, SamePosts DEF Unread
<1>3. /\ load.from = 0 /\ load.to = 0 /\ \A o \in stored : o <= load.top \/ o \in load.refs
      /\ \A p \in ToRead \ load.refs :
           \/ p > load.top /\ \A q \in load.refs : q < p
           \/ /\ p <= load.top /\ \A q \in load.refs : q > p
              /\ p \in Unread => \A o \in stored : o > p
           \/ p <= load.cutoff
  BY <1>1 DEF OnePiece, ReadsAPiece
<1>4. Unread \subseteq ToRead \ load.refs
  <2>1. \A p \in Unread : ~Outside(p)
    BY <1>2, <1>3, Places DEF Outside
  <2> QED  BY <1>1, <2>1 DEF LoadSound, ReadShape, Unread, ToRead
<1>5. load.top \in Nat /\ load.cutoff \in Nat /\ \A p \in ToRead : p \in Int
  BY <1>1, Places
<1>6. \A o \in stored : o \in Int
  BY Places
<1>7. \A p \in Unread : p <= load.top /\ p > load.cutoff => \A o \in stored : o > p
  BY <1>3, <1>4, <1>5
<1>8. \A p \in Unread : p > load.top /\ p > load.cutoff => \A o \in stored : o < p
  BY <1>3, <1>4, <1>5, <1>6
<1> QED  BY <1>1, <1>2, <1>7, <1>8 DEF OldAreBelow, NewAreAbove, ReadsAPiece

\* A new post lies above everything.
LEMMA PiecePublish ==
  ASSUME LoadSound, OnePiece, Publish
  PROVE  OnePiece'
<1>1. /\ ToRead' \subseteq ToRead \cup {published + 1} /\ published \in Nat
      /\ UNCHANGED <<source, removed, aged, readVars, pastVars, breaks, load>>
  BY MorePosts
<1> SUFFICES ASSUME OnlyRegular PROVE OldAreBelow' /\ NewAreAbove' /\ ReadsAPiece'
  BY <1>1 DEF OnePiece, OnlyRegular
<1>2. Unread' \subseteq Unread \cup {published + 1}
  BY <1>1 DEF Unread
<1>3. /\ top < published + 1 /\ ~(published + 1 <= top) /\ \A o \in stored : o < published + 1
      /\ load.phase # "none" => /\ published + 1 > load.top
                                /\ \A q \in load.refs : q < published + 1
  BY Places
<1>4. OldAreBelow'
  BY <1>1, <1>2, <1>3 DEF OnePiece, OldAreBelow
<1>5. NewAreAbove'
  BY <1>1, <1>2, <1>3 DEF OnePiece, NewAreAbove
<1>6. ReadsAPiece'
  <2> SUFFICES ASSUME load.phase = "reading" PROVE ReadsAPiece'
    BY <1>1 DEF ReadsAPiece
  <2>1. ASSUME NEW p \in ToRead' \ load.refs
        PROVE  \/ p > load.top /\ \A q \in load.refs : q < p
               \/ /\ p <= load.top /\ \A q \in load.refs : q > p
                  /\ p \in Unread' => \A o \in stored : o > p
               \/ p <= load.cutoff
    <3>1. CASE p = published + 1
      BY <1>3, <3>1
    <3>2. CASE p # published + 1
      <4>1. p \in ToRead \ load.refs /\ (p \in Unread' => p \in Unread)
        BY <1>1, <1>2, <3>2
      <4> QED  BY <4>1 DEF OnePiece, ReadsAPiece
    <3> QED  BY <3>1, <3>2
  <2> QED  BY <1>1, <2>1 DEF OnePiece, ReadsAPiece
<1> QED  BY <1>4, <1>5, <1>6

\* Every step keeps the piece.
LEMMA PieceStep ==
  ASSUME Steady, Ceilings, LoadSound, OnePiece, [LoadNext]_loadVars
  PROVE  OnePiece'
<1>1. CASE UNCHANGED loadVars
  BY <1>1 DEF loadVars, OnePiece, OnlyRegular, OldAreBelow, NewAreAbove, ReadsAPiece,
     Unread, ToRead, Visible
<1>2. CASE Age
  <2>1. UNCHANGED <<source, published, removed, stored, everFailed, last, top, floor, load>>
    BY <1>2 DEF Age
  <2>2. ToRead' = ToRead /\ Unread' = Unread
    BY <2>1, SamePosts DEF Unread
  <2> QED  BY <2>1, <2>2 DEF OnePiece, OnlyRegular, OldAreBelow, NewAreAbove, ReadsAPiece
<1>3. ASSUME NEW p \in Posts, Remove(p) PROVE OnePiece'
  <2>1. /\ ToRead' \subseteq ToRead /\ Unread' \subseteq Unread
        /\ UNCHANGED <<source, stored, last, top, load>>
    BY <1>3, FewerPosts DEF Unread
  <2> QED  BY <2>1 DEF OnePiece, OnlyRegular, OldAreBelow, NewAreAbove, ReadsAPiece
<1>4. CASE Start \/ NextPage \/ DiscoveryFails \/ Break
  <2>1. /\ load'.phase # "reading"
        /\ UNCHANGED <<siteVars, stored, everFailed, pastVars>>
    <3>1. CASE Start
      BY <3>1 DEF Start, StartLoad, NoLoad
    <3>2. CASE NextPage
      <4>1. load \in OpenLoads /\ load.phase = "listing"
        BY <3>2, OpenShape DEF NextPage, LoadSound
      <4> QED  BY <3>2, <4>1 DEF NextPage, OpenLoads
    <3>3. CASE DiscoveryFails \/ Break
      BY <3>3 DEF DiscoveryFails, Break, NoLoad
    <3> QED  BY <1>4, <3>1, <3>2, <3>3
  <2>2. Unread' = Unread
    BY <2>1, SamePosts DEF Unread
  <2> QED  BY <2>1, <2>2 DEF OnePiece, OnlyRegular, OldAreBelow, NewAreAbove, ReadsAPiece
<1>5. CASE ReadOne
  BY <1>5, PieceReads DEF ReadOne
<1> QED  BY <1>1, <1>2, <1>3, <1>4, <1>5, PiecePublish, PieceEnds, PieceShut, PieceFinish
         DEF LoadNext

\* Once a load completed, no post lies unread between two stored ones (LoadedWithoutHoles):
\* what is stored of a source of which only regular loads are made is one piece of its feed,
\* but for what failed or had no text, or was out of a completed load's sight, through any
\* number of loads that break.
THEOREM LoadsWithoutHoles ==
  ASSUME Steady, Ceilings
  PROVE  LoadSpec => []LoadedWithoutHoles
<1> DEFINE Inv == LoadSound /\ OnePiece
<1>1. LoadInit => Inv
  BY LoadStarts, PieceInit
<1>2. Inv /\ [LoadNext]_loadVars => Inv'
  BY LoadStep, PieceStep
<1>3. Inv => LoadedWithoutHoles
  <2> SUFFICES ASSUME LoadSound, OnePiece, last = "completed", OnlyRegular,
                      NEW p \in Unread, NEW older \in stored, NEW newer \in stored,
                      older < p, p < newer
               PROVE  FALSE
    BY DEF LoadedWithoutHoles, LoadSound, Unread, ToRead
  <2>1. p \in Int /\ older \in Int /\ newer \in Int /\ top \in Nat
    BY Places
  <2>2. p <= top => older > p
    BY DEF OnePiece, OldAreBelow
  <2>3. p > top => newer < p
    BY DEF OnePiece, NewAreAbove
  <2> QED  BY <2>1, <2>2, <2>3
<1> HIDE DEF Inv
<1> QED  BY <1>1, <1>2, <1>3, PTL DEF LoadSpec

\* Where a page it knows ends the paging of a regular load, all unread posts that were there
\* when it began lie below what is stored (PastKnownInSightIsLoaded), but for what was out of
\* the sight of a load that completed: the hypotheses, and this exception, are what the
\* configurations leave out in which TLC finds PastKnownIsLoaded violated.
THEOREM NothingPastTheKnown ==
  ASSUME Steady, Ceilings, \A s \in Sources : s.kinds = {"regular"} /\ s.dates = {}
  PROVE  LoadSpec => PastKnownInSightIsLoaded
<1> DEFINE Inv == LoadSound /\ OnePiece
<1>1. LoadInit => Inv
  BY LoadStarts, PieceInit
<1>2. Inv /\ [LoadNext]_loadVars => Inv'
  BY LoadStep, PieceStep
<1>3. Inv /\ [LoadNext]_loadVars =>
        [EndDiscovery /\ ReachedKnown =>
           \A p \in Visible \ (stored \cup NoText \cup everFailed \cup load.refs) :
             p <= load.top /\ p > load.cutoff /\ p > floor =>
               \A older \in stored : older > p]_loadVars
  <2> SUFFICES ASSUME LoadSound, OnePiece, EndDiscovery, ReachedKnown,
                      NEW p \in Visible \ (stored \cup NoText \cup everFailed \cup load.refs),
                      p <= load.top, p > load.cutoff, p > floor
               PROVE  \A older \in stored : older > p
    OBVIOUS
  <2>1. load.phase = "listing" /\ PagingEnds
    BY DiscoveryDoes
  <2>2. OnlyRegular
    BY DEF LoadSound, LoadTypeOK, OnlyRegular
  <2>3. p \in ToRead \ Listed /\ p \in Unread
    BY DEF ToRead, Unread, Listed, ReachedKnown
  <2>4. ~(p > load.top) /\ ~(p <= load.cutoff)
    BY <2>1, <2>3, Places
  <2> QED  BY <2>1, <2>2, <2>3, <2>4, LeftOutApart DEF OnePiece
<1> HIDE DEF Inv
<1> QED  BY <1>1, <1>2, <1>3, PTL DEF LoadSpec, PastKnownInSightIsLoaded
=============================================================================
