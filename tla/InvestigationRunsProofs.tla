------------------------ MODULE InvestigationRunsProofs ------------------------
(***************************************************************************)
(* Proofs about InvestigationRuns: the searches made at once stay within   *)
(* the slots whichever processes make them, and processes that die lose no *)
(* record and make no search again.                                        *)
(***************************************************************************)
EXTENDS InvestigationRuns, FiniteSetTheorems, TLAPS

\* The parts of TypeOK.
RowTypes ==
  status \in {"none", "running", "ended"} /\ progress \in States /\ lowest \in 0..Ceiling

ProcTypes ==
  /\ lock \in Procs \union {NoProc}
  /\ phase \in [Procs -> Phases] /\ resumed \subseteq Procs
  /\ state \in [Procs -> States]

SearchTypes ==
  /\ todo \in [Procs -> SUBSET Searches]
  /\ active \in [Procs -> SUBSET Searches] /\ unfinished \in [Procs -> SUBSET Local]

Awaited == \A w \in writes : w.live => phase[w.by] = Awaiting[w.op]

\* What TypeOK leaves open: the calls of the store, and what went wrong so far.
Ops == {"plan", "narrow", "save", "round", "finish", "record"}

Calls == [by : Procs, op : Ops, s : States, task : Searches \union {"none"}, live : BOOLEAN]

CallTypes ==
  /\ writes \subseteq Calls
  /\ \A w \in writes : w.op = "record" => w.task \in Searches

MishapTypes == crashes \in Nat /\ cancels \in Nat /\ failures \in Nat /\ drops \in Nat

\* A process waits for one call of the store at a time, but for its searches' records.
CallsApart ==
  \A v, w \in writes : v.live /\ w.live /\ v.by = w.by /\ v.op # "record" => v = w

\* As long as no connection is lost, who is past the claim of the run holds it.
Holding == Phases \ {"idle", "claiming", "giving back"}
HolderIsOne == drops = 0 => \A p \in Procs : phase[p] \in Holding => lock = p

\* A process that lets go of the run has no search left, in a thread either.
SearchPhases ==
  \A p \in Procs :
    /\ active[p] # {} => phase[p] = "searching"
    /\ unfinished[p] # {} => phase[p] \in Holding

\* Each process alone keeps within the slots.
Own(p) == active[p] \union unfinished[p]
OwnWithinSlots == \A p \in Procs : IsFiniteSet(Own(p)) /\ Cardinality(Own(p)) <= Slots

Types == RowTypes /\ ProcTypes /\ SearchTypes /\ CallTypes /\ MishapTypes
IInv == Types /\ Awaited /\ CallsApart /\ HolderIsOne /\ SearchPhases /\ OwnWithinSlots

\* planner.cap takes searches away and adds none.
LEMMA CappedIsSubset ==
  ASSUME NEW tasks, NEW n, NEW K \in Capped(tasks, n)
  PROVE  K \subseteq tasks
  BY DEF Capped

\* A round's searches are searches.
LEMMA RoundSearches ==
  ASSUME NEW made, NEW n
  PROVE  /\ \A K \in Capped(Tasks, n) : K \in SUBSET Searches
         /\ \A K \in Capped(Follow \ made, n) : K \in SUBSET Searches
  BY CappedIsSubset DEF Searches

\* Where a process waits for a call, and where it goes on.
LEMMA Places ==
  ASSUME NEW op \in Ops
  PROVE  /\ Awaiting[op] \in Holding
         /\ (Awaiting[op] = "searching" <=> op = "record")
         /\ (Awaiting[op] = "finishing" <=> op = "finish")
         /\ Awaiting[op] \notin {"intake", "loading", "deciding", "closing"}
         /\ op # "record" => After[op] \in {"searching", "deciding", "closing"}
<1>1. op # "record" => After[op] \in {"searching", "deciding", "closing"}
  BY DEF Ops, After
<1>2. Awaiting[op] \in {"planning", "narrowing", "covering", "following", "finishing", "searching"}
  BY DEF Ops, Awaiting
<1>3. (Awaiting[op] = "searching" <=> op = "record")
  BY DEF Ops, Awaiting
<1>4. (Awaiting[op] = "finishing" <=> op = "finish")
  BY DEF Ops, Awaiting
<1> QED
  BY <1>1, <1>2, <1>3, <1>4 DEF Holding, Phases

\* The smaller ceiling is a ceiling.
LEMMA SmallerCeiling ==
  ASSUME NEW a \in Nat, NEW b \in 0..Ceiling
  PROVE  Smaller(a, b) \in 0..Ceiling /\ Smaller(b, a) \in 0..Ceiling
  BY BoundAssumption DEF Smaller

\* What a new call begins with.
LEMMA BlankIsState == Blank \in States
  BY BoundAssumption DEF Blank, States

\* A search that is recorded is added to those made.
LEMMA RecordIsState ==
  ASSUME NEW s \in States, NEW t \in Searches
  PROVE  [s EXCEPT !.done = @ \union {t}, !.spent = @ + 1] \in States
<1> DEFINE made == [s EXCEPT !.done = @ \union {t}]
<1>1. s.done \union {t} \in SUBSET Searches /\ s.spent + 1 \in Nat
  BY DEF States
<1>2. made \in States
  BY <1>1 DEF States
<1> HIDE DEF made
<1>3. [made EXCEPT !.spent = s.spent + 1] \in States
  BY <1>1, <1>2 DEF States
<1> QED
  BY <1>3 DEF made

\* A round's searches, the first ones with the plan.
LEMMA RoundIsState ==
  ASSUME NEW s \in States, NEW tasks \in SUBSET Searches
  PROVE  /\ [s EXCEPT !.planned = TRUE, !.tasks = tasks] \in States
         /\ [s EXCEPT !.tasks = tasks, !.round = @ + 1] \in States
<1> DEFINE planned == [s EXCEPT !.planned = TRUE]
           owing == [s EXCEPT !.tasks = tasks]
<1>1. planned \in States
  BY DEF States
<1>2. owing \in States
  BY DEF States
<1>5. s.round + 1 \in Nat
  BY DEF States
<1> HIDE DEF planned, owing
<1>3. [planned EXCEPT !.tasks = tasks] \in States
  BY <1>1 DEF States
<1>4. [owing EXCEPT !.round = s.round + 1] \in States
  BY <1>2, <1>5 DEF States
<1> QED
  BY <1>3, <1>4 DEF planned, owing

\* A record of the row adds a search, and nothing else does to what is done.
LEMMA RecordOfRow ==
  ASSUME progress \in States, NEW t \in Searches
  PROVE  LET s == [progress EXCEPT !.done = @ \union {t}, !.spent = @ + 1]
         IN s.done = progress.done \union {t} /\ s.planned = progress.planned
  BY DEF States

\* A write that is lost changes the process that waited for it, not the row.
LEMMA WriteLost ==
  ASSUME NEW w \in writes, WriteFails(w)
  PROVE  /\ writes' = writes \ {w} /\ failures' = failures + 1
         /\ status' = status /\ progress' = progress /\ lowest' = lowest
         /\ lock' = lock /\ resumed' = resumed /\ active' = active /\ unfinished' = unfinished
         /\ crashes' = crashes /\ cancels' = cancels /\ drops' = drops
         /\ IF w.live /\ w.op = "narrow"
            THEN phase' = [phase EXCEPT ![w.by] = "closing"] /\ state' = state /\ todo' = todo
            ELSE GoOn(w)
  BY Zenon DEF WriteFails, Goto, row

\* A claim that cannot be had, or is not waited for, changes nothing else either.
LEMMA ClaimRefused ==
  ASSUME NEW p \in Procs, ClaimRaises(p)
  PROVE  /\ phase[p] = "claiming" /\ phase' = [phase EXCEPT ![p] = "idle"]
         /\ status' = status /\ progress' = progress /\ lowest' = lowest
         /\ lock' = lock /\ resumed' = resumed /\ state' = state
         /\ todo' = todo /\ active' = active /\ unfinished' = unfinished /\ writes' = writes
         /\ crashes' = crashes /\ cancels' = cancels /\ drops' = drops /\ failures' = failures + 1
  BY Zenon DEF ClaimRaises, Goto, row, searching

\* The thread of a claim that is not waited for goes on.
LEMMA ClaimLeft ==
  ASSUME NEW p \in Procs, CancelClaim(p)
  PROVE  /\ phase[p] = "claiming" /\ phase' = [phase EXCEPT ![p] = "giving back"]
         /\ status' = status /\ progress' = progress /\ lowest' = lowest
         /\ lock' = lock /\ resumed' = resumed /\ state' = state
         /\ todo' = todo /\ active' = active /\ unfinished' = unfinished /\ writes' = writes
         /\ crashes' = crashes /\ cancels' = cancels + 1 /\ drops' = drops /\ failures' = failures
  BY Zenon DEF CancelClaim, Goto, row, searching

\* What a call of the store is made of.
LEMMA CallParts ==
  ASSUME CallTypes, NEW w \in writes
  PROVE  /\ w.by \in Procs /\ w.op \in Ops /\ w.live \in BOOLEAN
         /\ w.op = "record" => w.task \in Searches
         /\ w.s \in States /\ w.s.tasks \in SUBSET Searches /\ w.s.done \in SUBSET Searches
         /\ w.s.limit \in 0..Ceiling
<1>1. w \in Calls
  BY DEF CallTypes
<1>2. w.by \in Procs /\ w.op \in Ops /\ w.live \in BOOLEAN /\ w.s \in States
  BY <1>1 DEF Calls
<1>3. w.s.tasks \in SUBSET Searches /\ w.s.done \in SUBSET Searches /\ w.s.limit \in 0..Ceiling
  BY <1>2 DEF States
<1> QED
  BY <1>2, <1>3 DEF CallTypes

\* The graph of a process that got its answer goes on with a state.
LEMMA GoOnStates ==
  ASSUME ProcTypes, CallTypes, NEW w \in writes, GoOn(w)
  PROVE  state' \in [Procs -> States] /\ phase' \in [Procs -> Phases]
<1>1. w \in Calls /\ (w.op = "record" => w.task \in Searches)
  BY DEF CallTypes
<1>2. w.op \in Ops /\ w.by \in Procs /\ state[w.by] \in States
  BY <1>1 DEF Calls, ProcTypes
<1>4. state' \in [Procs -> States]
  <2>1. CASE w.live /\ w.op = "record"
    <3> DEFINE made == [state EXCEPT ![w.by].done = @ \union {w.task}]
    <3>1. made \in [Procs -> States]
      BY <1>1, <1>2, <2>1 DEF ProcTypes, States
    <3>2. state' = [made EXCEPT ![w.by].spent = state[w.by].spent + 1]
      BY <1>2, <2>1 DEF GoOn, ProcTypes
    <3>3. state[w.by].spent + 1 \in Nat
      BY <1>2 DEF States
    <3> HIDE DEF made
    <3> QED
      BY <1>2, <3>1, <3>2, <3>3 DEF States
  <2>2. CASE ~(w.live /\ w.op = "record")
    BY <2>2 DEF GoOn, ProcTypes
  <2> QED
    BY <2>1, <2>2
<1>5. w.op # "record" => After[w.op] \in Phases
  BY <1>2, Places DEF Phases
<1>6. phase' \in [Procs -> Phases]
  BY <1>5 DEF GoOn, Goto, ProcTypes
<1> QED
  BY <1>4, <1>6

\* Every write of the row leaves a row.
LEMMA RowTypesKept ==
  ASSUME Types, [Next]_vars
  PROVE  RowTypes'
<1> USE DEF Types
<1>1. CASE UNCHANGED vars
  BY <1>1 DEF vars, row, calls, searching, mishaps, RowTypes
<1>2. ASSUME NEW p \in Procs, Investigate(p)
      PROVE  RowTypes'
  BY <1>2 DEF Investigate, searching, mishaps, RowTypes
<1>3. ASSUME NEW p \in Procs, NEW limit \in Asked, Resume(p, limit)
      PROVE  RowTypes'
  BY <1>3 DEF Resume, row, searching, mishaps, RowTypes
<1>4. ASSUME NEW p \in Procs, Claim(p) \/ GiveBack(p)
      PROVE  RowTypes'
  BY <1>4 DEF Claim, GiveBack, row, searching, mishaps, RowTypes
<1>5. ASSUME NEW p \in Procs, Busy(p)
      PROVE  RowTypes'
  BY <1>5 DEF Busy, row, searching, mishaps, RowTypes
<1>6. ASSUME NEW p \in Procs, Release(p)
      PROVE  RowTypes'
  BY <1>6 DEF Release, Idle, row, searching, mishaps, RowTypes
<1>7. ASSUME NEW p \in Procs, LoadNothing(p)
      PROVE  RowTypes'
  BY <1>7 DEF LoadNothing, row, searching, mishaps, RowTypes
<1>8. ASSUME NEW p \in Procs, Load(p)
      PROVE  RowTypes'
  BY <1>8 DEF Load, row, searching, mishaps, RowTypes
<1>9. ASSUME NEW p \in Procs, Plan(p)
      PROVE  RowTypes'
  BY <1>9 DEF Plan, row, searching, mishaps, RowTypes
<1>10. ASSUME NEW p \in Procs, Clarify(p) \/ Report(p)
      PROVE  RowTypes'
  BY <1>10 DEF Clarify, Report, End, row, searching, mishaps, RowTypes
<1>11. ASSUME NEW p \in Procs, NEW t \in Searches, StartSearch(p, t)
      PROVE  RowTypes'
  BY <1>11 DEF StartSearch, row, calls, mishaps, RowTypes
<1>12. ASSUME NEW p \in Procs, NEW t \in Searches, EndSearch(p, t) \/ TimeOut(p, t)
      PROVE  RowTypes'
  BY <1>12 DEF EndSearch, TimeOut, row, calls, mishaps, RowTypes
<1>13. ASSUME NEW p \in Procs, NEW t \in Searches, LateEnds(p, t)
      PROVE  RowTypes'
  BY <1>13 DEF LateEnds, row, calls, mishaps, RowTypes
<1>14. ASSUME NEW p \in Procs, Cover(p)
      PROVE  RowTypes'
  BY <1>14 DEF Cover, row, searching, mishaps, RowTypes
<1>15. ASSUME NEW p \in Procs, FollowUp(p)
      PROVE  RowTypes'
  BY <1>15 DEF FollowUp, row, searching, mishaps, RowTypes
<1>16. ASSUME NEW p \in Procs, FailRun(p)
      PROVE  RowTypes'
  BY <1>16 DEF FailRun, Abandon, Abandoned, End, row, mishaps, RowTypes
<1>17. ASSUME NEW p \in Procs, Cancel(p)
      PROVE  RowTypes'
  BY <1>17 DEF Cancel, Abandon, Abandoned, row, RowTypes
<1>18. ASSUME NEW p \in Procs, Crash(p)
      PROVE  RowTypes'
  BY <1>18 DEF Crash, row, RowTypes
<1>19. ASSUME NEW w \in writes, Write(w)
      PROVE  RowTypes'
  <2>1. /\ w.op \in Ops /\ (w.op = "record" => w.task \in Searches)
        /\ w.s \in States /\ w.s.tasks \in SUBSET Searches /\ w.s.limit \in 0..Ceiling
    BY CallParts
  <2>2. progress \in States /\ lowest \in 0..Ceiling
    BY DEF RowTypes
  <2>3. Written(w) \in States
    <3>1. CASE w.op \in {"plan", "save", "finish"}
      BY <2>1, <3>1, BlankIsState DEF Written
    <3>2. CASE w.op = "record"
      <4>1. [progress EXCEPT !.done = @ \union {w.task}, !.spent = @ + 1] \in States
        BY <2>1, <2>2, <3>2, RecordIsState
      <4> QED
        BY <2>2, <3>2, <4>1 DEF Written
    <3>3. CASE w.op = "round"
      <4> DEFINE next == [progress EXCEPT !.tasks = w.s.tasks, !.round = @ + 1]
      <4>1. next \in States
        BY <2>1, <2>2, RoundIsState
      <4>2. Written(w) = IF progress.planned THEN next ELSE progress
        BY <3>3 DEF Written
      <4> HIDE DEF next
      <4> QED
        BY <2>2, <4>1, <4>2
    <3>4. CASE w.op = "narrow"
      <4>1. [progress EXCEPT !.tasks = w.s.tasks, !.limit = w.s.limit] \in States
        BY <2>1, <2>2 DEF States
      <4> QED
        BY <2>2, <3>4, <4>1 DEF Written
    <3> QED
      BY <2>1, <3>1, <3>2, <3>3, <3>4 DEF Ops
  <2>4. Smaller(lowest, w.s.limit) \in 0..Ceiling
    BY <2>1, <2>2 DEF Smaller
  <2>5. progress' \in States /\ lowest' \in 0..Ceiling /\ status' \in {status, "ended"}
    BY <1>19, <2>2, <2>3, <2>4 DEF Write, row
  <2> QED
    BY <2>5 DEF RowTypes
<1>20. ASSUME NEW w \in writes, WriteFails(w)
      PROVE  RowTypes'
  BY <1>20, WriteLost DEF GoOn, RowTypes
<1>21. ASSUME DropConnection
      PROVE  RowTypes'
  BY <1>21 DEF DropConnection, row, calls, searching, RowTypes
<1>22. ASSUME NEW p \in Procs, ClaimRaises(p)
      PROVE  RowTypes'
  BY <1>22, ClaimRefused DEF RowTypes
<1>23. ASSUME NEW p \in Procs, CancelClaim(p)
      PROVE  RowTypes'
  BY <1>23, ClaimLeft DEF RowTypes
<1> QED
  BY <1>1, <1>2, <1>3, <1>4, <1>5, <1>6, <1>7, <1>8, <1>9, <1>10, <1>11, <1>12, <1>13,
     <1>14, <1>15, <1>16, <1>17, <1>18, <1>19, <1>20, <1>21, <1>22, <1>23 DEF Next, Works, Ends,
     Late, Writes

\* Every step leaves the processes in places of a call.
LEMMA ProcTypesKept ==
  ASSUME Types, [Next]_vars
  PROVE  ProcTypes'
<1> USE DEF Types
<1>1. CASE UNCHANGED vars
  BY <1>1 DEF vars, row, calls, searching, mishaps, ProcTypes, Goto, Phases
<1>2. ASSUME NEW p \in Procs, Investigate(p)
      PROVE  ProcTypes'
  BY <1>2, BlankIsState DEF Investigate, searching, mishaps, ProcTypes, Goto, Phases
<1>3. ASSUME NEW p \in Procs, NEW limit \in Asked, Resume(p, limit)
      PROVE  ProcTypes'
  <2>1. limit \in Nat /\ Ceiling \in 0..Ceiling
    BY BoundAssumption
  <2> DEFINE lower == Smaller(limit, Ceiling)
  <2>3. lower \in 0..Ceiling
    BY <2>1, SmallerCeiling
  <2>2. [Blank EXCEPT !.limit = lower] \in States
    BY <2>3, BlankIsState DEF States
  <2> QED
    BY <1>3, <2>2 DEF Resume, ProcTypes, Goto, Phases
<1>4. ASSUME NEW p \in Procs, Claim(p) \/ GiveBack(p)
      PROVE  ProcTypes'
  BY <1>4 DEF Claim, GiveBack, row, searching, mishaps, ProcTypes, Goto, Phases
<1>5. ASSUME NEW p \in Procs, Busy(p)
      PROVE  ProcTypes'
  BY <1>5 DEF Busy, row, searching, mishaps, ProcTypes, Goto, Phases
<1>6. ASSUME NEW p \in Procs, Release(p)
      PROVE  ProcTypes'
  BY <1>6 DEF Release, Idle, row, searching, mishaps, ProcTypes, Goto, Phases
<1>7. ASSUME NEW p \in Procs, LoadNothing(p)
      PROVE  ProcTypes'
  BY <1>7 DEF LoadNothing, row, searching, mishaps, ProcTypes, Goto, Phases
<1>8. ASSUME NEW p \in Procs, Load(p)
      PROVE  ProcTypes'
  <2> DEFINE held == [progress EXCEPT !.limit = HeldTo(p)]
  <2>1. PICK owed \in Capped(Owed, Left(held)) :
          state' = [state EXCEPT ![p] = [held EXCEPT !.tasks = owed]]
    BY <1>8 DEF Load
  <2>2. progress.limit \in 0..Ceiling /\ state[p].limit \in Nat /\ Owed \subseteq Searches
    BY BoundAssumption DEF RowTypes, ProcTypes, States, Owed
  <2>3. HeldTo(p) \in 0..Ceiling /\ owed \in SUBSET Searches
    BY <2>2, SmallerCeiling, CappedIsSubset DEF HeldTo
  <2>4. held \in States
    BY <2>3 DEF RowTypes, States
  <2> HIDE DEF held
  <2>5. [held EXCEPT !.tasks = owed] \in States
    BY <2>3, <2>4 DEF States
  <2>6. state' \in [Procs -> States]
    BY <2>1, <2>5 DEF ProcTypes
  <2> QED
    BY <1>8, <2>6 DEF Load, ProcTypes, Goto, Phases
<1>9. ASSUME NEW p \in Procs, Plan(p)
      PROVE  ProcTypes'
  <2>5. state[p] \in States
    BY DEF ProcTypes
  <2>1. PICK tasks \in Capped(Tasks, Left(state[p])) :
          state' = [state EXCEPT ![p] = [state[p] EXCEPT !.planned = TRUE, !.tasks = tasks]]
    BY <1>9 DEF Plan
  <2>2. tasks \in SUBSET Searches
    BY RoundSearches
  <2>3. [state[p] EXCEPT !.planned = TRUE, !.tasks = tasks] \in States
    BY <2>2, <2>5, RoundIsState
  <2>4. state' \in [Procs -> States]
    BY <2>1, <2>3 DEF ProcTypes
  <2> QED
    BY <1>9, <2>4 DEF Plan, ProcTypes, Goto, Phases
<1>10. ASSUME NEW p \in Procs, Clarify(p) \/ Report(p)
      PROVE  ProcTypes'
  BY <1>10 DEF Clarify, Report, End, row, searching, mishaps, ProcTypes, Goto, Phases
<1>11. ASSUME NEW p \in Procs, NEW t \in Searches, StartSearch(p, t)
      PROVE  ProcTypes'
  BY <1>11 DEF StartSearch, row, calls, mishaps, ProcTypes, Goto, Phases
<1>12. ASSUME NEW p \in Procs, NEW t \in Searches, EndSearch(p, t) \/ TimeOut(p, t)
      PROVE  ProcTypes'
  BY <1>12 DEF EndSearch, TimeOut, row, calls, mishaps, ProcTypes, Goto, Phases
<1>13. ASSUME NEW p \in Procs, NEW t \in Searches, LateEnds(p, t)
      PROVE  ProcTypes'
  BY <1>13 DEF LateEnds, row, calls, mishaps, ProcTypes, Goto, Phases
<1>14. ASSUME NEW p \in Procs, Cover(p)
      PROVE  ProcTypes'
  BY <1>14 DEF Cover, row, searching, mishaps, ProcTypes, Goto, Phases
<1>15. ASSUME NEW p \in Procs, FollowUp(p)
      PROVE  ProcTypes'
  <2>5. state[p] \in States
    BY DEF ProcTypes
  <2>1. PICK tasks \in Capped(Follow \ state[p].done, Left(state[p])) :
          state' = [state EXCEPT ![p] = [state[p] EXCEPT !.tasks = tasks, !.round = @ + 1]]
    BY <1>15 DEF FollowUp
  <2>2. tasks \in SUBSET Searches
    BY RoundSearches
  <2>3. [state[p] EXCEPT !.tasks = tasks, !.round = @ + 1] \in States
    BY <2>2, <2>5, RoundIsState
  <2>4. state' \in [Procs -> States]
    BY <2>1, <2>3 DEF ProcTypes
  <2> QED
    BY <1>15, <2>4 DEF FollowUp, ProcTypes, Goto, Phases
<1>16. ASSUME NEW p \in Procs, FailRun(p)
      PROVE  ProcTypes'
  BY <1>16 DEF FailRun, Abandon, Abandoned, End, row, mishaps, ProcTypes, Goto, Phases
<1>17. ASSUME NEW p \in Procs, Cancel(p)
      PROVE  ProcTypes'
  BY <1>17 DEF Cancel, Abandon, Abandoned, row, ProcTypes, Goto, Phases
<1>18. ASSUME NEW p \in Procs, Crash(p)
      PROVE  ProcTypes'
  BY <1>18 DEF Crash, row, ProcTypes, Goto, Phases
<1>19. ASSUME NEW w \in writes, Write(w)
      PROVE  ProcTypes'
  BY <1>19, GoOnStates DEF Write, ProcTypes
<1>20. ASSUME NEW w \in writes, WriteFails(w)
      PROVE  ProcTypes'
  <2>1. state' \in [Procs -> States] /\ phase' \in [Procs -> Phases]
    <3>1. CASE w.live /\ w.op = "narrow"
      BY <1>20, <3>1, WriteLost DEF ProcTypes, Phases
    <3>2. CASE ~(w.live /\ w.op = "narrow")
      BY <1>20, <3>2, WriteLost, GoOnStates
    <3> QED
      BY <3>1, <3>2
  <2> QED
    BY <1>20, <2>1, WriteLost DEF ProcTypes
<1>21. ASSUME DropConnection
      PROVE  ProcTypes'
  BY <1>21 DEF DropConnection, row, calls, searching, ProcTypes, Goto, Phases
<1>22. ASSUME NEW p \in Procs, ClaimRaises(p)
      PROVE  ProcTypes'
  BY <1>22, ClaimRefused DEF ProcTypes, Goto, Phases
<1>23. ASSUME NEW p \in Procs, CancelClaim(p)
      PROVE  ProcTypes'
  BY <1>23, ClaimLeft DEF ProcTypes, Goto, Phases
<1> QED
  BY <1>1, <1>2, <1>3, <1>4, <1>5, <1>6, <1>7, <1>8, <1>9, <1>10, <1>11, <1>12, <1>13,
     <1>14, <1>15, <1>16, <1>17, <1>18, <1>19, <1>20, <1>21, <1>22, <1>23 DEF Next, Works, Ends,
     Late, Writes

\* The branches, the searches and what outlives them are searches.
LEMMA SearchTypesKept ==
  ASSUME Types, [Next]_vars
  PROVE  SearchTypes'
<1> USE DEF Types
<1>1. CASE UNCHANGED vars
  BY <1>1 DEF vars, row, calls, searching, mishaps, SearchTypes
<1>2. ASSUME NEW p \in Procs, Investigate(p)
      PROVE  SearchTypes'
  BY <1>2 DEF Investigate, searching, mishaps, SearchTypes
<1>3. ASSUME NEW p \in Procs, NEW limit \in Asked, Resume(p, limit)
      PROVE  SearchTypes'
  BY <1>3 DEF Resume, row, searching, mishaps, SearchTypes
<1>4. ASSUME NEW p \in Procs, Claim(p) \/ GiveBack(p)
      PROVE  SearchTypes'
  BY <1>4 DEF Claim, GiveBack, row, searching, mishaps, SearchTypes
<1>5. ASSUME NEW p \in Procs, Busy(p)
      PROVE  SearchTypes'
  BY <1>5 DEF Busy, row, searching, mishaps, SearchTypes
<1>6. ASSUME NEW p \in Procs, Release(p)
      PROVE  SearchTypes'
  BY <1>6 DEF Release, Idle, row, searching, mishaps, SearchTypes
<1>7. ASSUME NEW p \in Procs, LoadNothing(p)
      PROVE  SearchTypes'
  BY <1>7 DEF LoadNothing, row, searching, mishaps, SearchTypes
<1>8. ASSUME NEW p \in Procs, Load(p)
      PROVE  SearchTypes'
  BY <1>8 DEF Load, row, searching, mishaps, SearchTypes
<1>9. ASSUME NEW p \in Procs, Plan(p)
      PROVE  SearchTypes'
  BY <1>9 DEF Plan, row, searching, mishaps, SearchTypes
<1>10. ASSUME NEW p \in Procs, Clarify(p) \/ Report(p)
      PROVE  SearchTypes'
  BY <1>10 DEF Clarify, Report, End, row, searching, mishaps, SearchTypes
<1>11. ASSUME NEW p \in Procs, NEW t \in Searches, StartSearch(p, t)
      PROVE  SearchTypes'
  BY <1>11 DEF StartSearch, row, calls, mishaps, SearchTypes
<1>12. ASSUME NEW p \in Procs, NEW t \in Searches, EndSearch(p, t) \/ TimeOut(p, t)
      PROVE  SearchTypes'
  BY <1>12 DEF EndSearch, TimeOut, row, calls, mishaps, SearchTypes
<1>13. ASSUME NEW p \in Procs, NEW t \in Searches, LateEnds(p, t)
      PROVE  SearchTypes'
  BY <1>13 DEF LateEnds, row, calls, mishaps, SearchTypes
<1>14. ASSUME NEW p \in Procs, Cover(p)
      PROVE  SearchTypes'
  BY <1>14 DEF Cover, row, searching, mishaps, SearchTypes
<1>15. ASSUME NEW p \in Procs, FollowUp(p)
      PROVE  SearchTypes'
  BY <1>15 DEF FollowUp, row, searching, mishaps, SearchTypes
<1>16. ASSUME NEW p \in Procs, FailRun(p)
      PROVE  SearchTypes'
  BY <1>16 DEF FailRun, Abandon, Abandoned, End, row, mishaps, SearchTypes
<1>17. ASSUME NEW p \in Procs, Cancel(p)
      PROVE  SearchTypes'
  BY <1>17 DEF Cancel, Abandon, Abandoned, row, SearchTypes
<1>18. ASSUME NEW p \in Procs, Crash(p)
      PROVE  SearchTypes'
  BY <1>18 DEF Crash, row, SearchTypes
<1>19. ASSUME NEW w \in writes, Write(w)
      PROVE  SearchTypes'
  <2>1. w.by \in Procs /\ state[w.by].tasks \in SUBSET Searches
    BY <1>19 DEF CallTypes, Calls, ProcTypes, States
  <2> QED
    BY <1>19, <2>1 DEF Write, GoOn, SearchTypes
<1>20. ASSUME NEW w \in writes, WriteFails(w)
      PROVE  SearchTypes'
  <2>1. w.by \in Procs /\ state[w.by].tasks \in SUBSET Searches
    BY <1>20 DEF CallTypes, Calls, ProcTypes, States
  <2> QED
    BY <1>20, <2>1, WriteLost DEF GoOn, SearchTypes
<1>21. ASSUME DropConnection
      PROVE  SearchTypes'
  BY <1>21 DEF DropConnection, row, calls, searching, SearchTypes
<1>22. ASSUME NEW p \in Procs, ClaimRaises(p)
      PROVE  SearchTypes'
  BY <1>22, ClaimRefused DEF SearchTypes
<1>23. ASSUME NEW p \in Procs, CancelClaim(p)
      PROVE  SearchTypes'
  BY <1>23, ClaimLeft DEF SearchTypes
<1> QED
  BY <1>1, <1>2, <1>3, <1>4, <1>5, <1>6, <1>7, <1>8, <1>9, <1>10, <1>11, <1>12, <1>13,
     <1>14, <1>15, <1>16, <1>17, <1>18, <1>19, <1>20, <1>21, <1>22, <1>23 DEF Next, Works, Ends,
     Late, Writes

\* What goes wrong is counted.
LEMMA MishapTypesKept ==
  ASSUME Types, [Next]_vars
  PROVE  MishapTypes'
<1> USE DEF Types
<1>1. CASE UNCHANGED vars
  BY <1>1 DEF vars, row, calls, searching, mishaps, MishapTypes
<1>2. ASSUME NEW p \in Procs, Investigate(p)
      PROVE  MishapTypes'
  BY <1>2 DEF Investigate, searching, mishaps, MishapTypes
<1>3. ASSUME NEW p \in Procs, NEW limit \in Asked, Resume(p, limit)
      PROVE  MishapTypes'
  BY <1>3 DEF Resume, row, searching, mishaps, MishapTypes
<1>4. ASSUME NEW p \in Procs, Claim(p) \/ GiveBack(p)
      PROVE  MishapTypes'
  BY <1>4 DEF Claim, GiveBack, row, searching, mishaps, MishapTypes
<1>5. ASSUME NEW p \in Procs, Busy(p)
      PROVE  MishapTypes'
  BY <1>5 DEF Busy, row, searching, mishaps, MishapTypes
<1>6. ASSUME NEW p \in Procs, Release(p)
      PROVE  MishapTypes'
  BY <1>6 DEF Release, Idle, row, searching, mishaps, MishapTypes
<1>7. ASSUME NEW p \in Procs, LoadNothing(p)
      PROVE  MishapTypes'
  BY <1>7 DEF LoadNothing, row, searching, mishaps, MishapTypes
<1>8. ASSUME NEW p \in Procs, Load(p)
      PROVE  MishapTypes'
  BY <1>8 DEF Load, row, searching, mishaps, MishapTypes
<1>9. ASSUME NEW p \in Procs, Plan(p)
      PROVE  MishapTypes'
  BY <1>9 DEF Plan, row, searching, mishaps, MishapTypes
<1>10. ASSUME NEW p \in Procs, Clarify(p) \/ Report(p)
      PROVE  MishapTypes'
  BY <1>10 DEF Clarify, Report, End, row, searching, mishaps, MishapTypes
<1>11. ASSUME NEW p \in Procs, NEW t \in Searches, StartSearch(p, t)
      PROVE  MishapTypes'
  BY <1>11 DEF StartSearch, row, calls, mishaps, MishapTypes
<1>12. ASSUME NEW p \in Procs, NEW t \in Searches, EndSearch(p, t) \/ TimeOut(p, t)
      PROVE  MishapTypes'
  BY <1>12 DEF EndSearch, TimeOut, row, calls, mishaps, MishapTypes
<1>13. ASSUME NEW p \in Procs, NEW t \in Searches, LateEnds(p, t)
      PROVE  MishapTypes'
  BY <1>13 DEF LateEnds, row, calls, mishaps, MishapTypes
<1>14. ASSUME NEW p \in Procs, Cover(p)
      PROVE  MishapTypes'
  BY <1>14 DEF Cover, row, searching, mishaps, MishapTypes
<1>15. ASSUME NEW p \in Procs, FollowUp(p)
      PROVE  MishapTypes'
  BY <1>15 DEF FollowUp, row, searching, mishaps, MishapTypes
<1>16. ASSUME NEW p \in Procs, FailRun(p)
      PROVE  MishapTypes'
  BY <1>16 DEF FailRun, Abandon, Abandoned, End, row, mishaps, MishapTypes
<1>17. ASSUME NEW p \in Procs, Cancel(p)
      PROVE  MishapTypes'
  BY <1>17 DEF Cancel, Abandon, Abandoned, row, MishapTypes, mishaps
<1>18. ASSUME NEW p \in Procs, Crash(p)
      PROVE  MishapTypes'
  BY <1>18 DEF Crash, row, MishapTypes, mishaps
<1>19. ASSUME NEW w \in writes, Write(w)
      PROVE  MishapTypes'
  BY <1>19 DEF Write, GoOn, row, mishaps, MishapTypes
<1>20. ASSUME NEW w \in writes, WriteFails(w)
      PROVE  MishapTypes'
  BY <1>20, WriteLost DEF MishapTypes
<1>21. ASSUME DropConnection
      PROVE  MishapTypes'
  BY <1>21 DEF DropConnection, row, calls, searching, MishapTypes, mishaps
<1>22. ASSUME NEW p \in Procs, ClaimRaises(p)
      PROVE  MishapTypes'
  BY <1>22, ClaimRefused DEF MishapTypes, mishaps
<1>23. ASSUME NEW p \in Procs, CancelClaim(p)
      PROVE  MishapTypes'
  <2>1. crashes' = crashes /\ cancels' = cancels + 1 /\ drops' = drops /\ failures' = failures
    BY <1>23, ClaimLeft, Zenon
  <2> QED
    BY <2>1 DEF MishapTypes
<1> QED
  BY <1>1, <1>2, <1>3, <1>4, <1>5, <1>6, <1>7, <1>8, <1>9, <1>10, <1>11, <1>12, <1>13,
     <1>14, <1>15, <1>16, <1>17, <1>18, <1>19, <1>20, <1>21, <1>22, <1>23 DEF Next, Works, Ends,
     Late, Writes

\* A process that waits for a call is at the call's place, and nowhere else.
LEMMA LiveCall ==
  ASSUME CallTypes, Awaited, NEW w \in writes, w.live
  PROVE  /\ phase[w.by] = Awaiting[w.op] /\ phase[w.by] \in Holding
         /\ (phase[w.by] = "searching" <=> w.op = "record")
         /\ phase[w.by] \notin {"intake", "loading", "deciding", "closing"}
  BY CallParts, Places DEF Awaited

\* A step of the graph that has something written: the call it makes and waits for.
Asks(p, op, s) ==
  /\ phase[p] \in {"loading", "intake", "searching", "deciding"}
  /\ phase[p] = "searching" => Recording(p) = {} /\ active[p] = {}
  /\ phase' = [phase EXCEPT ![p] = Awaiting[op]]
  /\ writes' = writes \union {Call(p, op, s, "none")}

Asking(p) == Load(p) \/ Plan(p) \/ Clarify(p) \/ Report(p) \/ Cover(p) \/ FollowUp(p)

\* Each makes one call, and changes neither the row nor the searches.
LEMMA AskingSteps ==
  ASSUME Types, NEW p \in Procs, Asking(p), ProcTypes'
  PROVE  /\ \E op \in Ops \ {"record"}, s \in States : Asks(p, op, s)
         /\ status' = status /\ progress' = progress /\ lowest' = lowest
         /\ lock' = lock /\ resumed' = resumed
         /\ todo' = todo /\ active' = active /\ unfinished' = unfinished
         /\ crashes' = crashes /\ cancels' = cancels /\ failures' = failures /\ drops' = drops
<1> USE DEF Types
<1>1. state[p] \in States /\ state'[p] \in States /\ Blank \in States
  BY BlankIsState DEF ProcTypes
<1>2. \E op \in Ops \ {"record"}, s \in States : Asks(p, op, s)
  <2>1. CASE Load(p)
    <3> DEFINE held == [progress EXCEPT !.limit = HeldTo(p)]
    <3>1. PICK owed \in Capped(Owed, Left(held)) :
            /\ state' = [state EXCEPT ![p] = [held EXCEPT !.tasks = owed]]
            /\ writes' = writes \union {Call(p, "narrow", [held EXCEPT !.tasks = owed], "none")}
      BY <2>1 DEF Load
    <3> DEFINE s == [held EXCEPT !.tasks = owed]
    <3>2. state' = [state EXCEPT ![p] = s] /\ writes' = writes \union {Call(p, "narrow", s, "none")}
      BY <3>1
    <3>3. phase[p] = "loading" /\ phase' = [phase EXCEPT ![p] = "narrowing"]
      BY <2>1 DEF Load, Goto
    <3> HIDE DEF s
    <3>4. s = state'[p]
      BY <3>2 DEF ProcTypes
    <3>5. Asks(p, "narrow", s)
      BY <3>2, <3>3 DEF Asks, Awaiting
    <3> QED
      BY <1>1, <3>4, <3>5 DEF Ops
  <2>2. CASE Plan(p)
    <3>1. PICK tasks \in Capped(Tasks, Left(state[p])) :
            /\ state' = [state EXCEPT ![p] = [state[p] EXCEPT !.planned = TRUE, !.tasks = tasks]]
            /\ writes' = writes \union
                 {Call(p, "plan", [state[p] EXCEPT !.planned = TRUE, !.tasks = tasks], "none")}
      BY <2>2 DEF Plan
    <3> DEFINE s == [state[p] EXCEPT !.planned = TRUE, !.tasks = tasks]
    <3>2. state' = [state EXCEPT ![p] = s] /\ writes' = writes \union {Call(p, "plan", s, "none")}
      BY <3>1
    <3>3. phase[p] = "intake" /\ phase' = [phase EXCEPT ![p] = "planning"]
      BY <2>2 DEF Plan, Goto
    <3> HIDE DEF s
    <3>4. s = state'[p]
      BY <3>2 DEF ProcTypes
    <3>5. Asks(p, "plan", s)
      BY <3>2, <3>3 DEF Asks, Awaiting
    <3> QED
      BY <1>1, <3>4, <3>5 DEF Ops
  <2>3. CASE FollowUp(p)
    <3>1. PICK tasks \in Capped(Follow \ state[p].done, Left(state[p])) :
            /\ state' = [state EXCEPT ![p] = [state[p] EXCEPT !.tasks = tasks, !.round = @ + 1]]
            /\ writes' = writes \union
                 {Call(p, "round", [state[p] EXCEPT !.tasks = tasks, !.round = @ + 1], "none")}
      BY <2>3 DEF FollowUp
    <3> DEFINE s == [state[p] EXCEPT !.tasks = tasks, !.round = @ + 1]
    <3>2. state' = [state EXCEPT ![p] = s] /\ writes' = writes \union {Call(p, "round", s, "none")}
      BY <3>1
    <3>3. phase[p] = "deciding" /\ phase' = [phase EXCEPT ![p] = "following"]
      BY <2>3 DEF FollowUp, Goto
    <3> HIDE DEF s
    <3>4. s = state'[p]
      BY <3>2 DEF ProcTypes
    <3>5. Asks(p, "round", s)
      BY <3>2, <3>3 DEF Asks, Awaiting
    <3> QED
      BY <1>1, <3>4, <3>5 DEF Ops
  <2>4. CASE Cover(p)
    <3>1. phase[p] = "searching" /\ Recording(p) = {} /\ active[p] = {}
      BY <2>4 DEF Cover
    <3>2. Asks(p, "save", state[p])
      BY <2>4, <3>1 DEF Cover, Asks, Goto, Awaiting
    <3> QED
      BY <1>1, <3>2 DEF Ops
  <2>5. CASE Clarify(p) \/ Report(p)
    <3>1. Asks(p, "finish", Blank)
      BY <2>5 DEF Clarify, Report, End, Asks, Goto, Awaiting
    <3> QED
      BY <1>1, <3>1 DEF Ops
  <2> QED
    BY <2>1, <2>2, <2>3, <2>4, <2>5 DEF Asking
<1>3. /\ status' = status /\ progress' = progress /\ lowest' = lowest
      /\ lock' = lock /\ resumed' = resumed
      /\ todo' = todo /\ active' = active /\ unfinished' = unfinished
      /\ crashes' = crashes /\ cancels' = cancels /\ failures' = failures /\ drops' = drops
  BY DEF Asking, Load, Plan, Clarify, Report, Cover, FollowUp, row, searching, mishaps
<1> QED
  BY <1>2, <1>3

\* What a process no longer waits for goes on as it was.
LEMMA AbandonedCalls ==
  ASSUME CallTypes, NEW p \in Procs, NEW v \in Abandoned(p)
  PROVE  \E w \in writes : /\ v \in Calls /\ v.by = w.by /\ v.op = w.op /\ v.s = w.s
                           /\ v.task = w.task
                           /\ v.live => v = w /\ w.by # p
                           /\ w.live /\ w.by # p => v = w
<1>1. PICK w \in writes : v = [w EXCEPT !.live = w.live /\ w.by # p]
  BY DEF Abandoned
<1>2. w \in Calls
  BY DEF CallTypes
<1> DEFINE b == w.live /\ w.by # p
<1>3. b \in BOOLEAN /\ v = [w EXCEPT !.live = b]
  BY <1>1
<1> HIDE DEF b
<1>4. /\ v \in Calls /\ v.by = w.by /\ v.op = w.op /\ v.s = w.s /\ v.task = w.task /\ v.live = b
  BY <1>2, <1>3 DEF Calls
<1>5. b => v = w
  BY <1>2, <1>3, <1>4 DEF Calls, b
<1>6. b <=> w.live /\ w.by # p
  BY DEF b
<1>7. v.live <=> b
  BY <1>4
<1> QED
  BY <1>4, <1>5, <1>6, <1>7

\* A step of the claim or of a run's end: it takes a process from one place where nothing
\* is under way to another.
Moving(p) ==
  \/ Investigate(p) \/ \E limit \in Asked : Resume(p, limit)
  \/ Claim(p) \/ GiveBack(p) \/ Busy(p) \/ Release(p) \/ LoadNothing(p)
  \/ ClaimRaises(p) \/ CancelClaim(p)

\* Such a step changes neither the searches nor the calls of the store.
LEMMA MovingSteps ==
  ASSUME ProcTypes, NEW p \in Procs, Moving(p)
  PROVE  /\ phase[p] \in {"idle", "claiming", "giving back", "loading", "closing"}
         /\ phase[p] = "closing" => unfinished[p] = {}
         /\ phase[p] = "loading" => phase'[p] = "closing"
         /\ \A q \in Procs \ {p} : phase'[q] = phase[q]
         /\ progress' = progress /\ lowest' = lowest
         /\ todo' = todo /\ active' = active /\ unfinished' = unfinished /\ writes' = writes
         /\ crashes' = crashes /\ drops' = drops
<1>1. CASE Investigate(p)
  BY <1>1 DEF Investigate, Goto, searching, mishaps, ProcTypes
<1>2. CASE \E limit \in Asked : Resume(p, limit)
  BY <1>2 DEF Resume, Goto, row, searching, mishaps, ProcTypes
<1>3. CASE Claim(p)
  BY <1>3 DEF Claim, Goto, row, searching, mishaps, ProcTypes
<1>4. CASE GiveBack(p)
  BY <1>4 DEF GiveBack, Goto, row, searching, mishaps, ProcTypes
<1>5. CASE Busy(p)
  BY <1>5 DEF Busy, Goto, row, searching, mishaps, ProcTypes
<1>6. CASE Release(p)
  BY <1>6 DEF Release, Idle, Goto, row, searching, mishaps, ProcTypes
<1>7. CASE LoadNothing(p)
  BY <1>7 DEF LoadNothing, Goto, row, searching, mishaps, ProcTypes
<1>8. CASE ClaimRaises(p)
  BY <1>8, ClaimRefused DEF ProcTypes
<1>9. CASE CancelClaim(p)
  BY <1>9, ClaimLeft DEF ProcTypes
<1> QED
  BY <1>1, <1>2, <1>3, <1>4, <1>5, <1>6, <1>7, <1>8, <1>9 DEF Moving

\* Every call is one of the store's, and a record is a search's.
LEMMA CallTypesKept ==
  ASSUME Types, ProcTypes', [Next]_vars
  PROVE  CallTypes'
<1> USE DEF Types
<1>1. CASE UNCHANGED vars
  BY <1>1 DEF vars, row, calls, searching, mishaps, CallTypes
<1>2. ASSUME NEW p \in Procs, Moving(p)
      PROVE  CallTypes'
  BY <1>2, MovingSteps DEF CallTypes
<1>3. ASSUME NEW p \in Procs, Asking(p)
      PROVE  CallTypes'
  <2>1. PICK op \in Ops \ {"record"}, s \in States : Asks(p, op, s)
    BY <1>3, AskingSteps
  <2> DEFINE asked == Call(p, op, s, "none")
  <2>2. asked \in Calls /\ asked.op # "record"
    BY <2>1 DEF Call, Calls
  <2>3. writes' = writes \union {asked}
    BY <2>1 DEF Asks
  <2> HIDE DEF asked
  <2> QED
    BY <2>2, <2>3 DEF CallTypes
<1>4. ASSUME NEW p \in Procs, NEW t \in Searches, StartSearch(p, t)
      PROVE  CallTypes'
  BY <1>4 DEF StartSearch, row, calls, mishaps, CallTypes
<1>5. ASSUME NEW p \in Procs, NEW t \in Searches, EndSearch(p, t) \/ TimeOut(p, t)
      PROVE  CallTypes'
  <2> DEFINE made == Call(p, "record", Blank, t)
  <2>1. made \in Calls /\ made.task \in Searches
    BY BlankIsState DEF Call, Calls, Ops
  <2>2. writes' = writes \union {made}
    BY <1>5 DEF EndSearch, TimeOut
  <2> HIDE DEF made
  <2> QED
    BY <2>1, <2>2 DEF CallTypes
<1>6. ASSUME NEW p \in Procs, NEW t \in Searches, LateEnds(p, t)
      PROVE  CallTypes'
  BY <1>6 DEF LateEnds, row, calls, mishaps, CallTypes
<1>7. ASSUME NEW p \in Procs, FailRun(p)
      PROVE  CallTypes'
  <2> DEFINE told == Call(p, "finish", Blank, "none")
  <2>1. told \in Calls /\ told.op # "record"
    BY BlankIsState DEF Call, Calls, Ops
  <2>2. writes' = Abandoned(p) \union {told}
    BY <1>7 DEF FailRun, End
  <2>3. \A v \in Abandoned(p) : v \in Calls /\ (v.op = "record" => v.task \in Searches)
    BY AbandonedCalls, CallParts
  <2> HIDE DEF told
  <2> QED
    BY <2>1, <2>2, <2>3 DEF CallTypes
<1>8. ASSUME NEW p \in Procs, Cancel(p)
      PROVE  CallTypes'
  <2>1. writes' = Abandoned(p)
    BY <1>8 DEF Cancel
  <2>2. \A v \in Abandoned(p) : v \in Calls /\ (v.op = "record" => v.task \in Searches)
    BY AbandonedCalls, CallParts
  <2> QED
    BY <2>1, <2>2 DEF CallTypes
<1>9. ASSUME NEW p \in Procs, Crash(p)
      PROVE  CallTypes'
  BY <1>9 DEF Crash, CallTypes
<1>10. ASSUME NEW w \in writes, Write(w)
      PROVE  CallTypes'
  BY <1>10 DEF Write, CallTypes
<1>11. ASSUME NEW w \in writes, WriteFails(w)
      PROVE  CallTypes'
  BY <1>11, WriteLost DEF GoOn, CallTypes
<1>12. ASSUME DropConnection
      PROVE  CallTypes'
  BY <1>12 DEF DropConnection, row, calls, searching, CallTypes
<1> QED
  BY <1>1, <1>2, <1>3, <1>4, <1>5, <1>6, <1>7, <1>8, <1>9, <1>10, <1>11, <1>12 DEF Next,
     Works, Ends, Late, Writes, Asking, Moving

\* A process that waits for nothing may move, and the others' calls are awaited as before.
LEMMA OthersAreAwaited ==
  ASSUME CallTypes, Awaited, CallsApart, NEW p \in Procs, writes' = writes,
         phase[p] \in {"idle", "claiming", "giving back", "intake", "loading", "deciding", "closing"},
         \A q \in Procs \ {p} : phase'[q] = phase[q]
  PROVE  Awaited' /\ CallsApart'
<1>1. \A w \in writes : w.live => w.by \in Procs \ {p}
  BY LiveCall, CallParts DEF Holding
<1>2. Awaited'
  BY <1>1 DEF Awaited
<1>3. CallsApart'
  BY DEF CallsApart
<1> QED
  BY <1>2, <1>3

\* A process goes on only with the answer of the one call it waits for.
LEMMA AwaitedKept ==
  ASSUME IInv, Types', [Next]_vars
  PROVE  (Awaited /\ CallsApart)'
<1> USE DEF IInv, Types
<1>1. CASE UNCHANGED vars
  BY <1>1 DEF vars, calls, Awaited, CallsApart
<1>2. ASSUME NEW p \in Procs, Moving(p)
      PROVE  (Awaited /\ CallsApart)'
  <2>1. ProcTypes
    OBVIOUS
  <2> QED
    BY <1>2, <2>1, MovingSteps, OthersAreAwaited
<1>3. ASSUME NEW p \in Procs, Asking(p)
      PROVE  (Awaited /\ CallsApart)'
  <2>1. PICK op \in Ops \ {"record"}, s \in States : Asks(p, op, s)
    BY <1>3, AskingSteps
  <2>2. \A v \in writes : v.live => v.by # p
    <3> SUFFICES ASSUME NEW v \in writes, v.live, v.by = p
                 PROVE  FALSE
      OBVIOUS
    <3>1. phase[p] = "searching" /\ v.op = "record" /\ Recording(p) = {}
      BY <2>1, LiveCall DEF Asks
    <3>2. v.task \in Recording(p)
      BY <3>1 DEF Recording
    <3> QED
      BY <3>1, <3>2
  <2> DEFINE asked == Call(p, op, s, "none")
  <2>3. writes' = writes \union {asked} /\ asked.by = p /\ asked.op = op
    BY <2>1 DEF Asks, Call
  <2>4. phase'[p] = Awaiting[op] /\ \A q \in Procs : q # p => phase'[q] = phase[q]
    BY <2>1 DEF Asks, ProcTypes
  <2>5. \A v \in writes : v.by \in Procs
    BY CallParts
  <2> HIDE DEF asked
  <2>6. Awaited'
    BY <2>2, <2>3, <2>4, <2>5 DEF Awaited
  <2>7. CallsApart'
    BY <2>2, <2>3 DEF CallsApart
  <2> QED
    BY <2>6, <2>7
<1>4. ASSUME NEW p \in Procs, NEW t \in Searches, StartSearch(p, t)
      PROVE  (Awaited /\ CallsApart)'
  BY <1>4 DEF StartSearch, calls, Awaited, CallsApart
<1>5. ASSUME NEW p \in Procs, NEW t \in Searches, EndSearch(p, t) \/ TimeOut(p, t)
      PROVE  (Awaited /\ CallsApart)'
  <2> DEFINE made == Call(p, "record", Blank, t)
  <2>1. writes' = writes \union {made} /\ phase' = phase /\ phase[p] = "searching"
    BY <1>5 DEF EndSearch, TimeOut, calls, SearchPhases
  <2>2. made.by = p /\ made.op = "record"
    BY DEF Call
  <2>3. Awaiting["record"] = "searching"
    BY DEF Awaiting
  <2> HIDE DEF made
  <2>4. Awaited'
    BY <2>1, <2>2, <2>3 DEF Awaited
  <2>5. \A v \in writes : v.live /\ v.by = p => v.op = "record"
    BY <2>1, LiveCall
  <2>6. CallsApart'
    BY <2>1, <2>2, <2>5 DEF CallsApart
  <2> QED
    BY <2>4, <2>6
<1>6. ASSUME NEW p \in Procs, NEW t \in Searches, LateEnds(p, t)
      PROVE  (Awaited /\ CallsApart)'
  BY <1>6 DEF LateEnds, calls, Awaited, CallsApart
<1>7. ASSUME NEW p \in Procs, FailRun(p)
      PROVE  (Awaited /\ CallsApart)'
  <2> DEFINE told == Call(p, "finish", Blank, "none")
  <2>1. writes' = Abandoned(p) \union {told} /\ phase' = [phase EXCEPT ![p] = "finishing"]
    BY <1>7 DEF FailRun, End, Goto
  <2>2. \A v \in Abandoned(p) : v.live => v \in writes /\ v.by # p
    BY AbandonedCalls
  <2>3. told.by = p /\ told.op = "finish" /\ Awaiting["finish"] = "finishing"
    BY DEF Call, Awaiting
  <2>4. \A v \in writes : v.by \in Procs
    BY CallParts
  <2> HIDE DEF told
  <2>5. Awaited'
    BY <2>1, <2>2, <2>3, <2>4 DEF Awaited, ProcTypes
  <2>6. CallsApart'
    BY <2>1, <2>2, <2>3 DEF CallsApart
  <2> QED
    BY <2>5, <2>6
<1>8. ASSUME NEW p \in Procs, Cancel(p)
      PROVE  (Awaited /\ CallsApart)'
  <2>1. writes' = Abandoned(p) /\ phase' = [phase EXCEPT ![p] = "closing"]
    BY <1>8 DEF Cancel, Goto
  <2>2. \A v \in Abandoned(p) : v.live => v \in writes /\ v.by # p
    BY AbandonedCalls
  <2>3. \A v \in writes : v.by \in Procs
    BY CallParts
  <2>4. Awaited'
    BY <2>1, <2>2, <2>3 DEF Awaited, ProcTypes
  <2>5. CallsApart'
    BY <2>1, <2>2 DEF CallsApart
  <2> QED
    BY <2>4, <2>5
<1>9. ASSUME NEW p \in Procs, Crash(p)
      PROVE  (Awaited /\ CallsApart)'
  <2>1. writes' = {w \in writes : w.by # p} /\ phase' = [phase EXCEPT ![p] = "idle"]
    BY <1>9 DEF Crash, Goto
  <2> QED
    BY <2>1, CallParts DEF Awaited, CallsApart, ProcTypes
<1>10. ASSUME NEW w \in writes, Write(w)
      PROVE  (Awaited /\ CallsApart)'
  <2>1. writes' = writes \ {w} /\ GoOn(w)
    BY <1>10 DEF Write
  <2>2. \A v \in writes \ {w} : v.live /\ w.live /\ w.op # "record" => v.by # w.by
    BY DEF CallsApart
  <2>3. \A v \in writes \ {w} : v.live => phase'[v.by] = phase[v.by]
    BY <2>1, <2>2, CallParts DEF GoOn, Goto, ProcTypes
  <2> QED
    BY <2>1, <2>3 DEF Awaited, CallsApart
<1>11. ASSUME NEW w \in writes, WriteFails(w)
      PROVE  (Awaited /\ CallsApart)'
  <2>1. writes' = writes \ {w}
    BY <1>11, WriteLost
  <2>2. \A v \in writes \ {w} : v.live /\ w.live /\ w.op # "record" => v.by # w.by
    BY DEF CallsApart
  <2>3. \A v \in writes \ {w} : v.live => phase'[v.by] = phase[v.by]
    <3>1. CASE w.live /\ w.op = "narrow"
      BY <1>11, <2>2, <3>1, WriteLost, CallParts DEF ProcTypes
    <3>2. CASE ~(w.live /\ w.op = "narrow")
      <4>1. GoOn(w) /\ w.by \in Procs
        BY <1>11, <3>2, WriteLost, CallParts
      <4> QED
        BY <2>2, <4>1, CallParts DEF GoOn, Goto, ProcTypes
    <3> QED
      BY <3>1, <3>2
  <2> QED
    BY <2>1, <2>3 DEF Awaited, CallsApart
<1>12. ASSUME DropConnection
      PROVE  (Awaited /\ CallsApart)'
  BY <1>12 DEF DropConnection, calls, Awaited, CallsApart
<1> QED
  BY <1>1, <1>2, <1>3, <1>4, <1>5, <1>6, <1>7, <1>8, <1>9, <1>10, <1>11, <1>12 DEF Next,
     Works, Ends, Late, Writes, Asking, Moving

\* A process that got its answer goes on at a place of the run, and the others stay.
LEMMA GoOnPlaces ==
  ASSUME ProcTypes, CallTypes, Awaited, NEW w \in writes, GoOn(w)
  PROVE  /\ w.by \in Procs
         /\ \A q \in Procs \ {w.by} : phase'[q] = phase[q]
         /\ \/ phase'[w.by] = phase[w.by]
            \/ phase[w.by] \in Holding /\ phase'[w.by] \in Holding /\ phase[w.by] # "searching"
<1>1. w.by \in Procs
  BY CallParts
<1>2. CASE w.live /\ w.op # "record"
  <2>1. phase' = [phase EXCEPT ![w.by] = After[w.op]]
    BY <1>2 DEF GoOn, Goto
  <2>2. After[w.op] \in Holding
    <3>1. After[w.op] \in {"searching", "deciding", "closing"}
      BY <1>2, CallParts, Places
    <3> QED
      BY <3>1 DEF Holding, Phases
  <2>3. phase[w.by] \in Holding /\ phase[w.by] # "searching"
    BY <1>2, LiveCall
  <2>4. phase'[w.by] = After[w.op] /\ \A q \in Procs \ {w.by} : phase'[q] = phase[q]
    BY <1>1, <2>1 DEF ProcTypes
  <2> QED
    BY <1>1, <2>2, <2>3, <2>4
<1>3. CASE ~(w.live /\ w.op # "record")
  BY <1>1, <1>3 DEF GoOn
<1> QED
  BY <1>2, <1>3

\* The claim is handed on only where nobody is past it.
LEMMA HolderKept ==
  ASSUME IInv, ProcTypes', [Next]_vars
  PROVE  HolderIsOne'
<1> USE DEF IInv, Types
<1>1. CASE UNCHANGED vars
  BY <1>1 DEF vars, calls, mishaps, HolderIsOne
<1>2. ASSUME NEW p \in Procs, Investigate(p)
      PROVE  HolderIsOne'
  <2>1. phase' = [phase EXCEPT ![p] = "claiming"] /\ lock' = lock /\ drops' = drops
    BY <1>2 DEF Investigate, Goto, mishaps
  <2> QED
    BY <2>1 DEF HolderIsOne, Holding, ProcTypes
<1>3. ASSUME NEW p \in Procs, NEW limit \in Asked, Resume(p, limit)
      PROVE  HolderIsOne'
  <2>1. phase' = [phase EXCEPT ![p] = "claiming"] /\ lock' = lock /\ drops' = drops
    BY <1>3 DEF Resume, Goto, mishaps
  <2> QED
    BY <2>1 DEF HolderIsOne, Holding, ProcTypes
<1>4. ASSUME NEW p \in Procs, Claim(p) \/ GiveBack(p)
      PROVE  HolderIsOne'
  <2>1. lock = NoProc /\ lock' = p /\ drops' = drops /\ \A q \in Procs \ {p} : phase'[q] = phase[q]
    BY <1>4 DEF Claim, GiveBack, Goto, mishaps, ProcTypes
  <2>2. drops = 0 => \A q \in Procs : phase[q] \notin Holding
    BY <2>1, SearchAssumption DEF HolderIsOne
  <2> QED
    BY <2>1, <2>2 DEF HolderIsOne
<1>5. ASSUME NEW p \in Procs, Busy(p)
      PROVE  HolderIsOne'
  <2>1. phase' = [phase EXCEPT ![p] = "idle"] /\ lock' = lock /\ drops' = drops
    BY <1>5 DEF Busy, Goto, mishaps
  <2> QED
    BY <2>1 DEF HolderIsOne, Holding, ProcTypes
<1>6. ASSUME NEW p \in Procs, Release(p)
      PROVE  HolderIsOne'
  <2>1. /\ phase' = [phase EXCEPT ![p] = "idle"] /\ drops' = drops
        /\ lock' = IF lock = p THEN NoProc ELSE lock
    BY <1>6 DEF Release, Goto, mishaps
  <2> QED
    BY <2>1 DEF HolderIsOne, Holding, ProcTypes
<1>7. ASSUME NEW p \in Procs, LoadNothing(p)
      PROVE  HolderIsOne'
  <2>1. phase[p] \in Holding /\ phase' = [phase EXCEPT ![p] = "closing"]
    BY <1>7 DEF LoadNothing, Goto, InGraph, End, Holding, Phases
  <2>2. lock' = lock /\ drops' = drops
    BY <1>7 DEF LoadNothing, row, mishaps
  <2> QED
    BY <2>1, <2>2 DEF HolderIsOne, ProcTypes
<1>8. ASSUME NEW p \in Procs, Asking(p)
      PROVE  HolderIsOne'
  <2>1. PICK op \in Ops \ {"record"}, s \in States : Asks(p, op, s)
    BY <1>8, AskingSteps
  <2>2. phase[p] \in Holding /\ \A q \in Procs \ {p} : phase'[q] = phase[q]
    BY <2>1 DEF Asks, Holding, Phases, ProcTypes
  <2>3. lock' = lock /\ drops' = drops
    BY <1>8, AskingSteps
  <2> QED
    BY <2>2, <2>3 DEF HolderIsOne
<1>9. ASSUME NEW p \in Procs, NEW t \in Searches, StartSearch(p, t)
      PROVE  HolderIsOne'
  BY <1>9 DEF StartSearch, calls, mishaps, HolderIsOne
<1>10. ASSUME NEW p \in Procs, NEW t \in Searches, EndSearch(p, t) \/ TimeOut(p, t)
      PROVE  HolderIsOne'
  BY <1>10 DEF EndSearch, TimeOut, calls, mishaps, HolderIsOne
<1>11. ASSUME NEW p \in Procs, NEW t \in Searches, LateEnds(p, t)
      PROVE  HolderIsOne'
  BY <1>11 DEF LateEnds, calls, mishaps, HolderIsOne
<1>12. ASSUME NEW p \in Procs, FailRun(p)
      PROVE  HolderIsOne'
  <2>1. phase[p] \in Holding /\ phase' = [phase EXCEPT ![p] = "finishing"]
    BY <1>12 DEF FailRun, Goto, InGraph, End, Holding, Phases
  <2>2. lock' = lock /\ drops' = drops
    BY <1>12 DEF FailRun, row, mishaps
  <2> QED
    BY <2>1, <2>2 DEF HolderIsOne, ProcTypes
<1>13. ASSUME NEW p \in Procs, Cancel(p)
      PROVE  HolderIsOne'
  <2>1. phase[p] \in Holding /\ phase' = [phase EXCEPT ![p] = "closing"]
    BY <1>13 DEF Cancel, Goto, InGraph, End, Holding, Phases
  <2>2. lock' = lock /\ drops' = drops
    BY <1>13 DEF Cancel, row, mishaps
  <2> QED
    BY <2>1, <2>2 DEF HolderIsOne, ProcTypes
<1>14. ASSUME NEW p \in Procs, Crash(p)
      PROVE  HolderIsOne'
  <2>1. /\ phase' = [phase EXCEPT ![p] = "idle"] /\ drops' = drops
        /\ lock' = IF lock = p THEN NoProc ELSE lock
    BY <1>14 DEF Crash, Goto
  <2> QED
    BY <2>1 DEF HolderIsOne, Holding, ProcTypes
<1>15. ASSUME NEW w \in writes, Write(w)
      PROVE  HolderIsOne'
  <2>1. GoOn(w) /\ lock' = lock /\ drops' = drops
    BY <1>15 DEF Write, mishaps
  <2> QED
    BY <2>1, GoOnPlaces DEF HolderIsOne
<1>16. ASSUME NEW w \in writes, WriteFails(w)
      PROVE  HolderIsOne'
  <2>1. lock' = lock /\ drops' = drops
    BY <1>16, WriteLost
  <2>2. CASE w.live /\ w.op = "narrow"
    BY <1>16, <2>1, <2>2, WriteLost, LiveCall, CallParts DEF HolderIsOne, ProcTypes
  <2>3. CASE ~(w.live /\ w.op = "narrow")
    BY <1>16, <2>1, <2>3, WriteLost, GoOnPlaces DEF HolderIsOne
  <2> QED
    BY <2>2, <2>3
<1>17. ASSUME DropConnection
      PROVE  HolderIsOne'
  <2>1. drops' = drops + 1
    BY <1>17 DEF DropConnection
  <2> QED
    BY <2>1 DEF HolderIsOne, MishapTypes
<1>18. ASSUME NEW p \in Procs, ClaimRaises(p)
      PROVE  HolderIsOne'
  BY <1>18, ClaimRefused DEF HolderIsOne, Holding, ProcTypes
<1>19. ASSUME NEW p \in Procs, CancelClaim(p)
      PROVE  HolderIsOne'
  BY <1>19, ClaimLeft DEF HolderIsOne, Holding, ProcTypes
<1> QED
  BY <1>1, <1>2, <1>3, <1>4, <1>5, <1>6, <1>7, <1>8, <1>9, <1>10, <1>11, <1>12, <1>13,
     <1>14, <1>15, <1>16, <1>17, <1>18, <1>19 DEF Next, Works, Ends, Late, Writes, Asking

\* A process leaves the searching of a round without a search of its own, and the run
\* without any.
LEMMA SearchPhasesKept ==
  ASSUME IInv, Types', [Next]_vars
  PROVE  SearchPhases'
<1> USE DEF IInv, Types
<1>1. CASE UNCHANGED vars
  BY <1>1 DEF vars, calls, searching, SearchPhases
<1>2. ASSUME NEW p \in Procs, Moving(p)
      PROVE  SearchPhases'
  <2>1. \A q \in Procs \ {p} : phase'[q] = phase[q]
    BY <1>2, MovingSteps
  <2>2. active' = active /\ unfinished' = unfinished /\ active[p] = {}
    BY <1>2, MovingSteps DEF SearchPhases
  <2>3. unfinished[p] = {} \/ phase'[p] \in Holding
    BY <1>2, MovingSteps DEF SearchPhases, Holding, Phases
  <2> QED
    BY <2>1, <2>2, <2>3 DEF SearchPhases
<1>3. ASSUME NEW p \in Procs, Asking(p)
      PROVE  SearchPhases'
  <2>1. PICK op \in Ops \ {"record"}, s \in States : Asks(p, op, s)
    BY <1>3, AskingSteps
  <2>2. phase'[p] \in Holding /\ \A q \in Procs \ {p} : phase'[q] = phase[q]
    BY <2>1, Places DEF Asks, ProcTypes
  <2>3. active' = active /\ unfinished' = unfinished
    BY <1>3, AskingSteps
  <2>4. active[p] = {}
    BY <2>1 DEF Asks, SearchPhases
  <2> QED
    BY <2>2, <2>3, <2>4 DEF SearchPhases
<1>4. ASSUME NEW p \in Procs, NEW t \in Searches, StartSearch(p, t)
      PROVE  SearchPhases'
  BY <1>4 DEF StartSearch, calls, SearchPhases, SearchTypes
<1>5. ASSUME NEW p \in Procs, NEW t \in Searches, EndSearch(p, t) \/ TimeOut(p, t)
      PROVE  SearchPhases'
  <2>1. phase' = phase /\ phase[p] = "searching"
    BY <1>5 DEF EndSearch, TimeOut, calls, SearchPhases
  <2>2. active' = [active EXCEPT ![p] = @ \ {t}] /\ \A q \in Procs \ {p} : unfinished'[q] = unfinished[q]
    BY <1>5 DEF EndSearch, TimeOut, SearchTypes
  <2> QED
    BY <2>1, <2>2 DEF SearchPhases, SearchTypes, Holding, Phases
<1>6. ASSUME NEW p \in Procs, NEW t \in Searches, LateEnds(p, t)
      PROVE  SearchPhases'
  BY <1>6 DEF LateEnds, calls, SearchPhases, SearchTypes
<1>7. ASSUME NEW p \in Procs, FailRun(p)
      PROVE  SearchPhases'
  <2>1. phase' = [phase EXCEPT ![p] = "finishing"]
    BY <1>7 DEF FailRun, End, Goto
  <2>2. /\ active' = [active EXCEPT ![p] = {}]
        /\ \A q \in Procs \ {p} : unfinished'[q] = unfinished[q]
    BY <1>7 DEF FailRun, Abandon, SearchTypes
  <2> QED
    BY <2>1, <2>2 DEF SearchPhases, SearchTypes, ProcTypes, Holding, Phases
<1>8. ASSUME NEW p \in Procs, Cancel(p)
      PROVE  SearchPhases'
  <2>1. phase' = [phase EXCEPT ![p] = "closing"]
    BY <1>8 DEF Cancel, Goto
  <2>2. /\ active' = [active EXCEPT ![p] = {}]
        /\ \A q \in Procs \ {p} : unfinished'[q] = unfinished[q]
    BY <1>8 DEF Cancel, Abandon, SearchTypes
  <2> QED
    BY <2>1, <2>2 DEF SearchPhases, SearchTypes, ProcTypes, Holding, Phases
<1>9. ASSUME NEW p \in Procs, Crash(p)
      PROVE  SearchPhases'
  BY <1>9 DEF Crash, Goto, SearchPhases, SearchTypes, ProcTypes
<1>10. ASSUME NEW w \in writes, Write(w)
      PROVE  SearchPhases'
  <2>1. GoOn(w) /\ active' = active /\ unfinished' = unfinished
    BY <1>10 DEF Write
  <2> QED
    BY <2>1, GoOnPlaces DEF SearchPhases
<1>11. ASSUME NEW w \in writes, WriteFails(w)
      PROVE  SearchPhases'
  <2>1. active' = active /\ unfinished' = unfinished
    BY <1>11, WriteLost
  <2>2. CASE w.live /\ w.op = "narrow"
    <3>1. phase' = [phase EXCEPT ![w.by] = "closing"] /\ w.by \in Procs
      BY <1>11, <2>2, WriteLost, CallParts
    <3>2. phase[w.by] # "searching"
      BY <2>2, LiveCall
    <3> QED
      BY <2>1, <3>1, <3>2 DEF SearchPhases, ProcTypes, Holding, Phases
  <2>3. CASE ~(w.live /\ w.op = "narrow")
    BY <1>11, <2>1, <2>3, WriteLost, GoOnPlaces DEF SearchPhases
  <2> QED
    BY <2>2, <2>3
<1>12. ASSUME DropConnection
      PROVE  SearchPhases'
  BY <1>12 DEF DropConnection, calls, searching, SearchPhases
<1> QED
  BY <1>1, <1>2, <1>3, <1>4, <1>5, <1>6, <1>7, <1>8, <1>9, <1>10, <1>11, <1>12 DEF Next,
     Works, Ends, Late, Writes, Asking, Moving

\* Searches that end make room.
LEMMA OwnShrinks ==
  ASSUME OwnWithinSlots, \A p \in Procs : Own(p)' \subseteq Own(p)
  PROVE  OwnWithinSlots'
<1> SUFFICES ASSUME NEW p \in Procs
             PROVE  IsFiniteSet(Own(p)') /\ Cardinality(Own(p)') <= Slots
  BY DEF OwnWithinSlots
<1>1. IsFiniteSet(Own(p)) /\ Cardinality(Own(p)) <= Slots /\ Own(p)' \in SUBSET Own(p)
  BY DEF OwnWithinSlots
<1>2. /\ IsFiniteSet(Own(p)') /\ Cardinality(Own(p)') <= Cardinality(Own(p))
      /\ Cardinality(Own(p)') \in Nat /\ Cardinality(Own(p)) \in Nat
  BY <1>1, FS_Subset, FS_CardinalityType
<1> QED
  BY <1>1, <1>2, BoundAssumption

\* A search takes a slot that is free.
LEMMA OwnWithinSlotsKept ==
  ASSUME IInv, Types', [Next]_vars
  PROVE  OwnWithinSlots'
<1> USE DEF IInv, Types
<1>1. CASE UNCHANGED vars
  <2>1. active' = active /\ unfinished' = unfinished
    BY <1>1 DEF vars, searching
  <2> QED
    BY <2>1, OwnShrinks DEF Own
<1>2. ASSUME NEW p \in Procs, Moving(p)
      PROVE  OwnWithinSlots'
  <2>1. active' = active /\ unfinished' = unfinished
    BY <1>2, MovingSteps
  <2> QED
    BY <2>1, OwnShrinks DEF Own
<1>3. ASSUME NEW p \in Procs, Asking(p)
      PROVE  OwnWithinSlots'
  <2>1. active' = active /\ unfinished' = unfinished
    BY <1>3, AskingSteps
  <2> QED
    BY <2>1, OwnShrinks DEF Own
<1>4. ASSUME NEW p \in Procs, NEW t \in Searches, StartSearch(p, t)
      PROVE  OwnWithinSlots'
  <2>1. \A q \in Procs \ {p} : Own(q)' = Own(q)
    BY <1>4 DEF StartSearch, Own, SearchTypes
  <2>2. Own(p)' = Own(p) \cup {t}
    BY <1>4 DEF StartSearch, Own, SearchTypes
  <2>3. IsFiniteSet(Own(p)) /\ Cardinality(Own(p)) < Slots
    BY <1>4 DEF StartSearch, FreeSlots, Own, OwnWithinSlots
  <2>4. /\ IsFiniteSet(Own(p)')
        /\ Cardinality(Own(p)') = IF t \in Own(p) THEN Cardinality(Own(p)) ELSE Cardinality(Own(p)) + 1
    BY <2>2, <2>3, FS_AddElement
  <2>5. Cardinality(Own(p)) \in Nat /\ Slots \in Nat
    BY <2>3, FS_CardinalityType, BoundAssumption
  <2>6. Cardinality(Own(p)') <= Slots
    BY <2>3, <2>4, <2>5
  <2> QED
    BY <2>1, <2>4, <2>6 DEF OwnWithinSlots
<1>5. ASSUME NEW p \in Procs, NEW t \in Searches, EndSearch(p, t) \/ TimeOut(p, t)
      PROVE  OwnWithinSlots'
  <2>1. \A q \in Procs : Own(q)' \subseteq Own(q)
    BY <1>5 DEF EndSearch, TimeOut, Own, SearchTypes
  <2> QED
    BY <2>1, OwnShrinks
<1>6. ASSUME NEW p \in Procs, NEW t \in Searches, LateEnds(p, t)
      PROVE  OwnWithinSlots'
  <2>1. \A q \in Procs : Own(q)' \subseteq Own(q)
    BY <1>6 DEF LateEnds, Own, SearchTypes
  <2> QED
    BY <2>1, OwnShrinks
<1>7. ASSUME NEW p \in Procs, FailRun(p)
      PROVE  OwnWithinSlots'
  <2>1. \A q \in Procs : Own(q)' \subseteq Own(q)
    BY <1>7 DEF FailRun, Abandon, Own, SearchTypes
  <2> QED
    BY <2>1, OwnShrinks
<1>8. ASSUME NEW p \in Procs, Cancel(p)
      PROVE  OwnWithinSlots'
  <2>1. \A q \in Procs : Own(q)' \subseteq Own(q)
    BY <1>8 DEF Cancel, Abandon, Own, SearchTypes
  <2> QED
    BY <2>1, OwnShrinks
<1>9. ASSUME NEW p \in Procs, Crash(p)
      PROVE  OwnWithinSlots'
  <2>1. \A q \in Procs : Own(q)' \subseteq Own(q)
    BY <1>9 DEF Crash, Own, SearchTypes
  <2> QED
    BY <2>1, OwnShrinks
<1>10. ASSUME NEW w \in writes, Write(w)
      PROVE  OwnWithinSlots'
  <2>1. active' = active /\ unfinished' = unfinished
    BY <1>10 DEF Write
  <2> QED
    BY <2>1, OwnShrinks DEF Own
<1>11. ASSUME NEW w \in writes, WriteFails(w)
      PROVE  OwnWithinSlots'
  <2>1. active' = active /\ unfinished' = unfinished
    BY <1>11, WriteLost
  <2> QED
    BY <2>1, OwnShrinks DEF Own
<1>12. ASSUME DropConnection
      PROVE  OwnWithinSlots'
  <2>1. active' = active /\ unfinished' = unfinished
    BY <1>12 DEF DropConnection, searching
  <2> QED
    BY <2>1, OwnShrinks DEF Own
<1> QED
  BY <1>1, <1>2, <1>3, <1>4, <1>5, <1>6, <1>7, <1>8, <1>9, <1>10, <1>11, <1>12 DEF Next,
     Works, Ends, Late, Writes, Asking, Moving

LEMMA InitIInv == Init => IInv
<1> SUFFICES ASSUME Init
             PROVE  IInv
  OBVIOUS
<1> USE DEF Init
<1>1. RowTypes /\ ProcTypes
  BY BlankIsState, BoundAssumption DEF RowTypes, ProcTypes, Phases
<1>2. SearchTypes /\ CallTypes /\ MishapTypes
  BY DEF SearchTypes, CallTypes, MishapTypes
<1>3. Awaited /\ CallsApart
  BY DEF Awaited, CallsApart
<1>4. HolderIsOne /\ SearchPhases
  BY DEF HolderIsOne, SearchPhases, Holding
<1>5. OwnWithinSlots
  <2>1. \A p \in Procs : Own(p) = {}
    BY DEF Own
  <2> QED
    BY <2>1, FS_EmptySet, BoundAssumption DEF OwnWithinSlots
<1> QED
  BY <1>1, <1>2, <1>3, <1>4, <1>5 DEF IInv, Types

LEMMA Steps ==
  ASSUME IInv, [Next]_vars
  PROVE  IInv'
<1>1. Types
  BY DEF IInv
<1>2. RowTypes' /\ ProcTypes' /\ SearchTypes' /\ MishapTypes'
  BY <1>1, RowTypesKept, ProcTypesKept, SearchTypesKept, MishapTypesKept
<1>3. CallTypes'
  BY <1>1, <1>2, CallTypesKept
<1>4. Types'
  BY <1>2, <1>3 DEF Types
<1>5. Awaited' /\ CallsApart' /\ HolderIsOne' /\ SearchPhases' /\ OwnWithinSlots'
  BY <1>2, <1>4, AwaitedKept, HolderKept, SearchPhasesKept, OwnWithinSlotsKept
<1> QED
  BY <1>4, <1>5 DEF IInv

LEMMA Invariant == Spec => []IInv
<1>1. IInv /\ [Next]_vars => IInv'
  BY Steps
<1> QED
  BY InitIInv, <1>1, PTL DEF Spec

\* Whoever has a search of the run under way holds the run, and nobody else has one.
LEMMA HolderSearches ==
  ASSUME IInv, drops = 0
  PROVE  Cardinality(UnderWay) <= Slots
<1> USE DEF IInv, Types
<1>1. CASE UnderWay = {}
  BY <1>1, FS_EmptySet, BoundAssumption
<1>2. CASE UnderWay # {}
  <2>1. PICK first \in UnderWay : TRUE
    BY <1>2
  <2> DEFINE holder == first[1]
  <2>2. \A s \in UnderWay : s[1] \in Procs /\ lock = s[1]
    BY DEF UnderWay, SearchPhases, HolderIsOne, Holding, Phases
  <2>3. holder \in Procs /\ \A s \in UnderWay : s[1] = holder
    BY <2>1, <2>2
  <2> HIDE DEF holder
  <2>4. IsFiniteSet(Own(holder)) /\ Cardinality(Own(holder)) <= Slots
    BY <2>3 DEF OwnWithinSlots
  <2> DEFINE pairs == [t \in Own(holder) |-> <<holder, t>>]
  <2>5. \A s \in UnderWay : s[2] \in Own(holder) /\ s = <<holder, s[2]>>
    BY <2>3 DEF UnderWay, Own
  <2>6. \A t \in Own(holder) : pairs[t] \in UnderWay
    BY <2>3, SearchAssumption DEF UnderWay, Own, SearchTypes
  <2>7. pairs \in Surjection(Own(holder), UnderWay)
    <3>1. \A s \in UnderWay : \E t \in Own(holder) : pairs[t] = s
      BY <2>5
    <3>2. pairs \in [Own(holder) -> UnderWay]
      BY <2>6
    <3> QED
      BY <3>1, <3>2 DEF Surjection
  <2> HIDE DEF pairs
  <2>8. IsFiniteSet(UnderWay) /\ Cardinality(UnderWay) <= Cardinality(Own(holder))
    BY <2>4, <2>7, FS_Surjection
  <2>9. Cardinality(UnderWay) \in Nat /\ Cardinality(Own(holder)) \in Nat /\ Slots \in Nat
    BY <2>4, <2>8, FS_CardinalityType, BoundAssumption
  <2> QED
    BY <2>4, <2>8, <2>9
<1> QED
  BY <1>1, <1>2

\* The searches made at once, by whichever processes, keep within the slots as long as the
\* connection of the claim is not lost.
THEOREM SpecSearchesWithinSlots == Spec => []SearchesWithinSlots
<1>1. IInv => SearchesWithinSlots
  <2> SUFFICES ASSUME IInv
               PROVE  SearchesWithinSlots
    OBVIOUS
  <2>1. TypeOK
    BY DEF IInv, Types, TypeOK, RowTypes, ProcTypes, SearchTypes, Awaited
  <2> QED
    BY <2>1, HolderSearches DEF SearchesWithinSlots
<1> QED
  BY <1>1, Invariant, PTL

-----------------------------------------------------------------------------
(* No search is made twice, as long as nothing went wrong but that         *)
(* processes died.                                                         *)

\* The phases in which a process has searches to make, or knows of them.
SearchesOn == {"narrowing", "planning", "searching", "covering", "deciding", "following"}

\* Nobody works on a run that has no row.
NoneYet ==
  status = "none" => progress = Blank /\ writes = {} /\ \A p \in Procs : phase[p] = "idle"

\* Who started the run, and has not planned it, has nobody else at work on it.
Fresh(p) == p \notin resumed /\ phase[p] \in {"claiming", "intake"}

FreshIsAlone ==
  \A p \in Procs : Fresh(p) =>
    /\ ~progress.planned /\ progress.done = {} /\ state[p].done = {} /\ writes = {}
    /\ \A q \in Procs \ {p} :
         /\ phase[q] \in {"idle", "claiming", "giving back", "loading", "closing"}
         /\ phase[q] # "idle" => q \in resumed

IntakeIsFresh == \A p \in Procs : phase[p] = "intake" => p \notin resumed

\* What is left of a failed run is written while its result is.
LeftAtEnd == \A w \in writes : ~w.live => phase[w.by] = "finishing"

\* A call that replaces the row's progress meets no record of a search, and no other such
\* call; and it leaves out nothing of what the row holds.
Saving == {w \in writes : w.op \in {"plan", "save"}}

SavesAlone == \A w \in Saving : \A v \in writes : v.op # "record" /\ (v \in Saving => v = w)

SavesKeep ==
  \A w \in Saving :
    /\ progress.done \subseteq w.s.done
    /\ w.op = "plan" => w.s.done = {}
    /\ w.live => w.s.done \subseteq state[w.by].done

\* The process at work knows every search that was made, and makes none of them.
Knows ==
  \A p \in Procs : phase[p] \in SearchesOn =>
    /\ progress.done \subseteq state[p].done
    /\ phase[p] \in {"narrowing", "planning", "following"} =>
         state[p].tasks \cap progress.done = {}
    /\ phase[p] = "searching" =>
         /\ todo[p] \cap (progress.done \union active[p]) = {}
         /\ \A w \in writes : w.op = "record" => w.task \notin todo[p]

WhileRunning == status = "running" => LeftAtEnd /\ SavesAlone /\ SavesKeep /\ Knows
Started == NoneYet /\ FreshIsAlone /\ IntakeIsFresh
Once == OnlyCrashes => Started /\ WhileRunning

\* The steps at the claim that leave the row as it is.
Quiet(p) ==
  \/ \E limit \in Asked : Resume(p, limit)
  \/ Claim(p) \/ GiveBack(p) \/ Busy(p) \/ Release(p) \/ LoadNothing(p)

\* The steps by which nothing goes wrong but that a process dies.
CrashStep ==
  \/ UNCHANGED vars
  \/ \E p \in Procs :
       \/ Investigate(p) \/ Quiet(p) \/ Asking(p) \/ FailRun(p) \/ Crash(p)
       \/ \E t \in Searches : StartSearch(p, t) \/ EndSearch(p, t) \/ TimeOut(p, t)
                              \/ LateEnds(p, t)
  \/ \E w \in writes : Write(w)

\* What went wrong stays so.
LEMMA MishapsStay ==
  ASSUME MishapTypes, OnlyCrashes', [Next]_vars
  PROVE  OnlyCrashes /\ CrashStep
<1>1. cancels' = 0 /\ failures' = 0 /\ drops' = 0
  BY DEF OnlyCrashes
<1>2. \A p \in Procs : ~ClaimRaises(p) /\ ~CancelClaim(p) /\ ~Cancel(p)
  <2>1. cancels + 1 # 0 /\ failures + 1 # 0
    BY DEF MishapTypes
  <2> QED
    BY <1>1, <2>1, ClaimRefused, ClaimLeft DEF Cancel
<1>3. ~DropConnection /\ \A w \in writes : ~WriteFails(w)
  <2>1. drops + 1 # 0 /\ failures + 1 # 0
    BY DEF MishapTypes
  <2> QED
    BY <1>1, <2>1, WriteLost DEF DropConnection
<1>4. CrashStep
  BY <1>2, <1>3 DEF Next, Works, Ends, Late, Writes, CrashStep, Quiet, Asking
<1>5. cancels' = cancels /\ failures' = failures /\ drops' = drops
  <2>1. CASE UNCHANGED vars
    BY <2>1 DEF vars, mishaps
  <2>2. ASSUME NEW p \in Procs, Investigate(p) \/ Quiet(p)
        PROVE  cancels' = cancels /\ failures' = failures /\ drops' = drops
    BY <2>2 DEF Investigate, Quiet, Resume, Claim, GiveBack, Busy, Release, LoadNothing, mishaps
  <2>3. ASSUME NEW p \in Procs, Asking(p)
        PROVE  cancels' = cancels /\ failures' = failures /\ drops' = drops
    BY <2>3 DEF Asking, Load, Plan, Clarify, Report, Cover, FollowUp, mishaps
  <2>4. ASSUME NEW p \in Procs, FailRun(p) \/ Crash(p)
        PROVE  cancels' = cancels /\ failures' = failures /\ drops' = drops
    BY <2>4 DEF FailRun, Crash, mishaps
  <2>5. ASSUME NEW p \in Procs, NEW t \in Searches,
               StartSearch(p, t) \/ EndSearch(p, t) \/ TimeOut(p, t) \/ LateEnds(p, t)
        PROVE  cancels' = cancels /\ failures' = failures /\ drops' = drops
    BY <2>5 DEF StartSearch, EndSearch, TimeOut, LateEnds, mishaps
  <2>6. ASSUME NEW w \in writes, Write(w)
        PROVE  cancels' = cancels /\ failures' = failures /\ drops' = drops
    BY <2>6 DEF Write, mishaps
  <2> QED
    BY <1>4, <2>1, <2>2, <2>3, <2>4, <2>5, <2>6 DEF CrashStep
<1> QED
  BY <1>1, <1>4, <1>5 DEF OnlyCrashes

\* All that is being written is the holder's, and it waits for it until it gives up.
LEMMA HolderCalls ==
  ASSUME IInv, OnlyCrashes, LeftAtEnd, NEW p \in Procs, phase[p] \in Holding
  PROVE  /\ \A q \in Procs : phase[q] \in Holding => q = p
         /\ \A w \in writes : w.by = p
         /\ phase[p] # "finishing" => \A w \in writes : w.live /\ phase[p] = Awaiting[w.op]
<1> USE DEF IInv, Types
<1>1. \A q \in Procs : phase[q] \in Holding => q = p
  BY DEF OnlyCrashes, HolderIsOne
<1>2. \A w \in writes : w.by \in Procs /\ phase[w.by] \in Holding
  BY CallParts, LiveCall DEF LeftAtEnd, Holding, Phases
<1>3. \A w \in writes : w.by = p
  BY <1>1, <1>2
<1>4. phase[p] # "finishing" => \A w \in writes : w.live /\ phase[p] = Awaiting[w.op]
  BY <1>3, CallParts DEF LeftAtEnd, Awaited
<1> QED
  BY <1>1, <1>3, <1>4

\* The steps at the claim are of a process that has no call of the store to wait for.
LEMMA QuietSteps ==
  ASSUME ProcTypes, NEW p \in Procs, Quiet(p)
  PROVE  /\ phase[p] \in {"idle", "claiming", "giving back", "loading", "closing"}
         /\ phase'[p] \in {"idle", "claiming", "intake", "loading", "closing"}
         /\ phase[p] = "idle" => status = "running"
         /\ \A q \in Procs \ {p} : phase'[q] = phase[q] /\ state'[q] = state[q]
         /\ status' = status /\ progress' = progress /\ writes' = writes
         /\ todo' = todo /\ active' = active
<1>1. CASE \E limit \in Asked : Resume(p, limit)
  BY <1>1 DEF Resume, Goto, row, searching, ProcTypes
<1>2. CASE Claim(p)
  BY <1>2 DEF Claim, Goto, row, searching, ProcTypes
<1>3. CASE GiveBack(p)
  BY <1>3 DEF GiveBack, Goto, row, searching, ProcTypes
<1>4. CASE Busy(p)
  BY <1>4 DEF Busy, Goto, row, searching, ProcTypes
<1>5. CASE Release(p)
  BY <1>5 DEF Release, Idle, Goto, row, searching, ProcTypes
<1>6. CASE LoadNothing(p)
  BY <1>6 DEF LoadNothing, Goto, row, searching, ProcTypes
<1> QED
  BY <1>1, <1>2, <1>3, <1>4, <1>5, <1>6 DEF Quiet

\* Nothing happens to a run before it has a row.
LEMMA NoneYetKept ==
  ASSUME IInv, NoneYet, CrashStep
  PROVE  NoneYet'
<1> USE DEF IInv, Types
<1>1. CASE UNCHANGED vars
  BY <1>1 DEF vars, row, calls, NoneYet
<1>2. ASSUME NEW p \in Procs, Investigate(p)
      PROVE  NoneYet'
  BY <1>2 DEF Investigate, NoneYet
<1>3. ASSUME NEW p \in Procs, Quiet(p)
      PROVE  NoneYet'
  BY <1>3, QuietSteps DEF NoneYet, Quiet, Resume, Claim, GiveBack, Busy, Release, LoadNothing
<1>4. ASSUME NEW p \in Procs, Asking(p)
      PROVE  NoneYet'
  <2>1. phase[p] # "idle" /\ status' = status
    BY <1>4 DEF Asking, Load, Plan, Clarify, Report, Cover, FollowUp, row
  <2> QED
    BY <2>1 DEF NoneYet
<1>5. ASSUME NEW p \in Procs, NEW t \in Searches, StartSearch(p, t)
      PROVE  NoneYet'
  BY <1>5 DEF StartSearch, NoneYet, row
<1>6. ASSUME NEW p \in Procs, NEW t \in Searches, EndSearch(p, t) \/ TimeOut(p, t)
      PROVE  NoneYet'
  BY <1>6 DEF EndSearch, TimeOut, NoneYet, SearchPhases, row
<1>7. ASSUME NEW p \in Procs, NEW t \in Searches, LateEnds(p, t)
      PROVE  NoneYet'
  BY <1>7 DEF LateEnds, NoneYet, SearchPhases, Holding, row
<1>8. ASSUME NEW p \in Procs, FailRun(p)
      PROVE  NoneYet'
  BY <1>8 DEF FailRun, InGraph, NoneYet, row
<1>9. ASSUME NEW p \in Procs, Crash(p)
      PROVE  NoneYet'
  BY <1>9 DEF Crash, NoneYet, row
<1>10. ASSUME NEW w \in writes, Write(w)
      PROVE  NoneYet'
  BY <1>10 DEF Write, NoneYet, row
<1> QED
  BY <1>1, <1>2, <1>3, <1>4, <1>5, <1>6, <1>7, <1>8, <1>9, <1>10 DEF CrashStep

\* Another process that waits, or goes, leaves the one that is alone as it is.
LEMMA AloneAsBefore ==
  ASSUME Started, NEW p \in Procs, progress' = progress, writes' \subseteq writes,
         resumed \subseteq resumed', resumed' \subseteq resumed \union {p},
         \A q \in Procs \ {p} : phase'[q] = phase[q] /\ state'[q] = state[q],
         phase'[p] \in {"idle", "closing"} \/ (phase'[p] = "claiming" /\ p \in resumed'),
         phase'[p] = "closing" => phase[p] # "idle"
  PROVE  FreshIsAlone' /\ IntakeIsFresh'
<1>1. \A q \in Procs : Fresh(q)' => q # p /\ Fresh(q)
  BY DEF Fresh
<1>2. ASSUME NEW q \in Procs, Fresh(q), q # p
      PROVE  phase'[p] # "idle" => p \in resumed'
  BY <1>2 DEF Started, FreshIsAlone
<1>3. FreshIsAlone'
  <2> SUFFICES ASSUME NEW q \in Procs, Fresh(q)'
               PROVE  /\ ~progress'.planned /\ progress'.done = {} /\ state'[q].done = {} /\ writes' = {}
                      /\ \A r \in Procs \ {q} :
                           /\ phase'[r] \in {"idle", "claiming", "giving back", "loading", "closing"}
                           /\ phase'[r] # "idle" => r \in resumed'
    BY DEF FreshIsAlone
  <2>1. Fresh(q) /\ q # p
    BY <1>1
  <2>2. ~progress'.planned /\ progress'.done = {} /\ state'[q].done = {} /\ writes' = {}
    <3>1. ~progress.planned /\ progress.done = {} /\ state[q].done = {} /\ writes = {}
      BY <2>1 DEF Started, FreshIsAlone
    <3>2. state'[q] = state[q] /\ writes' = {}
      BY <2>1, <3>1
    <3> QED
      BY <3>1, <3>2
  <2>3. phase'[p] # "idle" => p \in resumed'
    BY <1>2, <2>1
  <2>4. \A r \in Procs \ {p, q} :
          /\ phase'[r] \in {"idle", "claiming", "giving back", "loading", "closing"}
          /\ phase'[r] # "idle" => r \in resumed'
    BY <2>1 DEF Started, FreshIsAlone
  <2> QED
    BY <2>2, <2>3, <2>4
<1>4. IntakeIsFresh'
  BY DEF Started, IntakeIsFresh
<1> QED
  BY <1>3, <1>4

\* Nobody comes between the start of a run and its plan.
LEMMA FreshKept ==
  ASSUME IInv, IInv', Started, CrashStep
  PROVE  FreshIsAlone' /\ IntakeIsFresh'
<1> USE DEF IInv, Types
<1>1. CASE UNCHANGED vars
  BY <1>1 DEF vars, row, calls, Started, FreshIsAlone, IntakeIsFresh, Fresh
<1>2. ASSUME NEW p \in Procs, Investigate(p)
      PROVE  FreshIsAlone' /\ IntakeIsFresh'
  <2>1. progress = Blank /\ writes = {} /\ \A q \in Procs : phase[q] = "idle"
    BY <1>2 DEF Investigate, Started, NoneYet
  <2>2. /\ phase' = [phase EXCEPT ![p] = "claiming"] /\ state' = [state EXCEPT ![p] = Blank]
        /\ progress' = progress /\ writes' = writes
    BY <1>2 DEF Investigate, Goto
  <2>3. ~Blank.planned /\ Blank.done = {}
    BY DEF Blank
  <2>4. state'[p] = Blank /\ \A q \in Procs \ {p} : phase'[q] = "idle"
    BY <2>1, <2>2 DEF ProcTypes
  <2> QED
    BY <2>1, <2>2, <2>3, <2>4 DEF FreshIsAlone, IntakeIsFresh, Fresh, ProcTypes
<1>3. ASSUME NEW p \in Procs, NEW limit \in Asked, Resume(p, limit)
      PROVE  FreshIsAlone' /\ IntakeIsFresh'
  <2>1. /\ resumed' = resumed \union {p} /\ phase' = [phase EXCEPT ![p] = "claiming"]
        /\ progress' = progress /\ writes' = writes /\ \A q \in Procs \ {p} : state'[q] = state[q]
    BY <1>3 DEF Resume, Goto, row, ProcTypes
  <2>2. phase'[p] = "claiming" /\ \A q \in Procs \ {p} : phase'[q] = phase[q]
    BY <2>1 DEF ProcTypes
  <2> QED
    BY <2>1, <2>2, AloneAsBefore
<1>4. ASSUME NEW p \in Procs, Claim(p) \/ GiveBack(p)
      PROVE  FreshIsAlone' /\ IntakeIsFresh'
  <2>1. /\ resumed' = resumed /\ progress' = progress /\ writes' = writes /\ state' = state
        /\ \A q \in Procs \ {p} : phase'[q] = phase[q]
    BY <1>4 DEF Claim, GiveBack, Goto, row, ProcTypes
  <2>2. CASE Claim(p)
    <3>1. phase[p] = "claiming" /\ phase'[p] = IF p \in resumed THEN "loading" ELSE "intake"
      BY <2>2 DEF Claim, Goto, ProcTypes
    <3> QED
      BY <2>1, <3>1 DEF Started, FreshIsAlone, IntakeIsFresh, Fresh
  <2>3. CASE GiveBack(p)
    <3>1. phase[p] = "giving back" /\ phase'[p] = "closing"
      BY <2>3 DEF GiveBack, Goto, ProcTypes
    <3> QED
      BY <2>1, <3>1 DEF Started, FreshIsAlone, IntakeIsFresh, Fresh
  <2> QED
    BY <1>4, <2>2, <2>3
<1>5. ASSUME NEW p \in Procs, Busy(p)
      PROVE  FreshIsAlone' /\ IntakeIsFresh'
  <2>1. /\ resumed' = resumed /\ progress' = progress /\ writes' = writes /\ state' = state
        /\ phase' = [phase EXCEPT ![p] = "idle"] /\ phase[p] # "idle"
    BY <1>5 DEF Busy, Goto, row
  <2>2. /\ phase'[p] = "idle"
        /\ \A q \in Procs \ {p} : phase'[q] = phase[q] /\ state'[q] = state[q]
    BY <2>1 DEF ProcTypes
  <2>3. phase'[p] = "closing" => phase[p] # "idle"
    BY <2>1, <2>2
  <2>4. writes' \subseteq writes /\ resumed \subseteq resumed' /\ resumed' \subseteq resumed \union {p}
    BY <2>1
  <2> QED
    BY <2>1, <2>2, <2>3, <2>4, AloneAsBefore
<1>6. ASSUME NEW p \in Procs, Release(p)
      PROVE  FreshIsAlone' /\ IntakeIsFresh'
  <2>1. /\ resumed' = resumed /\ progress' = progress /\ writes' = writes /\ state' = state
        /\ phase' = [phase EXCEPT ![p] = "idle"] /\ phase[p] # "idle"
    BY <1>6 DEF Release, Idle, Goto, row
  <2>2. /\ phase'[p] = "idle"
        /\ \A q \in Procs \ {p} : phase'[q] = phase[q] /\ state'[q] = state[q]
    BY <2>1 DEF ProcTypes
  <2>3. phase'[p] = "closing" => phase[p] # "idle"
    BY <2>1, <2>2
  <2>4. writes' \subseteq writes /\ resumed \subseteq resumed' /\ resumed' \subseteq resumed \union {p}
    BY <2>1
  <2> QED
    BY <2>1, <2>2, <2>3, <2>4, AloneAsBefore
<1>7. ASSUME NEW p \in Procs, LoadNothing(p)
      PROVE  FreshIsAlone' /\ IntakeIsFresh'
  <2>1. /\ resumed' = resumed /\ progress' = progress /\ writes' = writes /\ state' = state
        /\ phase' = [phase EXCEPT ![p] = "closing"] /\ phase[p] # "idle"
    BY <1>7 DEF LoadNothing, Goto, row
  <2>2. /\ phase'[p] = "closing"
        /\ \A q \in Procs \ {p} : phase'[q] = phase[q] /\ state'[q] = state[q]
    BY <2>1 DEF ProcTypes
  <2>3. phase'[p] = "closing" => phase[p] # "idle"
    BY <2>1, <2>2
  <2>4. writes' \subseteq writes /\ resumed \subseteq resumed' /\ resumed' \subseteq resumed \union {p}
    BY <2>1
  <2> QED
    BY <2>1, <2>2, <2>3, <2>4, AloneAsBefore
<1>8. ASSUME NEW p \in Procs, Asking(p)
      PROVE  FreshIsAlone' /\ IntakeIsFresh'
  <2>1. PICK op \in Ops \ {"record"}, s \in States : Asks(p, op, s)
    BY <1>8, AskingSteps
  <2>2. phase'[p] \notin {"claiming", "intake"} /\ \A q \in Procs \ {p} : phase'[q] = phase[q]
    <3>1. Awaiting[op] \in Holding /\ Awaiting[op] # "intake"
      BY Places
    <3> QED
      BY <2>1, <3>1 DEF Asks, Holding, ProcTypes
  <2>3. resumed' = resumed
    BY <1>8, AskingSteps
  <2>4. phase[p] = "loading" => progress.planned
    BY <1>8 DEF Asking, Load, Plan, Clarify, Report, Cover, FollowUp
  <2>5. \A q \in Procs : ~Fresh(q)'
    BY <2>1, <2>2, <2>3, <2>4 DEF Asks, Started, FreshIsAlone, Fresh
  <2> QED
    BY <2>2, <2>3, <2>5 DEF Started, FreshIsAlone, IntakeIsFresh
<1>9. ASSUME NEW p \in Procs, NEW t \in Searches, StartSearch(p, t)
      PROVE  FreshIsAlone' /\ IntakeIsFresh'
  <2>1. phase' = phase /\ resumed' = resumed /\ phase[p] = "searching"
    BY <1>9 DEF StartSearch, calls
  <2>2. \A q \in Procs : ~Fresh(q)'
    BY <2>1 DEF Started, FreshIsAlone, Fresh
  <2> QED
    BY <2>1, <2>2 DEF Started, FreshIsAlone, IntakeIsFresh
<1>10. ASSUME NEW p \in Procs, NEW t \in Searches, EndSearch(p, t) \/ TimeOut(p, t)
      PROVE  FreshIsAlone' /\ IntakeIsFresh'
  <2>1. phase' = phase /\ resumed' = resumed /\ phase[p] = "searching"
    BY <1>10 DEF EndSearch, TimeOut, calls, SearchPhases
  <2>2. \A q \in Procs : ~Fresh(q)'
    BY <2>1 DEF Started, FreshIsAlone, Fresh
  <2> QED
    BY <2>1, <2>2 DEF Started, FreshIsAlone, IntakeIsFresh
<1>11. ASSUME NEW p \in Procs, NEW t \in Searches, LateEnds(p, t)
      PROVE  FreshIsAlone' /\ IntakeIsFresh'
  BY <1>11 DEF LateEnds, row, calls, Started, FreshIsAlone, IntakeIsFresh, Fresh
<1>12. ASSUME NEW p \in Procs, FailRun(p)
      PROVE  FreshIsAlone' /\ IntakeIsFresh'
  <2>1. resumed' = resumed /\ phase' = [phase EXCEPT ![p] = "finishing"] /\ phase[p] \in InGraph
    BY <1>12 DEF FailRun, End, Goto
  <2>2. \A q \in Procs : ~Fresh(q)'
    BY <2>1 DEF Started, FreshIsAlone, Fresh, InGraph, ProcTypes
  <2> QED
    BY <2>1, <2>2 DEF Started, FreshIsAlone, IntakeIsFresh, ProcTypes
<1>13. ASSUME NEW p \in Procs, Crash(p)
      PROVE  FreshIsAlone' /\ IntakeIsFresh'
  <2>1. /\ resumed' = resumed /\ progress' = progress /\ state' = state
        /\ phase' = [phase EXCEPT ![p] = "idle"] /\ writes' \subseteq writes
    BY <1>13 DEF Crash, Goto, row
  <2>2. /\ phase'[p] = "idle"
        /\ \A q \in Procs \ {p} : phase'[q] = phase[q] /\ state'[q] = state[q]
    BY <2>1 DEF ProcTypes
  <2>3. phase'[p] = "closing" => phase[p] # "idle"
    BY <2>1, <2>2
  <2>4. writes' \subseteq writes /\ resumed \subseteq resumed' /\ resumed' \subseteq resumed \union {p}
    BY <2>1
  <2> QED
    BY <2>1, <2>2, <2>3, <2>4, AloneAsBefore
<1>14. ASSUME NEW w \in writes, Write(w)
      PROVE  FreshIsAlone' /\ IntakeIsFresh'
  <2>1. resumed' = resumed /\ GoOn(w)
    BY <1>14 DEF Write
  <2>2. \A q \in Procs \ {w.by} : phase'[q] = phase[q]
    BY <2>1, GoOnPlaces
  <2>3. w.by \in Procs /\ (phase'[w.by] # phase[w.by] => phase'[w.by] \in Holding \ {"intake"})
    <3>1. w.op # "record" => After[w.op] \in Holding \ {"intake"}
      BY CallParts, Places DEF Holding, Phases
    <3> QED
      BY <2>1, <3>1, CallParts DEF GoOn, Goto, ProcTypes
  <2>4. \A q \in Procs : ~Fresh(q)'
    BY <2>1, <2>2, <2>3 DEF Started, FreshIsAlone, Fresh, Holding
  <2> QED
    BY <2>1, <2>2, <2>3, <2>4 DEF Started, FreshIsAlone, IntakeIsFresh
<1> QED
  BY <1>1, <1>2, <1>3, <1>4, <1>5, <1>6, <1>7, <1>8, <1>9, <1>10, <1>11, <1>12, <1>13,
     <1>14 DEF CrashStep, Quiet

\* What the process that asks knows of the run, and the call it makes.
AsksWith(p, from, to, op, s) ==
  /\ phase[p] = from /\ phase'[p] = to
  /\ writes' = writes \union {Call(p, op, s, "none")}

LEMMA AskedStates ==
  ASSUME Types, NEW p \in Procs, Asking(p)
  PROVE  \/ /\ AsksWith(p, "loading", "narrowing", "narrow", state'[p])
            /\ state'[p].done = progress.done /\ state'[p].tasks \cap progress.done = {}
         \/ /\ AsksWith(p, "intake", "planning", "plan", state'[p])
            /\ state'[p].done = state[p].done
         \/ /\ AsksWith(p, "deciding", "following", "round", state'[p])
            /\ state'[p].done = state[p].done /\ state'[p].tasks \cap state[p].done = {}
         \/ AsksWith(p, "searching", "covering", "save", state[p]) /\ state' = state
         \/ \E from \in {"intake", "deciding"} :
              AsksWith(p, from, "finishing", "finish", Blank) /\ state' = state
<1> USE DEF Types
<1>1. CASE Load(p)
  <2>1. PICK owed \in Capped(Owed, Left([progress EXCEPT !.limit = HeldTo(p)])) :
          LET s == [[progress EXCEPT !.limit = HeldTo(p)] EXCEPT !.tasks = owed]
          IN  state' = [state EXCEPT ![p] = s] /\ writes' = writes \union {Call(p, "narrow", s, "none")}
    BY <1>1 DEF Load
  <2>2. state'[p] = [[progress EXCEPT !.limit = HeldTo(p)] EXCEPT !.tasks = owed]
    BY <2>1 DEF ProcTypes
  <2>3. state'[p].done = progress.done /\ state'[p].tasks = owed
    BY <2>2 DEF RowTypes, States
  <2>4. owed \cap progress.done = {}
    BY CappedIsSubset DEF Owed
  <2>5. phase[p] = "loading" /\ phase'[p] = "narrowing"
    BY <1>1 DEF Load, Goto, ProcTypes
  <2>6. writes' = writes \union {Call(p, "narrow", state'[p], "none")}
    BY <2>1, <2>2
  <2> QED
    BY <2>3, <2>4, <2>5, <2>6 DEF AsksWith
<1>2. CASE Plan(p)
  <2>1. PICK tasks \in Capped(Tasks, Left(state[p])) :
          LET s == [state[p] EXCEPT !.planned = TRUE, !.tasks = tasks]
          IN  state' = [state EXCEPT ![p] = s] /\ writes' = writes \union {Call(p, "plan", s, "none")}
    BY <1>2 DEF Plan
  <2>2. state'[p] = [state[p] EXCEPT !.planned = TRUE, !.tasks = tasks]
    BY <2>1 DEF ProcTypes
  <2>3. state'[p].done = state[p].done
    BY <2>2 DEF ProcTypes, States
  <2>4. phase[p] = "intake" /\ phase'[p] = "planning"
    BY <1>2 DEF Plan, Goto, ProcTypes
  <2>5. writes' = writes \union {Call(p, "plan", state'[p], "none")}
    BY <2>1, <2>2
  <2> QED
    BY <2>3, <2>4, <2>5 DEF AsksWith
<1>3. CASE FollowUp(p)
  <2>1. PICK tasks \in Capped(Follow \ state[p].done, Left(state[p])) :
          LET s == [state[p] EXCEPT !.tasks = tasks, !.round = @ + 1]
          IN  state' = [state EXCEPT ![p] = s] /\ writes' = writes \union {Call(p, "round", s, "none")}
    BY <1>3 DEF FollowUp
  <2>2. state'[p] = [state[p] EXCEPT !.tasks = tasks, !.round = @ + 1]
    BY <2>1 DEF ProcTypes
  <2>3. state'[p].done = state[p].done /\ state'[p].tasks = tasks
    BY <2>2 DEF ProcTypes, States
  <2>4. tasks \cap state[p].done = {}
    BY CappedIsSubset
  <2>5. phase[p] = "deciding" /\ phase'[p] = "following"
    BY <1>3 DEF FollowUp, Goto, ProcTypes
  <2>6. writes' = writes \union {Call(p, "round", state'[p], "none")}
    BY <2>1, <2>2
  <2> QED
    BY <2>3, <2>4, <2>5, <2>6 DEF AsksWith
<1>4. CASE Cover(p)
  BY <1>4 DEF Cover, Goto, AsksWith, ProcTypes
<1>5. CASE Clarify(p) \/ Report(p)
  BY <1>5 DEF Clarify, Report, End, Goto, AsksWith, ProcTypes
<1> QED
  BY <1>1, <1>2, <1>3, <1>4, <1>5 DEF Asking

\* What a write does to the searches the row holds.
LEMMA WrittenDone ==
  ASSUME RowTypes, CallTypes, NEW w \in writes
  PROVE  /\ w.op \in {"plan", "save"} => Written(w).done = w.s.done
         /\ w.op = "record" => /\ progress.done \subseteq Written(w).done
                               /\ Written(w).done \subseteq progress.done \union {w.task}
         /\ w.op \in {"round", "narrow"} => Written(w).done = progress.done
<1>1. w.op \in {"plan", "save"} => Written(w).done = w.s.done
  BY DEF Written
<1>2. ASSUME w.op = "record"
      PROVE  /\ progress.done \subseteq Written(w).done
             /\ Written(w).done \subseteq progress.done \union {w.task}
  <2> DEFINE next == [progress EXCEPT !.done = @ \union {w.task}, !.spent = @ + 1]
  <2>1. next.done = progress.done \union {w.task}
    BY <1>2, CallParts, RecordOfRow DEF RowTypes
  <2>2. Written(w) = IF progress.planned THEN next ELSE progress
    BY <1>2 DEF Written
  <2> HIDE DEF next
  <2> QED
    BY <2>1, <2>2
<1>3. ASSUME w.op \in {"round", "narrow"}
      PROVE  Written(w).done = progress.done
  BY <1>3 DEF Written, RowTypes, States
<1> QED
  BY <1>1, <1>2, <1>3

\* What an answer tells its process of the searches made.
LEMMA GoOnDone ==
  ASSUME ProcTypes, CallTypes, NEW w \in writes, GoOn(w)
  PROVE  /\ \A q \in Procs \ {w.by} : state'[q] = state[q]
         /\ ~(w.live /\ w.op = "record") => state' = state
         /\ w.live /\ w.op = "record" => state'[w.by].done = state[w.by].done \union {w.task}
<1>1. w.by \in Procs
  BY CallParts
<1>2. CASE w.live /\ w.op = "record"
  <2> DEFINE made == [state EXCEPT ![w.by].done = @ \union {w.task}]
  <2>1. state' = [made EXCEPT ![w.by].spent = state[w.by].spent + 1]
    BY <1>1, <1>2 DEF GoOn, ProcTypes
  <2>2. /\ \A q \in Procs \ {w.by} : made[q] = state[q]
        /\ made[w.by].done = state[w.by].done \union {w.task}
        /\ made \in [Procs -> States]
    BY <1>1, <1>2, CallParts DEF ProcTypes, States
  <2> HIDE DEF made
  <2>3. /\ \A q \in Procs \ {w.by} : state'[q] = made[q]
        /\ state'[w.by].done = made[w.by].done
    BY <1>1, <2>1, <2>2 DEF States
  <2> QED
    BY <1>2, <2>2, <2>3
<1>3. CASE ~(w.live /\ w.op = "record")
  BY <1>3 DEF GoOn
<1> QED
  BY <1>2, <1>3

\* A process asks for nothing to be written while something is.
LEMMA AsksAlone ==
  ASSUME IInv, IInv', OnlyCrashes, LeftAtEnd, NEW p \in Procs, Asking(p)
  PROVE  writes = {} /\ phase[p] \in Holding
<1> USE DEF IInv, Types
<1>1. PICK op \in Ops \ {"record"}, s \in States : Asks(p, op, s)
  BY AskingSteps
<1>2. phase[p] \in {"loading", "intake", "searching", "deciding"}
  BY <1>1 DEF Asks
<1>3. phase[p] \in Holding
  BY <1>2 DEF Holding, Phases
<1>4. \A w \in writes : w.by = p /\ w.live
  BY <1>2, <1>3, HolderCalls
<1>5. \A w \in writes : w.op = "record" /\ w.task \in Recording(p)
  BY <1>2, <1>4, LiveCall DEF Recording
<1> QED
  BY <1>1, <1>3, <1>4, <1>5, LiveCall DEF Asks

\* What replaces the row's progress keeps what it holds.
LEMMA WritesKept ==
  ASSUME IInv, IInv', OnlyCrashes, Started, WhileRunning, CrashStep, status' = "running"
  PROVE  LeftAtEnd' /\ SavesAlone' /\ SavesKeep'
<1> USE DEF IInv, Types
<1>1. CASE UNCHANGED vars
  <2>1. writes' = writes /\ phase' = phase /\ progress' = progress /\ state' = state /\ status = "running"
    BY <1>1 DEF vars, row, calls
  <2> QED
    BY <2>1 DEF WhileRunning, LeftAtEnd, SavesAlone, SavesKeep, Saving
<1>2. ASSUME NEW p \in Procs, Investigate(p)
      PROVE  LeftAtEnd' /\ SavesAlone' /\ SavesKeep'
  <2>1. writes' = {}
    BY <1>2 DEF Investigate, Started, NoneYet
  <2> QED
    BY <2>1 DEF LeftAtEnd, SavesAlone, SavesKeep, Saving
<1>3. ASSUME NEW p \in Procs, Quiet(p)
      PROVE  LeftAtEnd' /\ SavesAlone' /\ SavesKeep'
  <2>1. /\ status = "running" /\ writes' = writes /\ progress' = progress
        /\ \A q \in Procs \ {p} : phase'[q] = phase[q] /\ state'[q] = state[q]
        /\ phase[p] \in {"idle", "claiming", "giving back", "loading", "closing"}
    BY <1>3, QuietSteps
  <2>2. \A w \in writes : w.by \in Procs \ {p}
    BY <2>1, LiveCall, CallParts DEF WhileRunning, LeftAtEnd, Holding
  <2> QED
    BY <2>1, <2>2 DEF WhileRunning, LeftAtEnd, SavesAlone, SavesKeep, Saving
<1>4. ASSUME NEW p \in Procs, Asking(p)
      PROVE  LeftAtEnd' /\ SavesAlone' /\ SavesKeep'
  <2>1. status = "running" /\ progress' = progress
    BY <1>4, AskingSteps
  <2>2. writes = {}
    BY <1>4, <2>1, AsksAlone DEF WhileRunning
  <2>3. PICK op \in Ops, s \in {state[p], state'[p], Blank} :
           /\ writes' = {Call(p, op, s, "none")}
           /\ op \in {"plan", "save"} => /\ progress.done \subseteq s.done
                                         /\ op = "plan" => s.done = {}
                                         /\ s.done \subseteq state'[p].done
    <3>1. CASE \/ AsksWith(p, "loading", "narrowing", "narrow", state'[p])
               \/ AsksWith(p, "deciding", "following", "round", state'[p])
               \/ \E from \in {"intake", "deciding"} : AsksWith(p, from, "finishing", "finish", Blank)
      BY <2>2, <3>1 DEF AsksWith, Ops
    <3>2. CASE AsksWith(p, "intake", "planning", "plan", state'[p]) /\ state'[p].done = state[p].done
      <4>1. state[p].done = {} /\ progress.done = {}
        BY <3>2 DEF AsksWith, Started, IntakeIsFresh, FreshIsAlone, Fresh
      <4> QED
        BY <2>2, <3>2, <4>1 DEF AsksWith, Ops
    <3>3. CASE AsksWith(p, "searching", "covering", "save", state[p]) /\ state' = state
      <4>1. progress.done \subseteq state[p].done
        BY <2>1, <3>3 DEF AsksWith, WhileRunning, Knows, SearchesOn
      <4> QED
        BY <2>2, <3>3, <4>1 DEF AsksWith, Ops
    <3> QED
      BY <1>4, <3>1, <3>2, <3>3, AskedStates
  <2> DEFINE asked == Call(p, op, s, "none")
  <2>4. asked.by = p /\ asked.op = op /\ asked.s = s /\ asked.live
    BY DEF Call
  <2>5. writes' = {asked}
    BY <2>3
  <2>6. asked.op \in {"plan", "save"} => /\ progress.done \subseteq asked.s.done
                                         /\ asked.op = "plan" => asked.s.done = {}
                                         /\ asked.s.done \subseteq state'[p].done
    BY <2>3, <2>4
  <2> HIDE DEF asked
  <2> QED
    BY <2>1, <2>4, <2>5, <2>6 DEF LeftAtEnd, SavesAlone, SavesKeep, Saving
<1>5. ASSUME NEW p \in Procs, NEW t \in Searches, StartSearch(p, t)
      PROVE  LeftAtEnd' /\ SavesAlone' /\ SavesKeep'
  <2>1. writes' = writes /\ phase' = phase /\ progress' = progress /\ state' = state /\ status = "running"
    BY <1>5 DEF StartSearch, row, calls
  <2> QED
    BY <2>1 DEF WhileRunning, LeftAtEnd, SavesAlone, SavesKeep, Saving
<1>6. ASSUME NEW p \in Procs, NEW t \in Searches, EndSearch(p, t) \/ TimeOut(p, t)
      PROVE  LeftAtEnd' /\ SavesAlone' /\ SavesKeep'
  <2> DEFINE made == Call(p, "record", Blank, t)
  <2>1. /\ writes' = writes \union {made} /\ phase' = phase /\ status = "running"
        /\ phase[p] = "searching"
    BY <1>6 DEF EndSearch, TimeOut, row, calls, SearchPhases
  <2>2. made.op = "record" /\ made.live
    BY DEF Call
  <2> HIDE DEF made
  <2>3. \A w \in writes : w.live /\ w.op = "record"
    BY <2>1, HolderCalls, LiveCall DEF WhileRunning, Holding, Phases
  <2> QED
    BY <2>1, <2>2, <2>3 DEF LeftAtEnd, SavesAlone, SavesKeep, Saving
<1>7. ASSUME NEW p \in Procs, NEW t \in Searches, LateEnds(p, t)
      PROVE  LeftAtEnd' /\ SavesAlone' /\ SavesKeep'
  <2>1. writes' = writes /\ phase' = phase /\ progress' = progress /\ state' = state /\ status = "running"
    BY <1>7 DEF LateEnds, row, calls
  <2> QED
    BY <2>1 DEF WhileRunning, LeftAtEnd, SavesAlone, SavesKeep, Saving
<1>8. ASSUME NEW p \in Procs, FailRun(p)
      PROVE  LeftAtEnd' /\ SavesAlone' /\ SavesKeep'
  <2> DEFINE told == Call(p, "finish", Blank, "none")
  <2>1. /\ writes' = Abandoned(p) \union {told} /\ phase' = [phase EXCEPT ![p] = "finishing"]
        /\ status = "running" /\ progress' = progress /\ phase[p] \in InGraph
    BY <1>8 DEF FailRun, End, Goto, row
  <2>2. told.by = p /\ told.op = "finish"
    BY DEF Call
  <2> HIDE DEF told
  <2>3. \A w \in writes : w.by = p
    BY <2>1, HolderCalls DEF WhileRunning, InGraph, Holding, Phases
  <2>4. \A v \in Abandoned(p) :
          /\ v.by = p /\ ~v.live
          /\ \E w \in writes : v = [w EXCEPT !.live = FALSE] /\ v.op = w.op /\ v.s = w.s
    <3> SUFFICES ASSUME NEW w \in writes, NEW v, v = [w EXCEPT !.live = w.live /\ w.by # p]
                 PROVE  /\ v.by = p /\ ~v.live
                        /\ v = [w EXCEPT !.live = FALSE] /\ v.op = w.op /\ v.s = w.s
      BY DEF Abandoned
    <3>1. w.by = p /\ w \in Calls
      BY <2>3 DEF CallTypes
    <3>2. v = [w EXCEPT !.live = FALSE]
      BY <3>1
    <3> QED
      BY <3>1, <3>2 DEF Calls
  <2>5. LeftAtEnd'
    BY <2>1, <2>2, <2>4 DEF LeftAtEnd, ProcTypes
  <2>6. SavesAlone'
    <3> SUFFICES ASSUME NEW x \in Saving', NEW v \in writes'
                 PROVE  v.op # "record" /\ (v \in Saving' => v = x)
      BY DEF SavesAlone
    <3>1. x \in Abandoned(p) /\ x.op \in {"plan", "save"}
      BY <2>1, <2>2 DEF Saving
    <3>2. PICK y \in writes : x = [y EXCEPT !.live = FALSE] /\ y.op = x.op
      BY <2>4, <3>1
    <3>3. y \in Saving
      BY <3>1, <3>2 DEF Saving
    <3>4. CASE v = told
      BY <2>2, <3>4 DEF Saving
    <3>5. CASE v \in Abandoned(p)
      <4>1. PICK z \in writes : v = [z EXCEPT !.live = FALSE] /\ z.op = v.op
        BY <2>4, <3>5
      <4>2. z.op # "record" /\ (z \in Saving => z = y)
        BY <2>1, <3>3 DEF WhileRunning, SavesAlone
      <4>3. v \in Saving' => z \in Saving
        BY <4>1 DEF Saving
      <4> QED
        BY <3>2, <4>1, <4>2, <4>3
    <3> QED
      BY <2>1, <3>4, <3>5
  <2>7. SavesKeep'
    BY <2>1, <2>2, <2>4 DEF WhileRunning, SavesKeep, Saving
  <2> QED
    BY <2>5, <2>6, <2>7
<1>9. ASSUME NEW p \in Procs, Crash(p)
      PROVE  LeftAtEnd' /\ SavesAlone' /\ SavesKeep'
  <2>1. /\ writes' = {w \in writes : w.by # p} /\ status = "running" /\ progress' = progress
        /\ phase' = [phase EXCEPT ![p] = "idle"] /\ state' = state
    BY <1>9 DEF Crash, Goto, row
  <2>2. \A w \in writes' : w \in writes /\ phase'[w.by] = phase[w.by]
    BY <2>1, CallParts DEF ProcTypes
  <2> QED
    BY <2>1, <2>2 DEF WhileRunning, LeftAtEnd, SavesAlone, SavesKeep, Saving
<1>10. ASSUME NEW w \in writes, Write(w)
      PROVE  LeftAtEnd' /\ SavesAlone' /\ SavesKeep'
  <2>1. /\ writes' = writes \ {w} /\ status = "running" /\ GoOn(w)
        /\ progress' = Written(w) /\ w.op # "finish"
    BY <1>10 DEF Write, row
  <2>2. LeftAtEnd'
    <3> SUFFICES ASSUME NEW v \in writes \ {w}, ~v.live
                 PROVE  phase'[v.by] = "finishing"
      BY <2>1 DEF LeftAtEnd
    <3>1. phase[v.by] = "finishing" /\ v.by \in Procs
      BY <2>1, CallParts DEF WhileRunning, LeftAtEnd
    <3>2. v.by # w.by \/ ~w.live
      BY <2>1, <3>1, LiveCall, CallParts, Places DEF Awaited
    <3> QED
      BY <2>1, <3>1, <3>2, GoOnPlaces DEF GoOn
  <2>3. SavesAlone'
    BY <2>1 DEF WhileRunning, SavesAlone, Saving
  <2>4. SavesKeep'
    <3> SUFFICES ASSUME NEW v \in Saving, v # w
                 PROVE  /\ progress'.done \subseteq v.s.done
                        /\ v.op = "plan" => v.s.done = {}
                        /\ v.live => v.s.done \subseteq state'[v.by].done
      BY <2>1 DEF SavesKeep, Saving
    <3>1. w.op \notin {"plan", "save", "record", "finish"}
      BY <2>1 DEF WhileRunning, SavesAlone, Saving
    <3>2. w.op \in {"round", "narrow"}
      BY <3>1, CallParts DEF Ops
    <3>3. progress'.done = progress.done /\ state' = state
      BY <2>1, <3>2, WrittenDone, GoOnDone
    <3> QED
      BY <2>1, <3>3 DEF WhileRunning, SavesKeep
  <2> QED
    BY <2>2, <2>3, <2>4
<1> QED
  BY <1>1, <1>2, <1>3, <1>4, <1>5, <1>6, <1>7, <1>8, <1>9, <1>10 DEF CrashStep

\* Who goes on with a run goes on from what it holds, and with what is left to make.
LEMMA KnowsKept ==
  ASSUME IInv, IInv', OnlyCrashes, Started, WhileRunning, CrashStep, status' = "running"
  PROVE  Knows'
<1> USE DEF IInv, Types
<1>1. CASE UNCHANGED vars
  <2>1. /\ writes' = writes /\ phase' = phase /\ progress' = progress /\ state' = state
        /\ todo' = todo /\ active' = active /\ status = "running"
    BY <1>1 DEF vars, row, calls, searching
  <2> QED
    BY <2>1 DEF WhileRunning, Knows
<1>2. ASSUME NEW p \in Procs, Investigate(p)
      PROVE  Knows'
  <2>1. phase' = [phase EXCEPT ![p] = "claiming"] /\ \A q \in Procs : phase[q] = "idle"
    BY <1>2 DEF Investigate, Goto, Started, NoneYet
  <2>2. \A q \in Procs : phase'[q] \in {"claiming", "idle"}
    BY <2>1 DEF ProcTypes
  <2> QED
    BY <2>2 DEF Knows, SearchesOn
<1>3. ASSUME NEW p \in Procs, Quiet(p)
      PROVE  Knows'
  <2>1. /\ status = "running" /\ writes' = writes /\ progress' = progress
        /\ todo' = todo /\ active' = active
        /\ \A q \in Procs \ {p} : phase'[q] = phase[q] /\ state'[q] = state[q]
        /\ phase'[p] \in {"idle", "claiming", "intake", "loading", "closing"}
    BY <1>3, QuietSteps
  <2>2. phase'[p] \notin SearchesOn
    BY <2>1 DEF SearchesOn
  <2> QED
    BY <2>1, <2>2 DEF WhileRunning, Knows
<1>4. ASSUME NEW p \in Procs, Asking(p)
      PROVE  Knows'
  <2>1. status = "running" /\ progress' = progress /\ phase' \in [Procs -> Phases]
    BY <1>4, AskingSteps DEF ProcTypes
  <2>2. writes = {} /\ phase[p] \in Holding
    BY <1>4, <2>1, AsksAlone DEF WhileRunning
  <2>3. \A q \in Procs : phase'[q] \in SearchesOn => q = p
    <3>1. \A q \in Procs \ {p} : phase'[q] = phase[q]
      <4>1. PICK op \in Ops \ {"record"}, s \in States : Asks(p, op, s)
        BY <1>4, AskingSteps
      <4> QED
        BY <4>1 DEF Asks, ProcTypes
    <3>2. \A q \in Procs : phase[q] \in Holding => q = p
      BY <2>1, <2>2, HolderCalls DEF WhileRunning
    <3>3. SearchesOn \subseteq Holding
      BY DEF SearchesOn, Holding, Phases
    <3> QED
      BY <3>1, <3>2, <3>3
  <2>4. /\ phase'[p] # "searching"
        /\ phase'[p] \in SearchesOn => progress.done \subseteq state'[p].done
        /\ phase'[p] \in {"narrowing", "planning", "following"} => state'[p].tasks \cap progress.done = {}
    <3>1. CASE /\ AsksWith(p, "loading", "narrowing", "narrow", state'[p])
               /\ state'[p].done = progress.done /\ state'[p].tasks \cap progress.done = {}
      BY <3>1 DEF AsksWith
    <3>2. CASE AsksWith(p, "intake", "planning", "plan", state'[p]) /\ state'[p].done = state[p].done
      <4>1. progress.done = {}
        BY <3>2 DEF AsksWith, Started, IntakeIsFresh, FreshIsAlone, Fresh
      <4> QED
        BY <3>2, <4>1 DEF AsksWith
    <3>3. CASE /\ AsksWith(p, "deciding", "following", "round", state'[p])
               /\ state'[p].done = state[p].done /\ state'[p].tasks \cap state[p].done = {}
      <4>1. progress.done \subseteq state[p].done
        BY <2>1, <3>3 DEF AsksWith, WhileRunning, Knows, SearchesOn
      <4> QED
        BY <3>3, <4>1 DEF AsksWith
    <3>4. CASE AsksWith(p, "searching", "covering", "save", state[p]) /\ state' = state
      <4>1. progress.done \subseteq state[p].done
        BY <2>1, <3>4 DEF AsksWith, WhileRunning, Knows, SearchesOn
      <4> QED
        BY <3>4, <4>1 DEF AsksWith
    <3>5. CASE \E from \in {"intake", "deciding"} : AsksWith(p, from, "finishing", "finish", Blank)
      BY <3>5 DEF AsksWith, SearchesOn
    <3> QED
      BY <1>4, <3>1, <3>2, <3>3, <3>4, <3>5, AskedStates
  <2> QED
    BY <2>1, <2>3, <2>4 DEF Knows
<1>5. ASSUME NEW p \in Procs, NEW t \in Searches, StartSearch(p, t)
      PROVE  Knows'
  <2>1. /\ writes' = writes /\ phase' = phase /\ progress' = progress /\ state' = state
        /\ status = "running" /\ t \in todo[p]
        /\ todo' = [todo EXCEPT ![p] = @ \ {t}] /\ active' = [active EXCEPT ![p] = @ \union {t}]
    BY <1>5 DEF StartSearch, row, calls
  <2>2. \A q \in Procs \ {p} : todo'[q] = todo[q] /\ active'[q] = active[q]
    BY <2>1 DEF SearchTypes
  <2>3. todo'[p] = todo[p] \ {t} /\ active'[p] = active[p] \union {t}
    BY <2>1 DEF SearchTypes
  <2> QED
    BY <2>1, <2>2, <2>3 DEF WhileRunning, Knows
<1>6. ASSUME NEW p \in Procs, NEW t \in Searches, EndSearch(p, t) \/ TimeOut(p, t)
      PROVE  Knows'
  <2> DEFINE made == Call(p, "record", Blank, t)
  <2>1. /\ writes' = writes \union {made} /\ phase' = phase /\ progress' = progress
        /\ state' = state /\ todo' = todo /\ status = "running"
        /\ t \in active[p] /\ active' = [active EXCEPT ![p] = @ \ {t}]
    BY <1>6 DEF EndSearch, TimeOut, row, calls
  <2>2. made.by = p /\ made.task = t
    BY DEF Call
  <2> HIDE DEF made
  <2>3. \A q \in Procs : active'[q] \subseteq active[q]
    BY <2>1 DEF SearchTypes
  <2>4. phase[p] = "searching"
    BY <2>1 DEF SearchPhases
  <2>5. \A q \in Procs : phase[q] = "searching" => q = p
    BY <2>1, <2>4, HolderCalls DEF WhileRunning, Holding, Phases
  <2>6. t \notin todo[p]
    BY <2>1, <2>4 DEF WhileRunning, Knows, SearchesOn
  <2> QED
    BY <2>1, <2>2, <2>3, <2>5, <2>6 DEF WhileRunning, Knows
<1>7. ASSUME NEW p \in Procs, NEW t \in Searches, LateEnds(p, t)
      PROVE  Knows'
  <2>1. /\ writes' = writes /\ phase' = phase /\ progress' = progress /\ state' = state
        /\ todo' = todo /\ active' = active /\ status = "running"
    BY <1>7 DEF LateEnds, row, calls
  <2> QED
    BY <2>1 DEF WhileRunning, Knows
<1>8. ASSUME NEW p \in Procs, FailRun(p)
      PROVE  Knows'
  <2>1. /\ phase' = [phase EXCEPT ![p] = "finishing"] /\ status = "running" /\ phase[p] \in InGraph
    BY <1>8 DEF FailRun, End, Goto, row
  <2>2. \A q \in Procs : phase[q] \in Holding => q = p
    BY <2>1, HolderCalls DEF WhileRunning, InGraph, Holding, Phases
  <2>3. \A q \in Procs : phase'[q] \notin SearchesOn
    BY <2>1, <2>2 DEF ProcTypes, SearchesOn, Holding, Phases
  <2> QED
    BY <2>3 DEF Knows
<1>9. ASSUME NEW p \in Procs, Crash(p)
      PROVE  Knows'
  <2>1. /\ writes' \subseteq writes /\ status = "running" /\ progress' = progress
        /\ phase' = [phase EXCEPT ![p] = "idle"] /\ state' = state
        /\ \A q \in Procs \ {p} : todo'[q] = todo[q] /\ active'[q] = active[q]
    BY <1>9 DEF Crash, Goto, row, SearchTypes
  <2>2. phase'[p] = "idle" /\ \A q \in Procs \ {p} : phase'[q] = phase[q]
    BY <2>1 DEF ProcTypes
  <2>3. \A q \in Procs : phase'[q] \in SearchesOn => q # p
    BY <2>2 DEF SearchesOn
  <2> QED
    BY <2>1, <2>2, <2>3 DEF WhileRunning, Knows
<1>10. ASSUME NEW w \in writes, Write(w)
      PROVE  Knows'
  <2> DEFINE q == w.by
  <2>1. /\ writes' = writes \ {w} /\ status = "running" /\ GoOn(w) /\ active' = active
        /\ progress' = Written(w) /\ w.op # "finish"
    BY <1>10 DEF Write, row
  <2>2. q \in Procs /\ phase[q] \in Holding
    BY <2>1, LiveCall, CallParts DEF WhileRunning, LeftAtEnd, Holding, Phases
  <2>3. \A r \in Procs : phase[r] \in Holding => r = q
    BY <2>1, <2>2, HolderCalls DEF WhileRunning
  <2>4. SearchesOn \subseteq Holding /\ "finishing" \notin SearchesOn
    BY DEF SearchesOn, Holding, Phases
  <2> HIDE DEF q
  <2>5. SUFFICES ASSUME phase'[q] \in SearchesOn
                 PROVE  /\ progress'.done \subseteq state'[q].done
                        /\ phase'[q] \in {"narrowing", "planning", "following"} =>
                             state'[q].tasks \cap progress'.done = {}
                        /\ phase'[q] = "searching" =>
                             /\ todo'[q] \cap (progress'.done \union active'[q]) = {}
                             /\ \A v \in writes' : v.op = "record" => v.task \notin todo'[q]
    <3>1. \A r \in Procs : phase'[r] \in SearchesOn => r = q
      BY <2>1, <2>3, <2>4, GoOnPlaces DEF q
    <3> QED
      BY <3>1 DEF Knows
  <2>6. w.live /\ phase[q] = Awaiting[w.op]
    <3>1. w.live
      BY <2>1, <2>4, <2>5 DEF WhileRunning, LeftAtEnd, GoOn, q
    <3> QED
      BY <3>1, LiveCall DEF q
  <2>7. \A v \in writes : v.live /\ v.by = q
    BY <2>1, <2>2, <2>6, CallParts, Places, HolderCalls DEF WhileRunning
  <2>8. CASE w.op = "record"
    <3>1. phase[q] = "searching" /\ phase'[q] = "searching" /\ todo' = todo
      BY <2>1, <2>6, <2>8 DEF Awaiting, GoOn
    <3>2. /\ progress.done \subseteq state[q].done
          /\ todo[q] \cap (progress.done \union active[q]) = {}
          /\ \A v \in writes : v.op = "record" => v.task \notin todo[q]
      BY <2>1, <2>2, <3>1 DEF WhileRunning, Knows, SearchesOn
    <3>3. state'[q].done = state[q].done \union {w.task}
      BY <2>1, <2>6, <2>8, GoOnDone DEF q
    <3>4. progress'.done \subseteq progress.done \union {w.task}
      BY <2>1, <2>8, WrittenDone
    <3> QED
      BY <2>1, <2>8, <3>1, <3>2, <3>3, <3>4
  <2>9. CASE w.op = "save"
    <3>1. phase'[q] = "deciding"
      BY <2>1, <2>2, <2>6, <2>9 DEF GoOn, Goto, After, ProcTypes, q
    <3>2. progress'.done = w.s.done /\ state' = state
      BY <2>1, <2>9, WrittenDone, GoOnDone
    <3>3. w.s.done \subseteq state[q].done
      BY <2>1, <2>6, <2>9 DEF WhileRunning, SavesKeep, Saving, q
    <3> QED
      BY <3>1, <3>2, <3>3
  <2>10. CASE w.op \in {"plan", "narrow", "round"}
    <3>1. phase[q] \in {"planning", "narrowing", "following"} /\ After[w.op] = "searching"
      BY <2>6, <2>10 DEF Awaiting, After
    <3>2. phase'[q] = "searching" /\ todo'[q] = state[q].tasks /\ state' = state
      <4>1. phase' = [phase EXCEPT ![q] = "searching"]
        BY <2>1, <2>6, <2>10, <3>1 DEF GoOn, Goto, q
      <4>2. todo' = [todo EXCEPT ![q] = state[q].tasks]
        BY <2>1, <2>6, <2>10, <3>1 DEF GoOn, q
      <4> QED
        BY <2>1, <2>2, <2>10, <4>1, <4>2, GoOnDone DEF ProcTypes, SearchTypes
    <3>3. active[q] = {}
      BY <2>2, <3>1 DEF SearchPhases
    <3>4. writes' = {}
      BY <2>1, <2>6, <2>7, <2>10 DEF CallsApart, q
    <3>5. progress.done \subseteq state[q].done /\ state[q].tasks \cap progress.done = {}
      BY <2>1, <2>2, <3>1 DEF WhileRunning, Knows, SearchesOn
    <3>6. progress'.done \subseteq progress.done
      <4>1. CASE w.op = "plan"
        BY <2>1, <4>1, WrittenDone DEF WhileRunning, SavesKeep, Saving
      <4>2. CASE w.op \in {"narrow", "round"}
        BY <2>1, <4>2, WrittenDone
      <4> QED
        BY <2>10, <4>1, <4>2
    <3> QED
      BY <2>1, <3>2, <3>3, <3>4, <3>5, <3>6
  <2> QED
    BY <2>1, <2>8, <2>9, <2>10, CallParts DEF Ops
<1> QED
  BY <1>1, <1>2, <1>3, <1>4, <1>5, <1>6, <1>7, <1>8, <1>9, <1>10 DEF CrashStep

LEMMA OnceSteps ==
  ASSUME IInv, IInv', Once, [Next]_vars
  PROVE  Once'
<1> SUFFICES ASSUME OnlyCrashes'
             PROVE  Started' /\ WhileRunning'
  BY DEF Once
<1>1. OnlyCrashes /\ CrashStep
  BY MishapsStay DEF IInv, Types
<1>2. Started /\ WhileRunning
  BY <1>1 DEF Once
<1>3. Started'
  BY <1>1, <1>2, NoneYetKept, FreshKept DEF Started
<1>4. WhileRunning'
  BY <1>1, <1>2, WritesKept, KnowsKept DEF WhileRunning
<1> QED
  BY <1>3, <1>4

LEMMA InitOnce == Init => Once
<1> SUFFICES ASSUME Init
             PROVE  Started /\ WhileRunning
  BY DEF Once
<1>1. NoneYet /\ IntakeIsFresh
  BY DEF Init, NoneYet, IntakeIsFresh
<1>2. FreshIsAlone
  BY DEF Init, FreshIsAlone, Fresh
<1> QED
  BY <1>1, <1>2 DEF Started, WhileRunning, Init

LEMMA OnceInvariant == Spec => []Once
<1>1. IInv /\ IInv' /\ Once /\ [Next]_vars => Once'
  BY OnceSteps
<1> QED
  BY InitOnce, <1>1, Invariant, PTL DEF Spec

\* A write of the row loses no search that was made.
LEMMA WritesLoseNothing ==
  ASSUME IInv, WhileRunning, status = "running", NEW w \in writes, Write(w), status' = "running"
  PROVE  progress.done \subseteq progress'.done
<1> USE DEF IInv, Types
<1>1. progress' = Written(w) /\ w.op # "finish"
  BY DEF Write
<1>2. CASE w.op \in {"plan", "save"}
  BY <1>1, <1>2, WrittenDone DEF WhileRunning, SavesKeep, Saving
<1>3. CASE w.op \in {"record", "round", "narrow"}
  BY <1>1, <1>3, WrittenDone
<1> QED
  BY <1>1, <1>2, <1>3, CallParts DEF Ops

\* The records and the searches of a step in which the row is running.
LEMMA MadeOnceStep ==
  ASSUME IInv, IInv', Once, [Next]_vars, OnlyCrashes, status = "running"
  PROVE  /\ status' = "running" => progress.done \subseteq progress'.done
         /\ \A p \in Procs : active'[p] \cap progress.done \subseteq active[p]
<1> USE DEF IInv, Types
<1>1. WhileRunning
  BY DEF Once
<1>2. CASE UNCHANGED vars
  BY <1>2 DEF vars, row, searching
<1>3. ASSUME NEW p \in Procs, Moving(p) \/ Asking(p)
      PROVE  progress' = progress /\ active' = active
  BY <1>3, MovingSteps, AskingSteps
<1>4. ASSUME NEW p \in Procs, NEW t \in Searches, StartSearch(p, t)
      PROVE  /\ progress' = progress
             /\ \A q \in Procs : active'[q] \cap progress.done \subseteq active[q]
  <2>1. phase[p] = "searching" /\ t \in todo[p] /\ progress' = progress
    BY <1>4 DEF StartSearch, row
  <2>2. active' = [active EXCEPT ![p] = @ \union {t}]
    BY <1>4 DEF StartSearch
  <2>3. t \notin progress.done
    BY <1>1, <2>1 DEF WhileRunning, Knows, SearchesOn
  <2> QED
    BY <2>1, <2>2, <2>3 DEF SearchTypes
<1>5. ASSUME NEW p \in Procs,
             \/ FailRun(p) \/ Cancel(p) \/ Crash(p)
             \/ \E t \in Searches : EndSearch(p, t) \/ TimeOut(p, t) \/ LateEnds(p, t)
      PROVE  progress' = progress /\ \A q \in Procs : active'[q] \subseteq active[q]
  BY <1>5 DEF FailRun, Cancel, Crash, Abandon, EndSearch, TimeOut, LateEnds, row, SearchTypes
<1>6. ASSUME NEW w \in writes, Write(w)
      PROVE  /\ status' = "running" => progress.done \subseteq progress'.done
             /\ active' = active
  BY <1>1, <1>6, WritesLoseNothing DEF Write
<1>7. ASSUME NEW w \in writes, WriteFails(w)
      PROVE  progress' = progress /\ active' = active
  BY <1>7, WriteLost
<1>8. CASE DropConnection
  BY <1>8 DEF DropConnection, row, searching
<1> QED
  BY <1>2, <1>3, <1>4, <1>5, <1>6, <1>7, <1>8 DEF Next, Works, Ends, Late, Writes, Asking, Moving

\* No record of a search is lost, and no recorded search is made again, in whatever place
\* processes die and whichever go on.
THEOREM SpecSearchesMadeOnce == Spec => SearchesMadeOnce
<1>1. IInv /\ IInv' /\ Once /\ [Next]_vars
      => [OnlyCrashes /\ status = "running" =>
           /\ status' = "running" => progress.done \subseteq progress'.done
           /\ \A p \in Procs : active'[p] \cap progress.done \subseteq active[p]]_vars
  BY MadeOnceStep
<1> QED
  BY <1>1, Invariant, OnceInvariant, PTL DEF Spec, SearchesMadeOnce
================================================================================
