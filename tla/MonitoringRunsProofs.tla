------------------------ MODULE MonitoringRunsProofs ------------------------
(***************************************************************************)
(* Proofs about MonitoringRuns, for any workers, sources, requests and     *)
(* bounds: its invariant and what follows from it; then, from that, the    *)
(* stage locks, the outcome of a completed run, and that the rows          *)
(* implement RunLedger.                                                    *)
(***************************************************************************)
EXTENDS MonitoringRuns, SequenceTheorems, TLAPS

InStage == {"fencing", "looping", "writing", "counting", "recording"}
HasRun == InStage \cup {"entering", "finishing", "checkpointing"}

\* Ids are handed out in order, and a row carries one of the requests.
RowsAreDense ==
  /\ \A r \in RunIds : status[r] = "none" <=> r > lastId
  /\ \A r \in RunIds : status[r] # "none" => job[r] \in Jobs

\* The unique index, seen as a fact about the rows.
OneRunningPerScope ==
  \A q, r \in RunIds :
    status[q] = "running" /\ status[r] = "running" /\ job[q].scope = job[r].scope => q = r

\* A handle names an inserted row, the row was inserted for its request, and no
\* two processes share one.
HandlesMatchRows ==
  /\ \A w \in Workers :
       /\ pc[w] \in HasRun <=> run[w] # 0
       /\ run[w] # 0 => status[run[w]] # "none" /\ job[run[w]] = want[w]
       /\ pc[w] = "inserting" => want[w] \in Jobs
  /\ \A v, w \in Workers : v # w /\ run[v] # 0 => run[v] # run[w]

\* Inside a stage there is a current stage, and inside a unit a unit is left.
ControlOK ==
  \A w \in Workers :
    /\ pc[w] \in InStage \cup {"entering"} => todo[w] # <<>>
    /\ pc[w] \in {"writing", "counting", "recording"} => left[w] > 0
    /\ pc[w] = "checkpointing" =>
         want[w].kind = "regular" /\ status[run[w]] \in Completed

\* A late unit needs an ended run, and the fence stands before the next one.
LateOK ==
  \A w \in Workers :
    /\ late[w] > 0 => run[w] # 0 /\ ~Alive(w)
    /\ pc[w] = "writing" /\ Stage(w) # "ai_entity_review" => late[w] = 0
    /\ pc[w] = "looping" /\ Stage(w) \in {"discovery", "findings"} => late[w] = 0
    /\ late[w] > 1 => Stage(w) = "ai_entity_review"

IInv ==
  /\ TypeOK
  /\ RowsAreDense
  /\ OneRunningPerScope
  /\ HandlesMatchRows
  /\ ControlOK
  /\ LateOK
  /\ CheckpointNamesGoodRun

-----------------------------------------------------------------------------
\* What the module knows of a request: it has a plan of stages, a regular one
\* is for a source, and no plan is empty.
LEMMA JobFacts ==
  ASSUME NEW j \in Jobs
  PROVE  /\ j.scope \in Scopes
         /\ j.plan \in Seq(Stages) /\ j.plan # <<>>
         /\ j.kind = "regular" => j.scope \in Sources
<1>1. LoadStages \in Seq(Stages) /\ Len(LoadStages) = 3
  BY DEF LoadStages, Stages
<1>2. Resolution \in Seq(Stages) /\ Len(Resolution) = 1
  BY DEF Resolution, Stages
<1>3. DerivedStages \in Seq(Stages) /\ Len(DerivedStages) = 4
  BY DEF DerivedStages, Stages
<1>4. LoadStages \o Resolution \in Seq(Stages) /\ Len(LoadStages \o Resolution) = 4
  <2>1. Len(LoadStages \o Resolution) = Len(LoadStages) + Len(Resolution)
    BY <1>1, <1>2, ConcatProperties, Zenon
  <2> QED BY <1>1, <1>2, <2>1, ConcatProperties
<1>5. \A p \in Seq(Stages) : Len(p) # 0 => p # <<>>
  BY EmptySeq
<1>6. LoadStages \o Resolution \o DerivedStages \in Seq(Stages)
  BY <1>3, <1>4, ConcatProperties, Zenon
<1>7. Len(LoadStages \o Resolution \o DerivedStages) = 8
  <2>1. Len(LoadStages \o Resolution \o DerivedStages)
          = Len(LoadStages \o Resolution) + Len(DerivedStages)
    BY <1>3, <1>4, ConcatProperties, Zenon
  <2> QED BY <1>3, <1>4, <2>1
<1> DEFINE Plan(p) == p \in Seq(Stages) /\ p # <<>>
<1>8. /\ Plan(LoadStages) /\ Plan(Resolution) /\ Plan(DerivedStages)
      /\ Plan(LoadStages \o Resolution)
      /\ Plan(LoadStages \o Resolution \o DerivedStages)
  <2>1. Plan(LoadStages)
    BY <1>1, <1>5
  <2>2. Plan(Resolution)
    BY <1>2, <1>5
  <2>3. Plan(DerivedStages)
    BY <1>3, <1>5
  <2>4. Plan(LoadStages \o Resolution)
    BY <1>4, <1>5
  <2>5. Plan(LoadStages \o Resolution \o DerivedStages)
    BY <1>6, <1>7, <1>5
  <2> QED BY <2>1, <2>2, <2>3, <2>4, <2>5
<1> HIDE DEF Plan
<1>9. \A p \in SourcePlans \cup {Resolution, DerivedStages} : Plan(p)
  BY <1>8 DEF SourcePlans
<1>10. /\ j.plan \in SourcePlans \cup {Resolution, DerivedStages}
       /\ j.scope \in Scopes
       /\ j.kind = "regular" => j.scope \in Sources
  <2>1. \/ j \in [scope : Sources, kind : {"regular", "backfill"}, plan : SourcePlans]
        \/ j \in [scope : Sources, kind : {"resolve_only"}, plan : {Resolution}]
        \/ j \in [scope : {DerivedScope}, kind : {"derived"}, plan : {DerivedStages}]
    BY DEF Jobs
  <2> QED BY <2>1 DEF Scopes
<1> QED BY <1>9, <1>10 DEF Plan

\* The statement form of the request assumption that the steps below use.
LEMMA RequestsAreJobs == \A j \in Requests : j \in Jobs
  BY RequestsAssumption

\* What a run's own end may be.
LEMMA OutcomeFacts ==
  ASSUME NEW w \in Workers, TypeOK, run[w] \in RunIds
  PROVE  /\ Outcome(w) \in Statuses
         /\ Alive(w) => Outcome(w) \in Terminal
         /\ ~Alive(w) => Outcome(w) = status[run[w]]
  BY DEF Outcome, Alive, TypeOK, Statuses, Terminal, Completed

LEMMA InitInv == Init => IInv
  BY BoundsAssumption
  DEF Init, IInv, TypeOK, RowsAreDense, OneRunningPerScope, HandlesMatchRows, ControlOK,
      LateOK, CheckpointNamesGoodRun, InStage, HasRun, Statuses, Pcs, RunIds, NoJob


\* A worker past its INSERT names an inserted row and serves a request.
LEMMA ServingFacts ==
  ASSUME IInv, NEW w \in Workers, pc[w] \in HasRun
  PROVE  /\ run[w] \in RunIds /\ run[w] <= lastId
         /\ status[run[w]] # "none"
         /\ want[w] \in Jobs /\ want[w] = job[run[w]]
  BY BoundsAssumption DEF IInv, TypeOK, HandlesMatchRows, RowsAreDense, RunIds

\* A worker in a stage has a current stage, and knows whether it is the last.
LEMMA StageFacts ==
  ASSUME IInv, NEW w \in Workers, pc[w] \in InStage \cup {"entering"}
  PROVE  /\ Stage(w) \in Stages
         /\ Tail(todo[w]) \in Seq(Stages)
         /\ Len(todo[w]) # 1 => Tail(todo[w]) # <<>>
<1>1. todo[w] \in Seq(Stages) /\ todo[w] # <<>>
  BY DEF IInv, TypeOK, ControlOK
<1>2. /\ Head(todo[w]) \in Stages
      /\ Tail(todo[w]) \in Seq(Stages)
      /\ Len(Tail(todo[w])) = Len(todo[w]) - 1
  BY <1>1, HeadTailProperties
<1>3. Len(todo[w]) \in Nat
  BY <1>1
<1>4. \A p \in Seq(Stages) : Len(p) # 0 => p # <<>>
  BY EmptySeq
<1>5. Len(todo[w]) # 1 => Len(Tail(todo[w])) # 0
  BY <1>2, <1>3
<1>6. Len(todo[w]) # 1 => Tail(todo[w]) # <<>>
  BY <1>2, <1>4, <1>5
<1> QED BY <1>2, <1>6 DEF Stage

\* Counting a unit off keeps the number of units left in its range.
LEMMA CountFacts ==
  ASSUME IInv, NEW w \in Workers, pc[w] \in {"writing", "counting", "recording"}
  PROVE  left[w] - 1 \in 0..MaxUnits \cup {1}
<1>1. left[w] \in 0..MaxUnits \cup {1} /\ left[w] > 0
  BY DEF IInv, TypeOK, ControlOK
<1>2. MaxUnits \in Nat
  BY BoundsAssumption
<1> QED BY <1>1, <1>2

\* Every step keeps the invariant: one step of the proof per action.
LEMMA StepInv == IInv /\ [Next]_vars => IInv'
<1> SUFFICES ASSUME IInv, [Next]_vars PROVE IInv'
  OBVIOUS
<1> USE BoundsAssumption, NamesAssumption
<1> USE DEF Alive, Goto, Release, Forget, Beat, InStage, HasRun, Pcs, Statuses, Terminal, Completed, RunIds, rows, handles
<1>1. ASSUME NEW r \in RunIds, GrowStale(r) PROVE IInv'
  <2>1. TypeOK'
    BY <1>1 DEF IInv, GrowStale, TypeOK
  <2>2. RowsAreDense'
    BY <1>1 DEF IInv, GrowStale, TypeOK, RowsAreDense
  <2>3. OneRunningPerScope'
    BY <1>1 DEF IInv, GrowStale, TypeOK, RowsAreDense, OneRunningPerScope
  <2>4. HandlesMatchRows'
    BY <1>1 DEF IInv, GrowStale, TypeOK, RowsAreDense, HandlesMatchRows
  <2>5. ControlOK'
    BY <1>1 DEF IInv, GrowStale, TypeOK, HandlesMatchRows, ControlOK
  <2>6. LateOK'
    BY <1>1 DEF IInv, GrowStale, Stage, TypeOK, RowsAreDense, HandlesMatchRows, LateOK
  <2>7. CheckpointNamesGoodRun'
    BY <1>1 DEF IInv, GrowStale, TypeOK, RowsAreDense, HandlesMatchRows, ControlOK, CheckpointNamesGoodRun
  <2> QED BY <2>1, <2>2, <2>3, <2>4, <2>5, <2>6, <2>7 DEF IInv
<1>2. ASSUME NEW w \in Workers, NEW j \in Requests, AbortStaleRuns(w, j) PROVE IInv'
  <2>1. TypeOK'
    BY <1>2, RequestsAssumption DEF IInv, AbortStaleRuns, TypeOK, HandlesMatchRows
  <2>2. RowsAreDense'
    BY <1>2 DEF IInv, AbortStaleRuns, TypeOK, RowsAreDense
  <2>3. OneRunningPerScope'
    BY <1>2 DEF IInv, AbortStaleRuns, TypeOK, RowsAreDense, OneRunningPerScope
  <2>4. HandlesMatchRows'
    BY <1>2, RequestsAssumption DEF IInv, AbortStaleRuns, TypeOK, HandlesMatchRows
  <2>5. ControlOK'
    BY <1>2 DEF IInv, AbortStaleRuns, TypeOK, HandlesMatchRows, ControlOK
  <2>6. LateOK'
    BY <1>2 DEF IInv, AbortStaleRuns, Stage, TypeOK, RowsAreDense, HandlesMatchRows, LateOK
  <2>7. CheckpointNamesGoodRun'
    BY <1>2 DEF IInv, AbortStaleRuns, TypeOK, RowsAreDense, HandlesMatchRows, ControlOK, CheckpointNamesGoodRun
  <2> QED BY <2>1, <2>2, <2>3, <2>4, <2>5, <2>6, <2>7 DEF IInv
<1>3. ASSUME NEW w \in Workers, InsertRun(w) PROVE IInv'
  <2>1. /\ want[w] \in Jobs /\ want[w].plan \in Seq(Stages) /\ want[w].plan # <<>>
        /\ lastId \in Nat /\ lastId + 1 \in RunIds
        /\ status[lastId + 1] = "none" /\ run[w] = 0
    <3>1. want[w] \in Jobs /\ run[w] = 0
      BY <1>3 DEF IInv, InsertRun, HandlesMatchRows
    <3>2. lastId \in Nat /\ lastId + 1 \in RunIds
      BY <1>3 DEF IInv, InsertRun, TypeOK
    <3>3. status[lastId + 1] = "none"
      BY <3>2 DEF IInv, RowsAreDense
    <3> QED BY <3>1, <3>2, <3>3, JobFacts
  <2>2. TypeOK'
    BY <1>3, <2>1 DEF IInv, InsertRun, TypeOK
  <2>3. RowsAreDense'
    BY <1>3, <2>1 DEF IInv, InsertRun, TypeOK, RowsAreDense
  <2>4. OneRunningPerScope'
    BY <1>3, <2>1 DEF IInv, InsertRun, ScopeTaken, TypeOK, RowsAreDense, OneRunningPerScope
  <2>5. HandlesMatchRows'
    BY <1>3, <2>1 DEF IInv, InsertRun, TypeOK, RowsAreDense, HandlesMatchRows
  <2>6. ControlOK'
    BY <1>3, <2>1 DEF IInv, InsertRun, TypeOK, HandlesMatchRows, ControlOK
  <2>7. LateOK'
    BY <1>3, <2>1 DEF IInv, InsertRun, Stage, TypeOK, RowsAreDense, HandlesMatchRows, LateOK
  <2>8. CheckpointNamesGoodRun'
    BY <1>3, <2>1 DEF IInv, InsertRun, TypeOK, RowsAreDense, HandlesMatchRows, ControlOK, CheckpointNamesGoodRun
  <2> QED BY <2>2, <2>3, <2>4, <2>5, <2>6, <2>7, <2>8 DEF IInv
<1>4. ASSUME NEW w \in Workers, AlreadyRunning(w) PROVE IInv'
  <2>1. TypeOK'
    BY <1>4 DEF IInv, AlreadyRunning, TypeOK
  <2>2. RowsAreDense'
    BY <1>4 DEF IInv, AlreadyRunning, TypeOK, RowsAreDense
  <2>3. OneRunningPerScope'
    BY <1>4 DEF IInv, AlreadyRunning, TypeOK, RowsAreDense, OneRunningPerScope
  <2>4. HandlesMatchRows'
    BY <1>4 DEF IInv, AlreadyRunning, TypeOK, RowsAreDense, HandlesMatchRows
  <2>5. ControlOK'
    BY <1>4 DEF IInv, AlreadyRunning, TypeOK, HandlesMatchRows, ControlOK
  <2>6. LateOK'
    BY <1>4 DEF IInv, AlreadyRunning, Stage, TypeOK, RowsAreDense, HandlesMatchRows, LateOK
  <2>7. CheckpointNamesGoodRun'
    BY <1>4 DEF IInv, AlreadyRunning, TypeOK, RowsAreDense, HandlesMatchRows, ControlOK, CheckpointNamesGoodRun
  <2> QED BY <2>1, <2>2, <2>3, <2>4, <2>5, <2>6, <2>7 DEF IInv
<1>5. ASSUME NEW w \in Workers, EnterStage(w) PROVE IInv'
  <2>1. TypeOK'
    BY <1>5 DEF IInv, EnterStage, TypeOK
  <2>2. RowsAreDense'
    BY <1>5 DEF IInv, EnterStage, TypeOK, RowsAreDense
  <2>3. OneRunningPerScope'
    BY <1>5 DEF IInv, EnterStage, TypeOK, RowsAreDense, OneRunningPerScope
  <2>4. HandlesMatchRows'
    BY <1>5 DEF IInv, EnterStage, TypeOK, RowsAreDense, HandlesMatchRows
  <2>5. ControlOK'
    BY <1>5 DEF IInv, EnterStage, TypeOK, HandlesMatchRows, ControlOK
  <2>6. LateOK'
    BY <1>5 DEF IInv, EnterStage, Stage, TypeOK, RowsAreDense, HandlesMatchRows, LateOK
  <2>7. CheckpointNamesGoodRun'
    BY <1>5 DEF IInv, EnterStage, TypeOK, RowsAreDense, HandlesMatchRows, ControlOK, CheckpointNamesGoodRun
  <2> QED BY <2>1, <2>2, <2>3, <2>4, <2>5, <2>6, <2>7 DEF IInv
<1>6. ASSUME NEW w \in Workers, BeatWhileWaiting(w) PROVE IInv'
  <2>1. TypeOK'
    BY <1>6 DEF IInv, BeatWhileWaiting, TypeOK
  <2>2. RowsAreDense'
    BY <1>6 DEF IInv, BeatWhileWaiting, TypeOK, RowsAreDense
  <2>3. OneRunningPerScope'
    BY <1>6 DEF IInv, BeatWhileWaiting, TypeOK, RowsAreDense, OneRunningPerScope
  <2>4. HandlesMatchRows'
    BY <1>6 DEF IInv, BeatWhileWaiting, TypeOK, RowsAreDense, HandlesMatchRows
  <2>5. ControlOK'
    BY <1>6 DEF IInv, BeatWhileWaiting, TypeOK, HandlesMatchRows, ControlOK
  <2>6. LateOK'
    BY <1>6 DEF IInv, BeatWhileWaiting, Stage, TypeOK, RowsAreDense, HandlesMatchRows, LateOK
  <2>7. CheckpointNamesGoodRun'
    BY <1>6 DEF IInv, BeatWhileWaiting, TypeOK, RowsAreDense, HandlesMatchRows, ControlOK, CheckpointNamesGoodRun
  <2> QED BY <2>1, <2>2, <2>3, <2>4, <2>5, <2>6, <2>7 DEF IInv
<1>7. ASSUME NEW w \in Workers, FenceStage(w) PROVE IInv'
  <2>1. /\ run[w] \in RunIds /\ run[w] <= lastId /\ status[run[w]] # "none"
        /\ want[w] \in Jobs /\ want[w] = job[run[w]]
    BY <1>7, ServingFacts DEF FenceStage
  <2>2. TypeOK'
    BY <1>7, <2>1 DEF IInv, FenceStage, TypeOK
  <2>3. RowsAreDense'
    BY <1>7, <2>1 DEF IInv, FenceStage, TypeOK, RowsAreDense
  <2>4. OneRunningPerScope'
    BY <1>7, <2>1 DEF IInv, FenceStage, TypeOK, RowsAreDense, OneRunningPerScope
  <2>5. HandlesMatchRows'
    BY <1>7, <2>1 DEF IInv, FenceStage, TypeOK, RowsAreDense, HandlesMatchRows
  <2>6. ControlOK'
    BY <1>7, <2>1 DEF IInv, FenceStage, TypeOK, HandlesMatchRows, ControlOK
  <2>7. LateOK'
    BY <1>7, <2>1 DEF IInv, FenceStage, LoopedStages, Stage, TypeOK, RowsAreDense, HandlesMatchRows, LateOK
  <2>8. CheckpointNamesGoodRun'
    BY <1>7, <2>1 DEF IInv, FenceStage, TypeOK, RowsAreDense, HandlesMatchRows, ControlOK, CheckpointNamesGoodRun
  <2> QED BY <2>2, <2>3, <2>4, <2>5, <2>6, <2>7, <2>8 DEF IInv
<1>8. ASSUME NEW w \in Workers, BeginUnit(w) PROVE IInv'
  <2>1. TypeOK'
    <3>1. progress \in [RunIds -> SUBSET Stages] /\ "resolution" \in Stages
      BY DEF IInv, TypeOK, Stages
    <3>2. progress' \in [RunIds -> SUBSET Stages]
      <4>1. CASE progress' = [progress EXCEPT ![run[w]] = @ \cup {"resolution"}]
        BY <3>1, <4>1
      <4> QED BY <1>8, <3>1, <4>1 DEF BeginUnit
    <3>3. stale' \in [RunIds -> BOOLEAN] /\ pc' \in [Workers -> Pcs]
      BY <1>8 DEF IInv, BeginUnit, TypeOK
    <3> QED BY <1>8, <3>2, <3>3 DEF IInv, BeginUnit, TypeOK
  <2>2. RowsAreDense'
    BY <1>8 DEF IInv, BeginUnit, TypeOK, RowsAreDense
  <2>3. OneRunningPerScope'
    BY <1>8 DEF IInv, BeginUnit, TypeOK, RowsAreDense, OneRunningPerScope
  <2>4. HandlesMatchRows'
    BY <1>8 DEF IInv, BeginUnit, TypeOK, RowsAreDense, HandlesMatchRows
  <2>5. ControlOK'
    BY <1>8 DEF IInv, BeginUnit, TypeOK, HandlesMatchRows, ControlOK
  <2>6. LateOK'
    <3>1. Stage(w) \in Stages
      BY <1>8, StageFacts DEF BeginUnit
    <3>2. late[w] = 0 \/ Stage(w) = "ai_entity_review"
      BY <1>8, <3>1 DEF IInv, BeginUnit, LoopedStages, Stages, TypeOK, LateOK
    <3> QED BY <1>8, <3>2 DEF IInv, BeginUnit, Stage, TypeOK, LateOK
  <2>7. CheckpointNamesGoodRun'
    BY <1>8 DEF IInv, BeginUnit, TypeOK, RowsAreDense, HandlesMatchRows, ControlOK, CheckpointNamesGoodRun
  <2> QED BY <2>1, <2>2, <2>3, <2>4, <2>5, <2>6, <2>7 DEF IInv
<1>9. ASSUME NEW w \in Workers, CommitUnit(w) PROVE IInv'
  <2>1. /\ run[w] \in RunIds /\ run[w] <= lastId /\ status[run[w]] # "none"
        /\ want[w] \in Jobs /\ want[w] = job[run[w]]
    BY <1>9, ServingFacts DEF CommitUnit
  <2>2. left[w] - 1 \in 0..MaxUnits \cup {1}
    BY <1>9, CountFacts DEF CommitUnit
  <2>3. TypeOK'
    <3>1. left' \in [Workers -> 0..MaxUnits \cup {1}]
      BY <1>9, <2>2 DEF IInv, CommitUnit, TypeOK
    <3>2. late' \in [Workers -> Nat]
      BY <1>9 DEF IInv, CommitUnit, TypeOK
    <3>3. pc' \in [Workers -> Pcs]
      BY <1>9 DEF IInv, CommitUnit, TypeOK
    <3> QED BY <1>9, <3>1, <3>2, <3>3 DEF IInv, CommitUnit, TypeOK
  <2>4. RowsAreDense'
    BY <1>9, <2>1, <2>2 DEF IInv, CommitUnit, TypeOK, RowsAreDense
  <2>5. OneRunningPerScope'
    BY <1>9, <2>1, <2>2 DEF IInv, CommitUnit, TypeOK, RowsAreDense, OneRunningPerScope
  <2>6. HandlesMatchRows'
    BY <1>9, <2>1, <2>2 DEF IInv, CommitUnit, TypeOK, RowsAreDense, HandlesMatchRows
  <2>7. ControlOK'
    <3>1. UNCHANGED <<status, want, run, todo>>
      BY <1>9 DEF CommitUnit
    <3>2. todo[w] # <<>>
      BY <1>9 DEF IInv, CommitUnit, ControlOK
    <3>3. /\ pc[w] = "writing" /\ pc'[w] \in {"looping", "counting"}
          /\ pc'[w] = "counting" => left'[w] = left[w]
          /\ \A v \in Workers \ {w} : pc'[v] = pc[v] /\ left'[v] = left[v]
      BY <1>9 DEF IInv, CommitUnit, TypeOK
    <3> QED BY <3>1, <3>2, <3>3 DEF IInv, ControlOK
  <2>8. LateOK'
    <3>1. UNCHANGED <<status, run, todo>> /\ pc[w] = "writing" /\ pc'[w] # "writing"
      BY <1>9 DEF IInv, CommitUnit, TypeOK
    <3>2. pc'[w] = "looping" => Stage(w) = "ai_entity_review"
      BY <1>9 DEF IInv, CommitUnit, TypeOK
    <3>3. \/ late'[w] = late[w]
          \/ late'[w] = late[w] + 1 /\ run[w] # 0 /\ ~Alive(w)
      BY <1>9, <2>1 DEF IInv, CommitUnit, TypeOK
    <3>4. late[w] \in Nat /\ (late[w] = 0 \/ Stage(w) = "ai_entity_review")
      BY <3>1 DEF IInv, TypeOK, LateOK
    <3>5. \A v \in Workers \ {w} : pc'[v] = pc[v] /\ late'[v] = late[v]
      BY <1>9 DEF IInv, CommitUnit, TypeOK
    <3> QED BY <3>1, <3>2, <3>3, <3>4, <3>5 DEF IInv, Stage, LateOK
  <2>9. CheckpointNamesGoodRun'
    BY <1>9, <2>1, <2>2 DEF IInv, CommitUnit, TypeOK, RowsAreDense, HandlesMatchRows, ControlOK, CheckpointNamesGoodRun
  <2> QED BY <2>3, <2>4, <2>5, <2>6, <2>7, <2>8, <2>9 DEF IInv
<1>10. ASSUME NEW w \in Workers, SkipUnit(w) PROVE IInv'
  <2>1. /\ run[w] \in RunIds /\ run[w] <= lastId /\ status[run[w]] # "none"
        /\ want[w] \in Jobs /\ want[w] = job[run[w]]
    BY <1>10, ServingFacts DEF SkipUnit
  <2>2. left[w] - 1 \in 0..MaxUnits \cup {1}
    BY <1>10, CountFacts DEF SkipUnit
  <2>3. TypeOK'
    <3>1. left' \in [Workers -> 0..MaxUnits \cup {1}]
      BY <1>10, <2>2 DEF IInv, SkipUnit, TypeOK
    <3> QED BY <1>10, <2>1, <3>1 DEF IInv, SkipUnit, TypeOK
  <2>4. RowsAreDense'
    BY <1>10, <2>1, <2>2 DEF IInv, SkipUnit, TypeOK, RowsAreDense
  <2>5. OneRunningPerScope'
    BY <1>10, <2>1, <2>2 DEF IInv, SkipUnit, TypeOK, RowsAreDense, OneRunningPerScope
  <2>6. HandlesMatchRows'
    BY <1>10, <2>1, <2>2 DEF IInv, SkipUnit, TypeOK, RowsAreDense, HandlesMatchRows
  <2>7. ControlOK'
    BY <1>10, <2>1, <2>2 DEF IInv, SkipUnit, TypeOK, HandlesMatchRows, ControlOK
  <2>8. LateOK'
    BY <1>10, <2>1, <2>2 DEF IInv, SkipUnit, LoopedStages, Stage, TypeOK, RowsAreDense, HandlesMatchRows, LateOK
  <2>9. CheckpointNamesGoodRun'
    BY <1>10, <2>1, <2>2 DEF IInv, SkipUnit, TypeOK, RowsAreDense, HandlesMatchRows, ControlOK, CheckpointNamesGoodRun
  <2> QED BY <2>3, <2>4, <2>5, <2>6, <2>7, <2>8, <2>9 DEF IInv
<1>11. ASSUME NEW w \in Workers, FailUnit(w) PROVE IInv'
  <2>1. TypeOK'
    BY <1>11 DEF IInv, FailUnit, TypeOK
  <2>2. RowsAreDense'
    BY <1>11 DEF IInv, FailUnit, TypeOK, RowsAreDense
  <2>3. OneRunningPerScope'
    BY <1>11 DEF IInv, FailUnit, TypeOK, RowsAreDense, OneRunningPerScope
  <2>4. HandlesMatchRows'
    BY <1>11 DEF IInv, FailUnit, TypeOK, RowsAreDense, HandlesMatchRows
  <2>5. ControlOK'
    BY <1>11 DEF IInv, FailUnit, TypeOK, HandlesMatchRows, ControlOK
  <2>6. LateOK'
    BY <1>11 DEF IInv, FailUnit, Stage, TypeOK, RowsAreDense, HandlesMatchRows, LateOK
  <2>7. CheckpointNamesGoodRun'
    BY <1>11 DEF IInv, FailUnit, TypeOK, RowsAreDense, HandlesMatchRows, ControlOK, CheckpointNamesGoodRun
  <2> QED BY <2>1, <2>2, <2>3, <2>4, <2>5, <2>6, <2>7 DEF IInv
<1>12. ASSUME NEW w \in Workers, CountUnit(w) PROVE IInv'
  <2>1. /\ run[w] \in RunIds /\ run[w] <= lastId /\ status[run[w]] # "none"
        /\ want[w] \in Jobs /\ want[w] = job[run[w]]
    BY <1>12, ServingFacts DEF CountUnit
  <2>2. left[w] - 1 \in 0..MaxUnits \cup {1}
    BY <1>12, CountFacts DEF CountUnit
  <2>3. TypeOK'
    BY <1>12, <2>1, <2>2 DEF IInv, CountUnit, TypeOK
  <2>4. RowsAreDense'
    BY <1>12, <2>1, <2>2 DEF IInv, CountUnit, TypeOK, RowsAreDense
  <2>5. OneRunningPerScope'
    BY <1>12, <2>1, <2>2 DEF IInv, CountUnit, TypeOK, RowsAreDense, OneRunningPerScope
  <2>6. HandlesMatchRows'
    BY <1>12, <2>1, <2>2 DEF IInv, CountUnit, TypeOK, RowsAreDense, HandlesMatchRows
  <2>7. ControlOK'
    BY <1>12, <2>1, <2>2 DEF IInv, CountUnit, TypeOK, HandlesMatchRows, ControlOK
  <2>8. LateOK'
    BY <1>12, <2>1, <2>2 DEF IInv, CountUnit, LoopedStages, Stage, TypeOK, RowsAreDense, HandlesMatchRows, LateOK
  <2>9. CheckpointNamesGoodRun'
    BY <1>12, <2>1, <2>2 DEF IInv, CountUnit, TypeOK, RowsAreDense, HandlesMatchRows, ControlOK, CheckpointNamesGoodRun
  <2> QED BY <2>3, <2>4, <2>5, <2>6, <2>7, <2>8, <2>9 DEF IInv
<1>13. ASSUME NEW w \in Workers, RecordFailure(w) PROVE IInv'
  <2>1. /\ run[w] \in RunIds /\ run[w] <= lastId /\ status[run[w]] # "none"
        /\ want[w] \in Jobs /\ want[w] = job[run[w]]
    BY <1>13, ServingFacts DEF RecordFailure
  <2>2. left[w] - 1 \in 0..MaxUnits \cup {1}
    BY <1>13, CountFacts DEF RecordFailure
  <2>3. TypeOK'
    <3>1. left' \in [Workers -> 0..MaxUnits \cup {1}]
      BY <1>13, <2>2 DEF IInv, RecordFailure, TypeOK
    <3> QED BY <1>13, <2>1, <3>1 DEF IInv, RecordFailure, TypeOK
  <2>4. RowsAreDense'
    BY <1>13, <2>1, <2>2 DEF IInv, RecordFailure, TypeOK, RowsAreDense
  <2>5. OneRunningPerScope'
    BY <1>13, <2>1, <2>2 DEF IInv, RecordFailure, TypeOK, RowsAreDense, OneRunningPerScope
  <2>6. HandlesMatchRows'
    BY <1>13, <2>1, <2>2 DEF IInv, RecordFailure, TypeOK, RowsAreDense, HandlesMatchRows
  <2>7. ControlOK'
    BY <1>13, <2>1, <2>2 DEF IInv, RecordFailure, TypeOK, HandlesMatchRows, ControlOK
  <2>8. LateOK'
    BY <1>13, <2>1, <2>2 DEF IInv, RecordFailure, Stage, TypeOK, RowsAreDense, HandlesMatchRows, LateOK
  <2>9. CheckpointNamesGoodRun'
    BY <1>13, <2>1, <2>2 DEF IInv, RecordFailure, TypeOK, RowsAreDense, HandlesMatchRows, ControlOK, CheckpointNamesGoodRun
  <2> QED BY <2>3, <2>4, <2>5, <2>6, <2>7, <2>8, <2>9 DEF IInv
<1>14. ASSUME NEW w \in Workers, EndStage(w) PROVE IInv'
  <2>1. /\ run[w] \in RunIds /\ run[w] <= lastId /\ status[run[w]] # "none"
        /\ want[w] \in Jobs /\ want[w] = job[run[w]]
    BY <1>14, ServingFacts DEF EndStage
  <2>2. /\ Stage(w) \in Stages /\ Tail(todo[w]) \in Seq(Stages)
        /\ Len(todo[w]) # 1 => Tail(todo[w]) # <<>>
    BY <1>14, StageFacts DEF EndStage
  <2>3. TypeOK'
    BY <1>14, <2>1, <2>2 DEF IInv, EndStage, TypeOK
  <2>4. RowsAreDense'
    BY <1>14, <2>1, <2>2 DEF IInv, EndStage, TypeOK, RowsAreDense
  <2>5. OneRunningPerScope'
    BY <1>14, <2>1, <2>2 DEF IInv, EndStage, TypeOK, RowsAreDense, OneRunningPerScope
  <2>6. HandlesMatchRows'
    BY <1>14, <2>1, <2>2 DEF IInv, EndStage, TypeOK, RowsAreDense, HandlesMatchRows
  <2>7. ControlOK'
    BY <1>14, <2>1, <2>2 DEF IInv, EndStage, TypeOK, HandlesMatchRows, ControlOK
  <2>8. LateOK'
    BY <1>14, <2>1, <2>2 DEF IInv, EndStage, LoopedStages, Stage, TypeOK, RowsAreDense, HandlesMatchRows, LateOK
  <2>9. CheckpointNamesGoodRun'
    BY <1>14, <2>1, <2>2 DEF IInv, EndStage, TypeOK, RowsAreDense, HandlesMatchRows, ControlOK, CheckpointNamesGoodRun
  <2> QED BY <2>3, <2>4, <2>5, <2>6, <2>7, <2>8, <2>9 DEF IInv
<1>15. ASSUME NEW w \in Workers, StoppedByFence(w) PROVE IInv'
  <2>1. TypeOK'
    BY <1>15 DEF IInv, StoppedByFence, AtFence, LockIsTaken, TypeOK
  <2>2. RowsAreDense'
    BY <1>15 DEF IInv, StoppedByFence, AtFence, LockIsTaken, TypeOK, RowsAreDense
  <2>3. OneRunningPerScope'
    BY <1>15 DEF IInv, StoppedByFence, AtFence, LockIsTaken, TypeOK, RowsAreDense, OneRunningPerScope
  <2>4. HandlesMatchRows'
    BY <1>15 DEF IInv, StoppedByFence, AtFence, LockIsTaken, TypeOK, RowsAreDense, HandlesMatchRows
  <2>5. ControlOK'
    BY <1>15 DEF IInv, StoppedByFence, AtFence, LockIsTaken, TypeOK, HandlesMatchRows, ControlOK
  <2>6. LateOK'
    BY <1>15 DEF IInv, StoppedByFence, Stage, AtFence, LockIsTaken, TypeOK, RowsAreDense, HandlesMatchRows, LateOK
  <2>7. CheckpointNamesGoodRun'
    BY <1>15 DEF IInv, StoppedByFence, AtFence, LockIsTaken, TypeOK, RowsAreDense, HandlesMatchRows, ControlOK, CheckpointNamesGoodRun
  <2> QED BY <2>1, <2>2, <2>3, <2>4, <2>5, <2>6, <2>7 DEF IInv
<1>16. ASSUME NEW w \in Workers, StageRaises(w) PROVE IInv'
  <2>1. TypeOK'
    BY <1>16 DEF IInv, StageRaises, TypeOK
  <2>2. RowsAreDense'
    BY <1>16 DEF IInv, StageRaises, TypeOK, RowsAreDense
  <2>3. OneRunningPerScope'
    BY <1>16 DEF IInv, StageRaises, TypeOK, RowsAreDense, OneRunningPerScope
  <2>4. HandlesMatchRows'
    BY <1>16 DEF IInv, StageRaises, TypeOK, RowsAreDense, HandlesMatchRows
  <2>5. ControlOK'
    BY <1>16 DEF IInv, StageRaises, TypeOK, HandlesMatchRows, ControlOK
  <2>6. LateOK'
    BY <1>16 DEF IInv, StageRaises, Stage, TypeOK, RowsAreDense, HandlesMatchRows, LateOK
  <2>7. CheckpointNamesGoodRun'
    BY <1>16 DEF IInv, StageRaises, TypeOK, RowsAreDense, HandlesMatchRows, ControlOK, CheckpointNamesGoodRun
  <2> QED BY <2>1, <2>2, <2>3, <2>4, <2>5, <2>6, <2>7 DEF IInv
<1>17. ASSUME NEW w \in Workers, FinishRun(w) PROVE IInv'
  <2>1. /\ run[w] \in RunIds /\ run[w] <= lastId /\ status[run[w]] # "none"
        /\ want[w] \in Jobs /\ want[w] = job[run[w]]
    BY <1>17, ServingFacts DEF FinishRun
  <2>2. /\ Outcome(w) \in Statuses /\ Outcome(w) # "running" /\ Outcome(w) # "none"
        /\ ~Alive(w) => Outcome(w) = status[run[w]]
    BY <1>17, <2>1, OutcomeFacts DEF IInv, TypeOK
  <2>3. TypeOK'
    <3>1. status' \in [RunIds -> Statuses]
      BY <1>17, <2>2 DEF IInv, FinishRun, TypeOK
    <3>2. CASE pc' = [pc EXCEPT ![w] = "checkpointing"] /\ UNCHANGED handles
      BY <1>17, <3>1, <3>2 DEF IInv, FinishRun, TypeOK
    <3>3. CASE Forget(w)
      BY <1>17, <3>1, <3>3 DEF IInv, FinishRun, TypeOK
    <3> QED BY <1>17, <3>2, <3>3 DEF FinishRun
  <2>4. RowsAreDense'
    BY <1>17, <2>1, <2>2 DEF IInv, FinishRun, TypeOK, RowsAreDense
  <2>5. OneRunningPerScope'
    BY <1>17, <2>1, <2>2 DEF IInv, FinishRun, TypeOK, RowsAreDense, OneRunningPerScope
  <2>6. HandlesMatchRows'
    <3>1. \A r \in RunIds : status'[r] = "none" <=> status[r] = "none"
      BY <1>17, <2>1, <2>2 DEF IInv, FinishRun, TypeOK
    <3>2. CASE pc' = [pc EXCEPT ![w] = "checkpointing"] /\ UNCHANGED handles
      BY <1>17, <2>1, <3>1, <3>2 DEF IInv, FinishRun, TypeOK, HandlesMatchRows
    <3>3. CASE Forget(w)
      BY <1>17, <2>1, <3>1, <3>3 DEF IInv, FinishRun, TypeOK, HandlesMatchRows
    <3> QED BY <1>17, <3>2, <3>3 DEF FinishRun
  <2>7. ControlOK'
    <3>1. /\ status' = [status EXCEPT ![run[w]] = Outcome(w)] /\ pc[w] = "finishing"
          /\ UNCHANGED <<job, lastId>>
      BY <1>17 DEF FinishRun
    <3>2. \A v \in Workers \ {w} :
            /\ pc'[v] = pc[v] /\ todo'[v] = todo[v] /\ left'[v] = left[v]
            /\ want'[v] = want[v] /\ run'[v] = run[v]
      BY <1>17 DEF IInv, FinishRun, TypeOK
    <3>3. \A v \in Workers \ {w} : pc[v] = "checkpointing" => status'[run[v]] = status[run[v]]
      BY <2>1, <2>2, <3>1 DEF IInv, TypeOK, ControlOK, HandlesMatchRows
    <3>4. \/ pc'[w] = "idle"
          \/ /\ pc'[w] = "checkpointing" /\ want'[w].kind = "regular"
             /\ status'[run'[w]] \in Completed
      BY <1>17, <2>1, <3>1 DEF IInv, FinishRun, TypeOK
    <3> QED BY <3>2, <3>3, <3>4 DEF IInv, ControlOK
  <2>8. LateOK'
    <3>1. \A v \in Workers : run[v] # 0 /\ ~Alive(v) => status'[run[v]] # "running"
      BY <1>17, <2>1, <2>2 DEF IInv, FinishRun, TypeOK, HandlesMatchRows
    <3>2. CASE pc' = [pc EXCEPT ![w] = "checkpointing"] /\ UNCHANGED handles
      BY <1>17, <3>1, <3>2 DEF IInv, FinishRun, Stage, TypeOK, LateOK
    <3>3. CASE Forget(w)
      BY <1>17, <3>1, <3>3 DEF IInv, FinishRun, Stage, TypeOK, LateOK
    <3> QED BY <1>17, <3>2, <3>3 DEF FinishRun
  <2>9. CheckpointNamesGoodRun'
    BY <1>17, <2>1, <2>2 DEF IInv, FinishRun, TypeOK, RowsAreDense, HandlesMatchRows, ControlOK, CheckpointNamesGoodRun
  <2> QED BY <2>3, <2>4, <2>5, <2>6, <2>7, <2>8, <2>9 DEF IInv
<1>18. ASSUME NEW w \in Workers, UpdateCheckpoint(w) PROVE IInv'
  <2>1. /\ run[w] \in RunIds /\ run[w] <= lastId /\ status[run[w]] # "none"
        /\ want[w] \in Jobs /\ want[w] = job[run[w]]
    BY <1>18, ServingFacts DEF UpdateCheckpoint
  <2>2. want[w].scope \in Sources
    BY <1>18, <2>1, JobFacts DEF IInv, ControlOK, UpdateCheckpoint
  <2>3. TypeOK'
    BY <1>18, <2>1, <2>2 DEF IInv, UpdateCheckpoint, TypeOK
  <2>4. RowsAreDense'
    BY <1>18, <2>1, <2>2 DEF IInv, UpdateCheckpoint, TypeOK, RowsAreDense
  <2>5. OneRunningPerScope'
    BY <1>18, <2>1, <2>2 DEF IInv, UpdateCheckpoint, TypeOK, RowsAreDense, OneRunningPerScope
  <2>6. HandlesMatchRows'
    BY <1>18, <2>1, <2>2 DEF IInv, UpdateCheckpoint, TypeOK, RowsAreDense, HandlesMatchRows
  <2>7. ControlOK'
    BY <1>18, <2>1, <2>2 DEF IInv, UpdateCheckpoint, TypeOK, HandlesMatchRows, ControlOK
  <2>8. LateOK'
    BY <1>18, <2>1, <2>2 DEF IInv, UpdateCheckpoint, Stage, TypeOK, RowsAreDense, HandlesMatchRows, LateOK
  <2>9. CheckpointNamesGoodRun'
    BY <1>18, <2>1, <2>2 DEF IInv, UpdateCheckpoint, TypeOK, RowsAreDense, HandlesMatchRows, ControlOK, CheckpointNamesGoodRun
  <2> QED BY <2>3, <2>4, <2>5, <2>6, <2>7, <2>8, <2>9 DEF IInv
<1>19. ASSUME NEW w \in Workers, Crash(w) PROVE IInv'
  <2>1. TypeOK'
    BY <1>19 DEF IInv, Crash, TypeOK
  <2>2. RowsAreDense'
    BY <1>19 DEF IInv, Crash, TypeOK, RowsAreDense
  <2>3. OneRunningPerScope'
    BY <1>19 DEF IInv, Crash, TypeOK, RowsAreDense, OneRunningPerScope
  <2>4. HandlesMatchRows'
    BY <1>19 DEF IInv, Crash, TypeOK, RowsAreDense, HandlesMatchRows
  <2>5. ControlOK'
    BY <1>19 DEF IInv, Crash, TypeOK, HandlesMatchRows, ControlOK
  <2>6. LateOK'
    BY <1>19 DEF IInv, Crash, Stage, TypeOK, RowsAreDense, HandlesMatchRows, LateOK
  <2>7. CheckpointNamesGoodRun'
    BY <1>19 DEF IInv, Crash, TypeOK, RowsAreDense, HandlesMatchRows, ControlOK, CheckpointNamesGoodRun
  <2> QED BY <2>1, <2>2, <2>3, <2>4, <2>5, <2>6, <2>7 DEF IInv
<1>20. CASE UNCHANGED vars
  BY <1>20 DEF IInv, TypeOK, RowsAreDense, OneRunningPerScope, HandlesMatchRows, ControlOK,
             LateOK, CheckpointNamesGoodRun, vars, Stage
<1> QED BY <1>1, <1>2, <1>3, <1>4, <1>5, <1>6, <1>7, <1>8, <1>9, <1>10, <1>11, <1>12, <1>13, <1>14, <1>15, <1>16, <1>17, <1>18, <1>19, <1>20 DEF Next, Progress

-----------------------------------------------------------------------------
\* Every reachable state satisfies the inductive invariant.
THEOREM Invariance == Spec => []IInv
<1>1. Init => IInv
  BY InitInv
<1>2. IInv /\ [Next]_vars => IInv'
  BY StepInv
<1> QED BY <1>1, <1>2, PTL DEF Spec

\* Every variable keeps its type, however many workers, sources and runs.
THEOREM TypeCorrect == Spec => []TypeOK
<1>1. IInv => TypeOK
  BY DEF IInv
<1> QED BY <1>1, Invariance, PTL

\* Two workers whose runs are both running never work in the same scope: the
\* unique index of monitoring_runs, carried over to the processes.
THEOREM LiveApart == Spec => []LiveWorkersApart
<1>1. ASSUME IInv PROVE LiveWorkersApart
  <2> SUFFICES ASSUME NEW v \in Workers, NEW w \in Workers,
                      v # w, run[v] # 0, run[w] # 0, Alive(v), Alive(w)
               PROVE  job[run[v]].scope # job[run[w]].scope
    BY DEF LiveWorkersApart
  <2>1. run[v] \in RunIds /\ run[w] \in RunIds /\ run[v] # run[w]
    BY <1>1 DEF IInv, TypeOK, HandlesMatchRows
  <2> QED BY <1>1, <2>1 DEF IInv, OneRunningPerScope, Alive
<1> QED BY <1>1, Invariance, PTL

\* The fence of _update_running: a worker whose run ended under it commits one
\* unit more at most, unless that stage is the AI review.
THEOREM Fenced == Spec => []FencedWithinOneUnit
<1>1. IInv => FencedWithinOneUnit
  BY DEF IInv, LateOK, FencedWithinOneUnit
<1> QED BY <1>1, Invariance, PTL

\* A source's checkpoint names a completed regular run of that source.
THEOREM CheckpointGood == Spec => []CheckpointNamesGoodRun
<1>1. IInv => CheckpointNamesGoodRun
  BY DEF IInv
<1> QED BY <1>1, Invariance, PTL

\* No write of a worker changes the status, the failure mark or the stage
\* metrics of a row that has ended.
THEOREM Frozen == Spec => EndedRunsFrozen
<1> DEFINE Kept == \A r \in RunIds : status[r] \in Terminal =>
                     /\ status'[r] = status[r]
                     /\ hasErrors'[r] = hasErrors[r]
                     /\ metrics'[r] = metrics[r] /\ progress'[r] = progress[r]
<1>1. ASSUME IInv, [Next]_vars PROVE [Kept]_vars
  <2> USE DEF Kept
  <2>1. TypeOK /\ RowsAreDense
    BY <1>1 DEF IInv
  <2> USE DEF Alive, Beat, Terminal, Completed
  <2>2. ASSUME NEW r \in RunIds, GrowStale(r) PROVE Kept
    BY <2>2 DEF GrowStale
  <2>3. ASSUME NEW w \in Workers, NEW j \in Requests, AbortStaleRuns(w, j) PROVE Kept
    BY <2>1, <2>3 DEF AbortStaleRuns, TypeOK
  <2>4. ASSUME NEW w \in Workers, InsertRun(w) PROVE Kept
    <3>1. lastId \in Nat /\ lastId + 1 \in RunIds
      BY <2>1, <2>4, BoundsAssumption DEF InsertRun, TypeOK, RunIds
    <3>2. status[lastId + 1] = "none"
      BY <2>1, <3>1 DEF RowsAreDense
    <3> QED BY <2>1, <2>4, <3>1, <3>2 DEF InsertRun, TypeOK
  <2>5. ASSUME NEW w \in Workers, EndStage(w) PROVE Kept
    BY <2>1, <2>5 DEF EndStage, TypeOK
  <2>6. ASSUME NEW w \in Workers, RecordFailure(w) \/ BeginUnit(w) PROVE Kept
    <3>1. CASE RecordFailure(w)
      BY <2>1, <3>1 DEF RecordFailure, TypeOK
    <3>2. CASE BeginUnit(w)
      <4>1. Stage(w) = "resolution" => Alive(w)
        BY <3>2 DEF BeginUnit, LoopedStages
      <4> QED BY <2>1, <3>2, <4>1 DEF BeginUnit, TypeOK
    <3> QED BY <2>6, <3>1, <3>2
  <2>7. ASSUME NEW w \in Workers, FinishRun(w) PROVE Kept
    <3>1. run[w] \in RunIds
      BY <1>1, <2>7, ServingFacts DEF FinishRun, HasRun
    <3>2. ~Alive(w) => Outcome(w) = status[run[w]]
      BY <2>1, <3>1, OutcomeFacts
    <3> QED BY <2>1, <2>7, <3>1, <3>2 DEF FinishRun, TypeOK
  <2>8. ASSUME NEW w \in Workers,
               AlreadyRunning(w) \/ EnterStage(w) \/ BeatWhileWaiting(w) \/ FenceStage(w)
                 \/ CommitUnit(w) \/ SkipUnit(w) \/ FailUnit(w) \/ CountUnit(w)
                 \/ StoppedByFence(w) \/ StageRaises(w) \/ UpdateCheckpoint(w) \/ Crash(w)
        PROVE  UNCHANGED <<status, hasErrors, metrics, progress>>
    BY <2>8 DEF AlreadyRunning, EnterStage, BeatWhileWaiting, FenceStage, CommitUnit,
                SkipUnit, FailUnit, CountUnit, StoppedByFence, StageRaises, UpdateCheckpoint,
                Crash, rows, Forget, Goto
  <2> HIDE DEF Kept
  <2>9. UNCHANGED <<status, hasErrors, metrics, progress>> => Kept
    BY DEF Kept
  <2> QED BY <1>1, <2>2, <2>3, <2>4, <2>5, <2>6, <2>7, <2>8, <2>9 DEF Next, Progress
<1> QED BY <1>1, Invariance, PTL DEF Spec, EndedRunsFrozen

------------------------------------------------------------------------------
(* The locks of the derived stages.                                        *)

\* A step that moves no worker into or out of a stage, and no lock.
LEMMA SameStages ==
  ASSUME LockHeldExactlyInside, UNCHANGED lock,
         \A v \in Workers : /\ pc'[v] \in InStage <=> pc[v] \in InStage
                            /\ pc[v] \in InStage => todo'[v] = todo[v]
  PROVE  LockHeldExactlyInside'
BY DEF LockHeldExactlyInside, Stage, InStage

\* A step of w that leaves a stage, or the whole run, and lets go of its locks.
LEMMA LeavesStage ==
  ASSUME LockHeldExactlyInside, NEW w \in Workers, Release(w), pc'[w] \notin InStage,
         \A v \in Workers \ {w} : pc'[v] = pc[v] /\ todo'[v] = todo[v]
  PROVE  LockHeldExactlyInside'
BY NamesAssumption DEF LockHeldExactlyInside, Stage, InStage, Release

LEMMA LockInit == Init => LockHeldExactlyInside
<1> SUFFICES ASSUME Init, NEW g \in LockedStages, NEW w \in Workers
             PROVE  lock[g] # w /\ pc[w] \notin InStage
  BY DEF LockHeldExactlyInside, InStage
<1>1. lock[g] = NoWorker /\ pc[w] = "idle"
  BY DEF Init
<1> QED BY <1>1, NamesAssumption DEF InStage

LEMMA LockStep ==
  ASSUME IInv, LockHeldExactlyInside, [Next]_vars
  PROVE  LockHeldExactlyInside'
<1> USE DEF Goto, Forget, InStage
<1>1. TypeOK
  BY DEF IInv
<1>2. ASSUME NEW w \in Workers, EnterStage(w) PROVE LockHeldExactlyInside'
  <2>1. /\ pc[w] = "entering" /\ UNCHANGED todo
        /\ pc' = [pc EXCEPT ![w] = "fencing"]
    BY <1>2 DEF EnterStage, handles
  <2>2. CASE Stage(w) \notin LockedStages /\ UNCHANGED lock
    BY <1>1, <2>1, <2>2 DEF LockHeldExactlyInside, Stage, TypeOK
  <2>3. CASE /\ Stage(w) \in LockedStages /\ lock[Stage(w)] = NoWorker
             /\ lock' = [lock EXCEPT ![Stage(w)] = w]
    BY <1>1, <2>1, <2>3, NamesAssumption DEF LockHeldExactlyInside, Stage, TypeOK
  <2> QED BY <1>2, <2>2, <2>3 DEF EnterStage
<1>3. ASSUME NEW w \in Workers,
             EndStage(w) \/ StoppedByFence(w) \/ StageRaises(w) \/ Crash(w)
      PROVE  LockHeldExactlyInside'
  <2>1. /\ Release(w) /\ pc'[w] \notin InStage
        /\ \A v \in Workers \ {w} : pc'[v] = pc[v] /\ todo'[v] = todo[v]
    BY <1>3, <1>1 DEF EndStage, StoppedByFence, StageRaises, Crash, TypeOK, handles
  <2> QED BY <2>1, LeavesStage
<1>4. ASSUME NEW w \in Workers,
             \/ InsertRun(w) \/ AlreadyRunning(w) \/ FinishRun(w) \/ UpdateCheckpoint(w)
             \/ \E j \in Requests : AbortStaleRuns(w, j)
      PROVE  LockHeldExactlyInside'
  <2>1. /\ UNCHANGED lock
        /\ pc[w] \notin InStage /\ pc'[w] \notin InStage
        /\ \A v \in Workers \ {w} : pc'[v] = pc[v] /\ todo'[v] = todo[v]
    BY <1>4, <1>1 DEF InsertRun, AlreadyRunning, FinishRun, UpdateCheckpoint, AbortStaleRuns,
                      TypeOK, handles
  <2> QED BY <2>1, SameStages
<1>5. ASSUME NEW w \in Workers,
             \/ FenceStage(w) \/ BeginUnit(w) \/ CommitUnit(w) \/ SkipUnit(w) \/ FailUnit(w)
             \/ CountUnit(w) \/ RecordFailure(w)
      PROVE  LockHeldExactlyInside'
  <2>1. /\ UNCHANGED <<lock, todo>>
        /\ pc[w] \in InStage /\ pc'[w] \in InStage
        /\ \A v \in Workers \ {w} : pc'[v] = pc[v]
    BY <1>5, <1>1 DEF FenceStage, BeginUnit, CommitUnit, SkipUnit, FailUnit, CountUnit,
                      RecordFailure, TypeOK, handles
  <2> QED BY <2>1, SameStages
<1>6. CASE \/ \E r \in RunIds : GrowStale(r)
           \/ \E w \in Workers : BeatWhileWaiting(w)
           \/ UNCHANGED vars
  BY <1>6, SameStages DEF GrowStale, BeatWhileWaiting, vars, handles
<1> QED BY <1>2, <1>3, <1>4, <1>5, <1>6 DEF Next, Progress

\* The lock of a derived stage is held by a worker exactly while it is in that stage:
\* advisory_lock releases on every way out of its `with` block, and with a connection.
THEOREM LocksRight == Spec => []LockHeldExactlyInside
<1>1. Init => LockHeldExactlyInside
  BY LockInit
<1>2. IInv /\ LockHeldExactlyInside /\ [Next]_vars => LockHeldExactlyInside'
  BY LockStep
<1> QED BY <1>1, <1>2, Invariance, PTL DEF Spec

-----------------------------------------------------------------------------
(* A run that completed is whole.                                          *)

Among(s) == {s[i] : i \in 1..Len(s)}

\* A row nobody inserted yet is blank.
FreshRowsBlank ==
  \A r \in RunIds :
    status[r] = "none" => metrics[r] = {} /\ progress[r] = {} /\ ~hasErrors[r]

\* A stage shows as under way only while its worker is in it, or after it raised there.
ShowsProgress(w) ==
  \/ progress[run[w]] = {}
  \/ pc[w] \in InStage /\ progress[run[w]] = {Stage(w)}
  \/ pc[w] = "finishing" /\ raised[w]

\* While its run is running, what a worker ended and what it has left make up the plan;
\* it gets to the end without an exception only with nothing left.
PlanIsKept ==
  \A w \in Workers : run[w] # 0 /\ status[run[w]] = "running" =>
    /\ metrics[run[w]] \cup Among(todo[w]) = Among(job[run[w]].plan)
    /\ pc[w] = "finishing" /\ ~raised[w] => todo[w] = <<>>
    /\ ShowsProgress(w)

WholeInv == FreshRowsBlank /\ PlanIsKept /\ CompletedMeansWhole

\* The first stage of a list, and the others.
LEMMA AmongFacts ==
  ASSUME NEW s \in Seq(Stages), s # <<>>
  PROVE  /\ Among(s) = {Head(s)} \cup Among(Tail(s))
         /\ Len(s) = 1 => Tail(s) = <<>>
<1>1. /\ Len(s) \in Nat \ {0} /\ Head(s) = s[1] /\ Tail(s) \in Seq(Stages)
      /\ Len(Tail(s)) = Len(s) - 1
      /\ \A i \in 1..Len(s) - 1 : Tail(s)[i] = s[i + 1]
  BY HeadTailProperties, EmptySeq
<1>2. ASSUME NEW x \in Among(s) PROVE x \in {Head(s)} \cup Among(Tail(s))
  <2>1. PICK i \in 1..Len(s) : x = s[i]
    BY <1>2 DEF Among
  <2>2. CASE i = 1
    BY <1>1, <2>1, <2>2
  <2>3. CASE i # 1
    <3>1. i - 1 \in 1..Len(s) - 1 /\ i = (i - 1) + 1
      BY <1>1, <2>1, <2>3
    <3>2. Tail(s)[i - 1] = x
      BY <1>1, <2>1, <3>1
    <3> QED BY <1>1, <3>1, <3>2 DEF Among
  <2> QED BY <2>2, <2>3
<1>3. ASSUME NEW x \in Among(Tail(s)) PROVE x \in Among(s)
  <2>1. PICK i \in 1..Len(s) - 1 : x = Tail(s)[i]
    BY <1>1, <1>3 DEF Among
  <2>2. i + 1 \in 1..Len(s) /\ x = s[i + 1]
    BY <1>1, <2>1
  <2> QED BY <2>2 DEF Among
<1>4. Head(s) \in Among(s)
  BY <1>1 DEF Among
<1>5. ASSUME Len(s) = 1 PROVE Tail(s) = <<>>
  <2>1. Len(Tail(s)) = 0
    BY <1>1, <1>5
  <2> QED BY <1>1, <2>1, EmptySeq
<1> QED BY <1>2, <1>3, <1>4, <1>5

LEMMA AmongNone == Among(<<>>) = {}
BY DEF Among

LEMMA WholeInit == Init => WholeInv
BY DEF Init, WholeInv, FreshRowsBlank, PlanIsKept, CompletedMeansWhole, Completed

\* A step of w that rewrites no row, and keeps its stages or forgets its run.
LEMMA SamePlan ==
  ASSUME IInv, WholeInv, UNCHANGED <<metrics, progress, hasErrors>>,
         \A r \in RunIds : /\ status'[r] = status[r] \/ status'[r] = "aborted"
                           /\ status[r] = "none" <=> status'[r] = "none"
                           /\ status[r] # "none" => job'[r] = job[r],
         \A v \in Workers :
           \/ run'[v] = 0
           \/ /\ run'[v] = run[v] /\ todo'[v] = todo[v]
              /\ \/ pc'[v] = pc[v] /\ raised'[v] = raised[v]
                 \/ pc[v] # "finishing" /\ pc'[v] \in InStage
                 \/ pc'[v] = "finishing" /\ (raised'[v] \/ status[run[v]] # "running")
  PROVE  WholeInv'
<1>1. FreshRowsBlank'
  BY DEF WholeInv, FreshRowsBlank
<1>2. PlanIsKept'
  <2> SUFFICES ASSUME NEW v \in Workers, run'[v] # 0, status'[run'[v]] = "running"
               PROVE  /\ metrics'[run'[v]] \cup Among(todo'[v]) = Among(job'[run'[v]].plan)
                      /\ pc'[v] = "finishing" /\ ~raised'[v] => todo'[v] = <<>>
                      /\ ShowsProgress(v)'
    BY DEF PlanIsKept, Among
  <2>1. run[v] \in RunIds /\ run'[v] = run[v] /\ todo'[v] = todo[v]
    BY DEF IInv, TypeOK
  <2>2. status[run[v]] = "running" /\ job'[run[v]] = job[run[v]]
    BY <2>1
  <2>3. ShowsProgress(v)
    BY <2>1, <2>2 DEF WholeInv, PlanIsKept
  <2>4. ShowsProgress(v)'
    BY <2>1, <2>2, <2>3 DEF ShowsProgress, Stage, InStage
  <2>5. pc'[v] = "finishing" /\ ~raised'[v] => todo'[v] = <<>>
    BY <2>1, <2>2 DEF WholeInv, PlanIsKept, InStage
  <2> QED BY <2>1, <2>2, <2>4, <2>5 DEF WholeInv, PlanIsKept
<1>3. CompletedMeansWhole'
  BY DEF WholeInv, CompletedMeansWhole, Completed
<1> QED BY <1>1, <1>2, <1>3 DEF WholeInv

LEMMA WholeStep ==
  ASSUME IInv, WholeInv, [Next]_vars
  PROVE  WholeInv'
<1>1. TypeOK /\ RowsAreDense /\ HandlesMatchRows
  BY DEF IInv
<1> USE DEF Alive, Goto
<1>2. ASSUME NEW w \in Workers, InsertRun(w) PROVE WholeInv'
  <2> DEFINE r == lastId + 1
  <2>1. /\ r \in RunIds /\ status[r] = "none" /\ run[w] = 0
        /\ status' = [status EXCEPT ![r] = "running"]
        /\ job' = [job EXCEPT ![r] = want[w]]
        /\ run' = [run EXCEPT ![w] = r] /\ todo' = [todo EXCEPT ![w] = want[w].plan]
        /\ pc' = [pc EXCEPT ![w] = "entering"]
        /\ UNCHANGED <<metrics, progress, hasErrors, raised>>
    <3>1. r \in RunIds
      BY <1>2, <1>1, BoundsAssumption DEF InsertRun, TypeOK, RunIds
    <3>2. r \in RunIds /\ run[w] = 0
      BY <1>2, <1>1, <3>1 DEF InsertRun, HandlesMatchRows, HasRun, InStage
    <3>3. status[r] = "none"
      BY <1>1, <3>2, BoundsAssumption DEF RowsAreDense, TypeOK, RunIds
    <3> QED BY <1>2, <3>2, <3>3 DEF InsertRun
  <2> HIDE DEF r
  <2>2. metrics[r] = {} /\ progress[r] = {}
    BY <2>1 DEF WholeInv, FreshRowsBlank
  <2>3. FreshRowsBlank'
    BY <1>1, <2>1 DEF WholeInv, FreshRowsBlank, TypeOK
  <2>4. PlanIsKept'
    <3> SUFFICES ASSUME NEW v \in Workers, run'[v] # 0, status'[run'[v]] = "running"
                 PROVE  /\ metrics'[run'[v]] \cup Among(todo'[v]) = Among(job'[run'[v]].plan)
                        /\ pc'[v] = "finishing" /\ ~raised'[v] => todo'[v] = <<>>
                        /\ ShowsProgress(v)'
      BY DEF PlanIsKept, Among
    <3>1. CASE v = w
      BY <1>1, <2>1, <2>2, <3>1 DEF TypeOK, ShowsProgress
    <3>2. CASE v # w
      <4>1. /\ run'[v] = run[v] /\ todo'[v] = todo[v] /\ pc'[v] = pc[v]
            /\ run[v] \in RunIds /\ status[run[v]] # "none"
        BY <1>1, <2>1, <3>2 DEF TypeOK, HandlesMatchRows
      <4>2. run[v] # r
        BY <2>1, <4>1
      <4>3. job'[run[v]] = job[run[v]] /\ status[run[v]] = "running"
        BY <1>1, <2>1, <4>1, <4>2 DEF TypeOK
      <4>4. ShowsProgress(v)'
        BY <2>1, <4>1, <4>3 DEF WholeInv, PlanIsKept, ShowsProgress, Stage
      <4> QED BY <2>1, <4>1, <4>3, <4>4 DEF WholeInv, PlanIsKept
    <3> QED BY <3>1, <3>2
  <2>5. CompletedMeansWhole'
    <3>1. ASSUME NEW q \in RunIds, status'[q] \in Completed
          PROVE  status[q] = status'[q] /\ job'[q] = job[q]
      BY <1>1, <2>1, <3>1 DEF TypeOK, Completed
    <3> QED BY <2>1, <3>1 DEF WholeInv, CompletedMeansWhole
  <2> QED BY <2>3, <2>4, <2>5 DEF WholeInv
<1>3. ASSUME NEW w \in Workers, RecordFailure(w) PROVE WholeInv'
  <2>1. run[w] \in RunIds
    BY <1>3, ServingFacts DEF RecordFailure, HasRun, InStage
  <2>2. /\ status[run[w]] = "running"
        /\ hasErrors' = [hasErrors EXCEPT ![run[w]] = TRUE]
        /\ UNCHANGED <<status, job, metrics, progress, run, todo, raised>>
        /\ \A v \in Workers : pc'[v] = pc[v] \/ (pc[v] \in InStage /\ pc'[v] \in InStage)
    BY <1>3, <1>1 DEF RecordFailure, Beat, TypeOK, InStage
  <2>3. \A q \in RunIds : status[q] # "running" => hasErrors'[q] = hasErrors[q]
    BY <1>1, <2>1, <2>2 DEF TypeOK
  <2>4. FreshRowsBlank'
    BY <2>2, <2>3 DEF WholeInv, FreshRowsBlank
  <2>5. PlanIsKept'
    <3> SUFFICES ASSUME NEW v \in Workers, run'[v] # 0, status'[run'[v]] = "running"
                 PROVE  /\ metrics'[run'[v]] \cup Among(todo'[v]) = Among(job'[run'[v]].plan)
                        /\ pc'[v] = "finishing" /\ ~raised'[v] => todo'[v] = <<>>
                        /\ ShowsProgress(v)'
      BY DEF PlanIsKept, Among
    <3>1. run[v] # 0 /\ status[run[v]] = "running"
      BY <2>2
    <3>2. ShowsProgress(v)
      BY <3>1 DEF WholeInv, PlanIsKept
    <3>3. ShowsProgress(v)'
      BY <2>2, <3>2 DEF ShowsProgress, Stage, InStage
    <3> QED BY <2>2, <3>1, <3>3 DEF WholeInv, PlanIsKept, InStage
  <2>6. CompletedMeansWhole'
    BY <2>2, <2>3 DEF WholeInv, CompletedMeansWhole, Completed
  <2> QED BY <2>4, <2>5, <2>6 DEF WholeInv
<1>4. ASSUME NEW w \in Workers, EndStage(w) PROVE WholeInv'
  <2>1. run[w] \in RunIds /\ run[w] # 0
    BY <1>4, ServingFacts, <1>1 DEF EndStage, HasRun, InStage, HandlesMatchRows
  <2>2. /\ status[run[w]] = "running"
        /\ metrics' = [metrics EXCEPT ![run[w]] = @ \cup {Head(todo[w])}]
        /\ progress' = [progress EXCEPT ![run[w]] = @ \ {Stage(w)}]
        /\ pc[w] = "looping"
        /\ todo' = [todo EXCEPT ![w] = Tail(@)]
        /\ pc' = [pc EXCEPT ![w] = IF Len(todo[w]) = 1 THEN "finishing" ELSE "entering"]
        /\ UNCHANGED <<status, job, hasErrors, run, raised>>
    BY <1>4 DEF EndStage, Beat, Stage
  <2>3. \A q \in RunIds :
          status[q] # "running" => metrics'[q] = metrics[q] /\ progress'[q] = progress[q]
    BY <1>1, <2>1, <2>2 DEF TypeOK
  <2>4. todo[w] \in Seq(Stages) /\ todo[w] # <<>>
    BY <1>4 DEF IInv, TypeOK, ControlOK, EndStage, InStage
  <2>5. FreshRowsBlank'
    BY <2>2, <2>3 DEF WholeInv, FreshRowsBlank
  <2>6. PlanIsKept'
    <3> SUFFICES ASSUME NEW v \in Workers, run[v] # 0, status[run[v]] = "running"
                 PROVE  /\ metrics'[run[v]] \cup Among(todo'[v]) = Among(job[run[v]].plan)
                        /\ pc'[v] = "finishing" /\ ~raised[v] => todo'[v] = <<>>
                        /\ ShowsProgress(v)'
      <4>1. UNCHANGED <<status, job, run, raised>>
        BY <2>2
      <4> QED BY <4>1 DEF PlanIsKept, Among
    <3>1. /\ metrics[run[v]] \cup Among(todo[v]) = Among(job[run[v]].plan)
          /\ pc[v] = "finishing" /\ ~raised[v] => todo[v] = <<>>
          /\ ShowsProgress(v)
      BY DEF WholeInv, PlanIsKept
    <3>2. CASE v = w
      <4>1. metrics'[run[w]] = metrics[run[w]] \cup {Head(todo[w])} /\ todo'[w] = Tail(todo[w])
        BY <1>1, <2>1, <2>2 DEF TypeOK
      <4>2. pc'[w] = "finishing" => Len(todo[w]) = 1
        BY <1>1, <2>2 DEF TypeOK
      <4>3. progress'[run[w]] = {}
        <5>1. progress[run[w]] \subseteq {Stage(w)}
          BY <2>2, <3>1, <3>2 DEF ShowsProgress
        <5> QED BY <1>1, <2>1, <2>2, <5>1 DEF TypeOK
      <4>4. ShowsProgress(v)'
        BY <2>2, <3>2, <4>3 DEF ShowsProgress
      <4> QED BY <2>4, <3>1, <3>2, <4>1, <4>2, <4>4, AmongFacts
    <3>3. CASE v # w
      <4>1. run[v] # run[w] /\ run[v] \in RunIds
        BY <1>1, <3>3 DEF HandlesMatchRows, TypeOK
      <4>2. /\ metrics'[run[v]] = metrics[run[v]] /\ progress'[run[v]] = progress[run[v]]
            /\ todo'[v] = todo[v] /\ pc'[v] = pc[v]
        BY <1>1, <2>1, <2>2, <3>3, <4>1 DEF TypeOK
      <4>3. ShowsProgress(v)'
        BY <2>2, <3>1, <4>2 DEF ShowsProgress, Stage
      <4> QED BY <3>1, <4>2, <4>3
    <3> QED BY <3>2, <3>3
  <2>7. CompletedMeansWhole'
    BY <2>2, <2>3 DEF WholeInv, CompletedMeansWhole, Completed
  <2> QED BY <2>5, <2>6, <2>7 DEF WholeInv
<1>5. ASSUME NEW w \in Workers, FinishRun(w) PROVE WholeInv'
  <2>1. run[w] \in RunIds /\ status[run[w]] # "none" /\ run[w] # 0 /\ pc[w] = "finishing"
    BY <1>5, <1>1, ServingFacts DEF FinishRun, HasRun, HandlesMatchRows
  <2>2. /\ Outcome(w) \in Terminal \/ Outcome(w) = status[run[w]]
        /\ ~Alive(w) => Outcome(w) = status[run[w]]
        /\ Outcome(w) # "running"
    BY <1>1, <2>1, OutcomeFacts DEF Terminal, Completed
  <2>3. /\ status' = [status EXCEPT ![run[w]] = Outcome(w)]
        /\ UNCHANGED <<job, metrics, progress, hasErrors>>
        /\ \A v \in Workers \ {w} : /\ run'[v] = run[v] /\ todo'[v] = todo[v]
                                     /\ pc'[v] = pc[v] /\ raised'[v] = raised[v]
        /\ run'[w] = 0 \/ run'[w] = run[w]
    BY <1>5, <1>1 DEF FinishRun, Forget, handles, TypeOK
  <2>4. FreshRowsBlank'
    BY <1>1, <2>1, <2>2, <2>3 DEF WholeInv, FreshRowsBlank, TypeOK, Terminal, Completed
  <2>5. PlanIsKept'
    <3> SUFFICES ASSUME NEW v \in Workers, run'[v] # 0, status'[run'[v]] = "running"
                 PROVE  /\ metrics[run'[v]] \cup Among(todo'[v]) = Among(job[run'[v]].plan)
                        /\ pc'[v] = "finishing" /\ ~raised'[v] => todo'[v] = <<>>
                        /\ ShowsProgress(v)'
      BY <2>3 DEF PlanIsKept, Among
    <3>1. v # w
      BY <1>1, <2>1, <2>2, <2>3 DEF TypeOK
    <3>2. run[v] \in RunIds /\ run[v] # run[w] /\ run'[v] = run[v]
      BY <1>1, <2>3, <3>1 DEF TypeOK, HandlesMatchRows
    <3>3. status[run[v]] = "running"
      BY <1>1, <2>3, <3>2 DEF TypeOK
    <3>4. ShowsProgress(v)'
      BY <2>3, <3>1, <3>2, <3>3 DEF WholeInv, PlanIsKept, ShowsProgress, Stage
    <3> QED BY <2>3, <3>1, <3>2, <3>3, <3>4 DEF WholeInv, PlanIsKept
  <2>6. CompletedMeansWhole'
    <3> SUFFICES ASSUME NEW q \in RunIds, status'[q] \in Completed
                 PROVE  /\ metrics[q] = Among(job[q].plan) /\ progress[q] = {}
                        /\ (status'[q] = "completed_with_errors") <=> hasErrors[q]
      BY <2>3 DEF CompletedMeansWhole, Among
    <3>1. CASE q = run[w] /\ Alive(w)
      <4>1. status'[q] = Outcome(w)
        BY <1>1, <2>1, <2>3, <3>1 DEF TypeOK
      <4>2. ~raised[w] /\ (Outcome(w) = "completed_with_errors" <=> hasErrors[q])
        BY <1>1, <3>1, <4>1 DEF Outcome, Completed, TypeOK
      <4>3. /\ todo[w] = <<>> /\ metrics[q] \cup Among(todo[w]) = Among(job[q].plan)
            /\ progress[q] = {}
        BY <2>1, <3>1, <4>2 DEF WholeInv, PlanIsKept, ShowsProgress, InStage
      <4> QED BY <4>1, <4>2, <4>3, AmongNone
    <3>2. CASE q # run[w] \/ ~Alive(w)
      <4>1. status'[q] = status[q]
        BY <1>1, <2>1, <2>2, <2>3, <3>2 DEF TypeOK
      <4> QED BY <4>1 DEF WholeInv, CompletedMeansWhole, Among
    <3> QED BY <3>1, <3>2
  <2> QED BY <2>4, <2>5, <2>6 DEF WholeInv
<1>6. ASSUME NEW w \in Workers,
             \/ EnterStage(w) \/ FenceStage(w) \/ CommitUnit(w) \/ SkipUnit(w)
             \/ FailUnit(w) \/ CountUnit(w) \/ BeatWhileWaiting(w)
      PROVE  WholeInv'
  <2>1. /\ UNCHANGED <<status, job, metrics, progress, hasErrors, run, todo, raised>>
        /\ \A v \in Workers : pc'[v] = pc[v] \/ (pc[v] # "finishing" /\ pc'[v] \in InStage)
    BY <1>6, <1>1 DEF EnterStage, FenceStage, CommitUnit, SkipUnit, FailUnit, CountUnit,
                      BeatWhileWaiting, Beat, rows, handles, TypeOK, InStage
  <2> QED BY <2>1, SamePlan
<1>7. ASSUME NEW w \in Workers, StoppedByFence(w) \/ StageRaises(w) PROVE WholeInv'
  <2>1. /\ UNCHANGED <<status, job, metrics, progress, hasErrors, run, todo>>
        /\ pc'[w] = "finishing" /\ (raised'[w] \/ status[run[w]] # "running")
        /\ \A v \in Workers \ {w} : pc'[v] = pc[v] /\ raised'[v] = raised[v]
    BY <1>7, <1>1 DEF StoppedByFence, StageRaises, rows, handles, TypeOK
  <2>2. \A v \in Workers :
          \/ pc'[v] = pc[v] /\ raised'[v] = raised[v]
          \/ pc'[v] = "finishing" /\ (raised'[v] \/ status[run[v]] # "running")
    BY <2>1
  <2> QED BY <2>1, <2>2, SamePlan
<1>8. ASSUME NEW w \in Workers, AlreadyRunning(w) \/ UpdateCheckpoint(w) \/ Crash(w)
      PROVE  WholeInv'
  <2>1. /\ UNCHANGED <<status, job, metrics, progress, hasErrors>>
        /\ run'[w] = 0
        /\ \A v \in Workers \ {w} : /\ run'[v] = run[v] /\ todo'[v] = todo[v]
                                     /\ pc'[v] = pc[v] /\ raised'[v] = raised[v]
    BY <1>8, <1>1 DEF AlreadyRunning, UpdateCheckpoint, Crash, Forget, rows, TypeOK
  <2>2. \A v \in Workers :
           \/ run'[v] = 0
           \/ /\ run'[v] = run[v] /\ todo'[v] = todo[v]
              /\ pc'[v] = pc[v] /\ raised'[v] = raised[v]
    BY <2>1
  <2> QED BY <2>1, <2>2, SamePlan
<1>9. ASSUME NEW w \in Workers, NEW j \in Requests, AbortStaleRuns(w, j) PROVE WholeInv'
  <2>1. /\ UNCHANGED <<job, metrics, progress, hasErrors, run, todo, raised>>
        /\ \A v \in Workers : pc'[v] = pc[v] \/ run'[v] = 0
        /\ \A r \in RunIds : /\ status'[r] = status[r] \/ status'[r] = "aborted"
                             /\ status[r] = "none" <=> status'[r] = "none"
    BY <1>9, <1>1 DEF AbortStaleRuns, TypeOK, HandlesMatchRows, HasRun, InStage
  <2> QED BY <2>1, SamePlan
<1>10. CASE (\E r \in RunIds : GrowStale(r)) \/ UNCHANGED vars
  <2>1. UNCHANGED <<status, job, metrics, progress, hasErrors, run, todo, pc, raised>>
    BY <1>10 DEF GrowStale, vars, rows, handles
  <2> QED BY <2>1, SamePlan
<1>11. ASSUME NEW w \in Workers, BeginUnit(w) PROVE WholeInv'
  <2>1. run[w] \in RunIds /\ run[w] # 0
    BY <1>11, ServingFacts, <1>1 DEF BeginUnit, HasRun, InStage, HandlesMatchRows
  <2>2. /\ UNCHANGED <<status, job, metrics, hasErrors, run, todo, raised>>
        /\ pc[w] = "looping" /\ pc' = [pc EXCEPT ![w] = "writing"]
        /\ \/ progress' = [progress EXCEPT ![run[w]] = @ \cup {Stage(w)}] /\ Alive(w)
           \/ progress' = progress
    BY <1>11 DEF BeginUnit, Beat, LoopedStages, handles
  <2>3. \A q \in RunIds : status[q] # "running" => progress'[q] = progress[q]
    BY <1>1, <2>1, <2>2 DEF TypeOK
  <2>4. FreshRowsBlank'
    BY <2>2, <2>3 DEF WholeInv, FreshRowsBlank
  <2>5. PlanIsKept'
    <3> SUFFICES ASSUME NEW v \in Workers, run'[v] # 0, status'[run'[v]] = "running"
                 PROVE  /\ metrics'[run'[v]] \cup Among(todo'[v]) = Among(job'[run'[v]].plan)
                        /\ pc'[v] = "finishing" /\ ~raised'[v] => todo'[v] = <<>>
                        /\ ShowsProgress(v)'
      BY DEF PlanIsKept, Among
    <3>1. run[v] # 0 /\ status[run[v]] = "running"
      BY <2>2
    <3>2. /\ metrics[run[v]] \cup Among(todo[v]) = Among(job[run[v]].plan)
          /\ pc[v] = "finishing" /\ ~raised[v] => todo[v] = <<>>
          /\ ShowsProgress(v)
      BY <3>1 DEF WholeInv, PlanIsKept
    <3>3. CASE v = w
      <4>1. pc'[w] = "writing" /\ Stage(w)' = Stage(w)
        BY <1>1, <2>2 DEF TypeOK, Stage
      <4>2. progress[run[w]] \subseteq {Stage(w)}
        BY <2>2, <3>2, <3>3 DEF ShowsProgress
      <4>3. progress'[run[w]] \subseteq {Stage(w)}
        BY <1>1, <2>1, <2>2, <4>2 DEF TypeOK
      <4>4. ShowsProgress(v)'
        BY <2>2, <3>3, <4>1, <4>3 DEF ShowsProgress, InStage
      <4> QED BY <2>2, <3>2, <3>3, <4>1, <4>4
    <3>4. CASE v # w
      <4>1. run[v] # run[w] /\ run[v] \in RunIds
        BY <1>1, <3>1, <3>4 DEF HandlesMatchRows, TypeOK
      <4>2. progress'[run[v]] = progress[run[v]] /\ pc'[v] = pc[v]
        BY <1>1, <2>1, <2>2, <3>4, <4>1 DEF TypeOK
      <4>3. ShowsProgress(v)'
        BY <2>2, <3>2, <4>2 DEF ShowsProgress, Stage
      <4> QED BY <2>2, <3>2, <4>2, <4>3
    <3> QED BY <3>3, <3>4
  <2>6. CompletedMeansWhole'
    BY <2>2, <2>3 DEF WholeInv, CompletedMeansWhole, Completed
  <2> QED BY <2>4, <2>5, <2>6 DEF WholeInv
<1> QED BY <1>2, <1>3, <1>4, <1>5, <1>6, <1>7, <1>8, <1>9, <1>10, <1>11 DEF Next, Progress

\* A completed run ended every stage of its plan, and is marked by its failed items:
\* whatever was raised, fenced or restarted, finish_run never writes it otherwise.
THEOREM CompletedWhole == Spec => []CompletedMeansWhole
<1>1. Init => WholeInv
  BY WholeInit
<1>2. IInv /\ WholeInv /\ [Next]_vars => WholeInv'
  BY WholeStep
<1>3. WholeInv => CompletedMeansWhole
  BY DEF WholeInv
<1> QED BY <1>1, <1>2, <1>3, Invariance, PTL DEF Spec

-----------------------------------------------------------------------------
(* The rows implement the ledger.                                          *)

LEMMA LedgerInit == Init => Ledger!LedgerInit
BY DEF Init, Ledger!LedgerInit, NoJob, Scopes

\* The ledger sees nothing of a step that changes no status, no job and no checkpoint.
LEMMA LedgerStutters ==
  ASSUME UNCHANGED <<status, job, checkpoint>>
  PROVE  UNCHANGED Ledger!ledgerVars
BY DEF Ledger!ledgerVars

LEMMA LedgerStep ==
  ASSUME IInv, [Next]_vars
  PROVE  [Ledger!LedgerNext]_(Ledger!ledgerVars)
<1>1. TypeOK /\ RowsAreDense /\ HandlesMatchRows /\ ControlOK
  BY DEF IInv
<1> USE DEF Goto, Alive
<1>2. ASSUME NEW w \in Workers, NEW j \in Requests, AbortStaleRuns(w, j)
      PROVE  Ledger!Close \/ UNCHANGED Ledger!ledgerVars
  <2> DEFINE ended == {r \in RunIds : status[r] = "running" /\ stale[r]}
  <2>1. /\ status' = [r \in RunIds |-> IF r \in ended THEN "aborted" ELSE status[r]]
        /\ UNCHANGED <<job, checkpoint>>
    BY <1>2 DEF AbortStaleRuns
  <2>2. CASE ended = {}
    <3>1. status' = status
      BY <1>1, <2>1, <2>2 DEF TypeOK
    <3> QED BY <2>1, <3>1, LedgerStutters
  <2>3. CASE ended # {}
    <3>1. ended \in (SUBSET RunIds) \ {{}} /\ \A r \in ended : status[r] = "running"
      BY <2>3
    <3> HIDE DEF ended
    <3> QED BY <2>1, <3>1 DEF Ledger!Close, Ledger!Outcomes
  <2> QED BY <2>2, <2>3
<1>3. ASSUME NEW w \in Workers, InsertRun(w) PROVE \E r \in RunIds : Ledger!Open(r)
  <2>1. PICK r \in RunIds : r = lastId + 1
    BY <1>3, <1>1, BoundsAssumption DEF InsertRun, TypeOK, RunIds
  <2>2. status[r] = "none" /\ want[w] \in Jobs
    <3>1. status[r] = "none"
      BY <1>1, <2>1, BoundsAssumption DEF RowsAreDense, TypeOK, RunIds
    <3>2. want[w] \in Jobs
      BY <1>3, <1>1 DEF InsertRun, HandlesMatchRows
    <3> QED BY <3>1, <3>2
  <2>3. /\ \A q \in RunIds : status[q] = "running" => job[q].scope # want[w].scope
        /\ status' = [status EXCEPT ![r] = "running"]
        /\ job' = [job EXCEPT ![r] = want[w]]
        /\ UNCHANGED checkpoint
    BY <1>3, <2>1 DEF InsertRun, ScopeTaken
  <2>4. want[w].scope \in Scopes /\ (want[w].kind = "regular") \in BOOLEAN
    BY <2>2, JobFacts
  <2>5. \A q \in RunIds : job'[q] = IF q = r THEN want[w] ELSE job[q]
    BY <1>1, <2>1, <2>3 DEF TypeOK
  <2>6. [q \in RunIds |-> job'[q].scope]
          = [[q \in RunIds |-> job[q].scope] EXCEPT ![r] = want[w].scope]
    BY <2>1, <2>5
  <2>7. [q \in RunIds |-> job'[q].kind = "regular"]
          = [[q \in RunIds |-> job[q].kind = "regular"] EXCEPT ![r] = (want[w].kind = "regular")]
    BY <2>1, <2>5
  <2>8. Ledger!Open(r)
    BY <2>1, <2>2, <2>3, <2>4, <2>6, <2>7 DEF Ledger!Open
  <2> QED BY <2>8
<1>4. ASSUME NEW w \in Workers, FinishRun(w)
      PROVE  Ledger!Close \/ UNCHANGED Ledger!ledgerVars
  <2>1. run[w] \in RunIds
    BY <1>4, ServingFacts DEF FinishRun, HasRun
  <2>2. /\ Alive(w) => Outcome(w) \in Terminal
        /\ ~Alive(w) => Outcome(w) = status[run[w]]
    BY <1>1, <2>1, OutcomeFacts
  <2>3. /\ status' = [status EXCEPT ![run[w]] = Outcome(w)]
        /\ UNCHANGED <<job, checkpoint>>
    BY <1>4 DEF FinishRun
  <2>4. CASE ~Alive(w)
    <3>1. status' = status
      BY <1>1, <2>2, <2>3, <2>4 DEF TypeOK
    <3> QED BY <2>3, <3>1, LedgerStutters
  <2>5. CASE Alive(w)
    <3>1. status' = [r \in RunIds |-> IF r \in {run[w]} THEN Outcome(w) ELSE status[r]]
      BY <1>1, <2>1, <2>3 DEF TypeOK
    <3>2. /\ {run[w]} \in (SUBSET RunIds) \ {{}} /\ \A r \in {run[w]} : status[r] = "running"
          /\ Outcome(w) \in Ledger!Outcomes
      BY <2>1, <2>2, <2>5 DEF Ledger!Outcomes, Ledger!Good, Terminal, Completed
    <3> QED BY <2>3, <3>1, <3>2 DEF Ledger!Close
  <2> QED BY <2>4, <2>5
<1>5. ASSUME NEW w \in Workers, UpdateCheckpoint(w) PROVE Ledger!Move
  <2>1. /\ run[w] \in RunIds /\ want[w] = job[run[w]] /\ want[w] \in Jobs
    BY <1>5, ServingFacts DEF UpdateCheckpoint, HasRun
  <2>2. want[w].kind = "regular" /\ status[run[w]] \in Completed
    BY <1>5, <1>1 DEF ControlOK, UpdateCheckpoint
  <2>3. want[w].scope \in Sources
    BY <2>1, <2>2, JobFacts
  <2>4. /\ checkpoint' = [checkpoint EXCEPT ![want[w].scope] = run[w]]
        /\ UNCHANGED <<status, job>>
    BY <1>5 DEF UpdateCheckpoint
  <2> QED BY <2>1, <2>2, <2>3, <2>4 DEF Ledger!Move, Ledger!Good, Completed
<1>6. CASE \/ \E r \in RunIds : GrowStale(r)
           \/ \E w \in Workers :
                \/ AlreadyRunning(w) \/ EnterStage(w) \/ BeatWhileWaiting(w) \/ FenceStage(w)
                \/ BeginUnit(w) \/ CommitUnit(w) \/ SkipUnit(w) \/ FailUnit(w)
                \/ CountUnit(w) \/ RecordFailure(w) \/ EndStage(w) \/ StoppedByFence(w)
                \/ StageRaises(w) \/ Crash(w)
           \/ UNCHANGED vars
  <2>1. UNCHANGED <<status, job, checkpoint>>
    BY <1>6 DEF GrowStale, AlreadyRunning, EnterStage, BeatWhileWaiting, FenceStage, BeginUnit,
                CommitUnit, SkipUnit, FailUnit, CountUnit, RecordFailure, EndStage,
                StoppedByFence, StageRaises, Crash, vars, rows
  <2> QED BY <2>1, LedgerStutters
<1> QED BY <1>2, <1>3, <1>4, <1>5, <1>6 DEF Next, Progress, Ledger!LedgerNext

\* The table of runs keeps the promises of the ledger: a run opens in a free scope, ends
\* once, and a checkpoint only moves to a completed regular run of its source, however
\* workers crash, go stale and are replaced.
THEOREM LedgerImplemented == Spec => ImplementsLedger
<1>1. Init => Ledger!LedgerInit
  BY LedgerInit
<1>2. IInv /\ [Next]_vars => [Ledger!LedgerNext]_(Ledger!ledgerVars)
  BY LedgerStep
<1> QED BY <1>1, <1>2, Invariance, PTL DEF Spec, ImplementsLedger, Ledger!LedgerSpec
=============================================================================
