-------------------------- MODULE OperationRunsProofs --------------------------
(***************************************************************************)
(* Proofs about OperationRuns: a row that ended keeps its ending, and the  *)
(* chain goes on only from a step that ended well and whose process ended. *)
(***************************************************************************)
EXTENDS OperationRuns, TLAPS

\* Ids are handed out in order: nothing is there of a run not yet inserted.
RowsAreDense ==
  \A r \in RunIds : r > lastId =>
    status[r] = "none" /\ thread[r] = "none" /\ prev[r] = 0 /\ proc[r] = "none"

\* What a source run has seen started was started.
OpenedAreStarted == \A s \in Sources : opened[s] \subseteq started

\* A thread past its process has waited for it, and one that starts the next step has read
\* that the chain goes on.
ThreadsWait ==
  \A r \in RunIds :
    /\ thread[r] \in {"finishing", "chaining", "sweeping", "inserting"} => proc[r] = "ended"
    /\ thread[r] \in {"sweeping", "inserting"} => GoesOn(r)

\* A thread ends with the insert of the next step.
ChainsFollow ==
  \A r \in RunIds : prev[r] # 0 =>
    /\ thread[prev[r]] = "gone" /\ proc[prev[r]] = "ended" /\ prev[r] <= lastId
    /\ GoesOn(prev[r]) /\ req[r].mode = Following[req[prev[r]].mode]

OneSuccessor == \A q, r \in RunIds : q # r /\ prev[q] # 0 => prev[q] # prev[r]

\* The parts of TypeOK.
RowTypes ==
  /\ lastId \in 0..MaxRuns
  /\ status \in [RunIds -> {"none"} \cup Live \cup Ended]
  /\ req \in [RunIds -> AllRequests]
  /\ code \in [RunIds -> Codes]
  /\ stale \in [RunIds -> BOOLEAN] /\ nightly \in [RunIds -> BOOLEAN]
  /\ prev \in [RunIds -> RunIds \cup {0}]

WorkTypes ==
  /\ thread \in [RunIds -> Threads]
  /\ proc \in [RunIds -> {"none", "alive", "ended"}] /\ exit \in [RunIds -> Codes]
  /\ left \in [RunIds -> SUBSET Sources]
  /\ outcome \in [RunIds -> SUBSET {"loaded", "failed", "skipped"}]

LoadTypes ==
  /\ started \subseteq RunIds /\ fresh \subseteq started
  /\ asked \in [Callers -> AllRequests \cup {Nothing}]
  /\ cleared \in BOOLEAN /\ loaded \in BOOLEAN
  /\ holder \in [Sources -> RunIds \cup {0, Scheduled}]
  /\ opened \in [Sources -> SUBSET RunIds]

\* What a step may not do to a row that ended, to a row and the loads, to a thread that ended.
EndingsKept ==
  \A r \in RunIds : status[r] \in Ended => status'[r] = status[r] /\ code'[r] = code[r]

RowsKept ==
  /\ \A r \in RunIds : r <= lastId => req'[r] = req[r] /\ prev'[r] = prev[r]
  /\ fresh \subseteq fresh' /\ lastId <= lastId'

FollowingKept ==
  \A r \in RunIds : prev'[r] # prev[r] =>
    r = lastId + 1 /\ \E q \in RunIds : prev'[r] = q /\ ChainStart(q)

GoneKept ==
  \A r \in RunIds : thread[r] = "gone" =>
    thread'[r] = "gone" /\ (proc[r] = "ended" => proc'[r] = "ended")

IInv == TypeOK /\ RowsAreDense /\ OpenedAreStarted /\ ThreadsWait /\ ChainsFollow /\ OneSuccessor

-----------------------------------------------------------------------------
(* What every step keeps.                                                  *)

LEMMA FollowingIsMode == \A m \in DOMAIN Following : Following[m] \in Modes
BY DEF Following, Modes

LEMMA ChainIsRequest == {PurgeChain, NoRequest} \subseteq AllRequests
BY DEF PurgeChain, NoRequest, AllRequests, Operations, Modes

LEMMA InitIInv == Init => IInv
<1> SUFFICES ASSUME Init PROVE IInv
  OBVIOUS
<1>1. NoRequest \in AllRequests /\ MaxRuns \in Nat
  BY BoundsAssumption DEF NoRequest, AllRequests, Operations, Modes
<1>2. TypeOK
  <2>1. lastId \in 0..MaxRuns /\ prev \in [RunIds -> RunIds \cup {0}]
    BY <1>1, BoundsAssumption DEF Init, RunIds
  <2>2. /\ status \in [RunIds -> {"none"} \cup Live \cup Ended]
        /\ req \in [RunIds -> AllRequests]
        /\ code \in [RunIds -> Codes] /\ exit \in [RunIds -> Codes]
        /\ stale \in [RunIds -> BOOLEAN] /\ nightly \in [RunIds -> BOOLEAN]
    BY <1>1 DEF Init, Codes
  <2>3. /\ started \subseteq RunIds /\ fresh \subseteq started
        /\ cleared \in BOOLEAN /\ loaded \in BOOLEAN
    BY DEF Init
  <2>4. /\ thread \in [RunIds -> Threads]
        /\ proc \in [RunIds -> {"none", "alive", "ended"}]
    BY DEF Init, Threads
  <2>5. /\ left \in [RunIds -> SUBSET Sources]
        /\ outcome \in [RunIds -> SUBSET {"loaded", "failed", "skipped"}]
        /\ opened \in [Sources -> SUBSET RunIds]
    BY DEF Init
  <2>6. /\ asked \in [Callers -> AllRequests \cup {Nothing}]
        /\ holder \in [Sources -> RunIds \cup {0, Scheduled}]
    BY DEF Init
  <2> QED
    BY <2>1, <2>2, <2>3, <2>4, <2>5, <2>6 DEF TypeOK
<1>3. RowsAreDense /\ OpenedAreStarted /\ ThreadsWait /\ ChainsFollow /\ OneSuccessor
  BY DEF Init, RowsAreDense, OpenedAreStarted, ThreadsWait, ChainsFollow, OneSuccessor
<1> QED
  BY <1>2, <1>3 DEF IInv

\* A row that ended keeps its ending.
LEMMA EndingStays ==
  ASSUME TypeOK, RowsAreDense, [Next]_vars
  PROVE  EndingsKept
<1>1. CASE UNCHANGED vars
  BY <1>1, BoundsAssumption DEF vars, rows, processes, loads, EndingsKept, TypeOK, RunIds,
     RowsAreDense, Live, Ended
<1>2. CASE InterruptStaleRuns \/ WaitForLoad
  <2>1. CASE InterruptStaleRuns
    BY <2>1 DEF InterruptStaleRuns, Interrupted, rows, EndingsKept, TypeOK, Live, Ended
  <2>2. CASE WaitForLoad
    BY <2>2 DEF WaitForLoad, Interrupted, rows, EndingsKept, TypeOK, Live, Ended
  <2> QED
    BY <1>2, <2>1, <2>2
<1>3. ASSUME NEW c \in Callers, NEW request \in Requests \cup {PurgeChain}, Ask(c, request)
      PROVE  EndingsKept
  BY <1>3, BoundsAssumption DEF Ask, Interrupted, processes, loads, EndingsKept, TypeOK, RunIds,
     RowsAreDense, Live, Ended
<1>4. ASSUME NEW c \in Callers, Start(c)
      PROVE  EndingsKept
  BY <1>4, BoundsAssumption DEF Start, Insert, Thread, processes, loads, EndingsKept, TypeOK,
     RunIds, RowsAreDense, Live, Ended
<1>5. ASSUME NEW c \in Callers, Conflict(c)
      PROVE  EndingsKept
  BY <1>5, BoundsAssumption DEF Conflict, rows, processes, loads, EndingsKept, TypeOK, RunIds,
     RowsAreDense, Live, Ended
<1>6. ASSUME NEW q \in RunIds, GrowStale(q) \/ Stop(q)
      PROVE  EndingsKept
  BY <1>6, BoundsAssumption DEF GrowStale, Stop, processes, loads, EndingsKept, TypeOK, RunIds,
     RowsAreDense, Live, Ended
<1>7. ASSUME NEW q \in RunIds, Claim(q)
      PROVE  EndingsKept
  BY <1>7, BoundsAssumption DEF Claim, Thread, processes, loads, EndingsKept, TypeOK, RunIds,
     RowsAreDense, Live, Ended
<1>8. ASSUME NEW q \in RunIds, Spawn(q)
      PROVE  EndingsKept
  BY <1>8, BoundsAssumption DEF Spawn, Thread, rows, loads, EndingsKept, TypeOK, RunIds,
     RowsAreDense, Live, Ended
<1>9. ASSUME NEW q \in RunIds, Beat(q) \/ Expire(q)
      PROVE  EndingsKept
  BY <1>9, BoundsAssumption DEF Beat, Expire, Thread, processes, loads, EndingsKept, TypeOK,
     RunIds, RowsAreDense, Live, Ended
<1>10. ASSUME NEW q \in RunIds, Kill(q) \/ Collect(q) \/ RunnerRaises(q)
      PROVE  EndingsKept
  BY <1>10, BoundsAssumption DEF Kill, Collect, RunnerRaises, Thread, rows, loads, EndingsKept,
     TypeOK, RunIds, RowsAreDense, Live, Ended
<1>11. ASSUME NEW q \in RunIds, Finish(q) \/ FinishFailed(q)
      PROVE  EndingsKept
  BY <1>11, BoundsAssumption DEF Finish, FinishFailed, RunningHere, Thread, processes, loads,
     EndingsKept, TypeOK, RunIds, RowsAreDense, Live, Ended
<1>12. ASSUME NEW q \in RunIds, ReadBack(q) \/ ChainBlocked(q) \/ ThreadDies(q)
      PROVE  EndingsKept
  BY <1>12, BoundsAssumption DEF ReadBack, ChainBlocked, ThreadDies, Thread, rows, processes,
     loads, EndingsKept, TypeOK, RunIds, RowsAreDense, Live, Ended
<1>13. ASSUME NEW q \in RunIds, ChainSweep(q)
      PROVE  EndingsKept
  BY <1>13, BoundsAssumption DEF ChainSweep, Interrupted, Thread, processes, loads, EndingsKept,
     TypeOK, RunIds, RowsAreDense, Live, Ended
<1>14. ASSUME NEW q \in RunIds, ChainStart(q)
      PROVE  EndingsKept
  BY <1>14, BoundsAssumption DEF ChainStart, Insert, processes, loads, EndingsKept, TypeOK,
     RunIds, RowsAreDense, Live, Ended
<1>15. ASSUME NEW q \in RunIds, ProcessStep(q)
      PROVE  EndingsKept
  BY <1>15, BoundsAssumption DEF ProcessStep, LoadSource, SkipSource, SourceEnds, ProcessEnds,
     TakeSource, FreeSource, rows, loads, EndingsKept, TypeOK, RunIds, RowsAreDense, Live, Ended
<1>16. ASSUME NEW q \in RunIds, ProcessDies(q)
      PROVE  EndingsKept
  BY <1>16, BoundsAssumption DEF ProcessDies, rows, loads, EndingsKept, TypeOK, RunIds,
     RowsAreDense, Live, Ended
<1>17. ASSUME NEW s \in Sources, ScheduledLoadStarts(s) \/ ScheduledLoadEnds(s) \/ AbortSource(s)
      PROVE  EndingsKept
  BY <1>17, BoundsAssumption DEF ScheduledLoadStarts, ScheduledLoadEnds, AbortSource,
     TakeSource, FreeSource, rows, processes, EndingsKept, TypeOK, RunIds, RowsAreDense, Live,
     Ended
<1> QED
  BY <1>1, <1>2, <1>3, <1>4, <1>5, <1>6, <1>7, <1>8, <1>9, <1>10, <1>11, <1>12, <1>13,
     <1>14, <1>15, <1>16, <1>17 DEF Next, ThreadStep

\* A run inserted keeps what was asked and the run it follows; loads once fresh stay so.
LEMMA RowsStay ==
  ASSUME TypeOK, [Next]_vars
  PROVE  RowsKept
<1>1. CASE UNCHANGED vars
  BY <1>1, BoundsAssumption DEF vars, rows, processes, loads, RowsKept, TypeOK, RunIds
<1>2. CASE InterruptStaleRuns \/ WaitForLoad
  BY <1>2, BoundsAssumption DEF InterruptStaleRuns, Interrupted, WaitForLoad, rows, processes,
     loads, RowsKept, TypeOK, RunIds
<1>3. ASSUME NEW c \in Callers, NEW request \in Requests \cup {PurgeChain}, Ask(c, request)
      PROVE  RowsKept
  BY <1>3, BoundsAssumption DEF Ask, Interrupted, processes, loads, RowsKept, TypeOK, RunIds
<1>4. ASSUME NEW c \in Callers, Start(c)
      PROVE  RowsKept
  BY <1>4, BoundsAssumption DEF Start, Insert, Thread, processes, loads, RowsKept, TypeOK, RunIds
<1>5. ASSUME NEW c \in Callers, Conflict(c)
      PROVE  RowsKept
  BY <1>5, BoundsAssumption DEF Conflict, rows, processes, loads, RowsKept, TypeOK, RunIds
<1>6. ASSUME NEW q \in RunIds, GrowStale(q) \/ Stop(q)
      PROVE  RowsKept
  BY <1>6, BoundsAssumption DEF GrowStale, Stop, processes, loads, RowsKept, TypeOK, RunIds
<1>7. ASSUME NEW q \in RunIds, Claim(q)
      PROVE  RowsKept
  BY <1>7, BoundsAssumption DEF Claim, Thread, processes, loads, RowsKept, TypeOK, RunIds
<1>8. ASSUME NEW q \in RunIds, Spawn(q)
      PROVE  RowsKept
  BY <1>8, BoundsAssumption DEF Spawn, Thread, rows, loads, RowsKept, TypeOK, RunIds
<1>9. ASSUME NEW q \in RunIds, Beat(q) \/ Expire(q)
      PROVE  RowsKept
  BY <1>9, BoundsAssumption DEF Beat, Expire, Thread, processes, loads, RowsKept, TypeOK, RunIds
<1>10. ASSUME NEW q \in RunIds, Kill(q) \/ Collect(q) \/ RunnerRaises(q)
      PROVE  RowsKept
  BY <1>10, BoundsAssumption DEF Kill, Collect, RunnerRaises, Thread, rows, loads, RowsKept,
     TypeOK, RunIds
<1>11. ASSUME NEW q \in RunIds, Finish(q) \/ FinishFailed(q)
      PROVE  RowsKept
  BY <1>11, BoundsAssumption DEF Finish, FinishFailed, RunningHere, Thread, processes, loads,
     RowsKept, TypeOK, RunIds
<1>12. ASSUME NEW q \in RunIds, ReadBack(q) \/ ChainBlocked(q) \/ ThreadDies(q)
      PROVE  RowsKept
  BY <1>12, BoundsAssumption DEF ReadBack, ChainBlocked, ThreadDies, Thread, rows, processes,
     loads, RowsKept, TypeOK, RunIds
<1>13. ASSUME NEW q \in RunIds, ChainSweep(q)
      PROVE  RowsKept
  BY <1>13, BoundsAssumption DEF ChainSweep, Interrupted, Thread, processes, loads, RowsKept,
     TypeOK, RunIds
<1>14. ASSUME NEW q \in RunIds, ChainStart(q)
      PROVE  RowsKept
  BY <1>14, BoundsAssumption DEF ChainStart, Insert, processes, loads, RowsKept, TypeOK, RunIds
<1>15. ASSUME NEW q \in RunIds, ProcessStep(q)
      PROVE  RowsKept
  BY <1>15, BoundsAssumption DEF ProcessStep, LoadSource, SkipSource, SourceEnds, ProcessEnds,
     TakeSource, FreeSource, rows, loads, RowsKept, TypeOK, RunIds
<1>16. ASSUME NEW q \in RunIds, ProcessDies(q)
      PROVE  RowsKept
  BY <1>16, BoundsAssumption DEF ProcessDies, rows, loads, RowsKept, TypeOK, RunIds
<1>17. ASSUME NEW s \in Sources, ScheduledLoadStarts(s) \/ ScheduledLoadEnds(s) \/ AbortSource(s)
      PROVE  RowsKept
  BY <1>17, BoundsAssumption DEF ScheduledLoadStarts, ScheduledLoadEnds, AbortSource,
     TakeSource, FreeSource, rows, processes, RowsKept, TypeOK, RunIds
<1> QED
  BY <1>1, <1>2, <1>3, <1>4, <1>5, <1>6, <1>7, <1>8, <1>9, <1>10, <1>11, <1>12, <1>13,
     <1>14, <1>15, <1>16, <1>17 DEF Next, ThreadStep

\* A thread that is gone stays gone, and its process, once ended, stays ended.
LEMMA GoneStays ==
  ASSUME TypeOK, RowsAreDense, [Next]_vars
  PROVE  GoneKept
<1>1. CASE UNCHANGED vars
  BY <1>1, BoundsAssumption DEF vars, rows, processes, loads, GoneKept, TypeOK, RunIds,
     RowsAreDense
<1>2. CASE InterruptStaleRuns \/ WaitForLoad
  BY <1>2, BoundsAssumption DEF InterruptStaleRuns, Interrupted, WaitForLoad, rows, processes,
     loads, GoneKept, TypeOK, RunIds, RowsAreDense
<1>3. ASSUME NEW c \in Callers, NEW request \in Requests \cup {PurgeChain}, Ask(c, request)
      PROVE  GoneKept
  BY <1>3, BoundsAssumption DEF Ask, Interrupted, processes, loads, GoneKept, TypeOK, RunIds,
     RowsAreDense
<1>4. ASSUME NEW c \in Callers, Start(c)
      PROVE  GoneKept
  BY <1>4, BoundsAssumption DEF Start, Insert, Thread, processes, loads, GoneKept, TypeOK,
     RunIds, RowsAreDense
<1>5. ASSUME NEW c \in Callers, Conflict(c)
      PROVE  GoneKept
  BY <1>5, BoundsAssumption DEF Conflict, rows, processes, loads, GoneKept, TypeOK, RunIds,
     RowsAreDense
<1>6. ASSUME NEW q \in RunIds, GrowStale(q) \/ Stop(q)
      PROVE  GoneKept
  BY <1>6, BoundsAssumption DEF GrowStale, Stop, processes, loads, GoneKept, TypeOK, RunIds,
     RowsAreDense
<1>7. ASSUME NEW q \in RunIds, Claim(q)
      PROVE  GoneKept
  BY <1>7, BoundsAssumption DEF Claim, Thread, processes, loads, GoneKept, TypeOK, RunIds,
     RowsAreDense
<1>8. ASSUME NEW q \in RunIds, Spawn(q)
      PROVE  GoneKept
  BY <1>8, BoundsAssumption DEF Spawn, Thread, rows, loads, GoneKept, TypeOK, RunIds, RowsAreDense
<1>9. ASSUME NEW q \in RunIds, Beat(q) \/ Expire(q)
      PROVE  GoneKept
  BY <1>9, BoundsAssumption DEF Beat, Expire, Thread, processes, loads, GoneKept, TypeOK,
     RunIds, RowsAreDense
<1>10. ASSUME NEW q \in RunIds, Kill(q) \/ Collect(q) \/ RunnerRaises(q)
      PROVE  GoneKept
  BY <1>10, BoundsAssumption DEF Kill, Collect, RunnerRaises, Thread, rows, loads, GoneKept,
     TypeOK, RunIds, RowsAreDense
<1>11. ASSUME NEW q \in RunIds, Finish(q) \/ FinishFailed(q)
      PROVE  GoneKept
  BY <1>11, BoundsAssumption DEF Finish, FinishFailed, RunningHere, Thread, processes, loads,
     GoneKept, TypeOK, RunIds, RowsAreDense
<1>12. ASSUME NEW q \in RunIds, ReadBack(q) \/ ChainBlocked(q) \/ ThreadDies(q)
      PROVE  GoneKept
  BY <1>12, BoundsAssumption DEF ReadBack, ChainBlocked, ThreadDies, Thread, rows, processes,
     loads, GoneKept, TypeOK, RunIds, RowsAreDense
<1>13. ASSUME NEW q \in RunIds, ChainSweep(q)
      PROVE  GoneKept
  BY <1>13, BoundsAssumption DEF ChainSweep, Interrupted, Thread, processes, loads, GoneKept,
     TypeOK, RunIds, RowsAreDense
<1>14. ASSUME NEW q \in RunIds, ChainStart(q)
      PROVE  GoneKept
  <2>1. lastId + 1 \in RunIds /\ thread[lastId + 1] = "none" /\ q # lastId + 1
    BY <1>14, BoundsAssumption DEF ChainStart, Insert, TypeOK, RunIds, RowsAreDense
  <2> QED
    BY <1>14, <2>1 DEF ChainStart, Insert, TypeOK, processes, GoneKept
<1>15. ASSUME NEW q \in RunIds, ProcessStep(q)
      PROVE  GoneKept
  BY <1>15, BoundsAssumption DEF ProcessStep, LoadSource, SkipSource, SourceEnds, ProcessEnds,
     TakeSource, FreeSource, rows, loads, GoneKept, TypeOK, RunIds, RowsAreDense
<1>16. ASSUME NEW q \in RunIds, ProcessDies(q)
      PROVE  GoneKept
  BY <1>16, BoundsAssumption DEF ProcessDies, rows, loads, GoneKept, TypeOK, RunIds, RowsAreDense
<1>17. ASSUME NEW s \in Sources, ScheduledLoadStarts(s) \/ ScheduledLoadEnds(s) \/ AbortSource(s)
      PROVE  GoneKept
  BY <1>17, BoundsAssumption DEF ScheduledLoadStarts, ScheduledLoadEnds, AbortSource,
     TakeSource, FreeSource, rows, processes, GoneKept, TypeOK, RunIds, RowsAreDense
<1> QED
  BY <1>1, <1>2, <1>3, <1>4, <1>5, <1>6, <1>7, <1>8, <1>9, <1>10, <1>11, <1>12, <1>13,
     <1>14, <1>15, <1>16, <1>17 DEF Next, ThreadStep

\* Ids are handed out in order by every step.
LEMMA DenseStep ==
  ASSUME TypeOK, RowsAreDense, [Next]_vars
  PROVE  RowsAreDense'
<1>1. CASE UNCHANGED vars
  BY <1>1, BoundsAssumption DEF vars, rows, processes, loads, TypeOK, RunIds, RowsAreDense, Live
<1>2. CASE InterruptStaleRuns \/ WaitForLoad
  <2>1. CASE InterruptStaleRuns
    BY <2>1 DEF InterruptStaleRuns, Interrupted, rows, processes, RowsAreDense, TypeOK, Live
  <2>2. CASE WaitForLoad
    BY <2>2 DEF WaitForLoad, Interrupted, rows, processes, RowsAreDense, TypeOK, Live
  <2> QED
    BY <1>2, <2>1, <2>2
<1>3. ASSUME NEW c \in Callers, NEW request \in Requests \cup {PurgeChain}, Ask(c, request)
      PROVE  RowsAreDense'
  BY <1>3, BoundsAssumption DEF Ask, Interrupted, processes, loads, TypeOK, RunIds,
     RowsAreDense, Live
<1>4. ASSUME NEW c \in Callers, Start(c)
      PROVE  RowsAreDense'
  BY <1>4, BoundsAssumption DEF Start, Insert, Thread, processes, loads, TypeOK, RunIds,
     RowsAreDense, Live
<1>5. ASSUME NEW c \in Callers, Conflict(c)
      PROVE  RowsAreDense'
  BY <1>5, BoundsAssumption DEF Conflict, rows, processes, loads, TypeOK, RunIds, RowsAreDense,
     Live
<1>6. ASSUME NEW q \in RunIds, GrowStale(q) \/ Stop(q)
      PROVE  RowsAreDense'
  BY <1>6, BoundsAssumption DEF GrowStale, Stop, processes, loads, TypeOK, RunIds, RowsAreDense,
     Live
<1>7. ASSUME NEW q \in RunIds, Claim(q)
      PROVE  RowsAreDense'
  BY <1>7, BoundsAssumption DEF Claim, Thread, processes, loads, TypeOK, RunIds, RowsAreDense,
     Live
<1>8. ASSUME NEW q \in RunIds, Spawn(q)
      PROVE  RowsAreDense'
  BY <1>8, BoundsAssumption DEF Spawn, Thread, rows, loads, TypeOK, RunIds, RowsAreDense, Live
<1>9. ASSUME NEW q \in RunIds, Beat(q) \/ Expire(q)
      PROVE  RowsAreDense'
  BY <1>9, BoundsAssumption DEF Beat, Expire, Thread, processes, loads, TypeOK, RunIds,
     RowsAreDense, Live
<1>10. ASSUME NEW q \in RunIds, Kill(q) \/ Collect(q) \/ RunnerRaises(q)
      PROVE  RowsAreDense'
  BY <1>10, BoundsAssumption DEF Kill, Collect, RunnerRaises, Thread, rows, loads, TypeOK,
     RunIds, RowsAreDense, Live
<1>11. ASSUME NEW q \in RunIds, Finish(q) \/ FinishFailed(q)
      PROVE  RowsAreDense'
  BY <1>11, BoundsAssumption DEF Finish, FinishFailed, RunningHere, Thread, processes, loads,
     TypeOK, RunIds, RowsAreDense, Live
<1>12. ASSUME NEW q \in RunIds, ReadBack(q) \/ ChainBlocked(q) \/ ThreadDies(q)
      PROVE  RowsAreDense'
  BY <1>12, BoundsAssumption DEF ReadBack, ChainBlocked, ThreadDies, Thread, rows, processes,
     loads, TypeOK, RunIds, RowsAreDense, Live
<1>13. ASSUME NEW q \in RunIds, ChainSweep(q)
      PROVE  RowsAreDense'
  BY <1>13, BoundsAssumption DEF ChainSweep, Interrupted, Thread, processes, loads, TypeOK,
     RunIds, RowsAreDense, Live
<1>14. ASSUME NEW q \in RunIds, ChainStart(q)
      PROVE  RowsAreDense'
  BY <1>14, BoundsAssumption DEF ChainStart, Insert, processes, loads, TypeOK, RunIds,
     RowsAreDense, Live
<1>15. ASSUME NEW q \in RunIds, ProcessStep(q)
      PROVE  RowsAreDense'
  BY <1>15, BoundsAssumption DEF ProcessStep, LoadSource, SkipSource, SourceEnds, ProcessEnds,
     TakeSource, FreeSource, rows, loads, TypeOK, RunIds, RowsAreDense, Live
<1>16. ASSUME NEW q \in RunIds, ProcessDies(q)
      PROVE  RowsAreDense'
  BY <1>16, BoundsAssumption DEF ProcessDies, rows, loads, TypeOK, RunIds, RowsAreDense, Live
<1>17. ASSUME NEW s \in Sources, ScheduledLoadStarts(s) \/ ScheduledLoadEnds(s) \/ AbortSource(s)
      PROVE  RowsAreDense'
  BY <1>17, BoundsAssumption DEF ScheduledLoadStarts, ScheduledLoadEnds, AbortSource,
     TakeSource, FreeSource, rows, processes, TypeOK, RunIds, RowsAreDense, Live
<1> QED
  BY <1>1, <1>2, <1>3, <1>4, <1>5, <1>6, <1>7, <1>8, <1>9, <1>10, <1>11, <1>12, <1>13,
     <1>14, <1>15, <1>16, <1>17 DEF Next, ThreadStep

\* A source run sees started what was started.
LEMMA OpenedStep ==
  ASSUME TypeOK, OpenedAreStarted, [Next]_vars
  PROVE  OpenedAreStarted'
<1>1. CASE UNCHANGED vars
  BY <1>1, BoundsAssumption DEF vars, rows, processes, loads, TypeOK, OpenedAreStarted
<1>2. CASE InterruptStaleRuns \/ WaitForLoad
  BY <1>2, BoundsAssumption DEF InterruptStaleRuns, Interrupted, WaitForLoad, rows, processes,
     loads, TypeOK, OpenedAreStarted
<1>3. ASSUME NEW c \in Callers, NEW request \in Requests \cup {PurgeChain}, Ask(c, request)
      PROVE  OpenedAreStarted'
  BY <1>3, BoundsAssumption DEF Ask, Interrupted, processes, loads, TypeOK, OpenedAreStarted
<1>4. ASSUME NEW c \in Callers, Start(c)
      PROVE  OpenedAreStarted'
  BY <1>4, BoundsAssumption DEF Start, Insert, Thread, processes, loads, TypeOK, OpenedAreStarted
<1>5. ASSUME NEW c \in Callers, Conflict(c)
      PROVE  OpenedAreStarted'
  BY <1>5, BoundsAssumption DEF Conflict, rows, processes, loads, TypeOK, OpenedAreStarted
<1>6. ASSUME NEW q \in RunIds, GrowStale(q) \/ Stop(q)
      PROVE  OpenedAreStarted'
  BY <1>6, BoundsAssumption DEF GrowStale, Stop, processes, loads, TypeOK, OpenedAreStarted
<1>7. ASSUME NEW q \in RunIds, Claim(q)
      PROVE  OpenedAreStarted'
  BY <1>7, BoundsAssumption DEF Claim, Thread, processes, loads, TypeOK, OpenedAreStarted
<1>8. ASSUME NEW q \in RunIds, Spawn(q)
      PROVE  OpenedAreStarted'
  BY <1>8, BoundsAssumption DEF Spawn, Thread, rows, loads, TypeOK, OpenedAreStarted
<1>9. ASSUME NEW q \in RunIds, Beat(q) \/ Expire(q)
      PROVE  OpenedAreStarted'
  BY <1>9, BoundsAssumption DEF Beat, Expire, Thread, processes, loads, TypeOK, OpenedAreStarted
<1>10. ASSUME NEW q \in RunIds, Kill(q) \/ Collect(q) \/ RunnerRaises(q)
      PROVE  OpenedAreStarted'
  BY <1>10, BoundsAssumption DEF Kill, Collect, RunnerRaises, Thread, rows, loads, TypeOK,
     OpenedAreStarted
<1>11. ASSUME NEW q \in RunIds, Finish(q) \/ FinishFailed(q)
      PROVE  OpenedAreStarted'
  BY <1>11, BoundsAssumption DEF Finish, FinishFailed, RunningHere, Thread, processes, loads,
     TypeOK, OpenedAreStarted
<1>12. ASSUME NEW q \in RunIds, ReadBack(q) \/ ChainBlocked(q) \/ ThreadDies(q)
      PROVE  OpenedAreStarted'
  BY <1>12, BoundsAssumption DEF ReadBack, ChainBlocked, ThreadDies, Thread, rows, processes,
     loads, TypeOK, OpenedAreStarted
<1>13. ASSUME NEW q \in RunIds, ChainSweep(q)
      PROVE  OpenedAreStarted'
  BY <1>13, BoundsAssumption DEF ChainSweep, Interrupted, Thread, processes, loads, TypeOK,
     OpenedAreStarted
<1>14. ASSUME NEW q \in RunIds, ChainStart(q)
      PROVE  OpenedAreStarted'
  BY <1>14, BoundsAssumption DEF ChainStart, Insert, processes, loads, TypeOK, OpenedAreStarted
<1>15. ASSUME NEW q \in RunIds, ProcessStep(q)
      PROVE  OpenedAreStarted'
  BY <1>15, BoundsAssumption DEF ProcessStep, LoadSource, SkipSource, SourceEnds, ProcessEnds,
     TakeSource, FreeSource, rows, loads, TypeOK, OpenedAreStarted
<1>16. ASSUME NEW q \in RunIds, ProcessDies(q)
      PROVE  OpenedAreStarted'
  BY <1>16, BoundsAssumption DEF ProcessDies, rows, loads, TypeOK, OpenedAreStarted
<1>17. ASSUME NEW s \in Sources, ScheduledLoadStarts(s) \/ ScheduledLoadEnds(s) \/ AbortSource(s)
      PROVE  OpenedAreStarted'
  BY <1>17, BoundsAssumption DEF ScheduledLoadStarts, ScheduledLoadEnds, AbortSource,
     TakeSource, FreeSource, rows, processes, TypeOK, OpenedAreStarted
<1> QED
  BY <1>1, <1>2, <1>3, <1>4, <1>5, <1>6, <1>7, <1>8, <1>9, <1>10, <1>11, <1>12, <1>13,
     <1>14, <1>15, <1>16, <1>17 DEF Next, ThreadStep

\* Once the chain goes on from a run, it does: the row, its request and the fresh loads stay.
LEMMA GoesOnStays ==
  ASSUME TypeOK, EndingsKept, RowsKept, NEW r \in RunIds, r <= lastId, GoesOn(r)
  PROVE  GoesOn(r)'
<1>1. status[r] \in Ended
  BY DEF GoesOn, Ended
<1>2. status'[r] = status[r] /\ code'[r] = code[r] /\ req'[r] = req[r]
  BY <1>1 DEF EndingsKept, RowsKept
<1>3. r \in fresh => r \in fresh'
  BY DEF RowsKept
<1> QED
  BY <1>2, <1>3 DEF GoesOn, LoadPartlyDone

\* A thread past its process has waited for it.
LEMMA WaitStep ==
  ASSUME TypeOK, RowsAreDense, ThreadsWait, EndingsKept, RowsKept, [Next]_vars
  PROVE  ThreadsWait'
<1>g. \A r \in RunIds : GoesOn(r) /\ thread[r] # "none" => GoesOn(r)'
  <2>1. \A r \in RunIds : thread[r] # "none" => r <= lastId
    BY BoundsAssumption DEF RowsAreDense, TypeOK, RunIds
  <2> QED
    BY <2>1, GoesOnStays
<1>1. CASE UNCHANGED vars
  BY <1>1, <1>g, BoundsAssumption DEF vars, rows, processes, loads, ThreadsWait, TypeOK, RunIds
<1>2. CASE InterruptStaleRuns \/ WaitForLoad
  BY <1>2, <1>g, BoundsAssumption DEF InterruptStaleRuns, Interrupted, WaitForLoad, rows,
     processes, loads, ThreadsWait, TypeOK, RunIds
<1>3. ASSUME NEW c \in Callers, NEW request \in Requests \cup {PurgeChain}, Ask(c, request)
      PROVE  ThreadsWait'
  BY <1>3, <1>g, BoundsAssumption DEF Ask, Interrupted, processes, loads, ThreadsWait, TypeOK,
     RunIds
<1>4. ASSUME NEW c \in Callers, Start(c)
      PROVE  ThreadsWait'
  BY <1>4, <1>g, BoundsAssumption DEF Start, Insert, Thread, processes, loads, ThreadsWait,
     TypeOK, RunIds
<1>5. ASSUME NEW c \in Callers, Conflict(c)
      PROVE  ThreadsWait'
  BY <1>5, <1>g, BoundsAssumption DEF Conflict, rows, processes, loads, ThreadsWait, TypeOK,
     RunIds
<1>6. ASSUME NEW q \in RunIds, GrowStale(q) \/ Stop(q)
      PROVE  ThreadsWait'
  BY <1>6, <1>g, BoundsAssumption DEF GrowStale, Stop, processes, loads, ThreadsWait, TypeOK,
     RunIds
<1>7. ASSUME NEW q \in RunIds, Claim(q)
      PROVE  ThreadsWait'
  BY <1>7, <1>g, BoundsAssumption DEF Claim, Thread, processes, loads, ThreadsWait, TypeOK, RunIds
<1>8. ASSUME NEW q \in RunIds, Spawn(q)
      PROVE  ThreadsWait'
  BY <1>8, <1>g, BoundsAssumption DEF Spawn, Thread, rows, loads, ThreadsWait, TypeOK, RunIds
<1>9. ASSUME NEW q \in RunIds, Beat(q) \/ Expire(q)
      PROVE  ThreadsWait'
  BY <1>9, <1>g, BoundsAssumption DEF Beat, Expire, Thread, processes, loads, ThreadsWait,
     TypeOK, RunIds
<1>10. ASSUME NEW q \in RunIds, Kill(q) \/ Collect(q) \/ RunnerRaises(q)
      PROVE  ThreadsWait'
  BY <1>10, <1>g, BoundsAssumption DEF Kill, Collect, RunnerRaises, Thread, rows, loads,
     ThreadsWait, TypeOK, RunIds
<1>11. ASSUME NEW q \in RunIds, Finish(q) \/ FinishFailed(q)
      PROVE  ThreadsWait'
  BY <1>11, <1>g, BoundsAssumption DEF Finish, FinishFailed, RunningHere, Thread, processes,
     loads, ThreadsWait, TypeOK, RunIds
<1>12. ASSUME NEW q \in RunIds, ReadBack(q) \/ ChainBlocked(q) \/ ThreadDies(q)
      PROVE  ThreadsWait'
  BY <1>12, <1>g, BoundsAssumption DEF ReadBack, ChainBlocked, ThreadDies, Thread, rows,
     processes, loads, ThreadsWait, TypeOK, RunIds
<1>13. ASSUME NEW q \in RunIds, ChainSweep(q)
      PROVE  ThreadsWait'
  BY <1>13, <1>g, BoundsAssumption DEF ChainSweep, Interrupted, Thread, processes, loads,
     ThreadsWait, TypeOK, RunIds
<1>14. ASSUME NEW q \in RunIds, ChainStart(q)
      PROVE  ThreadsWait'
  BY <1>14, <1>g, BoundsAssumption DEF ChainStart, Insert, processes, loads, ThreadsWait,
     TypeOK, RunIds
<1>15. ASSUME NEW q \in RunIds, ProcessStep(q)
      PROVE  ThreadsWait'
  BY <1>15, <1>g, BoundsAssumption DEF ProcessStep, LoadSource, SkipSource, SourceEnds,
     ProcessEnds, TakeSource, FreeSource, rows, loads, ThreadsWait, TypeOK, RunIds
<1>16. ASSUME NEW q \in RunIds, ProcessDies(q)
      PROVE  ThreadsWait'
  BY <1>16, <1>g, BoundsAssumption DEF ProcessDies, rows, loads, ThreadsWait, TypeOK, RunIds
<1>17. ASSUME NEW s \in Sources, ScheduledLoadStarts(s) \/ ScheduledLoadEnds(s) \/ AbortSource(s)
      PROVE  ThreadsWait'
  BY <1>17, <1>g, BoundsAssumption DEF ScheduledLoadStarts, ScheduledLoadEnds, AbortSource,
     TakeSource, FreeSource, rows, processes, ThreadsWait, TypeOK, RunIds
<1> QED
  BY <1>1, <1>2, <1>3, <1>4, <1>5, <1>6, <1>7, <1>8, <1>9, <1>10, <1>11, <1>12, <1>13,
     <1>14, <1>15, <1>16, <1>17 DEF Next, ThreadStep

\* Only a thread of the chain inserts a row that follows another one.
LEMMA FollowingStays ==
  ASSUME TypeOK, RowsAreDense, [Next]_vars
  PROVE  FollowingKept
<1>1. CASE UNCHANGED vars
  BY <1>1, BoundsAssumption DEF vars, rows, processes, loads, FollowingKept, TypeOK, RunIds,
     RowsAreDense
<1>2. CASE InterruptStaleRuns \/ WaitForLoad
  BY <1>2, BoundsAssumption DEF InterruptStaleRuns, Interrupted, WaitForLoad, rows, processes,
     loads, FollowingKept, TypeOK, RunIds, RowsAreDense
<1>3. ASSUME NEW c \in Callers, NEW request \in Requests \cup {PurgeChain}, Ask(c, request)
      PROVE  FollowingKept
  BY <1>3, BoundsAssumption DEF Ask, Interrupted, processes, loads, FollowingKept, TypeOK,
     RunIds, RowsAreDense
<1>4. ASSUME NEW c \in Callers, Start(c)
      PROVE  FollowingKept
  BY <1>4, BoundsAssumption DEF Start, Insert, Thread, processes, loads, FollowingKept, TypeOK,
     RunIds, RowsAreDense
<1>5. ASSUME NEW c \in Callers, Conflict(c)
      PROVE  FollowingKept
  BY <1>5, BoundsAssumption DEF Conflict, rows, processes, loads, FollowingKept, TypeOK, RunIds,
     RowsAreDense
<1>6. ASSUME NEW q \in RunIds, GrowStale(q) \/ Stop(q)
      PROVE  FollowingKept
  BY <1>6, BoundsAssumption DEF GrowStale, Stop, processes, loads, FollowingKept, TypeOK,
     RunIds, RowsAreDense
<1>7. ASSUME NEW q \in RunIds, Claim(q)
      PROVE  FollowingKept
  BY <1>7, BoundsAssumption DEF Claim, Thread, processes, loads, FollowingKept, TypeOK, RunIds,
     RowsAreDense
<1>8. ASSUME NEW q \in RunIds, Spawn(q)
      PROVE  FollowingKept
  BY <1>8, BoundsAssumption DEF Spawn, Thread, rows, loads, FollowingKept, TypeOK, RunIds,
     RowsAreDense
<1>9. ASSUME NEW q \in RunIds, Beat(q) \/ Expire(q)
      PROVE  FollowingKept
  BY <1>9, BoundsAssumption DEF Beat, Expire, Thread, processes, loads, FollowingKept, TypeOK,
     RunIds, RowsAreDense
<1>10. ASSUME NEW q \in RunIds, Kill(q) \/ Collect(q) \/ RunnerRaises(q)
      PROVE  FollowingKept
  BY <1>10, BoundsAssumption DEF Kill, Collect, RunnerRaises, Thread, rows, loads,
     FollowingKept, TypeOK, RunIds, RowsAreDense
<1>11. ASSUME NEW q \in RunIds, Finish(q) \/ FinishFailed(q)
      PROVE  FollowingKept
  BY <1>11, BoundsAssumption DEF Finish, FinishFailed, RunningHere, Thread, processes, loads,
     FollowingKept, TypeOK, RunIds, RowsAreDense
<1>12. ASSUME NEW q \in RunIds, ReadBack(q) \/ ChainBlocked(q) \/ ThreadDies(q)
      PROVE  FollowingKept
  BY <1>12, BoundsAssumption DEF ReadBack, ChainBlocked, ThreadDies, Thread, rows, processes,
     loads, FollowingKept, TypeOK, RunIds, RowsAreDense
<1>13. ASSUME NEW q \in RunIds, ChainSweep(q)
      PROVE  FollowingKept
  BY <1>13, BoundsAssumption DEF ChainSweep, Interrupted, Thread, processes, loads,
     FollowingKept, TypeOK, RunIds, RowsAreDense
<1>14. ASSUME NEW q \in RunIds, ChainStart(q)
      PROVE  FollowingKept
  BY <1>14, BoundsAssumption DEF ChainStart, Insert, processes, loads, FollowingKept, TypeOK,
     RunIds, RowsAreDense
<1>15. ASSUME NEW q \in RunIds, ProcessStep(q)
      PROVE  FollowingKept
  BY <1>15, BoundsAssumption DEF ProcessStep, LoadSource, SkipSource, SourceEnds, ProcessEnds,
     TakeSource, FreeSource, rows, loads, FollowingKept, TypeOK, RunIds, RowsAreDense
<1>16. ASSUME NEW q \in RunIds, ProcessDies(q)
      PROVE  FollowingKept
  BY <1>16, BoundsAssumption DEF ProcessDies, rows, loads, FollowingKept, TypeOK, RunIds,
     RowsAreDense
<1>17. ASSUME NEW s \in Sources, ScheduledLoadStarts(s) \/ ScheduledLoadEnds(s) \/ AbortSource(s)
      PROVE  FollowingKept
  BY <1>17, BoundsAssumption DEF ScheduledLoadStarts, ScheduledLoadEnds, AbortSource,
     TakeSource, FreeSource, rows, processes, FollowingKept, TypeOK, RunIds, RowsAreDense
<1> QED
  BY <1>1, <1>2, <1>3, <1>4, <1>5, <1>6, <1>7, <1>8, <1>9, <1>10, <1>11, <1>12, <1>13,
     <1>14, <1>15, <1>16, <1>17 DEF Next, ThreadStep

\* What the start of the next step does, to its row and to the thread that made it.
LEMMA StartFollows ==
  ASSUME TypeOK, RowsAreDense, ThreadsWait, EndingsKept, RowsKept, NEW q \in RunIds, ChainStart(q)
  PROVE  /\ lastId + 1 \in RunIds /\ prev'[lastId + 1] = q /\ q <= lastId /\ q <= lastId'
         /\ thread[q] = "inserting" /\ thread'[q] = "gone" /\ proc'[q] = "ended"
         /\ GoesOn(q)' /\ req'[lastId + 1].mode = Following[req'[q].mode]
<1>1. /\ lastId + 1 \in RunIds /\ q <= lastId /\ q # lastId + 1
      /\ lastId' = lastId + 1 /\ thread[q] = "inserting"
  BY BoundsAssumption DEF ChainStart, Insert, TypeOK, RunIds, RowsAreDense
<1>2. prev'[lastId + 1] = q /\ thread'[q] = "gone" /\ proc'[q] = "ended"
  BY <1>1 DEF ChainStart, Insert, TypeOK, ThreadsWait, processes
<1>3. GoesOn(q)'
  BY <1>1, GoesOnStays DEF ThreadsWait
<1>4. req'[lastId + 1].mode = Following[req[q].mode] /\ req'[q] = req[q]
  BY <1>1 DEF ChainStart, Insert, TypeOK
<1>5. q <= lastId'
  BY <1>1 DEF TypeOK, RunIds
<1> QED
  BY <1>1, <1>2, <1>3, <1>4, <1>5

\* A run goes on following the one before it, and a new one follows a thread that ends with it.
LEMMA ChainsStep ==
  ASSUME TypeOK, RowsAreDense, ThreadsWait, ChainsFollow, EndingsKept, RowsKept, FollowingKept,
         GoneKept, lastId' \in Nat
  PROVE  ChainsFollow'
<1> SUFFICES ASSUME NEW r \in RunIds, prev'[r] # 0
             PROVE  /\ thread'[prev'[r]] = "gone" /\ proc'[prev'[r]] = "ended"
                    /\ prev'[r] <= lastId' /\ GoesOn(prev[r])'
                    /\ req'[r].mode = Following[req'[prev'[r]].mode]
  BY DEF ChainsFollow
<1>1. CASE prev'[r] = prev[r]
  <2>1. prev[r] \in RunIds /\ r <= lastId
    BY <1>1, BoundsAssumption DEF TypeOK, RowsAreDense, RunIds
  <2>2. /\ thread[prev[r]] = "gone" /\ proc[prev[r]] = "ended" /\ prev[r] <= lastId
        /\ GoesOn(prev[r]) /\ req[r].mode = Following[req[prev[r]].mode]
    BY <1>1 DEF ChainsFollow
  <2>3. thread'[prev[r]] = "gone" /\ proc'[prev[r]] = "ended"
    BY <2>1, <2>2 DEF GoneKept
  <2>4. req'[r] = req[r] /\ req'[prev[r]] = req[prev[r]]
    BY <2>1, <2>2 DEF RowsKept
  <2>5. ASSUME NEW p \in RunIds, p = prev[r]
        PROVE  GoesOn(p)'
    BY <2>2, <2>5, GoesOnStays
  <2>6. GoesOn(prev[r])'
    BY <1>1, <2>1, <2>5 DEF GoesOn, LoadPartlyDone
  <2>7. prev[r] <= lastId'
    BY <2>1, <2>2 DEF RowsKept, RunIds, TypeOK
  <2> QED
    BY <1>1, <2>2, <2>3, <2>4, <2>6, <2>7
<1>2. CASE prev'[r] # prev[r]
  <2>1. PICK q \in RunIds : prev'[r] = q /\ ChainStart(q)
    BY <1>2 DEF FollowingKept
  <2>2. r = lastId + 1
    BY <1>2 DEF FollowingKept
  <2>3. GoesOn(q)' /\ q <= lastId' /\ thread'[q] = "gone" /\ proc'[q] = "ended"
        /\ req'[lastId + 1].mode = Following[req'[q].mode]
    BY <2>1, StartFollows
  <2>4. GoesOn(prev[r])'
    BY <2>1, <2>3 DEF GoesOn, LoadPartlyDone
  <2> QED
    BY <2>1, <2>2, <2>3, <2>4
<1> QED
  BY <1>1, <1>2

\* Whoever starts the next step had started none.
LEMMA OneSuccessorStep ==
  ASSUME TypeOK, RowsAreDense, ThreadsWait, ChainsFollow, OneSuccessor, EndingsKept, RowsKept,
         FollowingKept
  PROVE  OneSuccessor'
<1>1. \A r \in RunIds : prev'[r] # prev[r] =>
        r = lastId + 1 /\ prev'[r] \in RunIds /\ thread[prev'[r]] = "inserting"
  BY StartFollows DEF FollowingKept
<1>2. \A q, r \in RunIds : prev'[q] # prev[q] /\ prev'[r] = prev[r] /\ prev[r] # 0
        => prev'[q] # prev'[r]
  BY <1>1 DEF ChainsFollow
<1> QED
  BY <1>1, <1>2 DEF OneSuccessor, TypeOK

\* A source run that starts or ends keeps the types of the loads.
LEMMA TakeTypes ==
  ASSUME TypeOK, OpenedAreStarted, NEW s \in Sources, NEW h \in RunIds \cup {Scheduled},
         TakeSource(s, h), UNCHANGED <<started, asked, cleared>>
  PROVE  LoadTypes'
BY DEF TypeOK, LoadTypes, TakeSource

LEMMA FreeTypes ==
  ASSUME TypeOK, OpenedAreStarted, NEW s \in Sources, NEW good \in BOOLEAN,
         FreeSource(s, good), UNCHANGED <<started, asked, cleared>>
  PROVE  LoadTypes'
<1>1. loaded' \in BOOLEAN
  BY DEF FreeSource
<1>2. fresh' \subseteq started'
  BY DEF TypeOK, OpenedAreStarted, FreeSource
<1>3. /\ holder' \in [Sources -> RunIds \cup {0, Scheduled}]
      /\ opened' \in [Sources -> SUBSET RunIds]
  BY DEF TypeOK, FreeSource
<1> QED
  BY <1>1, <1>2, <1>3 DEF TypeOK, LoadTypes

\* The rows keep their types.
LEMMA RowTypesStep ==
  ASSUME TypeOK, OpenedAreStarted, ThreadsWait, [Next]_vars
  PROVE  RowTypes'
<1>1. CASE UNCHANGED vars
  BY <1>1, BoundsAssumption DEF vars, rows, processes, loads, RowTypes, TypeOK, RunIds, Live,
     Ended, Codes, Threads
<1>2. CASE InterruptStaleRuns \/ WaitForLoad
  BY <1>2, BoundsAssumption DEF InterruptStaleRuns, Interrupted, WaitForLoad, rows, processes,
     loads, RowTypes, TypeOK, RunIds, Live, Ended, Codes, Threads
<1>3. ASSUME NEW c \in Callers, NEW request \in Requests \cup {PurgeChain}, Ask(c, request)
      PROVE  RowTypes'
  BY <1>3, BoundsAssumption DEF Ask, Interrupted, processes, loads, RowTypes, TypeOK, RunIds,
     Live, Ended, Codes, Threads
<1>4. ASSUME NEW c \in Callers, Start(c)
      PROVE  RowTypes'
  BY <1>4, BoundsAssumption DEF Start, Insert, Thread, processes, loads, RowTypes, TypeOK,
     RunIds, Live, Ended, Codes, Threads
<1>5. ASSUME NEW c \in Callers, Conflict(c)
      PROVE  RowTypes'
  BY <1>5, BoundsAssumption DEF Conflict, rows, processes, loads, RowTypes, TypeOK, RunIds,
     Live, Ended, Codes, Threads
<1>6. ASSUME NEW q \in RunIds, GrowStale(q) \/ Stop(q)
      PROVE  RowTypes'
  <2>1. CASE GrowStale(q)
    BY <2>1 DEF GrowStale, Thread, RunningHere, rows, RowTypes, TypeOK, Live, Ended, Codes
  <2>2. CASE Stop(q)
    BY <2>2 DEF Stop, Thread, RunningHere, rows, RowTypes, TypeOK, Live, Ended, Codes
  <2> QED
    BY <1>6, <2>1, <2>2
<1>7. ASSUME NEW q \in RunIds, Claim(q)
      PROVE  RowTypes'
  <2>1. /\ status' \in [RunIds -> {"none"} \cup Live \cup Ended]
        /\ stale' \in [RunIds -> BOOLEAN]
    BY <1>7 DEF Claim, TypeOK, Live
  <2> QED
    BY <1>7, <2>1 DEF Claim, RowTypes, TypeOK
<1>8. ASSUME NEW q \in RunIds, Spawn(q)
      PROVE  RowTypes'
  BY <1>8, BoundsAssumption DEF Spawn, Thread, rows, loads, RowTypes, TypeOK, RunIds, Live,
     Ended, Codes, Threads
<1>9. ASSUME NEW q \in RunIds, Beat(q) \/ Expire(q)
      PROVE  RowTypes'
  <2>1. CASE Beat(q)
    BY <2>1 DEF Beat, Thread, RunningHere, rows, RowTypes, TypeOK, Live, Ended, Codes
  <2>2. CASE Expire(q)
    BY <2>2 DEF Expire, Thread, RunningHere, rows, RowTypes, TypeOK, Live, Ended, Codes
  <2> QED
    BY <1>9, <2>1, <2>2
<1>10. ASSUME NEW q \in RunIds, Kill(q) \/ Collect(q) \/ RunnerRaises(q)
      PROVE  RowTypes'
  <2>1. CASE Kill(q)
    BY <2>1 DEF Kill, Thread, RunningHere, rows, RowTypes, TypeOK, Live, Ended, Codes
  <2>2. CASE Collect(q)
    BY <2>2 DEF Collect, Thread, RunningHere, rows, RowTypes, TypeOK, Live, Ended, Codes
  <2>3. CASE RunnerRaises(q)
    BY <2>3 DEF RunnerRaises, Thread, RunningHere, rows, RowTypes, TypeOK, Live, Ended, Codes
  <2> QED
    BY <1>10, <2>1, <2>2, <2>3
<1>11. ASSUME NEW q \in RunIds, Finish(q) \/ FinishFailed(q)
      PROVE  RowTypes'
  <2>1. CASE Finish(q)
    <3>1. exit[q] \in Codes /\ {"succeeded", "failed"} \subseteq {"none"} \cup Live \cup Ended
      BY DEF TypeOK, Ended
    <3>2. /\ status' \in [RunIds -> {"none"} \cup Live \cup Ended]
          /\ code' \in [RunIds -> Codes] /\ stale' \in [RunIds -> BOOLEAN]
      <4>1. CASE UNCHANGED <<status, code, stale>>
        BY <4>1 DEF TypeOK
      <4>2. CASE status' = [status EXCEPT ![q] = IF exit[q] = "ok" THEN "succeeded" ELSE "failed"]
                 /\ code' = [code EXCEPT ![q] = exit[q]] /\ stale' = [stale EXCEPT ![q] = FALSE]
        BY <3>1, <4>2 DEF TypeOK
      <4> QED
        BY <2>1, <4>1, <4>2 DEF Finish
    <3>3. lastId' = lastId /\ req' = req /\ nightly' = nightly /\ prev' = prev
      BY <2>1 DEF Finish
    <3> QED
      BY <3>2, <3>3 DEF RowTypes, TypeOK
  <2>2. CASE FinishFailed(q)
    <3>1. /\ status' \in [RunIds -> {"none"} \cup Live \cup Ended]
          /\ stale' \in [RunIds -> BOOLEAN]
      <4>1. CASE UNCHANGED <<status, stale>>
        BY <4>1 DEF TypeOK
      <4>2. CASE status' = [status EXCEPT ![q] = "failed"] /\ stale' = [stale EXCEPT ![q] = FALSE]
        BY <4>2 DEF TypeOK, Ended
      <4> QED
        BY <2>2, <4>1, <4>2 DEF FinishFailed
    <3>2. /\ lastId' = lastId /\ req' = req /\ nightly' = nightly /\ prev' = prev
          /\ code' = code
      BY <2>2 DEF FinishFailed
    <3> QED
      BY <3>1, <3>2 DEF RowTypes, TypeOK
  <2> QED
    BY <1>11, <2>1, <2>2
<1>12. ASSUME NEW q \in RunIds, ReadBack(q) \/ ChainBlocked(q) \/ ThreadDies(q)
      PROVE  RowTypes'
  <2>1. CASE ReadBack(q)
    BY <2>1 DEF ReadBack, Thread, RunningHere, rows, RowTypes, TypeOK, Live, Ended, Codes
  <2>2. CASE ChainBlocked(q)
    BY <2>2 DEF ChainBlocked, Thread, RunningHere, rows, RowTypes, TypeOK, Live, Ended, Codes
  <2>3. CASE ThreadDies(q)
    BY <2>3 DEF ThreadDies, Thread, RunningHere, rows, RowTypes, TypeOK, Live, Ended, Codes
  <2> QED
    BY <1>12, <2>1, <2>2, <2>3
<1>13. ASSUME NEW q \in RunIds, ChainSweep(q)
      PROVE  RowTypes'
  BY <1>13, BoundsAssumption DEF ChainSweep, Interrupted, Thread, processes, loads, RowTypes,
     TypeOK, RunIds, Live, Ended, Codes, Threads
<1>14. ASSUME NEW q \in RunIds, ChainStart(q)
      PROVE  RowTypes'
  <2>1. Following[req[q].mode] \in Modes
    BY <1>14, FollowingIsMode DEF ChainStart, ThreadsWait, GoesOn
  <2>2. [op |-> "monitor", mode |-> Following[req[q].mode], chain |-> TRUE] \in AllRequests
    BY <2>1 DEF AllRequests, Operations
  <2>3. lastId + 1 \in RunIds /\ lastId' = lastId + 1 /\ lastId' \in 0..MaxRuns
    BY <1>14, BoundsAssumption DEF ChainStart, Insert, TypeOK, RunIds
  <2>4. /\ status' \in [RunIds -> {"none"} \cup Live \cup Ended]
        /\ req' \in [RunIds -> AllRequests]
    BY <1>14, <2>2, <2>3 DEF ChainStart, Insert, TypeOK, Live
  <2>5. prev' \in [RunIds -> RunIds \cup {0}] /\ nightly' \in [RunIds -> BOOLEAN]
    BY <1>14, <2>3 DEF ChainStart, Insert, TypeOK
  <2> QED
    BY <1>14, <2>3, <2>4, <2>5 DEF ChainStart, Insert, TypeOK, RowTypes
<1>15. ASSUME NEW q \in RunIds, ProcessStep(q)
      PROVE  RowTypes'
  BY <1>15, BoundsAssumption DEF ProcessStep, LoadSource, SkipSource, SourceEnds, ProcessEnds,
     TakeSource, FreeSource, rows, loads, RowTypes, TypeOK, RunIds, Live, Ended, Codes, Threads
<1>16. ASSUME NEW q \in RunIds, ProcessDies(q)
      PROVE  RowTypes'
  BY <1>16, BoundsAssumption DEF ProcessDies, rows, loads, RowTypes, TypeOK, RunIds, Live,
     Ended, Codes, Threads
<1>17. ASSUME NEW s \in Sources, ScheduledLoadStarts(s) \/ ScheduledLoadEnds(s) \/ AbortSource(s)
      PROVE  RowTypes'
  BY <1>17, BoundsAssumption DEF ScheduledLoadStarts, ScheduledLoadEnds, AbortSource,
     TakeSource, FreeSource, rows, processes, RowTypes, TypeOK, RunIds, Live, Ended, Codes,
     Threads
<1> QED
  BY <1>1, <1>2, <1>3, <1>4, <1>5, <1>6, <1>7, <1>8, <1>9, <1>10, <1>11, <1>12, <1>13,
     <1>14, <1>15, <1>16, <1>17 DEF Next, ThreadStep

\* Threads and processes keep their types.
LEMMA WorkTypesStep ==
  ASSUME TypeOK, OpenedAreStarted, [Next]_vars
  PROVE  WorkTypes'
<1>1. CASE UNCHANGED vars
  BY <1>1, BoundsAssumption DEF vars, rows, processes, loads, WorkTypes, TypeOK, RunIds, Live,
     Ended, Codes, Threads
<1>2. CASE InterruptStaleRuns \/ WaitForLoad
  BY <1>2, BoundsAssumption DEF InterruptStaleRuns, Interrupted, WaitForLoad, rows, processes,
     loads, WorkTypes, TypeOK, RunIds, Live, Ended, Codes, Threads
<1>3. ASSUME NEW c \in Callers, NEW request \in Requests \cup {PurgeChain}, Ask(c, request)
      PROVE  WorkTypes'
  BY <1>3, BoundsAssumption DEF Ask, Interrupted, processes, loads, WorkTypes, TypeOK, RunIds,
     Live, Ended, Codes, Threads
<1>4. ASSUME NEW c \in Callers, Start(c)
      PROVE  WorkTypes'
  BY <1>4, BoundsAssumption DEF Start, Insert, Thread, processes, loads, WorkTypes, TypeOK,
     RunIds, Live, Ended, Codes, Threads
<1>5. ASSUME NEW c \in Callers, Conflict(c)
      PROVE  WorkTypes'
  BY <1>5, BoundsAssumption DEF Conflict, rows, processes, loads, WorkTypes, TypeOK, RunIds,
     Live, Ended, Codes, Threads
<1>6. ASSUME NEW q \in RunIds, GrowStale(q) \/ Stop(q)
      PROVE  WorkTypes'
  BY <1>6, BoundsAssumption DEF GrowStale, Stop, processes, loads, WorkTypes, TypeOK, RunIds,
     Live, Ended, Codes, Threads
<1>7. ASSUME NEW q \in RunIds, Claim(q)
      PROVE  WorkTypes'
  BY <1>7, BoundsAssumption DEF Claim, Thread, processes, loads, WorkTypes, TypeOK, RunIds,
     Live, Ended, Codes, Threads
<1>8. ASSUME NEW q \in RunIds, Spawn(q)
      PROVE  WorkTypes'
  BY <1>8, BoundsAssumption DEF Spawn, Thread, rows, loads, WorkTypes, TypeOK, RunIds, Live,
     Ended, Codes, Threads
<1>9. ASSUME NEW q \in RunIds, Beat(q) \/ Expire(q)
      PROVE  WorkTypes'
  BY <1>9, BoundsAssumption DEF Beat, Expire, Thread, processes, loads, WorkTypes, TypeOK,
     RunIds, Live, Ended, Codes, Threads
<1>10. ASSUME NEW q \in RunIds, Kill(q) \/ Collect(q) \/ RunnerRaises(q)
      PROVE  WorkTypes'
  <2>1. CASE Kill(q)
    BY <2>1 DEF Kill, rows, WorkTypes, Codes, Threads, TypeOK
  <2>2. CASE Collect(q)
    BY <2>2 DEF Collect, Thread, rows, WorkTypes, Codes, Threads, TypeOK
  <2>3. CASE RunnerRaises(q)
    BY <2>3 DEF RunnerRaises, Thread, rows, WorkTypes, Codes, Threads, TypeOK
  <2> QED
    BY <1>10, <2>1, <2>2, <2>3
<1>11. ASSUME NEW q \in RunIds, Finish(q) \/ FinishFailed(q)
      PROVE  WorkTypes'
  <2>1. CASE Finish(q)
    BY <2>1 DEF Finish, Thread, rows, processes, WorkTypes, TypeOK, Threads
  <2>2. CASE FinishFailed(q)
    BY <2>2 DEF FinishFailed, Thread, rows, processes, WorkTypes, TypeOK, Threads
  <2> QED
    BY <1>11, <2>1, <2>2
<1>12. ASSUME NEW q \in RunIds, ReadBack(q) \/ ChainBlocked(q) \/ ThreadDies(q)
      PROVE  WorkTypes'
  <2>1. CASE ReadBack(q)
    BY <2>1 DEF ReadBack, Thread, processes, WorkTypes, Codes, Threads, TypeOK
  <2>2. CASE ChainBlocked(q)
    BY <2>2 DEF ChainBlocked, Thread, processes, WorkTypes, Codes, Threads, TypeOK
  <2>3. CASE ThreadDies(q)
    BY <2>3 DEF ThreadDies, Thread, processes, WorkTypes, Codes, Threads, TypeOK
  <2> QED
    BY <1>12, <2>1, <2>2, <2>3
<1>13. ASSUME NEW q \in RunIds, ChainSweep(q)
      PROVE  WorkTypes'
  BY <1>13, BoundsAssumption DEF ChainSweep, Interrupted, Thread, processes, loads, WorkTypes,
     TypeOK, RunIds, Live, Ended, Codes, Threads
<1>14. ASSUME NEW q \in RunIds, ChainStart(q)
      PROVE  WorkTypes'
  BY <1>14, BoundsAssumption DEF ChainStart, Insert, processes, loads, WorkTypes, TypeOK,
     RunIds, Live, Ended, Codes, Threads
<1>15. ASSUME NEW q \in RunIds, ProcessStep(q)
      PROVE  WorkTypes'
  <2>1. ASSUME NEW s \in Sources, LoadSource(q, s)
        PROVE  WorkTypes'
    BY <2>1 DEF LoadSource, WorkTypes, TypeOK
  <2>2. ASSUME NEW s \in Sources, SkipSource(q, s)
        PROVE  WorkTypes'
    BY <2>2 DEF SkipSource, WorkTypes, TypeOK
  <2>3. ASSUME NEW s \in Sources, SourceEnds(q, s)
        PROVE  WorkTypes'
    BY <2>3 DEF SourceEnds, WorkTypes, TypeOK
  <2>4. CASE ProcessEnds(q)
    BY <2>4 DEF ProcessEnds, ExitCode, Codes, rows, WorkTypes, TypeOK
  <2> QED
    BY <1>15, <2>1, <2>2, <2>3, <2>4 DEF ProcessStep
<1>16. ASSUME NEW q \in RunIds, ProcessDies(q)
      PROVE  WorkTypes'
  BY <1>16, BoundsAssumption DEF ProcessDies, rows, loads, WorkTypes, TypeOK, RunIds, Live,
     Ended, Codes, Threads
<1>17. ASSUME NEW s \in Sources, ScheduledLoadStarts(s) \/ ScheduledLoadEnds(s) \/ AbortSource(s)
      PROVE  WorkTypes'
  BY <1>17, BoundsAssumption DEF ScheduledLoadStarts, ScheduledLoadEnds, AbortSource,
     TakeSource, FreeSource, rows, processes, WorkTypes, TypeOK, RunIds, Live, Ended, Codes,
     Threads
<1> QED
  BY <1>1, <1>2, <1>3, <1>4, <1>5, <1>6, <1>7, <1>8, <1>9, <1>10, <1>11, <1>12, <1>13,
     <1>14, <1>15, <1>16, <1>17 DEF Next, ThreadStep

\* Callers and source runs keep their types.
LEMMA LoadTypesStep ==
  ASSUME TypeOK, OpenedAreStarted, [Next]_vars
  PROVE  LoadTypes'
<1>1. CASE UNCHANGED vars
  BY <1>1 DEF vars, rows, processes, loads, LoadTypes, TypeOK, RunIds
<1>2. CASE InterruptStaleRuns \/ WaitForLoad
  <2>1. CASE InterruptStaleRuns
    BY <2>1 DEF InterruptStaleRuns, Thread, rows, processes, loads, LoadTypes, TypeOK
  <2>2. CASE WaitForLoad
    BY <2>2 DEF WaitForLoad, Thread, rows, processes, loads, LoadTypes, TypeOK
  <2> QED
    BY <1>2, <2>1, <2>2
<1>3. ASSUME NEW c \in Callers, NEW request \in Requests \cup {PurgeChain}, Ask(c, request)
      PROVE  LoadTypes'
  <2>1. request \in AllRequests
    BY RequestsAssumption, ChainIsRequest
  <2>2. asked' \in [Callers -> AllRequests \cup {Nothing}]
    BY <1>3, <2>1 DEF Ask, TypeOK
  <2>3. cleared' \in BOOLEAN
    BY <1>3 DEF Ask, TypeOK
  <2> QED
    BY <1>3, <2>2, <2>3 DEF Ask, LoadTypes, TypeOK, loads
<1>4. ASSUME NEW c \in Callers, Start(c)
      PROVE  LoadTypes'
  BY <1>4 DEF Start, Insert, Thread, processes, loads, LoadTypes, TypeOK, RunIds
<1>5. ASSUME NEW c \in Callers, Conflict(c)
      PROVE  LoadTypes'
  BY <1>5 DEF Conflict, rows, processes, loads, LoadTypes, TypeOK, RunIds
<1>6. ASSUME NEW q \in RunIds, GrowStale(q) \/ Stop(q)
      PROVE  LoadTypes'
  <2>1. CASE GrowStale(q)
    BY <2>1 DEF GrowStale, Thread, rows, processes, loads, LoadTypes, TypeOK
  <2>2. CASE Stop(q)
    BY <2>2 DEF Stop, Thread, rows, processes, loads, LoadTypes, TypeOK
  <2> QED
    BY <1>6, <2>1, <2>2
<1>7. ASSUME NEW q \in RunIds, Claim(q)
      PROVE  LoadTypes'
  BY <1>7 DEF Claim, Thread, processes, loads, LoadTypes, TypeOK, RunIds
<1>8. ASSUME NEW q \in RunIds, Spawn(q)
      PROVE  LoadTypes'
  BY <1>8 DEF Spawn, Thread, rows, loads, LoadTypes, TypeOK, RunIds
<1>9. ASSUME NEW q \in RunIds, Beat(q) \/ Expire(q)
      PROVE  LoadTypes'
  <2>1. CASE Beat(q)
    BY <2>1 DEF Beat, Thread, rows, processes, loads, LoadTypes, TypeOK
  <2>2. CASE Expire(q)
    BY <2>2 DEF Expire, Thread, rows, processes, loads, LoadTypes, TypeOK
  <2> QED
    BY <1>9, <2>1, <2>2
<1>10. ASSUME NEW q \in RunIds, Kill(q) \/ Collect(q) \/ RunnerRaises(q)
      PROVE  LoadTypes'
  <2>1. CASE Kill(q)
    BY <2>1 DEF Kill, Thread, rows, processes, loads, LoadTypes, TypeOK
  <2>2. CASE Collect(q)
    BY <2>2 DEF Collect, Thread, rows, processes, loads, LoadTypes, TypeOK
  <2>3. CASE RunnerRaises(q)
    BY <2>3 DEF RunnerRaises, Thread, rows, processes, loads, LoadTypes, TypeOK
  <2> QED
    BY <1>10, <2>1, <2>2, <2>3
<1>11. ASSUME NEW q \in RunIds, Finish(q) \/ FinishFailed(q)
      PROVE  LoadTypes'
  <2>1. CASE Finish(q)
    BY <2>1 DEF Finish, Thread, rows, processes, loads, LoadTypes, TypeOK
  <2>2. CASE FinishFailed(q)
    BY <2>2 DEF FinishFailed, Thread, rows, processes, loads, LoadTypes, TypeOK
  <2> QED
    BY <1>11, <2>1, <2>2
<1>12. ASSUME NEW q \in RunIds, ReadBack(q) \/ ChainBlocked(q) \/ ThreadDies(q)
      PROVE  LoadTypes'
  <2>1. CASE ReadBack(q)
    BY <2>1 DEF ReadBack, Thread, rows, processes, loads, LoadTypes, TypeOK
  <2>2. CASE ChainBlocked(q)
    BY <2>2 DEF ChainBlocked, Thread, rows, processes, loads, LoadTypes, TypeOK
  <2>3. CASE ThreadDies(q)
    BY <2>3 DEF ThreadDies, Thread, rows, processes, loads, LoadTypes, TypeOK
  <2> QED
    BY <1>12, <2>1, <2>2, <2>3
<1>13. ASSUME NEW q \in RunIds, ChainSweep(q)
      PROVE  LoadTypes'
  BY <1>13 DEF ChainSweep, Interrupted, Thread, processes, loads, LoadTypes, TypeOK, RunIds
<1>14. ASSUME NEW q \in RunIds, ChainStart(q)
      PROVE  LoadTypes'
  BY <1>14 DEF ChainStart, Insert, processes, loads, LoadTypes, TypeOK, RunIds
<1>15. ASSUME NEW q \in RunIds, ProcessStep(q)
      PROVE  LoadTypes'
  <2>1. ASSUME NEW s \in Sources, LoadSource(q, s)
        PROVE  LoadTypes'
    BY <2>1, TakeTypes DEF LoadSource, rows
  <2>2. ASSUME NEW s \in Sources, SkipSource(q, s)
        PROVE  LoadTypes'
    BY <2>2 DEF SkipSource, LoadTypes, TypeOK, rows, loads
  <2>3. ASSUME NEW s \in Sources, SourceEnds(q, s)
        PROVE  LoadTypes'
    BY <2>3, FreeTypes DEF SourceEnds, rows
  <2>4. CASE ProcessEnds(q)
    BY <2>4 DEF ProcessEnds, LoadTypes, TypeOK, rows, loads
  <2> QED
    BY <1>15, <2>1, <2>2, <2>3, <2>4 DEF ProcessStep
<1>16. ASSUME NEW q \in RunIds, ProcessDies(q)
      PROVE  LoadTypes'
  BY <1>16 DEF ProcessDies, rows, loads, LoadTypes, TypeOK, RunIds
<1>17. ASSUME NEW s \in Sources, ScheduledLoadStarts(s) \/ ScheduledLoadEnds(s) \/ AbortSource(s)
      PROVE  LoadTypes'
  <2>1. CASE ScheduledLoadStarts(s)
    BY <2>1, TakeTypes DEF ScheduledLoadStarts, rows
  <2>2. CASE ScheduledLoadEnds(s)
    BY <2>2, FreeTypes DEF ScheduledLoadEnds, rows
  <2>3. CASE AbortSource(s)
    BY <2>3, FreeTypes DEF AbortSource, rows
  <2> QED
    BY <1>17, <2>1, <2>2, <2>3
<1> QED
  BY <1>1, <1>2, <1>3, <1>4, <1>5, <1>6, <1>7, <1>8, <1>9, <1>10, <1>11, <1>12, <1>13,
     <1>14, <1>15, <1>16, <1>17 DEF Next, ThreadStep

-----------------------------------------------------------------------------
(* The invariant, and what it gives.                                       *)

LEMMA Steps ==
  ASSUME IInv, [Next]_vars
  PROVE  IInv' /\ EndingsKept
<1> USE DEF IInv
<1>1. EndingsKept /\ RowsKept /\ GoneKept /\ FollowingKept
  BY EndingStays, RowsStay, GoneStays, FollowingStays
<1>2. TypeOK'
  BY RowTypesStep, WorkTypesStep, LoadTypesStep DEF RowTypes, WorkTypes, LoadTypes, TypeOK
<1>3. lastId' \in Nat
  BY <1>2, BoundsAssumption DEF TypeOK
<1>4. RowsAreDense' /\ OpenedAreStarted' /\ ThreadsWait'
  BY <1>1, DenseStep, OpenedStep, WaitStep
<1>5. ChainsFollow' /\ OneSuccessor'
  BY <1>1, <1>3, ChainsStep, OneSuccessorStep
<1> QED
  BY <1>1, <1>2, <1>4, <1>5

LEMMA Invariant == Spec => []IInv
<1>1. IInv /\ [Next]_vars => IInv'
  BY Steps
<1> QED
  BY InitIInv, <1>1, PTL DEF Spec

\* A row that ended keeps its ending, whatever its thread, its process and the sweeps do.
THEOREM SpecEndedRowsFrozen == Spec => EndedRowsFrozen
<1>1. IInv /\ [Next]_vars
      => [\A r \in RunIds : status[r] \in Ended =>
            status'[r] = status[r] /\ code'[r] = code[r]]_vars
  BY Steps DEF EndingsKept
<1> QED
  BY <1>1, Invariant, PTL DEF Spec, EndedRowsFrozen

\* The chain goes on once from a step that ended well, and from no other.
THEOREM SpecStoppedChainEnds == Spec => []StoppedChainEnds
<1>1. IInv => StoppedChainEnds
  BY DEF IInv, ChainsFollow, GoesOn, OneSuccessor, StoppedChainEnds
<1> QED
  BY <1>1, Invariant, PTL

\* The process of a step has ended before the next step begins.
THEOREM SpecChainStepsApart == Spec => []ChainStepsApart
<1>1. IInv => ChainStepsApart
  BY DEF IInv, ChainsFollow, ChainStepsApart
<1> QED
  BY <1>1, Invariant, PTL
=============================================================================
