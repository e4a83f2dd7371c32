------------------------- MODULE AnalysisRunsProofs -------------------------
(***************************************************************************)
(* Theorems about AnalysisRuns for any number of concurrent requests and   *)
(* any snapshots.                                                          *)
(***************************************************************************)
EXTENDS AnalysisRuns, TLAPS

\* Handlers past their first read, which have not answered.
InFlight(r) == stage[r] \in {"preparing", "analysing"}

\* Whoever read a run, and whoever started one, carries its snapshot; handlers
\* that lost an insert, too, know that there is a run.
HandlersAreBound ==
    \A r \in Requests :
        /\ existing[r] # NoRun => run # NoRun
        /\ stage[r] \in {"analysing", "conflicted"} => run # NoRun
        /\ stage[r] = "analysing" => run.input = snapshotOf[r]
        /\ InFlight(r) /\ existing[r] # NoRun => run.input = snapshotOf[r]

\* While the first analysis is at work its run is "running", so nobody else
\* analyses, or found a run to restart.
FirstAnalysisIsAlone ==
    \A r, q \in Requests :
        stage[r] = "analysing" /\ existing[r] = NoRun =>
            /\ run.status = "running"
            /\ q # r /\ InFlight(q) => stage[q] = "preparing" /\ existing[q] = NoRun

\* A request that lost an insert found no run, and is not the author of what
\* the run has saved: the author has its answer.
AnswersFit ==
    /\ \A r \in Requests : stage[r] = "conflicted" => existing[r] = NoRun
    /\ run # NoRun /\ run.output # NoOutput => stage[run.output.by] = "ok"
    /\ AnswerFitsRequest

RunsInv ==
    /\ TypeOK
    /\ HandlersAreBound
    /\ FirstAnalysisIsAlone
    /\ SavedResultFitsRun
    /\ RunningRunHasHandler
    /\ AnswersFit

\* Nothing has been read or written at the start.
LEMMA InitInv == Init => RunsInv
BY DEF Init, RunsInv, TypeOK, Stages, HandlersAreBound, InFlight, FirstAnalysisIsAlone,
   SavedResultFitsRun, RunningRunHasHandler, AnswersFit, AnswerFitsRequest

\* Every step keeps the row and the handlers well formed: a restart and an end
\* find the row their handler knows of.
LEMMA TypeStep ==
    ASSUME TypeOK, HandlersAreBound, SavedResultFitsRun, NEW r \in Requests, Step(r)
    PROVE  TypeOK'
<1>. USE SentinelAssumption DEF Goto, TypeOK, Runs, Results, RunStatuses, Stages,
       HandlersAreBound, InFlight, SavedResultFitsRun
<1>1. CASE Replay(r)
  BY <1>1 DEF Replay, ReadRun, MayReplay, Succeed
<1>2. CASE Prepare(r)
  BY <1>2 DEF Prepare, ReadRun, MayAnalyse
<1>3. CASE Refuse(r)
  BY <1>3 DEF Refuse, ReadRun, MayReplay, MayAnalyse
<1>4. CASE InsertRun(r)
  BY <1>4 DEF InsertRun
<1>5. CASE LoseInsert(r)
  BY <1>5 DEF LoseInsert
<1>6. CASE ReadConcurrent(r)
  BY <1>6 DEF ReadConcurrent, Succeed
<1>7. CASE RestartRun(r)
  BY <1>7 DEF RestartRun
<1>8. CASE FailBeforeRun(r)
  BY <1>8 DEF FailBeforeRun
<1>9. CASE SaveResult(r)
  BY <1>9 DEF SaveResult, EndRun, Succeed
<1>10. CASE RecordFailure(r)
  BY <1>10 DEF RecordFailure, EndRun
<1>11. CASE Abandon(r)
  BY <1>11 DEF Abandon, EndRun
<1>. QED
  BY <1>1, <1>2, <1>3, <1>4, <1>5, <1>6, <1>7, <1>8, <1>9, <1>10, <1>11 DEF Step

\* The snapshot of the row never changes: only its own is ever written again.
LEMMA BoundStep ==
    ASSUME TypeOK, HandlersAreBound, NEW r \in Requests, Step(r)
    PROVE  HandlersAreBound'
<1>. USE SentinelAssumption DEF Goto, TypeOK, Runs, Results, RunStatuses, Stages,
       HandlersAreBound, InFlight
<1>1. CASE Replay(r)
  BY <1>1 DEF Replay, ReadRun, MayReplay, Succeed
<1>2. CASE Prepare(r)
  BY <1>2 DEF Prepare, ReadRun, MayAnalyse
<1>3. CASE Refuse(r)
  BY <1>3 DEF Refuse, ReadRun, MayReplay, MayAnalyse
<1>4. CASE InsertRun(r)
  BY <1>4 DEF InsertRun
<1>5. CASE LoseInsert(r)
  BY <1>5 DEF LoseInsert
<1>6. CASE ReadConcurrent(r)
  BY <1>6 DEF ReadConcurrent, Succeed
<1>7. CASE RestartRun(r)
  BY <1>7 DEF RestartRun
<1>8. CASE FailBeforeRun(r)
  BY <1>8 DEF FailBeforeRun
<1>9. CASE SaveResult(r)
  <2>1. run' \in Runs /\ run'.input = run.input
    BY <1>9 DEF SaveResult, EndRun
  <2>. QED
    BY <1>9, <2>1 DEF SaveResult, EndRun, Succeed
<1>10. CASE RecordFailure(r)
  BY <1>10 DEF RecordFailure, EndRun
<1>11. CASE Abandon(r)
  BY <1>11 DEF Abandon, EndRun
<1>. QED
  BY <1>1, <1>2, <1>3, <1>4, <1>5, <1>6, <1>7, <1>8, <1>9, <1>10, <1>11 DEF Step

\* Nobody joins a first analysis: its row exists, so no insert succeeds, and is
\* not failed, so no restart is prepared.
LEMMA AloneStep ==
    ASSUME TypeOK, HandlersAreBound, FirstAnalysisIsAlone, NEW r \in Requests, Step(r)
    PROVE  FirstAnalysisIsAlone'
<1>. USE SentinelAssumption DEF Goto, TypeOK, Runs, Results, RunStatuses, Stages,
       HandlersAreBound, InFlight, FirstAnalysisIsAlone
<1>1. CASE Replay(r)
  BY <1>1 DEF Replay, ReadRun, MayReplay, Succeed
<1>2. CASE Prepare(r)
  BY <1>2 DEF Prepare, ReadRun, MayAnalyse
<1>3. CASE Refuse(r)
  BY <1>3 DEF Refuse, ReadRun, MayReplay, MayAnalyse
<1>4. CASE InsertRun(r)
  BY <1>4 DEF InsertRun
<1>5. CASE LoseInsert(r)
  BY <1>5 DEF LoseInsert
<1>6. CASE ReadConcurrent(r)
  BY <1>6 DEF ReadConcurrent, Succeed
<1>7. CASE RestartRun(r)
  BY <1>7 DEF RestartRun
<1>8. CASE FailBeforeRun(r)
  BY <1>8 DEF FailBeforeRun
<1>9. CASE SaveResult(r)
  BY <1>9 DEF SaveResult, EndRun, Succeed
<1>10. CASE RecordFailure(r)
  BY <1>10 DEF RecordFailure, EndRun
<1>11. CASE Abandon(r)
  BY <1>11 DEF Abandon, EndRun
<1>. QED
  BY <1>1, <1>2, <1>3, <1>4, <1>5, <1>6, <1>7, <1>8, <1>9, <1>10, <1>11 DEF Step

\* Status, input and output of the row stay consistent.
LEMMA SavedStep ==
    ASSUME TypeOK, HandlersAreBound, SavedResultFitsRun, NEW r \in Requests, Step(r)
    PROVE  SavedResultFitsRun'
<1>. USE SentinelAssumption DEF Goto, TypeOK, Runs, Results, RunStatuses, Stages,
       HandlersAreBound, InFlight, SavedResultFitsRun
<1>1. CASE Replay(r)
  BY <1>1 DEF Replay, ReadRun, MayReplay, Succeed
<1>2. CASE Prepare(r)
  BY <1>2 DEF Prepare, ReadRun, MayAnalyse
<1>3. CASE Refuse(r)
  BY <1>3 DEF Refuse, ReadRun, MayReplay, MayAnalyse
<1>4. CASE InsertRun(r)
  BY <1>4 DEF InsertRun
<1>5. CASE LoseInsert(r)
  BY <1>5 DEF LoseInsert
<1>6. CASE ReadConcurrent(r)
  BY <1>6 DEF ReadConcurrent, Succeed
<1>7. CASE RestartRun(r)
  BY <1>7 DEF RestartRun
<1>8. CASE FailBeforeRun(r)
  BY <1>8 DEF FailBeforeRun
<1>9. CASE SaveResult(r)
  BY <1>9 DEF SaveResult, EndRun, Succeed
<1>10. CASE RecordFailure(r)
  BY <1>10 DEF RecordFailure, EndRun
<1>11. CASE Abandon(r)
  BY <1>11 DEF Abandon, EndRun
<1>. QED
  BY <1>1, <1>2, <1>3, <1>4, <1>5, <1>6, <1>7, <1>8, <1>9, <1>10, <1>11 DEF Step

\* A running run keeps a handler, or has lost it for good.
LEMMA HandlerStep ==
    ASSUME TypeOK, HandlersAreBound, RunningRunHasHandler, NEW r \in Requests, Step(r)
    PROVE  RunningRunHasHandler'
<1>. USE SentinelAssumption DEF Goto, TypeOK, Runs, Results, RunStatuses, Stages,
       HandlersAreBound, InFlight, RunningRunHasHandler
<1>1. CASE Replay(r)
  BY <1>1 DEF Replay, ReadRun, MayReplay, Succeed
<1>2. CASE Prepare(r)
  BY <1>2 DEF Prepare, ReadRun, MayAnalyse
<1>3. CASE Refuse(r)
  BY <1>3 DEF Refuse, ReadRun, MayReplay, MayAnalyse
<1>4. CASE InsertRun(r)
  BY <1>4 DEF InsertRun
<1>5. CASE LoseInsert(r)
  BY <1>5 DEF LoseInsert
<1>6. CASE ReadConcurrent(r)
  BY <1>6 DEF ReadConcurrent, Succeed
<1>7. CASE RestartRun(r)
  BY <1>7 DEF RestartRun
<1>8. CASE FailBeforeRun(r)
  BY <1>8 DEF FailBeforeRun
<1>9. CASE SaveResult(r)
  BY <1>9 DEF SaveResult, EndRun, Succeed
<1>10. CASE RecordFailure(r)
  BY <1>10 DEF RecordFailure, EndRun
<1>11. CASE Abandon(r)
  BY <1>11 DEF Abandon, EndRun
<1>. QED
  BY <1>1, <1>2, <1>3, <1>4, <1>5, <1>6, <1>7, <1>8, <1>9, <1>10, <1>11 DEF Step

\* Answers are given by comparing snapshots or by the request's own analysis,
\* except after a lost insert.
LEMMA AnswerStep ==
    ASSUME TypeOK, HandlersAreBound, SavedResultFitsRun, AnswersFit, NEW r \in Requests, Step(r)
    PROVE  AnswersFit'
<1>. USE SentinelAssumption DEF Goto, TypeOK, Runs, Results, RunStatuses, Stages,
       HandlersAreBound, InFlight, SavedResultFitsRun, AnswersFit, AnswerFitsRequest
<1>1. CASE Replay(r)
  BY <1>1 DEF Replay, ReadRun, MayReplay, Succeed
<1>2. CASE Prepare(r)
  BY <1>2 DEF Prepare, ReadRun, MayAnalyse
<1>3. CASE Refuse(r)
  BY <1>3 DEF Refuse, ReadRun, MayReplay, MayAnalyse
<1>4. CASE InsertRun(r)
  BY <1>4 DEF InsertRun
<1>5. CASE LoseInsert(r)
  BY <1>5 DEF LoseInsert
<1>6. CASE ReadConcurrent(r)
  BY <1>6 DEF ReadConcurrent, Succeed
<1>7. CASE RestartRun(r)
  BY <1>7 DEF RestartRun
<1>8. CASE FailBeforeRun(r)
  BY <1>8 DEF FailBeforeRun
<1>9. CASE SaveResult(r)
  BY <1>9 DEF SaveResult, EndRun, Succeed
<1>10. CASE RecordFailure(r)
  BY <1>10 DEF RecordFailure, EndRun
<1>11. CASE Abandon(r)
  BY <1>11 DEF Abandon, EndRun
<1>. QED
  BY <1>1, <1>2, <1>3, <1>4, <1>5, <1>6, <1>7, <1>8, <1>9, <1>10, <1>11 DEF Step

\* A stuttering step changes nothing the invariant speaks of.
LEMMA StutterStep ==
    ASSUME RunsInv, UNCHANGED vars
    PROVE  RunsInv'
BY DEF vars, RunsInv, TypeOK, HandlersAreBound, InFlight, FirstAnalysisIsAlone,
   SavedResultFitsRun, RunningRunHasHandler, AnswersFit, AnswerFitsRequest

\* The inductive invariant always holds.
THEOREM RunsInvariantHolds == Spec => []RunsInv
<1>1. RunsInv /\ [Next]_vars => RunsInv'
  <2>1. ASSUME RunsInv, NEW r \in Requests, Step(r)
        PROVE  RunsInv'
    BY <2>1, TypeStep, BoundStep, AloneStep, SavedStep, HandlerStep, AnswerStep DEF RunsInv
  <2>. QED  BY <2>1, StutterStep DEF Next
<1>. QED
  BY InitInv, <1>1, PTL DEF Spec

\* The row of ai_analysis_runs and its handlers are always well formed.
THEOREM RunsTypeCorrect == Spec => []TypeOK
BY RunsInvariantHolds, PTL DEF RunsInv

\* A first analysis of a task is exclusive although analyze_case locks nothing;
\* two analyses overlap only when both handlers found a failed run.
THEOREM FirstAnalysisIsExclusive == Spec => []OverlapOnlyAfterFailure
<1>1. RunsInv => OverlapOnlyAfterFailure
  BY DEF RunsInv, FirstAnalysisIsAlone, InFlight, OverlapOnlyAfterFailure
<1>. QED
  BY RunsInvariantHolds, <1>1, PTL

\* What a run has saved is a result for its snapshot, whichever overlapping
\* handlers wrote the columns.
THEOREM SavedResultsFit == Spec => []SavedResultFitsRun
BY RunsInvariantHolds, PTL DEF RunsInv

\* Only a handler that died can leave a run "running".
THEOREM NoRunIsStranded == Spec => []RunningRunHasHandler
BY RunsInvariantHolds, PTL DEF RunsInv

\* A 200 answer is about the snapshot of its request, unless the request lost
\* the insert.
THEOREM AnswersFitRequests == Spec => []AnswerFitsRequest
<1>1. RunsInv => AnswerFitsRequest
  BY DEF RunsInv, AnswersFit
<1>. QED
  BY RunsInvariantHolds, <1>1, PTL

\* No step takes the row or its snapshot away: a restart finds in the row the
\* snapshot it compared with its own when it read it.
LEMMA SnapshotStays ==
    ASSUME TypeOK, HandlersAreBound, NEW r \in Requests, Step(r), run # NoRun
    PROVE  run' # NoRun /\ run'.input = run.input
<1>1. run \in Runs
  BY DEF TypeOK
<1>2. CASE run' = run
  BY <1>2
<1>3. CASE InsertRun(r)
  BY <1>3 DEF InsertRun
<1>4. CASE RestartRun(r)
  <2>1. run.input = snapshotOf[r]
    BY <1>4 DEF RestartRun, HandlersAreBound, InFlight
  <2>2. /\ snapshotOf[r] \in Snapshots
        /\ (IF existing[r].output = NoOutput THEN run.output ELSE NoOutput)
             \in Results \cup {NoOutput}
    BY <1>1 DEF TypeOK, Runs
  <2>3. run' \in Runs /\ run'.input = snapshotOf[r]
    BY <1>4, <2>2 DEF RestartRun, Runs, RunStatuses
  <2>. QED
    BY <2>1, <2>3, SentinelAssumption
<1>5. CASE SaveResult(r)
  <2>1. run' \in Runs /\ run'.input = run.input
    BY <1>1, <1>5 DEF SaveResult, Runs, RunStatuses, TypeOK, Results
  <2>. QED
    BY <2>1, SentinelAssumption
<1>6. CASE RecordFailure(r)
  <2>1. run' \in Runs /\ run'.input = run.input
    BY <1>1, <1>6 DEF RecordFailure, Runs, RunStatuses
  <2>. QED
    BY <2>1, SentinelAssumption
<1>7. CASE ~ (InsertRun(r) \/ RestartRun(r) \/ SaveResult(r) \/ RecordFailure(r))
  BY <1>2, <1>7 DEF Step, Replay, Prepare, Refuse, ReadRun, LoseInsert, ReadConcurrent,
     FailBeforeRun, Abandon
<1>. QED
  BY <1>3, <1>4, <1>5, <1>6, <1>7

\* A task id stays bound to the snapshot of its first analysis, although
\* restarts write the column again without looking at it.
THEOREM TaskIsBound == Spec => RunKeepsSnapshot
<1>1. RunsInv /\ [Next]_vars => [run # NoRun => run' # NoRun /\ run'.input = run.input]_vars
  BY SnapshotStays DEF RunsInv, Next
<1>. QED
  BY <1>1, RunsInvariantHolds, PTL DEF Spec, RunKeepsSnapshot

=============================================================================
