---------------------------- MODULE AnalysisRuns ----------------------------
(***************************************************************************)
(* POST /internal/v1/ai/analyze of the Python service                      *)
(* (api/internal_routes.py, analyze_case): concurrent requests that carry  *)
(* the same task id and share its row of ai_analysis_runs.                 *)
(*                                                                         *)
(* The row is read without a lock, so a handler is several actions: read,  *)
(* commit of the run, analysis, commit of its end.  The ORM writes only    *)
(* columns it believes changed since it read them.                         *)
(***************************************************************************)
CONSTANTS Requests,   \* HTTP requests with this task id
          Snapshots,  \* case snapshots they may carry (input_data)
          NoRun,      \* the row does not exist
          NoOutput    \* output_data is NULL

\* Two analyses of one snapshot need not agree, so a result names its request.
Results == [input : Snapshots, by : Requests]
RunStatuses == {"running", "completed", "failed"}
Runs == [status : RunStatuses, input : Snapshots, output : Results \cup {NoOutput}]

ASSUME SentinelAssumption == NoRun \notin Runs /\ NoOutput \notin Results

VARIABLES run,         \* the row
          stage,       \* where the handler of a request is, or how it answered
          snapshotOf,  \* the snapshot the request carries
          existing,    \* the row as the handler first read it
          result       \* the result sent with a 200 answer

vars == <<run, stage, snapshotOf, existing, result>>

\* Answers: 200 "ok", 409 "different" or "busy", 500 "error"; an "abandoned"
\* handler died, or lost the database, before it could end its run.
Stages == {"idle", "preparing", "conflicted", "analysing",
           "ok", "different", "busy", "error", "abandoned"}

\* The row, the handlers and what they hold are well formed.
TypeOK ==
    /\ run \in Runs \cup {NoRun}
    /\ stage \in [Requests -> Stages]
    /\ snapshotOf \in [Requests -> Snapshots]
    /\ existing \in [Requests -> Runs \cup {NoRun}]
    /\ result \in [Requests -> Results \cup {NoOutput}]

Init ==
    /\ run = NoRun
    /\ stage = [r \in Requests |-> "idle"]
    /\ snapshotOf \in [Requests -> Snapshots]
    /\ existing = [r \in Requests |-> NoRun]
    /\ result = [r \in Requests |-> NoOutput]

Goto(r, next) == stage' = [stage EXCEPT ![r] = next]

Succeed(r, output) ==
    /\ Goto(r, "ok")
    /\ result' = [result EXCEPT ![r] = output]

-----------------------------------------------------------------------------
(* The first read and its early returns.                                   *)

\* Variants with one of the comparisons missing.
ReplayForTaskId(r) == run # NoRun /\ run.status = "completed"
AnalyseWhileRunning(r) ==
    run # NoRun => run.input = snapshotOf[r] /\ run.status # "completed"
AnalyseAnySnapshot(r) == run # NoRun => run.status = "failed"

\* That a completed run has output_data is SavedResultFitsRun below.
MayReplay(r) ==
    run # NoRun /\ run.input = snapshotOf[r] /\ run.status = "completed"

MayAnalyse(r) ==
    run # NoRun => run.input = snapshotOf[r] /\ run.status = "failed"

ReadRun(r) ==
    /\ stage[r] = "idle"
    /\ existing' = [existing EXCEPT ![r] = run]
    /\ UNCHANGED <<run, snapshotOf>>

Replay(r) == ReadRun(r) /\ MayReplay(r) /\ Succeed(r, run.output)

Prepare(r) == ReadRun(r) /\ MayAnalyse(r) /\ Goto(r, "preparing") /\ UNCHANGED result

Refuse(r) ==
    /\ ReadRun(r)
    /\ ~ (MayReplay(r) \/ MayAnalyse(r))
    /\ Goto(r, IF run.input # snapshotOf[r] THEN "different" ELSE "busy")
    /\ UNCHANGED result

-----------------------------------------------------------------------------
(* The commit that starts the analysis.                                    *)

InsertRun(r) ==
    /\ stage[r] = "preparing" /\ existing[r] = NoRun
    /\ run = NoRun
    /\ run' = [status |-> "running", input |-> snapshotOf[r], output |-> NoOutput]
    /\ Goto(r, "analysing")
    /\ UNCHANGED <<snapshotOf, existing, result>>

\* The unique task_id raises IntegrityError; after the rollback the handler
\* reads the row of the other request and compares no snapshot.
LoseInsert(r) ==
    /\ stage[r] = "preparing" /\ existing[r] = NoRun
    /\ run # NoRun
    /\ Goto(r, "conflicted")
    /\ UNCHANGED <<run, snapshotOf, existing, result>>

ReadConcurrent(r) ==
    /\ stage[r] = "conflicted"
    /\ \/ run.status = "completed" /\ Succeed(r, run.output)
       \/ run.status # "completed" /\ Goto(r, "busy") /\ UNCHANGED result
    /\ UNCHANGED <<run, snapshotOf, existing>>

\* UPDATE ... WHERE id = ...: whatever the row holds by now.  output_data is
\* written only if the handler read a value in it.
RestartRun(r) ==
    /\ stage[r] = "preparing" /\ existing[r] # NoRun
    /\ run' = [status |-> "running",
               input  |-> snapshotOf[r],
               output |-> IF existing[r].output = NoOutput THEN run.output ELSE NoOutput]
    /\ Goto(r, "analysing")
    /\ UNCHANGED <<snapshotOf, existing, result>>

\* Any other error before the run is committed, and a crash, leave the row alone.
FailBeforeRun(r) ==
    /\ stage[r] \in {"preparing", "conflicted"}
    /\ Goto(r, "error")
    /\ UNCHANGED <<run, snapshotOf, existing, result>>

-----------------------------------------------------------------------------
(* The analysis and the commit that ends it.                               *)

EndRun(r) ==
    /\ stage[r] = "analysing"
    /\ UNCHANGED <<snapshotOf, existing>>

SaveResult(r) ==
    LET output == [input |-> snapshotOf[r], by |-> r] IN
    /\ EndRun(r)
    /\ run' = [run EXCEPT !.status = "completed", !.output = output]
    /\ Succeed(r, output)

\* Variant: roll back and answer, but leave the row as it is.
ReportFailure(r) ==
    EndRun(r) /\ Goto(r, "error") /\ UNCHANGED <<run, result>>

\* The analysis or its commit fails; the status found is not looked at, and
\* output_data is left alone.
RecordFailure(r) ==
    /\ EndRun(r)
    /\ run' = [run EXCEPT !.status = "failed"]
    /\ Goto(r, "error")
    /\ UNCHANGED result

Abandon(r) == EndRun(r) /\ Goto(r, "abandoned") /\ UNCHANGED <<run, result>>

-----------------------------------------------------------------------------
Step(r) ==
    \/ Replay(r) \/ Prepare(r) \/ Refuse(r)
    \/ InsertRun(r) \/ LoseInsert(r) \/ ReadConcurrent(r) \/ RestartRun(r)
    \/ FailBeforeRun(r)
    \/ SaveResult(r) \/ RecordFailure(r) \/ Abandon(r)

Next == \E r \in Requests : Step(r)

Spec == Init /\ [][Next]_vars

-----------------------------------------------------------------------------
(* Properties.                                                             *)

\* The unlocked read lets two analyses of a task overlap only when both
\* handlers found a failed run: a first analysis is never joined by another.
OverlapOnlyAfterFailure ==
    \A r1, r2 \in Requests :
        r1 # r2 /\ stage[r1] = "analysing" /\ stage[r2] = "analysing"
            => existing[r1] # NoRun /\ existing[r2] # NoRun

\* A completed run has its result, and a saved result is always one of the
\* snapshot the task id is bound to, although overlapping handlers write only
\* some columns.
SavedResultFitsRun ==
    run # NoRun =>
        /\ run.status = "completed" => run.output # NoOutput
        /\ run.output # NoOutput => run.output.input = run.input

\* A task id stays bound to the snapshot of its first analysis: no restart, whatever
\* it overlaps with, makes it an analysis of something else.
RunKeepsSnapshot ==
    [][run # NoRun => run' # NoRun /\ run'.input = run.input]_vars

\* A 200 answer carries a result, for the snapshot that was sent.  The exception
\* is the loser of two concurrent inserts, answered with what the winner saved.
AnswerFitsRequest ==
    \A r \in Requests :
        stage[r] = "ok" =>
            /\ result[r] # NoOutput
            /\ existing[r] # NoRun \/ result[r].by = r => result[r].input = snapshotOf[r]

\* A run stays "running" (and is refused for ever) only through a handler that
\* never reached its end: no sequence of failures and retries strands it.
RunningRunHasHandler ==
    run # NoRun /\ run.status = "running"
        => \E r \in Requests : stage[r] \in {"analysing", "abandoned"}

\* docs/production-shaped-architecture.md:95: once a task was answered with a
\* result, a request that comes later does not start the analysis again.
SucceededTaskIsNotAnalysedAgain ==
    [][\A r \in Requests : stage[r] = "idle" /\ stage'[r] = "preparing"
            => \A q \in Requests : stage[q] # "ok"]_vars

=============================================================================
