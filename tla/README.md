# TLA+ models of ResolveFlow

ResolveFlow handles after-sales tickets. A Spring Boot service
(`business-service/`) owns tickets, AI tasks, approvals and money-moving
actions in MySQL; a FastAPI service (`backend/`) analyses a snapshot of a case
and returns a recommendation; a Vue front end talks to the Java API. This
directory models

* the business service's core: concurrent request handlers, worker threads and
  the dispatcher on shared rows, with crashes, retries, lease recovery and late
  answers;
* the analysis endpoint of the Python service (concurrent requests for one
  task) and the agent graph it runs, with its evidence gate and its budgets;
* the compatibility path of the Python service, which runs the same agents from
  a job queue of its own, pauses for the customer and resumes;
* the knowledge base: uploads, index rebuilds in two stores, and retrievals.

## 1. Inventory

| Component | State it keeps | Operations | Interacts with | What makes it correct |
| --- | --- | --- | --- | --- |
| Ticket state machine (`domain/Ticket.java`) | status, `@Version` | `transitionTo` and its callers | every service below writes tickets | only legal edges; RESOLVED is final; every write bumps the version |
| Intake and requeueing (`service/TicketService.java`) | ticket, message, evidence, task rows | `create`, `retry`, `addCustomerMessage`, `queue` | inserts AI tasks, publishes the AFTER_COMMIT wake-up | a queued ticket always has a live task of its version; one ticket per intake key |
| AI task queue (`ai/AiTaskPersistence`, `AiTaskWorker`, `AiTaskExecutor`, `AiTaskDispatcher`, `AiTaskSignalListener`, `AiRetryPolicy`, `AiFailureClassifier`) | `ai_tasks`: status, version, attempts, lease; threads of the pool | `prepare`, `execute`, `apply`, `recordFailure`, `recoverExpiredLeases`, scan | row locks with other workers, tickets without locks, HTTP to Python | no ticket lost, no result of an outdated version applied, bounded retries, ended tasks final, everything ends |
| Approvals (`service/ApprovalService.java`) | `approval_tasks` | `approveCoupon`, `reject`, `assignSupervisor`, `reviewRefund`, `list` | tickets, business actions; may run while the AI has the ticket | one open approval per type; one decision per approval |
| Business actions (`action/`) | `business_action_executions`; the coupon gateway | `issueCoupon`, `registerRefund` | called inside a decision's transaction | money moves at most once per ticket and is on record |
| Dispatcher coordination (`ai/AiDispatchCoordinator.java`) | a Redis key with a TTL | `tryAcquire`, `close` | the dispatcher | a dispatcher releases only its own lease; correctness must not depend on it |
| Analysis endpoint (`backend/app/api/internal_routes.py`) | `ai_analysis_runs` | `analyze_case` | called by `AiClient`, runs the orchestrator | same task analysed once, replay returns the saved result, 409 while running |
| Snapshot orchestrator (`snapshot_orchestrator.py`) | the state of one agent graph, in memory | supervisor, specialists, case action, evidence gate, analyst, risk control, reply | case tools, knowledge base, model provider | compensation only on sufficient evidence; the published plan is what ran; always ends |
| Case investigation (`case_investigation.py`, `case_tools.py`, `agent_skills.py`) | step and search counters, gathered evidence | plan, tool call, evidence evaluation | both orchestrators | at most 10 steps and 3 policy searches whatever a model says; the decision follows the evidence |
| Ticket processor and model providers (`ticket_processor.py`, `llm_provider.py`) | none | classify by rules or model | both orchestrators | a failing model falls back to the rules, as far as its errors are caught |
| Compatibility path (`processing_queue.py`, `multi_agent_orchestrator.py`, `api/routes.py`) | tickets, jobs, case states, messages, approvals of its own; background tasks | create, enqueue, claim, turn of the graph, reply, retry, recover, decide | used without the business service; disabled in Docker | one task per ticket; no reply and no job lost; a pause changes nothing; one open approval |
| Knowledge base (`knowledge_service.py`, `knowledge_admin.py`) | documents, chunks and the pointer in MySQL, collections in Chroma | create, upload, edit, reindex, retrieve | orchestrators, admin API | an answer comes from one complete index, of active documents only |
| Monitoring, admin proxy, web layer, JWT, request ids, seeder, migrations, evaluation, front end, scripts | none that the above depends on | | | not modelled (section 7) |

Hard behaviours: a ticket is read without a lock and written later, guarded
only by its version; a thread can outlive its lease, so two attempts of one
task run at once and cannot be told apart; approvals of an earlier round stay
open while a later round is with the AI; wake-ups are lost by crashes; the
coupon gateway is called inside a transaction that may roll back; the Python
run row is read and updated without a lock. A language model may pick any
action at any step; time passes during an analysis and during a pause of days;
a turn of the compatibility path commits its effects and its job's completion
in two transactions; MySQL and Chroma have no common transaction; rebuilds,
edits, uploads and retrievals overlap.

## 2. Modules

| Module | Models |
| --- | --- |
| `TicketStateMachine` | the status graph of `Ticket.transitionTo` |
| `TicketTable` | rows of `tickets`, snapshots, the optimistic version check |
| `AiTaskTable` | rows of `ai_tasks`, `AiTask`'s transitions, `AiRetryPolicy.shouldRetry` |
| `ApprovalTable` | rows of `approval_tasks` and `business_action_executions`, the gateway's effect |
| `BusinessService` | composes the tables: handlers, workers, dispatcher, decisions; all properties |
| `TicketLifecycle` | abstract specification: who a ticket waits for and what it was granted |
| `MCBusinessService` | symmetry for TLC |
| `BusinessServiceProofs` | theorems and proofs |
| `TicketLifecycleProofs` | the proof that `BusinessService` implements `TicketLifecycle` |
| `AnalysisRuns` | `analyze_case` and the row of one task id in `ai_analysis_runs`; its properties |
| `MCAnalysisRuns`, `AnalysisRunsProofs` | symmetry for TLC; theorems and proofs |
| `CaseEvidence` | `case_investigation.py` as operators: missing evidence, the gate's verdict, the fixed plan, the actions a model may pick; shared by the two graphs |
| `CaseEvidenceProofs` | lemmas on these operators, for any budgets |
| `SnapshotWorkflow` | the agent graph of one snapshot (`snapshot_orchestrator.py`) |
| `MCSnapshotWorkflow`, `SnapshotWorkflowProofs` | the cases for TLC; theorems and proofs |
| `TicketWorkflow` | one ticket of the compatibility path: queue, turns of the graph, replies, recovery, approvals |
| `MCTicketWorkflow`, `TicketWorkflowProofs` | the tickets for TLC; theorems and proofs |
| `KnowledgeIndex` | documents, uploads, rebuilds and retrievals |
| `AtomicIndex` | abstract specification: an index replaced at once |
| `MCKnowledgeIndex`, `KnowledgeIndexProofs` | symmetry for TLC; theorems and proofs |

`BusinessService` knows the Python service only as answers and failures
(`Answers`); `AnalysisRuns` knows the graph only as a result or an error;
`SnapshotWorkflow` shows that there is always one or the other. `KnowledgeIndex`
is what `search_policy` of both graphs asks; the graphs see it as "a source was
found or not".

### How code becomes actions

* A transaction that reads a ticket and writes it later is `Begin...` (row lock
  of its task or approval, read of the ticket) and `Commit...` (all writes, if
  the version is still the one read). `applyTxn`, `decisionTxn` and
  `requeueTxn` hold what was read and stand for the row lock. `Rollback...` and
  `Abort...` are version conflicts, illegal transitions and crashes. Commit is
  the moment the ticket's row is updated; MySQL's REPEATABLE READ makes the
  reads of a transaction those of one moment.
* `recordFailure` and `recoverExpiredLeases` are single actions: a version
  conflict rolls them back, ticket versions only grow, so what they read as
  outdated is outdated when they commit, and what they read as current is
  current if they commit.
* An attempt is a pair (task, number). `attemptStage` says where its thread is:
  `claimed` (prepare committed), `executing` (in the pool or its queue, calling
  Python), `applying`, `failed_retryable`/`failed_final` (exception classified,
  `recordFailure` still to run). Lease recovery leaves it alone, so a recovered
  task may have several live attempts.
* `Claim` stands for the AFTER_COMMIT wake-up and for the dispatcher's scan; a
  lost wake-up is a `Claim` that happens later.
* `LoseAttempt` is a crash of the thread or process, or a failing
  `recordFailure`. A crash of the process is several of these in a row together
  with aborted transactions; rows survive.
* `retry` and `addCustomerMessage` share `BeginRequeue`/`CommitRequeue`: both
  read the ticket, require a status and call `queue`.

* `analyze_case` is four moments: the unlocked read with its early returns
  (`Replay`, `Prepare`, `Refuse`), the commit that inserts or restarts the run
  (`InsertRun`, `RestartRun`; `LoseInsert` is the IntegrityError, followed by
  the read of `ReadConcurrent`), the analysis, and the commit of its end
  (`SaveResult`, `RecordFailure`). The session's `expire_on_commit=False` and
  the ORM's change tracking decide which columns an UPDATE carries: a restart
  writes `output_data` only if the handler had read a value in it.
  `RecordFailure` is one action: its read and write find the row as at one of
  the two moments. `Abandon` is a handler that dies, or whose failure handler
  fails too; `FailBeforeRun` any other error that leaves the row untouched.
  Rows of different task ids do not interact, so one suffices.

* A node of an agent graph is one action, and its conditional edge is part of
  it (`RouteAfterSupervisor`, `AfterSpecialist`, `AfterGate`). What the nodes
  append to the observation history is folded into `findings`: the latest
  result of each tool, the number of searches, and whether a policy source was
  retained, which is all the gate reads.
* With a model, `Classifications` allows every intent and `ChooseCaseAction`
  every action that the code accepts; an invalid answer, and an error that the
  agent catches, is the rules' choice. `ModelFails` is an answer that its agent
  does not catch and that ends the analysis: `chat` reads
  `choices[0].message.content` (`llm_provider.py:66`), and none of the
  four agents that ask a model catches all of what that can raise (the table of
  section 6). In `TicketWorkflow` it is one of the exceptions of
  `Raise`.
* A turn of the compatibility path works on `turn[w]`, the memory of its
  background task. Its effects are one commit (`CommitQuestion` or
  `CommitDecision`: messages, approval, ticket, case state), the end of its job
  is a second one (`Finish`). `Raise` is an exception anywhere in between,
  followed by `RecordFailure`; `LoseWorker` an exception in the claim or in the
  failure record itself; `Crash` stops the process. `Restart` and `Serve` are
  the lifespan of `main.py`: unfinished jobs run to their end before requests
  are served. The auxiliary variable `lost` remembers that a failure hit between
  the two commits (`"completion"`) or took a task without a record
  (`"worker"`).
* `OrderChanges` and `TimePasses` are the environment of `TicketWorkflow`: while
  a case waits for its customer, the parcel gets its first tracking event, moves,
  arrives (also with an event dated after the promise), the order is completed,
  and the promised time passes. MySQL's REPEATABLE READ lets a turn see the
  orders of one moment, so an order changes between two turns; the clock is
  read when a timeline is computed, so time passes at any step. A resumed turn
  goes from the supervisor straight to the gate with the facts of `state_data`
  and computes them again only if a tool is called for it.
* A rebuild of the knowledge base is `ReadDocuments` (which fixes what its
  transaction sees), `CreateCollection`, `AddEmbeddings`, `SwitchPointer` (the
  commit of chunks and pointer) or, from any of these, `FailRebuild`. A
  retrieval is `ReadPointer`, `QueryCollection`, `FetchRows`. `CountWritten` is
  the ORM's habit of writing only columns that changed with respect to the row
  it had read; `raced` is an auxiliary variable that remembers that the pointer
  had moved meanwhile. An upload is `CheckDuplicate` and `InsertDraft`, and holds
  `eventLoop` in between: the handler is a coroutine that does not await there.

### Abstractions

* Time. A due time, a lease expiry or a timeout is "some later moment"; the
  45 s lease starts at the claim, so it may expire while its attempt lives.
* Roles and coupon amounts: an actor with the needed role exists.
  `"INVALID"` stands for an unsupported recommendation or amount.
* The AI service is external: any answer of `Answers`, any failure, any delay;
  it echoes ids and version (`AiClient` rejects other ids, modelled as a
  failure).
* Messages, evidence, audit rows and metrics are left out. Ticket status NEW is
  never visible outside `create`'s transaction.
* The pool's threads and queue places are one number, `PoolCapacity`.
* What a customer wrote is its classification and whether it mentions a
  delivery. Tracking is one of none, moving, arrived on time, arrived late. The
  gate's delivery checks for anomaly and SLA lead to the action of the
  logistics check and hold when it does, so they are one slot.
* Retrieval for a case may find a source or not. In `KnowledgeIndex` a document
  is one chunk and every chunk of the generation is a hit: ranking chooses among
  them.
* A generation of the index is a number; the code names it after the clock and
  random digits.
* Reply texts, risk scores, traces (beyond their length and agents), audit rows
  and agent runs are left out.

## 3. Properties

* `TypeOK`.
* `QueuedTicketHasLiveTask`: no ticket is lost.
* `CurrentTaskMeansQueued`: version equality alone proves a task current.
* `AttemptsAreBounded`: recoveries and late failures of overtaken attempts
  cannot push a task past its maximum.
* `OneOpenApprovalPerType`: the unprotected check-then-insert of approvals is
  safe, because inserting changes the ticket's version.
* `MoneyMovesOnce`: at most one execution per ticket, of an approved approval
  of a RESOLVED ticket.
* `OneCouponPerTicket`: the gateway issues at most one coupon for a ticket over
  all rounds, although it is called before its transaction commits and a
  decision that rolled back is made again.
* `AppliedToItsVersion`, `TerminalTaskIsFinal` (action properties).
* `QueuedTicketIsAnswered`, `EveryTaskEnds` (liveness).
* `FollowsLifecycle`, `ImplementsLifecycle`: `TicketLifecycle` without and with
  its fairness. A ticket's phase is that of its status (`PhaseOf`), its grant is
  what the execution rows of its approvals say (`Granted`).
* `OverlapOnlyAfterFailure`, `SavedResultFitsRun`, `RunKeepsSnapshot` (an action
  property: a task id stays bound to one snapshot), `AnswerFitsRequest`,
  `RunningRunHasHandler` of `AnalysisRuns`: what holds although the row is
  never locked, each with the exception that remains: a failed run may be
  restarted twice, the loser of an insert race is answered without comparing
  snapshots, and a handler that dies leaves the run "running" for ever.
* `SnapshotWorkflow`: `CouponIsGrounded` (a coupon needs a late parcel and all
  evidence of the gate, at the moment of the recommendation), `NoEarlyDecision`
  (no model can end an investigation early), `BudgetsHold` (steps, searches and
  LangGraph's own limit), `PlanIsFollowed` (the plan published before the work
  is what happened), `RulesReachTheGoal` (the fixed plan finds what exists and
  asks only for what is missing), `EveryCaseIsDecided` (liveness: every analysis
  ends with a recommendation, or at an answer of a model that its agent cannot
  read).
* `TicketWorkflow`: `WorkIsExclusive`, `ReplyIsHandled` (a reply is never left
  behind a completed job), `UnfinishedJobHasTask`, `ConversationAlternates`,
  `ApprovalsFitTicket`, `CouponIsGrounded` (an action property: a coupon is
  proposed for a parcel that is late and whose sources agree at that moment, or
  on the facts a resumed case has kept, and a case pauses with such facts only
  when they are true), `BudgetsSpanTurns`, `OnlyRecoveryExceedsLimit` (an action property: no reply,
  retry or failure leads to an attempt beyond the limit), `JobEnds` (liveness). Where a failure can break one, the
  property names that failure (through `lost`) and claims nothing else.
* `KnowledgeIndex`: `PointerIsComplete` and `AnswerIsWhole` (two stores without
  a common transaction look consistent to readers), `UploadsAreUnique`,
  `CountFitsIndex`, `IndexIsAtomic` (it implements `AtomicIndex`).
* `SucceededTaskIsNotAnalysedAgain`, `OutdatedTaskLeavesTicketAlone`, `HumanReviewIsInQueue`,
  `IssuedCouponIsRecorded`, `CouponWithoutConflict`: statements of the
  documentation that the code does not keep (section 6).

## 4. Runs

| Run | Bounds | Shows |
| --- | --- | --- |
| `CoreRounds` | 1 ticket, 3 tasks, 3 approvals, 2 requests, all answers, 1 attempt | three rounds let an approval of round one meet a task of round two and a requeue into round three; two requests race; a coupon issued by a decision that rolls back is not issued for another approval |
| `CoreAttempts` | 2 tickets, 2 tasks, 2 approvals, 2 attempts, pool 2, batch 2 | overtaken attempts, rejection by the pool, a batch that escalates two tickets or rolls back; the lifecycle's steps, two tickets at once included |
| `CoreLiveness` | 1 ticket, 2 tasks, 2 approvals, 2 attempts, pool 1, batch 1, no symmetry | liveness and refinement |
| `AnalysisRuns` | 1 task id, 4 requests, 2 snapshots | a first analysis, two that overlap after its failure, and a fourth that comes last; more requests repeat these roles |
| `AnalysedAgain` | the same with 1 snapshot | divergence 4 |
| `SnapshotWorkflow` | `MAX_CASE_STEPS` 10, 3 searches, recursion limit 64 as in the code; every kind of case, a model may name anything (`AllAnswers`) | the gate, the plan and the budgets, with the rules and with any model; every analysis ends (644,926 states) |
| `TicketWorkflow` | 9 kinds of tickets, 2 background tasks, 2 attempts, 3 messages, 9 steps, 2 searches; 2 faults with the rules, 1 with a model, which may name `ask_customer` | two pauses with replies against an order that moves on, retries, failures between the commits, crashes and recovery (456,294 states) |
| `KnowledgeIndex` | 2 texts, 2 documents, 1 edit, 2 uploads, 2 rebuilds, 1 retrieval | rebuilds that overlap, fail or follow each other, against edits and a retrieval; `AtomicIndex` |
| `TrackingConflict` | late or moving parcels, order status free | divergence 5 |
| `OutdatedResult`, `ReviewQueue`, `CouponRecord` | smallest instances with the behaviour | divergences 1 to 3 |

`MaxAttempts = 2` distinguishes first, middle-free last and overtaken attempts;
larger values repeat the middle. Versions and attempt counters are bounded by
the number of tasks. `CHECK_DEADLOCK FALSE`: the system stops when every
identity is used and every ticket is resolved or waits for a person, every
request to the analysis endpoint is answered, an analysis is over, a ticket of
the compatibility path is decided, or the knowledge base is left alone.

In `SnapshotWorkflow` the cases with a model differ only where a model leaves a
difference (it may classify any text as anything). In `TicketWorkflow` nine
steps are the fewest with which a refund can be ready after its first reply
and run out of budget with its second; two faults allow a second crash during
the recovery from the first, or a crash after a failure; a third message is
the second reply. Under the rules a delivery-delay case never asks its customer,
so one ticket has a model: at every step it takes the rules' action or asks, which
is all it needs to pause the case before or after its timeline is computed and
its sources are searched. Its parcel is under way, so that the promise can pass,
the case pause with the facts of a late parcel, the parcel arrive in time after
all or the order be completed, and the resumed case propose a coupon that the
order no longer justifies; TLC reaches this coupon when
`CouponIsGrounded` is stated without its second alternative. The model
multiplies the turns, so that ticket has one fault (`Faults`). Two tasks suffice to violate `WorkIsExclusive`. One retrieval
suffices in `KnowledgeIndex` because retrievals write nothing; two rebuilds
because a third can only repeat one of them (the theorems of section 5 hold for
any number).

Fairness (`Fairness`): the scheduler scans for ever, oldest due and oldest
expired first, so each task is claimed or recovered eventually (weak fairness
per task); pool threads run; HTTP calls end by their timeout; `recordFailure`
runs. Nothing is assumed of customers, agents and supervisors, and threads may
be lost at any time. `SnapshotWorkflow` assumes that the graph goes on (calls to
the model and to Chroma have timeouts). `TicketWorkflow` assumes that a live
background task goes on and that a stopped process is started again; `Raise`,
`LoseWorker`, `Crash` and all requests carry no fairness. `AnalysisRuns` and
`KnowledgeIndex` state safety only and assume nothing.

## 5. Proofs

`BusinessServiceProofs` proves, for any sets of tickets, tasks, approvals and
requests and any limits, from `NoTicketAssumption`, `MaxAttemptsAssumption`,
`CapacityAssumption` and `AnswersAssumption`:
`TypeCorrect`, `NoTicketIsLost`, `VersionDecides`, `MoneyIsSafe`,
`ResultsAreCurrent`, `EndedTasksStay`, `AttemptsStayBounded`,
`ApprovalsAreUnique`, `CouponsAreUnique`.

The inductive invariant is `ServiceInv`: the four properties are not inductive
alone. `TaskRowsAgree` adds that no task is newer than its ticket and that an
open apply transaction keeps its task RUNNING; `ApprovalRowsAgree` the same for
decisions; `SnapshotsArePast` that a snapshot whose version is still current
also has the current status. A stale result cannot end the task its ticket
awaits, because that task has the snapshot's version; a failed task that its
ticket awaits takes the ticket along; a decision whose snapshot is current met
a status with a legal edge, hence not RESOLVED, hence no money moved yet. Two
lemmas carry most of the proof: `TicketsMoveStep` (tickets leave the queue) and
`EnterQueueStep`. `StepMovesTasks` describes what any step does to a task and
yields the action properties and the attempt bound; `OpenApprovalsAreKnown`
(a transaction that may still commit knows all open approvals) yields
`ApprovalsAreUnique`. `StepMovesTickets` does for tickets what
`StepMovesTasks` does for tasks: every step moves a ticket along an edge of the
status graph. With it `CouponInv` is inductive, from which `CouponsAreUnique`
follows: a ticket with an approval for a coupon is PENDING_APPROVAL or RESOLVED
for ever (from PENDING_APPROVAL there is no edge back to the AI), so it never
gets a second one, and the gateway is called only for such an approval.

`TicketLifecycleProofs` proves the safety of the refinement:
`ServiceFollowsLifecycle` says that `BusinessService`'s steps are those of
`TicketLifecycle` or change none of its variables. The invariant it needs
beyond `ServiceInv` is `NoTransientStatus` (no commit leaves a ticket in NEW or
AI_FAILED, so every status has the phase the mapping gives it). One lemma per
kind of step shows which abstract step it is: a requeue is `AskAi`, a committed
result `RoundEnds`, a failure or a recovered batch `RoundsFail`, a decision
`Decide` or `AskCustomer` (its snapshot, if still current, tells the ticket's
phase, and `MoneyMovesOnce` that an open approval has granted nothing yet),
everything else a stutter.
`GrantsAreFinal` then holds because each step of the lifecycle keeps it.

`AnalysisRunsProofs` proves the five properties of `AnalysisRuns` and its type
invariant for any requests and snapshots, from `SentinelAssumption` (the values
for "no row" and "no output" are neither). `RunsInv` adds to them
`HandlersAreBound` (whoever found or started a run carries its snapshot, hence
a restart never changes it, which is `TaskIsBound`), `FirstAnalysisIsAlone`
(while the inserting handler is at work the row exists and is not failed, so nobody can insert or
restart) and, in `AnswersFit`, that the author of a saved output has been
answered.

`CaseEvidenceProofs` holds what the graphs need of the gate and the planner
for any budgets (`BudgetAssumption`): `GateFacts` (what each verdict says),
`SearchLeft` (while the gate says "continue" and the policy is missing, a
search is left), `ActionFacts`, `PlannerFacts` (no action exceeds a budget).

`SnapshotWorkflowProofs` proves `NoEarlyDecision`, `BudgetsHold`,
`CouponIsGrounded` and `PlanIsFollowed` for any cases and budgets, from
`CasesAssumption`, `UndecidedAssumption` and `RecursionAssumption` (three graph
steps per step of an investigation, and four around it, fit in the limit: 34 of
64 with the code's numbers). Its invariant is `WorkflowInv`: `GateInv` says that
after an investigation the gate's verdict is that of the evidence as it still
is (nothing is learnt after the last gate), `FactsInv` that facts read earlier
are still true (lateness does not go away), `DecisionInv` that the
recommendation is that of the present state, `BudgetInv` how far the trace can
have grown at each node. `AgentsInv` adds which agents have run so far.
`RulesSucceed` proves `RulesReachTheGoal` under the assumption
`MaxSearches + 5 <= MaxSteps` (3 and 10 in the code): the five other actions of
the plan are order, conversation, timeline, attachments and the question.
`RulesInv` counts: as long as the plan decides, the steps taken are at most the
results obtained (`Done`), because the action chosen from what is missing
(`FallbackFacts`) always obtains something new. Hence an investigation that the
budget cuts short has obtained everything.

`TicketWorkflowProofs` proves all invariants of `TicketWorkflow` for any
tickets, workers, limits and number of failures, from `LimitsAssumption` and
`CasesAssumption`. `TicketInv` consists of `QueueInv` (the job's status tells
what the only task at work is doing), `TurnInv` (what a turn has in memory and
what a paused case keeps is within the budgets, and facts of a turn that justify
a coupon are true or those of its resumed case), `PauseInv` and `SettlementInv`: an open question or approval means that a turn is
`Settled`, i.e. the job is completed, its task is at the second commit, or a
failure hit between the two. `ConversationAlternates` and `ApprovalsFitTicket`
are not inductive without it: that a reply is accepted only after the job is
completed is what keeps questions and replies alternating. `AttemptsLimited`
proves `OnlyRecoveryExceedsLimit` with `AttemptInv` in addition: a startup either
has the worker of the job it recovers or stops, so by `QueueInv` the job has ended
when requests are served, and a job pending after that has an attempt left.
`CouponsGrounded` proves `CouponIsGrounded` from `TurnInv`: only a commit of a
turn adds a coupon or changes what the case keeps, no turn runs while an order
changes (by the snapshot it reads), and lateness of a parcel that has not
arrived does not go away during a turn.

`KnowledgeIndexProofs` proves the four invariants of `KnowledgeIndex` and the
refinement `Spec => IndexIsAtomic`, safety in full, from `SentinelAssumption`
and `BoundAssumption`. `IndexInv` says that a rebuild owns its generation
(`RebuildsAreSeparate`), that a pointer it has read does not disappear
(`RebuildsAreSound`), and that the generations the pointer or a retrieval refers
to are `Sealed`: complete in both stores and written by nobody
(`PointersAreSealed`). From it, each step of a rebuild, a retrieval and an edit
is a step of `AtomicIndex` or changes none of its variables (`RebuildImplements`,
`RetrieveImplements`, `EditImplements`). `ChecksStillHold` (what an ingestion
checked is true while it has the event loop) gives `UploadsAreUnique`.

Only model-checked: liveness under fairness (`QueuedTicketIsAnswered`,
`EveryTaskEnds`, `EveryCaseIsDecided`, `JobEnds`, and in `ImplementsLifecycle`
the fairness of `TicketLifecycle`), which is out of the prover's reach. Every
invariant and action property that a passing run checks is also proved.

## 6. Divergences between documentation and code

1. `docs/production-shaped-architecture.md:69`: a result of an old version must
   not overwrite a newer ticket. `AiTaskPersistence.java:82` routes any ticket
   read as AI_QUEUED to human review, also one queued again for a newer task
   (`OutdatedResult`).
2. Line 58 there: exhausted tickets enter the human review queue. Only the
   status changes; the queue lists approvals, none is inserted
   (`ReviewQueue`).
3. `README.md:18`: issued coupons are on record. The gateway is called before
   the ticket's transition, inside the transaction (`CouponRecord`).
4. `docs/production-shaped-architecture.md:95` and `:96`: a succeeded task is not analysed again, concurrent
   identical tasks get 409. Two handlers that read the same failed run both
   restart it, and a late failure overwrites the other's success
   (`AnalysedAgain`).

5. `README.md:61`: compensation is proposed only when the SLA is exceeded and
   the tracking has no conflict. `risk_control` of the snapshot path
   (`snapshot_orchestrator.py:546`) does not compare the order's status with the
   tracking; the compatibility path does (`multi_agent_orchestrator.py:177`)
   (`TrackingConflict`).

Observations that need no run of their own:

* `run_ticket_processing_job` calls itself safe to call repeatedly
  (`processing_queue.py:50`). A failure between its two commits leaves the job
  failed or unfinished with its effects in place; the next run repeats them: a
  second question or a second approval. `ConversationAlternates` and
  `ApprovalsFitTicket` hold without that failure and exempt it by name. The
  failure record also overwrites the ticket's status then.
* `classify_by_rules` is called the fallback for all failures of the model
  (`ticket_processor.py:102`). `llm_provider.py:66` raises `IndexError` for an
  answer without choices, `AttributeError` for one without content and, two lines
  later, `ValueError` for an empty one, and no agent catches all three:

  | Agent | IndexError | AttributeError | ValueError |
  | --- | --- | --- | --- |
  | classifier (`ticket_processor.py:132`) | rules | fails | fails |
  | specialist (`case_investigation.py:243`) | fails | fails | rules |
  | refund analyst (`ticket_processor.py:249`) | template | fails | template |
  | reply (`ticket_processor.py:177`) | template | fails | template |

  So each of them can end an analysis without a recommendation: `ModelFails`, the
  exception in `EveryCaseIsDecided`.
* `README.md:61` of the repository says that compensation is proposed only when
  the SLA is exceeded and the tracking has no conflict. The compatibility path
  decides a resumed case by the facts it kept when it paused
  (`multi_agent_orchestrator.py:826`): if the parcel's arrival in time is recorded
  while the customer is asked, or the order is completed, the coupon is proposed
  all the same. `CouponIsGrounded` names this exception.
* A customer's reply starts counting attempts anew, and recovery at startup
  ignores the limit that retries respect: a job that stops the process is run at
  every start (`OnlyRecoveryExceedsLimit` names this exception).
* The compatibility graph is invoked without a step limit of its own
  (`multi_agent_orchestrator.py:816`); where the installed LangGraph defaults to
  25 steps, an investigation of ten steps fails there.
* A ticket of the compatibility path that is escalated without an approval is
  left by no operation; the same holds for HUMAN_REVIEW in divergence 2.
* The last of two overlapping rebuilds wins, so the pointer may return to an
  older set of documents until the next rebuild. `AtomicIndex` allows it. Then
  the stored count may be that of neither (`CountFitsIndex` excludes it).
* An edited document is cited with its present version next to the text of the
  indexed one (`knowledge_service.py:298`).

## 7. Not modelled

* The Redis lease of `AiDispatchCoordinator`: it saves duplicate scans, and
  `BusinessService` lets any number of dispatchers scan at any time, so nothing
  depends on it.
* The answers to repeated deliveries at intake: the unique column refuses the
  second row, and what remains is which answer its sender gets.
* Text: classification keywords, prompts, detection of delivery words, reply
  texts, risk scores.
* Cleaning, splitting, embeddings, scores, ranking and the category filter of
  the knowledge base.
* Monitoring views, admin proxy, web layer, JWT, request ids, metrics and audit
  rows: stateless, or written and never read by what is modelled.
* Seed data, migrations, offline evaluation, front end, scripts and containers.
* The contents of a snapshot: that a retried task may be given a snapshot
  other than the one its run is bound to, and is refused, is in `AnalysisRuns`
  (`Refuse`); how often it happens depends on what the business service puts
  into a snapshot.
