--------------------------- MODULE TicketWorkflow ---------------------------
(***************************************************************************)
(* The compatibility path of the Python service for one ticket: its job in *)
(* the database-backed queue (services/processing_queue.py), the agent     *)
(* graph a background task runs for it (services/multi_agent_orchestrator), *)
(* the pause for the customer, and the people who decide its approvals     *)
(* (api/routes.py).  Tickets share nothing that these operations write.    *)
(*                                                                         *)
(* A turn keeps its findings in memory and commits once; the job is        *)
(* completed by a second transaction.  Tasks can fail anywhere, and the    *)
(* process can stop and be started again.                                  *)
(***************************************************************************)
EXTENDS CaseEvidence, Sequences, FiniteSets

CONSTANTS Cases,        \* what may be true of the ticket when it is created
          Workers,      \* threads that run background tasks
          MaxAttempts,  \* processing_max_attempts
          MaxMessages,  \* bound on the customer's messages
          MaxFaults     \* bound on failures and crashes, by whether a model is asked

ASSUME CasesAssumption == Cases \subseteq CaseRecords
ASSUME LimitsAssumption == MaxAttempts \in Nat \ {0} /\ MaxMessages \in Nat
                            /\ MaxFaults \in [BOOLEAN -> Nat]

VARIABLES case, promisePassed,  \* the order's truth now, and whether its promise has passed
          ticket, job, caseState, messages, attached, questions, approvals,  \* rows
          process, stage, turn, \* the server, its workers and their memory
          lost, faults          \* what failures left behind, and how many there were

world == <<case, promisePassed>>
rows == <<ticket, job, caseState, messages, attached, questions, approvals>>
vars == <<world, rows, process, stage, turn, lost, faults>>

TicketStatuses == {"queued", "processing", "waiting_customer", "pending_approval",
                   "escalated", "resolved", "failed"}
JobStatuses == {"pending", "running", "completed", "failed"}
Stages == {"idle", "scheduled", "claimed", "graph", "committed", "failing"}
Nodes == {"supervisor", "order_logistics_fast", "specialist", "case_action", "evidence_gate",
          "wait_customer", "refund_review_analyst", "risk_control", "reply", "end"}
Decisions == {"none", "request_coupon_approval", "escalate_to_supervisor", "query_logistics",
              "escalate_to_human"}
Facts == [event : BOOLEAN, overdue : BOOLEAN, conflict : BOOLEAN]

NoFacts == [event |-> FALSE, overdue |-> FALSE, conflict |-> FALSE]
NoGate == [disposition |-> "continue", missing |-> {}]

\* What a paused case keeps in state_data.
Saved == [intent : Intents, step : Nat, findings : Findings, facts : Facts]
NothingSaved == [intent |-> "other", step |-> 0, findings |-> NothingFound, facts |-> NoFacts]

Turns == [node : Nodes, resumed : BOOLEAN, kept : Saved, gate : Gates, action : Actions,
          question : BOOLEAN, decision : Decisions]
NewTurn == [node |-> "supervisor", resumed |-> FALSE, kept |-> NothingSaved, gate |-> NoGate,
            action |-> "finish", question |-> FALSE, decision |-> "none"]

Approvals == [type : {"coupon_compensation", "refund_review"}, sources : BOOLEAN,
              status : {"pending", "in_review", "approved", "rejected"}]

\* The rows and the memory of the process are well formed.
TypeOK ==
    /\ case \in CaseRecords /\ promisePassed \in BOOLEAN
    /\ ticket \in TicketStatuses
    /\ job \in [status : JobStatuses, attempts : Nat]
    /\ caseState \in [status : {"none", "active", "waiting_customer", "completed"}, kept : Saved]
    /\ messages \in Nat /\ attached \in BOOLEAN /\ questions \in Nat
    /\ approvals \in Seq(Approvals)
    /\ process \in {"up", "down", "recovering"}
    /\ stage \in [Workers -> Stages]
    /\ turn \in [Workers -> Turns]
    /\ lost \subseteq {"completion", "worker"}
    /\ faults \in Nat

\* create_ticket has committed the ticket, its first message and its job, and
\* handed the job to a background task.
Init ==
    /\ case \in Cases /\ promisePassed = FALSE
    /\ ticket = "queued"
    /\ job = [status |-> "pending", attempts |-> 0]
    /\ caseState = [status |-> "none", kept |-> NothingSaved]
    /\ messages = 1 /\ attached = FALSE /\ questions = 0
    /\ approvals = << >>
    /\ process = "up"
    /\ \E w \in Workers : stage = [v \in Workers |-> IF v = w THEN "scheduled" ELSE "idle"]
    /\ turn = [w \in Workers |-> NewTurn]
    /\ lost = {} /\ faults = 0

-----------------------------------------------------------------------------
(* The queue.                                                              *)

Unfinished == job.status \in {"pending", "running"}

\* Variants: one lets a customer's reply in while the job still runs, one
\* queues a completed job again, one allows a retry too many.
MayEnqueueRunning(resume) ==
    /\ job.status # "pending"
    /\ resume \/ (job.status = "failed" /\ job.attempts < MaxAttempts)
MayEnqueueCompleted(resume) ==
    /\ ~ Unfinished
    /\ resume \/ job.attempts < MaxAttempts

MayEnqueueOnceMore(resume) ==
    /\ ~ Unfinished
    /\ resume \/ (job.status # "completed" /\ job.attempts <= MaxAttempts)

MayEnqueue(resume) ==
    /\ ~ Unfinished
    /\ resume \/ (job.status # "completed" /\ job.attempts < MaxAttempts)

Enqueue(resume) ==
    /\ MayEnqueue(resume)
    /\ job' = [status |-> "pending", attempts |-> IF resume THEN 0 ELSE job.attempts]
    /\ ticket' = "queued"
    /\ \E w \in Workers : stage[w] = "idle" /\ stage' = [stage EXCEPT ![w] = "scheduled"]

\* The background task takes a pending job; any other it leaves alone.
Claim(w) ==
    /\ stage[w] = "scheduled"
    /\ IF job.status = "pending"
       THEN /\ job' = [status |-> "running", attempts |-> job.attempts + 1]
            /\ ticket' = "processing"
            /\ stage' = [stage EXCEPT ![w] = "claimed"]
       ELSE stage' = [stage EXCEPT ![w] = "idle"] /\ UNCHANGED <<job, ticket>>
    /\ UNCHANGED <<world, caseState, messages, attached, questions, approvals, process, turn,
                   lost, faults>>

\* The second transaction of a turn: the job is done.
Finish(w) ==
    /\ stage[w] = "committed"
    /\ job' = [job EXCEPT !.status = "completed"]
    /\ stage' = [stage EXCEPT ![w] = "idle"]
    /\ UNCHANGED <<world, ticket, caseState, messages, attached, questions, approvals, process,
                   turn, lost, faults>>

\* An exception in a turn, a model's unreadable answer included, rolls it back;
\* one after its commit cannot.
Raise(w) ==
    /\ stage[w] \in {"claimed", "graph", "committed"} /\ faults < MaxFaults[case.model]
    /\ stage' = [stage EXCEPT ![w] = "failing"]
    /\ turn' = [turn EXCEPT ![w] = NewTurn]
    /\ lost' = IF stage[w] = "committed" THEN lost \cup {"completion"} ELSE lost
    /\ faults' = faults + 1
    /\ UNCHANGED <<world, rows, process>>

RecordFailure(w) ==
    /\ stage[w] = "failing"
    /\ job' = [job EXCEPT !.status = "failed"]
    /\ ticket' = "failed"
    /\ stage' = [stage EXCEPT ![w] = "idle"]
    /\ UNCHANGED <<world, caseState, messages, attached, questions, approvals, process, turn,
                   lost, faults>>

\* An exception in the claim or in the failure record ends the task without a
\* trace; during startup it ends the startup.
LoseWorker(w) ==
    /\ stage[w] \in {"scheduled", "failing"} /\ faults < MaxFaults[case.model]
    /\ stage' = [stage EXCEPT ![w] = "idle"]
    /\ process' = IF process = "recovering" THEN "down" ELSE process
    /\ lost' = lost \cup {"worker"}
    /\ faults' = faults + 1
    /\ UNCHANGED <<world, rows, turn>>

Crash ==
    /\ process # "down" /\ faults < MaxFaults[case.model]
    /\ process' = "down"
    /\ stage' = [w \in Workers |-> "idle"]
    /\ turn' = [w \in Workers |-> NewTurn]
    /\ lost' = IF \E w \in Workers : stage[w] = "committed" THEN lost \cup {"completion"} ELSE lost
    /\ faults' = faults + 1
    /\ UNCHANGED <<world, rows>>

\* A variant that forgets the jobs no task had claimed.
RecoverRunning == job.status = "running"
Recoverable == Unfinished

\* Startup runs every unfinished job before it serves requests.
Restart ==
    /\ process = "down"
    /\ IF Recoverable
       THEN /\ job' = [job EXCEPT !.status = "pending"]
            /\ process' = "recovering"
            /\ \E w \in Workers : stage' = [stage EXCEPT ![w] = "scheduled"]
       ELSE process' = "up" /\ UNCHANGED <<job, stage>>
    /\ lost' = lost \ {"worker"}
    /\ UNCHANGED <<world, ticket, caseState, messages, attached, questions, approvals, turn, faults>>

Serve ==
    /\ process = "recovering" /\ \A w \in Workers : stage[w] = "idle"
    /\ process' = "up"
    /\ UNCHANGED <<world, rows, stage, turn, lost, faults>>

-----------------------------------------------------------------------------
(* A turn of the graph.                                                    *)

Decided == {"resolved", "pending_approval", "escalated"}

\* orchestrate_ticket leaves a decided ticket alone and resumes an active case.
StartTurn(w) ==
    /\ stage[w] = "claimed"
    /\ stage' = [stage EXCEPT ![w] = IF ticket \in Decided THEN "committed" ELSE "graph"]
    /\ turn' = IF ticket \notin Decided /\ caseState.status = "active"
               THEN [turn EXCEPT ![w] = [@ EXCEPT !.resumed = TRUE, !.kept = caseState.kept]]
               ELSE turn
    /\ UNCHANGED <<world, rows, process, lost, faults>>

\* The worker moves on in the graph.
At(w, node) == stage[w] = "graph" /\ turn[w].node = node
Become(w, t) ==
    /\ turn' = [turn EXCEPT ![w] = t]
    /\ UNCHANGED <<world, rows, process, stage, lost, faults>>

Context(i) == [scenario |-> Scenario(i), delivery |-> case.delivery, messages |-> messages,
               rag |-> case.rag]

Delivered == case.tracking \in {"on_time", "late"}
Timeline == [event |-> case.tracking # "none", overdue |-> Late(case, promisePassed),
             conflict |-> case.completed # Delivered]

\* A variant that resumes in the middle of the loop.
ResumeWithSpecialist(i, resumed) ==
    CASE resumed \/ i \in Investigated -> "specialist"
      [] i = "logistics_query" -> "order_logistics_fast"
      [] OTHER -> "risk_control"

SelectRoute(i, resumed) ==
    IF resumed THEN "evidence_gate"
    ELSE CASE i = "logistics_query" -> "order_logistics_fast"
           [] i \in Investigated -> "specialist"
           [] OTHER -> "risk_control"

\* A resumed case keeps its classification, a new one is classified.
Supervisor(w) ==
    /\ At(w, "supervisor")
    /\ \E i \in IF turn[w].resumed THEN {turn[w].kept.intent} ELSE Classifications(case) :
          Become(w, [turn[w] EXCEPT
              !.node = SelectRoute(i, turn[w].resumed),
              !.kept = [@ EXCEPT !.intent = i],
              !.gate = IF turn[w].resumed THEN @
                       ELSE EvaluateEvidence(Context(i), NothingFound, FALSE, 0)])

OrderLogisticsFast(w) ==
    /\ At(w, "order_logistics_fast")
    /\ Become(w, [turn[w] EXCEPT !.node = "risk_control",
                               !.kept = [@ EXCEPT !.facts = Timeline]])

RunSpecialistAgent(w) ==
    /\ At(w, "specialist")
    /\ LET k == turn[w].kept IN
       \E a \in ChooseCaseAction(k.findings, turn[w].gate, k.step, case.model) :
          Become(w, [turn[w] EXCEPT
              !.action = a,
              !.kept = [k EXCEPT !.step = k.step + 1],
              !.node = IF a = "finish" THEN "evidence_gate" ELSE "case_action"])

Observed(a, f, found) ==
    CASE a = "get_order" -> [f EXCEPT !.order = TRUE]
      [] a = "analyze_delivery_timeline" -> [f EXCEPT !.timeline = Timeline.event]
      [] a = "get_ticket_messages" -> [f EXCEPT !.conversation = messages]
      [] a = "inspect_customer_evidence" ->
           [f EXCEPT !.attachments = messages, !.attached = attached]
      [] a = "search_policy" -> [f EXCEPT !.searches = @ + 1, !.sources = @ \/ found]
      [] OTHER -> f

\* The next node alone reads case_decision, so it is forgotten here.
CaseAction(w) ==
    /\ At(w, "case_action")
    /\ LET a == turn[w].action
           k == turn[w].kept IN
       \E found \in {b \in BOOLEAN : b => case.rag /\ a = "search_policy"} :
          Become(w, [turn[w] EXCEPT
              !.node = "evidence_gate",
              !.action = "finish",
              !.question = @ \/ a = "ask_customer",
              !.kept = [k EXCEPT
                  !.findings = Observed(a, k.findings, found),
                  !.facts = IF a = "analyze_delivery_timeline" THEN Timeline ELSE k.facts]])

AfterEvidenceGate(disposition, i) ==
    CASE disposition = "waiting_customer" -> "wait_customer"
      [] disposition = "continue" -> "specialist"
      [] OTHER -> IF i = "refund_risk_review" THEN "refund_review_analyst" ELSE "risk_control"

EvidenceGate(w) ==
    /\ At(w, "evidence_gate")
    /\ LET k == turn[w].kept
           g == EvaluateEvidence(Context(k.intent), k.findings, turn[w].question, k.step)
       IN Become(w, [turn[w] EXCEPT !.gate = g,
                                    !.node = AfterEvidenceGate(g.disposition, k.intent)])

RefundReviewAnalyst(w) ==
    /\ At(w, "refund_review_analyst")
    /\ Become(w, [turn[w] EXCEPT !.node = "risk_control"])

\* A variant without the check for conflicting sources.
DecideDespiteConflict(i, facts, sources) ==
    CASE i = "delivery_delay_compensation" ->
           IF (case.rag => sources) /\ facts.event /\ facts.overdue
           THEN "request_coupon_approval" ELSE "escalate_to_human"
      [] i = "refund_risk_review" -> "escalate_to_supervisor"
      [] i = "logistics_query" /\ facts.event -> "query_logistics"
      [] OTHER -> "escalate_to_human"

RiskDecision(i, facts, sources) ==
    CASE i = "delivery_delay_compensation" ->
           IF (case.rag => sources) /\ facts.event /\ ~ facts.conflict /\ facts.overdue
           THEN "request_coupon_approval" ELSE "escalate_to_human"
      [] i = "refund_risk_review" -> "escalate_to_supervisor"
      [] i = "logistics_query" /\ facts.event -> "query_logistics"
      [] OTHER -> "escalate_to_human"

RiskControl(w) ==
    /\ At(w, "risk_control")
    /\ LET k == turn[w].kept IN
       Become(w, [turn[w] EXCEPT
           !.node = "reply", !.decision = RiskDecision(k.intent, k.facts, k.findings.sources)])

Reply(w) ==
    /\ At(w, "reply")
    /\ Become(w, [turn[w] EXCEPT !.node = "end"])

-----------------------------------------------------------------------------
(* The first transaction of a turn: its effects.                           *)

Commit(w) ==
    /\ stage' = [stage EXCEPT ![w] = "committed"]
    /\ turn' = [turn EXCEPT ![w] = NewTurn]
    /\ UNCHANGED <<world, job, messages, attached, process, lost, faults>>

CommitQuestion(w) ==
    /\ At(w, "wait_customer")
    /\ caseState' = [status |-> "waiting_customer", kept |-> turn[w].kept]
    /\ ticket' = "waiting_customer"
    /\ questions' = questions + 1
    /\ Commit(w)
    /\ UNCHANGED approvals

StatusOf(decision) ==
    CASE decision = "request_coupon_approval" -> "pending_approval"
      [] decision = "query_logistics" -> "resolved"
      [] OTHER -> "escalated"

\* What a completed case keeps is never read again.
CommitDecision(w) ==
    /\ At(w, "end")
    /\ LET d == turn[w].decision
           Task(type) == [type |-> type, sources |-> turn[w].kept.findings.sources,
                          status |-> "pending"]
       IN /\ approvals' =
                CASE d = "request_coupon_approval" -> Append(approvals, Task("coupon_compensation"))
                  [] d = "escalate_to_supervisor" -> Append(approvals, Task("refund_review"))
                  [] OTHER -> approvals
          /\ ticket' = StatusOf(d)
    /\ caseState' = IF turn[w].kept.intent \in Investigated
                    THEN [status |-> "completed", kept |-> NothingSaved] ELSE caseState
    /\ Commit(w)
    /\ UNCHANGED questions

-----------------------------------------------------------------------------
(* Requests.                                                               *)

\* run_ticket_processing: an employee asks for another attempt.
Process ==
    /\ process = "up"
    /\ Enqueue(FALSE)
    /\ UNCHANGED <<world, caseState, messages, attached, questions, approvals, process, turn,
                   lost, faults>>

\* add_customer_message, with or without an attachment that counts.
AddCustomerMessage ==
    /\ process = "up" /\ messages < MaxMessages
    /\ ticket = "waiting_customer" /\ caseState.status = "waiting_customer"
    /\ Enqueue(TRUE)
    /\ caseState' = [caseState EXCEPT !.status = "active"]
    /\ messages' = messages + 1
    /\ \E valid \in BOOLEAN : attached' = (attached \/ valid)
    /\ UNCHANGED <<world, questions, approvals, process, turn, lost, faults>>

\* An employee decides an approval that has one of the statuses asked for.
Decide(i, type, allowed, status, ticketStatus) ==
    /\ process = "up"
    /\ approvals[i].type \in type /\ approvals[i].status \in allowed
    /\ approvals' = [approvals EXCEPT ![i].status = status]
    /\ ticket' = ticketStatus
    /\ UNCHANGED <<world, job, caseState, messages, attached, questions, process, stage, turn,
                   lost, faults>>

ApproveCoupon(i) ==
    Decide(i, {"coupon_compensation"}, {"pending"}, "approved", "resolved")
RejectApprovalTask(i) ==
    Decide(i, {"coupon_compensation", "refund_review"}, {"pending"}, "rejected", "resolved")
AssignRefundReview(i) == Decide(i, {"refund_review"}, {"pending"}, "in_review", "escalated")
ReviewRefund(i) ==
    \/ Decide(i, {"refund_review"}, {"pending", "in_review"}, "in_review", "escalated")
    \/ \E s \in {"approved", "rejected"} :
          Decide(i, {"refund_review"}, {"pending", "in_review"}, s, "resolved")

TimePasses ==
    /\ ~ promisePassed
    /\ promisePassed' = TRUE
    /\ UNCHANGED <<case, rows, process, stage, turn, lost, faults>>

\* Orders and tracking belong to other systems: a parcel moves and arrives, an
\* event may be recorded only after the promise has passed, and the order may be
\* completed on its own.  A turn reads one snapshot of the database, so a change
\* counts between two turns, and only for a case that is resumed: for one that
\* starts anew it is another case, and while the case waits nothing reads it.
OrderChanges ==
    /\ caseState.status = "active" /\ \A w \in Workers : stage[w] # "graph"
    /\ \/ case.tracking = "none" /\ case' = [case EXCEPT !.tracking = "moving"]
       \/ case.tracking = "moving" /\ case' = [case EXCEPT !.tracking = "on_time"]
       \/ case.tracking = "moving" /\ promisePassed /\ case' = [case EXCEPT !.tracking = "late"]
       \/ ~ case.completed /\ case' = [case EXCEPT !.completed = TRUE]
    /\ UNCHANGED <<promisePassed, rows, process, stage, turn, lost, faults>>

-----------------------------------------------------------------------------
Graph(w) ==
    \/ Supervisor(w) \/ OrderLogisticsFast(w) \/ RunSpecialistAgent(w) \/ CaseAction(w)
    \/ EvidenceGate(w) \/ RefundReviewAnalyst(w) \/ RiskControl(w) \/ Reply(w)
Work(w) ==
    \/ Claim(w) \/ StartTurn(w) \/ Graph(w) \/ CommitQuestion(w) \/ CommitDecision(w)
    \/ Finish(w) \/ RecordFailure(w)
Requests ==
    \/ Process \/ AddCustomerMessage
    \/ \E i \in DOMAIN approvals :
          ApproveCoupon(i) \/ RejectApprovalTask(i) \/ AssignRefundReview(i) \/ ReviewRefund(i)

Next ==
    \/ \E w \in Workers : Work(w) \/ Raise(w) \/ LoseWorker(w)
    \/ Crash \/ Restart \/ Serve \/ Requests \/ TimePasses \/ OrderChanges

\* A live process runs its tasks, and a stopped one is started again.
Spec ==
    /\ Init /\ [][Next]_vars
    /\ \A w \in Workers : WF_vars(Work(w))
    /\ WF_vars(Restart) /\ WF_vars(Serve)

-----------------------------------------------------------------------------
(* Properties.                                                             *)

Busy == {w \in Workers : stage[w] # "idle"}

\* One job row and its status keep two tasks from working on the ticket at the
\* same time, also across replies, retries and recovery.
WorkIsExclusive == \A v, w \in Busy : v = w

\* A customer's reply is never left behind a completed job, where no retry, no
\* recovery and no further message could reach it, unless an employee decided
\* the ticket before the turn that would have read it.
ReplyIsHandled ==
    caseState.status = "active" => job.status # "completed" \/ ticket \in Decided

\* An unfinished job of a running process has its task, unless that task died
\* without a record; only a restart helps then, and it finds the job.
UnfinishedJobHasTask ==
    process = "up" /\ Unfinished => Busy # {} \/ "worker" \in lost

\* A customer's reply starts counting anew, an employee's retries are limited, and
\* recovery is not: an attempt beyond the limit begins only while the process starts
\* up (enqueue_ticket_processing, recover_unfinished_ticket_jobs).
OnlyRecoveryExceedsLimit ==
    [][job'.attempts # job.attempts /\ job'.attempts > MaxAttempts
          => process = "recovering"]_vars

\* Question and reply alternate: a ticket never has two open questions, and no
\* reply comes without one, unless a turn was run again after its commit.
ConversationAlternates ==
    "completion" \notin lost =>
        questions = messages - 1 + (IF caseState.status = "waiting_customer" THEN 1 ELSE 0)

\* At most one approval is open, and the ticket shows its kind, unless a turn
\* was run again after its commit.
OpenApprovals == {i \in DOMAIN approvals : approvals[i].status \in {"pending", "in_review"}}
ApprovalsFitTicket ==
    "completion" \notin lost =>
        /\ \A i, j \in OpenApprovals : i = j
        /\ \A i \in OpenApprovals :
              ticket = IF approvals[i].type = "refund_review" THEN "escalated" ELSE "pending_approval"
        /\ ticket = "pending_approval" => OpenApprovals # {}

\* Compensation is proposed only with a policy source where retrieval is on, and
\* for a parcel that is late and whose order and tracking agree: at the moment of
\* the proposal, or, as a resumed case does not compute its facts again, by the
\* facts it has kept; and these were true when the case first paused with them.
Justified ==
    case.tracking # "none" /\ Late(case, promisePassed) /\ case.completed = Delivered
FactsJustify(facts) == facts.event /\ facts.overdue /\ ~ facts.conflict
CouponIsGrounded ==
    [][LET n == Len(approvals') IN
       /\ n > Len(approvals) /\ approvals'[n].type = "coupon_compensation" =>
             /\ case.rag => approvals'[n].sources
             /\ Justified \/ (caseState.status = "active" /\ FactsJustify(caseState.kept.facts))
       /\ caseState'.kept.facts # caseState.kept.facts /\ FactsJustify(caseState'.kept.facts) =>
             Justified]_vars

\* The budgets of an investigation hold across its pauses.
BudgetsSpanTurns ==
    \A k \in {caseState.kept} \cup {turn[w].kept : w \in Workers} :
        k.step <= MaxSteps /\ k.findings.searches <= MaxSearches

\* Every job ends, or its task died without a record.
JobEnds == Unfinished ~> ~ Unfinished \/ "worker" \in lost
=============================================================================
