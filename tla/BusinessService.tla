--------------------------- MODULE BusinessService ---------------------------
(***************************************************************************)
(* The Java business service: request handlers, the AI task worker and the *)
(* dispatcher, working concurrently on the ticket, task and approval rows. *)
(*                                                                         *)
(* A transaction that reads a ticket and writes it later is two actions:   *)
(* Begin... takes the row lock of its task or approval (SELECT ... FOR     *)
(* UPDATE) and reads the ticket, which is never locked; Commit... writes   *)
(* all rows at once if the ticket still has the version read.  What it     *)
(* read is kept in applyTxn, decisionTxn or requeueTxn, which also stand   *)
(* for the row lock.  Everything that ends a transaction otherwise (a      *)
(* version conflict, an illegal transition, a crash) rolls it back.        *)
(***************************************************************************)
EXTENDS AiTaskTable, ApprovalTable, FiniteSets

CONSTANTS Requests,      \* concurrent HTTP requests that put a ticket back to the AI
          Answers,       \* the recommendations the AI service may return
          PoolCapacity,  \* threads and queue places of applicationTaskExecutor
          BatchSize,     \* resolveflow.ai.dispatch.batch-size
          NoTxn          \* no transaction open

ASSUME CapacityAssumption ==
    PoolCapacity \in Nat \ {0} /\ BatchSize \in Nat \ {0}

VARIABLES attemptStage,  \* where the thread that runs attempt n of task k is
          applyTxn,      \* per task: the open transaction of AiTaskPersistence.apply
          decisionTxn,   \* per approval: the open transaction of ApprovalService
          requeueTxn     \* per request: the open transaction of TicketService

threadVars == <<attemptStage, applyTxn, decisionTxn, requeueTxn>>
vars == <<ticketVars, taskVars, approvalVars, threadVars>>

\* "INVALID" stands for an unsupported action or a coupon amount outside 1..100.
Recommendations == {"QUERY_LOGISTICS", "REQUEST_COUPON_APPROVAL",
                    "REQUEST_CUSTOMER_EVIDENCE", "ESCALATE_REFUND_REVIEW",
                    "ESCALATE_TO_HUMAN", "INVALID"}
ASSUME AnswersAssumption == Answers \subseteq Recommendations

Attempts == 1..MaxAttempts
Stages == {"none", "claimed", "executing", "applying", "failed_retryable", "failed_final"}

Decisions == {"approve_coupon", "approve_refund", "reject", "request_evidence"}

ApplyTxns == [snap : TicketSnapshots, open : SUBSET (ApprovalTypes \cup {"none"}),
              attempt : Attempts, answer : Recommendations]
DecisionTxns == [snap : TicketSnapshots, decision : Decisions]

\* Every row and every open transaction has the shape its columns have.
TypeOK ==
    /\ TicketTypeOK
    /\ TaskTypeOK
    /\ ApprovalTypeOK
    /\ attemptStage \in [Tasks -> [Attempts -> Stages]]
    /\ applyTxn \in [Tasks -> ApplyTxns \cup {NoTxn}]
    /\ decisionTxn \in [Approvals -> DecisionTxns \cup {NoTxn}]
    /\ requeueTxn \in [Requests -> TicketSnapshots \cup {NoTxn}]

Init ==
    /\ TicketInit
    /\ TaskInit
    /\ ApprovalInit
    /\ attemptStage = [k \in Tasks |-> [n \in Attempts |-> "none"]]
    /\ applyTxn = [k \in Tasks |-> NoTxn]
    /\ decisionTxn = [a \in Approvals |-> NoTxn]
    /\ requeueTxn = [r \in Requests |-> NoTxn]

-----------------------------------------------------------------------------
(* TicketService: intake, retry and customer messages.                     *)

\* create: one transaction inserts the ticket (version 0), queues it (version
\* 1) and inserts its first task.
CreateTicket(t, k) ==
    /\ ticketStatus[t] = "absent"
    /\ ticketStatus' = [ticketStatus EXCEPT ![t] = "AI_QUEUED"]
    /\ ticketVersion' = [ticketVersion EXCEPT ![t] = 1]
    /\ InsertTask(k, t, 1)
    /\ UNCHANGED <<approvalVars, threadVars>>

\* retry accepts both statuses, addCustomerMessage only WAITING_CUSTOMER.
RequeueableStatuses == {"AI_FAILED", "WAITING_CUSTOMER"}

BeginRequeue(r, t) ==
    /\ requeueTxn[r] = NoTxn
    /\ ticketStatus[t] \in RequeueableStatuses
    /\ requeueTxn' = [requeueTxn EXCEPT ![r] = TicketSnapshot(t)]
    /\ UNCHANGED <<ticketVars, taskVars, approvalVars, attemptStage, applyTxn, decisionTxn>>

\* queue: the new task carries the version the ticket has after the flush.
CommitRequeue(r, k) ==
    /\ requeueTxn[r] # NoTxn
    /\ UpdateTicket(requeueTxn[r], "AI_QUEUED")
    /\ InsertTask(k, requeueTxn[r].ticket, requeueTxn[r].version + 1)
    /\ requeueTxn' = [requeueTxn EXCEPT ![r] = NoTxn]
    /\ UNCHANGED <<approvalVars, attemptStage, applyTxn, decisionTxn>>

AbortRequeue(r) ==
    /\ requeueTxn[r] # NoTxn
    /\ requeueTxn' = [requeueTxn EXCEPT ![r] = NoTxn]
    /\ UNCHANGED <<ticketVars, taskVars, approvalVars, attemptStage, applyTxn, decisionTxn>>

-----------------------------------------------------------------------------
(* AiTaskWorker and AiTaskExecutor: one thread per attempt.                *)

SetStage(k, n, stage) == attemptStage' = [attemptStage EXCEPT ![k][n] = stage]

AttemptsIn(stages) == {kn \in Tasks \X Attempts : attemptStage[kn[1]][kn[2]] \in stages}

\* AiTaskPersistence.prepare, from the AFTER_COMMIT wake-up or from the
\* dispatcher's scan: of several callers only the one that still finds the task
\* PENDING under the row lock goes on.
Claim(k) ==
    /\ applyTxn[k] = NoTxn
    /\ StartTask(k)
    /\ SetStage(k, attemptCount[k] + 1, "claimed")
    /\ UNCHANGED <<ticketVars, approvalVars, applyTxn, decisionTxn, requeueTxn>>

\* AiTaskExecutor.execute is @Async: the attempt gets a thread or a queue place.
Submit(k, n) ==
    /\ attemptStage[k][n] = "claimed"
    /\ Cardinality(AttemptsIn({"executing", "applying"})) < PoolCapacity
    /\ SetStage(k, n, "executing")
    /\ UNCHANGED <<ticketVars, taskVars, approvalVars, applyTxn, decisionTxn, requeueTxn>>

\* The pool refuses it (threads that still record a failure may count as busy);
\* process catches the exception, which classifies as retryable.
RejectSubmission(k, n) ==
    /\ attemptStage[k][n] = "claimed"
    /\ Cardinality(AttemptsIn(Stages \ {"none", "claimed"})) >= PoolCapacity
    /\ SetStage(k, n, "failed_retryable")
    /\ UNCHANGED <<ticketVars, taskVars, approvalVars, applyTxn, decisionTxn, requeueTxn>>

\* AiClient.analyze throws: an HTTP status, a timeout, an identity mismatch;
\* AiFailureClassifier says whether another attempt may help.
AnalysisFails(k, n) ==
    /\ attemptStage[k][n] = "executing"
    /\ \E stage \in {"failed_retryable", "failed_final"} : SetStage(k, n, stage)
    /\ UNCHANGED <<ticketVars, taskVars, approvalVars, applyTxn, decisionTxn, requeueTxn>>

\* apply's check under the row lock, and that check left out.
AnyTaskAcceptsResult(k) == taskStatus[k] # "absent"
TaskAcceptsResult(k) == taskStatus[k] = "RUNNING"

\* AiTaskPersistence.apply up to its first write.  The AI service echoes the
\* ids and the version of the request, so only the ticket's version can differ.
BeginApply(k, n, answer) ==
    /\ attemptStage[k][n] = "executing"
    /\ applyTxn[k] = NoTxn
    /\ TaskAcceptsResult(k)
    /\ SetStage(k, n, "applying")
    /\ applyTxn' = [applyTxn EXCEPT ![k] =
                       [snap |-> TicketSnapshot(taskTicket[k]), open |-> OpenTypes(taskTicket[k]),
                        attempt |-> n, answer |-> answer]]
    /\ UNCHANGED <<ticketVars, taskVars, approvalVars, decisionTxn, requeueTxn>>

\* The attempt comes too late: another one, or the recovery, took the task over.
RefuseLateResult(k, n) ==
    /\ attemptStage[k][n] = "executing"
    /\ applyTxn[k] = NoTxn
    /\ ~TaskAcceptsResult(k)
    /\ SetStage(k, n, "failed_final")
    /\ UNCHANGED <<ticketVars, taskVars, approvalVars, applyTxn, decisionTxn, requeueTxn>>

\* apply's version comparison, and that comparison left out.
NoStaleResults(k, snap) == FALSE
ResultIsStale(k, snap) == snap.version # taskVersion[k]

EndApply(k, stage) ==
    /\ applyTxn' = [applyTxn EXCEPT ![k] = NoTxn]
    /\ SetStage(k, applyTxn[k].attempt, stage)
    /\ UNCHANGED <<decisionTxn, requeueTxn>>

\* The stale branch: the task fails; a ticket that the transaction read as
\* AI_QUEUED goes to human review whatever version it has.
CommitStaleResult(k) ==
    /\ applyTxn[k] # NoTxn
    /\ ResultIsStale(k, applyTxn[k].snap)
    /\ IF applyTxn[k].snap.status = "AI_QUEUED"
       THEN /\ CanRouteToHumanReview("AI_QUEUED")
            /\ SnapshotIsCurrent(applyTxn[k].snap)
            /\ MoveTickets({applyTxn[k].snap.ticket}, "HUMAN_REVIEW")
       ELSE UNCHANGED ticketVars
    /\ SetTaskStatus(k, "FAILED")
    /\ EndApply(k, "none")
    /\ UNCHANGED approvalVars

\* The ticket status each recommendation leads to.
NextStatus(answer) ==
    CASE answer = "QUERY_LOGISTICS" -> "RESOLVED"
      [] answer = "REQUEST_COUPON_APPROVAL" -> "PENDING_APPROVAL"
      [] answer = "REQUEST_CUSTOMER_EVIDENCE" -> "WAITING_CUSTOMER"
      [] OTHER -> "HUMAN_REVIEW"

\* The approval a recommendation asks for, and the same without looking for an
\* open one.
AlwaysWantsApproval(answer, open) ==
    CASE answer = "REQUEST_COUPON_APPROVAL" -> {"coupon_compensation"}
      [] answer = "ESCALATE_REFUND_REVIEW" -> {"refund_review"}
      [] OTHER -> {}
WantedApprovals(answer, open) ==
    (CASE answer = "REQUEST_COUPON_APPROVAL" -> {"coupon_compensation"}
       [] answer = "ESCALATE_REFUND_REVIEW" -> {"refund_review"}
       [] OTHER -> {}) \ open

CommitResult(k) ==
    /\ applyTxn[k] # NoTxn
    /\ ~ResultIsStale(k, applyTxn[k].snap)
    /\ applyTxn[k].answer # "INVALID"
    /\ UpdateTicket(applyTxn[k].snap, NextStatus(applyTxn[k].answer))
    /\ LET wanted == WantedApprovals(applyTxn[k].answer, applyTxn[k].open)
       IN  IF wanted = {}
           THEN UNCHANGED approvalVars
           ELSE \E a \in Approvals, type \in wanted :
                    InsertApproval(a, applyTxn[k].snap.ticket, type)
    /\ SetTaskStatus(k, "SUCCEEDED")
    /\ EndApply(k, "none")

\* An unusable recommendation is an IllegalArgumentException, a ticket changed
\* since it was read an optimistic lock failure: both roll back, and the
\* executor records the failure, as final or as retryable.
RollbackApply(k) ==
    /\ applyTxn[k] # NoTxn
    /\ \/ /\ ~ResultIsStale(k, applyTxn[k].snap)
          /\ applyTxn[k].answer = "INVALID"
          /\ EndApply(k, "failed_final")
       \/ /\ IF ResultIsStale(k, applyTxn[k].snap)
             THEN applyTxn[k].snap.status = "AI_QUEUED"
             ELSE applyTxn[k].answer # "INVALID"
          /\ ~SnapshotIsCurrent(applyTxn[k].snap)
          /\ EndApply(k, "failed_retryable")
    /\ UNCHANGED <<ticketVars, taskVars, approvalVars>>

-----------------------------------------------------------------------------
(* Failures, retries and recovery.                                         *)

\* The failed task is the one its ticket is waiting for.
TicketAwaits(k) ==
    /\ ticketVersion[taskTicket[k]] = taskVersion[k]
    /\ ticketStatus[taskTicket[k]] = "AI_QUEUED"

\* Whose ticket goes to human review when the tasks of K fail for good, and the
\* same with no ticket routed, and with tickets that await something else.
RouteNobody(K) == {}
RouteAnyTicket(K) == {taskTicket[k] : k \in K}
TicketsToEscalate(K) == {taskTicket[k] : k \in {j \in K : TicketAwaits(j)}}

\* One transaction over RUNNING tasks: each is scheduled again or fails.
RetryOrFail(K, retryable) ==
    LET failed == {k \in K : ~ShouldRetry(attemptCount[k], retryable)}
    IN  /\ taskStatus' = [k \in Tasks |-> IF k \in failed THEN "FAILED"
                                          ELSE IF k \in K THEN "PENDING"
                                          ELSE taskStatus[k]]
        /\ MoveTickets(TicketsToEscalate(failed), "HUMAN_REVIEW")
        /\ UNCHANGED <<taskTicket, taskVersion, attemptCount>>

\* AiTaskPersistence.recordFailure: it knows the task, not the attempt, so a
\* late failure is charged to whichever attempt is RUNNING.
RecordFailure(k, n) ==
    /\ attemptStage[k][n] \in {"failed_retryable", "failed_final"}
    /\ applyTxn[k] = NoTxn
    /\ IF taskStatus[k] = "RUNNING"
       THEN RetryOrFail({k}, attemptStage[k][n] = "failed_retryable")
       ELSE UNCHANGED <<ticketVars, taskVars>>
    /\ SetStage(k, n, "none")
    /\ UNCHANGED <<approvalVars, applyTxn, decisionTxn, requeueTxn>>

\* The thread is gone: the process crashed, or recordFailure itself failed.  An
\* open apply transaction is rolled back.
LoseAttempt(k, n) ==
    /\ attemptStage[k][n] # "none"
    /\ SetStage(k, n, "none")
    /\ applyTxn' = IF attemptStage[k][n] = "applying"
                   THEN [applyTxn EXCEPT ![k] = NoTxn] ELSE applyTxn
    /\ UNCHANGED <<ticketVars, taskVars, approvalVars, decisionTxn, requeueTxn>>

\* AiTaskPersistence.recoverExpiredLeases: all of the batch or, when the version
\* of a ticket it routes has changed, nothing.  A lease may run out while the
\* attempt is alive, since waiting in the pool's queue counts against it.  With
\* one task it is also what recordFailure does when process fails in prepare
\* while another thread holds the task.
RecoverAwaitedLeases(K) ==
    /\ K # {} /\ Cardinality(K) <= BatchSize
    /\ \A k \in K : taskStatus[k] = "RUNNING" /\ applyTxn[k] = NoTxn /\ TicketAwaits(k)
    /\ RetryOrFail(K, TRUE)
    /\ UNCHANGED <<approvalVars, threadVars>>
NeverRecover(K) == FALSE
RecoverExpiredLeases(K) ==
    /\ K # {} /\ Cardinality(K) <= BatchSize
    /\ \A k \in K : taskStatus[k] = "RUNNING" /\ applyTxn[k] = NoTxn
    /\ RetryOrFail(K, TRUE)
    /\ UNCHANGED <<approvalVars, threadVars>>

-----------------------------------------------------------------------------
(* ApprovalService: decisions of agents and supervisors.                   *)

\* The guards of approveCoupon, reviewRefund and reject on the approval row.  An
\* actor with the role each asks for exists, so roles and amounts are left out.
MayDecide(a, decision) ==
    /\ approvalStatus[a] \in (IF decision = "approve_coupon" THEN {"pending"}
                              ELSE OpenStatuses)
    /\ approvalType[a] \in
          CASE decision = "approve_coupon" -> {"coupon_compensation"}
            [] decision = "reject" -> ApprovalTypes
            [] OTHER -> {"refund_review"}

\* Begins with the approval's row lock; the coupon is issued at the gateway
\* after the ticket has been read and before its transition is tried.
BeginDecision(a, decision) ==
    /\ decisionTxn[a] = NoTxn
    /\ MayDecide(a, decision)
    /\ decisionTxn' = [decisionTxn EXCEPT ![a] =
                          [snap |-> TicketSnapshot(approvalTicket[a]), decision |-> decision]]
    /\ couponsIssued' = IF decision = "approve_coupon" THEN couponsIssued \cup {a}
                        ELSE couponsIssued
    /\ UNCHANGED <<ticketVars, taskVars, approvalStatus, approvalType, approvalTicket,
                   execution, attemptStage, applyTxn, requeueTxn>>

\* The rows a decision writes: approval status, execution row, ticket status.
DecidedByEnumName(decision) ==
    IF decision = "reject" THEN "REJECTED" ELSE "APPROVED"
DecidedStatus(decision) ==
    CASE decision = "reject" -> "rejected"
      [] decision = "request_evidence" -> "in_review"
      [] OTHER -> "approved"
ExecutionOf(decision) ==
    CASE decision = "approve_coupon" -> "succeeded"
      [] decision = "approve_refund" -> "manual_required"
      [] OTHER -> "none"
TicketAfter(decision) ==
    IF decision = "request_evidence" THEN "WAITING_CUSTOMER" ELSE "RESOLVED"

CommitDecision(a) ==
    /\ decisionTxn[a] # NoTxn
    /\ UpdateTicket(decisionTxn[a].snap, TicketAfter(decisionTxn[a].decision))
    /\ DecideApproval(a, DecidedStatus(decisionTxn[a].decision),
                      ExecutionOf(decisionTxn[a].decision))
    /\ decisionTxn' = [decisionTxn EXCEPT ![a] = NoTxn]
    /\ UNCHANGED <<taskVars, attemptStage, applyTxn, requeueTxn>>

AbortDecision(a) ==
    /\ decisionTxn[a] # NoTxn
    /\ decisionTxn' = [decisionTxn EXCEPT ![a] = NoTxn]
    /\ UNCHANGED <<ticketVars, taskVars, approvalVars, attemptStage, applyTxn, requeueTxn>>

\* assignSupervisor writes only the approval row.
AssignSupervisor(a) ==
    /\ decisionTxn[a] = NoTxn
    /\ approvalStatus[a] = "pending"
    /\ approvalType[a] = "refund_review"
    /\ DecideApproval(a, "in_review", execution[a])
    /\ UNCHANGED <<ticketVars, taskVars, threadVars>>

-----------------------------------------------------------------------------
CustomerStep ==
    \/ \E t \in Tickets, k \in Tasks : CreateTicket(t, k)
    \/ \E r \in Requests, t \in Tickets : BeginRequeue(r, t)
    \/ \E r \in Requests, k \in Tasks : CommitRequeue(r, k)
    \/ \E r \in Requests : AbortRequeue(r)

AttemptEnds(k, n) ==
    \/ AnalysisFails(k, n)
    \/ \E answer \in Answers : BeginApply(k, n, answer)
    \/ RefuseLateResult(k, n)

ApplyEnds(k) == CommitStaleResult(k) \/ CommitResult(k) \/ RollbackApply(k)

WorkerStep ==
    \/ \E k \in Tasks : Claim(k) \/ ApplyEnds(k)
    \/ \E k \in Tasks, n \in Attempts :
          \/ Submit(k, n) \/ RejectSubmission(k, n)
          \/ AttemptEnds(k, n)
          \/ RecordFailure(k, n) \/ LoseAttempt(k, n)
    \/ \E K \in SUBSET Tasks : RecoverExpiredLeases(K)

ApprovalStep ==
    \E a \in Approvals :
        \/ \E decision \in Decisions : BeginDecision(a, decision)
        \/ CommitDecision(a) \/ AbortDecision(a) \/ AssignSupervisor(a)

Next == CustomerStep \/ WorkerStep \/ ApprovalStep

Spec == Init /\ [][Next]_vars

\* The pool's threads run, every call to the AI service ends (read timeout), the
\* scheduler keeps scanning, oldest due and oldest expired task first.  Customers,
\* agents and supervisors owe nothing; threads may be lost at any time.
Fairness ==
    /\ \A k \in Tasks :
          /\ WF_vars(Claim(k))
          /\ WF_vars(ApplyEnds(k))
          /\ WF_vars(\E K \in SUBSET Tasks : k \in K /\ RecoverExpiredLeases(K))
    /\ \A k \in Tasks, n \in Attempts :
          /\ WF_vars(Submit(k, n) \/ RejectSubmission(k, n))
          /\ WF_vars(AttemptEnds(k, n))
          /\ WF_vars(RecordFailure(k, n))

FairSpec == Spec /\ Fairness

-----------------------------------------------------------------------------
(* Properties.                                                             *)

\* No ticket is lost: a ticket in AI_QUEUED has a task of its current version
\* that is still PENDING or RUNNING, whatever crashed, came late or collided
\* (TicketService.queue, AiTaskPersistence).
QueuedTicketHasLiveTask ==
    \A t \in Tickets : ticketStatus[t] = "AI_QUEUED" =>
        \E k \in Tasks : /\ taskTicket[k] = t
                         /\ taskVersion[k] = ticketVersion[t]
                         /\ taskStatus[k] \in LiveStatuses

\* The version alone decides whether a task is current: as long as no one has
\* written the ticket since the task was queued, the ticket is still AI_QUEUED, so
\* apply can never meet an illegal transition (AiTaskPersistence.apply).
CurrentTaskMeansQueued ==
    \A k \in Tasks :
        /\ taskStatus[k] # "absent"
        /\ taskVersion[k] = ticketVersion[taskTicket[k]]
        => ticketStatus[taskTicket[k]] = "AI_QUEUED"

\* Retries are bounded: no attempt beyond the maximum starts, also when
\* recoveries and late failures of earlier attempts use attempts up
\* (AiRetryPolicy.shouldRetry, recordFailure, recoverExpiredLeases).
AttemptsAreBounded ==
    \A k \in Tasks : /\ attemptCount[k] <= MaxAttempts
                     /\ taskStatus[k] = "PENDING" => attemptCount[k] < MaxAttempts

\* At most one approval of each type is open on a ticket, although the existence
\* check and the insert of apply are not protected by any lock or constraint.
OneOpenApprovalPerType ==
    \A a, b \in Approvals :
        /\ approvalStatus[a] \in OpenStatuses
        /\ approvalStatus[b] \in OpenStatuses
        /\ approvalTicket[a] = approvalTicket[b]
        /\ approvalType[a] = approvalType[b]
        => a = b

\* Money moves at most once per ticket and only by an approval that stays on
\* record: an execution row belongs to an approved approval of a RESOLVED ticket,
\* and no ticket has two (ApprovalService, BusinessActionService).
MoneyMovesOnce ==
    /\ \A a \in Approvals : execution[a] # "none" =>
          approvalStatus[a] = "approved" /\ ticketStatus[approvalTicket[a]] = "RESOLVED"
    /\ \A a, b \in Approvals :
          /\ execution[a] # "none"
          /\ execution[b] # "none"
          /\ approvalTicket[a] = approvalTicket[b]
          => a = b

\* At most one coupon reaches the customer of a ticket, over all rounds, although the
\* gateway issues it before the transaction that records it commits, and a rolled
\* back approval is decided again (ApprovalService.approveCoupon, BusinessActionService).
OneCouponPerTicket ==
    \A a, b \in couponsIssued : approvalTicket[a] = approvalTicket[b] => a = b

\* Task rows refer to existing tickets, no task runs ahead of its ticket's version,
\* and an apply transaction, which holds the task's row lock, keeps it RUNNING.
TaskRowsAgree ==
    /\ \A t \in Tickets : ticketStatus[t] = "absent" => ticketVersion[t] = 0
    /\ \A k \in Tasks : taskStatus[k] # "absent" =>
          /\ taskTicket[k] \in Tickets
          /\ ticketStatus[taskTicket[k]] # "absent"
          /\ taskVersion[k] <= ticketVersion[taskTicket[k]]
    /\ \A k \in Tasks : applyTxn[k] # NoTxn =>
          /\ taskStatus[k] = "RUNNING"
          /\ applyTxn[k].snap.ticket = taskTicket[k]
          /\ taskVersion[k] <= applyTxn[k].snap.version

\* Approval rows refer to tickets, and a decision, which holds the approval's row
\* lock, keeps the approval decidable.
ApprovalRowsAgree ==
    /\ \A a \in Approvals : approvalStatus[a] # "absent" => approvalTicket[a] \in Tickets
    /\ \A a \in Approvals : decisionTxn[a] # NoTxn =>
          /\ MayDecide(a, decisionTxn[a].decision)
          /\ decisionTxn[a].snap.ticket = approvalTicket[a]

RowsAndLocksAgree == TaskRowsAgree /\ ApprovalRowsAgree

\* A snapshot is of a version the ticket has had, and while that version is still
\* the current one, so is the status read with it.
IsPast(snap) ==
    /\ snap.version <= ticketVersion[snap.ticket]
    /\ snap.version = ticketVersion[snap.ticket] => snap.status = ticketStatus[snap.ticket]

SnapshotsArePast ==
    /\ \A k \in Tasks : applyTxn[k] # NoTxn => IsPast(applyTxn[k].snap)
    /\ \A a \in Approvals : decisionTxn[a] # NoTxn => IsPast(decisionTxn[a].snap)
    /\ \A r \in Requests : requeueTxn[r] # NoTxn => IsPast(requeueTxn[r])

\* The inductive invariant behind the theorems of BusinessServiceProofs.
ServiceInv ==
    /\ TypeOK
    /\ RowsAndLocksAgree
    /\ SnapshotsArePast
    /\ CurrentTaskMeansQueued
    /\ QueuedTicketHasLiveTask
    /\ MoneyMovesOnce

\* An apply transaction that may still commit knows every open approval of its
\* ticket: inserting another one would have changed the ticket's version.
OpenApprovalsAreKnown ==
    \A k \in Tasks :
        applyTxn[k] # NoTxn /\ SnapshotIsCurrent(applyTxn[k].snap)
        => OpenTypes(applyTxn[k].snap.ticket) \subseteq applyTxn[k].open

\* A recommendation is applied only to the version it was computed from, while
\* the ticket still waits for it (the check of apply plus the @Version column).
AppliedToItsVersion ==
    [][\A k \in Tasks : taskStatus[k] # "SUCCEEDED" /\ taskStatus'[k] = "SUCCEEDED"
                           => TicketAwaits(k)]_vars

\* A task that SUCCEEDED or FAILED never changes again: neither a late answer nor a
\* late failure of an overtaken attempt reopens it, and nothing is applied twice.
TerminalTaskIsFinal ==
    [][\A k \in Tasks : taskStatus[k] \in TerminalStatuses
                           => taskStatus'[k] = taskStatus[k]]_vars

\* Every queued ticket is eventually taken out of AI_QUEUED, by an answer, an
\* escalation or a decision, under crashes, lost threads and a full pool.
QueuedTicketIsAnswered ==
    \A t \in Tickets : ticketStatus[t] = "AI_QUEUED" ~> ticketStatus[t] # "AI_QUEUED"

\* No task stays live for ever, not even one whose ticket has moved on.
EveryTaskEnds ==
    \A k \in Tasks : taskStatus[k] \in LiveStatuses
                        ~> taskStatus[k] \in TerminalStatuses

\* The ticket as TicketLifecycle sees it: its status, and the execution rows of its
\* approvals.
PhaseOf(status) ==
    CASE status = "absent" -> "absent"
      [] status = "AI_QUEUED" -> "ai"
      [] status = "WAITING_CUSTOMER" -> "customer"
      [] status = "RESOLVED" -> "resolved"
      [] OTHER -> "people"
HasExecution(t, status) ==
    \E a \in Approvals : approvalTicket[a] = t /\ execution[a] = status
Granted(t) ==
    CASE HasExecution(t, "succeeded") -> "coupon"
      [] HasExecution(t, "manual_required") -> "refund"
      [] OTHER -> "nothing"

Lifecycle == INSTANCE TicketLifecycle WITH
                phase <- [t \in Tickets |-> PhaseOf(ticketStatus[t])],
                granted <- [t \in Tickets |-> Granted(t)]

\* In each step of the service at most the tickets of one transaction move, each
\* along an edge of the lifecycle; a RESOLVED ticket stays resolved, with what was
\* granted in the step that resolved it (all of the writing handlers together).
FollowsLifecycle == Lifecycle!Safety

\* The service implements the lifecycle, its rounds with the AI included: each of
\* them ends.
ImplementsLifecycle == Lifecycle!Spec

\* Safety invariant 5 of docs/production-shaped-architecture.md, line 69: an
\* outdated task does not change a ticket that has moved on.
OutdatedTaskLeavesTicketAlone ==
    [][\A k \in Tasks :
          /\ taskStatus[k] = "RUNNING"
          /\ taskStatus'[k] \in TerminalStatuses
          /\ taskVersion[k] # ticketVersion[taskTicket[k]]
          => UNCHANGED ticketStatus[taskTicket[k]]]_vars

\* docs/production-shaped-architecture.md, line 58: a ticket whose retries are
\* exhausted is in the human review queue.  That queue is ApprovalService.list,
\* the open approvals.
HumanReviewIsInQueue ==
    \A t \in Tickets : ticketStatus[t] = "HUMAN_REVIEW" =>
        \E a \in Approvals : approvalTicket[a] = t /\ approvalStatus[a] \in OpenStatuses

\* README.md, line 18: every coupon issued has its execution record.
IssuedCouponIsRecorded ==
    \A a \in couponsIssued : decisionTxn[a] = NoTxn => execution[a] = "succeeded"

=============================================================================
